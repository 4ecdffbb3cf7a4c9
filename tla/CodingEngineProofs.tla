--------------------------- MODULE CodingEngineProofs ---------------------------
(***************************************************************************)
(* Proofs about CodingEngine, for every set of runs and snapshots, every    *)
(* bound and every environment.                                             *)
(***************************************************************************)
EXTENDS CodingEngine, FiniteSetTheorems, TLAPS

--------------------------------------------------------------------------------
(* The inductive invariant, run by run. *)

Critical == {"patching", "commit", "committed"}
Holders == Critical \cup {"launching", "proving"}

(* An operation with a visible middle has its queues for as long as it is   *)
(* in that middle; a run's own queue is held by nothing else of that run.   *)
LockShape(r) ==
  /\ inv[r].pc \in Holders => auth = r
  /\ inv[r].pc \in Critical <=> rlock[r] = r

(* A fence that saves or disposes has the queue of its run.                 *)
FenceShape ==
  fence.pc \in {"save", "dispose"} => fence.run \in Runs /\ rlock[fence.run] = "fence"

(* A provider call is in flight only for an invocation that waits for it,   *)
(* or that will not end before it.                                          *)
FlightShape(r) ==
  /\ inflight[r] \in {0, 1}
  /\ inflight[r] = 1 => inv[r].pc \in {"deciding", "failing", "quiet"}
  /\ inv[r].pc = "deciding" => inflight[r] = 1

(* A record is on its barrier exactly when an effect is pending, and what is *)
(* pending is what was validated, recorded and reviewed.                    *)
RecordShape(r) ==
  Exists(r) =>
    /\ run[r].st = "validating" <=> run[r].pend # None
    /\ run[r].pend # None =>
         /\ run[r].pend = <<run[r].instr, run[r].diff>>
         /\ run[r].pend \in run[r].passed \cap run[r].approved \cap Proofs(r)
         /\ CurrentPlan(run[r])

(* What is known between two steps of a patch or of a commit.               *)
MiddleShape(r) ==
  /\ inv[r].pc = "patching" =>
       /\ Exists(r) /\ Mutable(run[r], FALSE) /\ CanPatch(run[r])
       /\ copy[r] # None
  /\ inv[r].pc \in {"commit", "committed"} => Exists(r) /\ run[r].pend # None
  /\ inv[r].pc = "commit" => CommittedBy(r) = {} /\ copy[r] = run[r].pend[2]
  /\ inv[r].pc = "committed" => CommittedBy(r) # {}

(* Evidence that is being written is of the record's instruction and diff,   *)
(* also when a fence has closed the run meanwhile: whoever changes either     *)
(* needs the authority, and only the fence does without it.                   *)
ProvingShape(r) ==
  inv[r].pc = "proving" => Exists(r) /\ inv[r].at = <<run[r].instr, run[r].diff>>

(* At most one effect, and only of a run that says so or is on its barrier. *)
EffectShape(r) ==
  /\ \A i, j \in CommittedBy(r) : i = j
  /\ CommittedBy(r) # {} /\ Exists(r) => run[r].st \in {"completed", "validating"}
  /\ Exists(r) /\ run[r].st = "completed" => CommittedBy(r) # {}

TreeShape(r) ==
  r \in mem /\ Alive(r) /\ run[r].pend = None /\ rlock[r] # r => copy[r] = run[r].diff

(* What bears the name of a run has a record: only the deletion of a project *)
(* removes records, and it removes the evidence first.                       *)
KnownShape(r) ==
  /\ CommittedBy(r) # {} /\ Available => Exists(r)
  /\ Proofs(r) # {} => Exists(r)

IInv ==
  /\ TypeOK /\ hist # <<>> /\ FenceShape
  /\ \A r \in Runs : /\ LockShape(r) /\ FlightShape(r) /\ RecordShape(r)
                     /\ MiddleShape(r) /\ EffectShape(r) /\ TreeShape(r) /\ KnownShape(r)
                     /\ ProvingShape(r)

Invocations == [pc : InvPc, at : Receipt \cup {None}, ok : BOOLEAN, out : Outcome]

--------------------------------------------------------------------------------
(* What the transitions of a record keep. *)

(* A record that goes on: same tree, no effect pending.                     *)
GoesOn(old, new) ==
  /\ new \in Run /\ new.diff = old.diff /\ new.pend = old.pend
  /\ new.st \in {old.st, "running", "waiting_input"}

(* Saves of a run that goes on touch neither its tree nor what is pending.  *)
LEMMA Saves ==
  ASSUME NEW rec \in Run
  PROVE /\ GoesOn(rec, Claimed(rec)) /\ GoesOn(rec, Paused(rec)) /\ GoesOn(rec, Resumed(rec))
        /\ GoesOn(rec, Planned(rec))
        /\ \A s \in Snaps : GoesOn(rec, Mapped(rec, s))
        /\ rec.instr < MaxInstr => GoesOn(rec, Revised(rec))
<1>1. GoesOn(rec, Claimed(rec)) BY DEF GoesOn, Run, Claimed
<1>2. GoesOn(rec, Paused(rec)) BY DEF GoesOn, Run, LiveStatus, Claimed, Paused
<1>3. GoesOn(rec, Resumed(rec)) BY DEF GoesOn, Run, LiveStatus, Claimed, Resumed
<1>4. GoesOn(rec, Planned(rec)) BY DEF GoesOn, Run, Claimed, Planned
<1>5. ASSUME NEW s \in Snaps PROVE GoesOn(rec, Mapped(rec, s)) BY DEF GoesOn, Run, Claimed, Mapped
<1>6. ASSUME rec.instr < MaxInstr PROVE GoesOn(rec, Revised(rec))
  <2>1. rec.instr + 1 \in Instr BY <1>6, BoundsAssumption DEF Run, Instr
  <2>2. Claimed(rec) \in Run /\ Claimed(rec).instr = rec.instr /\ Claimed(rec).diff = rec.diff
        /\ Claimed(rec).pend = rec.pend
    BY DEF Run, Claimed
  <2> QED BY <2>1, <2>2 DEF GoesOn, Run, LiveStatus, Revised
<1> QED BY <1>1, <1>2, <1>3, <1>4, <1>5, <1>6

(* A result is booked on the instruction and the tree it was taken of.      *)
LEMMA Bookings ==
  ASSUME NEW rec \in Run, NEW s \in Snaps, NEW at, NEW ok \in BOOLEAN
  PROVE GoesOn(rec, Validated(rec, s, at, ok)) /\ GoesOn(rec, Reviewed(rec, s, at, ok))
<1>1. Fresh(rec, s, at) => at \in Receipt BY DEF Fresh, Receipt, Run
<1>2. GoesOn(rec, Validated(rec, s, at, ok))
  BY <1>1 DEF GoesOn, Run, Claimed, Validated
<1>3. GoesOn(rec, Reviewed(rec, s, at, ok))
  BY <1>1 DEF GoesOn, Run, Claimed, Reviewed
<1> QED BY <1>2, <1>3

(* A record that closes without its effect.                                 *)
Closes(old, new) ==
  /\ new \in Run /\ new.diff = old.diff /\ new.instr = old.instr
  /\ new.st \in TerminalStatus \ {"completed"}
  /\ new.pend \in {None, old.pend}

(* A closing transition leaves the tree named by the record as it is.       *)
LEMMA Closings ==
  ASSUME NEW rec \in Run
  PROVE /\ Closes(rec, Stale(rec)) /\ Closes(rec, Cancelled(rec))
        /\ Closes(rec, Failed(rec)) /\ Closes(rec, Ambiguous(rec))
BY DEF Closes, Run, Stale, Cancelled, Failed, Ambiguous, TerminalStatus

(* The completed record, the patched one and the prepared one.              *)
LEMMA Milestones ==
  ASSUME NEW rec \in Run, NEW s \in Snaps
  PROVE /\ Completed(rec) \in Run /\ Completed(rec).st = "completed"
        /\ Completed(rec).pend = None /\ Completed(rec).diff = rec.diff
        /\ rec.patches < MaxPatches =>
             /\ Patched(rec, s) \in Run /\ Patched(rec, s).st = rec.st
             /\ Patched(rec, s).pend = rec.pend /\ Patched(rec, s).diff = s
        /\ Prepared(rec, s) \in Run /\ Prepared(rec, s).st = "validating"
        /\ Prepared(rec, s).pend = <<rec.instr, s>> /\ Prepared(rec, s).diff = s
        /\ Prepared(rec, s).instr = rec.instr /\ Prepared(rec, s).passed = rec.passed
        /\ Prepared(rec, s).approved = rec.approved
        /\ (CurrentPlan(Prepared(rec, s)) <=> CurrentPlan(rec))
<1>1. /\ Completed(rec) \in Run /\ Completed(rec).st = "completed"
      /\ Completed(rec).pend = None /\ Completed(rec).diff = rec.diff
  BY DEF Completed, Run, TerminalStatus
<1>2. ASSUME rec.patches < MaxPatches
      PROVE /\ Patched(rec, s) \in Run /\ Patched(rec, s).st = rec.st
            /\ Patched(rec, s).pend = rec.pend /\ Patched(rec, s).diff = s
  <2>1. rec.patches + 1 \in 0 .. MaxPatches BY <1>2, BoundsAssumption DEF Run
  <2>2. Claimed(rec) \in Run /\ Claimed(rec).patches = rec.patches /\ Claimed(rec).st = rec.st
        /\ Claimed(rec).pend = rec.pend
    BY DEF Run, Claimed
  <2>3. rec.instr \in Instr BY DEF Run
  <2> QED BY <2>1, <2>2, <2>3 DEF Run, Patched
<1>3. /\ Prepared(rec, s) \in Run /\ Prepared(rec, s).st = "validating"
      /\ Prepared(rec, s).pend = <<rec.instr, s>> /\ Prepared(rec, s).diff = s
      /\ Prepared(rec, s).instr = rec.instr /\ Prepared(rec, s).passed = rec.passed
      /\ Prepared(rec, s).approved = rec.approved
  <2>1. <<rec.instr, s>> \in Receipt BY DEF Receipt, Run
  <2> QED BY <2>1 DEF Prepared, Claimed, Run, LiveStatus
<1>4. CurrentPlan(Prepared(rec, s)) <=> CurrentPlan(rec)
  BY DEF Prepared, Claimed, Run, CurrentPlan
<1> QED BY <1>1, <1>2, <1>3, <1>4

(* A run starts on the project as it is.                                    *)
LEMMA Fresher ==
  ASSUME NEW rev \in Nat, NEW s \in Snaps
  PROVE /\ NewRun(rev, s) \in Run /\ NewRun(rev, s).st = "running"
        /\ NewRun(rev, s).pend = None /\ NewRun(rev, s).diff = s
BY BoundsAssumption DEF NewRun, Run, LiveStatus, Instr

(* A lease that changes hands changes nothing else of the record.           *)
SameButLease(old, new) ==
  /\ new \in Run
  /\ new.st = old.st /\ new.pend = old.pend /\ new.diff = old.diff /\ new.instr = old.instr
  /\ new.passed = old.passed /\ new.approved = old.approved
  /\ new.map = old.map /\ new.plan = old.plan /\ new.patches = old.patches

(* An expiry or a new process does so.                                      *)
LEMMA Leasing ==
  ASSUME NEW rec \in Run, NEW w \in {"other", "expired"}
  PROVE SameButLease(rec, [rec EXCEPT !.writer = w])
BY DEF Run, SameButLease

--------------------------------------------------------------------------------
(* The invocation, its queues and its provider call. *)

Turned(r, pc) ==
  /\ inv' \in [Runs -> Invocations] /\ inv'[r].pc = pc
  /\ \A q \in Runs \ {r} : inv'[q] = inv[q]

(* The ways an invocation goes from one place to another.                   *)
LEMMA Turns ==
  ASSUME TypeOK, NEW r \in Runs, NEW pc \in InvPc
  PROVE /\ GoTo(r, pc) => Turned(r, pc)
        /\ Again(r) => Turned(r, "loop")
        /\ Back(r, pc) => Turned(r, pc)
        /\ \A out \in Outcome : Leave(r, out) => Turned(r, "quiet")
        /\ \A ok \in BOOLEAN :
             inv' = [inv EXCEPT ![r].pc = pc, ![r].ok = ok] => Turned(r, pc)
        /\ \A at \in Receipt :
             inv' = [inv EXCEPT ![r].pc = pc, ![r].at = at] => Turned(r, pc)
        /\ \A at \in Receipt :
             inv' = [inv EXCEPT ![r].pc = pc, ![r].ok = FALSE, ![r].at = at] => Turned(r, pc)
<1> DEFINE old == inv[r]
<1>1. inv \in [Runs -> Invocations] /\ old \in Invocations BY DEF TypeOK, Invocations
<1>2. ASSUME NEW i \in Invocations, inv' = [inv EXCEPT ![r] = i], i.pc = pc PROVE Turned(r, pc)
  BY <1>1, <1>2 DEF Turned
<1>3. Idle \in Invocations BY DEF Idle, Invocations, InvPc, Outcome
<1>4. GoTo(r, pc) => Turned(r, pc)
  <2>1. [old EXCEPT !.pc = pc] \in Invocations BY <1>1 DEF Invocations
  <2> QED BY <1>1, <2>1 DEF GoTo, Turned, Invocations
<1>5. Again(r) => Turned(r, "loop")
  <2>1. [Idle EXCEPT !.pc = "loop", !.ok = TRUE] \in Invocations
    BY DEF Idle, Invocations, InvPc, Outcome
  <2> QED BY <1>1, <2>1 DEF Again, Turned, Idle
<1>6. Back(r, pc) => Turned(r, pc)
  <2>1. [Idle EXCEPT !.pc = pc] \in Invocations
    BY DEF Idle, Invocations, Outcome
  <2> QED BY <1>1, <2>1 DEF Back, Turned, Idle
<1>7. ASSUME NEW out \in Outcome, Leave(r, out) PROVE Turned(r, "quiet")
  <2>1. [Idle EXCEPT !.pc = "quiet", !.out = out] \in Invocations
    BY DEF Idle, Invocations, InvPc
  <2> QED BY <1>1, <1>7, <2>1 DEF Leave, Turned, Idle
<1>8. ASSUME NEW ok \in BOOLEAN, inv' = [inv EXCEPT ![r].pc = pc, ![r].ok = ok]
      PROVE Turned(r, pc)
  BY <1>1, <1>8 DEF Turned, Invocations
<1>9. ASSUME NEW at \in Receipt, inv' = [inv EXCEPT ![r].pc = pc, ![r].at = at]
      PROVE Turned(r, pc)
  BY <1>1, <1>9 DEF Turned, Invocations
<1>10. ASSUME NEW at \in Receipt, inv' = [inv EXCEPT ![r].pc = pc, ![r].ok = FALSE, ![r].at = at]
       PROVE Turned(r, pc)
  BY <1>1, <1>10 DEF Turned, Invocations
<1> QED BY <1>4, <1>5, <1>6, <1>7, <1>8, <1>9, <1>10

(* The pair an operation is bound to is one a receipt can name.             *)
LEMMA Shown ==
  ASSUME TypeOK, NEW r \in Runs, Exists(r)
  PROVE /\ run[r] \in Run /\ <<run[r].instr, run[r].diff>> \in Receipt
        /\ Rehydrates(r) => copy[r] \in Snaps /\ <<run[r].instr, copy[r]>> \in Receipt
<1>1. run[r] \in Run BY DEF TypeOK, Exists
<1>2. run[r].instr \in Instr /\ run[r].diff \in Snaps BY <1>1 DEF Run
<1>3. Rehydrates(r) => copy[r] \in Snaps BY DEF Rehydrates, TypeOK
<1> QED BY <1>1, <1>2, <1>3 DEF Receipt

(* A step that takes no queue and leaves no provider call behind.           *)
Loose == InvPc \ (Holders \cup {"deciding"})
Walks(r) ==
  /\ UNCHANGED <<auth, proj, rlock, inflight, fence>> /\ inv[r].pc \in Loose
  /\ \E pc \in Loose : /\ Turned(r, pc)
                       /\ inflight[r] = 1 => pc \in {"failing", "quiet"}

(* A caller admits an invocation; it has read the run itself, or not.        *)
Launches(r) == \E k \in {seen[r], seen[r] \cup {"drv"}, {"drv"}} : Launch(r, k)

(* These steps of an invocation only walk on.                               *)
LEMMA Walking ==
  ASSUME IInv, NEW r \in Runs,
         \/ Enter(r) \/ EnterRefused(r) \/ LoopResume(r) \/ LoopMap(r) \/ LoopReserve(r)
         \/ LoopBudget(r) \/ LoopExit(r) \/ CheckDecision(r) \/ ActYield(r) \/ ActRead(r)
         \/ ActPlan(r) \/ SandboxPrepare(r) \/ SandboxLaunch(r) \/ SandboxEnds(r)
         \/ SandboxBreaks(r) \/ ExecReturns(r) \/ RecordInfra(r)
         \/ RecordResult(r) \/ ReviewStart(r) \/ ReviewEnds(r) \/ RecordReview(r)
         \/ CallThrows(r) \/ CallMarksStale(r) \/ CallFindsMismatch(r)
         \/ PauseAfterFailure(r) \/ QuiescenceReached(r) \/ Launches(r)
  PROVE Walks(r)
<1> DEFINE Flies == inflight[r] = 1
<1>1. TypeOK /\ FlightShape(r) BY DEF IInv
<1>2. SUFFICES /\ UNCHANGED <<auth, proj, rlock, inflight, fence>> /\ inv[r].pc \in Loose
               /\ \/ Flies /\ \E pc \in {"failing", "quiet"} : Turned(r, pc)
                  \/ ~Flies /\ \E pc \in Loose : Turned(r, pc)
  BY DEF Walks, Loose, InvPc, Holders, Critical
<1>3. inv[r].pc \notin {"deciding", "failing", "quiet"} => ~Flies BY <1>1 DEF FlightShape
<1>a. {"failing", "quiet"} \subseteq Loose BY DEF Loose, InvPc, Holders, Critical
<1>b. \A pc \in Loose : pc \in InvPc BY DEF Loose
<1> USE DEF Step, Rest, RestButMem, disk, locks, durable
<1>4. CASE Enter(r)
  BY <1>1, <1>3, <1>4, Turns DEF Enter, Loose, InvPc, Holders, Critical
<1>5. CASE EnterRefused(r)
  BY <1>1, <1>3, <1>5, Turns DEF EnterRefused, Loose, InvPc, Holders, Critical, Outcome
<1>6. CASE LoopResume(r)
  <2>1. inv' = inv /\ inv[r].pc = "loop" BY <1>6 DEF LoopResume
  <2>2. Turned(r, "loop") BY <1>1, <2>1 DEF Turned, TypeOK, Invocations
  <2> QED BY <1>3, <1>6, <2>1, <2>2 DEF LoopResume, Loose, InvPc, Holders, Critical
<1>7. CASE LoopMap(r)
  BY <1>1, <1>3, <1>7, Turns DEF LoopMap, Loose, InvPc, Holders, Critical
<1>8. CASE LoopReserve(r)
  <2>1. Exists(r) BY <1>8 DEF LoopReserve, Writes, Admits
  <2>2. Turned(r, "reserved")
    BY <1>1, <1>8, <2>1, Shown, Turns DEF LoopReserve, InvPc
  <2> QED BY <1>3, <1>8, <2>2 DEF LoopReserve, Loose, InvPc, Holders, Critical
<1>9. CASE LoopBudget(r)
  BY <1>1, <1>3, <1>9, Turns DEF LoopBudget, Loose, InvPc, Holders, Critical, Outcome
<1>10. CASE LoopExit(r)
  BY <1>1, <1>3, <1>10, Turns DEF LoopExit, Loose, InvPc, Holders, Critical, Outcome
<1>11. CASE CheckDecision(r)
  BY <1>1, <1>3, <1>11, Turns DEF CheckDecision, Loose, InvPc, Holders, Critical
<1>12. CASE ActYield(r)
  BY <1>1, <1>3, <1>12, Turns DEF ActYield, Loose, InvPc, Holders, Critical, Outcome
<1>13. CASE ActRead(r)
  BY <1>1, <1>3, <1>13, Turns DEF ActRead, Loose, InvPc, Holders, Critical
<1>14. CASE ActPlan(r)
  BY <1>1, <1>3, <1>14, Turns DEF ActPlan, Loose, InvPc, Holders, Critical
<1>15. CASE SandboxPrepare(r)
  <2>1. Exists(r) /\ Rehydrates(r) BY <1>15 DEF SandboxPrepare, Writes, Admits, Runtime
  <2>2. Turned(r, "prepared")
    BY <1>1, <1>15, <2>1, Shown, Turns DEF SandboxPrepare, InvPc
  <2> QED BY <1>3, <1>15, <2>2 DEF SandboxPrepare, Loose, InvPc, Holders, Critical
<1>16. CASE SandboxLaunch(r)
  BY <1>1, <1>3, <1>16, Turns DEF SandboxLaunch, Loose, InvPc, Holders, Critical
<1>17. CASE SandboxEnds(r)
  <2>1. Turned(r, "ran") BY <1>1, <1>17, Turns DEF SandboxEnds, InvPc
  <2> QED BY <1>3, <1>17, <2>1 DEF SandboxEnds, Loose, InvPc, Holders, Critical
<1>18. CASE SandboxBreaks(r)
  BY <1>1, <1>3, <1>18, Turns DEF SandboxBreaks, Loose, InvPc, Holders, Critical
<1>19. CASE ExecReturns(r)
  BY <1>1, <1>3, <1>19, Turns DEF ExecReturns, Loose, InvPc, Holders, Critical
<1>21. CASE RecordInfra(r)
  BY <1>1, <1>3, <1>21, Turns DEF RecordInfra, Loose, InvPc, Holders, Critical
<1>22. CASE RecordResult(r)
  BY <1>1, <1>3, <1>22, Turns DEF RecordResult, Loose, InvPc, Holders, Critical
<1>23. CASE ReviewStart(r)
  <2>1. Exists(r) /\ Rehydrates(r) BY <1>23 DEF ReviewStart, Writes, Admits, Runtime
  <2>2. Turned(r, "reviewing")
    BY <1>1, <1>23, <2>1, Shown, Turns DEF ReviewStart, InvPc
  <2> QED BY <1>3, <1>23, <2>2 DEF ReviewStart, Loose, InvPc, Holders, Critical
<1>24. CASE ReviewEnds(r)
  <2>1. Turned(r, "reviewed") BY <1>1, <1>24, Turns DEF ReviewEnds, InvPc
  <2> QED BY <1>3, <1>24, <2>1 DEF ReviewEnds, Loose, InvPc, Holders, Critical
<1>25. CASE RecordReview(r)
  BY <1>1, <1>3, <1>25, Turns DEF RecordReview, Loose, InvPc, Holders, Critical
<1>26. CASE CallThrows(r)
  BY <1>1, <1>3, <1>26, Turns DEF CallThrows, Calling, Loose, InvPc, Holders, Critical
<1>27. CASE CallMarksStale(r)
  BY <1>1, <1>3, <1>27, Turns DEF CallMarksStale, MarkStale, Loose, InvPc, Holders, Critical
<1>28. CASE CallFindsMismatch(r)
  BY <1>1, <1>3, <1>28, Turns
     DEF CallFindsMismatch, EvidenceMismatch, Loose, InvPc, Holders, Critical
<1>29. CASE PauseAfterFailure(r)
  BY <1>1, <1>3, <1>29, Turns DEF PauseAfterFailure, Loose, InvPc, Holders, Critical, Outcome
<1>30. CASE QuiescenceReached(r)
  <2>1. ~Flies BY <1>30 DEF QuiescenceReached, Busy
  <2> QED BY <1>1, <1>30, <2>1, Turns
          DEF QuiescenceReached, GiveBack, Loose, InvPc, Holders, Critical
<1>31. CASE Launches(r)
  <2>1. inv[r].pc = "off" /\ UNCHANGED <<auth, proj, rlock, inflight, fence>>
    BY <1>31 DEF Launches, Launch, SlotFree
  <2>2. Turned(r, "enter")
    <3>1. inv' = [inv EXCEPT ![r] = [Idle EXCEPT !.pc = "enter"]] BY <1>31 DEF Launches, Launch
    <3> QED BY <1>1, <3>1, Turns DEF Back, InvPc
  <2> QED BY <1>3, <2>1, <2>2 DEF Loose, InvPc, Holders, Critical
<1> QED BY <1>4, <1>5, <1>6, <1>7, <1>8, <1>9, <1>10, <1>11, <1>12, <1>13, <1>14, <1>15, <1>16,
           <1>17, <1>18, <1>19, <1>21, <1>22, <1>23, <1>24, <1>25, <1>26, <1>27, <1>28,
           <1>29, <1>30, <1>31

(* A step that takes the authority, and the queue of its run with it when   *)
(* it is about to change the run or the project.                            *)
Takes(r) ==
  /\ auth = None /\ auth' = r /\ proj' \in {proj, r} /\ UNCHANGED <<inflight, fence>>
  /\ inv[r].pc \in {"reserved", "act", "ran"}
  /\ \/ rlock' = rlock /\ \E pc \in Holders \ Critical : Turned(r, pc)
     \/ /\ rlock[r] = None /\ rlock' = [rlock EXCEPT ![r] = r]
        /\ \E pc \in Critical : Turned(r, pc)

(* A step that gives the queues back, and may leave a provider call behind. *)
Gives(r) ==
  /\ inv[r].pc \in Holders /\ auth' = None /\ proj' \in {proj, None} /\ UNCHANGED fence
  /\ \/ inv[r].pc \in Holders \ Critical /\ rlock' = rlock
     \/ inv[r].pc \in Critical /\ rlock' = [rlock EXCEPT ![r] = None]
  /\ \/ Turned(r, "deciding") /\ inflight' = [inflight EXCEPT ![r] = @ + 1]
     \/ inflight' = inflight /\ \E pc \in Loose : Turned(r, pc)

(* These take queues.                                                       *)
LEMMA Taking ==
  ASSUME IInv, NEW r \in Runs,
         LaunchLock(r) \/ PatchWrite(r) \/ FinalizePrepare(r) \/ CheckEvidence(r)
  PROVE Takes(r)
<1>1. TypeOK BY DEF IInv
<1>2. CASE LaunchLock(r)
  BY <1>1, <1>2, Turns DEF Takes, LaunchLock, Step, ProjectFree, InvPc, Holders, Critical
<1>3. CASE PatchWrite(r)
  BY <1>1, <1>3, Turns
     DEF Takes, PatchWrite, Step, Writes, Admits, Free, ProjectFree, Hold, InvPc, Critical
<1>4. CASE FinalizePrepare(r)
  BY <1>1, <1>4, Turns
     DEF Takes, FinalizePrepare, Step, Writes, Admits, Free, ProjectFree, Hold, InvPc, Critical
<1>5. CASE CheckEvidence(r)
  BY <1>1, <1>5, Turns
     DEF Takes, CheckEvidence, StillFresh, Step, ProjectFree, InvPc, Holders, Critical
<1> QED BY <1>2, <1>3, <1>4, <1>5

(* These give them back.                                                    *)
LEMMA Giving ==
  ASSUME IInv, NEW r \in Runs,
         \/ LaunchGo(r) \/ LaunchRefused(r) \/ PatchSave(r) \/ PatchUndo(r)
         \/ PatchQuarantine(r) \/ CommitLost(r) \/ FinalizeComplete(r) \/ FinalizeThrows(r)
         \/ PersistEvidence(r) \/ EvidenceBreaks(r)
  PROVE Gives(r)
<1>1. TypeOK BY DEF IInv
<1> USE DEF Step, Gives, Holders, Critical
<1>2. CASE LaunchGo(r) BY <1>1, <1>2, Turns DEF LaunchGo, InvPc
<1>3. CASE LaunchRefused(r) BY <1>1, <1>3, Turns DEF LaunchRefused, InvPc, Loose
<1>4. CASE PatchSave(r) BY <1>1, <1>4, Turns DEF PatchSave, Release, InvPc, Loose
<1>5. CASE PatchUndo(r) BY <1>1, <1>5, Turns DEF PatchUndo, Release, InvPc, Loose
<1>6. CASE PatchQuarantine(r) BY <1>1, <1>6, Turns DEF PatchQuarantine, Release, InvPc, Loose
<1>7. CASE CommitLost(r) BY <1>1, <1>7, Turns DEF CommitLost, Release, InvPc, Loose
<1>8. CASE FinalizeComplete(r)
  BY <1>1, <1>8, Turns DEF FinalizeComplete, Release, InvPc, Loose, Outcome
<1>9. CASE FinalizeThrows(r) BY <1>1, <1>9, Turns DEF FinalizeThrows, Release, InvPc, Loose
<1>10. CASE PersistEvidence(r) BY <1>1, <1>10, Turns DEF PersistEvidence, InvPc, Loose
<1>11. CASE EvidenceBreaks(r)
  <2>1. Turned(r, "infra") \/ Turned(r, "failing")
    BY <1>1, <1>11, Turns DEF EvidenceBreaks, InvPc
  <2> QED BY <1>11, <2>1 DEF EvidenceBreaks, InvPc, Loose
<1> QED BY <1>2, <1>3, <1>4, <1>5, <1>6, <1>7, <1>8, <1>9, <1>10, <1>11

ControlType ==
  /\ auth \in Runs \cup {None, "member"} /\ proj \in Runs \cup {None}
  /\ rlock \in [Runs -> Runs \cup {None, "fence"}]
  /\ inv \in [Runs -> Invocations]
  /\ inflight \in [Runs -> Nat]
  /\ fence \in [pc : {"off", "interrupt", "read", "drain", "save", "dispose"},
                run : Runs \cup {None}, watch : BOOLEAN]
ControlShape == FenceShape /\ \A r \in Runs : LockShape(r) /\ FlightShape(r)
Orderly == ControlType /\ ControlShape

(* What the invariant says of queues, calls and places.                     *)
LEMMA Controlled == IInv => Orderly
BY DEF IInv, TypeOK, Orderly, ControlType, ControlShape, Invocations

(* A step of the first kind keeps who holds what.                           *)
LEMMA WalkControl == ASSUME IInv, NEW r \in Runs, Walks(r) PROVE Orderly'
<1>1. Orderly BY Controlled
<1>2. PICK pc \in Loose : Turned(r, pc) /\ (inflight[r] = 1 => pc \in {"failing", "quiet"})
  BY DEF Walks
<1>3. UNCHANGED <<auth, proj, rlock, inflight, fence>> BY DEF Walks
<1>4. ControlType' BY <1>1, <1>2, <1>3 DEF Orderly, ControlType, Turned
<1>5. FenceShape' BY <1>1, <1>3 DEF Orderly, ControlShape, FenceShape
<1>6. ASSUME NEW q \in Runs PROVE LockShape(q)' /\ FlightShape(q)'
  <2>0. LockShape(q) /\ FlightShape(q) BY <1>1 DEF Orderly, ControlShape
  <2>1. CASE q = r
    <3>1. inv[r].pc \notin Holders /\ pc \notin Holders BY DEF Walks, Loose
    <3> QED BY <1>2, <1>3, <2>0, <2>1, <3>1
            DEF Turned, LockShape, FlightShape, Loose, Holders
  <2>2. CASE q # r
    BY <1>2, <1>3, <2>0, <2>2 DEF Turned, LockShape, FlightShape
  <2> QED BY <2>1, <2>2
<1> QED BY <1>4, <1>5, <1>6 DEF Orderly, ControlShape

(* Who takes the authority is the first to hold it.                         *)
LEMMA TakeControl == ASSUME IInv, NEW r \in Runs, Takes(r) PROVE Orderly'
<1>1. Orderly BY Controlled
<1>2. PICK pc \in Holders : Turned(r, pc) /\ (pc \in Critical <=> rlock'[r] = r)
  BY <1>1 DEF Takes, Holders, Critical, Orderly, ControlType, ControlShape, LockShape
<1>3. /\ UNCHANGED <<inflight, fence>> /\ auth = None /\ auth' = r
      /\ inv[r].pc \in {"reserved", "act", "ran"} /\ proj' \in {proj, r}
      /\ rlock' = rlock \/ (rlock[r] = None /\ rlock' = [rlock EXCEPT ![r] = r])
  BY DEF Takes
<1>4. ControlType' BY <1>1, <1>2, <1>3 DEF Orderly, ControlType, Turned
<1>5. FenceShape'
  <2>1. rlock[r] # None => rlock' = rlock BY <1>3
  <2> QED BY <1>1, <1>3, <2>1, EnvAssumption DEF Orderly, ControlType, ControlShape, FenceShape
<1>6. ASSUME NEW q \in Runs PROVE LockShape(q)' /\ FlightShape(q)'
  <2>0. LockShape(q) /\ FlightShape(q) BY <1>1 DEF Orderly, ControlShape
  <2>1. CASE q = r
    BY <1>2, <1>3, <2>0, <2>1 DEF Turned, LockShape, FlightShape, Holders, Critical
  <2>2. CASE q # r
    <3>1. q # None BY EnvAssumption
    <3> QED BY <1>1, <1>2, <1>3, <2>0, <2>2, <3>1
            DEF Turned, LockShape, FlightShape, Holders, Orderly, ControlType
  <2> QED BY <2>1, <2>2
<1> QED BY <1>4, <1>5, <1>6 DEF Orderly, ControlShape

(* Who gives it back was the only one to hold it.                           *)
LEMMA GiveControl == ASSUME IInv, NEW r \in Runs, Gives(r) PROVE Orderly'
<1>1. Orderly BY Controlled
<1>2. PICK pc \in Loose \cup {"deciding"} : Turned(r, pc) BY DEF Gives
<1>3. /\ UNCHANGED fence /\ inv[r].pc \in Holders /\ auth' = None /\ proj' \in {proj, None}
      /\ \/ inv[r].pc \in Holders \ Critical /\ rlock' = rlock
         \/ inv[r].pc \in Critical /\ rlock' = [rlock EXCEPT ![r] = None]
  BY DEF Gives
<1>4. LockShape(r) /\ FlightShape(r) BY <1>1 DEF Orderly, ControlShape
<1>5. inflight[r] = 0 /\ auth = r /\ (inv[r].pc \in Critical => rlock[r] = r)
  BY <1>3, <1>4 DEF LockShape, FlightShape, Holders, Critical
<1>6. /\ inflight' \in [Runs -> Nat] /\ inflight'[r] \in {0, 1}
      /\ \A q \in Runs \ {r} : inflight'[q] = inflight[q]
      /\ inflight'[r] = 1 <=> pc = "deciding"
  <2>1. CASE Turned(r, "deciding") /\ inflight' = [inflight EXCEPT ![r] = @ + 1]
    BY <1>1, <1>2, <1>5, <2>1 DEF Orderly, ControlType, Turned
  <2>2. CASE inflight' = inflight /\ \E x \in Loose : Turned(r, x)
    <3>1. pc \in Loose BY <1>2, <2>2 DEF Turned
    <3> QED BY <1>1, <1>5, <2>2, <3>1 DEF Orderly, ControlType, Loose
  <2> QED BY <2>1, <2>2 DEF Gives
<1>7. ControlType' BY <1>1, <1>2, <1>3, <1>6 DEF Orderly, ControlType, Turned
<1>8. FenceShape'
  <2>1. "fence" # r BY EnvAssumption
  <2> QED BY <1>1, <1>3, <1>5, <2>1 DEF Orderly, ControlType, ControlShape, FenceShape
<1>9. ASSUME NEW q \in Runs PROVE LockShape(q)' /\ FlightShape(q)'
  <2>0. LockShape(q) /\ FlightShape(q) BY <1>1 DEF Orderly, ControlShape
  <2>1. CASE q = r
    <3>1. rlock'[r] # r BY <1>1, <1>3, <1>4, EnvAssumption DEF LockShape, Orderly, ControlType
    <3> QED BY <1>2, <1>6, <2>1, <3>1 DEF Turned, LockShape, FlightShape, Holders, Critical, Loose
  <2>2. CASE q # r
    BY <1>1, <1>2, <1>3, <1>5, <1>6, <2>0, <2>2
       DEF Turned, LockShape, FlightShape, Holders, Orderly, ControlType
  <2> QED BY <2>1, <2>2
<1> QED BY <1>7, <1>8, <1>9 DEF Orderly, ControlShape

(* The provider answers, or is given up: the call may then go on alone.     *)
LEMMA ProviderControl ==
  ASSUME IInv, NEW r \in Runs, ProviderAnswers(r) \/ DecisionLost(r) \/ ProviderSettles(r)
  PROVE Orderly'
<1>1. Orderly /\ TypeOK BY Controlled DEF IInv
<1>2. UNCHANGED <<auth, proj, rlock, fence>>
  BY DEF ProviderAnswers, DecisionLost, ProviderSettles, locks
<1>3. LockShape(r) /\ FlightShape(r) BY <1>1 DEF Orderly, ControlShape
<1>4. /\ inv' \in [Runs -> Invocations] /\ inflight' \in [Runs -> Nat]
      /\ \A q \in Runs \ {r} : inv'[q] = inv[q] /\ inflight'[q] = inflight[q]
      /\ LockShape(r)' /\ FlightShape(r)'
  <2>1. CASE ProviderAnswers(r)
    <3>1. Turned(r, "decided") BY <1>1, <2>1, Turns DEF ProviderAnswers, InvPc
    <3>2. inflight[r] = 1 /\ inflight' = [inflight EXCEPT ![r] = @ - 1]
      BY <1>3, <2>1 DEF ProviderAnswers, Step, FlightShape
    <3>3. inflight'[r] = 0 BY <1>1, <3>2 DEF Orderly, ControlType
    <3>4. rlock'[r] # r
      BY <1>2, <1>3, <2>1 DEF ProviderAnswers, Step, LockShape, Critical
    <3> QED BY <1>1, <3>1, <3>2, <3>3, <3>4
            DEF Orderly, ControlType, Turned, LockShape, FlightShape, Holders, Critical
  <2>2. CASE DecisionLost(r)
    <3>1. Turned(r, "failing") BY <1>1, <2>2, Turns DEF DecisionLost, InvPc
    <3>2. /\ inflight[r] = 1
          /\ \E n \in {inflight[r], inflight[r] - 1} : inflight' = [inflight EXCEPT ![r] = n]
      BY <1>3, <2>2 DEF DecisionLost, Step, FlightShape
    <3>a. PICK n \in {inflight[r], inflight[r] - 1} : inflight' = [inflight EXCEPT ![r] = n]
      BY <3>2
    <3>3. n \in {0, 1} BY <3>2
    <3>4. rlock'[r] # r
      BY <1>2, <1>3, <2>2 DEF DecisionLost, Step, LockShape, Critical
    <3> QED BY <1>1, <3>1, <3>a, <3>3, <3>4
            DEF Orderly, ControlType, Turned, LockShape, FlightShape, Holders, Critical
  <2>3. CASE ProviderSettles(r)
    <3>1. inv' = inv /\ inflight[r] = 1 /\ inflight' = [inflight EXCEPT ![r] = @ - 1]
          /\ inv[r].pc # "deciding"
      BY <1>3, <2>3 DEF ProviderSettles, Step, FlightShape
    <3>2. inflight'[r] = 0 /\ inflight' \in [Runs -> Nat]
          /\ \A q \in Runs \ {r} : inflight'[q] = inflight[q]
      BY <1>1, <3>1 DEF Orderly, ControlType
    <3>3. LockShape(r)' BY <1>2, <1>3, <3>1 DEF LockShape
    <3>4. FlightShape(r)' BY <3>1, <3>2 DEF FlightShape
    <3>5. inv' \in [Runs -> Invocations] BY <1>1, <3>1 DEF Orderly, ControlType
    <3> QED BY <3>1, <3>2, <3>3, <3>4, <3>5
  <2> QED BY <2>1, <2>2, <2>3
<1>5. ControlType' BY <1>1, <1>2, <1>4 DEF Orderly, ControlType
<1>6. FenceShape' BY <1>1, <1>2 DEF Orderly, ControlShape, FenceShape
<1>7. ASSUME NEW q \in Runs PROVE LockShape(q)' /\ FlightShape(q)'
  <2>0. LockShape(q) /\ FlightShape(q) BY <1>1 DEF Orderly, ControlShape
  <2>1. CASE q = r BY <1>4, <2>1
  <2>2. CASE q # r BY <1>2, <1>4, <2>0, <2>2 DEF LockShape, FlightShape
  <2> QED BY <2>1, <2>2
<1> QED BY <1>5, <1>6, <1>7 DEF Orderly, ControlShape

(* The effect is on disk; the queues are still held.                        *)
LEMMA CommitControl == ASSUME IInv, NEW r \in Runs, FinalizeCommit(r) PROVE Orderly'
<1>1. Orderly /\ TypeOK BY Controlled DEF IInv
<1>2. /\ UNCHANGED <<auth, proj, rlock, inflight, fence>> /\ Turned(r, "committed")
      /\ inv[r].pc = "commit"
  BY <1>1, Turns DEF FinalizeCommit, Step, locks, InvPc
<1>3. ControlType' BY <1>1, <1>2 DEF Orderly, ControlType, Turned
<1>4. FenceShape' BY <1>1, <1>2 DEF Orderly, ControlShape, FenceShape
<1>5. ASSUME NEW q \in Runs PROVE LockShape(q)' /\ FlightShape(q)'
  BY <1>1, <1>2 DEF Orderly, ControlShape, Turned, LockShape, FlightShape, Holders, Critical
<1> QED BY <1>3, <1>4, <1>5 DEF Orderly, ControlShape

(* The fence takes the queue of its run when nobody has it.                 *)
LEMMA FenceControl ==
  ASSUME IInv, NEW r \in Runs, FenceStart(r) \/ Fence(r)
  PROVE Orderly' /\ inv' = inv /\ \A q \in Runs : rlock[q] = q => rlock'[q] = q
<1>1. Orderly /\ TypeOK BY Controlled DEF IInv
<1>2. UNCHANGED <<auth, proj, inv, inflight>>
  BY DEF FenceStart, Fence, FenceInterrupted, FenceDrain, FenceLock, FenceTimeout, FenceSave,
         FenceDispose, locks
<1>3. /\ fence' \in [pc : {"off", "interrupt", "read", "drain", "save", "dispose"},
                     run : Runs \cup {None}, watch : BOOLEAN]
      /\ rlock' \in [Runs -> Runs \cup {None, "fence"}]
      /\ FenceShape'
      /\ \A q \in Runs : rlock[q] = q <=> rlock'[q] = q
  <2> USE DEF Orderly, ControlType, ControlShape, FenceShape
  <2>1. CASE FenceStart(r)
    BY <1>1, <2>1 DEF FenceStart, locks
  <2>2. CASE FenceInterrupted(r)
    BY <1>1, <2>2 DEF FenceInterrupted, locks
  <2>3. CASE FenceDrain(r)
    <3>1. Busy(r) \in BOOLEAN BY DEF Busy
    <3> QED BY <1>1, <2>3, <3>1 DEF FenceDrain, locks, NoFence
  <2>4. CASE FenceLock(r)
    BY <1>1, <2>4, EnvAssumption DEF FenceLock
  <2>5. CASE FenceTimeout(r)
    BY <1>1, <2>5 DEF FenceTimeout, locks, NoFence
  <2>6. CASE FenceSave(r)
    <3>1. rlock[r] = "fence" /\ r # "fence" BY <1>1, <2>6, EnvAssumption DEF FenceSave
    <3>2. CASE Alive(r) /\ run[r].pend = None
      <4>1. fence' = [fence EXCEPT !.pc = "dispose"] /\ rlock' = rlock /\ fence.run = r
        BY <2>6, <3>2 DEF FenceSave
      <4> QED BY <1>1, <3>1, <4>1
    <3>3. CASE ~(Alive(r) /\ run[r].pend = None)
      <4>1. fence' = NoFence /\ rlock' = [rlock EXCEPT ![r] = None]
        BY <2>6, <3>3 DEF FenceSave
      <4> QED BY <1>1, <3>1, <4>1, EnvAssumption DEF NoFence
    <3> QED BY <3>2, <3>3
  <2>7. CASE FenceDispose(r)
    <3>1. rlock[r] = "fence" /\ r # "fence" /\ r # None
      BY <1>1, <2>7, EnvAssumption DEF FenceDispose
    <3> QED BY <1>1, <2>7, <3>1 DEF FenceDispose, NoFence
  <2> QED BY <2>1, <2>2, <2>3, <2>4, <2>5, <2>6, <2>7 DEF Fence
<1>4. ControlType' BY <1>1, <1>2, <1>3 DEF Orderly, ControlType
<1>5. ASSUME NEW q \in Runs PROVE LockShape(q)' /\ FlightShape(q)'
  BY <1>1, <1>2, <1>3 DEF Orderly, ControlShape, LockShape, FlightShape
<1> QED BY <1>2, <1>3, <1>4, <1>5 DEF Orderly, ControlShape

(* Nobody at work takes or gives back a queue; a caller may take the         *)
(* authority, or give it back, when no invocation has it.                    *)
Unmoved ==
  /\ UNCHANGED <<proj, rlock, inv, inflight, fence>>
  /\ auth' \in Runs \cup {auth, None}
  /\ \A q \in Runs : inv[q].pc \in Holders => auth' = auth

(* After a restart nobody holds anything.                                   *)
LEMMA QuietControl == ASSUME IInv, Unmoved \/ Restarted PROVE Orderly'
<1>1. Orderly BY Controlled
<1>2. CASE Unmoved
  BY <1>1, <1>2 DEF Unmoved, Orderly, ControlType, ControlShape, FenceShape, LockShape, FlightShape
<1>3. CASE Restarted
  <2>1. Idle \in Invocations /\ Idle.pc = "off" BY DEF Idle, Invocations, InvPc, Outcome
  <2>2. ControlType' BY <1>3, <2>1 DEF Restarted, ControlType, NoFence
  <2>3. FenceShape' BY <1>3 DEF Restarted, FenceShape, NoFence
  <2>4. ASSUME NEW q \in Runs PROVE LockShape(q)' /\ FlightShape(q)'
    BY <1>3, <2>1, EnvAssumption DEF Restarted, LockShape, FlightShape, Holders, Critical
  <2> QED BY <2>2, <2>3, <2>4 DEF Orderly, ControlShape
<1> QED BY <1>2, <1>3

(* What happens outside the invocation and the fence takes no queue.        *)
LEMMA MemberStill ==
  ASSUME NEW r \in Runs,
         \/ (Start(r) /\ UNCHANGED locks) \/ Revise(r) \/ Cancel(r) \/ Recover(r)
         \/ (MarkStale(r) /\ UNCHANGED inv) \/ (EvidenceMismatch(r) /\ UNCHANGED inv)
         \/ LeaseExpires(r) \/ ProjectMoves
  PROVE Unmoved
BY DEF Unmoved, Start, Revise, Cancel, Recover, RecoverFound, RecoverCommit, RecoverAmbiguous,
       MarkStale, EvidenceMismatch, LeaseExpires, ProjectMoves, locks, disk, volatile

(* What the callers of the engine do with it besides the operations above:   *)
(* they interrupt an invocation, start a run and keep the authority, give it *)
(* back, and save under an authority they have.                              *)
Interrupts(r) ==
  /\ Interrupt(r) /\ auth' \in {auth, r} /\ (auth' # auth => auth = None)
  /\ UNCHANGED <<durable, proj, rlock, inv, inflight, seen, mem, fence>>

StartsHolding(r) == Start(r) /\ auth' = r /\ UNCHANGED <<proj, rlock>>

LetsGo ==
  /\ \A q \in Runs : inv[q].pc \notin Holders
  /\ auth' = None
  /\ UNCHANGED <<durable, proj, rlock, inv, inflight, aborted, seen, mem, fence>>

SavesHolding(r) ==
  /\ inv[r].pc \notin Holders /\ rlock[r] = None /\ Alive(r) /\ run[r].pend = None
  /\ \/ /\ run[r].instr < MaxInstr /\ Put(r, Revised(run[r]), {"drv"})
        /\ UNCHANGED <<copy, mem>>
     \/ Put(r, Cancelled(run[r]), {}) /\ DropOrKeep(r) /\ mem' \in {mem, mem \ {r}}
  /\ UNCHANGED <<hist, live, evid, tomb, locks, inv, inflight, aborted, fence>>

Calls(r) ==
  \/ Launches(r) \/ Interrupts(r) \/ StartsHolding(r) \/ LetsGo \/ SavesHolding(r)

(* None of them takes a queue from anybody.                                  *)
LEMMA CallerStill ==
  ASSUME IInv, NEW r \in Runs,
         Interrupts(r) \/ StartsHolding(r) \/ LetsGo \/ SavesHolding(r)
  PROVE Unmoved
<1>1. \A q \in Runs : LockShape(q) BY DEF IInv
<1>2. auth = None => \A q \in Runs : inv[q].pc \notin Holders
  BY <1>1, EnvAssumption DEF LockShape
<1> QED
  BY <1>2 DEF Unmoved, Interrupts, StartsHolding, Start, ProjectFree, LetsGo, SavesHolding, locks

(* The steps of the engine and of its callers in one process, and the restart *)
(* of the process, also one that Env does not announce.                      *)
Calm ==
  \/ \E r \in Runs : \/ Member(r) \/ Invocation(r) \/ ProviderSettles(r)
                     \/ FenceStart(r) \/ Fence(r) \/ LeaseExpires(r) \/ Calls(r)
  \/ ProjectMoves
Moves == Next \/ Restarted \/ Calm

(* Every step keeps queues, provider calls and fence in their shape.        *)
LEMMA ControlKeeps == IInv /\ [Moves]_vars => Orderly'
<1> SUFFICES ASSUME IInv, [Moves]_vars PROVE Orderly' OBVIOUS
<1>1. CASE UNCHANGED vars
  BY <1>1, QuietControl DEF vars, volatile, Unmoved
<1>2. CASE ProjectMoves
  BY <1>2, QuietControl DEF ProjectMoves, volatile, Unmoved
<1>3. CASE Restarted BY <1>3, QuietControl
<1>4. ASSUME NEW r \in Runs, Member(r) \/ LeaseExpires(r) PROVE Orderly'
  <2>1. Advance(r) => Launches(r) BY DEF Advance, Launches
  <2> QED BY <1>4, <2>1, MemberStill, QuietControl, Walking, WalkControl DEF Member
<1>5. ASSUME NEW r \in Runs, Invocation(r) PROVE Orderly'
  <2>1. Walks(r) \/ Takes(r) \/ Gives(r) \/ FinalizeCommit(r) \/ ProviderAnswers(r)
        \/ DecisionLost(r)
    BY <1>5, Walking, Taking, Giving DEF Invocation
  <2> QED BY <2>1, WalkControl, TakeControl, GiveControl, CommitControl, ProviderControl
<1>6. ASSUME NEW r \in Runs, ProviderSettles(r) PROVE Orderly' BY <1>6, ProviderControl
<1>7. ASSUME NEW r \in Runs, FenceStart(r) \/ Fence(r) PROVE Orderly' BY <1>7, FenceControl
<1>8. ASSUME NEW r \in Runs, Calls(r) PROVE Orderly'
  BY <1>8, CallerStill, QuietControl, Walking, WalkControl DEF Calls
<1> QED BY <1>1, <1>2, <1>3, <1>4, <1>5, <1>6, <1>7, <1>8 DEF Next, Crash, Moves, Calm

--------------------------------------------------------------------------------
(* The record, the tree and the project. *)

(* A step remembers a runtime only when its tree is the one of the record.  *)
Remembers(r) == mem' \subseteq mem \/ (Rehydrates(r) /\ mem' = mem \cup {r})

(* Only evidence may be added, of the instruction and the diff of the record. *)
Adds(r) == Exists(r) /\ evid' = evid \cup {<<r, <<run[r].instr, run[r].diff>>>>}
Notes(r) ==
  /\ UNCHANGED <<run, hist, copy>> /\ Remembers(r)
  /\ evid' = evid \/ Adds(r)

Works(r) ==
  /\ Exists(r) /\ Mutable(run[r], TRUE) /\ rlock[r] = None /\ inv[r].pc \notin Holders
  /\ \E n \in Run : GoesOn(run[r], n) /\ run' = [run EXCEPT ![r] = n]
  /\ UNCHANGED <<hist, copy, evid>> /\ Remembers(r)

Ends(r) ==
  /\ Alive(r) /\ CommittedBy(r) = {}
  /\ \E n \in Run : Closes(run[r], n) /\ n.pend = None /\ run' = [run EXCEPT ![r] = n]
  /\ \E c \in {copy[r], None} : copy' = [copy EXCEPT ![r] = c]
  /\ UNCHANGED <<hist, evid>> /\ mem' \subseteq mem

(* Nothing begins a patch or a commit, and nobody else's queue is touched.  *)
Settled(r) ==
  \A q \in Runs :
    /\ inv'[q].pc \in Critical => inv'[q].pc = inv[q].pc
    /\ q # r => (rlock[q] = q => rlock'[q] = q)

(* These steps change no record, no tree and no history.                    *)
LEMMA Noting ==
  ASSUME IInv, NEW r \in Runs,
         \/ EnterRefused(r) \/ LoopExit(r) \/ LaunchLock(r) \/ LaunchGo(r) \/ LaunchRefused(r)
         \/ ProviderAnswers(r) \/ DecisionLost(r) \/ ProviderSettles(r) \/ CheckDecision(r)
         \/ ActRead(r) \/ SandboxLaunch(r) \/ SandboxEnds(r) \/ SandboxBreaks(r)
         \/ ExecReturns(r) \/ CheckEvidence(r) \/ PersistEvidence(r) \/ EvidenceBreaks(r)
         \/ ReviewEnds(r) \/ FinalizeThrows(r)
         \/ CallThrows(r) \/ QuiescenceReached(r) \/ Launches(r) \/ Interrupts(r) \/ LetsGo
         \/ FenceStart(r) \/ FenceInterrupted(r) \/ FenceDrain(r) \/ FenceLock(r) \/ FenceTimeout(r)
         \/ ((PauseAfterFailure(r) \/ FenceSave(r)) /\ UNCHANGED run)
  PROVE Notes(r)
<1> USE DEF Notes, Remembers, Rest, RestButMem, Runtime, disk, durable
<1>1. CASE EnterRefused(r) \/ LoopExit(r) \/ LaunchLock(r) \/ LaunchGo(r) \/ LaunchRefused(r)
  BY <1>1 DEF EnterRefused, LoopExit, LaunchLock, LaunchGo, LaunchRefused
<1>2. CASE ProviderAnswers(r) \/ DecisionLost(r) \/ ProviderSettles(r) \/ CheckDecision(r)
           \/ ActRead(r)
  BY <1>2 DEF ProviderAnswers, DecisionLost, ProviderSettles, CheckDecision, ActRead
<1>3. CASE SandboxLaunch(r) \/ SandboxEnds(r) \/ SandboxBreaks(r) \/ ExecReturns(r)
           \/ CheckEvidence(r)
  BY <1>3 DEF SandboxLaunch, SandboxEnds, SandboxBreaks, ExecReturns, CheckEvidence
<1>4. CASE ReviewEnds(r) \/ FinalizeThrows(r) \/ CallThrows(r)
  BY <1>4 DEF ReviewEnds, FinalizeThrows, CallThrows
<1>5. CASE QuiescenceReached(r) \/ Launches(r) \/ Interrupts(r) \/ LetsGo
  BY <1>5 DEF QuiescenceReached, GiveBack, Launches, Launch, Interrupts, LetsGo
<1>6. CASE FenceStart(r) \/ FenceInterrupted(r) \/ FenceDrain(r) \/ FenceLock(r) \/ FenceTimeout(r)
  BY <1>6 DEF FenceStart, FenceInterrupted, FenceDrain, FenceLock, FenceTimeout
<1>7. CASE PersistEvidence(r) \/ EvidenceBreaks(r)
  <2>1. ProvingShape(r) /\ inv[r].pc = "proving"
    BY <1>7 DEF IInv, PersistEvidence, EvidenceBreaks, Step
  <2> QED BY <1>7, <2>1 DEF PersistEvidence, EvidenceBreaks, EvidenceKept, ProvingShape, Adds
<1>8. CASE (PauseAfterFailure(r) \/ FenceSave(r)) /\ UNCHANGED run
  BY <1>8 DEF PauseAfterFailure, FenceSave
<1> QED BY <1>1, <1>2, <1>3, <1>4, <1>5, <1>6, <1>7, <1>8

(* A save of a run that goes on, made under its free queues.                *)
LEMMA Writing ==
  ASSUME NEW r \in Runs, LockShape(r), NEW b \in BOOLEAN, Admits(r, b), NEW n, NEW k,
         Put(r, n, k), GoesOn(run[r], n), UNCHANGED <<hist, copy, evid>>, Remembers(r)
  PROVE Works(r)
<1>1. /\ Exists(r) /\ Mutable(run[r], TRUE) /\ rlock[r] = None /\ inv[r].pc \notin Holders
  BY EnvAssumption DEF Admits, Free, ProjectFree, Mutable, LockShape
<1>2. n \in Run /\ run' = [run EXCEPT ![r] = n] BY DEF GoesOn, Put
<1> QED BY <1>1, <1>2 DEF Works

(* These steps save a run that goes on.                                     *)
LEMMA Working ==
  ASSUME IInv, NEW r \in Runs,
         \/ Revise(r) \/ Enter(r) \/ LoopResume(r) \/ LoopMap(r) \/ LoopReserve(r)
         \/ LoopBudget(r) \/ ActYield(r) \/ ActPlan(r) \/ SandboxPrepare(r) \/ RecordInfra(r)
         \/ RecordResult(r) \/ ReviewStart(r) \/ RecordReview(r)
         \/ (PauseAfterFailure(r) /\ ~UNCHANGED run)
  PROVE Works(r)
<1>1. TypeOK /\ LockShape(r) /\ inv[r].ok \in BOOLEAN BY DEF IInv, TypeOK
<1>2. PICK b, n, k :
         /\ b \in BOOLEAN /\ Admits(r, b) /\ Put(r, n, k)
         /\ UNCHANGED <<hist, copy, evid>> /\ Remembers(r)
         /\ \/ n \in {Claimed(run[r]), Paused(run[r]), Resumed(run[r]), Planned(run[r])}
            \/ Rehydrates(r) /\ n = Mapped(run[r], copy[r])
            \/ n = Revised(run[r]) /\ run[r].instr < MaxInstr
            \/ Rehydrates(r) /\ n = Validated(run[r], copy[r], inv[r].at, inv[r].ok)
            \/ Rehydrates(r) /\ n = Reviewed(run[r], copy[r], inv[r].at, inv[r].ok)
  <2> USE DEF Rest, RestButMem, Runtime, Remembers, Writes, disk
  <2>1. CASE Revise(r) BY <2>1 DEF Revise
  <2>2. CASE Enter(r) BY <2>2 DEF Enter
  <2>3. CASE LoopResume(r) BY <2>3 DEF LoopResume
  <2>4. CASE LoopMap(r) BY <2>4 DEF LoopMap
  <2>5. CASE LoopReserve(r) BY <2>5 DEF LoopReserve
  <2>6. CASE LoopBudget(r) BY <2>6 DEF LoopBudget
  <2>7. CASE ActYield(r) BY <2>7 DEF ActYield
  <2>8. CASE ActPlan(r) BY <2>8 DEF ActPlan
  <2>9. CASE SandboxPrepare(r) BY <2>9 DEF SandboxPrepare
  <2>10. CASE RecordInfra(r) BY <2>10 DEF RecordInfra
  <2>11. CASE RecordResult(r) BY <2>11 DEF RecordResult
  <2>12. CASE ReviewStart(r) BY <2>12 DEF ReviewStart
  <2>13. CASE RecordReview(r) BY <2>13 DEF RecordReview
  <2>14. CASE PauseAfterFailure(r) /\ ~UNCHANGED run
    <3>1. Writes(r, FALSE) /\ Put(r, Paused(run[r]), {}) /\ Rest(r)
      BY <2>14 DEF PauseAfterFailure
    <3> QED BY <3>1
  <2> QED BY <2>1, <2>2, <2>3, <2>4, <2>5, <2>6, <2>7, <2>8, <2>9, <2>10, <2>11, <2>12, <2>13,
             <2>14
<1>3. Exists(r) BY <1>2 DEF Admits
<1>4. run[r] \in Run /\ (Rehydrates(r) => copy[r] \in Snaps) BY <1>1, <1>3, Shown
<1>5. GoesOn(run[r], n) BY <1>1, <1>2, <1>4, Saves, Bookings
<1> QED BY <1>1, <1>2, <1>5, Writing

(* A run that may still be changed, or has nothing pending, has no effect.  *)
LEMMA NoEffectYet ==
  ASSUME IInv, NEW r \in Runs, Alive(r), run[r].pend = None
  PROVE CommittedBy(r) = {}
BY DEF IInv, RecordShape, EffectShape, Alive, Exists, Terminal, TerminalStatus

(* These steps close a run without an effect.                               *)
LEMMA Ending ==
  ASSUME IInv, NEW r \in Runs,
         \/ Cancel(r) \/ MarkStale(r) \/ EvidenceMismatch(r) \/ RecoverAmbiguous(r)
         \/ PatchQuarantine(r) \/ (FenceSave(r) /\ ~UNCHANGED run)
  PROVE Ends(r)
<1>1. TypeOK /\ MiddleShape(r) /\ RecordShape(r) BY DEF IInv
<1>2. /\ Alive(r) /\ run[r] \in Run /\ CommittedBy(r) = {}
      /\ \E n : /\ run' = [run EXCEPT ![r] = n]
                /\ \/ n = Stale(run[r]) /\ run[r].pend = None
                   \/ n \in {Cancelled(run[r]), Failed(run[r]), Ambiguous(run[r])}
      /\ \E c \in {copy[r], None} : copy' = [copy EXCEPT ![r] = c]
      /\ UNCHANGED <<hist, evid>> /\ mem' \subseteq mem
  <2> USE DEF Put, DropOrKeep, disk, Alive, Mutable
  <2>0. copy' = copy => copy' = [copy EXCEPT ![r] = copy[r]] BY <1>1 DEF TypeOK
  <2>1. CASE Cancel(r)
    <3>1. Alive(r) /\ run[r].pend = None BY <2>1 DEF Cancel, Writes, Admits
    <3> QED BY <1>1, <2>1, <3>1, NoEffectYet, Shown DEF Cancel
  <2>2. CASE MarkStale(r)
    <3>1. Alive(r) /\ run[r].pend = None BY <2>2 DEF MarkStale
    <3> QED BY <1>1, <2>2, <3>1, NoEffectYet, Shown DEF MarkStale
  <2>3. CASE EvidenceMismatch(r)
    <3>1. Alive(r) /\ run[r].pend = None BY <2>3 DEF EvidenceMismatch, Writes, Admits
    <3> QED BY <1>1, <2>0, <2>3, <3>1, NoEffectYet, Shown DEF EvidenceMismatch
  <2>4. CASE RecoverAmbiguous(r)
    <3>1. Alive(r) BY <2>4 DEF RecoverAmbiguous, CanRecover, Terminal, TerminalStatus
    <3> QED BY <1>1, <2>4, <3>1, Shown DEF RecoverAmbiguous
  <2>5. CASE PatchQuarantine(r)
    <3>1. Alive(r) /\ run[r].pend = None BY <1>1, <2>5 DEF PatchQuarantine, MiddleShape, Step
    <3> QED BY <1>1, <2>5, <3>1, NoEffectYet, Shown DEF PatchQuarantine
  <2>6. CASE FenceSave(r) /\ ~UNCHANGED run
    <3>1. /\ Alive(r) /\ run[r].pend = None /\ Put(r, Cancelled(run[r]), {})
          /\ UNCHANGED <<hist, copy, evid, mem>>
      BY <2>6 DEF FenceSave
    <3> QED BY <1>1, <2>0, <3>1, NoEffectYet, Shown
  <2> QED BY <2>1, <2>2, <2>3, <2>4, <2>5, <2>6
<1>3. PICK n : /\ run' = [run EXCEPT ![r] = n]
               /\ \/ n = Stale(run[r]) /\ run[r].pend = None
                  \/ n \in {Cancelled(run[r]), Failed(run[r]), Ambiguous(run[r])}
  BY <1>2
<1>4. Closes(run[r], n) BY <1>2, <1>3, Closings
<1>5. n.pend = None BY <1>2, <1>3 DEF Stale, Cancelled, Failed, Ambiguous, Run
<1>6. n \in Run BY <1>4 DEF Closes
<1> QED BY <1>2, <1>3, <1>4, <1>5, <1>6 DEF Ends

DurableShape(q) == RecordShape(q) /\ MiddleShape(q) /\ EffectShape(q) /\ TreeShape(q)
DurableType ==
  /\ run \in [Runs -> Run \cup {None}]
  /\ hist \in Seq([by : Runs \cup {None}, snap : Snaps]) /\ hist # <<>>
  /\ copy \in [Runs -> Snaps \cup {None}]
  /\ evid \subseteq Runs \X Receipt /\ mem \subseteq Runs
Durable == DurableType /\ \A q \in Runs : DurableShape(q)

(* What the invariant says of records, trees and project.                   *)
LEMMA Durables == IInv => Durable
BY DEF IInv, TypeOK, Durable, DurableType, DurableShape

(* What concerns one run is kept by a step that leaves that run alone.      *)
LEMMA LeftAlone ==
  ASSUME IInv, NEW q \in Runs, run'[q] = run[q], copy'[q] = copy[q], evid \subseteq evid',
         CommittedBy(q)' = CommittedBy(q),
         inv'[q].pc \in Critical => inv'[q].pc = inv[q].pc,
         q \in mem' => q \in mem \/ copy[q] = run[q].diff,
         rlock[q] = q => rlock'[q] = q \/ (Exists(q) /\ run[q].pend # None)
  PROVE DurableShape(q)'
<1>1. RecordShape(q) /\ MiddleShape(q) /\ EffectShape(q) /\ TreeShape(q) BY DEF IInv
<1>2. Proofs(q) \subseteq Proofs(q)' BY DEF Proofs
<1>3. Exists(q)' <=> Exists(q) BY DEF Exists
<1>4. RecordShape(q)' BY <1>1, <1>2, <1>3 DEF RecordShape
<1>5. MiddleShape(q)' BY <1>1, <1>3 DEF MiddleShape, Critical
<1>6. EffectShape(q)' BY <1>1, <1>3 DEF EffectShape
<1>7. TreeShape(q)' BY <1>1, <1>3 DEF TreeShape, Alive
<1> QED BY <1>4, <1>5, <1>6, <1>7 DEF DurableShape

(* So is what concerns the others when one run takes a step.                *)
LEMMA OthersAlone ==
  ASSUME IInv, NEW r \in Runs, Settled(r), evid \subseteq evid',
         NEW q \in Runs \ {r}, run'[q] = run[q], copy'[q] = copy[q],
         CommittedBy(q)' = CommittedBy(q), q \in mem' => q \in mem
  PROVE DurableShape(q)'
<1>1. /\ inv'[q].pc \in Critical => inv'[q].pc = inv[q].pc
      /\ rlock[q] = q => rlock'[q] = q
  BY DEF Settled
<1> QED BY <1>1, LeftAlone

(* Notes keep everything, also when the queue goes with an effect pending.  *)
LEMMA NotesKeep ==
  ASSUME IInv, NEW r \in Runs, Notes(r), Settled(r),
         rlock[r] = r => rlock'[r] = r \/ (Exists(r) /\ run[r].pend # None)
  PROVE Durable'
<1>1. Durable BY Durables
<1>2. DurableType'
  <2>1. evid \subseteq Runs \X Receipt BY <1>1 DEF Durable, DurableType
  <2>2. evid' \subseteq Runs \X Receipt
    <3>1. CASE Adds(r)
      <4> DEFINE at == <<run[r].instr, run[r].diff>>
      <4>1. at \in Receipt BY <3>1, Shown DEF IInv, Adds
      <4>2. evid' = evid \cup {<<r, at>>} BY <3>1 DEF Adds
      <4> HIDE DEF at
      <4> QED BY <2>1, <4>1, <4>2
    <3>2. CASE evid' = evid BY <2>1, <3>2
    <3> QED BY <3>1, <3>2 DEF Notes
  <2> QED BY <1>1, <2>2 DEF Durable, DurableType, Notes, Remembers
<1>3. \A q \in Runs : CommittedBy(q)' = CommittedBy(q) BY DEF Notes, CommittedBy
<1>4. DurableShape(r)'
  <2>1. r \in mem' => r \in mem \/ copy[r] = run[r].diff BY DEF Notes, Remembers, Rehydrates
  <2>2. inv'[r].pc \in Critical => inv'[r].pc = inv[r].pc BY DEF Settled
  <2> QED BY <1>3, <2>1, <2>2, LeftAlone DEF Notes, Adds
<1>5. ASSUME NEW q \in Runs \ {r} PROVE DurableShape(q)'
  BY <1>3, OthersAlone DEF Notes, Adds, Remembers
<1> QED BY <1>2, <1>4, <1>5 DEF Durable

(* A run that goes on has the tree it had, and no effect.                   *)
LEMMA WorksKeep == ASSUME IInv, NEW r \in Runs, Works(r), Settled(r) PROVE Durable'
<1>1. Durable /\ LockShape(r) BY Durables DEF IInv
<1>2. PICK n \in Run : GoesOn(run[r], n) /\ run' = [run EXCEPT ![r] = n] BY DEF Works
<1>3. /\ Exists(r) /\ Mutable(run[r], TRUE) /\ rlock[r] = None
      /\ UNCHANGED <<hist, copy, evid>> /\ Remembers(r)
  BY DEF Works
<1>4. run' \in [Runs -> Run \cup {None}] /\ run'[r] = n /\ \A q \in Runs \ {r} : run'[q] = run[q]
  BY <1>1, <1>2 DEF Durable, DurableType
<1>5. DurableType' BY <1>1, <1>3, <1>4 DEF Durable, DurableType, Remembers
<1>6. \A q \in Runs : CommittedBy(q)' = CommittedBy(q) BY <1>3 DEF CommittedBy
<1>7. DurableShape(r)'
  <2>1. run[r].pend = None /\ run[r].st \in {"running", "waiting_input"}
    <3>1. run[r] \in Run BY <1>1, <1>3 DEF Durable, DurableType, Exists
    <3>2. RecordShape(r) BY DEF IInv
    <3> QED BY <1>3, <3>1, <3>2 DEF Mutable, RecordShape, Run, LiveStatus, Terminal
  <2>2. n.pend = None /\ n.diff = run[r].diff /\ n.st \in {"running", "waiting_input"}
    BY <1>2, <2>1 DEF GoesOn
  <2>3. CommittedBy(r) = {} BY <1>3, <2>1, NoEffectYet DEF Alive, Mutable
  <2>4. inv'[r].pc \notin Critical
    <3>1. inv[r].pc \notin Critical BY <1>1, <1>3, EnvAssumption DEF LockShape
    <3> QED BY <3>1 DEF Settled
  <2>5. RecordShape(r)' BY <1>4, <2>2 DEF RecordShape
  <2>6. MiddleShape(r)' BY <2>4 DEF MiddleShape, Critical
  <2>7. EffectShape(r)' BY <1>4, <1>6, <2>2, <2>3 DEF EffectShape
  <2>8. TreeShape(r)'
    <3>1. r \in mem' => copy[r] = run[r].diff
      <4>1. TreeShape(r) /\ Alive(r) BY <1>3 DEF IInv, Alive, Mutable
      <4>2. r \in mem => copy[r] = run[r].diff
        BY <1>3, <2>1, <4>1, EnvAssumption DEF TreeShape
      <4> QED BY <1>3, <4>2 DEF Remembers, Rehydrates
    <3> QED BY <1>3, <1>4, <2>2, <3>1 DEF TreeShape
  <2> QED BY <2>5, <2>6, <2>7, <2>8 DEF DurableShape
<1>8. ASSUME NEW q \in Runs \ {r} PROVE DurableShape(q)'
  BY <1>3, <1>4, <1>6, OthersAlone DEF Remembers
<1> QED BY <1>5, <1>7, <1>8 DEF Durable

(* A run that closes has no effect and never gets one.                      *)
LEMMA EndsKeep ==
  ASSUME IInv, NEW r \in Runs, Ends(r), Settled(r), inv'[r].pc \notin Critical PROVE Durable'
<1>1. Durable BY Durables
<1>2. PICK n \in Run : /\ Closes(run[r], n) /\ n.pend = None
                       /\ run' = [run EXCEPT ![r] = n]
  BY DEF Ends
<1>3. PICK c \in {copy[r], None} : copy' = [copy EXCEPT ![r] = c] BY DEF Ends
<1>4. CommittedBy(r) = {} /\ UNCHANGED <<hist, evid>> /\ mem' \subseteq mem BY DEF Ends
<1>5. /\ run' \in [Runs -> Run \cup {None}] /\ copy' \in [Runs -> Snaps \cup {None}]
      /\ run'[r] = n /\ \A q \in Runs \ {r} : run'[q] = run[q] /\ copy'[q] = copy[q]
  BY <1>1, <1>2, <1>3 DEF Durable, DurableType
<1>6. DurableType' BY <1>1, <1>4, <1>5 DEF Durable, DurableType
<1>7. \A q \in Runs : CommittedBy(q)' = CommittedBy(q) BY <1>4 DEF CommittedBy
<1>8. DurableShape(r)'
  <2>1. n.st \in TerminalStatus \ {"completed"} BY <1>2 DEF Closes
  <2>2. RecordShape(r)' BY <1>2, <1>5, <2>1 DEF RecordShape, TerminalStatus
  <2>3. MiddleShape(r)' BY DEF MiddleShape, Critical
  <2>4. EffectShape(r)' BY <1>4, <1>5, <1>7, <2>1 DEF EffectShape
  <2>5. TreeShape(r)' BY <1>5, <2>1 DEF TreeShape, Alive, Terminal
  <2> QED BY <2>2, <2>3, <2>4, <2>5 DEF DurableShape
<1>9. ASSUME NEW q \in Runs \ {r} PROVE DurableShape(q)'
  BY <1>4, <1>5, <1>7, OthersAlone
<1> QED BY <1>6, <1>8, <1>9 DEF Durable

(* It is enough to look at the run that takes the step.                     *)
LEMMA OneRun ==
  ASSUME IInv, NEW r \in Runs, DurableType', DurableShape(r)', evid \subseteq evid',
         \A q \in Runs \ {r} :
           /\ run'[q] = run[q] /\ copy'[q] = copy[q] /\ inv'[q] = inv[q]
           /\ CommittedBy(q)' = CommittedBy(q)
           /\ q \in mem' => q \in mem
           /\ rlock[q] = q => rlock'[q] = q
  PROVE Durable'
<1>1. ASSUME NEW q \in Runs \ {r} PROVE DurableShape(q)' BY LeftAlone
<1> QED BY <1>1 DEF Durable

Revision == [by : Runs \cup {None}, snap : Snaps]

(* A revision is appended by one run, or by none.                           *)
LEMMA Appending ==
  ASSUME DurableType, NEW e \in Revision, hist' = Append(hist, e)
  PROVE /\ hist' \in Seq(Revision) /\ hist' # <<>> /\ Len(hist') = Len(hist) + 1
        /\ Last(hist') = e
        /\ \A q : e.by # q => CommittedBy(q)' = CommittedBy(q)
        /\ \A q : e.by = q => CommittedBy(q)' = CommittedBy(q) \cup {Len(hist) + 1}
<1>1. hist \in Seq(Revision) BY DEF DurableType, Revision
<1>2. /\ hist' \in Seq(Revision) /\ Len(hist') = Len(hist) + 1
      /\ \A i \in 1 .. Len(hist) : hist'[i] = hist[i]
      /\ hist'[Len(hist) + 1] = e
  BY <1>1
<1>3. DOMAIN hist = 1 .. Len(hist) /\ DOMAIN hist' = 1 .. Len(hist) + 1 /\ Len(hist) \in Nat
  BY <1>1, <1>2
<1>4. DOMAIN hist' = DOMAIN hist \cup {Len(hist) + 1} /\ Len(hist) + 1 \notin DOMAIN hist
  BY <1>3
<1>5. hist' # <<>> BY <1>2, <1>3
<1>6. Last(hist') = e BY <1>2 DEF Last
<1>7. ASSUME NEW q, e.by # q PROVE CommittedBy(q)' = CommittedBy(q)
  BY <1>2, <1>3, <1>4, <1>7 DEF CommittedBy
<1>8. ASSUME NEW q, e.by = q PROVE CommittedBy(q)' = CommittedBy(q) \cup {Len(hist) + 1}
  BY <1>2, <1>3, <1>4, <1>8 DEF CommittedBy
<1> QED BY <1>2, <1>5, <1>6, <1>7, <1>8

(* The tree is written before the record: only the queue tells them apart.  *)
LEMMA PatchWriteKeeps == ASSUME IInv, NEW r \in Runs, PatchWrite(r) PROVE Durable'
<1>1. Durable /\ TypeOK BY Durables DEF IInv
<1>2. /\ Writes(r, FALSE) /\ CanPatch(run[r]) /\ Runtime(r) /\ Hold(r)
      /\ run' = [run EXCEPT ![r] = Claimed(run[r])] /\ UNCHANGED <<hist, evid>>
  BY DEF PatchWrite, Put
<1>3. PICK s \in Snaps : copy' = [copy EXCEPT ![r] = s] BY DEF PatchWrite
<1>4. Turned(r, "patching") BY <1>1, Turns DEF PatchWrite, InvPc
<1>5. /\ Exists(r) /\ Mutable(run[r], FALSE) /\ run[r] \in Run
      /\ copy[r] = run[r].diff \/ r \in mem
  BY <1>1, <1>2, Shown DEF Writes, Admits, Runtime, Rehydrates
<1> DEFINE n == Claimed(run[r])
<1>6. /\ n \in Run /\ n.st = run[r].st /\ n.pend = run[r].pend /\ n.map = run[r].map
      /\ n.plan = run[r].plan /\ n.patches = run[r].patches
  BY <1>5 DEF Claimed, Run
<1>7. run' = [run EXCEPT ![r] = n] BY <1>2
<1> HIDE DEF n
<1>8. /\ run' \in [Runs -> Run \cup {None}] /\ run'[r] = n /\ n # None
      /\ copy' \in [Runs -> Snaps \cup {None}] /\ copy'[r] \in Snaps
      /\ \A q \in Runs \ {r} : run'[q] = run[q] /\ copy'[q] = copy[q]
  BY <1>1, <1>3, <1>6, <1>7, NoRecordIsNone DEF Durable, DurableType
<1>9. DurableType' BY <1>1, <1>2, <1>8 DEF Durable, DurableType, Runtime
<1>10. \A q \in Runs : CommittedBy(q)' = CommittedBy(q) BY <1>2 DEF CommittedBy
<1>11. Alive(r) /\ run[r].pend = None BY <1>5 DEF Alive, Mutable
<1>12. CommittedBy(r) = {} BY <1>11, NoEffectYet
<1>13. run[r].st # "completed" /\ run[r].st # "validating"
  BY <1>5, <1>11 DEF IInv, RecordShape, Alive, Terminal, TerminalStatus
<1>14. RecordShape(r)' BY <1>6, <1>8, <1>11, <1>13 DEF RecordShape
<1>15. MiddleShape(r)'
  <2>1. inv'[r].pc = "patching" BY <1>4 DEF Turned
  <2>2. copy'[r] # None BY <1>8, BoundsAssumption
  <2> QED BY <1>2, <1>5, <1>6, <1>8, <2>1, <2>2
          DEF MiddleShape, Exists, Mutable, CanPatch, CurrentPlan, Terminal
<1>16. EffectShape(r)' BY <1>6, <1>8, <1>10, <1>12, <1>13 DEF EffectShape
<1>17. rlock' = [rlock EXCEPT ![r] = r] /\ rlock \in [Runs -> Runs \cup {None, "fence"}]
  BY <1>1, <1>2 DEF Hold, TypeOK
<1>18. TreeShape(r)' BY <1>17 DEF TreeShape
<1>19. DurableShape(r)' BY <1>14, <1>15, <1>16, <1>18 DEF DurableShape
<1>20. \A q \in Runs \ {r} : q \in mem' => q \in mem BY <1>2 DEF Runtime
<1> QED BY <1>2, <1>4, <1>8, <1>9, <1>10, <1>17, <1>19, <1>20, OneRun DEF Turned

(* The save that follows names the tree that was written.                   *)
LEMMA PatchSaveKeeps == ASSUME IInv, NEW r \in Runs, PatchSave(r) PROVE Durable'
<1>1. Durable /\ TypeOK /\ MiddleShape(r) /\ RecordShape(r) BY Durables DEF IInv
<1>2. /\ inv[r].pc = "patching" /\ UNCHANGED <<hist, copy, evid, mem>>
      /\ run' = [run EXCEPT ![r] = Patched(run[r], copy[r])]
      /\ rlock' = [rlock EXCEPT ![r] = None]
  BY DEF PatchSave, Put, Release, Step, disk
<1>3. /\ Exists(r) /\ Mutable(run[r], FALSE) /\ CanPatch(run[r]) /\ copy[r] \in Snaps
      /\ run[r] \in Run
  BY <1>1, <1>2, Shown DEF MiddleShape, TypeOK
<1>4. Turned(r, "loop") BY <1>1, Turns DEF PatchSave, InvPc
<1> DEFINE n == Patched(run[r], copy[r])
<1>5. n \in Run /\ n.st = run[r].st /\ n.pend = run[r].pend /\ n.diff = copy[r]
  BY <1>3, Milestones DEF CanPatch
<1>6. run' = [run EXCEPT ![r] = n] BY <1>2
<1> HIDE DEF n
<1>7. /\ run' \in [Runs -> Run \cup {None}] /\ run'[r] = n
      /\ \A q \in Runs \ {r} : run'[q] = run[q]
  BY <1>1, <1>5, <1>6 DEF Durable, DurableType
<1>8. DurableType' BY <1>1, <1>2, <1>7 DEF Durable, DurableType
<1>9. \A q \in Runs : CommittedBy(q)' = CommittedBy(q) BY <1>2 DEF CommittedBy
<1>10. Alive(r) /\ run[r].pend = None BY <1>3 DEF Alive, Mutable
<1>11. CommittedBy(r) = {} BY <1>10, NoEffectYet
<1>12. run[r].st # "completed" /\ run[r].st # "validating"
  BY <1>1, <1>3, <1>10 DEF RecordShape, Alive, Terminal, TerminalStatus
<1>13. DurableShape(r)'
  <2>1. RecordShape(r)' BY <1>5, <1>7, <1>10, <1>12 DEF RecordShape
  <2>2. MiddleShape(r)' BY <1>4 DEF MiddleShape, Turned
  <2>3. EffectShape(r)' BY <1>5, <1>7, <1>9, <1>11, <1>12 DEF EffectShape
  <2>4. TreeShape(r)' BY <1>2, <1>5, <1>7 DEF TreeShape
  <2> QED BY <2>1, <2>2, <2>3, <2>4 DEF DurableShape
<1> QED BY <1>1, <1>2, <1>4, <1>7, <1>8, <1>9, <1>13, OneRun DEF Turned, TypeOK

(* A tree that is rolled back is the one of the record again.               *)
LEMMA PatchUndoKeeps == ASSUME IInv, NEW r \in Runs, PatchUndo(r) PROVE Durable'
<1>1. Durable /\ TypeOK /\ DurableShape(r) BY Durables DEF IInv, Durable
<1>2. /\ inv[r].pc = "patching" /\ UNCHANGED <<run, hist, evid, mem>>
      /\ copy' = [copy EXCEPT ![r] = run[r].diff] /\ rlock' = [rlock EXCEPT ![r] = None]
  BY DEF PatchUndo, Release, Step
<1>3. Turned(r, "failing") BY <1>1, Turns DEF PatchUndo, InvPc
<1>4. Exists(r) BY <1>1, <1>2 DEF DurableShape, MiddleShape
<1>5. run[r] \in Run /\ run[r].diff \in Snaps BY <1>1, <1>4, Shown DEF Run
<1>6. /\ copy' \in [Runs -> Snaps \cup {None}] /\ copy'[r] = run[r].diff
      /\ \A q \in Runs \ {r} : copy'[q] = copy[q]
  BY <1>1, <1>2, <1>5 DEF Durable, DurableType
<1>7. DurableType' BY <1>1, <1>2, <1>6 DEF Durable, DurableType
<1>8. \A q \in Runs : CommittedBy(q)' = CommittedBy(q) BY <1>2 DEF CommittedBy
<1>9. DurableShape(r)'
  <2>1. RecordShape(r)' BY <1>1, <1>2 DEF DurableShape, RecordShape, Exists, Proofs
  <2>2. MiddleShape(r)' BY <1>3 DEF MiddleShape, Turned
  <2>3. EffectShape(r)' BY <1>1, <1>2, <1>8 DEF DurableShape, EffectShape, Exists
  <2>4. TreeShape(r)' BY <1>2, <1>6 DEF TreeShape
  <2> QED BY <2>1, <2>2, <2>3, <2>4 DEF DurableShape
<1> QED BY <1>1, <1>2, <1>3, <1>6, <1>7, <1>8, <1>9, OneRun DEF Turned, TypeOK

(* What goes on the barrier was validated, recorded and reviewed.           *)
LEMMA PrepareKeeps == ASSUME IInv, NEW r \in Runs, FinalizePrepare(r) PROVE Durable'
<1>1. Durable /\ TypeOK BY Durables DEF IInv
<1>2. /\ Writes(r, FALSE) /\ Runtime(r) /\ CanFinalize(run[r], copy[r], Proofs(r)) /\ Hold(r)
      /\ run' = [run EXCEPT ![r] = Prepared(run[r], copy[r])] /\ UNCHANGED <<hist, copy, evid>>
  BY DEF FinalizePrepare, Put, disk
<1>3. Turned(r, "commit") BY <1>1, Turns DEF FinalizePrepare, InvPc
<1>4. /\ Exists(r) /\ Mutable(run[r], FALSE) /\ run[r] \in Run
      /\ copy[r] \in Snaps /\ <<run[r].instr, copy[r]>> \in Receipt
  BY <1>1, <1>2, Shown DEF Writes, Admits, Runtime
<1> DEFINE n == Prepared(run[r], copy[r])
<1>5. /\ n \in Run /\ n.st = "validating" /\ n.pend = <<run[r].instr, copy[r]>>
      /\ n.diff = copy[r] /\ n.instr = run[r].instr /\ n.passed = run[r].passed
      /\ n.approved = run[r].approved /\ (CurrentPlan(n) <=> CurrentPlan(run[r]))
  BY <1>4, Milestones
<1>6. run' = [run EXCEPT ![r] = n] BY <1>2
<1> HIDE DEF n
<1>7. /\ run' \in [Runs -> Run \cup {None}] /\ run'[r] = n /\ n # None
      /\ \A q \in Runs \ {r} : run'[q] = run[q]
  BY <1>1, <1>5, <1>6, NoRecordIsNone DEF Durable, DurableType
<1>8. DurableType' BY <1>1, <1>2, <1>7 DEF Durable, DurableType, Runtime
<1>9. \A q \in Runs : CommittedBy(q)' = CommittedBy(q) BY <1>2 DEF CommittedBy
<1>10. CommittedBy(r) = {} BY <1>4, NoEffectYet DEF Alive, Mutable
<1>11. n.pend # None /\ n.pend[2] = copy[r] BY <1>4, <1>5, NoRecordIsNone
<1>12. RecordShape(r)'
  <2>1. n.pend \in n.passed \cap n.approved \cap Proofs(r) /\ CurrentPlan(n)
    BY <1>2, <1>5 DEF CanFinalize, CanReview
  <2>2. Proofs(r)' = Proofs(r) BY <1>2 DEF Proofs
  <2> QED BY <1>5, <1>7, <1>11, <2>1, <2>2 DEF RecordShape
<1>13. MiddleShape(r)'
  BY <1>2, <1>3, <1>7, <1>9, <1>10, <1>11 DEF MiddleShape, Turned, Exists
<1>14. EffectShape(r)' BY <1>5, <1>7, <1>9, <1>10 DEF EffectShape
<1>15. TreeShape(r)' BY <1>7, <1>11 DEF TreeShape
<1>16. DurableShape(r)' BY <1>12, <1>13, <1>14, <1>15 DEF DurableShape
<1>17. rlock' = [rlock EXCEPT ![r] = r] /\ rlock \in [Runs -> Runs \cup {None, "fence"}]
  BY <1>1, <1>2 DEF Hold, TypeOK
<1>18. \A q \in Runs \ {r} : q \in mem' => q \in mem BY <1>2 DEF Runtime
<1> QED BY <1>2, <1>3, <1>7, <1>8, <1>9, <1>16, <1>17, <1>18, OneRun DEF Turned

(* The effect of a run is its tree, and the first of that run.              *)
LEMMA EffectOnce ==
  ASSUME IInv, NEW r \in Runs, AppendBy(r), copy[r] \in Snaps, CommittedBy(r) = {}
  PROVE /\ hist' \in Seq(Revision) /\ hist' # <<>> /\ CommittedBy(r)' = {Len(hist) + 1}
        /\ \A q \in Runs \ {r} : CommittedBy(q)' = CommittedBy(q)
<1> DEFINE e == [by |-> r, snap |-> copy[r]]
<1>1. e \in Revision /\ hist' = Append(hist, e) /\ e.by = r BY DEF AppendBy, Revision
<1> HIDE DEF e
<1>2. DurableType BY Durables DEF Durable
<1> QED BY <1>1, <1>2, Appending

(* The effect is there before the record says so.                           *)
LEMMA CommitKeeps ==
  ASSUME IInv, NEW r \in Runs, FinalizeCommit(r) \/ CommitLost(r) PROVE Durable'
<1>1. Durable /\ TypeOK /\ MiddleShape(r) /\ RecordShape(r) /\ EffectShape(r)
  BY Durables DEF IInv
<1>2. /\ inv[r].pc = "commit" /\ AppendBy(r) /\ UNCHANGED <<run, evid, mem>>
      /\ copy' = copy \/ copy' = [copy EXCEPT ![r] = None]
      /\ rlock' = rlock \/ rlock' = [rlock EXCEPT ![r] = None]
  BY DEF FinalizeCommit, CommitLost, Step, Drop, Release, locks
<1>3. inv'[r].pc \in {"committed", "failing"} /\ \A q \in Runs \ {r} : inv'[q] = inv[q]
  BY <1>1, Turns DEF FinalizeCommit, CommitLost, InvPc, Turned
<1>4. Exists(r) /\ run[r].pend # None /\ CommittedBy(r) = {} /\ copy[r] = run[r].pend[2]
  BY <1>1, <1>2 DEF MiddleShape
<1>5. run[r].st = "validating" /\ copy[r] \in Snaps
  <2>1. run[r] \in Run BY <1>1, <1>4, Shown
  <2>2. run[r].pend \in Receipt BY <1>4, <2>1 DEF Run
  <2> QED BY <1>1, <1>4, <2>2 DEF RecordShape, Receipt
<1>6. /\ hist' \in Seq(Revision) /\ hist' # <<>> /\ CommittedBy(r)' = {Len(hist) + 1}
      /\ \A q \in Runs \ {r} : CommittedBy(q)' = CommittedBy(q)
  BY <1>2, <1>4, <1>5, EffectOnce
<1>7. DurableType' BY <1>1, <1>2, <1>6 DEF Durable, DurableType, Revision
<1>8. DurableShape(r)'
  <2>1. RecordShape(r)' BY <1>1, <1>2 DEF RecordShape, Exists, Proofs
  <2>2. MiddleShape(r)' BY <1>2, <1>3, <1>4, <1>6 DEF MiddleShape, Exists
  <2>3. EffectShape(r)' BY <1>2, <1>4, <1>5, <1>6 DEF EffectShape, Exists
  <2>4. TreeShape(r)' BY <1>2, <1>4 DEF TreeShape
  <2> QED BY <2>1, <2>2, <2>3, <2>4 DEF DurableShape
<1> QED BY <1>1, <1>2, <1>3, <1>6, <1>7, <1>8, OneRun DEF TypeOK

(* A completed record tells of an effect that is there.                     *)
LEMMA CompletedShape ==
  ASSUME IInv, NEW r \in Runs, run[r] \in Run, run'[r] = Completed(run[r]),
         inv'[r].pc \notin Critical, \E i : CommittedBy(r)' = {i}
  PROVE DurableShape(r)'
<1> DEFINE n == Completed(run[r])
<1>1. run'[r] = n /\ n.st = "completed" /\ n.pend = None
  BY Milestones, EnvAssumption
<1> HIDE DEF n
<1>2. RecordShape(r)' BY <1>1 DEF RecordShape
<1>3. MiddleShape(r)' BY DEF MiddleShape, Critical
<1>4. EffectShape(r)'
  <2>1. Exists(r)'
    <3>1. Completed(run[r]) \in Run BY Milestones, EnvAssumption
    <3> QED BY <3>1, NoRecordIsNone DEF Exists
  <2> QED BY <1>1, <2>1 DEF EffectShape
<1>5. TreeShape(r)' BY <1>1 DEF TreeShape, Alive, Terminal, TerminalStatus
<1> QED BY <1>2, <1>3, <1>4, <1>5 DEF DurableShape

(* An effect that is there completes its run, at once or by recovery.       *)
LEMMA CompleteKeeps ==
  ASSUME IInv, NEW r \in Runs, FinalizeComplete(r) \/ RecoverFound(r) \/ RecoverCommit(r)
  PROVE Durable'
<1>1. Durable /\ TypeOK /\ MiddleShape(r) /\ RecordShape(r) /\ EffectShape(r) /\ LockShape(r)
  BY Durables DEF IInv
<1>2. /\ Exists(r) /\ run[r].pend # None
      /\ CommittedBy(r) # {} <=> (FinalizeComplete(r) \/ RecoverFound(r))
  BY <1>1 DEF FinalizeComplete, Step, MiddleShape, RecoverFound, RecoverCommit, CanRecover
<1>3. run[r] \in Run BY <1>1, <1>2, Shown
<1>4. /\ inv'[r].pc \notin Critical /\ \A q \in Runs \ {r} : inv'[q] = inv[q]
      /\ rlock' = rlock \/ rlock' = [rlock EXCEPT ![r] = None]
      /\ rlock[r] = r => FinalizeComplete(r)
  <2>1. CASE FinalizeComplete(r)
    <3>1. Turned(r, "quiet") BY <1>1, <2>1, Turns DEF FinalizeComplete, Outcome, InvPc
    <3> QED BY <2>1, <3>1 DEF Turned, FinalizeComplete, Release, Critical
  <2>2. CASE RecoverFound(r) \/ RecoverCommit(r)
    <3>1. inv' = inv /\ rlock' = rlock /\ rlock[r] = None
      BY <2>2 DEF RecoverFound, RecoverCommit, CanRecover, Free, locks
    <3> QED BY <1>1, <3>1, EnvAssumption DEF LockShape
  <2> QED BY <2>1, <2>2
<1>5. /\ hist' \in Seq(Revision) /\ hist' # <<>> /\ \E i : CommittedBy(r)' = {i}
      /\ \A q \in Runs \ {r} : CommittedBy(q)' = CommittedBy(q)
  <2>1. CASE FinalizeComplete(r) \/ RecoverFound(r)
    <3>1. hist' = hist BY <2>1 DEF FinalizeComplete, RecoverFound, disk
    <3>2. \A q : CommittedBy(q)' = CommittedBy(q) BY <3>1 DEF CommittedBy
    <3>3. \E i : CommittedBy(r) = {i} BY <1>1, <1>2, <2>1 DEF EffectShape
    <3> QED BY <1>1, <3>1, <3>2, <3>3 DEF Durable, DurableType, Revision
  <2>2. CASE RecoverCommit(r)
    <3>1. AppendBy(r) /\ CommittedBy(r) = {} /\ copy[r] = run[r].pend[2]
      BY <2>2 DEF RecoverCommit
    <3>2. copy[r] \in Snaps BY <1>2, <1>3, <3>1 DEF Run, Receipt
    <3> QED BY <3>1, <3>2, EffectOnce
  <2> QED BY <2>1, <2>2
<1>6. /\ (run' = run /\ RecoverCommit(r)) \/ run' = [run EXCEPT ![r] = Completed(run[r])]
      /\ copy' = copy \/ copy' = [copy EXCEPT ![r] = None]
      /\ evid' = evid /\ mem' \subseteq mem
  BY DEF FinalizeComplete, RecoverFound, RecoverCommit, Put, Drop, disk
<1>7. /\ run' \in [Runs -> Run \cup {None}] /\ copy' \in [Runs -> Snaps \cup {None}]
      /\ \A q \in Runs \ {r} : run'[q] = run[q] /\ copy'[q] = copy[q]
      /\ (run' = run /\ RecoverCommit(r)) \/ run'[r] = Completed(run[r])
  <2>1. Completed(run[r]) \in Run BY <1>3, Milestones, EnvAssumption
  <2> QED BY <1>1, <1>6, <2>1 DEF Durable, DurableType
<1>8. DurableType' BY <1>1, <1>5, <1>6, <1>7 DEF Durable, DurableType, Revision
<1>9. DurableShape(r)'
  <2>1. CASE run'[r] = Completed(run[r]) BY <1>3, <1>4, <1>5, <2>1, CompletedShape
  <2>2. CASE run' = run /\ RecoverCommit(r)
    <3>1. run[r].st = "validating" BY <2>2 DEF RecoverCommit, CanRecover
    <3>2. RecordShape(r)' BY <1>1, <1>6, <2>2 DEF RecordShape, Exists, Proofs
    <3>3. MiddleShape(r)' BY <1>4 DEF MiddleShape, Critical
    <3>4. EffectShape(r)' BY <1>2, <1>5, <2>2, <3>1 DEF EffectShape, Exists
    <3>5. TreeShape(r)' BY <1>2, <2>2 DEF TreeShape
    <3> QED BY <3>2, <3>3, <3>4, <3>5 DEF DurableShape
  <2> QED BY <1>7, <2>1, <2>2
<1>10. \A q \in Runs \ {r} : rlock[q] = q => rlock'[q] = q BY <1>1, <1>4 DEF TypeOK
<1> QED BY <1>4, <1>5, <1>6, <1>7, <1>8, <1>9, <1>10, OneRun

(* The fence removes the tree of a run whose queue it has.                  *)
LEMMA DisposeKeeps == ASSUME IInv, NEW r \in Runs, FenceDispose(r) PROVE Durable'
<1>1. Durable /\ TypeOK /\ DurableShape(r) /\ LockShape(r) /\ FenceShape
  BY Durables DEF IInv, Durable
<1>2. /\ fence.pc = "dispose" /\ fence.run = r /\ UNCHANGED <<run, hist, evid, inv>>
      /\ copy' = [copy EXCEPT ![r] = None] /\ mem' = mem \ {r}
      /\ rlock' = [rlock EXCEPT ![r] = None]
  BY DEF FenceDispose, Drop
<1>3. inv[r].pc \notin Critical
  BY <1>1, <1>2, EnvAssumption DEF LockShape, FenceShape
<1>4. /\ copy' \in [Runs -> Snaps \cup {None}] /\ \A q \in Runs \ {r} : copy'[q] = copy[q]
      /\ \A q \in Runs \ {r} : rlock'[q] = rlock[q]
  BY <1>1, <1>2 DEF Durable, DurableType, TypeOK
<1>5. DurableType' BY <1>1, <1>2, <1>4 DEF Durable, DurableType
<1>6. \A q \in Runs : CommittedBy(q)' = CommittedBy(q) BY <1>2 DEF CommittedBy
<1>7. DurableShape(r)'
  <2>1. RecordShape(r)' BY <1>1, <1>2 DEF DurableShape, RecordShape, Exists, Proofs
  <2>2. MiddleShape(r)' BY <1>2, <1>3 DEF MiddleShape, Critical
  <2>3. EffectShape(r)' BY <1>1, <1>2, <1>6 DEF DurableShape, EffectShape, Exists
  <2>4. TreeShape(r)' BY <1>2 DEF TreeShape
  <2> QED BY <2>1, <2>2, <2>3, <2>4 DEF DurableShape
<1> QED BY <1>2, <1>4, <1>5, <1>6, <1>7, OneRun

(* A run that starts makes the older ones stale; none of them has an effect. *)
LEMMA StartKeeps == ASSUME IInv, NEW r \in Runs, Start(r), Unmoved PROVE Durable'
<1> DEFINE old == {q \in Runs : Alive(q)}
           n == NewRun(Len(hist), Tip)
<1>1. Durable /\ TypeOK BY Durables DEF IInv
<1>2. /\ auth = None /\ Available /\ ~Exists(r) /\ UNCHANGED <<hist, evid>>
      /\ \A q \in Runs : Alive(q) => run[q].pend = None
      /\ run' = [q \in Runs |-> IF q = r THEN n ELSE IF q \in old THEN Stale(run[q]) ELSE run[q]]
      /\ \E kept \in SUBSET old :
           copy' = [q \in Runs |-> IF q = r THEN Tip
                                   ELSE IF q \in old \ kept THEN None ELSE copy[q]]
      /\ mem' = (mem \ old) \cup {r} /\ inv' = inv /\ rlock' = rlock
  BY DEF Start, Unmoved, ProjectFree
<1>3. Tip \in Snaps /\ Len(hist) \in Nat
  <2>1. hist \in Seq(Revision) /\ hist # <<>> BY <1>1 DEF Durable, DurableType, Revision
  <2>2. Len(hist) \in 1 .. Len(hist) BY <2>1
  <2>3. hist[Len(hist)] \in Revision BY <2>1, <2>2
  <2> QED BY <2>1, <2>3 DEF Tip, Last, Revision
<1>4. n \in Run /\ n.st = "running" /\ n.pend = None /\ n.diff = Tip BY <1>3, Fresher
<1>5. \A q \in old : run[q] \in Run /\ q # r
  BY <1>1, <1>2 DEF Durable, DurableType, Alive, Exists
<1> HIDE DEF n
<1>6. /\ run' \in [Runs -> Run \cup {None}] /\ run'[r] = n
      /\ \A q \in old : run'[q] = Stale(run[q])
      /\ \A q \in Runs \ (old \cup {r}) : run'[q] = run[q]
  <2>1. \A q \in old : Stale(run[q]) \in Run BY <1>5, Closings DEF Closes
  <2> HIDE DEF old
  <2>2. old \subseteq Runs BY DEF old
  <2> QED BY <1>1, <1>2, <1>4, <1>5, <2>1, <2>2 DEF Durable, DurableType
<1>7. PICK kept \in SUBSET old :
        copy' = [q \in Runs |-> IF q = r THEN Tip
                                ELSE IF q \in old \ kept THEN None ELSE copy[q]]
  BY <1>2
<1>8. /\ copy' \in [Runs -> Snaps \cup {None}] /\ copy'[r] = Tip
      /\ \A q \in Runs \ (old \cup {r}) : copy'[q] = copy[q]
  BY <1>1, <1>3, <1>7 DEF Durable, DurableType
<1>9. DurableType' BY <1>1, <1>2, <1>6, <1>8 DEF Durable, DurableType
<1>10. \A q \in Runs : CommittedBy(q)' = CommittedBy(q) BY <1>2 DEF CommittedBy
<1>11. \A q \in Runs : inv[q].pc \notin Critical
  BY <1>2, EnvAssumption DEF IInv, LockShape, Holders
<1>12. DurableShape(r)'
  <2>1. CommittedBy(r) = {} BY <1>2 DEF IInv, KnownShape
  <2>2. RecordShape(r)' BY <1>4, <1>6 DEF RecordShape
  <2>3. MiddleShape(r)' BY <1>2, <1>11 DEF MiddleShape, Critical
  <2>4. EffectShape(r)' BY <1>4, <1>6, <1>10, <2>1 DEF EffectShape
  <2>5. TreeShape(r)' BY <1>4, <1>6, <1>8 DEF TreeShape
  <2> QED BY <2>2, <2>3, <2>4, <2>5 DEF DurableShape
<1>13. ASSUME NEW q \in old PROVE DurableShape(q)'
  <2>0. Alive(q) /\ run[q] \in Run /\ run[q].pend = None BY <1>2, <1>5
  <2>1. CommittedBy(q) = {} BY <2>0, NoEffectYet
  <2>2. run'[q].st = "stale" /\ run'[q].pend = None
    BY <1>6, <2>0 DEF Stale, Run
  <2>3. RecordShape(q)' BY <2>2 DEF RecordShape
  <2>4. MiddleShape(q)' BY <1>2, <1>11 DEF MiddleShape, Critical
  <2>5. EffectShape(q)' BY <1>10, <2>1, <2>2 DEF EffectShape
  <2>6. TreeShape(q)' BY <2>2 DEF TreeShape, Alive, Terminal, TerminalStatus
  <2> QED BY <2>3, <2>4, <2>5, <2>6 DEF DurableShape
<1>14. ASSUME NEW q \in Runs \ (old \cup {r}) PROVE DurableShape(q)'
  BY <1>2, <1>6, <1>8, <1>10, LeftAlone
<1> QED BY <1>9, <1>12, <1>13, <1>14 DEF Durable

(* Whose lease a record carries concerns nothing else.                      *)
LeasesMove ==
  \A q \in Runs :
    \/ run'[q] = run[q]
    \/ Exists(q) /\ \E w \in {"other", "expired"} : run'[q] = [run[q] EXCEPT !.writer = w]

(* The records of a process that died, and leases that run out.             *)
LEMMA LeasesKeep ==
  ASSUME IInv, LeasesMove, run' \in [Runs -> Run \cup {None}], UNCHANGED <<hist, copy, evid>>,
         mem' \subseteq mem,
         \A q \in Runs : inv'[q].pc \in Critical => inv'[q].pc = inv[q].pc,
         mem' = {} \/ rlock' = rlock
  PROVE Durable'
<1>1. Durable BY Durables
<1>2. DurableType' BY <1>1 DEF Durable, DurableType
<1>3. \A q \in Runs : CommittedBy(q)' = CommittedBy(q) BY DEF CommittedBy
<1>4. ASSUME NEW q \in Runs PROVE DurableShape(q)'
  <2>1. DurableShape(q) BY <1>1 DEF Durable
  <2>2. inv'[q].pc \in Critical => inv'[q].pc = inv[q].pc OBVIOUS
  <2>3. Exists(q)' <=> Exists(q)
    <3>1. Exists(q) => run[q] \in Run BY <1>1 DEF Durable, DurableType, Exists
    <3>2. ASSUME NEW w \in {"other", "expired"}, Exists(q)
          PROVE [run[q] EXCEPT !.writer = w] \in Run
      BY <3>1, <3>2, Leasing DEF SameButLease
    <3> QED BY <3>2, NoRecordIsNone DEF LeasesMove, Exists
  <2>4. Exists(q) => /\ run'[q].st = run[q].st /\ run'[q].pend = run[q].pend
                     /\ run'[q].instr = run[q].instr /\ run'[q].diff = run[q].diff
                     /\ run'[q].passed = run[q].passed /\ run'[q].approved = run[q].approved
                     /\ run'[q].map = run[q].map /\ run'[q].plan = run[q].plan
                     /\ run'[q].patches = run[q].patches
    <3>1. Exists(q) => run[q] \in Run BY <1>1 DEF Durable, DurableType, Exists
    <3>2. ASSUME NEW w \in {"other", "expired"}, Exists(q), run'[q] = [run[q] EXCEPT !.writer = w]
          PROVE SameButLease(run[q], run'[q])
      BY <3>1, <3>2, Leasing
    <3>3. CASE run'[q] = run[q] BY <3>3
    <3>4. CASE SameButLease(run[q], run'[q]) BY <3>4 DEF SameButLease
    <3> QED BY <3>2, <3>3, <3>4 DEF LeasesMove
  <2>5. RecordShape(q)' BY <2>1, <2>3, <2>4 DEF DurableShape, RecordShape, CurrentPlan, Proofs
  <2>6. MiddleShape(q)'
    BY <1>3, <2>1, <2>2, <2>3, <2>4
       DEF DurableShape, MiddleShape, Critical, Mutable, Terminal, CanPatch, CurrentPlan
  <2>7. EffectShape(q)' BY <1>3, <2>1, <2>3, <2>4 DEF DurableShape, EffectShape
  <2>8. TreeShape(q)'
    BY <2>1, <2>3, <2>4 DEF DurableShape, TreeShape, Alive, Terminal
  <2> QED BY <2>5, <2>6, <2>7, <2>8 DEF DurableShape
<1> QED BY <1>2, <1>4 DEF Durable

(* A crash, a lease, and a move of the project by somebody else.            *)
LEMMA EnvironmentKeeps ==
  ASSUME IInv, Restarted \/ ProjectMoves \/ \E r \in Runs : LeaseExpires(r) PROVE Durable'
<1>1. Durable /\ TypeOK BY Durables DEF IInv
<1>2. ASSUME NEW q \in Runs, Exists(q), NEW w \in {"other", "expired"}
      PROVE [run[q] EXCEPT !.writer = w] \in Run
  BY <1>1, <1>2, Shown, Leasing DEF SameButLease
<1>3. CASE Restarted
  <2>1. run' \in [Runs -> Run \cup {None}] BY <1>1, <1>2, <1>3 DEF Restarted, Durable, DurableType
  <2>2. LeasesMove BY <1>3 DEF LeasesMove, Restarted
  <2>3. \A q \in Runs : inv'[q].pc \notin Critical BY <1>3 DEF Restarted, Idle, Critical
  <2> QED BY <1>3, <2>1, <2>2, <2>3, LeasesKeep DEF Restarted, disk
<1>4. ASSUME NEW r \in Runs, LeaseExpires(r) PROVE Durable'
  <2>1. Exists(r) /\ run' = [run EXCEPT ![r] = [run[r] EXCEPT !.writer = "expired"]]
        /\ UNCHANGED <<disk, volatile>>
    BY <1>4 DEF LeaseExpires
  <2>2. run' \in [Runs -> Run \cup {None}] BY <1>1, <1>2, <2>1 DEF Durable, DurableType
  <2>3. LeasesMove BY <1>1, <2>1 DEF LeasesMove, Durable, DurableType
  <2> QED BY <2>1, <2>2, <2>3, LeasesKeep DEF disk, volatile
<1>5. CASE ProjectMoves
  <2>1. PICK s \in Snaps : hist' = Append(hist, [by |-> None, snap |-> s])
    BY <1>5 DEF ProjectMoves
  <2> DEFINE e == [by |-> None, snap |-> s]
  <2>2. e \in Revision /\ hist' = Append(hist, e) /\ e.by = None BY <2>1 DEF Revision
  <2> HIDE DEF e
  <2>3. \A q \in Runs : CommittedBy(q)' = CommittedBy(q)
    BY <1>1, <2>2, Appending, EnvAssumption DEF Durable
  <2>4. UNCHANGED <<run, copy, evid, mem, inv, rlock>> BY <1>5 DEF ProjectMoves, volatile
  <2>5. DurableType'
    BY <1>1, <2>2, <2>4, Appending DEF Durable, DurableType, Revision
  <2>6. ASSUME NEW q \in Runs PROVE DurableShape(q)' BY <2>3, <2>4, LeftAlone
  <2> QED BY <2>5, <2>6 DEF Durable
<1> QED BY <1>3, <1>4, <1>5

(* Steps after which nobody is in the middle of a patch or a commit who was  *)
(* not there before.                                                        *)
LEMMA Settling ==
  ASSUME IInv, NEW r \in Runs,
         \/ Walks(r) \/ Gives(r) \/ Unmoved \/ LaunchLock(r) \/ CheckEvidence(r)
         \/ ProviderAnswers(r)
         \/ DecisionLost(r) \/ ProviderSettles(r) \/ FenceStart(r) \/ Fence(r)
  PROVE Settled(r)
<1>1. TypeOK BY DEF IInv
<1>2. CASE Walks(r) BY <1>2 DEF Walks, Turned, Loose, Holders, Settled
<1>3. CASE Gives(r) BY <1>1, <1>3 DEF Gives, Turned, Loose, Holders, Critical, Settled, TypeOK
<1>4. CASE Unmoved BY <1>4 DEF Unmoved, Settled
<1>5. CASE LaunchLock(r) \/ CheckEvidence(r)
  <2>1. (Turned(r, "launching") \/ Turned(r, "proving")) /\ rlock' = rlock
    BY <1>1, <1>5, Turns DEF LaunchLock, CheckEvidence, InvPc
  <2> QED BY <2>1 DEF Turned, Critical, Settled
<1>6. CASE ProviderAnswers(r)
  <2>1. Turned(r, "decided") /\ rlock' = rlock
    BY <1>1, <1>6, Turns DEF ProviderAnswers, InvPc, locks
  <2> QED BY <2>1 DEF Turned, Critical, Settled
<1>7. CASE DecisionLost(r)
  <2>1. Turned(r, "failing") /\ rlock' = rlock
    BY <1>1, <1>7, Turns DEF DecisionLost, InvPc, locks
  <2> QED BY <2>1 DEF Turned, Critical, Settled
<1>8. CASE ProviderSettles(r) BY <1>8 DEF ProviderSettles, locks, Settled
<1>9. CASE FenceStart(r) \/ Fence(r) BY <1>9, FenceControl DEF Settled
<1> QED BY <1>2, <1>3, <1>4, <1>5, <1>6, <1>7, <1>8, <1>9

(* The kinds of a step of one run, by what they do to the durable state.    *)
Special(r) ==
  \/ PatchWrite(r) \/ PatchSave(r) \/ PatchUndo(r) \/ FinalizePrepare(r) \/ FinalizeCommit(r)
  \/ CommitLost(r) \/ FinalizeComplete(r) \/ RecoverFound(r) \/ RecoverCommit(r)
  \/ FenceDispose(r) \/ (Start(r) /\ Unmoved)

Kinds(r) ==
  \/ /\ Notes(r) /\ Settled(r)
     /\ rlock[r] = r => rlock'[r] = r \/ (Exists(r) /\ run[r].pend # None)
  \/ Works(r) /\ Settled(r)
  \/ Ends(r) /\ Settled(r) /\ inv'[r].pc \notin Critical
  \/ Special(r)

(* Every step of a process that goes on is of one of the kinds.             *)
LEMMA CalmSorting ==
  ASSUME IInv, Calm
  PROVE ProjectMoves \/ \E r \in Runs : LeaseExpires(r) \/ Kinds(r)
<1>1. ASSUME NEW r \in Runs, Member(r) PROVE Kinds(r)
  <2>0. LockShape(r) /\ TypeOK BY DEF IInv
  <2>1. CASE Start(r) /\ UNCHANGED locks
    BY <2>1, MemberStill DEF Kinds, Special
  <2>2. CASE Revise(r)
    BY <2>2, Working, MemberStill, Settling DEF Kinds
  <2>3. CASE Cancel(r) \/ RecoverAmbiguous(r) \/ (MarkStale(r) /\ UNCHANGED inv)
             \/ (EvidenceMismatch(r) /\ UNCHANGED inv)
    <3>1. Ends(r) BY <2>3, Ending
    <3>2. Unmoved BY <2>3, MemberStill DEF Recover
    <3>3. rlock[r] = None
      BY <2>3 DEF Cancel, RecoverAmbiguous, CanRecover, MarkStale, EvidenceMismatch, Writes,
                  Admits, Free
    <3>4. inv[r].pc \notin Critical BY <2>0, <3>3, EnvAssumption DEF LockShape
    <3> QED BY <3>1, <3>2, <3>4, Settling DEF Kinds, Unmoved
  <2>4. CASE RecoverFound(r) \/ RecoverCommit(r) BY <2>4 DEF Kinds, Special
  <2>5. CASE Advance(r)
    <3>1. Launches(r) BY <2>5 DEF Advance, Launches
    <3>2. Walks(r) /\ Notes(r) BY <3>1, Walking, Noting
    <3> QED BY <3>2, Settling DEF Kinds, Walks
  <2> QED BY <1>1, <2>1, <2>2, <2>3, <2>4, <2>5 DEF Member, Recover
<1>2. ASSUME NEW r \in Runs, Invocation(r) PROVE Kinds(r)
  <2>1. CASE \/ Enter(r) \/ LoopResume(r) \/ LoopMap(r) \/ LoopReserve(r)
             \/ LoopBudget(r) \/ ActYield(r) \/ ActPlan(r) \/ SandboxPrepare(r) \/ RecordInfra(r)
             \/ RecordResult(r) \/ ReviewStart(r) \/ RecordReview(r)
             \/ (PauseAfterFailure(r) /\ ~UNCHANGED run)
    <3>1. Works(r) BY <2>1, Working
    <3>2. Walks(r) BY <2>1, Walking
    <3> QED BY <3>1, <3>2, Settling DEF Kinds
  <2>2. CASE \/ EnterRefused(r) \/ LoopExit(r) \/ CheckDecision(r) \/ ActRead(r)
             \/ SandboxLaunch(r) \/ SandboxEnds(r) \/ SandboxBreaks(r) \/ ExecReturns(r)
             \/ ReviewEnds(r) \/ CallThrows(r) \/ QuiescenceReached(r)
             \/ (PauseAfterFailure(r) /\ UNCHANGED run)
    <3>1. Notes(r) BY <2>2, Noting
    <3>2. Walks(r) BY <2>2, Walking
    <3> QED BY <3>1, <3>2, Settling DEF Kinds, Walks
  <2>3. CASE CallMarksStale(r) \/ CallFindsMismatch(r)
    <3>1. Ends(r) BY <2>3, Ending DEF CallMarksStale, CallFindsMismatch
    <3>2. Walks(r) BY <2>3, Walking
    <3>3. inv'[r].pc \notin Critical BY <3>2 DEF Walks, Turned, Loose, Holders
    <3> QED BY <3>1, <3>2, <3>3, Settling DEF Kinds
  <2>4. CASE LaunchLock(r) \/ LaunchGo(r) \/ LaunchRefused(r) \/ CheckEvidence(r)
             \/ PersistEvidence(r) \/ EvidenceBreaks(r)
    <3>1. Notes(r) BY <2>4, Noting
    <3>2. rlock' = rlock
      BY <2>4
         DEF LaunchLock, LaunchGo, LaunchRefused, CheckEvidence, PersistEvidence, EvidenceBreaks
    <3>3. Settled(r) BY <2>4, Giving, Settling
    <3> QED BY <3>1, <3>2, <3>3 DEF Kinds
  <2>5. CASE ProviderAnswers(r) \/ DecisionLost(r)
    <3>1. Notes(r) BY <2>5, Noting
    <3>2. rlock' = rlock BY <2>5 DEF ProviderAnswers, DecisionLost, locks
    <3>3. Settled(r) BY <2>5, Settling
    <3> QED BY <3>1, <3>2, <3>3 DEF Kinds
  <2>6. CASE FinalizeThrows(r)
    <3>1. Notes(r) /\ Settled(r) BY <2>6, Noting, Giving, Settling
    <3>2. Exists(r) /\ run[r].pend # None BY <2>6 DEF FinalizeThrows, IInv, MiddleShape
    <3> QED BY <3>1, <3>2 DEF Kinds
  <2>7. CASE PatchQuarantine(r)
    <3>1. Ends(r) /\ Gives(r) BY <2>7, Ending, Giving
    <3>2. inv'[r].pc \notin Critical
      BY <3>1 DEF Gives, Turned, Loose, Holders, Critical
    <3> QED BY <3>1, <3>2, Settling DEF Kinds
  <2>8. CASE Special(r) BY <2>8 DEF Kinds
  <2> QED BY <1>2, <2>1, <2>2, <2>3, <2>4, <2>5, <2>6, <2>7, <2>8 DEF Invocation, Special
<1>3. ASSUME NEW r \in Runs, ProviderSettles(r) PROVE Kinds(r)
  <2>1. rlock' = rlock BY <1>3 DEF ProviderSettles, locks
  <2> QED BY <1>3, <2>1, Noting, Settling DEF Kinds
<1>4. ASSUME NEW r \in Runs, FenceStart(r) \/ Fence(r) PROVE Kinds(r)
  <2>1. Settled(r) /\ inv' = inv /\ (rlock[r] = r => rlock'[r] = r)
    BY <1>4, Settling, FenceControl
  <2>2. CASE FenceDispose(r) BY <2>2 DEF Kinds, Special
  <2>3. CASE FenceSave(r) /\ ~UNCHANGED run
    <3>1. Ends(r) BY <2>3, Ending
    <3>2. LockShape(r) /\ rlock[r] = "fence" BY <2>3 DEF IInv, FenceSave, FenceShape
    <3>3. inv[r].pc \notin Critical BY <3>2, EnvAssumption DEF LockShape
    <3> QED BY <2>1, <3>1, <3>3 DEF Kinds
  <2>4. CASE ~FenceDispose(r) /\ ~(FenceSave(r) /\ ~UNCHANGED run)
    <3>1. Notes(r) BY <1>4, <2>4, Noting DEF Fence
    <3> QED BY <2>1, <3>1 DEF Kinds
  <2> QED BY <2>2, <2>3, <2>4
<1>5. ASSUME NEW r \in Runs, Calls(r) PROVE Kinds(r)
  <2>1. CASE Launches(r)
    <3>1. Walks(r) /\ Notes(r) BY <2>1, Walking, Noting
    <3> QED BY <3>1, Settling DEF Kinds, Walks
  <2>2. CASE Interrupts(r) \/ LetsGo
    <3>1. Notes(r) /\ Unmoved BY <2>2, Noting, CallerStill
    <3> QED BY <3>1, Settling DEF Kinds, Unmoved
  <2>3. CASE StartsHolding(r) BY <2>3, CallerStill DEF StartsHolding, Kinds, Special
  <2>4. CASE SavesHolding(r)
    <3>1. Settled(r) /\ inv' = inv BY <2>4, CallerStill, Settling DEF Unmoved
    <3>2. LockShape(r) /\ TypeOK BY DEF IInv
    <3>3. inv[r].pc \notin Critical BY <2>4, <3>2, EnvAssumption DEF SavesHolding, LockShape
    <3>4. run[r] \in Run BY <2>4, <3>2, Shown DEF SavesHolding, Alive
    <3>5. CASE /\ run[r].instr < MaxInstr /\ Put(r, Revised(run[r]), {"drv"})
               /\ UNCHANGED <<copy, mem>>
      <4>1. GoesOn(run[r], Revised(run[r])) BY <3>4, <3>5, Saves
      <4>2. Mutable(run[r], TRUE) BY <2>4 DEF SavesHolding, Alive, Mutable
      <4>3. Works(r)
        BY <2>4, <3>5, <4>1, <4>2
           DEF SavesHolding, Alive, Works, GoesOn, Put, Remembers
      <4> QED BY <3>1, <4>3 DEF Kinds
    <3>6. CASE Put(r, Cancelled(run[r]), {}) /\ DropOrKeep(r) /\ mem' \in {mem, mem \ {r}}
      <4>1. Closes(run[r], Cancelled(run[r])) /\ Cancelled(run[r]).pend = None
        BY <3>4, Closings DEF Cancelled, Run
      <4>2. CommittedBy(r) = {} BY <2>4, NoEffectYet DEF SavesHolding
      <4>3. Ends(r)
        BY <2>4, <3>6, <4>1, <4>2 DEF SavesHolding, Ends, Closes, Put, DropOrKeep
      <4> QED BY <3>1, <3>3, <4>3 DEF Kinds
    <3> QED BY <2>4, <3>5, <3>6 DEF SavesHolding
  <2> QED BY <1>5, <2>1, <2>2, <2>3, <2>4 DEF Calls
<1> QED BY <1>1, <1>2, <1>3, <1>4, <1>5 DEF Calm

(* And every other step is a restart.                                       *)
LEMMA Sorting ==
  ASSUME IInv, Moves
  PROVE Restarted \/ ProjectMoves \/ \E r \in Runs : LeaseExpires(r) \/ Kinds(r)
<1>1. Calm \/ Restarted BY DEF Moves, Next, Crash, Calm
<1> QED BY <1>1, CalmSorting

(* Every step keeps records, trees and history in their shape.              *)
LEMMA DurableKeeps == IInv /\ [Moves]_vars => Durable'
<1> SUFFICES ASSUME IInv, [Moves]_vars PROVE Durable' OBVIOUS
<1>1. CASE UNCHANGED vars
  <2>1. UNCHANGED <<run, hist, copy, evid, mem, inv, rlock>> BY <1>1 DEF vars, durable, volatile
  <2>2. DurableType' BY <2>1, Durables DEF Durable, DurableType
  <2>3. \A q \in Runs : CommittedBy(q)' = CommittedBy(q) BY <2>1 DEF CommittedBy
  <2>4. ASSUME NEW q \in Runs PROVE DurableShape(q)' BY <2>1, <2>3, LeftAlone
  <2> QED BY <2>2, <2>4 DEF Durable
<1>2. CASE Restarted \/ ProjectMoves \/ \E r \in Runs : LeaseExpires(r)
  BY <1>2, EnvironmentKeeps
<1>3. ASSUME NEW r \in Runs, Kinds(r) PROVE Durable'
  <2>1. CASE Special(r)
    BY <2>1, PatchWriteKeeps, PatchSaveKeeps, PatchUndoKeeps, PrepareKeeps, CommitKeeps,
       CompleteKeeps, DisposeKeeps, StartKeeps DEF Special
  <2> QED BY <1>3, <2>1, NotesKeep, WorksKeep, EndsKeep DEF Kinds
<1> QED BY <1>1, <1>2, <1>3, Sorting
(* The rest of the state: types only.                                       *)
BookType ==
  /\ live \in BOOLEAN /\ aborted \in [Runs -> BOOLEAN]
  /\ seen \in [Runs -> SUBSET {"inv", "drv"}]

(* Who learns of a new revision: nobody, the invocation, or the driver.       *)
Tells(r) ==
  /\ UNCHANGED <<live, tomb>>
  /\ aborted' = aborted \/ \E b \in BOOLEAN : aborted' = [aborted EXCEPT ![r] = b]
  /\ \/ seen' = seen
     \/ \E k \in {{}, {"inv"}, {"drv"}, seen[r], seen[r] \cup {"drv"}} :
          seen' = [seen EXCEPT ![r] = k]

(* Such a step keeps the types.                                             *)
LEMMA Telling == ASSUME BookType, NEW r \in Runs, Tells(r) PROVE BookType' /\ UNCHANGED <<live, tomb>>
BY DEF BookType, Tells

(* Who was told and who was aborted stays well typed; the project stays.     *)
LEMMA Bookkeeping == IInv /\ [Moves]_vars => BookType' /\ UNCHANGED <<live, tomb>>
<1> SUFFICES ASSUME IInv, [Moves]_vars PROVE BookType' /\ UNCHANGED <<live, tomb>> OBVIOUS
<1> USE DEF Tells, Put, disk, durable, volatile, Rest, RestButMem
<1>0. BookType BY DEF IInv, TypeOK, BookType
<1>1. CASE UNCHANGED vars BY <1>0, <1>1 DEF vars, BookType
<1>2. CASE ProjectMoves BY <1>0, <1>2 DEF ProjectMoves, BookType
<1>3. CASE Restarted BY <1>0, <1>3 DEF Restarted, BookType
<1>4. ASSUME NEW r \in Runs, Member(r) \/ LeaseExpires(r) PROVE BookType' /\ UNCHANGED <<live, tomb>>
  <2>1. CASE Revise(r) \/ Cancel(r)
    <3>1. Tells(r) BY <2>1 DEF Revise, Cancel
    <3> QED BY <1>0, <3>1, Telling
  <2>2. CASE Recover(r)
    <3>1. Tells(r) BY <2>2 DEF Recover, RecoverFound, RecoverCommit, RecoverAmbiguous
    <3> QED BY <1>0, <3>1, Telling
  <2>3. CASE MarkStale(r) \/ EvidenceMismatch(r)
    <3>1. Tells(r) BY <2>3 DEF MarkStale, EvidenceMismatch
    <3> QED BY <1>0, <3>1, Telling
  <2>4. CASE Start(r)
    <3>1. /\ UNCHANGED <<live, tomb, aborted>>
          /\ \E old \in SUBSET Runs :
               seen' = [q \in Runs |-> IF q = r THEN {"drv"}
                                      ELSE IF q \in old THEN {} ELSE seen[q]]
      BY <2>4 DEF Start
    <3> QED BY <1>0, <3>1 DEF BookType
  <2>5. CASE Advance(r) \/ LeaseExpires(r)
    <3>1. Tells(r) BY <2>5 DEF Advance, Launch, LeaseExpires
    <3> QED BY <1>0, <3>1, Telling
  <2> QED BY <1>4, <2>1, <2>2, <2>3, <2>4, <2>5 DEF Member
<1>5. ASSUME NEW r \in Runs, Invocation(r) PROVE BookType' /\ UNCHANGED <<live, tomb>>
  <2>1. CASE Enter(r) \/ EnterRefused(r) \/ LoopResume(r) \/ LoopMap(r) \/ LoopReserve(r)
             \/ LoopBudget(r) \/ LoopExit(r)
    <3>1. Tells(r) BY <2>1
       DEF Enter, EnterRefused, LoopResume, LoopMap, LoopReserve, LoopBudget, LoopExit
    <3> QED BY <1>0, <3>1, Telling
  <2>2. CASE LaunchLock(r) \/ LaunchGo(r) \/ LaunchRefused(r) \/ ProviderAnswers(r)
             \/ DecisionLost(r) \/ CheckDecision(r)
    <3>1. Tells(r) BY <2>2 DEF LaunchLock, LaunchGo, LaunchRefused, ProviderAnswers, DecisionLost,
                      CheckDecision
    <3> QED BY <1>0, <3>1, Telling
  <2>3. CASE ActYield(r) \/ ActRead(r) \/ ActPlan(r) \/ PatchWrite(r) \/ PatchSave(r)
             \/ PatchUndo(r) \/ PatchQuarantine(r)
    <3>1. Tells(r) BY <2>3
       DEF ActYield, ActRead, ActPlan, PatchWrite, PatchSave, PatchUndo, PatchQuarantine
    <3> QED BY <1>0, <3>1, Telling
  <2>4. CASE SandboxPrepare(r) \/ SandboxLaunch(r) \/ SandboxEnds(r) \/ SandboxBreaks(r)
             \/ ExecReturns(r) \/ CheckEvidence(r) \/ PersistEvidence(r) \/ EvidenceBreaks(r)
             \/ RecordInfra(r) \/ RecordResult(r)
    <3>1. Tells(r) BY <2>4
       DEF SandboxPrepare, SandboxLaunch, SandboxEnds, SandboxBreaks, ExecReturns,
           CheckEvidence, PersistEvidence, EvidenceBreaks, RecordInfra, RecordResult
    <3> QED BY <1>0, <3>1, Telling
  <2>5. CASE ReviewStart(r) \/ ReviewEnds(r) \/ RecordReview(r) \/ FinalizePrepare(r)
             \/ FinalizeCommit(r) \/ CommitLost(r) \/ FinalizeComplete(r) \/ FinalizeThrows(r)
    <3>1. Tells(r) BY <2>5
       DEF ReviewStart, ReviewEnds, RecordReview, FinalizePrepare, FinalizeCommit, CommitLost,
           FinalizeComplete, FinalizeThrows
    <3> QED BY <1>0, <3>1, Telling
  <2>6. CASE CallThrows(r) \/ CallMarksStale(r) \/ CallFindsMismatch(r)
             \/ PauseAfterFailure(r) \/ QuiescenceReached(r)
    <3>1. Tells(r) BY <2>6
       DEF CallThrows, CallMarksStale, MarkStale, CallFindsMismatch, EvidenceMismatch,
           PauseAfterFailure, QuiescenceReached, GiveBack
    <3> QED BY <1>0, <3>1, Telling
  <2> QED BY <1>5, <2>1, <2>2, <2>3, <2>4, <2>5, <2>6 DEF Invocation
<1>6. ASSUME NEW r \in Runs, ProviderSettles(r) \/ FenceStart(r) \/ Fence(r) PROVE BookType' /\ UNCHANGED <<live, tomb>>
  <2>1. CASE FenceSave(r)
    <3>1. Tells(r) BY <2>1 DEF FenceSave
    <3> QED BY <1>0, <3>1, Telling
  <2>2. CASE FenceStart(r)
    <3>1. Tells(r) BY <2>2 DEF FenceStart, Interrupt, SlotFree
    <3> QED BY <1>0, <3>1, Telling
  <2>3. CASE ProviderSettles(r) \/ FenceInterrupted(r) \/ FenceDrain(r) \/ FenceLock(r)
             \/ FenceTimeout(r) \/ FenceDispose(r)
    <3>1. Tells(r)
      BY <2>3 DEF ProviderSettles, FenceInterrupted, FenceDrain, FenceLock, FenceTimeout,
                  FenceDispose
    <3> QED BY <1>0, <3>1, Telling
  <2> QED BY <1>6, <2>1, <2>2, <2>3 DEF Fence
<1>7. ASSUME NEW r \in Runs, Calls(r) PROVE BookType' /\ UNCHANGED <<live, tomb>>
  <2>1. CASE Launches(r) \/ LetsGo \/ SavesHolding(r)
    <3>1. Tells(r) BY <2>1 DEF Launches, Launch, LetsGo, SavesHolding
    <3> QED BY <1>0, <3>1, Telling
  <2>2. CASE Interrupts(r)
    <3>1. Tells(r) BY <2>2 DEF Interrupts, Interrupt, SlotFree
    <3> QED BY <1>0, <3>1, Telling
  <2>3. CASE StartsHolding(r)
    <3>1. /\ UNCHANGED <<live, tomb, aborted>>
          /\ \E old \in SUBSET Runs :
               seen' = [q \in Runs |-> IF q = r THEN {"drv"}
                                      ELSE IF q \in old THEN {} ELSE seen[q]]
      BY <2>3 DEF StartsHolding, Start
    <3> QED BY <1>0, <3>1 DEF BookType
  <2> QED BY <1>7, <2>1, <2>2, <2>3 DEF Calls
<1> QED BY <1>1, <1>2, <1>3, <1>4, <1>5, <1>6, <1>7 DEF Next, Crash, Moves, Calm

(* A save leaves a record where one was.                                    *)
LEMMA Saving ==
  ASSUME TypeOK, NEW r \in Runs, Exists(r), NEW q \in Runs, NEW n \in Run,
         run' = [run EXCEPT ![q] = n]
  PROVE Exists(r)'
BY NoRecordIsNone DEF TypeOK, Exists

(* Nothing in the engine removes a record.                                  *)
LEMMA RecordsStay == ASSUME IInv, [Moves]_vars, NEW r \in Runs, Exists(r) PROVE Exists(r)'
<1>1. TypeOK /\ MiddleShape(r) /\ run[r] \in Run /\ (Rehydrates(r) => copy[r] \in Snaps)
  BY Shown DEF IInv
<1>2. CASE UNCHANGED vars \/ ProjectMoves BY <1>2 DEF vars, durable, ProjectMoves, Exists
<1>3. CASE Restarted
  <2>1. [run[r] EXCEPT !.writer = "other"] \in Run BY <1>1, Leasing DEF SameButLease
  <2>2. run'[r] \in {run[r], [run[r] EXCEPT !.writer = "other"]} BY <1>3 DEF Restarted
  <2> QED BY <2>1, <2>2, NoRecordIsNone DEF Exists
<1>4. ASSUME NEW q \in Runs, LeaseExpires(q) PROVE Exists(r)'
  <2> DEFINE n == [run[q] EXCEPT !.writer = "expired"]
  <2>1. Exists(q) /\ run' = [run EXCEPT ![q] = n] BY <1>4 DEF LeaseExpires
  <2>2. n \in Run BY <1>1, <2>1, Shown, Leasing DEF SameButLease
  <2> HIDE DEF n
  <2> QED BY <1>1, <2>1, <2>2, Saving
<1>5. ASSUME NEW q \in Runs, Kinds(q) PROVE Exists(r)'
  <2>1. CASE Notes(q) BY <2>1 DEF Notes, Exists
  <2>2. CASE Works(q) \/ Ends(q)
    <3>1. \E n \in Run : run' = [run EXCEPT ![q] = n] BY <2>2 DEF Works, Ends
    <3> QED BY <1>1, <3>1, Saving
  <2>3. CASE Start(q)
    <3>1. q # r BY <2>3 DEF Start
    <3>2. Stale(run[r]) \in Run BY <1>1, Closings DEF Closes
    <3> QED BY <2>3, <3>1, <3>2, NoRecordIsNone DEF Start, Exists
  <2>4. CASE FenceDispose(q) \/ PatchUndo(q) \/ FinalizeCommit(q) \/ CommitLost(q)
    BY <2>4 DEF FenceDispose, PatchUndo, FinalizeCommit, CommitLost, Exists
  <2>5. CASE r # q
    <3>1. CASE PatchWrite(q) \/ PatchSave(q) \/ FinalizePrepare(q) \/ FinalizeComplete(q)
               \/ RecoverFound(q) \/ RecoverCommit(q)
      BY <1>1, <2>5, <3>1
         DEF PatchWrite, PatchSave, FinalizePrepare, FinalizeComplete, RecoverFound,
             RecoverCommit, Put, TypeOK, Exists
    <3> QED BY <1>5, <2>1, <2>2, <2>3, <2>4, <3>1 DEF Kinds, Special
  <2>6. CASE r = q /\ PatchWrite(q)
    <3>1. Claimed(run[r]) \in Run BY <1>1, Saves DEF GoesOn
    <3> QED BY <1>1, <2>6, <3>1, Saving DEF PatchWrite, Put
  <2>7. CASE r = q /\ PatchSave(q)
    <3>1. CanPatch(run[r]) /\ copy[r] \in Snaps
      BY <1>1, <2>7 DEF PatchSave, Step, MiddleShape, TypeOK
    <3>2. Patched(run[r], copy[r]) \in Run BY <1>1, <3>1, Milestones DEF CanPatch
    <3> QED BY <1>1, <2>7, <3>2, Saving DEF PatchSave, Put
  <2>8. CASE r = q /\ FinalizePrepare(q)
    <3>1. copy[r] \in Snaps BY <1>1, <2>8 DEF FinalizePrepare, Runtime
    <3>2. Prepared(run[r], copy[r]) \in Run BY <1>1, <3>1, Milestones
    <3> QED BY <1>1, <2>8, <3>2, Saving DEF FinalizePrepare, Put
  <2>9. CASE r = q /\ (FinalizeComplete(q) \/ RecoverFound(q) \/ RecoverCommit(q))
    <3>1. Completed(run[r]) \in Run BY <1>1, Milestones, EnvAssumption
    <3>2. run' = run \/ run' = [run EXCEPT ![q] = Completed(run[r])]
      BY <2>9 DEF FinalizeComplete, RecoverFound, RecoverCommit, Put
    <3> QED BY <1>1, <3>1, <3>2, Saving DEF Exists
  <2> QED BY <1>5, <2>1, <2>2, <2>3, <2>4, <2>5, <2>6, <2>7, <2>8, <2>9 DEF Kinds, Special
<1> QED BY <1>2, <1>3, <1>4, <1>5, Sorting

(* What makes a revision of a run one that was proved.                      *)
ProvedCommit(r) ==
  /\ run[r].pend = <<run[r].instr, Last(hist').snap>>
  /\ run[r].pend \in run[r].passed \cap run[r].approved \cap Proofs(r)
  /\ CurrentPlan(run[r])
  /\ run[r].base = Len(hist)

(* What a commit or a recovery appends is the pending tree, and the first.  *)
LEMMA CommitTree ==
  ASSUME IInv, NEW q \in Runs, FinalizeCommit(q) \/ CommitLost(q) \/ RecoverCommit(q)
  PROVE /\ Exists(q) /\ run[q].pend # None /\ copy[q] = run[q].pend[2] /\ copy[q] \in Snaps
        /\ CommittedBy(q) = {} /\ run[q].base = Len(hist) /\ AppendBy(q) /\ evid' = evid
<1>1. TypeOK /\ MiddleShape(q) BY DEF IInv
<1>2. /\ Exists(q) /\ run[q].pend # None /\ copy[q] = run[q].pend[2]
      /\ CommittedBy(q) = {} /\ run[q].base = Len(hist) /\ AppendBy(q) /\ evid' = evid
  BY <1>1 DEF FinalizeCommit, CommitLost, RecoverCommit, CanRecover, Current, Step, MiddleShape
<1>3. run[q].pend \in Receipt
  <2>1. run[q] \in Run BY <1>1, <1>2, Shown
  <2> QED BY <1>2, <2>1 DEF Run
<1> QED BY <1>2, <1>3 DEF Receipt

(* Only a commit or a recovery appends a revision of a run, and what it      *)
(* appends is what is pending.                                               *)
LEMMA Committing ==
  ASSUME IInv, NEW q \in Runs, FinalizeCommit(q) \/ CommitLost(q) \/ RecoverCommit(q)
  PROVE Last(hist').by = q /\ ProvedCommit(q)
<1> DEFINE e == [by |-> q, snap |-> copy[q]]
<1>1. RecordShape(q) /\ DurableType BY Durables DEF IInv, Durable
<1>2. /\ Exists(q) /\ run[q].pend # None /\ copy[q] = run[q].pend[2] /\ copy[q] \in Snaps
      /\ run[q].base = Len(hist) /\ hist' = Append(hist, e)
  BY CommitTree DEF AppendBy
<1>4. e \in Revision BY <1>2 DEF Revision
<1>5. e.by = q /\ e.snap = copy[q] OBVIOUS
<1> HIDE DEF e
<1>6. Last(hist') = e BY <1>1, <1>2, <1>4, Appending
<1>7. /\ run[q].pend = <<run[q].instr, run[q].diff>>
      /\ run[q].pend \in run[q].passed \cap run[q].approved \cap Proofs(q)
      /\ CurrentPlan(run[q])
  BY <1>1, <1>2 DEF RecordShape
<1>8. Last(hist').snap = run[q].diff BY <1>2, <1>5, <1>6, <1>7
<1> QED BY <1>2, <1>5, <1>6, <1>7, <1>8 DEF ProvedCommit

(* What bears the name of a run keeps having a record.                      *)
LEMMA KnownKept == ASSUME IInv, [Moves]_vars, NEW r \in Runs PROVE KnownShape(r)'
<1>1. Exists(r) => Exists(r)' BY RecordsStay
<1>2. Available' = Available BY Bookkeeping DEF Available
<1>3. KnownShape(r) /\ TypeOK BY DEF IInv
<1>4. UNCHANGED <<hist, evid>> => KnownShape(r)'
  BY <1>1, <1>2, <1>3 DEF KnownShape, CommittedBy, Proofs
<1>5. CASE ProjectMoves
  <2>1. PICK s \in Snaps : hist' = Append(hist, [by |-> None, snap |-> s])
    BY <1>5 DEF ProjectMoves
  <2> DEFINE e == [by |-> None, snap |-> s]
  <2>2. e \in Revision /\ hist' = Append(hist, e) /\ e.by = None BY <2>1 DEF Revision
  <2> HIDE DEF e
  <2>3. CommittedBy(r)' = CommittedBy(r)
    BY <2>2, Appending, Durables, EnvAssumption DEF Durable
  <2>4. Proofs(r)' = Proofs(r) BY <1>5 DEF ProjectMoves, Proofs
  <2> QED BY <1>1, <1>2, <1>3, <2>3, <2>4 DEF KnownShape
<1>6. ASSUME NEW q \in Runs, Kinds(q) PROVE KnownShape(r)'
  <2>1. CASE Notes(q)
    <3>1. CommittedBy(r)' = CommittedBy(r) BY <2>1 DEF Notes, CommittedBy
    <3>2. Proofs(r)' # {} => Proofs(r) # {} \/ Exists(r)
      BY <2>1 DEF Notes, Adds, Proofs
    <3> QED BY <1>1, <1>2, <1>3, <3>1, <3>2 DEF KnownShape
  <2>2. CASE FinalizeCommit(q) \/ CommitLost(q) \/ RecoverCommit(q)
    <3>1. Exists(q) /\ copy[q] \in Snaps /\ CommittedBy(q) = {} /\ AppendBy(q) /\ evid' = evid
      BY <2>2, CommitTree
    <3>2. q # r => CommittedBy(r)' = CommittedBy(r) BY <3>1, EffectOnce
    <3>3. Proofs(r)' = Proofs(r) BY <3>1 DEF Proofs
    <3> QED BY <1>1, <1>2, <1>3, <3>1, <3>2, <3>3 DEF KnownShape
  <2>3. CASE ~Notes(q) /\ ~(FinalizeCommit(q) \/ CommitLost(q) \/ RecoverCommit(q))
    <3>1. UNCHANGED <<hist, evid>>
      BY <1>6, <2>3
         DEF Kinds, Works, Ends, Special, PatchWrite, PatchSave, PatchUndo, FinalizePrepare,
             FinalizeComplete, RecoverFound, FenceDispose, Start, disk
    <3> QED BY <1>4, <3>1
  <2> QED BY <2>1, <2>2, <2>3
<1>7. CASE UNCHANGED vars \/ Restarted \/ \E q \in Runs : LeaseExpires(q)
  BY <1>4, <1>7 DEF vars, durable, Restarted, LeaseExpires, disk
<1> QED BY <1>5, <1>6, <1>7, Sorting

(* The steps with a visible middle are steps of a run that is alive.        *)
LEMMA SpecialIsAlive ==
  ASSUME IInv, NEW q \in Runs, Special(q), ~FenceDispose(q), ~Start(q)
  PROVE /\ Alive(q) /\ evid' = evid
        /\ \A r \in Runs \ {q} : run'[r] = run[r] /\ copy'[r] = copy[r]
<1>1. TypeOK /\ RecordShape(q) /\ MiddleShape(q) BY DEF IInv
<1> USE DEF TypeOK, Put, Drop, AppendBy, disk
<1>2. CASE PatchWrite(q) \/ FinalizePrepare(q)
  BY <1>1, <1>2 DEF PatchWrite, FinalizePrepare, Writes, Admits, Alive, Mutable
<1>3. CASE PatchSave(q) \/ PatchUndo(q)
  BY <1>1, <1>3 DEF PatchSave, PatchUndo, Step, MiddleShape, Alive, Mutable
<1>4. CASE FinalizeCommit(q) \/ CommitLost(q) \/ FinalizeComplete(q)
  <2>1. Exists(q) /\ run[q].st = "validating"
    BY <1>1, <1>4
       DEF FinalizeCommit, CommitLost, FinalizeComplete, Step, MiddleShape, RecordShape
  <2>2. Alive(q) BY <2>1 DEF Alive, Terminal, TerminalStatus
  <2> QED BY <1>1, <1>4, <2>2 DEF FinalizeCommit, CommitLost, FinalizeComplete
<1>5. CASE RecoverFound(q) \/ RecoverCommit(q)
  <2>1. Exists(q) /\ run[q].st = "validating"
    BY <1>5 DEF RecoverFound, RecoverCommit, CanRecover
  <2>2. Alive(q) BY <2>1 DEF Alive, Terminal, TerminalStatus
  <2> QED BY <1>1, <1>5, <2>2 DEF RecoverFound, RecoverCommit
<1> QED BY <1>2, <1>3, <1>4, <1>5 DEF Special

(* Only the check starts to write evidence, and the writing goes on as it    *)
(* was begun.                                                               *)
LEMMA ProvingBegins ==
  ASSUME IInv, [Moves]_vars, NEW r \in Runs, inv'[r].pc = "proving"
  PROVE CheckEvidence(r) \/ inv'[r] = inv[r]
<1>1. TypeOK BY DEF IInv
<1>2. ASSUME NEW q \in Runs, Walks(q) PROVE inv'[r] = inv[r]
  BY <1>2 DEF Walks, Turned, Loose, Holders
<1>3. CASE UNCHANGED vars \/ ProjectMoves BY <1>3 DEF vars, volatile, ProjectMoves
<1>4. CASE Restarted BY <1>4 DEF Restarted, Idle
<1>5. ASSUME NEW q \in Runs, Member(q) \/ LeaseExpires(q) \/ Calls(q)
      PROVE inv'[r] = inv[r]
  <2>1. Advance(q) => Launches(q) BY DEF Advance, Launches
  <2> QED BY <1>2, <1>5, <2>1, MemberStill, CallerStill, Walking DEF Member, Calls, Unmoved
<1>6. ASSUME NEW q \in Runs, Invocation(q) PROVE CheckEvidence(r) \/ inv'[r] = inv[r]
  <2>1. CASE Gives(q)
    BY <2>1 DEF Gives, Turned, Loose, Holders
  <2>2. CASE LaunchLock(q) \/ PatchWrite(q) \/ FinalizePrepare(q) \/ FinalizeCommit(q)
             \/ ProviderAnswers(q) \/ DecisionLost(q)
    <3>1. \E pc \in InvPc \ {"proving"} : Turned(q, pc)
      BY <1>1, <2>2, Turns
         DEF LaunchLock, PatchWrite, FinalizePrepare, FinalizeCommit, ProviderAnswers,
             DecisionLost, InvPc
    <3> QED BY <3>1 DEF Turned
  <2>3. CASE CheckEvidence(q)
    <3>1. Turned(q, "proving") BY <1>1, <2>3, Turns DEF CheckEvidence, InvPc
    <3> QED BY <2>3, <3>1 DEF Turned
  <2> QED BY <1>2, <1>6, <2>1, <2>2, <2>3, Walking, Giving DEF Invocation
<1>7. ASSUME NEW q \in Runs, ProviderSettles(q) \/ FenceStart(q) \/ Fence(q)
      PROVE inv'[r] = inv[r]
  BY <1>7, FenceControl DEF ProviderSettles
<1> QED BY <1>3, <1>4, <1>5, <1>6, <1>7 DEF Next, Crash, Moves, Calm

(* While evidence of a run is written, its instruction and its diff stay:    *)
(* whoever would change them waits for the authority.                       *)
LEMMA ProvedStays ==
  ASSUME IInv, [Moves]_vars, NEW r \in Runs, Exists(r), inv[r].pc = "proving", ~Restarted
  PROVE run'[r].instr = run[r].instr /\ run'[r].diff = run[r].diff
<1>1. TypeOK /\ LockShape(r) /\ r # None BY EnvAssumption DEF IInv
<1>2. run[r] \in Run /\ auth = r BY <1>1, Shown DEF LockShape, Holders
<1>3. CASE UNCHANGED vars \/ ProjectMoves BY <1>3 DEF vars, durable, ProjectMoves
<1>4. ASSUME NEW q \in Runs, LeaseExpires(q)
      PROVE run'[r].instr = run[r].instr /\ run'[r].diff = run[r].diff
  <2>1. run'[r] = run[r] \/ run'[r] = [run[r] EXCEPT !.writer = "expired"]
    BY <1>1, <1>4 DEF LeaseExpires, TypeOK
  <2> QED BY <1>2, <2>1, Leasing DEF SameButLease
<1>5. ASSUME NEW q \in Runs, Kinds(q)
      PROVE run'[r].instr = run[r].instr /\ run'[r].diff = run[r].diff
  <2>1. CASE Notes(q) BY <2>1 DEF Notes
  <2>2. CASE Works(q)
    <3>1. q # r BY <2>2 DEF Works, Holders
    <3> QED BY <1>1, <2>2, <3>1 DEF Works, TypeOK
  <2>3. CASE Ends(q)
    <3>1. PICK n \in Run : Closes(run[q], n) /\ run' = [run EXCEPT ![q] = n] BY <2>3 DEF Ends
    <3> QED BY <1>1, <3>1 DEF Closes, TypeOK
  <2>4. CASE FenceDispose(q) BY <2>4 DEF FenceDispose
  <2>5. CASE Special(q) /\ ~FenceDispose(q)
    <3>1. ~Start(q) BY <1>1, <1>2 DEF Start, ProjectFree
    <3>2. q # r
      BY <1>1, <1>2, <2>5, <3>1
         DEF Special, PatchWrite, PatchSave, PatchUndo, FinalizePrepare, FinalizeCommit,
             CommitLost, FinalizeComplete, RecoverFound, RecoverCommit, CanRecover, Free,
             ProjectFree, Step
    <3> QED BY <2>5, <3>1, <3>2, SpecialIsAlive
  <2> QED BY <1>5, <2>1, <2>2, <2>3, <2>4, <2>5 DEF Kinds
<1> QED BY <1>3, <1>4, <1>5, Sorting

(* What is checked is of the record, and stays of the record until written.  *)
LEMMA ProvingKept == ASSUME IInv, [Moves]_vars, NEW r \in Runs PROVE ProvingShape(r)'
<1> SUFFICES ASSUME inv'[r].pc = "proving"
             PROVE Exists(r)' /\ inv'[r].at = <<run'[r].instr, run'[r].diff>>
  BY DEF ProvingShape
<1>1. TypeOK /\ LockShape(r) /\ TreeShape(r) /\ ProvingShape(r) BY DEF IInv
<1>2. CASE inv'[r] = inv[r]
  <2>1. Exists(r) /\ inv[r].at = <<run[r].instr, run[r].diff>> /\ inv[r].pc = "proving"
    BY <1>1, <1>2 DEF ProvingShape
  <2>2. ~Restarted BY DEF Restarted, Idle
  <2> QED BY <1>2, <2>1, <2>2, ProvedStays, RecordsStay
<1>3. CASE CheckEvidence(r)
  <2>1. /\ inv[r].pc = "ran" /\ Alive(r) /\ run[r].pend = None /\ Rehydrates(r)
        /\ inv[r].at = <<run[r].instr, copy[r]>> /\ run' = run
        /\ inv' = [inv EXCEPT ![r].pc = "proving"]
    BY <1>3 DEF CheckEvidence, StillFresh, Fresh, Runtime, Mutable, Alive, Step, GoTo
  <2>2. rlock[r] # r BY <1>1, <2>1 DEF LockShape, Critical
  <2>3. copy[r] = run[r].diff BY <1>1, <2>1, <2>2 DEF Rehydrates, TreeShape
  <2>4. inv'[r].at = inv[r].at BY <1>1, <2>1 DEF TypeOK
  <2> QED BY <2>1, <2>3, <2>4 DEF Exists, Alive
<1> QED BY <1>2, <1>3, ProvingBegins

--------------------------------------------------------------------------------
(* The invariant, and what it says. *)

(* No run, one revision, nobody at work.                                    *)
LEMMA InvariantStarts == Init => IInv
<1> SUFFICES ASSUME Init PROVE IInv OBVIOUS
<1>1. Idle \in Invocations /\ Idle.pc = "off" BY DEF Idle, Invocations, InvPc, Outcome
<1>2. hist \in Seq(Revision) /\ hist # <<>> BY EnvAssumption DEF Init, Revision
<1>3. Orderly
  BY <1>1, EnvAssumption
     DEF Init, Orderly, ControlType, ControlShape, FenceShape, LockShape, FlightShape,
              Holders, Critical, NoFence
<1>4. BookType BY DEF Init, BookType
<1>5. DurableType BY <1>2 DEF Init, DurableType, Revision
<1>6. ASSUME NEW r \in Runs PROVE DurableShape(r) /\ KnownShape(r) /\ ProvingShape(r)
  <2>1. CommittedBy(r) = {} /\ Proofs(r) = {} BY EnvAssumption DEF Init, CommittedBy, Proofs
  <2> QED BY <1>1, <2>1 DEF Init, DurableShape, KnownShape, RecordShape, MiddleShape,
                            ProvingShape, EffectShape, TreeShape, Exists
<1> QED
  BY <1>3, <1>4, <1>5, <1>6
     DEF IInv, TypeOK, Orderly, ControlType, ControlShape, DurableType, DurableShape, BookType,
         Invocations, Init

(* Every step keeps the invariant.                                          *)
LEMMA InvariantKept == IInv /\ [Moves]_vars => IInv'
<1>1. /\ Orderly' /\ Durable' /\ BookType'
      /\ \A r \in Runs : KnownShape(r)' /\ ProvingShape(r)'
      => IInv'
  BY DEF IInv, TypeOK, Orderly, ControlType, ControlShape, Durable, DurableType, DurableShape,
         BookType, Invocations
<1> QED BY <1>1, ControlKeeps, DurableKeeps, Bookkeeping, KnownKept, ProvingKept

(* Queues, records, trees and history fit together in every state.          *)
THEOREM EngineInvariant == Spec => [](IInv /\ Available)
<1>1. Init => Available BY DEF Init, Available
<1>2. [Next]_vars => [Moves]_vars BY DEF Moves
<1>3. IInv /\ Available /\ [Moves]_vars => Available' BY Bookkeeping DEF Available
<1> QED BY <1>1, <1>2, <1>3, InvariantStarts, InvariantKept, PTL DEF Spec

(* Every variable keeps its type.                                           *)
THEOREM EngineTypes == Spec => []TypeOK
<1>1. IInv => TypeOK BY DEF IInv
<1> QED BY <1>1, EngineInvariant, PTL

(* What the invariant says of provider calls and of trees.                  *)
LEMMA CallsAndTrees == IInv => NoOverlap /\ TreeMatchesRecord
<1>1. ASSUME IInv, NEW r \in Runs PROVE inflight[r] <= 1 /\ (Busy(r) => ~SlotFree(r))
  BY <1>1 DEF IInv, FlightShape, Busy, SlotFree
<1>2. ASSUME IInv, NEW r \in mem, Alive(r), run[r].pend = None, rlock[r] # r
      PROVE copy[r] = run[r].diff
  BY <1>2 DEF IInv, TypeOK, TreeShape
<1> QED BY <1>1, <1>2 DEF NoOverlap, TreeMatchesRecord

(* What it says of the history, as long as the project is there.            *)
LEMMA EffectsAgree == IInv /\ Available => EffectHonest
<1>1. ASSUME IInv, Available, NEW r \in Runs
      PROVE /\ Cardinality(CommittedBy(r)) <= 1
            /\ CommittedBy(r) # {} => run[r].st \in {"completed", "validating"}
            /\ (Exists(r) /\ run[r].st = "completed") => CommittedBy(r) # {}
  <2>1. EffectShape(r) /\ KnownShape(r) BY <1>1 DEF IInv
  <2>2. CommittedBy(r) = {} \/ \E i : CommittedBy(r) = {i} BY <2>1 DEF EffectShape
  <2>3. Cardinality(CommittedBy(r)) <= 1
    <3>1. CASE CommittedBy(r) = {} BY <3>1, FS_EmptySet
    <3>2. ASSUME NEW i, CommittedBy(r) = {i} PROVE Cardinality(CommittedBy(r)) = 1
      <4>1. Cardinality({i}) = 1 BY FS_Singleton
      <4> QED BY <3>2, <4>1
    <3> QED BY <2>2, <3>1, <3>2
  <2> QED BY <1>1, <2>1, <2>3 DEF EffectShape, KnownShape
<1> QED BY <1>1 DEF EffectHonest

(* A run never has two provider calls in flight, and a call that outlives    *)
(* its invocation keeps the slot, also when the deadline or an abort ended    *)
(* the wait for it.                                                           *)
THEOREM OneCallPerRun == Spec => []NoOverlap
BY CallsAndTrees, EngineInvariant, PTL

(* While a run can be worked on and no operation holds its queue, the tree   *)
(* in memory is the one its record names, also after a patch whose save       *)
(* failed.                                                                    *)
THEOREM TreesMatch == Spec => []TreeMatchesRecord
BY CallsAndTrees, EngineInvariant, PTL

(* A completed run is in the history exactly once, and a run whose effect is  *)
(* there is completed or still on its barrier.                                *)
THEOREM EffectsAreHonest == Spec => []EffectHonest
BY EffectsAgree, EngineInvariant, PTL

(* A revision that a step adds for a run is one that was proved.            *)
LEMMA AddedIsProved ==
  ASSUME IInv, [Moves]_vars, NEW r \in Runs, Len(hist') > Len(hist), Last(hist').by = r
  PROVE ProvedCommit(r)
<1>1. TypeOK /\ DurableType BY Durables DEF IInv, Durable
<1>2. hist' # hist
  <2>1. Len(hist) \in Nat BY <1>1 DEF DurableType
  <2> QED BY <2>1
<1>3. CASE ProjectMoves
  <2>1. PICK s \in Snaps : hist' = Append(hist, [by |-> None, snap |-> s])
    BY <1>3 DEF ProjectMoves
  <2> DEFINE e == [by |-> None, snap |-> s]
  <2>2. e \in Revision /\ hist' = Append(hist, e) /\ e.by = None BY <2>1 DEF Revision
  <2> HIDE DEF e
  <2>3. Last(hist').by = None BY <1>1, <2>2, Appending
  <2> QED BY <2>3, EnvAssumption
<1>4. ASSUME NEW q \in Runs, Kinds(q) PROVE ProvedCommit(r)
  <2>1. ~(Notes(q) \/ Works(q) \/ Ends(q)) BY <1>2 DEF Notes, Works, Ends
  <2>2. FinalizeCommit(q) \/ CommitLost(q) \/ RecoverCommit(q)
    BY <1>2, <1>4, <2>1
       DEF Kinds, Special, PatchWrite, PatchSave, PatchUndo, FinalizePrepare, FinalizeComplete,
           RecoverFound, FenceDispose, Start, disk
  <2> QED BY <2>2, Committing
<1>5. ~(UNCHANGED vars \/ Restarted \/ \E q \in Runs : LeaseExpires(q))
  BY <1>2 DEF vars, durable, Restarted, LeaseExpires, disk
<1> QED BY <1>3, <1>4, <1>5, Sorting

(* A revision a run adds to the project is the exact diff that passed the    *)
(* validators, whose evidence is durable and that the review approved, also   *)
(* when a recovery commits it after a crash.                                  *)
THEOREM CommitsAreProved == Spec => CommitIsProved
<1>1. IInv /\ [Next]_vars =>
        [\A r \in Runs :
           (Len(hist') > Len(hist) /\ Last(hist').by = r) =>
              /\ run[r].pend = <<run[r].instr, Last(hist').snap>>
              /\ run[r].pend \in run[r].passed \cap run[r].approved \cap Proofs(r)
              /\ CurrentPlan(run[r])
              /\ run[r].base = Len(hist)]_hist
  BY AddedIsProved DEF ProvedCommit, Moves
<1> QED BY <1>1, EngineInvariant, PTL DEF Spec, CommitIsProved

--------------------------------------------------------------------------------
(* A terminal run. *)

(* What a step leaves of a run that is over.                                *)
Rests(r) ==
  /\ run'[r].st = run[r].st /\ run'[r].diff = run[r].diff
  /\ copy'[r] \in {copy[r], None}
  /\ Proofs(r) \subseteq Proofs(r)'
  /\ Proofs(r)' \subseteq Proofs(r) \cup {<<run[r].instr, run[r].diff>>}

(* Nothing but its working copy changes of a run that is over.              *)
LEMMA OverRests ==
  ASSUME IInv, [Moves]_vars, NEW r \in Runs, Exists(r), Terminal(run[r])
  PROVE Rests(r)
<1>1. TypeOK /\ ~Alive(r) BY DEF IInv, Alive
<1>2. run[r] \in Run BY <1>1, Shown
<1>0. evid' = evid => Proofs(r)' = Proofs(r) BY DEF Proofs
<1>3. CASE UNCHANGED vars BY <1>0, <1>3 DEF vars, durable, Rests
<1>4. CASE ProjectMoves BY <1>0, <1>4 DEF ProjectMoves, Rests
<1>5. CASE Restarted \/ \E q \in Runs : LeaseExpires(q)
  <2>1. UNCHANGED disk BY <1>5 DEF Restarted, LeaseExpires
  <2>2. run'[r] = run[r] \/ SameButLease(run[r], run'[r])
    <3>1. CASE Restarted BY <1>2, <3>1, Leasing DEF Restarted
    <3>2. ASSUME NEW q \in Runs, LeaseExpires(q)
          PROVE run'[r] = run[r] \/ run'[r] = [run[r] EXCEPT !.writer = "expired"]
      BY <1>1, <3>2 DEF LeaseExpires, TypeOK
    <3> QED BY <1>2, <1>5, <3>1, <3>2, Leasing
  <2> QED BY <1>0, <2>1, <2>2 DEF disk, Rests, SameButLease
<1>6. ASSUME NEW q \in Runs, Kinds(q) PROVE Rests(r)
  <2>1. CASE Notes(q)
    <3>1. run' = run /\ copy' = copy BY <2>1 DEF Notes
    <3>2. /\ Proofs(r) \subseteq Proofs(r)'
          /\ Proofs(r)' \subseteq Proofs(r) \cup {<<run[r].instr, run[r].diff>>}
      <4>1. CASE evid' = evid BY <1>0, <4>1
      <4>2. CASE evid' = evid \cup {<<q, <<run[q].instr, run[q].diff>>>>} BY <4>2 DEF Proofs
      <4> QED BY <2>1, <4>1, <4>2 DEF Notes, Adds
    <3> QED BY <3>1, <3>2 DEF Rests
  <2>2. CASE Works(q)
    <3>1. q # r BY <2>2 DEF Works, Mutable
    <3> QED BY <1>0, <1>1, <2>2, <3>1 DEF Works, Rests, TypeOK
  <2>3. CASE Ends(q)
    <3>1. q # r BY <1>1, <2>3 DEF Ends
    <3> QED BY <1>0, <1>1, <2>3, <3>1 DEF Ends, Rests, TypeOK
  <2>4. CASE FenceDispose(q) BY <1>0, <1>1, <2>4 DEF FenceDispose, Drop, Rests, TypeOK
  <2>5. CASE Start(q)
    <3>1. /\ run'[r] = run[r] /\ copy'[r] = copy[r] /\ evid' = evid
      BY <1>1, <2>5 DEF Start
    <3> QED BY <1>0, <3>1 DEF Rests
  <2>6. CASE Special(q) /\ ~FenceDispose(q) /\ ~Start(q)
    <3>1. /\ Alive(q) /\ evid' = evid
          /\ \A p \in Runs \ {q} : run'[p] = run[p] /\ copy'[p] = copy[p]
      BY <2>6, SpecialIsAlive
    <3> QED BY <1>0, <1>1, <3>1 DEF Rests
  <2> QED BY <1>6, <2>1, <2>2, <2>3, <2>4, <2>5, <2>6 DEF Kinds
<1> QED BY <1>3, <1>4, <1>5, <1>6, Sorting

(* A run that is over adds nothing to the project.                          *)
LEMMA OverAddsNothing ==
  ASSUME IInv, [Moves]_vars, NEW r \in Runs, Exists(r), Terminal(run[r])
  PROVE Len(hist') > Len(hist) => Last(hist').by # r
<1>1. TypeOK /\ RecordShape(r) BY DEF IInv
<1>2. run[r].pend = None BY <1>1 DEF RecordShape, Terminal, TerminalStatus
<1>3. run[r].pend \notin run[r].passed
  <2>1. run[r] \in Run BY <1>1, Shown
  <2>2. run[r].passed \subseteq Receipt BY <2>1 DEF Run
  <2> QED BY <1>2, <2>2, NoRecordIsNone
<1> QED BY <1>3, AddedIsProved DEF ProvedCommit

(* A terminal run changes nothing any more: not its record, not the project,  *)
(* and its working copy can only disappear.  A validator's evidence whose     *)
(* writing a fence has overtaken may still be added, and it is of the          *)
(* instruction and the diff the run ended with.                                *)
THEOREM OverIsOver == Spec => TerminalIsFinal
<1>1. IInv /\ [Next]_vars =>
        [\A r \in Runs :
           (Exists(r) /\ Terminal(run[r])) =>
              /\ run'[r].st = run[r].st /\ run'[r].diff = run[r].diff
              /\ copy'[r] \in {copy[r], None}
              /\ Len(hist') > Len(hist) => Last(hist').by # r
              /\ Proofs(r) \subseteq Proofs(r)'
              /\ Proofs(r)' \subseteq Proofs(r) \cup {<<run[r].instr, run[r].diff>>}]_vars
  BY OverAddsNothing, OverRests DEF Rests, Moves
<1> QED BY <1>1, EngineInvariant, PTL DEF Spec, TerminalIsFinal

================================================================================
