------------------------- MODULE ProjectDeletionProofs -------------------------
(***************************************************************************)
(* Proofs about ProjectDeletion.  The deletion keeps the invariant of the    *)
(* engine, so an engine step needs no second proof; what is new is what       *)
(* holds behind the tombstone.                                                *)
(***************************************************************************)
EXTENDS ProjectDeletion, CodingEngineProofs

--------------------------------------------------------------------------------
(* The inductive invariant. *)

DelType == [pc : {"off", "quiesce"} \cup {Steps[n] : n \in 1 .. 5},
            by : {"worker", "member"}, todo : SUBSET Runs, done : BOOLEAN]

(* A run the fence of a deletion has passed. *)
Fenced(r) ==
  Exists(r) => Terminal(run[r]) /\ run[r].pend = None /\ copy[r] = None

(* Behind the tombstone no operation is in a visible middle, and no run is   *)
(* on its barrier; a deletion is completed when its last step is recorded.    *)
Quiet == \A r \in Runs : inv[r].pc \notin Holders
Marked ==
  Tombed => /\ Quiet /\ NoBarrierBehind
            /\ tomb.status = "completed" <=> tomb.steps = 5

(* What a resumption knows of the step it is at.                             *)
Progress ==
  del.pc # "off" =>
    /\ Tombed /\ tomb.steps < 5 /\ del.todo \subseteq Existing
    /\ del.pc = "quiesce" => tomb.steps = 0 /\ ~del.done
    /\ \A n \in 1 .. 5 : del.pc = Steps[n] => tomb.steps = n - 1
    /\ del.pc = Steps[1] => \A r \in Runs \ del.todo : Fenced(r)
    /\ del.pc = Steps[1] /\ del.done => del.todo = {} /\ Existing \subseteq tomb.ids
    /\ del.pc = Steps[2] /\ del.done => evid = {}
    /\ del.pc = Steps[3] => Existing \subseteq del.todo /\ (del.done => Existing = {})
    /\ del.pc = Steps[5] /\ del.done => ~live

DelShape ==
  /\ tomb \in Tombstone \cup {None} /\ del \in DelType
  /\ Marked /\ Progress /\ StaysRemoved
DInv == IInv /\ DelShape

(* The stages of a resumption are told apart.                               *)
LEMMA Stages ==
  /\ \A n \in 1 .. 5 : Steps[n] \notin {"off", "quiesce"}
  /\ \A m, n \in 1 .. 5 : Steps[m] = Steps[n] => m = n
BY DEF Steps

--------------------------------------------------------------------------------
(* What the steps of a deletion do to the engine. *)

(* A deletion only takes away: what it leaves alive it leaves alone.         *)
TakesAway ==
  /\ UNCHANGED <<hist, proj, rlock, inv, inflight, aborted, fence>>
  /\ auth' \in {auth, None, "member"} /\ live' \in BOOLEAN
  /\ evid' \subseteq evid /\ mem' \subseteq mem
  /\ seen' \in [Runs -> SUBSET {"inv", "drv"}]
  /\ run' \in [Runs -> Run \cup {None}] /\ copy' \in [Runs -> Snaps \cup {None}]
  /\ \A q \in Runs :
       /\ copy'[q] \in {copy[q], None}
       /\ Alive(q)' => copy'[q] = copy[q] /\ run'[q] = run[q]
       /\ Exists(q)' => /\ Exists(q) /\ run'[q].pend = None
                        /\ \/ run'[q].st = run[q].st
                           \/ Alive(q) /\ run'[q].st = "cancelled"
       /\ Exists(q) /\ ~Exists(q)' => Proofs(q)' = {}

(* Taking away keeps the invariant of the engine.                            *)
LEMMA TakingAwayKeeps ==
  ASSUME IInv, Quiet, \A r \in Existing : run[r].pend = None, tomb' # None, TakesAway
  PROVE IInv'
<1>1. Orderly /\ Durable BY Controlled, Durables
<1>2. Orderly'
  <2>1. ControlType' /\ FenceShape'
    BY <1>1 DEF Orderly, ControlType, ControlShape, FenceShape, TakesAway
  <2>2. ASSUME NEW r \in Runs PROVE LockShape(r)' /\ FlightShape(r)'
    BY <1>1 DEF Orderly, ControlShape, LockShape, FlightShape, TakesAway, Quiet, Holders
  <2> QED BY <2>1, <2>2 DEF Orderly, ControlShape
<1>3. DurableType' BY <1>1 DEF Durable, DurableType, TakesAway
<1>4. BookType' BY DEF IInv, TypeOK, BookType, TakesAway
<1>5. ASSUME NEW r \in Runs PROVE DurableShape(r)' /\ KnownShape(r)' /\ ProvingShape(r)'
  <2>0. ProvingShape(r)' BY DEF Quiet, Holders, TakesAway, ProvingShape
  <2>1. /\ RecordShape(r) /\ EffectShape(r) /\ TreeShape(r) /\ KnownShape(r)
        /\ inv[r].pc \notin Critical /\ inv'[r].pc = inv[r].pc
    BY DEF IInv, Quiet, Holders, TakesAway
  <2>2. CommittedBy(r)' = CommittedBy(r) BY DEF TakesAway, CommittedBy
  <2>3. /\ Alive(r)' => copy'[r] = copy[r] /\ run'[r] = run[r]
        /\ Exists(r)' => /\ Exists(r) /\ run'[r].pend = None
                         /\ \/ run'[r].st = run[r].st
                            \/ Alive(r) /\ run'[r].st = "cancelled"
        /\ Exists(r) /\ ~Exists(r)' => Proofs(r)' = {}
        /\ mem' \subseteq mem /\ rlock' = rlock
    BY DEF TakesAway
  <2>4. Exists(r) => run[r].pend = None BY DEF Existing
  <2>5. RecordShape(r)' BY <2>1, <2>3, <2>4 DEF RecordShape
  <2>6. MiddleShape(r)' BY <2>1 DEF MiddleShape, Critical
  <2>7. EffectShape(r)'
    <3>1. Alive(r) => CommittedBy(r) = {} BY <2>4, NoEffectYet DEF Alive
    <3> QED BY <2>1, <2>2, <2>3, <3>1 DEF EffectShape
  <2>8. TreeShape(r)' BY <2>1, <2>3 DEF TreeShape, Alive
  <2>9. KnownShape(r)'
    <3>1. ~Available' BY DEF Available
    <3>2. Proofs(r)' \subseteq Proofs(r) BY DEF Proofs, TakesAway
    <3> QED BY <2>1, <2>3, <3>1, <3>2 DEF KnownShape
  <2> QED BY <2>0, <2>5, <2>6, <2>7, <2>8, <2>9 DEF DurableShape
<1> QED
  BY <1>2, <1>3, <1>4, <1>5
     DEF IInv, TypeOK, Orderly, ControlType, ControlShape, Durable, DurableType, DurableShape,
         BookType, Invocations

(* Records keep all but their lease. *)
Kept == \A q \in Runs : run'[q] = run[q] \/ (Exists(q) /\ SameButLease(run[q], run'[q]))

(* Behind the tombstone an engine step adds nothing.                         *)
LEMMA Behind ==
  ASSUME IInv, Tombed, Quiet, NEW r \in Runs, Coding(r)
  PROVE /\ UNCHANGED <<hist, live, copy, evid, tomb, mem, auth, del, crashes>> /\ Quiet'
        /\ Kept
<1>0. TypeOK /\ ~Available /\ UNCHANGED <<del, crashes>> /\ inv[r].pc \notin Holders
  BY DEF IInv, Available, Tombed, Coding, Quiet
<1>1. \A b \in BOOLEAN : ~Admits(r, b) /\ ~Writes(r, b)
  BY <1>0 DEF Writes, Admits, Current
<1>2. CASE LeaseExpires(r)
  <2>1. Exists(r) /\ run' = [run EXCEPT ![r] = [run[r] EXCEPT !.writer = "expired"]]
        /\ UNCHANGED <<disk, volatile>>
    BY <1>2 DEF LeaseExpires
  <2>2. SameButLease(run[r], [run[r] EXCEPT !.writer = "expired"]) BY <1>0, <2>1, Shown, Leasing
  <2>3. Kept BY <1>0, <2>1, <2>2 DEF Kept, TypeOK
  <2> QED BY <1>0, <2>1, <2>3 DEF disk, volatile, Quiet
<1>3. CASE ProviderSettles(r)
  BY <1>0, <1>3 DEF ProviderSettles, durable, locks, Quiet, Kept
<1>4. CASE Member(r) \/ Invocation(r)
  <2>1. \/ Advance(r) \/ EnterRefused(r) \/ ProviderAnswers(r) \/ DecisionLost(r) \/ ActRead(r)
        \/ SandboxEnds(r) \/ SandboxBreaks(r) \/ ReviewEnds(r) \/ CallThrows(r)
        \/ PauseAfterFailure(r) \/ QuiescenceReached(r)
    <3>1. ~Member(r) \/ Advance(r)
      BY <1>0, <1>1
         DEF Member, Start, Revise, Cancel, Recover, RecoverFound, RecoverCommit,
             RecoverAmbiguous, CanRecover, MarkStale, Moved, EvidenceMismatch
    <3>2. ~(Enter(r) \/ LoopResume(r) \/ LoopMap(r) \/ LoopReserve(r) \/ LoopBudget(r)
            \/ LoopExit(r) \/ CheckDecision(r) \/ ActYield(r) \/ ActPlan(r))
      BY <1>0, <1>1
         DEF Enter, LoopResume, LoopMap, LoopReserve, LoopBudget, LoopExit, CheckDecision,
             ActYield, ActPlan
    <3>3. ~(LaunchLock(r) \/ LaunchGo(r) \/ LaunchRefused(r) \/ PatchWrite(r) \/ PatchSave(r)
            \/ PatchUndo(r) \/ PatchQuarantine(r))
      BY <1>0, <1>1
         DEF LaunchLock, LaunchGo, LaunchRefused, PatchWrite, PatchSave, PatchUndo,
             PatchQuarantine, Step, Holders, Critical, Current
    <3>4. ~(SandboxPrepare(r) \/ SandboxLaunch(r) \/ ExecReturns(r) \/ CheckEvidence(r)
            \/ PersistEvidence(r) \/ EvidenceBreaks(r) \/ RecordInfra(r) \/ RecordResult(r) \/ ReviewStart(r) \/ RecordReview(r))
      BY <1>0, <1>1
         DEF SandboxPrepare, SandboxLaunch, ExecReturns, CheckEvidence, PersistEvidence,
             EvidenceBreaks, RecordInfra, RecordResult, ReviewStart, RecordReview, StillFresh,
             Current, Step, Holders
    <3>5. ~(FinalizePrepare(r) \/ FinalizeCommit(r) \/ CommitLost(r) \/ FinalizeComplete(r)
            \/ FinalizeThrows(r))
      BY <1>0, <1>1
         DEF FinalizePrepare, FinalizeCommit, CommitLost, FinalizeComplete, FinalizeThrows, Step,
             Holders, Critical
    <3>6. ~(CallMarksStale(r) \/ CallFindsMismatch(r))
      BY <1>0, <1>1 DEF CallMarksStale, MarkStale, Moved, CallFindsMismatch, EvidenceMismatch
    <3> QED BY <1>4, <3>1, <3>2, <3>3, <3>4, <3>5, <3>6 DEF Invocation
  <2>2. UNCHANGED <<run, hist, live, copy, evid, tomb, mem, auth>>
    BY <1>1, <2>1
       DEF Advance, Launch, EnterRefused, ProviderAnswers, DecisionLost, ActRead, SandboxEnds,
           SandboxBreaks, ReviewEnds, CallThrows, PauseAfterFailure, QuiescenceReached, GiveBack,
           Rest, RestButMem, durable, disk, locks
  <2>3. \E pc \in InvPc \ Holders : Turned(r, pc)
    <3>1. CASE ProviderAnswers(r) \/ DecisionLost(r)
      <4>1. Turned(r, "decided") \/ Turned(r, "failing")
        BY <1>0, <3>1, Turns DEF ProviderAnswers, DecisionLost, InvPc
      <4> QED BY <4>1 DEF InvPc, Holders, Critical
    <3>2. CASE ~(ProviderAnswers(r) \/ DecisionLost(r))
      <4>1. Advance(r) => Launches(r) BY DEF Advance, Launches
      <4> QED BY <2>1, <3>2, <4>1, Walking DEF Walks, Loose
    <3> QED BY <3>1, <3>2
  <2>4. Quiet' BY <2>3 DEF Quiet, Turned
  <2> QED BY <1>0, <2>2, <2>4 DEF Kept
<1> QED BY <1>2, <1>3, <1>4 DEF Coding

--------------------------------------------------------------------------------
(* The stages. *)

(* A step is recorded: the tombstone tells it, the resumption goes on.       *)
LEMMA Recording ==
  ASSUME tomb \in Tombstone, del \in DelType, NEW n \in 1 .. 5, Record(n)
  PROVE /\ tomb' \in Tombstone /\ tomb'.steps = n /\ tomb'.ids = tomb.ids
        /\ tomb'.status = "completed" <=> n = 5
        /\ del' \in DelType /\ auth' \in {auth, None}
        /\ n = 5 => del' = NoResume
        /\ n < 5 => del'.pc = Steps[n + 1] /\ del'.todo = Existing /\ ~del'.done
<1>1. Existing \subseteq Runs BY DEF Existing
<1>2. /\ tomb' \in Tombstone /\ tomb'.steps = n /\ tomb'.ids = tomb.ids
      /\ tomb'.status = "completed" <=> n = 5
  <2> DEFINE status == IF n = 5 THEN "completed" ELSE "requested"
  <2>1. tomb' = [tomb EXCEPT !.steps = n, !.status = status] BY DEF Record
  <2>2. /\ status \in {"requested", "cleanup_required", "completed"}
        /\ status = "completed" <=> n = 5
    OBVIOUS
  <2>3. n \in 0 .. 5 OBVIOUS
  <2> HIDE DEF status
  <2> QED BY <2>1, <2>2, <2>3 DEF Tombstone
<1>3. auth' \in {auth, None} BY DEF Record, Letting
<1>4. n = 5 => del' = NoResume BY DEF Record
<1>5. NoResume \in DelType BY DEF NoResume, DelType
<1>6. ASSUME n < 5
      PROVE /\ del' \in DelType /\ del'.pc = Steps[n + 1] /\ del'.todo = Existing
            /\ ~del'.done
  <2>1. Steps[n + 1] \in {Steps[m] : m \in 1 .. 5} BY <1>6
  <2>2. del' = [del EXCEPT !.pc = Steps[n + 1], !.todo = Existing, !.done = FALSE]
    BY <1>6 DEF Record
  <2> QED BY <1>1, <2>1, <2>2 DEF DelType
<1> QED BY <1>2, <1>3, <1>4, <1>5, <1>6

(* A resumption that gives up leaves what was recorded.                      *)
LEMMA GivingUp ==
  ASSUME tomb \in Tombstone, GiveUp
  PROVE /\ tomb' \in Tombstone /\ tomb'.steps = tomb.steps /\ tomb'.ids = tomb.ids
        /\ tomb'.status = "cleanup_required" /\ del' = NoResume /\ auth' \in {auth, None}
BY DEF GiveUp, Letting, Tombstone

(* A resumption that is over says nothing.                                   *)
LEMMA Resting == NoResume \in DelType /\ NoResume.pc = "off"
BY DEF NoResume, DelType

(* Where only leases, a resumption or a status change, all is as it was.      *)
LEMMA NothingNew ==
  ASSUME DInv, Tombed, UNCHANGED <<live, copy, evid>>, Quiet', Kept,
         tomb' \in Tombstone, tomb'.steps = tomb.steps, tomb'.ids = tomb.ids,
         tomb'.status = "completed" <=> tomb.status = "completed",
         del' = del \/ del' = NoResume
  PROVE DelShape'
<1>1. /\ \A q \in Runs : Exists(q)' <=> Exists(q)
      /\ \A q \in Runs : Exists(q) => /\ run'[q].st = run[q].st /\ run'[q].pend = run[q].pend
  BY NoRecordIsNone DEF Kept, Exists, SameButLease
<1>2. Existing' = Existing BY <1>1 DEF Existing
<1>3. \A q \in Runs : Exists(q) => (Terminal(run[q])' <=> Terminal(run[q]))
  BY <1>1 DEF Terminal
<1>4. Tombed' BY NoTombIsNone DEF Tombed
<1>5. Marked' BY <1>1, <1>2, <1>4 DEF DInv, DelShape, Marked, NoBarrierBehind, Existing
<1>6. Progress'
  <2>1. CASE del' = NoResume BY <2>1, Resting DEF Progress
  <2>2. CASE del' = del
    BY <1>1, <1>2, <1>3, <1>4, <2>2 DEF DInv, DelShape, Progress, Fenced
  <2> QED BY <2>1, <2>2
<1>7. StaysRemoved'
  BY <1>1, <1>2, <1>3, <1>4 DEF DInv, DelShape, StaysRemoved, Existing
<1>8. del' \in DelType BY Resting DEF DInv, DelShape
<1> QED BY <1>5, <1>6, <1>7, <1>8 DEF DelShape

(* Nobody is in the middle of anything when the queues are free.             *)
LEMMA FreeIsQuiet == IInv /\ ProjectFree => Quiet
BY EnvAssumption DEF IInv, LockShape, ProjectFree, Quiet

(* The project is marked while no run is on its barrier.                     *)
LEMMA RequestKeeps == ASSUME DInv, Request PROVE DInv'
<1>1. /\ Quiet /\ tomb' = NewTomb /\ UNCHANGED <<others, del>> /\ del.pc = "off"
      /\ \A r \in Existing : run[r].pend = None
  BY FreeIsQuiet DEF Request, DInv, DelShape, Progress, Available, Tombed
<1>2. NewTomb \in Tombstone /\ NewTomb.steps = 0 /\ NewTomb.status = "requested"
  BY DEF NewTomb, Tombstone
<1>3. TypeOK BY DEF DInv, IInv
<1>4. TakesAway
  BY <1>1, <1>3 DEF TakesAway, others, volatile, TypeOK, Exists, Alive, Existing
<1>5. IInv' BY <1>1, <1>2, <1>4, NoTombIsNone, TakingAwayKeeps DEF DInv
<1>6. Marked' BY <1>1, <1>2 DEF Marked, Quiet, NoBarrierBehind, Existing, Exists, others, volatile
<1>7. Progress' BY <1>1 DEF Progress
<1>8. StaysRemoved' BY <1>1, <1>2 DEF StaysRemoved
<1> QED BY <1>1, <1>2, <1>5, <1>6, <1>7, <1>8 DEF DInv, DelShape

(* Where the engine stands still, its invariant and the quiet stay.          *)
LEMMA SameEngine ==
  ASSUME DInv, Tombed, tomb' \in Tombstone, auth' \in {auth, None, "member"},
         UNCHANGED <<run, hist, live, copy, evid, proj, rlock, inv, inflight, aborted, seen,
                     mem, fence>>
  PROVE IInv' /\ Quiet' /\ Kept /\ Tombed' /\ Existing' = Existing
<1>1. Quiet /\ (\A r \in Existing : run[r].pend = None) /\ TypeOK
  BY DEF DInv, DelShape, Marked, NoBarrierBehind, IInv
<1>2. TakesAway BY <1>1 DEF TakesAway, TypeOK, Exists, Alive, Existing
<1>3. tomb' # None BY NoTombIsNone
<1> QED
  BY <1>1, <1>2, <1>3, TakingAwayKeeps DEF DInv, Quiet, Kept, Tombed, Existing, Exists

(* A resumption that goes on with the same tombstone keeps the rest.          *)
LEMMA Onwards ==
  ASSUME DInv, Tombed, UNCHANGED <<durable, proj, rlock, inv, inflight, aborted, seen, mem, fence>>,
         auth' \in {auth, None, "member"}, del' \in DelType, Progress'
  PROVE DInv'
<1>1. UNCHANGED <<run, hist, live, copy, evid, tomb>> BY DEF durable
<1>2. tomb \in Tombstone BY DEF DInv, DelShape, Tombed
<1>3. IInv' /\ Quiet' /\ Existing' = Existing BY <1>1, <1>2, SameEngine
<1>4. Marked' BY <1>1, <1>3 DEF DInv, DelShape, Marked, NoBarrierBehind, Tombed
<1>5. StaysRemoved' BY <1>1, <1>3 DEF DInv, DelShape, StaysRemoved, Tombed, Terminal
<1> QED BY <1>1, <1>2, <1>3, <1>4, <1>5 DEF DInv, DelShape

(* A step is recorded once what it removes is removed.                       *)
LEMMA Recorded ==
  ASSUME DInv, NEW n \in 1 .. 5, Record(n), del.pc = Steps[n],
         del.done,
         UNCHANGED <<run, hist, live, copy, evid, proj, rlock, inv, inflight, aborted, seen,
                     mem, fence>>
  PROVE DInv'
<1>1. del.pc # "off" BY Stages
<1>2. /\ Tombed /\ tomb \in Tombstone /\ tomb.steps = n - 1 /\ del \in DelType
      /\ Progress /\ StaysRemoved
  BY <1>1 DEF DInv, DelShape, Progress, Tombed
<1>3. /\ tomb' \in Tombstone /\ tomb'.steps = n /\ tomb'.ids = tomb.ids
      /\ tomb'.status = "completed" <=> n = 5
      /\ del' \in DelType /\ auth' \in {auth, None}
      /\ n = 5 => del' = NoResume
      /\ n < 5 => del'.pc = Steps[n + 1] /\ del'.todo = Existing /\ ~del'.done
  BY <1>2, Recording
<1>4. IInv' /\ Quiet' /\ Tombed' /\ Existing' = Existing BY <1>2, <1>3, SameEngine
<1>5. Marked' BY <1>2, <1>3, <1>4 DEF DInv, DelShape, Marked, NoBarrierBehind
<1>6. \A r \in Existing : /\ Terminal(run[r]) /\ run[r].pend = None /\ copy[r] = None
                          /\ r \in tomb'.ids
  <2>1. CASE n = 1 BY <1>1, <1>2, <1>3, <2>1 DEF Progress, Fenced, Existing
  <2>2. CASE n # 1 BY <1>2, <1>3, <2>2 DEF StaysRemoved
  <2> QED BY <2>1, <2>2
<1>7. /\ n >= 2 => evid = {}
      /\ n >= 3 => Existing = {}
      /\ n >= 5 => ~live
  BY <1>1, <1>2 DEF Progress, StaysRemoved
<1>8. StaysRemoved' BY <1>3, <1>4, <1>6, <1>7 DEF StaysRemoved, Terminal
<1>9. Progress'
  <2>1. CASE n = 5 BY <1>3, <2>1, Resting DEF Progress
  <2>2. CASE n < 5
    <3>1. /\ n + 1 \in 2 .. 5 /\ tomb'.steps = (n + 1) - 1 /\ tomb'.steps < 5
          /\ del'.pc = Steps[n + 1] /\ del'.todo = Existing' /\ ~del'.done
      BY <1>3, <1>4, <2>2
    <3>2. /\ del'.pc # "quiesce" /\ del'.pc # Steps[1]
          /\ \A m \in 1 .. 5 : del'.pc = Steps[m] => m = n + 1
      BY <3>1, Stages
    <3> QED BY <1>4, <3>1, <3>2 DEF Progress
  <2> QED BY <2>1, <2>2
<1> QED BY <1>3, <1>4, <1>5, <1>8, <1>9 DEF DInv, DelShape

--------------------------------------------------------------------------------
(* Every step of a deletion keeps the invariant. *)

(* A resumption starts behind the last recorded step.                        *)
LEMMA ResumeKeeps == ASSUME DInv, NEW by \in {"worker", "member"}, Resume(by) PROVE DInv'
<1>1. /\ Tombed /\ tomb.status # "completed" /\ auth' \in {auth, None, "member"}
      /\ UNCHANGED <<durable, proj, rlock, inv, inflight, aborted, seen, mem, fence>>
      /\ del' = [NoResume EXCEPT !.by = by, !.pc = NextStage, !.todo = Existing]
  BY DEF Resume, Incomplete
<1>2. tomb \in Tombstone /\ tomb.steps # 5 BY <1>1 DEF DInv, DelShape, Marked, Tombed
<1>3. tomb.steps \in 0 .. 4 BY <1>2 DEF Tombstone
<1>4. UNCHANGED <<tomb, run>> /\ Existing' = Existing BY <1>1 DEF durable, Existing, Exists
<1>5. /\ NextStage = IF tomb.steps = 0 THEN "quiesce" ELSE Steps[tomb.steps + 1]
      /\ NextStage \in {"off", "quiesce"} \cup {Steps[n] : n \in 1 .. 5}
  BY <1>3 DEF NextStage
<1>6. Existing \subseteq Runs BY DEF Existing
<1>7. /\ del' \in DelType /\ del'.pc = NextStage /\ del'.todo = Existing /\ ~del'.done
  BY <1>1, <1>5, <1>6 DEF NoResume, DelType
<1>8. /\ del'.pc = "quiesce" => tomb.steps = 0
      /\ \A n \in 1 .. 5 : del'.pc = Steps[n] => tomb.steps = n - 1 /\ n # 1
  BY <1>3, <1>5, <1>7, Stages
<1>9. Progress' BY <1>1, <1>3, <1>4, <1>7, <1>8 DEF Progress, Tombed
<1> QED BY <1>1, <1>7, <1>9, Onwards

(* The waits of a resumption, and the steps that only note what was done.     *)
LEMMA WaitingKeeps ==
  ASSUME DInv, (\E r \in Runs : Quiesced(r)) \/ AllQuiet \/ RunsRemoved \/ Detach
  PROVE DInv'
<1>1. /\ UNCHANGED <<durable, volatile>> /\ del.pc # "off"
      /\ \/ /\ del.pc = "quiesce" /\ \E r \in Runs : del' = [del EXCEPT !.todo = @ \ {r}]
         \/ /\ del.pc = "quiesce"
            /\ del' = [del EXCEPT !.pc = Steps[1], !.todo = Existing]
         \/ /\ del.pc = Steps[3] /\ del.todo \cap tomb.ids = {}
            /\ del' = [del EXCEPT !.done = TRUE]
         \/ del.pc = Steps[4] /\ del' = [del EXCEPT !.done = TRUE]
  BY Stages DEF Quiesced, AllQuiet, RunsRemoved, Detach
<1>2. /\ UNCHANGED <<durable, proj, rlock, inv, inflight, aborted, seen, mem, fence>>
      /\ auth' = auth
  BY <1>1 DEF volatile
<1>3. UNCHANGED <<tomb, run, copy, evid, live>> /\ Existing' = Existing
  BY <1>1 DEF durable, Existing, Exists
<1>4. /\ Tombed /\ tomb.steps < 5 /\ del.todo \subseteq Existing /\ del \in DelType
      /\ Progress /\ StaysRemoved /\ Tombed'
  BY <1>1, <1>3 DEF DInv, DelShape, Progress, Tombed
<1>5. Existing \subseteq Runs BY DEF Existing
<1>6. Steps[1] \in {Steps[n] : n \in 1 .. 5} OBVIOUS
<1>7. del' \in DelType /\ Progress'
  <2>1. CASE del.pc = "quiesce" /\ \E r \in Runs : del' = [del EXCEPT !.todo = @ \ {r}]
    <3>1. /\ del' \in DelType /\ del'.pc = "quiesce" /\ del'.todo \subseteq Existing
      BY <1>4, <2>1 DEF DelType
    <3>2. \A n \in 1 .. 5 : del'.pc # Steps[n] BY <3>1, Stages
    <3>3. tomb'.steps = 0 /\ ~del.done BY <1>1, <1>3, <1>4, <2>1 DEF Progress
    <3>4. ~del'.done BY <1>4, <2>1, <3>3 DEF DelType
    <3> QED BY <1>3, <1>4, <3>1, <3>2, <3>3, <3>4 DEF Progress
  <2>2. CASE del.pc = "quiesce" /\ del' = [del EXCEPT !.pc = Steps[1], !.todo = Existing]
    <3>1. del' \in DelType /\ del'.pc = Steps[1] /\ del'.todo = Existing
      BY <1>4, <1>5, <1>6, <2>2 DEF DelType
    <3>2. del'.pc # "quiesce" /\ \A n \in 1 .. 5 : del'.pc = Steps[n] => n = 1
      BY <3>1, Stages
    <3>3. tomb'.steps = 0 /\ ~del.done BY <1>1, <1>3, <1>4, <2>2 DEF Progress
    <3>5. ~del'.done BY <1>4, <2>2, <3>3 DEF DelType
    <3>4. \A r \in Runs \ del'.todo : Fenced(r)' BY <1>3, <3>1 DEF Fenced, Existing, Exists
    <3> QED BY <1>3, <1>4, <3>1, <3>2, <3>3, <3>4, <3>5 DEF Progress
  <2>3. CASE /\ del.pc = Steps[3] /\ del.todo \cap tomb.ids = {}
             /\ del' = [del EXCEPT !.done = TRUE]
    <3>1. del' \in DelType /\ del'.pc = Steps[3] /\ del'.todo = del.todo
      BY <1>4, <2>3 DEF DelType
    <3>2. del'.pc # "quiesce" /\ \A n \in 1 .. 5 : del'.pc = Steps[n] => n = 3
      BY <3>1, Stages
    <3>3. tomb.steps = 2 /\ Existing \subseteq del.todo BY <1>1, <1>4, <2>3 DEF Progress
    <3>4. Existing = {} BY <1>4, <2>3, <3>3 DEF StaysRemoved
    <3> QED BY <1>3, <1>4, <3>1, <3>2, <3>3, <3>4 DEF Progress
  <2>4. CASE del.pc = Steps[4] /\ del' = [del EXCEPT !.done = TRUE]
    <3>1. del' \in DelType /\ del'.pc = Steps[4] /\ del'.todo = del.todo
      BY <1>4, <2>4 DEF DelType
    <3>2. del'.pc # "quiesce" /\ \A n \in 1 .. 5 : del'.pc = Steps[n] => n = 4
      BY <3>1, Stages
    <3>3. tomb.steps = 3 BY <1>1, <1>4, <2>4 DEF Progress
    <3> QED BY <1>3, <1>4, <3>1, <3>2, <3>3 DEF Progress
  <2> QED BY <1>1, <2>1, <2>2, <2>3, <2>4
<1> QED BY <1>2, <1>4, <1>7, Onwards

(* The runs are listed once all of them are fenced.                          *)
LEMMA ListingKeeps == ASSUME DInv, RunsFenced PROVE DInv'
<1>1. /\ del.pc = Steps[1] /\ del.todo = {}
      /\ tomb' = [tomb EXCEPT !.ids = tomb.ids \cup Existing]
      /\ del' = [del EXCEPT !.done = TRUE]
      /\ UNCHANGED <<run, hist, live, copy, evid, auth, proj, rlock, inv, inflight, aborted,
                     seen, mem, fence>>
  BY DEF RunsFenced, others, volatile
<1>2. /\ Tombed /\ tomb \in Tombstone /\ del \in DelType /\ tomb.steps = 0
      /\ tomb.status # "completed" /\ \A r \in Runs : Fenced(r)
  BY <1>1, Stages DEF DInv, DelShape, Progress, Marked, Tombed
<1>3. Existing \subseteq Runs BY DEF Existing
<1>4. /\ tomb' \in Tombstone /\ tomb'.steps = 0 /\ tomb'.status = tomb.status
      /\ Existing \subseteq tomb'.ids
  BY <1>1, <1>2, <1>3 DEF Tombstone
<1>5. IInv' /\ Quiet' /\ Tombed' /\ Existing' = Existing BY <1>1, <1>2, <1>4, SameEngine
<1>6. Marked' BY <1>1, <1>2, <1>4, <1>5 DEF DInv, DelShape, Marked, NoBarrierBehind
<1>7. del' \in DelType /\ del'.pc = Steps[1] /\ del'.todo = {} /\ del'.done
  BY <1>1, <1>2 DEF DelType
<1>8. del'.pc # "quiesce" /\ \A n \in 1 .. 5 : del'.pc = Steps[n] => n = 1
  BY <1>7, Stages
<1>9. \A r \in Runs : Fenced(r)' BY <1>1, <1>2 DEF Fenced, Terminal, Exists
<1>10. Progress' BY <1>4, <1>5, <1>7, <1>8, <1>9 DEF Progress
<1>11. StaysRemoved' BY <1>4 DEF StaysRemoved
<1> QED BY <1>4, <1>5, <1>6, <1>7, <1>10, <1>11 DEF DInv, DelShape

(* So does giving up, whatever was saved before.                             *)
LEMMA GiveUpKeeps ==
  ASSUME DInv, (\E r \in Runs : QuiesceTimeout(r)) \/ EffectUnknown
  PROVE DInv'
<1>1. /\ GiveUp /\ del.pc # "off"
      /\ UNCHANGED <<run, hist, live, copy, evid, proj, rlock, inv, inflight, aborted, seen,
                     mem, fence>>
  BY Stages DEF QuiesceTimeout, EffectUnknown, Still
<1>2. Tombed /\ tomb \in Tombstone /\ tomb.steps < 5
  BY <1>1 DEF DInv, DelShape, Progress, Tombed
<1>3. /\ tomb' \in Tombstone /\ tomb'.steps = tomb.steps /\ tomb'.ids = tomb.ids
      /\ tomb'.status = "cleanup_required" /\ del' = NoResume /\ auth' \in {auth, None}
  BY <1>1, <1>2, GivingUp
<1>4. IInv' /\ Quiet' /\ Kept BY <1>1, <1>2, <1>3, SameEngine
<1>5. tomb.status # "completed" BY <1>2 DEF DInv, DelShape, Marked
<1> QED BY <1>1, <1>2, <1>3, <1>4, <1>5, NothingNew DEF DInv

(* What the fence saves for a run, before it lets go of the working copy.    *)
LEMMA Fencing ==
  ASSUME DInv, NEW r \in Runs, FenceSaved(r), copy' = copy \/ Drop(r), mem' \subseteq mem,
         tomb' \in Tombstone, auth' \in {auth, None}
  PROVE /\ IInv' /\ Quiet' /\ Tombed' /\ NoBarrierBehind' /\ Existing' = Existing
        /\ Terminal(run[r])' /\ run'[r].pend = None
        /\ \A q \in Runs \ {r} : run'[q] = run[q] /\ copy'[q] = copy[q]
<1>1. /\ r \in del.todo /\ del.pc = Steps[1] /\ run[r].pend = None
      /\ UNCHANGED <<hist, live, evid, proj, rlock, inv, inflight, aborted, fence>>
  BY DEF FenceSaved, Still
<1>2. Tombed /\ Exists(r) BY <1>1, Stages DEF DInv, DelShape, Progress, Existing
<1>3. Quiet /\ (\A q \in Existing : run[q].pend = None) /\ TypeOK
  BY <1>2 DEF DInv, DelShape, Marked, NoBarrierBehind, IInv
<1>4. run[r] \in Run BY <1>2, <1>3, Shown
<1>5. /\ Cancelled(run[r]) \in Run /\ Cancelled(run[r]).st = "cancelled"
      /\ Cancelled(run[r]).pend = None
  BY <1>4 DEF Cancelled, Run, TerminalStatus
<1>6. /\ run' \in [Runs -> Run \cup {None}] /\ seen' \in [Runs -> SUBSET {"inv", "drv"}]
      /\ \A q \in Runs \ {r} : run'[q] = run[q]
      /\ \/ run'[r] = run[r] /\ Terminal(run[r])
         \/ run'[r] = Cancelled(run[r]) /\ ~Terminal(run[r])
  <2>1. CASE Terminal(run[r]) BY <1>3, <2>1 DEF FenceSaved, TypeOK
  <2>2. CASE ~Terminal(run[r])
    <3>1. /\ run' = [run EXCEPT ![r] = Cancelled(run[r])]
          /\ seen' = [seen EXCEPT ![r] = {}]
      BY <2>2 DEF FenceSaved, Put
    <3>2. /\ run \in [Runs -> Run \cup {None}]
          /\ seen \in [Runs -> SUBSET {"inv", "drv"}]
      BY <1>3 DEF TypeOK
    <3>3. seen' \in [Runs -> SUBSET {"inv", "drv"}] BY <3>1, <3>2
    <3> QED BY <1>5, <2>2, <3>1, <3>2, <3>3
  <2> QED BY <2>1, <2>2
<1>7. /\ run'[r] # None /\ run'[r].pend = None /\ Terminal(run[r])'
      /\ \/ run'[r].st = run[r].st
         \/ Alive(r) /\ run'[r].st = "cancelled"
  BY <1>1, <1>2, <1>5, <1>6, NoRecordIsNone DEF Terminal, TerminalStatus, Alive, Exists
<1>8. /\ copy' \in [Runs -> Snaps \cup {None}] /\ copy'[r] \in {copy[r], None}
      /\ \A q \in Runs \ {r} : copy'[q] = copy[q]
  BY <1>3 DEF Drop, TypeOK
<1>9. TakesAway
  <2>1. ASSUME NEW q \in Runs
        PROVE /\ copy'[q] \in {copy[q], None}
              /\ Alive(q)' => copy'[q] = copy[q] /\ run'[q] = run[q]
              /\ Exists(q)' => /\ Exists(q) /\ run'[q].pend = None
                               /\ \/ run'[q].st = run[q].st
                                  \/ Alive(q) /\ run'[q].st = "cancelled"
              /\ Exists(q) => Exists(q)'
    <3>1. CASE q = r BY <1>2, <1>7, <1>8, <3>1 DEF Alive, Exists
    <3>2. CASE q # r BY <1>3, <1>6, <1>8, <3>2 DEF Alive, Exists, Existing
    <3> QED BY <3>1, <3>2
  <2>2. /\ auth' \in {auth, None, "member"} /\ live' \in BOOLEAN /\ evid' \subseteq evid
    BY <1>1, <1>3 DEF TypeOK
  <2> QED BY <1>1, <1>6, <1>8, <2>1, <2>2 DEF TakesAway
<1>10. tomb' # None BY NoTombIsNone
<1>11. IInv' BY <1>3, <1>9, <1>10, TakingAwayKeeps DEF DInv
<1>12. Existing' = Existing /\ NoBarrierBehind'
  BY <1>2, <1>3, <1>6, <1>7 DEF Existing, Exists, NoBarrierBehind
<1> QED BY <1>1, <1>3, <1>6, <1>7, <1>8, <1>10, <1>11, <1>12 DEF Quiet, Tombed

(* The fence of one run, also when its record is saved and its disposal fails. *)
LEMMA FenceKeeps == ASSUME DInv, NEW r \in Runs, FenceRun(r) \/ FenceRunFails(r) PROVE DInv'
<1>1. FenceSaved(r) /\ del.pc = Steps[1] /\ r \in del.todo
  BY DEF FenceRun, FenceRunFails, FenceSaved
<1>2. /\ Tombed /\ tomb \in Tombstone /\ del \in DelType /\ tomb.steps = 0
      /\ tomb.status # "completed" /\ del.todo \subseteq Existing
      /\ ~del.done /\ \A q \in Runs \ del.todo : Fenced(q)
  BY <1>1, Stages DEF DInv, DelShape, Progress, Marked, Tombed
<1>3. CASE FenceRun(r)
  <2>1. /\ Drop(r) /\ mem' \subseteq mem /\ tomb' = tomb /\ auth' = auth
        /\ del' = [del EXCEPT !.todo = @ \ {r}]
    BY <1>3 DEF FenceRun
  <2>2. /\ IInv' /\ Quiet' /\ Tombed' /\ NoBarrierBehind' /\ Existing' = Existing
        /\ Terminal(run[r])' /\ run'[r].pend = None
        /\ \A q \in Runs \ {r} : run'[q] = run[q] /\ copy'[q] = copy[q]
    BY <1>1, <1>2, <2>1, Fencing
  <2>3. copy'[r] = None BY <2>1 DEF Drop, DInv, IInv, TypeOK
  <2>4. del' \in DelType /\ del'.pc = Steps[1] /\ del'.todo = del.todo \ {r} /\ ~del'.done
    BY <1>1, <1>2, <2>1 DEF DelType
  <2>5. \A q \in Runs \ del'.todo : Fenced(q)'
    <3>1. ASSUME NEW q \in Runs \ del'.todo PROVE Fenced(q)'
      <4>1. CASE q = r BY <2>2, <2>3, <4>1 DEF Fenced
      <4>2. CASE q # r
        <5>1. Fenced(q) BY <1>2, <2>4, <4>2
        <5> QED BY <2>2, <4>2, <5>1 DEF Fenced, Terminal, Exists
      <4> QED BY <4>1, <4>2
    <3> QED BY <3>1
  <2>6. del'.pc # "quiesce" /\ \A n \in 1 .. 5 : del'.pc = Steps[n] => n = 1
    BY <2>4, Stages
  <2>7. Marked' BY <1>2, <2>1, <2>2 DEF Marked
  <2>8. Progress' BY <1>2, <2>1, <2>2, <2>4, <2>5, <2>6 DEF Progress
  <2>9. StaysRemoved' BY <1>2, <2>1 DEF StaysRemoved
  <2> QED BY <1>2, <2>1, <2>2, <2>4, <2>7, <2>8, <2>9 DEF DInv, DelShape
<1>4. CASE FenceRunFails(r)
  <2>1. GiveUp /\ copy' = copy /\ mem' = mem BY <1>4 DEF FenceRunFails
  <2>2. /\ tomb' \in Tombstone /\ tomb'.steps = 0 /\ tomb'.status = "cleanup_required"
        /\ del' = NoResume /\ auth' \in {auth, None}
    BY <1>2, <2>1, GivingUp
  <2>3. IInv' /\ Quiet' /\ Tombed' /\ NoBarrierBehind' BY <1>1, <2>1, <2>2, Fencing
  <2> QED BY <2>2, <2>3, Resting DEF DInv, DelShape, Marked, Progress, StaysRemoved
<1> QED BY <1>3, <1>4

(* What a stage takes away and leaves to be recorded.                        *)
LEMMA Removing ==
  ASSUME DInv, Tombed, TakesAway, tomb' = tomb, Existing' \subseteq Existing
  PROVE /\ IInv' /\ Quiet' /\ Marked'
<1>1. Quiet /\ (\A q \in Existing : run[q].pend = None)
  BY DEF DInv, DelShape, Marked, NoBarrierBehind
<1>2. IInv' BY <1>1, TakingAwayKeeps DEF DInv, Tombed
<1>3. Quiet' BY <1>1 DEF Quiet, TakesAway
<1>4. \A q \in Runs : Exists(q)' => run'[q].pend = None BY DEF TakesAway
<1> QED BY <1>2, <1>3, <1>4 DEF DInv, DelShape, Marked, NoBarrierBehind, Tombed, Existing

(* The evidence of the runs that are recorded as fenced is all there is.      *)
LEMMA RemoveEvidenceKeeps == ASSUME DInv, RemoveEvidence PROVE DInv'
<1>1. /\ del.pc = Steps[2] /\ evid' = {e \in evid : e[1] \notin tomb.ids}
      /\ del' = [del EXCEPT !.done = TRUE]
      /\ UNCHANGED <<run, hist, live, copy, tomb, volatile>>
  BY DEF RemoveEvidence
<1>2. /\ Tombed /\ tomb \in Tombstone /\ del \in DelType /\ tomb.steps = 1
      /\ del.todo \subseteq Existing
      /\ \A q \in Existing : /\ Terminal(run[q]) /\ run[q].pend = None /\ copy[q] = None
                             /\ q \in tomb.ids
  BY <1>1, Stages DEF DInv, DelShape, Progress, StaysRemoved, Tombed
<1>3. TypeOK /\ \A q \in Runs : KnownShape(q) BY DEF DInv, IInv
<1>4. evid' = {}
  <2>1. ASSUME NEW e \in evid PROVE e[1] \in tomb.ids
    <3>1. e[1] \in Runs BY <1>3 DEF TypeOK
    <3>2. e[2] \in Proofs(e[1]) BY DEF Proofs
    <3> QED BY <1>2, <1>3, <3>1, <3>2 DEF KnownShape, Existing
  <2> QED BY <1>1, <2>1
<1>5. Existing' = Existing BY <1>1 DEF Existing, Exists
<1>6. TakesAway
  BY <1>1, <1>2, <1>3, <1>4 DEF TakesAway, TypeOK, volatile, Existing, Exists, Alive
<1>7. IInv' /\ Quiet' /\ Marked' BY <1>1, <1>2, <1>5, <1>6, Removing
<1>8. del' \in DelType /\ del'.pc = Steps[2] /\ del'.todo = del.todo
  BY <1>1, <1>2 DEF DelType
<1>9. del'.pc # "quiesce" /\ \A n \in 1 .. 5 : del'.pc = Steps[n] => n = 2
  BY <1>8, Stages
<1>10. Progress' BY <1>1, <1>2, <1>4, <1>5, <1>8, <1>9 DEF Progress, Tombed
<1>11. StaysRemoved' BY <1>1, <1>2, <1>5 DEF StaysRemoved, Terminal
<1> QED BY <1>1, <1>2, <1>7, <1>8, <1>10, <1>11 DEF DInv, DelShape

(* A record goes when nothing bears the name of its run any more.             *)
LEMMA RemoveRunKeeps == ASSUME DInv, NEW r \in Runs, RemoveRun(r) PROVE DInv'
<1>1. /\ del.pc = Steps[3] /\ r \in del.todo /\ run' = [run EXCEPT ![r] = None]
      /\ del' = [del EXCEPT !.todo = @ \ {r}]
      /\ UNCHANGED <<hist, live, copy, evid, tomb, volatile>>
  BY DEF RemoveRun, disk
<1>2. /\ Tombed /\ tomb \in Tombstone /\ del \in DelType /\ tomb.steps = 2
      /\ del.todo \subseteq Existing /\ Existing \subseteq del.todo
      /\ (del.done => Existing = {})
      /\ \A q \in Existing : /\ Terminal(run[q]) /\ run[q].pend = None /\ copy[q] = None
                             /\ q \in tomb.ids
      /\ evid = {}
  BY <1>1, Stages DEF DInv, DelShape, Progress, StaysRemoved, Tombed
<1>3. TypeOK BY DEF DInv, IInv
<1>4. /\ run' \in [Runs -> Run \cup {None}] /\ run'[r] = None
      /\ \A q \in Runs \ {r} : run'[q] = run[q]
  BY <1>1, <1>3 DEF TypeOK
<1>5. Existing' = Existing \ {r} BY <1>4 DEF Existing, Exists
<1>6. TakesAway
  BY <1>1, <1>2, <1>3, <1>4 DEF TakesAway, TypeOK, volatile, Existing, Exists, Alive, Proofs
<1>7. IInv' /\ Quiet' /\ Marked' BY <1>1, <1>2, <1>5, <1>6, Removing
<1>8. del' \in DelType /\ del'.pc = Steps[3] /\ del'.todo = del.todo \ {r} /\ del'.done = del.done
  BY <1>1, <1>2 DEF DelType
<1>9. del'.pc # "quiesce" /\ \A n \in 1 .. 5 : del'.pc = Steps[n] => n = 3
  BY <1>8, Stages
<1>10. ~del'.done BY <1>1, <1>2, <1>8
<1>11. Progress' BY <1>1, <1>2, <1>5, <1>8, <1>9, <1>10 DEF Progress, Tombed
<1>12. StaysRemoved' BY <1>1, <1>2, <1>4, <1>5 DEF StaysRemoved, Terminal, Existing
<1> QED BY <1>1, <1>2, <1>7, <1>8, <1>11, <1>12 DEF DInv, DelShape

(* The project goes last.                                                    *)
LEMMA RemoveProjectKeeps == ASSUME DInv, RemoveProject PROVE DInv'
<1>1. /\ del.pc = Steps[5] /\ live' = FALSE /\ copy' = [q \in Runs |-> None]
      /\ del' = [del EXCEPT !.done = TRUE]
      /\ UNCHANGED <<run, hist, evid, tomb, volatile>>
  BY DEF RemoveProject
<1>2. /\ Tombed /\ tomb \in Tombstone /\ del \in DelType /\ tomb.steps = 4
      /\ del.todo \subseteq Existing /\ Existing = {} /\ evid = {}
  BY <1>1, Stages DEF DInv, DelShape, Progress, StaysRemoved, Tombed
<1>3. TypeOK BY DEF DInv, IInv
<1>4. Existing' = {} BY <1>1, <1>2 DEF Existing, Exists
<1>5. TakesAway
  BY <1>1, <1>2, <1>3 DEF TakesAway, TypeOK, volatile, Existing, Exists, Alive
<1>6. IInv' /\ Quiet' /\ Marked' BY <1>1, <1>2, <1>4, <1>5, Removing
<1>7. del' \in DelType /\ del'.pc = Steps[5] /\ del'.todo = del.todo
  BY <1>1, <1>2 DEF DelType
<1>8. del'.pc # "quiesce" /\ \A n \in 1 .. 5 : del'.pc = Steps[n] => n = 5
  BY <1>7, Stages
<1>9. Progress' BY <1>1, <1>2, <1>4, <1>7, <1>8 DEF Progress, Tombed
<1>10. StaysRemoved' BY <1>1, <1>2, <1>4 DEF StaysRemoved
<1> QED BY <1>1, <1>2, <1>6, <1>7, <1>9, <1>10 DEF DInv, DelShape

(* A restart forgets the resumption; the tombstone stays.                    *)
LEMMA DelCrashKeeps == ASSUME DInv, DelCrash PROVE DInv'
<1>1. Restarted /\ del' = NoResume /\ UNCHANGED <<hist, live, copy, evid, tomb>>
  BY DEF DelCrash, Restarted, disk
<1>2. IInv' BY <1>1, InvariantKept DEF DInv, Moves
<1>3. Quiet'
  <2>1. \A q \in Runs : inv'[q].pc = "off" BY <1>1 DEF Restarted, Idle
  <2> QED BY <2>1 DEF Quiet, Holders, Critical
<1>4. Kept
  <2>1. ASSUME NEW q \in Runs PROVE run'[q] = run[q] \/ (Exists(q) /\ SameButLease(run[q], run'[q]))
    <3>1. CASE Exists(q) /\ run[q].writer = "mine"
      <4>1. run[q] \in Run BY <3>1, Shown DEF DInv, IInv
      <4>2. run'[q] = [run[q] EXCEPT !.writer = "other"] BY <1>1, <3>1 DEF Restarted
      <4> QED BY <3>1, <4>1, <4>2, Leasing
    <3>2. CASE ~(Exists(q) /\ run[q].writer = "mine")
      BY <1>1, <3>2 DEF Restarted
    <3> QED BY <3>1, <3>2
  <2> QED BY <2>1 DEF Kept
<1>5. CASE Tombed
  <2>1. tomb \in Tombstone BY <1>5 DEF DInv, DelShape, Tombed
  <2> QED BY <1>1, <1>2, <1>3, <1>4, <1>5, <2>1, NothingNew DEF DInv
<1>6. CASE ~Tombed
  BY <1>1, <1>2, <1>6, Resting
     DEF DInv, DelShape, Marked, Progress, StaysRemoved, Tombed
<1> QED BY <1>5, <1>6

(* The engine works on beside the deletion.                                  *)
LEMMA CodingKeeps == ASSUME DInv, NEW r \in Runs, Coding(r) PROVE DInv'
<1>1. Next /\ del' = del BY DEF Coding, Next
<1>2. IInv' BY <1>1, InvariantKept DEF DInv, Moves
<1>3. CASE Tombed
  <2>1. tomb \in Tombstone /\ Quiet BY <1>3 DEF DInv, DelShape, Tombed, Marked
  <2>2. UNCHANGED <<live, copy, evid, tomb>> /\ Quiet' /\ Kept
    BY <1>3, <2>1, Behind DEF DInv
  <2> QED BY <1>1, <1>2, <1>3, <2>1, <2>2, NothingNew DEF DInv
<1>4. CASE ~Tombed
  <2>1. tomb' = tomb BY <1>1, Bookkeeping DEF DInv, Moves
  <2> QED
    BY <1>1, <1>2, <1>4, <2>1 DEF DInv, DelShape, Marked, Progress, StaysRemoved, Tombed
<1> QED BY <1>3, <1>4

(* Every step of the composition keeps the invariant.                        *)
LEMMA DeletionKeeps == DInv /\ [DelNext]_dvars => DInv'
<1> SUFFICES ASSUME DInv, [DelNext]_dvars PROVE DInv' OBVIOUS
<1>1. CASE UNCHANGED dvars
  <2>1. UNCHANGED vars /\ del' = del BY <1>1 DEF dvars
  <2>2. IInv' BY <2>1, InvariantKept DEF DInv
  <2>3. UNCHANGED <<run, live, copy, evid, tomb, inv>> BY <2>1 DEF vars, durable, volatile
  <2> QED
    BY <2>1, <2>2, <2>3
       DEF DInv, DelShape, Marked, Quiet, NoBarrierBehind, Progress, Fenced, StaysRemoved, Tombed,
           Existing, Exists, Terminal
<1>2. CASE Request BY <1>2, RequestKeeps
<1>3. ASSUME NEW by \in {"worker", "member"}, Resume(by) PROVE DInv' BY <1>3, ResumeKeeps
<1>4. CASE Work
  <2>1. CASE (\E r \in Runs : Quiesced(r)) \/ AllQuiet \/ RunsRemoved \/ Detach
    BY <2>1, WaitingKeeps
  <2>2. CASE RunsFenced BY <2>2, ListingKeeps
  <2>7. ASSUME NEW n \in 1 .. 5, Completes(n) PROVE DInv'
    BY <2>7, Recorded DEF Completes, Still
  <2>3. ASSUME NEW r \in Runs, FenceRun(r) PROVE DInv' BY <2>3, FenceKeeps
  <2>4. ASSUME NEW r \in Runs, RemoveRun(r) PROVE DInv' BY <2>4, RemoveRunKeeps
  <2>5. CASE RemoveEvidence BY <2>5, RemoveEvidenceKeeps
  <2>6. CASE RemoveProject BY <2>6, RemoveProjectKeeps
  <2> QED BY <1>4, <2>1, <2>2, <2>3, <2>4, <2>5, <2>6, <2>7 DEF Work
<1>5. CASE EffectUnknown \/ \E r \in Runs : QuiesceTimeout(r) BY <1>5, GiveUpKeeps
<1>6. CASE DelCrash BY <1>6, DelCrashKeeps
<1>7. ASSUME NEW r \in Runs, FenceRunFails(r) PROVE DInv' BY <1>7, FenceKeeps
<1>8. ASSUME NEW r \in Runs, Coding(r) PROVE DInv' BY <1>8, CodingKeeps
<1> QED BY <1>1, <1>2, <1>3, <1>4, <1>5, <1>6, <1>7, <1>8 DEF DelNext

--------------------------------------------------------------------------------
(* What holds behind the tombstone. *)

(* The engine, the tombstone and the resumption fit together in every state:  *)
(* a deletion at any of its steps, a crash between two of them and a coding    *)
(* call in flight break nothing the engine relies on.                         *)
THEOREM DeletionInvariant == DelSpec => []DInv
<1>1. DelInit => DInv
  <2>1. ASSUME DelInit PROVE DInv
    <3>1. Init /\ del = NoResume /\ tomb = None BY <2>1 DEF DelInit, Init
    <3>2. IInv BY <3>1, InvariantStarts
    <3> QED
      BY <3>1, <3>2, Resting DEF DInv, DelShape, Marked, Progress, StaysRemoved, Tombed
  <2> QED BY <2>1
<1> QED BY <1>1, DeletionKeeps, PTL DEF DelSpec

(* Every variable of the composition keeps its type.                         *)
THEOREM DeletionTypes == DelSpec => []DelTypeOK
<1>1. DInv => DelTypeOK BY DEF DInv, IInv, DelShape, DelType, DelTypeOK
<1> QED BY <1>1, DeletionInvariant, PTL

(* What a recorded step has removed stays removed, for every number of runs,   *)
(* crashes and resumptions, whatever was in flight when the project was marked. *)
THEOREM RemovedStaysRemoved == DelSpec => []StaysRemoved
<1>1. DInv => StaysRemoved BY DEF DInv, DelShape
<1> QED BY <1>1, DeletionInvariant, PTL

(* No run is on its commit barrier behind the tombstone, so that the fence of  *)
(* a deletion never meets an effect it may neither keep nor drop.              *)
THEOREM FenceNeverBlocked == DelSpec => []NoBarrierBehind
<1>1. DInv => NoBarrierBehind BY DEF DInv, DelShape, Marked, NoBarrierBehind
<1> QED BY <1>1, DeletionInvariant, PTL

(* A marked project only loses: no revision, no evidence, no record and no     *)
(* working copy appears, and the mark stays, also by calls admitted before it.  *)
THEOREM MarkedIsFrozen == DelSpec => Frozen
<1> DEFINE Loses == /\ hist' = hist /\ evid' \subseteq evid /\ tomb' # None
                    /\ Existing' \subseteq Existing
                    /\ \A r \in Runs : copy'[r] \in {copy[r], None}
<1>1. ASSUME DInv, DelNext, Tombed PROVE Loses
  <2>1. /\ IInv /\ TypeOK /\ Quiet /\ tomb \in Tombstone /\ del \in DelType /\ tomb # None
        /\ del.pc = Steps[1] => del.todo \subseteq Existing
    BY <1>1, Stages DEF DInv, DelShape, Marked, Progress, Tombed, IInv
  <2>2. UNCHANGED run => Existing' = Existing BY DEF Existing, Exists
  <2>3. UNCHANGED durable => Loses BY <2>1, <2>2 DEF durable
  <2>4. (GiveUp \/ RunsFenced \/ \E n \in 1 .. 5 : Record(n)) => tomb' # None
    <3>1. RunsFenced => tomb' \in Tombstone
      <4>1. Existing \subseteq Runs BY DEF Existing
      <4> QED BY <2>1, <4>1 DEF RunsFenced, Tombstone
    <3> QED BY <2>1, <3>1, GivingUp, Recording, NoTombIsNone
  <2>5. ~Request BY <1>1 DEF Request, Available, Tombed
  <2>6. ASSUME \/ \E by \in {"worker", "member"} : Resume(by)
               \/ \E r \in Runs : Quiesced(r)
               \/ AllQuiet \/ RunsRemoved \/ Detach
        PROVE Loses
    BY <2>3, <2>6 DEF Resume, Quiesced, AllQuiet, RunsRemoved, Detach
  <2>7. ASSUME \/ RunsFenced \/ \E n \in 1 .. 5 : Completes(n)
               \/ EffectUnknown \/ \E r \in Runs : QuiesceTimeout(r)
        PROVE Loses
    <3>1. UNCHANGED <<run, hist, copy, evid>> /\ tomb' # None
      BY <2>4, <2>7 DEF RunsFenced, Completes, EffectUnknown, QuiesceTimeout, others
    <3> QED BY <2>1, <2>2, <3>1
  <2>8. ASSUME NEW r \in Runs, FenceRun(r) \/ FenceRunFails(r) PROVE Loses
    <3>1. /\ FenceSaved(r) /\ r \in Existing
          /\ \/ Drop(r) /\ UNCHANGED tomb
             \/ GiveUp /\ UNCHANGED copy
      BY <2>1, <2>8 DEF FenceRun, FenceRunFails, FenceSaved
    <3>2. UNCHANGED <<hist, evid>> /\ \A q \in Runs \ {r} : run'[q] = run[q]
      BY <2>1, <3>1 DEF FenceSaved, Put, TypeOK
    <3>3. \A q \in Runs : copy'[q] \in {copy[q], None} BY <2>1, <3>1 DEF Drop, TypeOK
    <3>4. Existing' \subseteq Existing BY <3>1, <3>2 DEF Existing, Exists
    <3> QED BY <2>1, <2>4, <3>1, <3>2, <3>3, <3>4
  <2>9. ASSUME RemoveEvidence \/ RemoveProject \/ \E r \in Runs : RemoveRun(r) PROVE Loses
    <3>1. UNCHANGED <<hist, tomb>> /\ evid' \subseteq evid
      BY <2>9 DEF RemoveEvidence, RemoveProject, RemoveRun, disk
    <3>2. \A q \in Runs : copy'[q] \in {copy[q], None}
      BY <2>9 DEF RemoveEvidence, RemoveProject, RemoveRun, disk
    <3>3. Existing' \subseteq Existing
      BY <2>1, <2>9 DEF RemoveEvidence, RemoveProject, RemoveRun, Existing, Exists, TypeOK
    <3> QED BY <2>1, <3>1, <3>2, <3>3
  <2>10. ASSUME DelCrash PROVE Loses
    <3>1. UNCHANGED <<hist, copy, evid, tomb>> /\ Existing' \subseteq Existing
      BY <2>1, <2>10 DEF DelCrash, Restarted, disk, Existing, Exists
    <3> QED BY <2>1, <3>1
  <2>11. ASSUME NEW r \in Runs, Coding(r) PROVE Loses
    <3>1. UNCHANGED <<hist, copy, evid, tomb>> /\ Kept BY <1>1, <2>1, <2>11, Behind
    <3>2. Existing' \subseteq Existing BY <3>1 DEF Kept, Existing, Exists
    <3> QED BY <2>1, <3>1, <3>2
  <2> HIDE DEF Loses
  <2> QED BY <1>1, <2>5, <2>6, <2>7, <2>8, <2>9, <2>10, <2>11 DEF DelNext, Work
<1>2. ASSUME UNCHANGED dvars, DInv, Tombed PROVE Loses
  BY <1>2 DEF dvars, vars, durable, Existing, Exists, Tombed
<1>3. DInv /\ [DelNext]_dvars => (Tombed => Loses) BY <1>1, <1>2
<1> QED BY <1>3, DeletionInvariant, PTL DEF DelSpec, Frozen

(* No resumption, no failure and no restart brings the coordinator to a record *)
(* its repository refuses.                                                    *)
THEOREM RecordsAreAccepted == DelSpec => RecordsAccepted
<1> DEFINE Accepted == \/ tomb' = tomb
                       \/ /\ tomb.status # "completed"
                          /\ tomb'.steps \in {tomb.steps, tomb.steps + 1}
                          /\ tomb.ids \subseteq tomb'.ids
                          /\ tomb.steps >= 1 => tomb'.ids = tomb.ids
                          /\ tomb'.status = "completed" <=> tomb'.steps = 5
<1>1. ASSUME DInv, DelNext, Tombed PROVE Accepted
  <2>1. /\ IInv /\ Quiet /\ tomb \in Tombstone /\ del \in DelType
        /\ tomb.status = "completed" <=> tomb.steps = 5
        /\ del.pc # "off" => tomb.steps < 5
        /\ \A n \in 1 .. 5 : del.pc = Steps[n] => tomb.steps = n - 1
    BY <1>1, Stages DEF DInv, DelShape, Marked, Progress, Tombed
  <2>2. ASSUME GiveUp, del.pc # "off" PROVE Accepted BY <2>1, <2>2, GivingUp
  <2>3. ASSUME NEW n \in 1 .. 5, Completes(n) PROVE Accepted
    <3>1. Record(n) /\ del.pc = Steps[n] BY <2>3 DEF Completes
    <3>2. tomb.steps = n - 1 BY <2>1, <3>1
    <3>3. tomb'.steps = n /\ tomb'.ids = tomb.ids /\ (tomb'.status = "completed" <=> n = 5)
      BY <2>1, <3>1, Recording
    <3> QED BY <2>1, <3>2, <3>3
  <2>4. ASSUME RunsFenced PROVE Accepted
    <3>1. /\ tomb' = [tomb EXCEPT !.ids = tomb.ids \cup Existing] /\ del.pc = Steps[1]
      BY <2>4 DEF RunsFenced
    <3>2. tomb.steps = 0 BY <2>1, <3>1
    <3> QED BY <2>1, <3>1, <3>2 DEF Tombstone
  <2>5. ASSUME EffectUnknown \/ \E r \in Runs : QuiesceTimeout(r) \/ FenceRunFails(r)
        PROVE Accepted
    <3>1. GiveUp /\ del.pc # "off"
      BY <2>5, Stages DEF EffectUnknown, QuiesceTimeout, FenceRunFails, FenceSaved
    <3> QED BY <2>2, <3>1
  <2>6. ~Request BY <1>1 DEF Request, Available, Tombed
  <2>7. ASSUME \/ \E by \in {"worker", "member"} : Resume(by)
               \/ \E r \in Runs : Quiesced(r) \/ FenceRun(r) \/ RemoveRun(r)
               \/ AllQuiet \/ RunsRemoved \/ Detach \/ RemoveEvidence \/ RemoveProject \/ DelCrash
        PROVE Accepted
    BY <2>7
       DEF Resume, Quiesced, FenceRun, RemoveRun, AllQuiet, RunsRemoved, Detach, RemoveEvidence,
           RemoveProject, DelCrash, Restarted, durable, disk
  <2>8. ASSUME NEW r \in Runs, Coding(r) PROVE Accepted BY <1>1, <2>1, <2>8, Behind
  <2> HIDE DEF Accepted
  <2> QED BY <1>1, <2>3, <2>4, <2>5, <2>6, <2>7, <2>8 DEF DelNext, Work
<1>2. ASSUME UNCHANGED dvars PROVE Accepted BY <1>2 DEF dvars, vars, durable
<1>3. DInv /\ [DelNext]_dvars => (Tombed => Accepted) BY <1>1, <1>2
<1> QED BY <1>3, DeletionInvariant, PTL DEF DelSpec, RecordsAccepted

=============================================================================
