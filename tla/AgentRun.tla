------------------------------- MODULE AgentRun -------------------------------
(***************************************************************************)
(* AgentRunService over FileAgentRunRepository, for one private scope.      *)
(*                                                                         *)
(* Operations of the active queue run one at a time: `op` is the one that   *)
(* holds it.  It loads the record (Enter), and in a later turn of the event *)
(* loop either returns without saving or issues a compare-and-swap save.    *)
(* Saves and removals execute in the order in which they were issued: `pend`*)
(* is the FIFO of FILE_QUEUES.  Between load and save, and between issuing  *)
(* and executing, everything that does not take the active queue may run:   *)
(* the erasures of data rights, the expiry purge, the version 1 clarification*)
(* checkpoint of the chat, a crash.                                         *)
(*                                                                         *)
(* `attempt` is the worker's memory of the attempt it runs, `chain` the     *)
(* serialised chat handler of the owner.  `sent` and `erased` record what   *)
(* the outside world has seen: messages that left, runs whose data the      *)
(* owner had deleted.                                                      *)
(***************************************************************************)
EXTENDS ActiveRun, Sequences

CONSTANTS
  MaxId,   \* bound on the ids makeId hands out
  MaxRev,  \* bound on the saves of one record
  MaxPend, \* bound on the writes waiting for the file
  Env      \* the parts of the environment that are switched on

ASSUME BoundAssumption == MaxId \in Nat /\ MaxRev \in Nat /\ MaxPend \in Nat

VARIABLES
  active,     \* the version 2 record in the file, or None
  late,       \* which of its deadlines has passed
  legacy,     \* the version 1 checkpoint in the file, or None
  legacyLate, \* whether it has expired
  blocked,    \* the scope is in blockedScopes
  op,         \* the operation that holds the active queue, or None
  pend,       \* writes issued to the file and not executed, oldest first
  attempt,    \* the worker's attempt, or None
  chain,      \* the owner's chat handler
  mode,       \* process lifecycle
  lastId,     \* last id makeId handed out
  sent,       \* messages that left for the transport
  erased      \* ids of the runs and checkpoints erased at the owner's request

file == <<active, late, legacy, legacyLate>>
world == <<sent, erased>>
vars == <<file, blocked, op, pend, attempt, chain, mode, lastId, world>>

Legacy == [id : Nat, rev : Nat]
Lateness == {"no", "question", "run"}
Modes == {"boot", "up", "stopping"}
WorkStage == {"begun", "planning", "final", "ask", "cancelled", "stopped",
              "approval", "stale", "after", "failing"}
SaveKind == {"start", "attach", "route", "expire", "recover", "begin", "prepare",
             "finish", "unknown", "requeue", "settle", "fail", "failExternally"}
Attempt == [run : Nat, inRev : Nat, ckpt : Checkpoint, answer : Answer \cup {None},
            stage : WorkStage, aborted : BOOLEAN]
Op == [stage : {"loaded", "dropping", "start", "saving", "deliver", "sending", "sent", "unknown"},
       kind : SaveKind \cup {"none"}, snap : Run \cup {None}]
Chain == [stage : {"idle", "starting", "saving", "claiming", "abandon",
                     "withdrawing", "erasing"},
          known : Legacy \cup {None}]
Sent == [run : Nat, effect : Nat, purpose : Purpose, instr : Nat, seen : SUBSET Sources]
Announced == [run : Nat, effect : Nat, purpose : Purpose]

SaveReq == [by : {"op"}, draft : Run, expect : Nat]
ChatReq == [by : {"chat", "claim"}, id : Nat, expect : Nat]
DropReq == [by : {"drop", "dropLegacy", "startDrop"}, id : Nat, rev : Nat]
EraseReq == [by : {"erase"}, why : {"forget", "discard", "abandon", "accept"}, was : BOOLEAN]
OtherReq == [by : {"purge", "clear"}]
ASSUME NoMemoryIsNone == None \notin Legacy \cup Attempt \cup Op \cup Announced

Request == SaveReq \cup ChatReq \cup DropReq \cup EraseReq \cup OtherReq

Idle == [stage |-> "idle", known |-> None]

Init ==
  /\ active = None /\ late = "no" /\ legacy = None /\ legacyLate = FALSE
  /\ blocked = FALSE /\ op = None /\ pend = <<>> /\ attempt = None
  /\ chain = Idle /\ mode = "up" /\ lastId = 0
  /\ sent = {} /\ erased = {}

-----------------------------------------------------------------------------
(* The active queue. *)

Issue(req) == Len(pend) < MaxPend /\ pend' = Append(pend, req)

(* Every read is an exclusive file operation: earlier writes come first. *)
Enter ==
  /\ op = None /\ pend = <<>> /\ ~blocked
  /\ op' = [stage |-> "loaded", kind |-> "none", snap |-> active]
  /\ UNCHANGED <<file, blocked, pend, attempt, chain, mode, lastId, world>>

Loaded == op # None /\ op.stage = "loaded" /\ op.kind = "none"
Found(id) == op.snap # None /\ op.snap.id = id

(* A saved draft renews the retention horizon when it closes the run. *)
Renews(snap, n) == Terminal(n) /\ ~(snap # None /\ Terminal(snap))
Savable(snap, n) == Storable(n, late = "run" /\ ~Renews(snap, n))

Save(kind, n) ==
  /\ ~blocked
  /\ Savable(op.snap, n)
  /\ Issue([by |-> "op", draft |-> n, expect |-> n.rev])
  /\ op' = [op EXCEPT !.stage = "saving", !.kind = kind]

(* An operation that finds nothing to do, or throws before it saves.  The   *)
(* worker's operations have their own returns below.                        *)
Return ==
  /\ op # None /\ op.stage \in {"loaded", "start"}
  /\ op' = None
  /\ chain' = IF op.kind = "start" THEN [chain EXCEPT !.stage = "idle"] ELSE chain
  /\ UNCHANGED <<file, blocked, pend, attempt, mode, lastId, world>>

-----------------------------------------------------------------------------
(* Operations of ingress and recovery. *)

(* startActive, called by the owner's chat handler. *)
EnterStart ==
  /\ op = None /\ pend = <<>> /\ ~blocked /\ chain.stage = "idle"
  /\ chain' = [chain EXCEPT !.stage = "starting"]
  /\ op' = [stage |-> "loaded", kind |-> "start", snap |-> active]
  /\ UNCHANGED <<file, blocked, pend, attempt, mode, lastId, world>>

(* A version 1 checkpoint refuses the start, unless it has expired: then it *)
(* is dropped first.                                                        *)
StartMeetsLegacy ==
  /\ op # None /\ op.kind = "start" /\ op.stage = "loaded"
  /\ ~blocked /\ pend = <<>>
  /\ op.snap # None => Terminal(op.snap)
  /\ \/ legacy = None /\ UNCHANGED pend
     \/ /\ legacy # None /\ legacyLate
        /\ Issue([by |-> "startDrop", id |-> legacy.id, rev |-> legacy.rev])
  /\ op' = [op EXCEPT !.stage = IF legacy = None THEN "start" ELSE "dropping"]
  /\ UNCHANGED <<file, blocked, attempt, chain, mode, lastId, world>>

StartActive ==
  /\ op # None /\ op.stage = "start"
  /\ ~blocked /\ lastId < MaxId
  /\ lastId' = lastId + 1
  /\ Issue([by |-> "op", draft |-> NewRun(lastId + 1), expect |-> 0])
  /\ op' = [op EXCEPT !.stage = "saving"]
  /\ UNCHANGED <<file, blocked, attempt, chain, mode, world>>

Anchor ==
  /\ Loaded /\ op.snap # None /\ op.snap.rev < MaxRev
  /\ Save("attach", [op.snap EXCEPT !.anchored = TRUE])
  /\ UNCHANGED <<file, blocked, attempt, chain, mode, lastId, world>>

(* The handler that had a cancel accepted aborts the worker afterwards. *)
RouteMessage ==
  \E kind \in Kind, src \in Sources, q \in 0 .. MaxRev + 2 :
    /\ Loaded /\ op.snap # None /\ op.snap.rev < MaxRev
    /\ kind # "answer" => q = 0
    /\ Routable(op.snap, kind, src, q, late # "no")
    /\ Save("route", Routed(op.snap, kind, src))
    /\ UNCHANGED <<file, blocked, attempt, chain, mode, lastId, world>>

AbortWorker ==
  /\ attempt # None /\ ~attempt.aborted
  /\ active # None /\ active.id = attempt.run /\ active.status = "cancelled"
  /\ attempt' = [attempt EXCEPT !.aborted = TRUE]
  /\ UNCHANGED <<file, blocked, op, pend, chain, mode, lastId, world>>

ExpireWaiting ==
  /\ Loaded /\ op.snap # None
  /\ QuestionExpired(op.snap, late # "no")
  /\ Save("expire", Closed(op.snap, "failed"))
  /\ UNCHANGED <<file, blocked, attempt, chain, mode, lastId, world>>

(* A run whose anchor could not be sent, or whose turn was superseded. *)
FailUnlaunched ==
  /\ Loaded /\ op.snap # None /\ ~Terminal(op.snap)
  /\ attempt = None /\ op.snap.status = "queued" /\ op.snap.ckpt = None
  /\ Save("failExternally", FailedRun(op.snap))
  /\ UNCHANGED <<file, blocked, attempt, chain, mode, lastId, world>>

(* At boot, and on WhatsApp at every reconnect; a recovery that is under way *)
(* goes on when the process stops.                                          *)
Recovering == mode = "boot" \/ "reconnect" \in Env

Recover ==
  /\ Loaded /\ Recovering /\ op.snap # None
  /\ IF late = "run" /\ ~Terminal(op.snap)
       THEN /\ ~blocked
            /\ Issue([by |-> "drop", id |-> op.snap.id, rev |-> op.snap.rev])
            /\ op' = None
       ELSE /\ NeedsRecovery(op.snap, late # "no")
            /\ Save("recover", Recovered(op.snap, late # "no"))
  /\ UNCHANGED <<file, blocked, attempt, chain, mode, lastId, world>>

(* Startup recovery has visited every record; workers may be launched. *)
Booted ==
  /\ mode = "boot" /\ op = None /\ pend = <<>>
  /\ active # None => ~NeedsRecovery(active, late # "no")
  /\ mode' = "up"
  /\ UNCHANGED <<file, blocked, op, pend, attempt, chain, lastId, world>>

-----------------------------------------------------------------------------
(* The worker: executeActiveAgentWork over the harness. *)

EmptyCkpt == [seen |-> {}, ask |-> None]

(* What beginActiveAttempt returns, with the checkpoint the harness builds  *)
(* from it; snap is the record before the save.                             *)
(* Mutant: a first attempt is handed the record's checkpoint as it is. *)
AttemptUnseeded(snap) ==
  [run |-> snap.id, inRev |-> snap.instr, answer |-> snap.answer, stage |-> "begun",
   aborted |-> FALSE, ckpt |-> snap.ckpt]

AttemptOn(snap) ==
  LET r == Begun(snap) IN
    [run |-> r.id, inRev |-> r.instr, answer |-> r.answer, stage |-> "begun",
     aborted |-> mode = "stopping",
     ckpt |-> IF r.ckpt # None THEN r.ckpt
              ELSE [EmptyCkpt EXCEPT !.seen = SourcesOf(Pending(snap))]]

FailingOn(snap) == [AttemptOn(snap) EXCEPT !.stage = "failing"]

(* Workers are launched for queued records only. *)
BeginAttempt ==
  /\ Loaded /\ attempt = None /\ mode = "up" /\ op.snap # None /\ op.snap.rev < MaxRev
  /\ CanBegin(op.snap) /\ op.snap.status = "queued"
  /\ \/ /\ Save("begin", Begun(op.snap))
        /\ UNCHANGED attempt
     \/ /\ blocked \/ ~Savable(op.snap, Begun(op.snap))
        /\ attempt' = FailingOn(op.snap)
        /\ op' = None
        /\ UNCHANGED pend
  /\ UNCHANGED <<file, blocked, chain, mode, lastId, world>>

(* isActiveAttemptCurrent, read outside the active queue. *)
Current ==
  /\ ~blocked /\ active # None /\ active.id = attempt.run
  /\ Fresh(active, attempt.inRev)

(* The record an operation of the worker finds. *)
Reached == ~blocked /\ Found(attempt.run)
Open == Reached /\ ~Terminal(op.snap)

Working(stage) == attempt # None /\ attempt.stage = stage
At(stage) == attempt' = [attempt EXCEPT !.stage = stage]

(* The harness checks freshness before it consumes the answer; a prompt     *)
(* without an answer is returned as it is.                                  *)
Resume ==
  /\ Working("begun") /\ pend = <<>> /\ Current /\ ~attempt.aborted
  /\ IF attempt.ckpt.ask = None THEN At("planning")
     ELSE IF attempt.answer = None THEN At("ask")
     ELSE attempt' = [attempt EXCEPT
            !.stage = "planning",
            !.ckpt = [seen |-> @.seen \cup {attempt.answer.src}, ask |-> None]]
  /\ UNCHANGED <<file, blocked, op, pend, chain, mode, lastId, world>>

(* The planner's decision, kept only if the attempt is still current. *)
Decide ==
  /\ Working("planning") /\ pend = <<>> /\ Current /\ ~attempt.aborted
  /\ \/ At("final")
     \/ \E p \in Prompts :
          attempt' = [attempt EXCEPT !.stage = "ask", !.ckpt.ask = p]
     \/ "limits" \in Env /\ (At("stopped") \/ At("approval"))
  /\ UNCHANGED <<file, blocked, op, pend, chain, mode, lastId, world>>

StopWork ==
  /\ Working("begun") \/ Working("planning")
  /\ \/ attempt.aborted /\ At("cancelled")
     \/ ~Current /\ At("stopped")
  /\ UNCHANGED <<file, blocked, op, pend, chain, mode, lastId, world>>

(* Commits whose record is gone, blocked or stale, and drafts the           *)
(* repository refuses.                                                      *)
Draft ==
  IF attempt.stage = "final"
    THEN PreparedFinal(op.snap, attempt.inRev, attempt.ckpt)
    ELSE PreparedQuestion(op.snap, attempt.inRev, attempt.ckpt)

Prepare ==
  /\ Loaded /\ (Working("final") \/ Working("ask"))
  /\ Reached /\ Fresh(op.snap, attempt.inRev)
  /\ Save("prepare", Draft)
  /\ UNCHANGED <<file, blocked, attempt, chain, mode, lastId, world>>

CommitRefused ==
  /\ Loaded /\ (Working("final") \/ Working("ask"))
  /\ \/ ~Reached /\ At("failing")
     \/ Reached /\ ~Fresh(op.snap, attempt.inRev) /\ At("stale")
     \/ /\ Reached /\ Fresh(op.snap, attempt.inRev) /\ ~Savable(op.snap, Draft)
        /\ At("failing")
  /\ op' = None
  /\ UNCHANGED <<file, blocked, pend, chain, mode, lastId, world>>

(* The scope is checked once more before deliver() is called; deliver()     *)
(* first waits for reserved ingress and then sends without another check.   *)
CallDeliver ==
  /\ op # None /\ op.stage = "deliver"
  /\ op' = [op EXCEPT !.stage = IF blocked THEN "unknown" ELSE "sending"]
  /\ UNCHANGED <<file, blocked, pend, attempt, chain, mode, lastId, world>>

(* The transport may lose, accept, or accept and then report an error. *)
Outgoing(snap) ==
  [run |-> snap.id, effect |-> snap.effect.id, purpose |-> snap.effect.purpose,
   instr |-> snap.effect.instr, seen |-> snap.ckpt.seen]

Deliver ==
  /\ op # None /\ op.stage = "sending"
  /\ \/ sent' = sent \cup {Outgoing(op.snap)}
        /\ (op' = [op EXCEPT !.stage = "sent"] \/ op' = [op EXCEPT !.stage = "unknown"])
     \/ op' = [op EXCEPT !.stage = "unknown"] /\ UNCHANGED sent
  /\ UNCHANGED <<file, blocked, pend, attempt, chain, mode, lastId, erased>>

Committed(r) ==
  IF r.effect.purpose = "final" THEN CommittedFinal(r) ELSE CommittedQuestion(r)

FinishCommit ==
  /\ op # None /\ op.stage = "sent"
  /\ \/ Save("finish", Committed(op.snap))
     \/ /\ blocked \/ ~Savable(op.snap, Committed(op.snap))
        /\ op' = [op EXCEPT !.stage = "unknown"]
        /\ UNCHANGED pend
  /\ UNCHANGED <<file, blocked, attempt, chain, mode, lastId, world>>

PersistUnknown ==
  /\ op # None /\ op.stage = "unknown"
  /\ \/ Save("unknown", UnknownDelivery(op.snap)) /\ UNCHANGED attempt
     \/ blocked /\ op' = None /\ At("failing") /\ UNCHANGED pend
  /\ UNCHANGED <<file, blocked, chain, mode, lastId, world>>

(* settleActiveStopped; an aborted attempt is paused. *)
PauseWanted == attempt.stage = "cancelled" \/ (mode = "stopping" /\ attempt.aborted)
SettledDraft == Settled(op.snap, attempt.inRev, attempt.ckpt, PauseWanted)

Settle ==
  /\ Loaded /\ (Working("cancelled") \/ Working("stopped"))
  /\ Open
  /\ Save("settle", SettledDraft)
  /\ UNCHANGED <<file, blocked, attempt, chain, mode, lastId, world>>

SettleRefused ==
  /\ Loaded /\ (Working("cancelled") \/ Working("stopped"))
  /\ \/ ~Reached /\ At("failing")
     \/ Reached /\ Terminal(op.snap) /\ attempt' = None
     \/ Open /\ ~Savable(op.snap, SettledDraft) /\ At("failing")
  /\ op' = None
  /\ UNCHANGED <<file, blocked, pend, chain, mode, lastId, world>>

Requeue ==
  /\ Loaded /\ Working("stale")
  /\ Open
  /\ Save("requeue", Requeued(op.snap, attempt.inRev, attempt.ckpt))
  /\ UNCHANGED <<file, blocked, attempt, chain, mode, lastId, world>>

RequeueRefused ==
  /\ Loaded /\ Working("stale")
  /\ \/ ~Open
     \/ Open /\ ~Savable(op.snap, Requeued(op.snap, attempt.inRev, attempt.ckpt))
  /\ At("failing")
  /\ op' = None
  /\ UNCHANGED <<file, blocked, pend, chain, mode, lastId, world>>

(* failActive, after an approval request or an error of the work lane. *)
FailActive ==
  /\ Loaded /\ (Working("approval") \/ Working("failing"))
  /\ Open
  /\ Save("fail", FailedRun(op.snap))
  /\ UNCHANGED <<file, blocked, attempt, chain, mode, lastId, world>>

FailRefused ==
  /\ Loaded /\ (Working("approval") \/ Working("failing"))
  /\ ~Open
  /\ IF attempt.stage = "approval" /\ ~Reached
       THEN At("failing") ELSE attempt' = None
  /\ op' = None
  /\ UNCHANGED <<file, blocked, pend, chain, mode, lastId, world>>

(* After a commit the anchor, the history and the usage are updated; a      *)
(* failure there reaches the work lane's catch.                             *)
Leave ==
  /\ Working("after")
  /\ attempt' = None \/ ("surface" \in Env /\ At("failing"))
  /\ UNCHANGED <<file, blocked, op, pend, chain, mode, lastId, world>>

-----------------------------------------------------------------------------
(* The file: the oldest write executes, or fails and changes nothing. *)

Live == active # None /\ ~Terminal(active)
First == Head(pend)
Executes(by) == pend # <<>> /\ First.by = by /\ pend' = Tail(pend)

(* Mutant: the save recreates a record that is gone. *)
SaveUpserts(req) ==
  legacy = None /\ (active # None => active.id = req.draft.id /\ active.rev = req.expect)

SaveApplies(req) ==
  /\ legacy = None
  /\ IF req.expect = 0 THEN ~Live
     ELSE active # None /\ active.id = req.draft.id /\ active.rev = req.expect

LatenessAfter(req) ==
  IF req.expect = 0 \/ Renews(active, req.draft) THEN "no"
  ELSE IF late = "question" /\ req.draft.question # active.question THEN "no"
  ELSE late

Write(req) ==
  /\ SaveApplies(req)
  /\ active' = [req.draft EXCEPT !.rev = req.expect + 1]
  /\ late' = LatenessAfter(req)
  /\ UNCHANGED <<legacy, legacyLate>>

KeepFile(req) ==
  /\ ~SaveApplies(req) \/ "io" \in Env
  /\ UNCHANGED file

(* How the operation goes on once its save resolved or threw. *)
Saved ==
  CASE op.kind = "begin" ->
         attempt' = AttemptOn(op.snap) /\ op' = None
    [] op.kind = "prepare" ->
         op' = [op EXCEPT !.stage = "deliver", !.snap = active'] /\ UNCHANGED attempt
    [] op.kind = "finish" -> At("after") /\ op' = None
    [] op.kind = "unknown" -> At("failing") /\ op' = None
    [] op.kind = "requeue" ->
         /\ IF active'.status = "queued" THEN attempt' = None ELSE At("failing")
         /\ op' = None
    [] op.kind \in {"settle", "fail"} -> attempt' = None /\ op' = None
    [] OTHER -> op' = None /\ UNCHANGED attempt

Threw ==
  CASE op.kind = "begin" -> attempt' = FailingOn(op.snap) /\ op' = None
    [] op.kind = "finish" -> op' = [op EXCEPT !.stage = "unknown"] /\ UNCHANGED attempt
    [] op.kind \in {"prepare", "unknown", "requeue", "settle"} -> At("failing") /\ op' = None
    [] op.kind = "fail" ->
         /\ IF attempt.stage = "approval" THEN At("failing") ELSE attempt' = None
         /\ op' = None
    [] OTHER -> op' = None /\ UNCHANGED attempt

ChainAfter(kind) ==
  chain' = IF kind = "start" THEN [chain EXCEPT !.stage = "idle"] ELSE chain

ExecuteSave ==
  /\ Executes("op")
  /\ \/ Write(First) /\ (IF blocked THEN Threw ELSE Saved)
     \/ KeepFile(First) /\ Threw
  /\ ChainAfter(op.kind)
  /\ UNCHANGED <<blocked, mode, lastId, world>>

(* startActive's removal of an expired checkpoint. *)
ExecuteStartDrop ==
  /\ Executes("startDrop")
  /\ LET hit == legacy # None /\ legacy = [id |-> First.id, rev |-> First.rev]
         ok == (hit \/ legacy = None) /\ ~blocked
     IN /\ legacy' = IF hit THEN None ELSE legacy
        /\ legacyLate' = (legacyLate /\ ~hit)
        /\ op' = IF ok THEN [op EXCEPT !.stage = "start"] ELSE None
        /\ chain' = IF ok THEN chain ELSE [chain EXCEPT !.stage = "idle"]
  /\ UNCHANGED <<active, late, blocked, attempt, mode, lastId, world>>

(* Mutant: the removal is bound to the run and not to its revision. *)
DropHitsAnyRevision(req) == active # None /\ active.id = req.id

DropHits(req) == active # None /\ active.id = req.id /\ active.rev = req.rev

(* removeActive and remove, by id and revision. *)
ExecuteDrop ==
  \/ /\ Executes("drop")
     /\ IF DropHits(First)
          THEN active' = None /\ late' = "no"
          ELSE UNCHANGED <<active, late>>
     /\ UNCHANGED <<legacy, legacyLate, blocked, op, attempt, chain, mode, lastId, world>>
  \/ /\ Executes("dropLegacy")
     /\ IF legacy # None /\ legacy.id = First.id /\ legacy.rev = First.rev
          THEN legacy' = None /\ legacyLate' = FALSE
          ELSE UNCHANGED <<legacy, legacyLate>>
     /\ UNCHANGED <<active, late, blocked, op, attempt, chain, mode, lastId, world>>

ExecutePurge ==
  /\ Executes("purge")
  /\ IF late = "run" THEN active' = None /\ late' = "no" ELSE UNCHANGED <<active, late>>
  /\ IF legacyLate THEN legacy' = None /\ legacyLate' = FALSE
     ELSE UNCHANGED <<legacy, legacyLate>>
  /\ UNCHANGED <<blocked, op, attempt, chain, mode, lastId, world>>

(* loadActive finds the record past its horizon and removes what it read;   *)
(* the holder of the active queue may issue a save in between.              *)
DropExpired ==
  /\ ~blocked /\ active # None /\ late = "run"
  /\ Issue([by |-> "drop", id |-> active.id, rev |-> active.rev])
  /\ UNCHANGED <<file, blocked, op, attempt, chain, mode, lastId, world>>

(* removeExpired, by the retention worker. *)
Purge ==
  /\ late = "run" \/ legacyLate
  /\ Issue([by |-> "purge"])
  /\ UNCHANGED <<file, blocked, op, attempt, chain, mode, lastId, world>>

-----------------------------------------------------------------------------
(* The version 1 checkpoint of a chat that asks for a clarification. *)

ChatIdle == "chat" \in Env /\ chain.stage = "idle" /\ mode = "up"

ChatRestore ==
  /\ ChatIdle /\ chain.known = None /\ ~blocked /\ pend = <<>> /\ legacy # None
  /\ \/ /\ legacyLate
        /\ Issue([by |-> "dropLegacy", id |-> legacy.id, rev |-> legacy.rev])
        /\ UNCHANGED chain
     \/ /\ ~legacyLate
        /\ chain' = [chain EXCEPT !.known = legacy]
        /\ UNCHANGED pend
  /\ UNCHANGED <<file, blocked, op, attempt, mode, lastId, world>>

(* saveWaitingInput: a first prompt, or the next one of a claimed run. *)
ChatAsks ==
  /\ ChatIdle /\ ~blocked
  /\ \/ /\ chain.known = None /\ lastId < MaxId
        /\ lastId' = lastId + 1
        /\ Issue([by |-> "chat", id |-> lastId + 1, expect |-> 0])
     \/ /\ chain.known # None /\ chain.known.rev < MaxRev
        /\ Issue([by |-> "chat", id |-> chain.known.id, expect |-> chain.known.rev])
        /\ UNCHANGED lastId
  /\ chain' = [chain EXCEPT !.stage = "saving"]
  /\ UNCHANGED <<file, blocked, op, attempt, mode, world>>

(* claimWaitingInput: the right to resume is taken by CAS. *)
ChatClaims ==
  /\ ChatIdle /\ ~blocked /\ pend = <<>>
  /\ chain.known # None /\ chain.known.rev < MaxRev
  /\ \/ /\ legacy = chain.known /\ ~legacyLate
        /\ Issue([by |-> "claim", id |-> chain.known.id, expect |-> chain.known.rev])
        /\ chain' = [chain EXCEPT !.stage = "claiming"]
     \/ /\ legacy # chain.known
        /\ chain' = Idle
        /\ UNCHANGED pend
     \/ /\ legacy = chain.known /\ legacyLate
        /\ Issue([by |-> "dropLegacy", id |-> legacy.id, rev |-> legacy.rev])
        /\ chain' = Idle
  /\ UNCHANGED <<file, blocked, op, attempt, mode, lastId, world>>

ChatClears ==
  /\ ChatIdle
  /\ \/ /\ chain.known # None
        /\ Issue([by |-> "dropLegacy", id |-> chain.known.id, rev |-> chain.known.rev])
     \/ Issue([by |-> "clear"])
  /\ chain' = Idle
  /\ UNCHANGED <<file, blocked, op, attempt, mode, lastId, world>>

ExecuteClear ==
  /\ Executes("clear")
  /\ legacy' = None /\ legacyLate' = FALSE
  /\ UNCHANGED <<active, late, blocked, op, attempt, chain, mode, lastId, world>>

LegacySaveApplies(req) ==
  /\ ~Live
  /\ IF req.expect = 0 THEN legacy = None
     ELSE legacy = [id |-> req.id, rev |-> req.expect]

(* Mutant: the terminal record stays beside a first checkpoint. *)
RecordStays(req) == active

(* A first checkpoint replaces the terminal record of the scope. *)
RecordBeside(req) == IF req.expect = 0 THEN None ELSE active

ExecuteChatSave ==
  \E by \in {"chat", "claim"} :
    /\ Executes(by)
    /\ \/ /\ LegacySaveApplies(First)
          /\ legacy' = [id |-> First.id, rev |-> First.expect + 1]
          /\ legacyLate' = IF by = "chat" THEN FALSE ELSE legacyLate
          /\ active' = RecordBeside(First)
          /\ late' = IF First.expect = 0 THEN "no" ELSE late
          /\ chain' = IF blocked THEN [Idle EXCEPT !.stage = "abandon"]
                      ELSE [stage |-> "idle", known |-> legacy']
       \/ /\ ~LegacySaveApplies(First) \/ "io" \in Env
          /\ UNCHANGED file
          /\ chain' = IF by = "chat" THEN [Idle EXCEPT !.stage = "abandon"] ELSE Idle
    /\ UNCHANGED <<blocked, op, attempt, mode, lastId, world>>

-----------------------------------------------------------------------------
(* Erasure: forget and discardContextData block the scope, then remove.     *)

Erase(why) ==
  /\ Issue([by |-> "erase", why |-> why, was |-> blocked])
  /\ blocked' = TRUE
  /\ chain' = [Idle EXCEPT !.stage = "erasing"]
  /\ UNCHANGED <<file, op, mode, lastId, world>>

(* abandonAgentRunAfterDelivery: the prompt left, its checkpoint did not    *)
(* reach the file.                                                          *)
ChatAbandons == chain.stage = "abandon" /\ Erase("abandon") /\ UNCHANGED attempt

(* Consent withdrawn, or full deletion: the worker is aborted, and the      *)
(* scope blocked once the profile or the tombstone is stored.               *)
Withdraw ==
  /\ "erase" \in Env /\ chain.stage = "idle"
  /\ attempt' = IF attempt = None THEN None ELSE [attempt EXCEPT !.aborted = TRUE]
  /\ chain' = [chain EXCEPT !.stage = "withdrawing"]
  /\ UNCHANGED <<file, blocked, op, pend, mode, lastId, world>>

Forget == chain.stage = "withdrawing" /\ Erase("forget") /\ UNCHANGED attempt

(* Consent given again. *)
Accept ==
  "erase" \in Env /\ chain.stage = "idle" /\ blocked /\ Erase("accept") /\ UNCHANGED attempt

(* A memory is edited or deleted: the run is cancelled and its worker has   *)
(* returned before the record goes.                                         *)
Discard ==
  /\ "erase" \in Env /\ chain.stage = "idle"
  /\ attempt = None /\ ~Live
  /\ Erase("discard") /\ UNCHANGED attempt

Ids == {r.id : r \in {x \in {active, legacy} : x # None}}

ExecuteErase ==
  /\ Executes("erase")
  /\ \/ /\ active' = None /\ late' = "no" /\ legacy' = None /\ legacyLate' = FALSE
        /\ erased' = erased \cup Ids
        /\ blocked' = (First.why = "forget" \/ (First.why = "discard" /\ First.was))
     \/ "io" \in Env /\ UNCHANGED <<file, erased, blocked>>
  /\ chain' = Idle
  /\ UNCHANGED <<op, attempt, mode, lastId, sent>>

-----------------------------------------------------------------------------
(* Time and the process. *)

QuestionLapses ==
  /\ "time" \in Env /\ late = "no" /\ active # None /\ active.question # None
  /\ late' = "question"
  /\ UNCHANGED <<active, legacy, legacyLate, blocked, op, pend, attempt, chain, mode, lastId, world>>

HorizonPasses ==
  /\ "time" \in Env /\ late # "run" /\ active # None
  /\ late' = "run"
  /\ UNCHANGED <<active, legacy, legacyLate, blocked, op, pend, attempt, chain, mode, lastId, world>>

LegacyLapses ==
  /\ "time" \in Env /\ legacy # None /\ ~legacyLate
  /\ legacyLate' = TRUE
  /\ UNCHANGED <<active, late, legacy, blocked, op, pend, attempt, chain, mode, lastId, world>>

Shutdown ==
  /\ "stop" \in Env /\ mode = "up"
  /\ mode' = "stopping"
  /\ attempt' = IF attempt = None THEN None ELSE [attempt EXCEPT !.aborted = TRUE]
  /\ UNCHANGED <<file, blocked, op, pend, chain, lastId, world>>

(* Memory is lost and issued writes with it; the file stays as the last     *)
(* rename left it.                                                          *)
Restart ==
  /\ "crash" \in Env \/ (mode = "stopping" /\ attempt = None /\ op = None)
  /\ blocked' = FALSE /\ op' = None /\ pend' = <<>> /\ attempt' = None
  /\ chain' = Idle /\ mode' = "boot"
  /\ UNCHANGED <<file, lastId, world>>

Service == Enter \/ Return \/ EnterStart \/ StartMeetsLegacy \/ StartActive \/ Anchor
           \/ RouteMessage \/ ExpireWaiting \/ FailUnlaunched \/ Recover \/ Booted
Worker == BeginAttempt \/ Resume \/ Decide \/ StopWork \/ Prepare \/ CommitRefused
          \/ CallDeliver \/ Deliver \/ FinishCommit \/ PersistUnknown \/ Settle \/ SettleRefused
          \/ Requeue \/ RequeueRefused \/ FailActive \/ FailRefused \/ Leave \/ AbortWorker
File == ExecuteSave \/ ExecuteStartDrop \/ ExecuteDrop \/ ExecutePurge \/ ExecuteClear
        \/ ExecuteChatSave \/ ExecuteErase
Chat == ChatRestore \/ ChatAsks \/ ChatClaims \/ ChatClears \/ ChatAbandons
Rights == Withdraw \/ Forget \/ Accept \/ Discard
Environment == QuestionLapses \/ HorizonPasses \/ LegacyLapses \/ DropExpired \/ Purge
               \/ Shutdown \/ Restart

Next == Service \/ Worker \/ File \/ Chat \/ Rights \/ Environment

Spec == Init /\ [][Next]_vars

-----------------------------------------------------------------------------
(* Properties. *)

(* Every variable keeps its shape: what the file, the active queue, the     *)
(* worker and the chat handler hold is always one of the records they       *)
(* declare, whatever crashes, races or is refused.                          *)
TypeOK ==
  /\ active \in Run \cup {None}
  /\ late \in Lateness
  /\ legacy \in Legacy \cup {None}
  /\ legacyLate \in BOOLEAN
  /\ blocked \in BOOLEAN
  /\ op \in Op \cup {None}
  /\ pend \in Seq(Request)
  /\ attempt \in Attempt \cup {None}
  /\ chain \in Chain
  /\ mode \in Modes
  /\ lastId \in Nat
  /\ sent \subseteq Sent
  /\ erased \subseteq Nat

(* A scope holds a version 1 checkpoint or a version 2 record, never both,  *)
(* although the two are written by services that share no lock: save and    *)
(* saveActive each look at the other's collection.                          *)
NoScopeCollision == active = None \/ legacy = None

(* A run sends at most one final message, and nothing after it: not after a *)
(* failed receipt, a crash, a recovery or a worker that lost its run.       *)
FinalOnce ==
  \A s, t \in sent : s.run = t.run /\ s.purpose = "final" => t.effect <= s.effect

Ledgered(r, s) ==
  \/ r.effect # None /\ r.effect.id = s.effect
  \/ \E c \in r.receipts : c.effect = s.effect

(* As long as the record exists it accounts for every message of its run:   *)
(* as the effect in flight, or as a receipt.  Recovery relies on it.        *)
SentIsLedgered ==
  \A s \in sent : active # None /\ active.id = s.run => Ledgered(active, s)

(* A receipt says `committed` only of a message that did leave.             *)
ReceiptsTruthful ==
  active # None =>
    \A c \in active.receipts : c.status = "committed" =>
      \E s \in sent : s.run = active.id /\ s.effect = c.effect

(* An answer waits in the record only for a question that reached the user: *)
(* a question whose delivery is unknown can never be answered.              *)
AnswerToDelivered ==
  active # None /\ active.answer # None =>
    \E s \in sent : /\ s.run = active.id /\ s.purpose = "question"
                    /\ s.effect = active.answer.question

(* What the owner had deleted stays deleted: no write issued before or      *)
(* after the removal, and no operation holding an old snapshot, brings the  *)
(* run or the checkpoint back.                                              *)
NoResurrection ==
  /\ active # None => active.id \notin erased
  /\ legacy # None => legacy.id \notin erased

ConstraintsOf(r) == {m \in r.mailbox : m.kind = "constraint"}

(* The revision a checkpoint is booked at tells the truth: it carries every *)
(* instruction up to that revision, so that the next rebase loses none.     *)
AppliedIsSeen ==
  active # None /\ ~Terminal(active) /\ active.ckpt # None =>
    \A m \in ConstraintsOf(active) :
      m.rev <= active.applied => m.src \in active.ckpt.seen

Same == active # None /\ active' # None /\ active'.id = active.id

(* Completed, partial, failed and cancelled are final: no late save of a    *)
(* worker, an answer or a recovery changes the outcome or the receipts.     *)
TerminalAbsorbing ==
  [][Same /\ Terminal(active) =>
       active'.status = active.status /\ active'.receipts = active.receipts]_vars

(* The ledger of a live run only grows: an accepted message is not evicted  *)
(* to make room for another.                                                *)
MailboxKept ==
  [][Same /\ ~Terminal(active') => active.mailbox \subseteq active'.mailbox]_vars

(* What leaves for the user is computed from every instruction the run has  *)
(* accepted at that moment; a result of an older revision never leaves.     *)
FreshDelivery ==
  [][\A s \in sent' \ sent : active # None /\ active.id = s.run =>
       /\ active.instr = s.instr
       /\ SourcesOf(ConstraintsOf(active)) \subseteq s.seen]_vars

(* An expiry removes only a record whose horizon has passed; one that was   *)
(* closed and renewed after the reader saw it expired is left alone.        *)
ExpiryTakesExpired ==
  [][active # None /\ active' = None /\ First.by \in {"drop", "purge"} => late = "run"]_vars

(* The record, the queue and the transport implement the abstract barrier.  *)
Delivering ==
  /\ op # None
  /\ \/ op.stage \in {"deliver", "sending", "sent", "unknown"}
     \/ op.stage = "saving" /\ op.kind \in {"finish", "unknown"}

Abstract(r) == [run |-> r.id, effect |-> r.effect.id, purpose |-> r.effect.purpose]

Barrier == INSTANCE CommitBarrier WITH
  None <- None,
  intent <- IF active # None /\ active.effect # None THEN Abstract(active) ELSE None,
  flight <- IF Delivering THEN Abstract(op.snap) ELSE None,
  out <- {[run |-> s.run, effect |-> s.effect, purpose |-> s.purpose] : s \in sent},
  ledger <- IF active # None THEN active.receipts ELSE {}

(* Every run of the service over its file is a run of the abstract barrier. *)
ImplementsBarrier == Barrier!Spec

-----------------------------------------------------------------------------
(* What the documents say and the code does not do; each is checked alone.  *)

(* A message of the mailbox is carried to the planner: what leaves was      *)
(* computed from every accepted answer as well.                             *)
AnswersCarried ==
  [][\A s \in sent' \ sent : active # None /\ active.id = s.run =>
       SourcesOf({m \in active.mailbox : m.kind = "answer"}) \subseteq s.seen]_vars

HeldByWorker == attempt # None /\ active # None /\ active.id = attempt.run

(* With no limit, error or shutdown in the environment a run does not fail  *)
(* in the hands of its worker.                                              *)
WorkDoesNotFail ==
  [][HeldByWorker /\ Live /\ Same => active'.status # "failed"]_vars

(* A shutdown pauses the attempt it cancelled: settling it does not throw   *)
(* the worker into its error path, which fails the run.                     *)
ShutdownPauses ==
  [][mode = "stopping" /\ HeldByWorker /\ Live /\ Working("cancelled") =>
       (attempt' # None => attempt'.stage # "failing")]_vars

(* No message of a run leaves after the owner had the run deleted.          *)
NoDeliveryAfterErasure == [][\A s \in sent' \ sent : s.run \notin erased]_vars
=============================================================================
