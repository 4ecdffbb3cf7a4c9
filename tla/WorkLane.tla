-------------------------------- MODULE WorkLane --------------------------------
(***************************************************************************)
(* The work lane of one owner: who runs the worker of an active AgentRun,   *)
(* and how chat, quoted replies, memory changes and shutdown meet it.       *)
(*                                                                         *)
(* `work` is the entry of activeAgentWork (a worker promise with its abort  *)
(* controller), `wakeups` the finally blocks that have deleted their entry  *)
(* and are still loading the run.  `turn` is the handler on the owner's     *)
(* message chain, `admission` the quoted reply on the owner's ingress chain;*)
(* each chain runs one handler at a time.  `reserved` is the pending map of *)
(* ActiveRunIngressBarrier.                                                *)
(*                                                                         *)
(* A save is one atomic step here, and so is every operation of the active  *)
(* queue except a commit, which holds the queue while its delivery waits;   *)
(* AgentRun opens those steps up and lets them fail.                        *)
(***************************************************************************)
EXTENDS ActiveRun

CONSTANTS
  MaxPasses, \* revision passes of one worker (8 in the code)
  MaxRuns,   \* bound on the runs the owner starts
  Env        \* the parts of the environment that are switched on

ASSUME LaneAssumption == MaxPasses \in Nat \ {0} /\ MaxRuns \in Nat

VARIABLES
  run,       \* the version 2 record, or None
  work,      \* the worker in activeAgentWork, or None
  wakeups,   \* runs whose worker left and whose record is being reloaded
  admission, \* the quoted reply being admitted
  turn,      \* the handler on the owner's chain
  reserved,  \* runs with a pending reservation
  inbox,     \* messages the owner may still send
  lastRun,   \* number of runs started
  mode       \* the process: up, draining its chains, stopping its work, down

lane == <<admission, turn, reserved, inbox>>
vars == <<run, work, wakeups, lane, lastRun, mode>>

WorkStage == {"begin", "plan", "gate", "commit", "barrier", "surface", "stale", "settle", "fail", "exit"}
Outcome == {"none", "final", "ask", "stopped", "cancelled", "approval"}
TurnStage == {"idle", "control", "cancel", "mailbox", "route", "wake", "start", "anchor",
              "launch", "unlaunched", "discard", "withdraw", "await", "erase", "done"}
Work == [run : Nat, stage : WorkStage, pass : 0 .. MaxPasses - 1, inRev : Nat,
         ckpt : Checkpoint, answer : Answer \cup {None}, outcome : Outcome, aborted : BOOLEAN]
Turn == [stage : TurnStage, bound : BOOLEAN, run : Nat, kind : Kind, question : Nat,
         src : Sources \cup {None}]
Admission == [stage : {"idle", "expiring", "loading", "queued", "handled"}, run : Nat,
              src : Sources \cup {None}]

ASSUME NoWorkerIsNone == None \notin Work

NoTurn == [stage |-> "idle", bound |-> FALSE, run |-> 0, kind |-> "constraint",
           question |-> 0, src |-> None]
NoAdmission == [stage |-> "idle", run |-> 0, src |-> None]

Init ==
  /\ run = None /\ work = None /\ wakeups = {}
  /\ admission = NoAdmission /\ turn = NoTurn /\ reserved = {}
  /\ inbox = Sources /\ lastRun = 0 /\ mode = "up"

-----------------------------------------------------------------------------
(* Shared by the handlers and the worker. *)

Is(id) == run # None /\ run.id = id
Live(r) == r # None /\ ~Terminal(r)
Working(stage) == work # None /\ work.stage = stage

(* A commit is the only operation that waits while it holds the queue. *)
QueueFree == ~Working("barrier")

Put(n) == run' = [n EXCEPT !.rev = @ + 1]

(* Mutant: the guard against launching during shutdown is lost. *)
LaunchWhenStopping(id) ==
  work' = IF work # None THEN work
          ELSE [run |-> id, stage |-> "begin", pass |-> 0, inRev |-> 0,
                ckpt |-> [seen |-> {}, ask |-> None], answer |-> None,
                outcome |-> "none", aborted |-> FALSE]

(* launchActiveAgentWork: refused while any worker of the owner is there. *)
Launch(id) ==
  work' = IF mode \in {"stopping", "down"} \/ work # None THEN work
          ELSE [run |-> id, stage |-> "begin", pass |-> 0, inRev |-> 0,
                ckpt |-> [seen |-> {}, ask |-> None], answer |-> None,
                outcome |-> "none", aborted |-> FALSE]

(* Mutant: a cancel is stored and the worker goes on. *)
WorksOn(id) == work

Aborted(id) ==
  IF work # None /\ work.run = id THEN [work EXCEPT !.aborted = TRUE] ELSE work

(* Mutant: a reservation is not waited for. *)
IngressIgnored(id) == TRUE

IngressIdle(id) == id \notin reserved

(* activeRunForIngress: a question past its deadline is closed on the way.  *)
ReadRun ==
  /\ QueueFree
  /\ \/ UNCHANGED run
     \/ /\ run # None /\ run.status = "waiting_input"
        /\ Put(Closed(run, "failed"))

-----------------------------------------------------------------------------
(* Ingress of a reply that quotes the Run Anchor. *)

Admit ==
  /\ "quotes" \in Env /\ mode = "up" /\ admission.stage = "idle"
  /\ \E s \in inbox : /\ admission' = [stage |-> "expiring", run |-> 0, src |-> s]
                      /\ inbox' = inbox \ {s}
  /\ UNCHANGED <<run, work, wakeups, turn, reserved, lastRun, mode>>

Hold(r) ==
  IF r.anchored
    THEN /\ admission' = [admission EXCEPT !.stage = "queued", !.run = r.id]
         /\ reserved' = reserved \cup {r.id}
    ELSE admission' = NoAdmission /\ UNCHANGED reserved

(* A question that expires on the way still identifies the quoted run.     *)
AdmitReads ==
  /\ admission.stage = "expiring" /\ ReadRun
  /\ IF run' # run THEN Hold(run')
     ELSE admission' = [admission EXCEPT !.stage = "loading"] /\ UNCHANGED reserved
  /\ UNCHANGED <<work, wakeups, turn, inbox, lastRun, mode>>

(* The run is loaded and the barrier reserved without the active queue,     *)
(* whatever a worker began meanwhile.  A quote of nothing current is left   *)
(* to the chain as an ordinary message.                                     *)
Reserve ==
  /\ admission.stage = "loading"
  /\ IF Live(run) THEN Hold(run) ELSE admission' = NoAdmission /\ UNCHANGED reserved
  /\ UNCHANGED <<run, work, wakeups, turn, inbox, lastRun, mode>>

BoundTurn ==
  /\ admission.stage = "queued" /\ turn.stage = "idle"
  /\ turn' = [NoTurn EXCEPT !.stage = "control", !.bound = TRUE, !.src = admission.src]
  /\ admission' = [admission EXCEPT !.stage = "handled"]
  /\ UNCHANGED <<run, work, wakeups, reserved, inbox, lastRun, mode>>

Ingress == AdmitReads \/ Reserve \/ BoundTurn

-----------------------------------------------------------------------------
(* Handlers on the owner's chain. *)

To(stage) == turn' = [turn EXCEPT !.stage = stage]

(* A chat message, or a callback that changes memories. *)
StartTurn ==
  /\ mode = "up" /\ turn.stage = "idle" /\ admission.stage # "queued"
  /\ \E s \in inbox, stage \in {"control", "discard"} :
       /\ turn' = [NoTurn EXCEPT !.stage = stage, !.src = s]
       /\ inbox' = inbox \ {s}
  /\ UNCHANGED <<run, work, wakeups, admission, reserved, lastRun, mode>>

(* handleLocalActiveRunControl recognises a cancel, or answers a status     *)
(* query, or lets the message pass.                                         *)
Control ==
  /\ turn.stage = "control" /\ ReadRun
  /\ \/ Live(run') /\ turn' = [turn EXCEPT !.stage = "cancel", !.run = run'.id]
     \/ To("done")
     \/ To("mailbox")
  /\ UNCHANGED <<work, wakeups, admission, reserved, inbox, lastRun, mode>>

Cancelling ==
  /\ turn.stage = "cancel" /\ QueueFree
  /\ IF Is(turn.run) /\ Routable(run, "cancel", turn.src, 0, FALSE)
       THEN Put(Routed(run, "cancel", turn.src)) /\ work' = Aborted(turn.run) /\ To("done")
       ELSE UNCHANGED <<run, work>> /\ To("mailbox")
  /\ UNCHANGED <<wakeups, admission, reserved, inbox, lastRun, mode>>

(* handleActiveRunMailboxAfterSafety, and what a message that is not for    *)
(* the run may go on to: chat, a memory change, a new run.                  *)
Mailbox ==
  /\ turn.stage = "mailbox" /\ ReadRun
  /\ \/ /\ Live(run')
        /\ \E kind \in {"constraint", "answer"} :
             /\ kind = "answer" => run'.status = "waiting_input"
             /\ turn' = [turn EXCEPT !.stage = "route", !.run = run'.id, !.kind = kind,
                           !.question = IF run'.question = None THEN 0 ELSE run'.question.id]
     \/ To("done")
     \/ To("discard")
     \/ ~Live(run') /\ lastRun < MaxRuns /\ To("start")
  /\ UNCHANGED <<work, wakeups, admission, reserved, inbox, lastRun, mode>>

Route ==
  /\ turn.stage = "route" /\ QueueFree
  /\ IF Is(turn.run) /\ Routable(run, turn.kind, turn.src, turn.question, FALSE)
       THEN /\ Put(Routed(run, turn.kind, turn.src))
            /\ To(IF run'.status = "queued" THEN "wake" ELSE "done")
       ELSE UNCHANGED run /\ To("done")
  /\ UNCHANGED <<work, wakeups, admission, reserved, inbox, lastRun, mode>>

(* The update is acknowledged and the anchor refreshed first.  A turn that  *)
(* was superseded, or whose acknowledgement fails, ends before the launch.  *)
WakeWorker ==
  /\ turn.stage = "wake" /\ To("done")
  /\ Launch(turn.run) \/ UNCHANGED work
  /\ UNCHANGED <<run, wakeups, admission, reserved, inbox, lastRun, mode>>

Start ==
  /\ turn.stage = "start" /\ QueueFree
  /\ IF Live(run) THEN UNCHANGED <<run, lastRun>> /\ To("done")
     ELSE /\ lastRun' = lastRun + 1
          /\ Put(NewRun(lastRun'))
          /\ turn' = [turn EXCEPT !.stage = "anchor", !.run = lastRun']
  /\ UNCHANGED <<work, wakeups, admission, reserved, inbox, mode>>

(* The anchor is sent and attached, or it cannot be. *)
Anchor ==
  /\ turn.stage = "anchor"
  /\ \/ UNCHANGED run /\ To("unlaunched")
     \/ /\ QueueFree /\ Is(turn.run)
        /\ Put([run EXCEPT !.anchored = TRUE]) /\ To("launch")
  /\ UNCHANGED <<work, wakeups, admission, reserved, inbox, lastRun, mode>>

(* A turn superseded by a newer message leaves its run without a worker.    *)
LaunchWork ==
  /\ turn.stage = "launch"
  /\ \/ Launch(turn.run) /\ To("done")
     \/ ~turn.bound /\ To("unlaunched") /\ UNCHANGED work
  /\ UNCHANGED <<run, wakeups, admission, reserved, inbox, lastRun, mode>>

FailUnlaunched ==
  /\ turn.stage = "unlaunched" /\ QueueFree
  /\ IF Is(turn.run) /\ Live(run) THEN Put(FailedRun(run)) ELSE UNCHANGED run
  /\ To("done")
  /\ UNCHANGED <<work, wakeups, admission, reserved, inbox, lastRun, mode>>

(* discardAgentRunForMemoryChange cancels a live run, waits for the promise *)
(* of its worker, finally block included, and removes the record.           *)
DiscardReads ==
  /\ turn.stage = "discard"
  /\ IF Live(run) THEN turn' = [turn EXCEPT !.stage = "withdraw", !.run = run.id]
     ELSE To("erase")
  /\ UNCHANGED <<run, work, wakeups, admission, reserved, inbox, lastRun, mode>>

DiscardCancels ==
  /\ turn.stage = "withdraw" /\ QueueFree
  /\ IF Is(turn.run) /\ Routable(run, "cancel", turn.src, 0, FALSE)
       THEN Put(Routed(run, "cancel", turn.src)) ELSE UNCHANGED run
  /\ work' = Aborted(turn.run)
  /\ To(IF work # None /\ work.run = turn.run THEN "await" ELSE "erase")
  /\ UNCHANGED <<wakeups, admission, reserved, inbox, lastRun, mode>>

WorkGone(id) == (work # None => work.run # id) /\ id \notin wakeups

DiscardWaits ==
  /\ turn.stage = "await" /\ WorkGone(turn.run) /\ To("erase")
  /\ UNCHANGED <<run, work, wakeups, admission, reserved, inbox, lastRun, mode>>

DiscardErases ==
  /\ turn.stage = "erase" /\ run' = None /\ To("done")
  /\ UNCHANGED <<work, wakeups, admission, reserved, inbox, lastRun, mode>>

(* The finally of processBoundActiveRunIngress releases the reservation.    *)
EndTurn ==
  /\ turn.stage = "done" /\ turn' = NoTurn
  /\ IF turn.bound
       THEN reserved' = reserved \ {admission.run} /\ admission' = NoAdmission
       ELSE UNCHANGED <<reserved, admission>>
  /\ UNCHANGED <<run, work, wakeups, inbox, lastRun, mode>>

Handler == Control \/ Cancelling \/ Mailbox \/ Route \/ WakeWorker \/ Start \/ Anchor
           \/ LaunchWork \/ FailUnlaunched \/ DiscardReads \/ DiscardCancels
           \/ DiscardWaits \/ DiscardErases \/ EndTurn

-----------------------------------------------------------------------------
(* The worker: executeActiveAgentWork inside launchActiveAgentWork. *)

At(stage) == work' = [work EXCEPT !.stage = stage]
Quiet == UNCHANGED <<wakeups, lane, lastRun, mode>>

(* Mutant: the passes are counted and not limited. *)
PassesUnlimited == work' = [work EXCEPT !.stage = "begin", !.pass = @ + 1]

(* Another revision pass, or the end of them. *)
NextPass ==
  IF work.pass + 1 < MaxPasses
    THEN work' = [work EXCEPT !.stage = "begin", !.pass = @ + 1]
    ELSE At("fail")

Begin ==
  /\ Working("begin") /\ QueueFree
  /\ IF ~Is(work.run) THEN At("fail") /\ UNCHANGED run
     ELSE IF ~CanBegin(run) THEN At("exit") /\ UNCHANGED run
     ELSE LET r == Begun(run) IN
       /\ Put(r)
       /\ work' = [work EXCEPT !.stage = "plan", !.inRev = r.instr, !.answer = r.answer,
            !.ckpt = IF r.ckpt # None THEN r.ckpt
                     ELSE [seen |-> SourcesOf(Pending(run)), ask |-> None]]
  /\ Quiet

Consumed ==
  IF work.ckpt.ask # None /\ work.answer # None
    THEN [seen |-> work.ckpt.seen \cup {work.answer.src}, ask |-> None]
    ELSE work.ckpt

Ends(outcome, ck) ==
  work' = [work EXCEPT !.stage = "gate", !.outcome = outcome, !.ckpt = ck]

(* The harness returns at an abort, when it finds itself stale, or with the *)
(* planner's result.                                                        *)
Plan ==
  /\ Working("plan") /\ UNCHANGED run
  /\ IF work.aborted THEN Ends("cancelled", work.ckpt)
     ELSE IF ~(Is(work.run) /\ Fresh(run, work.inRev)) THEN Ends("stopped", work.ckpt)
     ELSE \/ Consumed.ask = None /\ Ends("final", Consumed)
          \/ \E p \in Prompts : Ends("ask", [Consumed EXCEPT !.ask = IF @ = None THEN p ELSE @])
          \/ "limits" \in Env /\ (Ends("stopped", Consumed) \/ Ends("approval", Consumed))
  /\ Quiet

(* A result waits for the replies that were already reserved. *)
Gate ==
  /\ Working("gate") /\ IngressIdle(work.run)
  /\ \/ work.outcome \in {"final", "ask"} /\ At("commit")
     \/ work.outcome = "approval" /\ At("fail")
     \/ work.outcome \in {"stopped", "cancelled"} /\ At("settle")
  /\ UNCHANGED run /\ Quiet

Draft ==
  IF work.outcome = "final" THEN PreparedFinal(run, work.inRev, work.ckpt)
                            ELSE PreparedQuestion(run, work.inRev, work.ckpt)

Commit ==
  /\ Working("commit") /\ QueueFree
  /\ IF Is(work.run) /\ Fresh(run, work.inRev) /\ Storable(Draft, FALSE)
       THEN Put(Draft) /\ At("barrier")
       ELSE /\ UNCHANGED run
            /\ At(IF Is(work.run) /\ ~Fresh(run, work.inRev) THEN "stale" ELSE "fail")
  /\ Quiet

(* The callback of the commit waits for reserved replies, sends, and the    *)
(* receipt is saved; the queue is held from the first save to the second.   *)
Deliver ==
  /\ Working("barrier") /\ IngressIdle(work.run)
  /\ IF ~Is(work.run) THEN UNCHANGED run /\ At("fail")
     ELSE \/ /\ Put(IF work.outcome = "final" THEN CommittedFinal(run) ELSE CommittedQuestion(run))
             /\ At("surface")
          \/ Put(UnknownDelivery(run)) /\ At("fail")
  /\ Quiet

Surface == Working("surface") /\ At("exit") /\ UNCHANGED run /\ Quiet

Requeue ==
  /\ Working("stale") /\ QueueFree
  /\ LET n == Requeued(run, work.inRev, work.ckpt) IN
     IF Is(work.run) /\ Live(run) /\ Storable(n, FALSE)
       THEN Put(n) /\ (IF n.status = "queued" THEN NextPass ELSE At("fail"))
       ELSE UNCHANGED run /\ At("fail")
  /\ Quiet

Settle ==
  /\ Working("settle") /\ QueueFree
  /\ LET pause == work.outcome = "cancelled" \/ (mode = "stopping" /\ work.aborted)
         n == Settled(run, work.inRev, work.ckpt, pause)
     IN IF ~Is(work.run) \/ (Live(run) /\ ~Storable(n, FALSE)) THEN UNCHANGED run /\ At("fail")
        ELSE IF Terminal(run) THEN UNCHANGED run /\ At("exit")
        ELSE Put(n) /\ (IF n.status = "queued" /\ ~work.aborted THEN NextPass ELSE At("exit"))
  /\ Quiet

Fail ==
  /\ Working("fail") /\ QueueFree
  /\ IF Is(work.run) /\ Live(run) THEN Put(FailedRun(run)) ELSE UNCHANGED run
  /\ At("exit") /\ Quiet

(* The finally block: the entry goes, and the run is loaded once more.      *)
Leave ==
  /\ Working("exit") /\ work' = None
  /\ wakeups' = IF mode = "stopping" THEN wakeups ELSE wakeups \cup {work.run}
  /\ UNCHANGED <<run, lane, lastRun, mode>>

Worker == Begin \/ Plan \/ Gate \/ Commit \/ Deliver \/ Surface \/ Requeue \/ Settle
          \/ Fail \/ Leave

(* Mutant: a worker that has left does not look back. *)
NeverWanted(id) == FALSE

Wanted(id) == Is(id) /\ run.status = "queued"

Wake ==
  \E id \in wakeups :
    /\ wakeups' = wakeups \ {id}
    /\ IF Wanted(id) THEN Launch(id) ELSE UNCHANGED work
    /\ UNCHANGED <<run, lane, lastRun, mode>>

-----------------------------------------------------------------------------
(* drainPending: the chains first, then the work. *)

Drain ==
  /\ "stop" \in Env /\ mode = "up" /\ mode' = "draining"
  /\ UNCHANGED <<run, work, wakeups, lane, lastRun>>

StopWork ==
  /\ mode = "draining" /\ turn.stage = "idle" /\ admission.stage = "idle"
  /\ mode' = "stopping" /\ reserved' = {}
  /\ work' = IF work = None THEN None ELSE [work EXCEPT !.aborted = TRUE]
  /\ UNCHANGED <<run, wakeups, admission, turn, inbox, lastRun>>

Drained ==
  /\ mode = "stopping" /\ work = None /\ mode' = "down"
  /\ UNCHANGED <<run, work, wakeups, lane, lastRun>>

Next == Admit \/ StartTurn \/ Drain \/ Ingress \/ Handler \/ Worker \/ Wake \/ StopWork \/ Drained

Spec == Init /\ [][Next]_vars

(* Promises that can resolve do: handlers, workers and finally blocks are   *)
(* driven by the event loop, and planner, transport and file calls end.     *)
(* Whether the owner writes or the process stops is left open.              *)
Fairness == WF_vars(Ingress) /\ WF_vars(Handler) /\ WF_vars(Worker) /\ WF_vars(Wake)
            /\ WF_vars(StopWork) /\ WF_vars(Drained)

FairSpec == Spec /\ Fairness

-----------------------------------------------------------------------------
(* Properties. *)

(* The worker, the handlers and the record keep their shapes; in particular *)
(* no worker makes more than its passes, however often it is overtaken.     *)
TypeOK ==
  /\ run \in Run \cup {None}
  /\ work \in Work \cup {None}
  /\ wakeups \subseteq Nat
  /\ admission \in Admission
  /\ turn \in Turn
  /\ reserved \subseteq Nat
  /\ inbox \subseteq Sources
  /\ lastRun \in Nat
  /\ mode \in {"up", "draining", "stopping", "down"}

InWork == run # None /\ ((work # None /\ work.run = run.id) \/ run.id \in wakeups)

Busy == run # None /\ run.status \in {"queued", "running"}

Attended ==
  mode \in {"up", "draining"} /\ Busy =>
    InWork \/ (turn.run = run.id /\ turn.stage \in {"anchor", "launch", "unlaunched", "wake"})

Unwoken == turn.stage = "wake" /\ turn'.stage = "done"
KeptOut == turn.stage = "launch" /\ work # None /\ work.run # turn.run

(* Work that is queued or running is in somebody's hands: a worker of that  *)
(* run, a finally block that will look at it, or a handler about to launch. *)
(* It is dropped in two ways only: by a handler that ends without waking    *)
(* the run it queued, and by the launch of a new run that a worker of its   *)
(* predecessor keeps out.  No worker and no finally block drops it.         *)
NotDropped == [][Attended => Attended' \/ Unwoken \/ KeptOut]_vars

(* drainPending leaves nothing behind: no worker, not even one relaunched   *)
(* by a finally block, and no record that claims to be running.             *)
OrderlyExit ==
  mode = "down" => work = None /\ (run # None => run.status # "running")

(* A memory change removes a run only after it was closed and its worker    *)
(* told so: never under a delivery, never under a planner that goes on      *)
(* working with the removed context.                                        *)
ErasedWhenSettled ==
  [][run # None /\ run' = None =>
       /\ Terminal(run)
       /\ Working("plan") /\ work.run = run.id => work.aborted]_vars

Unresolved(id) ==
  admission.run = id /\ (admission.stage = "queued" \/ (turn.bound /\ turn.stage # "done"))

(* A result never overtakes a reply that quoted the run and was reserved    *)
(* before it left: the reply is routed or refused first.                    *)
QuoteNotOvertaken ==
  [][Working("barrier") /\ work' # None /\ work'.stage = "surface" => ~Unresolved(work.run)]_vars

(* A run that a worker or its finally block holds ends, waits or pauses,     *)
(* however many corrections, answers, cancels and memory changes it meets:  *)
(* the answer that meets a leaving worker is taken up.  Only an orderly     *)
(* shutdown may come first, and it ends too.                                *)
RunSettles == (Busy /\ InWork) ~> (~Busy \/ mode = "down")

(* A delivery that waits for reserved replies is not left hanging.          *)
BarrierOpens == Working("barrier") ~> ~Working("barrier")
=============================================================================
