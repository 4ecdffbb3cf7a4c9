------------------------------- MODULE ActiveRun -------------------------------
(***************************************************************************)
(* The durable record of one private active AgentRun (version 2) and the   *)
(* pure transitions AgentRunService applies to it.  No variable lives here: *)
(* AgentRun interleaves these transitions with the file they are saved to,  *)
(* and WorkLane with the workers and the chat handlers that call them.      *)
(*                                                                         *)
(* A mailbox message is its instruction revision, its kind and the source  *)
(* message it came from; message text, timestamps, work units, the event   *)
(* log and the phase shown on the anchor are rendering and are left out.   *)
(* A checkpoint is what the planner has been shown (`seen`, the source     *)
(* messages in userInputs) and the prompt it waits on (`ask`).             *)
(***************************************************************************)
EXTENDS Integers, FiniteSets

CONSTANTS
  Sources,     \* ids of the chat messages that can be routed to a run
  Prompts,     \* texts the planner can ask the user
  MailboxCap,  \* MAX_MAILBOX_MESSAGES
  PendingCap,  \* MAX_PENDING_INSTRUCTION_INPUTS
  None         \* null

ASSUME CapAssumption == MailboxCap \in Nat /\ MailboxCap >= 2 /\ PendingCap \in Nat
ASSUME NoneAssumption == None \notin Prompts /\ None \notin Sources

LiveStatus == {"queued", "running", "waiting_input", "paused"}
TerminalStatus == {"completed", "partial", "failed", "cancelled"}
Kind == {"constraint", "answer", "cancel"}
Purpose == {"question", "final"}

(* "constraint" stands for the three kinds the code treats alike:          *)
(* constraint, correction and scope_change.                                *)
Message == [rev : Nat, kind : Kind, src : Sources]
Checkpoint == [seen : SUBSET Sources, ask : Prompts \cup {None}]
Question == [id : Nat, prompt : Prompts]
Answer == [question : Nat, src : Sources]
Effect == [id : Nat, purpose : Purpose, instr : Nat]
Receipt == [effect : Nat, purpose : Purpose, status : {"committed", "unknown"}]

Run == [id : Nat, rev : Nat, status : LiveStatus \cup TerminalStatus,
        instr : Nat, applied : Nat, mailbox : SUBSET Message,
        ckpt : Checkpoint \cup {None}, question : Question \cup {None},
        answer : Answer \cup {None}, effect : Effect \cup {None},
        receipts : SUBSET Receipt, anchored : BOOLEAN]

ASSUME NoRecordIsNone ==
  None \notin Checkpoint \cup Question \cup Answer \cup Effect \cup Run

Terminal(r) == r.status \in TerminalStatus

(* The draft startActive saves. *)
NewRun(id) ==
  [id |-> id, rev |-> 0, status |-> "queued", instr |-> 1, applied |-> 1,
   mailbox |-> {}, ckpt |-> None, question |-> None, answer |-> None,
   effect |-> None, receipts |-> {}, anchored |-> FALSE]

SourcesOf(ms) == {m.src : m \in ms}

(* Instructions the checkpoint does not carry yet; answers travel by        *)
(* resumeAnswer and are skipped here.                                       *)
Pending(r) == {m \in r.mailbox : m.rev > r.applied /\ m.kind = "constraint"}

Rebased(r) ==
  IF Pending(r) = {} THEN r.ckpt
  ELSE [seen |-> r.ckpt.seen \cup SourcesOf(Pending(r)), ask |-> None]

CanBegin(r) ==
  /\ ~Terminal(r)
  /\ r.effect = None
  /\ r.status = "waiting_input" => r.answer # None

NeedsRebase(r) == r.ckpt # None /\ r.answer = None /\ r.applied < r.instr

Begun(r) ==
  [r EXCEPT !.status = "running",
            !.ckpt = IF NeedsRebase(r) THEN Rebased(r) ELSE @,
            !.applied = IF NeedsRebase(r) THEN r.instr ELSE @]

(* A terminal record keeps its checkpoint without the open prompt. *)
ClosedCkpt(r) == IF r.ckpt = None THEN None ELSE [r.ckpt EXCEPT !.ask = None]

Closed(r, status) ==
  [r EXCEPT !.status = status, !.ckpt = ClosedCkpt(r), !.question = None,
            !.answer = None]

Larger(a, b) == IF a >= b THEN a ELSE b

-----------------------------------------------------------------------------
(* RunMailbox. *)

Replayed(r, src) == src \in SourcesOf(r.mailbox)

(* An answer names the open question, before its deadline (~late). *)
AnswerBinds(r, q, late) ==
  /\ r.status = "waiting_input"
  /\ r.question # None
  /\ ~late
  /\ q = r.question.id

(* The ledger keeps its last slot for an answer or a cancel. *)
HasRoom(r, kind) ==
  Cardinality(r.mailbox) < (IF kind = "constraint" THEN MailboxCap - 1 ELSE MailboxCap)

Oldest(ms) == {m \in ms : \A n \in ms : m.rev <= n.rev}

(* Mutant: the mailbox grows and the instruction revision does not. *)
PostedUnrevised(r, kind, src) ==
  [r EXCEPT !.mailbox = @ \cup {[rev |-> r.instr, kind |-> kind, src |-> src]}]

Posted(r, kind, src) ==
  [r EXCEPT !.instr = @ + 1,
            !.mailbox = (IF HasRoom(r, kind) THEN @ ELSE @ \ Oldest(@))
                          \cup {[rev |-> r.instr + 1, kind |-> kind, src |-> src]}]

(* Mutant: a full ledger makes room instead of refusing an instruction. *)
RoutableWhenFull(r, kind, src, q, late) ==
  /\ ~Replayed(r, src) /\ ~Terminal(r)
  /\ kind = "answer" => AnswerBinds(r, q, late)

(* Mutant: the early return for terminal runs is lost. *)
RoutableWhenTerminal(r, kind, src, q, late) ==
  /\ ~Replayed(r, src)
  /\ kind = "answer" => AnswerBinds(r, q, late)
  /\ kind # "cancel" => HasRoom(r, kind)

Routable(r, kind, src, q, late) ==
  /\ ~Replayed(r, src)
  /\ ~Terminal(r)
  /\ kind = "answer" => AnswerBinds(r, q, late)
  /\ kind # "cancel" => HasRoom(r, kind)
  /\ kind = "constraint" => Cardinality(Pending(Posted(r, kind, src))) <= PendingCap

Cancelled(r, src) == Closed(Posted(r, "cancel", src), "cancelled")

Answered(r, src) ==
  [Posted(r, "answer", src) EXCEPT
     !.status = "queued",
     !.answer = [question |-> r.question.id, src |-> src]]

Constrained(r, src) ==
  [Posted(r, "constraint", src) EXCEPT
     !.status = IF @ = "running" THEN "running" ELSE "queued",
     !.question = None,
     !.answer = None]

Routed(r, kind, src) ==
  CASE kind = "cancel" -> Cancelled(r, src)
    [] kind = "answer" -> Answered(r, src)
    [] OTHER -> Constrained(r, src)

-----------------------------------------------------------------------------
(* Commit barrier. *)

Fresh(r, inRev) == r.status = "running" /\ r.instr = inRev /\ r.effect = None

(* makeId: the revision a record is saved under names the effect and the   *)
(* question created by that save; no two saves of a run share it.          *)
NextId(r) == r.rev + 1

PreparedFinal(r, inRev, ck) ==
  [r EXCEPT !.ckpt = ck, !.question = None, !.answer = None,
            !.effect = [id |-> NextId(r), purpose |-> "final", instr |-> inRev],
            !.applied = inRev]

PreparedQuestion(r, inRev, ck) ==
  [r EXCEPT !.ckpt = ck, !.question = [id |-> NextId(r), prompt |-> ck.ask],
            !.effect = [id |-> NextId(r), purpose |-> "question", instr |-> inRev],
            !.applied = inRev]

(* Mutant: the effect is cleared and no receipt is kept. *)
ReceiptedSilently(r, status) == [r EXCEPT !.effect = None]

Receipted(r, status) ==
  [r EXCEPT !.effect = None,
            !.receipts = @ \cup {[effect |-> r.effect.id,
                                  purpose |-> r.effect.purpose,
                                  status |-> status]}]

CommittedQuestion(r) ==
  [Receipted(r, "committed") EXCEPT !.status = "waiting_input", !.answer = None]

CommittedFinal(r) == [Receipted(r, "committed") EXCEPT !.status = "completed"]

(* Mutants: an ambiguous delivery is booked as committed, or left open so   *)
(* that the user may still answer it.                                       *)
UnknownAsCommitted(r) == Closed(Receipted(r, "committed"), "partial")
UnknownAsWaiting(r) ==
  IF r.effect.purpose = "question"
    THEN [Receipted(r, "unknown") EXCEPT !.status = "waiting_input", !.answer = None]
    ELSE Closed(Receipted(r, "unknown"), "partial")

UnknownDelivery(r) == Closed(Receipted(r, "unknown"), "partial")

-----------------------------------------------------------------------------
(* Work that ends without a delivery, and recovery. *)

Requeued(r, inRev, ck) ==
  [r EXCEPT !.ckpt = ck, !.applied = Larger(@, inRev),
            !.status = IF r.instr # inRev THEN "queued" ELSE "paused"]

(* Mutant: a failure drops the prepared effect without a receipt. *)
FailedForgetful(r) == [Closed(r, "failed") EXCEPT !.effect = None]

FailedRun(r) ==
  IF r.effect # None THEN UnknownDelivery(r) ELSE Closed(r, "failed")

(* Mutant: the checkpoint is booked at the newest revision, not its own. *)
SettledAtNewest(r, inRev, ck, pause) ==
  [r EXCEPT !.ckpt = ck, !.applied = r.instr,
            !.status = IF r.instr # inRev THEN "queued"
                       ELSE IF pause THEN "paused" ELSE "failed",
            !.question = None, !.answer = None]

Settled(r, inRev, ck, pause) ==
  IF r.instr # inRev
    THEN [r EXCEPT !.ckpt = ck, !.applied = Larger(@, inRev), !.status = "queued"]
  ELSE IF pause
    THEN [r EXCEPT !.ckpt = ck, !.applied = inRev, !.status = "paused"]
  ELSE [Closed([r EXCEPT !.ckpt = ck], "failed") EXCEPT !.applied = inRev, !.effect = None]

QuestionExpired(r, late) == r.status = "waiting_input" /\ r.question # None /\ late

(* Recovered is the record recovery saves when it touches the run. *)
NeedsRecovery(r, late) ==
  /\ ~Terminal(r)
  /\ \/ r.effect # None
     \/ QuestionExpired(r, late)
     \/ r.status \in {"running", "paused"}

(* Mutant: recovery retries a delivery that was in flight. *)
RecoveredRetries(r, late) == [r EXCEPT !.status = "queued", !.effect = None]

Recovered(r, late) ==
  IF r.effect # None THEN UnknownDelivery(r)
  ELSE IF QuestionExpired(r, late) THEN Closed(r, "failed")
  ELSE [r EXCEPT !.status = "queued"]

-----------------------------------------------------------------------------
(* What validateActiveRun refuses to store.  `past` says that the draft     *)
(* would be written after its own retention horizon.                        *)

ValidQuestion(r) ==
  /\ r.ckpt = None => r.question = None /\ r.answer = None
  /\ r.question # None /\ r.ckpt # None => r.ckpt.ask = r.question.prompt
  /\ r.answer # None => r.question # None /\ r.answer.question = r.question.id

ValidEffect(r) == r.effect # None => r.effect.instr = r.instr

Storable(r, past) ==
  /\ r.applied <= r.instr
  /\ ValidQuestion(r)
  /\ ValidEffect(r)
  /\ ~past
=============================================================================
