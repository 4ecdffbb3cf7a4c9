----------------------------- MODULE CommitBarrier -----------------------------
(***************************************************************************)
(* What the commit barrier of an active AgentRun promises, without files,   *)
(* queues, workers or mailboxes: an effect is recorded before it is sent,   *)
(* is sent at most once, is never sent after the run's final message, and   *)
(* leaves the record only into a receipt or with the whole record.          *)
(***************************************************************************)
EXTENDS Integers

CONSTANT None

VARIABLES
  intent, \* the effect the stored record announces, or None
  flight, \* the effect some operation is delivering, or None
  out,    \* effects that left for the transport
  ledger  \* receipts of the stored record

vars == <<intent, flight, out, ledger>>

Purpose == {"question", "final"}
Outcome == {"committed", "unknown"}
Effects == [run : Nat, effect : Nat, purpose : Purpose]

Init == intent = None /\ flight = None /\ out = {} /\ ledger = {}

(* An effect newer than all the run has sent; none follows a final one.     *)
(* Whoever announced it may be turned away before the delivery begins.      *)
Prepare ==
  /\ intent = None /\ flight = None
  /\ intent' \in Effects
  /\ \A o \in out : o.run = intent'.run => o.effect < intent'.effect /\ o.purpose # "final"
  /\ flight' \in {intent', None}
  /\ UNCHANGED <<out, ledger>>

Send ==
  /\ flight # None /\ flight \notin out
  /\ out' = out \cup {flight}
  /\ UNCHANGED <<intent, flight, ledger>>

(* Only a message that left is booked as committed.  A delivery that is not *)
(* told of its receipt has nothing left to send.                            *)
Settle ==
  /\ intent # None
  /\ \E status \in Outcome :
       /\ status = "committed" => intent \in out
       /\ ledger' = ledger \cup {[effect |-> intent.effect, purpose |-> intent.purpose,
                                  status |-> status]}
  /\ intent' = None
  /\ flight' = None \/ (intent \in out /\ flight' = flight)
  /\ UNCHANGED out

(* The operation gives up, or the process dies. *)
Abandon == flight' = None /\ UNCHANGED <<intent, out, ledger>>

(* The record expires, is erased, or makes room for the next run. *)
Vanish == intent' = None /\ ledger' = {} /\ UNCHANGED <<flight, out>>

Next == Prepare \/ Send \/ Settle \/ Abandon \/ Vanish

Spec == Init /\ [][Next]_vars

(* A run's final message is the last of its messages that leave, whatever    *)
(* deliveries are abandoned and records vanish meanwhile.                    *)
FinalLast ==
  \A o, p \in out : o.run = p.run /\ o.purpose = "final" => p.effect <= o.effect
=============================================================================
