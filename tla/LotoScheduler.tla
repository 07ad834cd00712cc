--------------------------- MODULE LotoScheduler ---------------------------
(***************************************************************************)
(* server/services/loto-draw-scheduler.ts and loto-notifications.ts: the   *)
(* tick that schedules a country's draws, reminds their players a day      *)
(* before and sends what waits in loto_outbound_messages.                  *)
(*                                                                         *)
(* One tick runs at a time; administrators schedule draws and retry        *)
(* messages beside it.  A statement may fail at any point and the process  *)
(* may die, after which a new one ticks over the same tables.              *)
(*                                                                         *)
(* No draw leaves "scheduled": runDraw refuses every one of them, because  *)
(* its commitment is bound to an id that the draw's row does not get.      *)
(***************************************************************************)
EXTENDS Integers, FiniteSets

CONSTANTS
    MaxDraws,      \* bound on the draws of the country
    Consumers,
    MAX_ATTEMPTS,
    MaxFaults,     \* bound on crashes and on statements that fail
    NONE

ASSUME LotoNumbers ==
    /\ MaxDraws \in Nat \ {0}
    /\ MAX_ATTEMPTS \in Nat \ {0}
    /\ MaxFaults \in Nat

ASSUME LotoNames ==
    NONE \notin {"far", "near", "due", "pending", "sent", "failed", "skipped"}

VARIABLES
    draws,         \* when each draw is: far off, in a day, or due
    messages,      \* the reminder of each draw for each consumer
    tick,          \* what the tick is doing and what it has read
    faults

vars == <<draws, messages, tick, faults>>

Draws == 1..MaxDraws
Keys == Draws \X Consumers

-----------------------------------------------------------------------------
(* A row of loto_outbound_messages that reminds a consumer of a draw.      *)
(* Beside its columns, delivered counts the SMS that reached the consumer, *)
(* and unsure says that the row does not tell how many did: an             *)
(* administrator asked for another, or an answer was lost.                 *)
NoMessage ==
    [status |-> NONE, attempts |-> 0, waiting |-> FALSE,
     delivered |-> 0, unsure |-> FALSE]

Tick(pc) ==
    [pc |-> pc, todo |-> {}, draw |-> 0, recipients |-> {},
     outbox |-> {}, row |-> NONE, outcome |-> NONE]

Idle == Tick("idle")

Init ==
    /\ draws = [d \in Draws |-> NONE]
    /\ messages = [k \in Keys |-> NoMessage]
    /\ tick = Idle
    /\ faults = 0

Scheduled == {d \in Draws : draws[d] # NONE}
NextDrawNumber == Cardinality(Scheduled) + 1

-----------------------------------------------------------------------------
(* Beside the tick.                                                        *)

(* A draw's period puts it at any distance.                                *)
ScheduleNewDraw ==
    /\ NextDrawNumber \in Draws
    /\ \E when \in {"far", "near", "due"} :
           draws' = [draws EXCEPT ![NextDrawNumber] = when]

AdminSchedulesDraw ==
    /\ ScheduleNewDraw
    /\ UNCHANGED <<messages, tick, faults>>

TimePasses ==
    /\ \E d \in Draws :
          \/ draws[d] = "far" /\ draws' = [draws EXCEPT ![d] = "near"]
          \/ draws[d] = "near" /\ draws' = [draws EXCEPT ![d] = "due"]
    /\ UNCHANGED <<messages, tick, faults>>

(* The time a message is scheduled for has come.                           *)
BackoffEnds(k) ==
    /\ messages[k].waiting
    /\ messages' = [messages EXCEPT ![k].waiting = FALSE]
    /\ UNCHANGED <<draws, tick, faults>>

(* The retry route takes any row, whatever its status, and leaves its      *)
(* attempts as they are.                                                   *)
AdminRetries(k) ==
    /\ messages[k].status # NONE
    /\ messages' = [messages EXCEPT ![k].status = "pending",
                                    ![k].waiting = FALSE,
                                    ![k].unsure = TRUE]
    /\ UNCHANGED <<draws, tick, faults>>

-----------------------------------------------------------------------------
(* Phase 1: a country without an unresolved draw gets its next one.        *)
StartTick ==
    /\ tick.pc = "idle"
    /\ tick' = Tick(IF Scheduled = {} THEN "scheduling" ELSE "listing")
    /\ UNCHANGED <<draws, messages, faults>>

(* An error here is caught, so phase 2 follows, whose draws runDraw all    *)
(* refuses, and then phase 3.                                              *)
EnsureNextDraw ==
    /\ tick.pc = "scheduling"
    /\ ScheduleNewDraw \/ UNCHANGED draws
    /\ tick' = Tick("listing")
    /\ UNCHANGED <<messages, faults>>

-----------------------------------------------------------------------------
(* Phase 3: enqueueDrawReminders.                                          *)
ListDraws ==
    /\ tick.pc = "listing"
    /\ tick' = [Tick("reminding") EXCEPT !.todo = {d \in Draws : draws[d] = "near"}]
    /\ UNCHANGED <<draws, messages, faults>>

(* A mistake: only rows that wait to be sent are looked for.               *)
AwaitsReminder(d) == \E c \in Consumers : messages[<<d, c>>].status = "pending"

Reminded(d) == \E c \in Consumers : messages[<<d, c>>].status # NONE

PassOver(d) ==
    /\ tick.pc = "reminding"
    /\ d \in tick.todo
    /\ Reminded(d)
    /\ tick' = [tick EXCEPT !.todo = @ \ {d}]
    /\ UNCHANGED <<draws, messages, faults>>

(* Who holds a receipt of the period and has not opted out is an input.    *)
LoadRecipients(d) ==
    /\ tick.pc = "reminding"
    /\ d \in tick.todo
    /\ ~Reminded(d)
    /\ \E recipients \in SUBSET Consumers :
           tick' = [tick EXCEPT !.pc = "enqueuing", !.todo = @ \ {d},
                                !.draw = d, !.recipients = recipients]
    /\ UNCHANGED <<draws, messages, faults>>

(* A row is inserted as pending; one whose phone number has no E.164 form  *)
(* is marked in a second statement.  Were there a row already, this one    *)
(* would be sent as well, so delivered is kept.                            *)
EnqueueReminder(c) ==
    LET k == <<tick.draw, c>>
    IN  /\ tick.pc = "enqueuing"
        /\ c \in tick.recipients
        /\ messages' = [messages EXCEPT ![k].status = "pending",
                                        ![k].attempts = 0,
                                        ![k].waiting = FALSE]
        /\ \E pc \in {"enqueuing", "skipping"} :
               tick' = [tick EXCEPT !.pc = pc, !.recipients = @ \ {c}, !.row = k]
        /\ UNCHANGED <<draws, faults>>

SkipReminder ==
    /\ tick.pc = "skipping"
    /\ messages' = [messages EXCEPT ![tick.row].status = "skipped"]
    /\ tick' = [tick EXCEPT !.pc = "enqueuing"]
    /\ UNCHANGED <<draws, faults>>

DrawIsEnqueued ==
    /\ tick.pc = "enqueuing"
    /\ tick.recipients = {}
    /\ tick' = [Tick("reminding") EXCEPT !.todo = tick.todo]
    /\ UNCHANGED <<draws, messages, faults>>

-----------------------------------------------------------------------------
(* Phase 3: processOutboundQueue.                                          *)
(* Mistakes: the limit of the query is left out, or is not the limit of    *)
(* dispatchOutboundMessage.                                                *)
IsDueForEver(m) == m.status = "pending" /\ ~m.waiting
IsDueTooSeldom(m) == IsDueForEver(m) /\ m.attempts < MAX_ATTEMPTS - 1

IsDue(m) == m.status = "pending" /\ ~m.waiting /\ m.attempts < MAX_ATTEMPTS

ListPending ==
    /\ tick.pc = "reminding"
    /\ tick.todo = {}
    /\ tick' = [Tick("sending") EXCEPT !.outbox = {k \in Keys : IsDue(messages[k])}]
    /\ UNCHANGED <<draws, messages, faults>>

(* A provider's failure may hide a message that went out.                  *)
Send(k) ==
    /\ tick.pc = "sending"
    /\ k \in tick.outbox
    /\ \E outcome \in {"sent", "failed"}, reached \in BOOLEAN :
          /\ outcome = "sent" => reached
          /\ tick' = [tick EXCEPT !.pc = "recording", !.outbox = @ \ {k},
                                  !.row = k, !.outcome = outcome]
          /\ messages' = [messages EXCEPT
                 ![k].delivered = IF reached THEN @ + 1 ELSE @,
                 ![k].unsure = @ \/ (reached /\ outcome = "failed")]
    /\ UNCHANGED <<draws, faults>>

(* updateLotoOutboundMessageStatus for what the provider answered.  The    *)
(* attempts compared with the limit are those of the row as listed; no     *)
(* one else changes them.                                                  *)
Recorded(m) ==
    LET last == m.attempts + 1 >= MAX_ATTEMPTS
    IN  [m EXCEPT !.attempts = @ + 1,
                  !.status = IF tick.outcome = "sent" THEN "sent"
                             ELSE IF last THEN "failed" ELSE "pending",
                  !.waiting = (tick.outcome = "failed" /\ ~last) \/ @]

RecordOutcome ==
    /\ tick.pc = "recording"
    /\ messages' = [messages EXCEPT ![tick.row] = Recorded(@)]
    /\ tick' = [Tick("sending") EXCEPT !.outbox = tick.outbox]
    /\ UNCHANGED <<draws, faults>>

(* The catch of processOutboundQueue.                                      *)
Excuse ==
    /\ tick.pc = "excusing"
    /\ messages' = [messages EXCEPT ![tick.row].status = "pending",
                                    ![tick.row].attempts = @ + 1,
                                    ![tick.row].waiting = TRUE]
    /\ tick' = [Tick("sending") EXCEPT !.outbox = tick.outbox]
    /\ UNCHANGED <<draws, faults>>

EndTick ==
    /\ tick.pc = "sending"
    /\ tick.outbox = {}
    /\ tick' = Idle
    /\ UNCHANGED <<draws, messages, faults>>

-----------------------------------------------------------------------------
Interrupted == tick.pc \in {"recording", "excusing"}

(* The statement that records an outcome fails, before or after it took    *)
(* effect.                                                                 *)
RecordFails ==
    /\ faults < MaxFaults
    /\ tick.pc = "recording"
    /\ \E applied \in BOOLEAN :
           messages' = [messages EXCEPT
               ![tick.row] = [(IF applied THEN Recorded(@) ELSE @) EXCEPT !.unsure = TRUE]]
    /\ tick' = [tick EXCEPT !.pc = "excusing"]
    /\ faults' = faults + 1
    /\ UNCHANGED draws

(* Any other statement that fails ends the tick, and so does the death of  *)
(* the process, which may come while an outcome is still to be recorded.   *)
TickDies ==
    /\ faults < MaxFaults
    /\ tick.pc # "idle"
    /\ tick' = Idle
    /\ messages' = IF Interrupted
                     THEN [messages EXCEPT ![tick.row].unsure = TRUE]
                     ELSE messages
    /\ faults' = faults + 1
    /\ UNCHANGED draws

-----------------------------------------------------------------------------
TickStep ==
    \/ StartTick \/ EnsureNextDraw \/ ListDraws
    \/ \E d \in Draws : PassOver(d) \/ LoadRecipients(d)
    \/ \E c \in Consumers : EnqueueReminder(c)
    \/ SkipReminder \/ DrawIsEnqueued \/ ListPending
    \/ \E k \in Keys : Send(k)
    \/ RecordOutcome \/ Excuse \/ EndTick

Next ==
    \/ TickStep
    \/ AdminSchedulesDraw
    \/ TimePasses
    \/ \E k \in Keys : BackoffEnds(k) \/ AdminRetries(k)
    \/ RecordFails
    \/ TickDies

(* The interval timer starts a tick whenever none is running, and every    *)
(* await of a tick ends; time passes for every backoff.                    *)
Fairness == WF_vars(TickStep) /\ \A k \in Keys : WF_vars(BackoffEnds(k))

Spec == Init /\ [][Next]_vars /\ Fairness

-----------------------------------------------------------------------------
Pcs == {"idle", "scheduling", "listing", "reminding", "enqueuing", "skipping",
        "sending", "recording", "excusing"}

(* Every variable keeps its type.  A message is attempted no more often    *)
(* than the limit allows, plus once where a recorded outcome was excused.  *)
TypeOK ==
    /\ draws \in [Draws -> {NONE, "far", "near", "due"}]
    /\ \A k \in Keys :
          /\ messages[k].status \in {NONE, "pending", "sent", "failed", "skipped"}
          /\ messages[k].attempts \in 0..MAX_ATTEMPTS + 1
          /\ messages[k].waiting \in BOOLEAN
          /\ messages[k].delivered \in 0..MAX_ATTEMPTS + MaxFaults
          /\ messages[k].unsure \in BOOLEAN
    /\ tick.pc \in Pcs
    /\ tick.todo \subseteq Draws
    /\ tick.recipients \subseteq Consumers
    /\ tick.outbox \subseteq Keys
    /\ faults \in 0..MaxFaults

(* A draw's reminder reaches a player once, however often the tick finds   *)
(* the draw in its window: enqueueDrawReminders passes over a draw with a  *)
(* row, and a row that was recorded as sent is not sent again.  A second   *)
(* delivery takes an administrator's retry or an answer that was lost.     *)
RemindedOnce ==
    \A k \in Keys : messages[k].delivered > 1 => messages[k].unsure

(* Whatever the provider answers, and whatever fails for a while, a        *)
(* message that may still be attempted leaves the queue: it is sent,       *)
(* failed or skipped, or its attempts are used up.                         *)
CanBeAttempted(k) ==
    messages[k].status = "pending" /\ messages[k].attempts < MAX_ATTEMPTS

MessagesSettle == \A k \in Keys : CanBeAttempted(k) ~> ~CanBeAttempted(k)
=============================================================================
