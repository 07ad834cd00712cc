------------------------ MODULE LotoSchedulerProofs ------------------------
(***************************************************************************)
(* For any number of draws, players, attempts and faults: a reminder       *)
(* reaches a player once, unless its row cannot tell.                      *)
(***************************************************************************)
EXTENDS LotoScheduler, TLAPS

MessageRows ==
    [status : {NONE, "pending", "sent", "failed", "skipped"},
     attempts : 0..MAX_ATTEMPTS + 1, waiting : BOOLEAN,
     delivered : 0..MAX_ATTEMPTS + MaxFaults, unsure : BOOLEAN]

TickRows ==
    [pc : Pcs, todo : SUBSET Draws, draw : {0} \cup Draws,
     recipients : SUBSET Consumers, outbox : SUBSET Keys,
     row : {NONE} \cup Keys, outcome : {NONE, "sent", "failed"}]

Typed ==
    /\ draws \in [Draws -> {NONE, "far", "near", "due"}]
    /\ messages \in [Keys -> MessageRows]
    /\ tick \in TickRows
    /\ faults \in 0..MaxFaults

(* An SMS is out and its outcome is not recorded yet.                      *)
Sending(k) == tick.pc = "recording" /\ tick.row = k

(* What went out is counted as an attempt, a fault, or is being recorded;  *)
(* and a row that can tell says so.                                        *)
RowOK(k) ==
    LET m == messages[k] IN
    /\ m.status = NONE => m = NoMessage
    /\ m.delivered <= m.attempts + faults + IF Sending(k) THEN 1 ELSE 0
    /\ ~m.unsure =>
          /\ m.delivered <= 1
          /\ m.delivered = 1 => \/ m.status = "sent"
                                \/ Sending(k) /\ tick.outcome = "sent"

Pending(k) == messages[k].unsure \/ messages[k].status = "pending"

(* What the tick has read is still so.                                     *)
TickOK ==
    /\ tick.pc \in {"enqueuing", "skipping"} =>
          /\ tick.draw \in Draws
          /\ \A c \in tick.recipients : messages[<<tick.draw, c>>].status = NONE
    /\ tick.pc = "skipping" =>
          tick.row \in Keys /\ messages[tick.row].status = "pending"
    /\ tick.outbox # {} => tick.pc \in {"sending", "recording", "excusing"}
    /\ \A k \in tick.outbox :
          messages[k].attempts < MAX_ATTEMPTS /\ Pending(k)
    /\ tick.pc \in {"recording", "excusing"} =>
          tick.row \in Keys \ tick.outbox
    /\ tick.pc = "recording" =>
          /\ tick.outcome \in {"sent", "failed"}
          /\ messages[tick.row].attempts < MAX_ATTEMPTS
          /\ Pending(tick.row)
    /\ tick.pc = "excusing" =>
          /\ messages[tick.row].attempts <= MAX_ATTEMPTS
          /\ messages[tick.row].unsure

IInv == Typed /\ TickOK /\ \A k \in Keys : RowOK(k)

Facts == LotoNumbers /\ LotoNames /\ IInv

-----------------------------------------------------------------------------
LEMMA InitIInv == LotoNumbers /\ LotoNames /\ Init => IInv
BY DEF LotoNumbers, LotoNames, Init, IInv, Typed, TickOK, RowOK, Sending,
       MessageRows, TickRows, NoMessage, Idle, Tick, Pcs

(* The tick moves on and nothing is being sent.                            *)
LEMMA TickKeeps ==
    ASSUME Facts, UNCHANGED <<messages, faults>>,
           draws' \in [Draws -> {NONE, "far", "near", "due"}],
           tick' \in TickRows, TickOK',
           ~(\E k \in Keys : Sending(k)), ~(\E k \in Keys : Sending(k)')
    PROVE  IInv'
BY DEF Facts, IInv, Typed, RowOK, Sending

(* Only draws change, which nothing else refers to.                        *)
LEMMA DrawsKeep ==
    ASSUME Facts, UNCHANGED <<messages, tick, faults>>,
           draws' \in [Draws -> {NONE, "far", "near", "due"}]
    PROVE  IInv'
BY DEF Facts, IInv, Typed, TickOK, RowOK, Sending, Pending

LEMMA SchedulingKeepsTypes ==
    ASSUME Facts, ScheduleNewDraw
    PROVE  draws' \in [Draws -> {NONE, "far", "near", "due"}]
BY DEF Facts, IInv, Typed, ScheduleNewDraw

LEMMA BesideTheTick ==
    ASSUME Facts, AdminSchedulesDraw \/ TimePasses
    PROVE  IInv'
<1>1. CASE AdminSchedulesDraw
  BY <1>1, SchedulingKeepsTypes, DrawsKeep DEF AdminSchedulesDraw
<1>2. CASE TimePasses
  <2>1. draws' \in [Draws -> {NONE, "far", "near", "due"}]
    BY <1>2 DEF TimePasses, Facts, IInv, Typed
  <2> QED BY <1>2, <2>1, DrawsKeep DEF TimePasses
<1> QED BY <1>1, <1>2

(* The steps of a tick that only read.                                     *)
LEMMA ReadingKeeps ==
    ASSUME Facts,
           \/ StartTick \/ EnsureNextDraw \/ ListDraws
           \/ \E d \in Draws : PassOver(d) \/ LoadRecipients(d)
           \/ DrawIsEnqueued \/ ListPending \/ EndTick
    PROVE  IInv'
<1>1. /\ tick \in TickRows
      /\ draws \in [Draws -> {NONE, "far", "near", "due"}]
      /\ tick.outbox # {} => tick.pc \in {"sending", "recording", "excusing"}
  BY DEF Facts, IInv, Typed, TickOK
<1>2. CASE StartTick
  <2>1. tick' \in TickRows /\ TickOK' /\ UNCHANGED <<draws, messages, faults>>
    BY <1>2 DEF StartTick, TickOK, Tick, TickRows, Pcs, Scheduled
  <2> QED BY <1>1, <1>2, <2>1, TickKeeps DEF StartTick, Tick, Sending
<1>3. CASE EnsureNextDraw
  <2>1. tick' \in TickRows /\ TickOK' /\ UNCHANGED <<messages, faults>>
    BY <1>3 DEF EnsureNextDraw, TickOK, Tick, TickRows, Pcs
  <2>2. draws' \in [Draws -> {NONE, "far", "near", "due"}]
    BY <1>1, <1>3, SchedulingKeepsTypes DEF EnsureNextDraw
  <2> QED BY <1>3, <2>1, <2>2, TickKeeps DEF EnsureNextDraw, Tick, Sending
<1>4. CASE ListDraws
  <2>1. tick' \in TickRows /\ TickOK' /\ UNCHANGED <<draws, messages, faults>>
    BY <1>4 DEF ListDraws, TickOK, Tick, TickRows, Pcs
  <2> QED BY <1>1, <1>4, <2>1, TickKeeps DEF ListDraws, Tick, Sending
<1>5. ASSUME NEW d \in Draws, PassOver(d) PROVE IInv'
  <2>1. tick' \in TickRows /\ TickOK' /\ UNCHANGED <<draws, messages, faults>>
    BY <1>1, <1>5 DEF PassOver, TickOK, TickRows
  <2> QED BY <1>1, <1>5, <2>1, TickKeeps DEF PassOver, TickRows, Sending
<1>6. ASSUME NEW d \in Draws, LoadRecipients(d) PROVE IInv'
  <2>1. PICK recipients \in SUBSET Consumers :
          tick' = [tick EXCEPT !.pc = "enqueuing", !.todo = @ \ {d},
                               !.draw = d, !.recipients = recipients]
    BY <1>6 DEF LoadRecipients
  <2>2. tick' \in TickRows
    BY <1>1, <2>1 DEF TickRows, Pcs
  <2>3. /\ tick'.pc = "enqueuing" /\ tick'.draw = d
        /\ tick'.recipients = recipients /\ tick'.outbox = {}
    BY <1>1, <1>6, <2>1 DEF TickRows, LoadRecipients
  <2>4. UNCHANGED <<draws, messages, faults>>
    BY <1>6 DEF LoadRecipients
  <2>5. \A c \in recipients : messages'[<<d, c>>].status = NONE
    BY <1>6, <2>4 DEF LoadRecipients, Reminded
  <2>6. TickOK'
    BY <2>3, <2>5 DEF TickOK
  <2> QED BY <1>1, <1>6, <2>2, <2>3, <2>4, <2>6, TickKeeps
          DEF LoadRecipients, Sending
<1>7. CASE DrawIsEnqueued
  <2>1. tick' \in TickRows /\ TickOK' /\ UNCHANGED <<draws, messages, faults>>
    BY <1>1, <1>7 DEF DrawIsEnqueued, TickOK, Tick, TickRows, Pcs
  <2> QED BY <1>1, <1>7, <2>1, TickKeeps DEF DrawIsEnqueued, Tick, Sending
<1>8. CASE ListPending
  <2>1. tick' = [Tick("sending") EXCEPT !.outbox = {k \in Keys : IsDue(messages[k])}]
    BY <1>8 DEF ListPending
  <2>2. tick'.pc = "sending" /\ tick'.outbox = {k \in Keys : IsDue(messages[k])}
    BY <2>1 DEF Tick
  <2>3. tick' \in TickRows
    BY <2>1 DEF Tick, TickRows, Pcs
  <2>4. UNCHANGED <<draws, messages, faults>>
    BY <1>8 DEF ListPending
  <2>5. TickOK'
    BY <2>2, <2>4 DEF TickOK, IsDue, Pending
  <2> QED BY <1>1, <1>8, <2>2, <2>3, <2>4, <2>5, TickKeeps DEF ListPending, Sending
<1>9. CASE EndTick
  <2>1. tick' \in TickRows /\ TickOK' /\ UNCHANGED <<draws, messages, faults>>
    BY <1>9 DEF EndTick, TickOK, Idle, Tick, TickRows, Pcs
  <2> QED BY <1>1, <1>9, <2>1, TickKeeps DEF EndTick, Idle, Tick, Sending
<1> QED BY <1>2, <1>3, <1>4, <1>5, <1>6, <1>7, <1>8, <1>9

-----------------------------------------------------------------------------
(* One row changes.                                                        *)
LEMMA OneRow ==
    ASSUME Facts, NEW k \in Keys, NEW m \in MessageRows,
           messages' = [messages EXCEPT ![k] = m]
    PROVE  /\ messages' \in [Keys -> MessageRows]
           /\ messages'[k] = m
           /\ \A l \in Keys \ {k} : messages'[l] = messages[l]
BY DEF Facts, IInv, Typed

(* Beside the tick: a backoff ends, an administrator asks for a retry.     *)
LEMMA OthersWrite ==
    ASSUME Facts, NEW k \in Keys, BackoffEnds(k) \/ AdminRetries(k)
    PROVE  IInv'
<1> DEFINE m == messages'[k]
           old == messages[k]
<1>1. /\ old \in MessageRows /\ messages \in [Keys -> MessageRows]
      /\ RowOK(k) /\ UNCHANGED <<draws, tick, faults>>
      /\ old.status # NONE
  BY DEF Facts, IInv, Typed, BackoffEnds, AdminRetries, RowOK, NoMessage
<1>2. /\ m \in MessageRows
      /\ messages' = [messages EXCEPT ![k] = m]
      /\ m.attempts = old.attempts /\ m.delivered = old.delivered
      /\ \/ m.status = old.status /\ m.unsure = old.unsure
         \/ m.status = "pending" /\ m.unsure
      /\ m.status # NONE
  <2>1. CASE BackoffEnds(k)
    <3>1. messages' = [messages EXCEPT ![k] = [old EXCEPT !.waiting = FALSE]]
      BY <1>1, <2>1 DEF BackoffEnds
    <3>2. m = [old EXCEPT !.waiting = FALSE]
      BY <1>1, <3>1
    <3> QED BY <1>1, <3>1, <3>2 DEF MessageRows
  <2>2. CASE AdminRetries(k)
    <3>1. messages' = [messages EXCEPT ![k] =
             [old EXCEPT !.status = "pending", !.waiting = FALSE, !.unsure = TRUE]]
      BY <1>1, <2>2 DEF AdminRetries
    <3>2. m = [old EXCEPT !.status = "pending", !.waiting = FALSE, !.unsure = TRUE]
      BY <1>1, <3>1
    <3>3. "pending" # NONE
      BY DEF Facts, LotoNames
    <3> QED BY <1>1, <3>1, <3>2, <3>3 DEF MessageRows
  <2> QED BY <2>1, <2>2
<1> HIDE DEF m, old
<1>3. /\ messages' \in [Keys -> MessageRows] /\ messages'[k] = m /\ messages[k] = old
      /\ \A l \in Keys \ {k} : messages'[l] = messages[l]
  BY <1>2, OneRow DEF m, old
<1>4. Typed'
  BY <1>1, <1>3 DEF Facts, IInv, Typed
<1>5. \A l \in Keys : RowOK(l)'
  <2>1. RowOK(k)'
    BY <1>1, <1>2, <1>3 DEF RowOK, Sending
  <2>2. \A l \in Keys \ {k} : RowOK(l)'
    BY <1>1, <1>3 DEF Facts, IInv, RowOK, Sending
  <2> QED BY <2>1, <2>2
<1>6. \A l \in Keys : /\ messages'[l].attempts = messages[l].attempts
                      /\ Pending(l) => Pending(l)'
                      /\ messages[l].status = "pending" => messages'[l].status = "pending"
                      /\ messages[l].status = NONE => messages'[l].status = NONE
                      /\ messages[l].unsure => messages'[l].unsure
  BY <1>1, <1>2, <1>3 DEF Pending
<1>7. /\ tick.draw \in Draws => \A c \in Consumers : <<tick.draw, c>> \in Keys
      /\ tick.recipients \subseteq Consumers /\ tick.outbox \subseteq Keys
  BY DEF Facts, IInv, Typed, TickRows, Keys
<1>8. TickOK'
  BY <1>1, <1>6, <1>7 DEF Facts, IInv, TickOK
<1> QED BY <1>4, <1>5, <1>8 DEF IInv

(* Inserting and skipping reminders.                                       *)
LEMMA EnqueueKeeps ==
    ASSUME Facts, NEW c \in Consumers, EnqueueReminder(c)
    PROVE  IInv'
<1>0. PICK k \in Keys : k = <<tick.draw, c>>
  BY DEF Facts, IInv, TickOK, EnqueueReminder, Keys
<1> DEFINE old == messages[k]
           m == [old EXCEPT !.status = "pending", !.attempts = 0, !.waiting = FALSE]
<1>1. /\ tick.pc = "enqueuing" /\ c \in tick.recipients /\ tick.draw \in Draws
      /\ tick \in TickRows /\ tick.outbox = {}
      /\ \A b \in tick.recipients : messages[<<tick.draw, b>>].status = NONE
      /\ UNCHANGED <<draws, faults>> /\ messages \in [Keys -> MessageRows]
      /\ faults \in 0..MaxFaults
  BY DEF Facts, IInv, Typed, TickOK, EnqueueReminder
<1>2. old = NoMessage
  BY <1>0, <1>1 DEF Facts, IInv, RowOK
<1>3. old \in MessageRows /\ old.delivered = 0
  <2>1. old \in MessageRows
    BY <1>1
  <2>2. NoMessage.delivered = 0
    BY DEF NoMessage
  <2> QED BY <1>2, <2>1, <2>2
<1>4. m \in MessageRows /\ messages' = [messages EXCEPT ![k] = m]
  <2>1. 0 \in 0..MAX_ATTEMPTS + 1
    BY DEF Facts, LotoNumbers
  <2>2. m \in MessageRows
    BY <1>3, <2>1 DEF MessageRows
  <2> QED BY <1>0, <1>1, <2>2 DEF EnqueueReminder
<1>5. PICK pc \in {"enqueuing", "skipping"} :
        tick' = [tick EXCEPT !.pc = pc, !.recipients = @ \ {c}, !.row = k]
  BY <1>0 DEF EnqueueReminder
<1>6. /\ tick' \in TickRows /\ tick'.pc = pc /\ tick'.draw = tick.draw
      /\ tick'.recipients = tick.recipients \ {c} /\ tick'.row = k
      /\ tick'.outbox = {}
  BY <1>1, <1>5 DEF TickRows, Pcs
<1>7. /\ m.status = "pending" /\ m.attempts = 0 /\ m.delivered = 0 /\ m.status # NONE
  BY <1>3 DEF MessageRows, Facts, LotoNames
<1> HIDE DEF m, old
<1>8. /\ messages' \in [Keys -> MessageRows] /\ messages'[k] = m
      /\ \A l \in Keys \ {k} : messages'[l] = messages[l]
  BY <1>1, <1>4, OneRow
<1>9. Typed'
  BY <1>1, <1>6, <1>8 DEF Facts, IInv, Typed
<1>10. \A l \in Keys : ~Sending(l) /\ ~Sending(l)'
  BY <1>1, <1>6 DEF Sending
<1>11. \A l \in Keys : RowOK(l)'
  <2>1. RowOK(k)'
    BY <1>1, <1>7, <1>8, <1>10 DEF RowOK
  <2>2. \A l \in Keys \ {k} : RowOK(l)'
    BY <1>1, <1>8, <1>10 DEF Facts, IInv, RowOK
  <2> QED BY <2>1, <2>2
<1>12. \A b \in tick.recipients \ {c} : messages'[<<tick.draw, b>>].status = NONE
  <2> TAKE b \in tick.recipients \ {c}
  <2>1. <<tick.draw, b>> \in Keys \ {k}
    BY <1>0, <1>1 DEF TickRows, Keys
  <2> QED BY <1>1, <1>8, <2>1
<1>13. TickOK'
  BY <1>1, <1>6, <1>7, <1>8, <1>12 DEF TickOK
<1> QED BY <1>9, <1>11, <1>13 DEF IInv

LEMMA SkipKeeps ==
    ASSUME Facts, SkipReminder
    PROVE  IInv'
<1>0. PICK k \in Keys : k = tick.row
  BY DEF Facts, IInv, TickOK, SkipReminder
<1> DEFINE old == messages[k]
           m == [old EXCEPT !.status = "skipped"]
<1>1. /\ tick.pc = "skipping" /\ tick.draw \in Draws
      /\ tick \in TickRows /\ tick.outbox = {} /\ old.status = "pending"
      /\ \A b \in tick.recipients : messages[<<tick.draw, b>>].status = NONE
      /\ UNCHANGED <<draws, faults>> /\ messages \in [Keys -> MessageRows]
      /\ old \in MessageRows /\ RowOK(k)
  BY <1>0 DEF Facts, IInv, Typed, TickOK, SkipReminder
<1>2. /\ m \in MessageRows /\ messages' = [messages EXCEPT ![k] = m]
      /\ m.status = "skipped" /\ m.attempts = old.attempts
      /\ m.delivered = old.delivered /\ m.unsure = old.unsure
  BY <1>0, <1>1 DEF SkipReminder, MessageRows
<1>3. /\ tick' \in TickRows /\ tick'.pc = "enqueuing" /\ tick'.draw = tick.draw
      /\ tick'.recipients = tick.recipients /\ tick'.outbox = {}
  BY <1>1 DEF SkipReminder, TickRows, Pcs
<1>4. "skipped" # NONE /\ "pending" # NONE
  BY DEF Facts, LotoNames
<1> HIDE DEF m
<1>5. /\ messages' \in [Keys -> MessageRows] /\ messages'[k] = m
      /\ \A l \in Keys \ {k} : messages'[l] = messages[l]
  BY <1>1, <1>2, OneRow
<1>6. Typed'
  BY <1>1, <1>3, <1>5 DEF Facts, IInv, Typed
<1>7. \A l \in Keys : ~Sending(l) /\ ~Sending(l)'
  BY <1>1, <1>3 DEF Sending
<1>8. \A l \in Keys : RowOK(l)'
  <2>1. RowOK(k)'
    BY <1>1, <1>2, <1>4, <1>5, <1>7 DEF RowOK
  <2>2. \A l \in Keys \ {k} : RowOK(l)'
    BY <1>1, <1>5, <1>7 DEF Facts, IInv, RowOK
  <2> QED BY <2>1, <2>2
<1>9. \A b \in tick.recipients : messages'[<<tick.draw, b>>].status = NONE
  <2> TAKE b \in tick.recipients
  <2>1. <<tick.draw, b>> \in Keys \ {k}
    BY <1>1, <1>4 DEF TickRows, Keys
  <2> QED BY <1>1, <1>5, <2>1
<1>10. TickOK'
  BY <1>1, <1>3, <1>9 DEF TickOK
<1> QED BY <1>6, <1>8, <1>10 DEF IInv

-----------------------------------------------------------------------------
(* An SMS goes out.                                                        *)
LEMMA SendKeeps ==
    ASSUME Facts, NEW k \in Keys, Send(k)
    PROVE  IInv'
<1> DEFINE old == messages[k]
<1>1. PICK outcome \in {"sent", "failed"}, reached \in BOOLEAN :
        /\ outcome = "sent" => reached
        /\ tick' = [tick EXCEPT !.pc = "recording", !.outbox = @ \ {k},
                                !.row = k, !.outcome = outcome]
        /\ messages' = [messages EXCEPT
              ![k].delivered = IF reached THEN @ + 1 ELSE @,
              ![k].unsure = @ \/ (reached /\ outcome = "failed")]
  BY DEF Send
<1> DEFINE m == [old EXCEPT !.delivered = IF reached THEN old.delivered + 1
                                                     ELSE old.delivered,
                            !.unsure = old.unsure \/ (reached /\ outcome = "failed")]
<1>2. /\ tick.pc = "sending" /\ k \in tick.outbox
      /\ tick \in TickRows /\ tick.outbox \subseteq Keys
      /\ old.attempts < MAX_ATTEMPTS /\ Pending(k) /\ RowOK(k)
      /\ \A l \in tick.outbox : messages[l].attempts < MAX_ATTEMPTS /\ Pending(l)
      /\ UNCHANGED <<draws, faults>> /\ messages \in [Keys -> MessageRows]
      /\ old \in MessageRows /\ faults \in 0..MaxFaults
      /\ ~Sending(k)
  BY DEF Facts, IInv, Typed, TickOK, Send, TickRows, Sending
<1>3. /\ tick' \in TickRows /\ tick'.pc = "recording" /\ tick'.row = k
      /\ tick'.outbox = tick.outbox \ {k} /\ tick'.outcome = outcome
  BY <1>1, <1>2 DEF TickRows, Pcs
<1>4. /\ old.delivered \in Nat /\ old.attempts \in Nat /\ faults \in Nat
      /\ MAX_ATTEMPTS \in Nat /\ MaxFaults \in Nat
      /\ old.delivered <= old.attempts + faults
  BY <1>2 DEF MessageRows, RowOK, Facts, LotoNumbers
<1>5. /\ messages' = [messages EXCEPT ![k] = m]
      /\ m.status = old.status /\ m.attempts = old.attempts
      /\ m.delivered = IF reached THEN old.delivered + 1 ELSE old.delivered
      /\ m.unsure = (old.unsure \/ (reached /\ outcome = "failed"))
  <2>1. messages' = [messages EXCEPT ![k] = m]
    BY <1>1, <1>2
  <2>2. m.status = old.status /\ m.attempts = old.attempts
    BY <1>2 DEF MessageRows
  <2>3. m.delivered = IF reached THEN old.delivered + 1 ELSE old.delivered
    BY <1>2 DEF MessageRows
  <2>4. m.unsure = (old.unsure \/ (reached /\ outcome = "failed"))
    BY <1>2 DEF MessageRows
  <2> QED BY <2>1, <2>2, <2>3, <2>4
<1>6. m.delivered \in 0..MAX_ATTEMPTS + MaxFaults
  BY <1>2, <1>4, <1>5
<1>7. m \in MessageRows
  BY <1>2, <1>5, <1>6 DEF MessageRows
<1> HIDE DEF m
<1>8. /\ messages' \in [Keys -> MessageRows] /\ messages'[k] = m
      /\ \A l \in Keys \ {k} : messages'[l] = messages[l]
  BY <1>5, <1>7, OneRow
<1>9. Typed'
  BY <1>2, <1>3, <1>8 DEF Facts, IInv, Typed
<1>10. \A l \in Keys : RowOK(l)'
  <2>1. old.status # NONE
    BY <1>2 DEF RowOK, Pending, NoMessage, Facts, LotoNames
  <2>2. Sending(k)' /\ messages'[k].delivered <= messages'[k].attempts + faults' + 1
    BY <1>2, <1>3, <1>4, <1>5, <1>8 DEF Sending
  <2>3. ~m.unsure => /\ m.delivered <= 1
                     /\ m.delivered = 1 => outcome = "sent"
    <3> SUFFICES ASSUME ~m.unsure PROVE m.delivered <= 1 /\ (m.delivered = 1 => outcome = "sent")
      OBVIOUS
    <3>1. ~old.unsure /\ old.status = "pending"
      BY <1>2, <1>5 DEF Pending
    <3>2. old.delivered = 0
      BY <1>2, <1>4, <3>1 DEF RowOK
    <3> QED BY <1>1, <1>5, <3>2
  <2>4. RowOK(k)'
    BY <1>3, <1>5, <1>8, <2>1, <2>2, <2>3 DEF RowOK, Sending
  <2>5. ASSUME NEW l \in Keys \ {k} PROVE RowOK(l)'
    <3>1. ~Sending(l) /\ ~Sending(l)'
      BY <1>2, <1>3 DEF Sending
    <3>2. RowOK(l)
      BY DEF Facts, IInv
    <3> QED BY <1>2, <1>8, <3>1, <3>2 DEF RowOK
  <2> QED BY <2>4, <2>5
<1>11. TickOK'
  <2>1. \A l \in tick'.outbox : messages'[l].attempts < MAX_ATTEMPTS /\ Pending(l)'
    BY <1>2, <1>3, <1>8 DEF Pending
  <2>2. messages'[k].attempts < MAX_ATTEMPTS /\ Pending(k)'
    BY <1>2, <1>5, <1>8 DEF Pending
  <2> QED BY <1>3, <2>1, <2>2 DEF TickOK
<1> QED BY <1>9, <1>10, <1>11 DEF IInv

-----------------------------------------------------------------------------
(* The tick writes what became of an SMS: the row it names gets new values *)
(* and the tick goes on, to the rest of its outbox, to the catch, or to    *)
(* its end.                                                                *)
LEMMA RowSettles ==
    ASSUME Facts, NEW k \in Keys, NEW m \in MessageRows,
           tick.pc \in {"recording", "excusing"}, k = tick.row,
           messages' = [messages EXCEPT ![k] = m],
           UNCHANGED draws, faults' \in faults..MaxFaults,
           tick' \in TickRows, tick'.outbox \subseteq tick.outbox,
           tick'.pc \in {"sending", "excusing", "idle"},
           tick'.pc = "idle" => tick'.outbox = {},
           tick'.pc = "excusing" => /\ tick'.row = k
                                    /\ m.attempts <= MAX_ATTEMPTS
                                    /\ m.unsure,
           m.status # NONE,
           m.delivered <= m.attempts + faults',
           ~m.unsure => m.delivered <= 1 /\ (m.delivered = 1 => m.status = "sent")
    PROVE  IInv'
<1>1. /\ messages' \in [Keys -> MessageRows] /\ messages'[k] = m
      /\ \A l \in Keys \ {k} : messages'[l] = messages[l]
  BY OneRow
<1>2. /\ k \notin tick.outbox /\ tick.outbox \subseteq Keys
      /\ \A l \in tick.outbox : messages[l].attempts < MAX_ATTEMPTS /\ Pending(l)
      /\ messages \in [Keys -> MessageRows] /\ faults \in 0..MaxFaults
      /\ draws \in [Draws -> {NONE, "far", "near", "due"}]
      /\ MaxFaults \in Nat
  BY DEF Facts, IInv, Typed, TickOK, TickRows, LotoNumbers
<1>3. Typed'
  BY <1>1, <1>2 DEF Typed
<1>4. \A l \in Keys : RowOK(l)'
  <2>1. \A l \in Keys : ~Sending(l)'
    BY DEF Sending
  <2>2. RowOK(k)'
    BY <1>1, <1>2, <2>1 DEF RowOK, MessageRows
  <2>3. ASSUME NEW l \in Keys \ {k} PROVE RowOK(l)'
    <3>1. RowOK(l) /\ ~Sending(l) /\ messages[l] \in MessageRows
      BY <1>2 DEF Facts, IInv, Sending
    <3>2. /\ messages[l].delivered \in Nat /\ messages[l].attempts \in Nat
          /\ faults \in Nat /\ faults' \in Nat /\ faults <= faults'
      BY <1>2, <3>1 DEF MessageRows, Facts, LotoNumbers
    <3>3. messages[l].delivered <= messages[l].attempts + faults'
      BY <3>1, <3>2 DEF RowOK
    <3>4. messages'[l] = messages[l]
      BY <1>1
    <3> QED BY <2>1, <3>1, <3>2, <3>3, <3>4 DEF RowOK
  <2> QED BY <2>2, <2>3
<1>5. TickOK'
  <2>1. \A l \in tick'.outbox : messages'[l].attempts < MAX_ATTEMPTS /\ Pending(l)'
    BY <1>1, <1>2 DEF Pending
  <2> QED BY <1>1, <1>2, <2>1 DEF TickOK
<1> QED BY <1>3, <1>4, <1>5 DEF IInv

(* What is known of the row whose outcome is written.                      *)
LEMMA TheRow ==
    ASSUME Facts, tick.pc \in {"recording", "excusing"}
    PROVE  /\ tick.row \in Keys /\ messages[tick.row] \in MessageRows
           /\ messages[tick.row].delivered \in Nat
           /\ messages[tick.row].attempts \in Nat
           /\ faults \in Nat /\ MaxFaults \in Nat /\ MAX_ATTEMPTS \in Nat
           /\ messages[tick.row].status # NONE
           /\ messages[tick.row].delivered
                 <= messages[tick.row].attempts + faults
                    + IF tick.pc = "recording" THEN 1 ELSE 0
           /\ tick \in TickRows
           /\ tick.pc = "recording" =>
                 /\ tick.outcome \in {"sent", "failed"}
                 /\ messages[tick.row].attempts < MAX_ATTEMPTS
                 /\ Pending(tick.row)
           /\ tick.pc = "excusing" =>
                 /\ messages[tick.row].attempts <= MAX_ATTEMPTS
                 /\ messages[tick.row].unsure
<1>1. PICK k \in Keys : k = tick.row
  BY DEF Facts, IInv, TickOK
<1>2. /\ messages[k] \in MessageRows /\ RowOK(k) /\ faults \in 0..MaxFaults
      /\ tick \in TickRows /\ TickOK
  BY DEF Facts, IInv, Typed
<1>3. Pending(k) \/ messages[k].unsure
  BY <1>1, <1>2 DEF TickOK
<1>4. messages[k].status # NONE
  BY <1>2, <1>3 DEF RowOK, Pending, NoMessage, Facts, LotoNames
<1>5. Sending(k) <=> tick.pc = "recording"
  BY <1>1 DEF Sending
<1>6. /\ messages[k].delivered \in Nat /\ messages[k].attempts \in Nat
      /\ faults \in Nat /\ MaxFaults \in Nat /\ MAX_ATTEMPTS \in Nat
  BY <1>2 DEF MessageRows, Facts, LotoNumbers
<1>7. messages[k].delivered <= messages[k].attempts + faults
         + IF tick.pc = "recording" THEN 1 ELSE 0
  BY <1>2, <1>5, <1>6 DEF RowOK
<1> QED BY <1>1, <1>2, <1>4, <1>6, <1>7 DEF TickOK

LEMMA RecordedRow ==
    ASSUME NEW m \in MessageRows, m.attempts \in Nat, MAX_ATTEMPTS \in Nat,
           m.attempts < MAX_ATTEMPTS
    PROVE  /\ Recorded(m) \in MessageRows
           /\ Recorded(m).attempts = m.attempts + 1
           /\ Recorded(m).delivered = m.delivered
           /\ Recorded(m).unsure = m.unsure
           /\ tick.outcome = "sent" => Recorded(m).status = "sent"
           /\ Recorded(m).status \in {"sent", "failed", "pending"}
<1> DEFINE status == IF tick.outcome = "sent" THEN "sent"
                     ELSE IF m.attempts + 1 >= MAX_ATTEMPTS THEN "failed" ELSE "pending"
           waiting == (tick.outcome = "failed" /\ ~(m.attempts + 1 >= MAX_ATTEMPTS))
                        \/ m.waiting
<1>1. Recorded(m) = [m EXCEPT !.attempts = m.attempts + 1, !.status = status,
                              !.waiting = waiting]
  BY DEF Recorded
<1>2. /\ m.attempts + 1 \in 0..MAX_ATTEMPTS + 1
      /\ status \in {"sent", "failed", "pending"} /\ waiting \in BOOLEAN
      /\ tick.outcome = "sent" => status = "sent"
  BY DEF MessageRows
<1> HIDE DEF status, waiting
<1> QED BY <1>1, <1>2 DEF MessageRows

LEMMA RecordingKeeps ==
    ASSUME Facts, RecordOutcome
    PROVE  IInv'
<1>0. tick.pc = "recording"
  BY DEF RecordOutcome
<1>1. PICK k \in Keys : k = tick.row
  BY <1>0, TheRow
<1> DEFINE old == messages[k]
           m == Recorded(old)
<1>2. /\ old \in MessageRows /\ old.delivered \in Nat /\ old.attempts \in Nat
      /\ old.status # NONE /\ old.delivered <= old.attempts + faults + 1
      /\ old.attempts < MAX_ATTEMPTS /\ MAX_ATTEMPTS \in Nat /\ faults \in Nat
      /\ tick \in TickRows /\ tick.outcome \in {"sent", "failed"} /\ Pending(k)
      /\ faults \in 0..MaxFaults /\ RowOK(k) /\ MaxFaults \in Nat
      /\ messages \in [Keys -> MessageRows]
  BY <1>0, <1>1, TheRow DEF Facts, IInv, Typed
<1>3. /\ messages' = [messages EXCEPT ![k] = m]
      /\ UNCHANGED <<draws, faults>>
      /\ tick' = [Tick("sending") EXCEPT !.outbox = tick.outbox]
  BY <1>1, <1>2 DEF RecordOutcome
<1>4. /\ m \in MessageRows /\ m.attempts = old.attempts + 1
      /\ m.delivered = old.delivered /\ m.unsure = old.unsure
      /\ tick.outcome = "sent" => m.status = "sent"
      /\ m.status \in {"sent", "failed", "pending"}
  BY <1>2, RecordedRow
<1>5. /\ tick' \in TickRows /\ tick'.pc = "sending" /\ tick'.outbox = tick.outbox
  BY <1>2, <1>3 DEF Tick, TickRows, Pcs
<1>6. m.delivered <= m.attempts + faults' /\ faults' \in faults..MaxFaults
  BY <1>2, <1>3, <1>4
<1>7. ~m.unsure => m.delivered <= 1 /\ (m.delivered = 1 => m.status = "sent")
  BY <1>2, <1>4 DEF RowOK, Pending
<1>8. m.status # NONE
  BY <1>4 DEF Facts, LotoNames
<1> HIDE DEF m
<1> QED BY <1>0, <1>1, <1>3, <1>4, <1>5, <1>6, <1>7, <1>8, RowSettles

LEMMA ExcusingKeeps ==
    ASSUME Facts, Excuse
    PROVE  IInv'
<1>0. tick.pc = "excusing"
  BY DEF Excuse
<1>1. PICK k \in Keys : k = tick.row
  BY <1>0, TheRow
<1> DEFINE old == messages[k]
           m == [old EXCEPT !.status = "pending", !.attempts = old.attempts + 1,
                            !.waiting = TRUE]
<1>2. /\ old \in MessageRows /\ old.delivered \in Nat /\ old.attempts \in Nat
      /\ old.delivered <= old.attempts + faults
      /\ old.attempts <= MAX_ATTEMPTS /\ MAX_ATTEMPTS \in Nat /\ faults \in Nat
      /\ tick \in TickRows /\ old.unsure /\ faults \in 0..MaxFaults
      /\ MaxFaults \in Nat /\ messages \in [Keys -> MessageRows]
  <2>1. /\ old.delivered \in Nat /\ old.attempts \in Nat /\ faults \in Nat
        /\ old.delivered <= old.attempts + faults + 0
    BY <1>0, <1>1, TheRow
  <2>2. old.delivered <= old.attempts + faults
    BY <2>1
  <2> QED BY <1>0, <1>1, <2>2, TheRow DEF Facts, IInv, Typed
<1>3. /\ messages' = [messages EXCEPT ![k] = m]
      /\ UNCHANGED <<draws, faults>>
      /\ tick' = [Tick("sending") EXCEPT !.outbox = tick.outbox]
  BY <1>1, <1>2 DEF Excuse
<1>4. /\ m \in MessageRows /\ m.attempts = old.attempts + 1
      /\ m.delivered = old.delivered /\ m.unsure = old.unsure
      /\ m.status = "pending"
  <2>1. old.attempts + 1 \in 0..MAX_ATTEMPTS + 1
    BY <1>2
  <2> QED BY <1>2, <2>1 DEF MessageRows
<1>5. /\ tick' \in TickRows /\ tick'.pc = "sending" /\ tick'.outbox = tick.outbox
  BY <1>2, <1>3 DEF Tick, TickRows, Pcs
<1>6. m.delivered <= m.attempts + faults' /\ faults' \in faults..MaxFaults
  BY <1>2, <1>3, <1>4
<1>7. m.status # NONE
  BY <1>4 DEF Facts, LotoNames
<1> HIDE DEF m
<1> QED BY <1>0, <1>1, <1>2, <1>3, <1>4, <1>5, <1>6, <1>7, RowSettles

LEMMA RecordFailsKeeps ==
    ASSUME Facts, RecordFails
    PROVE  IInv'
<1>0. tick.pc = "recording"
  BY DEF RecordFails
<1>1. PICK k \in Keys : k = tick.row
  BY <1>0, TheRow
<1>2. PICK applied \in BOOLEAN :
        messages' = [messages EXCEPT ![tick.row] =
           [(IF applied THEN Recorded(@) ELSE @) EXCEPT !.unsure = TRUE]]
  BY DEF RecordFails
<1> DEFINE old == messages[k]
           now == IF applied THEN Recorded(old) ELSE old
           m == [now EXCEPT !.unsure = TRUE]
<1>3. /\ old \in MessageRows /\ old.delivered \in Nat /\ old.attempts \in Nat
      /\ old.status # NONE /\ old.delivered <= old.attempts + faults + 1
      /\ old.attempts < MAX_ATTEMPTS /\ MAX_ATTEMPTS \in Nat /\ faults \in Nat
      /\ tick \in TickRows /\ tick.outcome \in {"sent", "failed"}
      /\ faults < MaxFaults /\ MaxFaults \in Nat
      /\ messages \in [Keys -> MessageRows]
  BY <1>0, <1>1, TheRow DEF RecordFails, Facts, IInv, Typed
<1>4. /\ messages' = [messages EXCEPT ![k] = m]
      /\ UNCHANGED draws /\ faults' = faults + 1
      /\ tick' = [tick EXCEPT !.pc = "excusing"]
  BY <1>1, <1>2, <1>3 DEF RecordFails
<1>5. /\ Recorded(old) \in MessageRows /\ Recorded(old).attempts = old.attempts + 1
      /\ Recorded(old).delivered = old.delivered
      /\ Recorded(old).status \in {"sent", "failed", "pending"}
  BY <1>3, RecordedRow
<1>6. /\ now \in MessageRows /\ now.attempts \in {old.attempts, old.attempts + 1}
      /\ now.delivered = old.delivered /\ now.status # NONE
  BY <1>3, <1>5 DEF Facts, LotoNames
<1> HIDE DEF now
<1>7. /\ m \in MessageRows /\ m.attempts = now.attempts
      /\ m.delivered = now.delivered /\ m.unsure /\ m.status = now.status
  BY <1>6 DEF MessageRows
<1>8. /\ tick' \in TickRows /\ tick'.pc = "excusing" /\ tick'.outbox = tick.outbox
      /\ tick'.row = k
  BY <1>1, <1>3, <1>4 DEF TickRows, Pcs
<1>9. /\ m.delivered <= m.attempts + faults' /\ faults' \in faults..MaxFaults
      /\ m.attempts <= MAX_ATTEMPTS
  BY <1>3, <1>4, <1>6, <1>7
<1> HIDE DEF m
<1> QED BY <1>0, <1>1, <1>4, <1>6, <1>7, <1>8, <1>9, RowSettles

LEMMA DyingKeeps ==
    ASSUME Facts, TickDies
    PROVE  IInv'
<1>1. /\ faults < MaxFaults /\ faults' = faults + 1 /\ UNCHANGED draws
      /\ faults \in Nat /\ MaxFaults \in Nat /\ faults' \in faults..MaxFaults
  BY DEF TickDies, Facts, IInv, Typed, LotoNumbers
<1>2. /\ tick' \in TickRows /\ tick'.pc = "idle" /\ tick'.outbox = {}
  BY DEF TickDies, Idle, Tick, TickRows, Pcs
<1>3. CASE Interrupted
  <2>0. tick.pc \in {"recording", "excusing"}
    BY <1>3 DEF Interrupted
  <2>1. PICK k \in Keys : k = tick.row
    BY <2>0, TheRow
  <2> DEFINE old == messages[k]
             m == [old EXCEPT !.unsure = TRUE]
  <2>2. /\ old \in MessageRows /\ old.delivered \in Nat /\ old.attempts \in Nat
        /\ old.delivered <= old.attempts + faults + IF tick.pc = "recording" THEN 1 ELSE 0
        /\ old.status # NONE /\ messages \in [Keys -> MessageRows]
    BY <2>0, <2>1, TheRow DEF Facts, IInv, Typed
  <2>3. messages' = [messages EXCEPT ![k] = m]
    BY <1>3, <2>1, <2>2 DEF TickDies
  <2>4. /\ m \in MessageRows /\ m.attempts = old.attempts /\ m.status = old.status
        /\ m.delivered = old.delivered /\ m.unsure
    BY <2>2 DEF MessageRows
  <2>5. m.delivered <= m.attempts + faults'
    BY <1>1, <2>2, <2>4
  <2> HIDE DEF m
  <2> QED BY <1>1, <1>2, <2>0, <2>1, <2>2, <2>3, <2>4, <2>5, RowSettles
<1>4. CASE ~Interrupted
  <2>1. messages' = messages
    BY <1>4 DEF TickDies
  <2>2. Typed'
    BY <1>1, <1>2, <2>1 DEF Facts, IInv, Typed
  <2>3. TickOK'
    BY <1>2 DEF TickOK
  <2>4. ASSUME NEW l \in Keys PROVE RowOK(l)'
    <3>1. RowOK(l) /\ ~Sending(l) /\ ~Sending(l)' /\ messages[l] \in MessageRows
      BY <1>2, <1>4 DEF Facts, IInv, Typed, Sending, Interrupted
    <3>2. messages[l].delivered \in Nat /\ messages[l].attempts \in Nat
      BY <3>1 DEF MessageRows, Facts, LotoNumbers
    <3>3. messages[l].delivered <= messages[l].attempts + faults'
      BY <1>1, <3>1, <3>2 DEF RowOK
    <3> QED BY <1>1, <2>1, <3>1, <3>2, <3>3 DEF RowOK
  <2> QED BY <2>2, <2>3, <2>4 DEF IInv
<1> QED BY <1>3, <1>4

-----------------------------------------------------------------------------
LEMMA NextKeepsIInv == LotoNumbers /\ LotoNames /\ IInv /\ [Next]_vars => IInv'
<1> SUFFICES ASSUME Facts, [Next]_vars PROVE IInv'
  BY DEF Facts
<1>1. CASE TickStep
  BY <1>1, ReadingKeeps, EnqueueKeeps, SkipKeeps, SendKeeps, RecordingKeeps,
     ExcusingKeeps DEF TickStep
<1>2. CASE AdminSchedulesDraw \/ TimePasses
  BY <1>2, BesideTheTick
<1>3. CASE \E k \in Keys : BackoffEnds(k) \/ AdminRetries(k)
  BY <1>3, OthersWrite
<1>4. CASE RecordFails
  BY <1>4, RecordFailsKeeps
<1>5. CASE TickDies
  BY <1>5, DyingKeeps
<1>6. CASE UNCHANGED vars
  BY <1>6, DrawsKeep DEF vars, Facts, IInv, Typed
<1> QED BY <1>1, <1>2, <1>3, <1>4, <1>5, <1>6 DEF Next

(* What the tick has read is still so when it acts on it, and every SMS    *)
(* that went out shows in its row as an attempt or a fault.                *)
THEOREM RowsCountDeliveries == Spec => []IInv
<1>1. LotoNumbers /\ LotoNames
  BY LotoNumbers, LotoNames
<1> QED BY <1>1, InitIInv, NextKeepsIInv, PTL DEF Spec

(* Every variable keeps its type; attempts and deliveries stay bounded.    *)
THEOREM SchedulerTyped == Spec => []TypeOK
<1>1. IInv => TypeOK
  BY DEF IInv, Typed, TypeOK, MessageRows, TickRows
<1> QED BY <1>1, RowsCountDeliveries, PTL

(* A reminder reaches its player once, unless an administrator asked for   *)
(* another or an answer was lost.                                          *)
THEOREM RemindersArriveOnce == Spec => []RemindedOnce
<1>1. IInv => RemindedOnce
  <2> SUFFICES ASSUME IInv, NEW k \in Keys, messages[k].delivered > 1,
                      ~messages[k].unsure
               PROVE  FALSE
    BY DEF RemindedOnce, IInv, Typed, MessageRows
  <2>1. RowOK(k) /\ messages[k] \in MessageRows
    BY DEF IInv, Typed
  <2>2. messages[k].delivered \in Int
    BY <2>1 DEF MessageRows
  <2> QED BY <2>1, <2>2 DEF RowOK
<1> QED BY <1>1, RowsCountDeliveries, PTL
=============================================================================
