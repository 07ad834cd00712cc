-------------------------- MODULE WebhookDelivery --------------------------
(***************************************************************************)
(* server/webhook-delivery.ts: an event is posted to every subscription in *)
(* turn; an attempt that fails is logged with the time of its retry, and   *)
(* every minute a sweep takes up the retries that are due.  A sweep does   *)
(* not wait for the one before it, and attempts to one subscription can be *)
(* under way in several places, each with the failure count it once read.  *)
(*                                                                         *)
(* The subscriptions are those that want every event and whose URL is not  *)
(* refused: one with an unsafe URL is never posted to, and an attempt at   *)
(* it leaves no trace.  A log row keeps of nextRetryAt whether there is    *)
(* none, or one later, or one that is due.                                 *)
(***************************************************************************)
EXTENDS Naturals, Sequences, FiniteSets

CONSTANTS
    Events,      \* calls of deliverWebhook
    Sweeps,      \* runs of processRetries under way at a time
    Subs,        \* subscriptions
    MaxRetries,  \* MAX_RETRIES: attempts at an event
    Threshold,   \* failures that disable a subscription (10 in the code)
    MaxLogs      \* bound on the delivery log

ASSUME WebhookNames == Events \cap Sweeps = {}

ASSUME WebhookNumbers ==
    /\ MaxRetries \in Nat \ {0}
    /\ Threshold \in Nat \ {0}
    /\ MaxLogs \in Nat

VARIABLES
    active,    \* subscriptions whose status is active
    failures,  \* failure_count of each subscription
    logs,      \* webhook_delivery_logs, oldest first
    pc,        \* where each delivery and each sweep is
    todo,      \* what it still has to go through
    attempt,   \* the attempt it is making
    overlap    \* a sweep has begun while another was under way

tables == <<active, failures, logs>>
vars == <<tables, pc, todo, attempt, overlap>>

Workers == Events \cup Sweeps

(* An attempt: the failure count it read, and the log row it retries, or 0. *)
Attempt(s, e, n, count, of, ok) ==
    [sub |-> s, event |-> e, number |-> n, count |-> count, of |-> of, ok |-> ok]

Entry(a, next) ==
    [sub |-> a.sub, event |-> a.event, number |-> a.number, ok |-> a.ok, next |-> next]

Start(w) == IF w \in Events THEN "deliver" ELSE "idle"
End(w) == IF w \in Events THEN "done" ELSE "idle"
NoAttempt == {}

Init ==
    /\ active = Subs
    /\ failures = [s \in Subs |-> 0]
    /\ logs = <<>>
    /\ pc = [w \in Workers |-> Start(w)]
    /\ todo = [w \in Workers |-> {}]
    /\ attempt = [w \in Workers |-> NoAttempt]
    /\ overlap = FALSE

Goto(w, place) == pc' = [pc EXCEPT ![w] = place]
Make(w, a) == attempt' = [attempt EXCEPT ![w] = {a}]
Forget(w) == attempt' = [attempt EXCEPT ![w] = NoAttempt]

(* The attempt under way, and the end of it.                               *)
The(w) == CHOOSE a \in attempt[w] : TRUE
NextOne(w) == Goto(w, "next") /\ Forget(w)

-----------------------------------------------------------------------------
(* deliverWebhook                                                          *)

(* One SELECT gives the failure counts all its attempts will use.          *)
Deliver(e) ==
    /\ pc[e] = "deliver"
    /\ todo' = [todo EXCEPT ![e] =
          {Attempt(s, e, 1, failures[s], 0, FALSE) : s \in active}]
    /\ Goto(e, "next")
    /\ UNCHANGED <<tables, attempt, overlap>>

NextSub(e) ==
    /\ pc[e] = "next"
    /\ \E a \in todo[e] :
          /\ Make(e, a)
          /\ todo' = [todo EXCEPT ![e] = @ \ {a}]
    /\ Goto(e, "post")
    /\ UNCHANGED <<tables, overlap>>

-----------------------------------------------------------------------------
(* processRetries                                                          *)

Due == {i \in DOMAIN logs : ~logs[i].ok /\ logs[i].next = "due"}
Sweeping == {w \in Sweeps : pc[w] # "idle"}

Sweep(w) ==
    /\ pc[w] = "idle"
    /\ Due # {}
    /\ todo' = [todo EXCEPT ![w] = Due]
    /\ overlap' = (overlap \/ Sweeping # {})
    /\ Goto(w, "next")
    /\ UNCHANGED <<tables, attempt>>

(* A row whose attempts are used up is given up; otherwise its             *)
(* subscription is read afresh.                                            *)
NextRetry(w) ==
    /\ pc[w] = "next"
    /\ \E i \in todo[w] :
          /\ Make(w, Attempt(logs[i].sub, logs[i].event, logs[i].number + 1,
                             failures[logs[i].sub], i, FALSE))
          /\ todo' = [todo EXCEPT ![w] = @ \ {i}]
          /\ Goto(w, IF logs[i].number < MaxRetries /\ logs[i].sub \in active
                     THEN "take" ELSE "drop")
    /\ UNCHANGED <<tables, overlap>>

Cleared(i) == [logs EXCEPT ![i].next = "none"]

TakesWithoutClearing(w) ==
    /\ pc[w] = "take"
    /\ Goto(w, "post")
    /\ UNCHANGED <<tables, todo, attempt, overlap>>

(* nextRetryAt is cleared before the attempt is made.                      *)
Take(w) ==
    /\ pc[w] = "take"
    /\ logs' = Cleared(The(w).of)
    /\ Goto(w, "post")
    /\ UNCHANGED <<active, failures, todo, attempt, overlap>>

(* No attempt is left, or the subscription is no longer active.            *)
Drop(w) ==
    /\ pc[w] = "drop"
    /\ logs' = Cleared(The(w).of)
    /\ NextOne(w)
    /\ UNCHANGED <<active, failures, todo, overlap>>

(* A SELECT or the UPDATE fails, applied or not: the sweep ends here.      *)
SweepFails(w) ==
    /\ \/ pc[w] = "next" /\ todo[w] # {} /\ UNCHANGED logs
       \/ pc[w] \in {"take", "drop"} /\ logs' \in {logs, Cleared(The(w).of)}
    /\ Goto(w, "idle")
    /\ Forget(w)
    /\ todo' = [todo EXCEPT ![w] = {}]
    /\ UNCHANGED <<active, failures, overlap>>

-----------------------------------------------------------------------------
(* attemptDelivery                                                         *)

(* The receiver answers 2xx in time, or the attempt counts as failed.      *)
Post(w) ==
    /\ pc[w] = "post"
    /\ \E ok \in BOOLEAN : Make(w, [The(w) EXCEPT !.ok = ok])
    /\ Goto(w, "log")
    /\ UNCHANGED <<tables, todo, overlap>>

RetriesWithoutEnd(a) == IF ~a.ok THEN "later" ELSE "none"

RetryAt(a) == IF ~a.ok /\ a.number < MaxRetries THEN "later" ELSE "none"

Logged(w) == Append(logs, Entry(The(w), RetryAt(The(w))))

Log(w) ==
    /\ pc[w] = "log"
    /\ Len(logs) < MaxLogs
    /\ logs' = Logged(w)
    /\ Goto(w, "count")
    /\ UNCHANGED <<active, failures, todo, attempt, overlap>>

CountsOthersToo(a) == IF a.ok THEN 0 ELSE failures[a.sub] + a.count + 1

Counted(a) == IF a.ok THEN 0 ELSE a.count + 1

(* The count is written from the one that was read before the attempt.     *)
Count(w) ==
    /\ pc[w] = "count"
    /\ failures' = [failures EXCEPT ![The(w).sub] = Counted(The(w))]
    /\ \/ /\ ~The(w).ok
          /\ The(w).count >= Threshold - 1
          /\ Goto(w, "disable")
          /\ UNCHANGED attempt
       \/ /\ The(w).ok \/ The(w).count < Threshold - 1
          /\ NextOne(w)
    /\ UNCHANGED <<active, logs, todo, overlap>>

Disable(w) ==
    /\ pc[w] = "disable"
    /\ active' = active \ {The(w).sub}
    /\ NextOne(w)
    /\ UNCHANGED <<failures, logs, todo, overlap>>

(* A write fails, applied or not, and those after it are left out.         *)
RecordFails(w) ==
    /\ \/ /\ pc[w] = "log"
          /\ Len(logs) < MaxLogs
          /\ logs' \in {logs, Logged(w)}
          /\ UNCHANGED <<active, failures>>
       \/ /\ pc[w] = "count"
          /\ failures' \in {failures, [failures EXCEPT ![The(w).sub] = Counted(The(w))]}
          /\ UNCHANGED <<active, logs>>
       \/ /\ pc[w] = "disable"
          /\ active' \in {active, active \ {The(w).sub}}
          /\ UNCHANGED <<failures, logs>>
    /\ NextOne(w)
    /\ UNCHANGED <<todo, overlap>>

Through(w) ==
    /\ pc[w] = "next"
    /\ todo[w] = {}
    /\ Goto(w, End(w))
    /\ UNCHANGED <<tables, todo, attempt, overlap>>

-----------------------------------------------------------------------------
DelayPasses ==
    /\ \E i \in DOMAIN logs :
          /\ logs[i].next = "later"
          /\ logs' = [logs EXCEPT ![i].next = "due"]
    /\ UNCHANGED <<active, failures, pc, todo, attempt, overlap>>

(* The process dies: deliveries under way end, sweeps start over.          *)
Crash ==
    /\ pc' = [w \in Workers |-> IF pc[w] = Start(w) THEN pc[w] ELSE End(w)]
    /\ todo' = [w \in Workers |-> {}]
    /\ attempt' = [w \in Workers |-> NoAttempt]
    /\ UNCHANGED <<tables, overlap>>

Next ==
    \/ \E e \in Events : Deliver(e) \/ NextSub(e)
    \/ \E w \in Sweeps : Sweep(w) \/ NextRetry(w) \/ Take(w) \/ Drop(w) \/ SweepFails(w)
    \/ \E w \in Workers : Post(w) \/ Log(w) \/ Count(w) \/ Disable(w)
                            \/ RecordFails(w) \/ Through(w)
    \/ DelayPasses
    \/ Crash

Spec == Init /\ [][Next]_vars
-----------------------------------------------------------------------------
Numbers == 1..MaxRetries
Attempts == [sub : Subs, event : Events, number : Numbers, count : 0..MaxLogs,
             of : 0..MaxLogs, ok : BOOLEAN]
Places == {"deliver", "idle", "next", "take", "drop", "post", "log", "count",
           "disable", "done"}

(* A retry is set for failed attempts short of MAX_RETRIES only; rows and  *)
(* what a worker holds have their shapes.                                  *)
TypeOK ==
    /\ active \subseteq Subs
    /\ failures \in [Subs -> 0..MaxLogs]
    /\ logs \in Seq([sub : Subs, event : Events, number : Numbers, ok : BOOLEAN,
                     next : {"none", "later", "due"}])
    /\ pc \in [Workers -> Places]
    /\ \A e \in Events : todo[e] \subseteq Attempts
    /\ \A w \in Sweeps : todo[w] \subseteq DOMAIN logs
    /\ \A w \in Workers : attempt[w] \subseteq Attempts /\ Cardinality(attempt[w]) <= 1
    /\ overlap \in BOOLEAN
    /\ \A i \in DOMAIN logs :
          logs[i].next # "none" => ~logs[i].ok /\ logs[i].number < MaxRetries

(* Every retry goes back to a failed attempt at the same event that is not *)
(* due any more, down to the first, and none goes beyond MAX_RETRIES.      *)
RetriesFollowFailures ==
    \A i \in DOMAIN logs :
        /\ logs[i].number <= MaxRetries
        /\ logs[i].number > 1 =>
              \E k \in 1..i - 1 :
                  /\ logs[k].sub = logs[i].sub /\ logs[k].event = logs[i].event
                  /\ logs[k].number = logs[i].number - 1
                  /\ ~logs[k].ok /\ logs[k].next = "none"

(* As long as no sweep overtook another, an event has one chain of         *)
(* attempts at each subscription, and nothing follows a success: crashes   *)
(* and failed statements lose retries but repeat none.                     *)
OneChainOfAttempts ==
    ~overlap =>
        \A i, k \in DOMAIN logs :
            i < k /\ logs[i].sub = logs[k].sub /\ logs[i].event = logs[k].event =>
                ~logs[i].ok /\ logs[i].number < logs[k].number

Failed(s) == {i \in DOMAIN logs : logs[i].sub = s /\ ~logs[i].ok}

(* However stale the counts that attempts write back, a subscription never *)
(* has more failures on its account than failed attempts in the log, and   *)
(* is disabled only after as many as the threshold asks for.  They need    *)
(* not be consecutive, as the log line of webhook-delivery.ts says: an     *)
(* attempt that read its count before a success writes the old count back. *)
FailuresAreReal ==
    \A s \in Subs :
        /\ failures[s] <= Cardinality(Failed(s))
        /\ s \notin active => Cardinality(Failed(s)) >= Threshold
=============================================================================
