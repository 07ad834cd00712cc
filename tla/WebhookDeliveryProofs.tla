------------------------ MODULE WebhookDeliveryProofs ------------------------
(***************************************************************************)
(* Why webhook retries are honest, for any number of events, subscriptions *)
(* and sweeps, whatever fails and whenever the process dies: a delivery    *)
(* log row never changes but for the time of its retry, so what an attempt *)
(* was once based on stays true; and as long as no sweep overtakes another *)
(* only the latest attempt at an event has a retry to come.                *)
(***************************************************************************)
EXTENDS WebhookDelivery, FiniteSetTheorems, TLAPS

LogRows == [sub : Subs, event : Events, number : Numbers, ok : BOOLEAN,
            next : {"none", "later", "due"}]

InHand == {"take", "drop", "post", "log", "count", "disable"}

Tables ==
    /\ active \subseteq Subs
    /\ failures \in [Subs -> Nat]
    /\ logs \in Seq(LogRows)
    /\ Len(logs) <= MaxLogs
    /\ overlap \in BOOLEAN
    /\ pc \in [Workers -> Places]
    /\ todo = [w \in Workers |-> todo[w]]
    /\ attempt \in [Workers -> SUBSET Attempts]

(* A worker holds an attempt exactly while it is making it.                *)
Stands(w) ==
    /\ w \in Events => pc[w] \notin {"idle", "take", "drop"} /\ todo[w] \subseteq Attempts
    /\ w \in Sweeps => pc[w] \notin {"deliver", "done"} /\ todo[w] \subseteq DOMAIN logs
    /\ w \in Sweeps /\ pc[w] = "idle" => todo[w] = {}
    /\ IF pc[w] \in InHand THEN \E a \in Attempts : attempt[w] = {a}
                           ELSE attempt[w] = {}

(* Only failed rows have a retry to come.                                  *)
Pending == \A i \in DOMAIN logs :
              logs[i].next # "none" => ~logs[i].ok /\ logs[i].number < MaxRetries

(* A row that a sweep takes up: it failed, and was due when it was read.   *)
Taken(i) ==
    /\ ~logs[i].ok
    /\ logs[i].number < MaxRetries
    /\ logs[i].next # "later"

Retries(a, i) ==
    /\ logs[i].sub = a.sub
    /\ logs[i].event = a.event
    /\ a.number = logs[i].number + 1

(* A retry is of such a row, and the row is not due any more when the      *)
(* attempt is made.                                                        *)
Resends(w) ==
    /\ \A i \in todo[w] : Taken(i)
    /\ \A a \in attempt[w] :
          /\ a.of \in DOMAIN logs
          /\ Taken(a.of)
          /\ Retries(a, a.of)
          /\ pc[w] \notin {"take", "drop"} => logs[a.of].next = "none"

FailedCount(s) == Cardinality(Failed(s))

(* The count an attempt has read is not above the failures in the log, and *)
(* neither is the one it will write.                                       *)
Honest(w) ==
    /\ w \in Events => \A a \in todo[w] : a.count <= FailedCount(a.sub)
    /\ \A a \in attempt[w] :
          /\ a.count <= FailedCount(a.sub)
          /\ pc[w] \in {"count", "disable"} /\ ~a.ok => a.count + 1 <= FailedCount(a.sub)
          /\ pc[w] = "disable" => ~a.ok /\ a.count + 1 >= Threshold

Tried(s, e) == \E i \in DOMAIN logs : logs[i].sub = s /\ logs[i].event = e

(* A delivery makes the first attempts at its event, one per subscription. *)
Firsts(e) ==
    /\ pc[e] = "deliver" => \A i \in DOMAIN logs : logs[i].event # e
    /\ \A a \in todo[e] : a.number = 1 /\ a.event = e /\ ~Tried(a.sub, e)
    /\ \A a, b \in todo[e] : a.sub = b.sub => a = b
    /\ \A a \in attempt[e] :
          /\ a.number = 1 /\ a.event = e
          /\ pc[e] \in {"post", "log"} => ~Tried(a.sub, e)
          /\ \A b \in todo[e] : a.sub # b.sub

SameChain(i, k) == logs[i].sub = logs[k].sub /\ logs[i].event = logs[k].event
Latest(i) == \A k \in DOMAIN logs : SameChain(i, k) => k <= i

OneSweep == \A v, w \in Sweeps : pc[v] # "idle" /\ pc[w] # "idle" => v = w

PendingIsLatest == \A i \in DOMAIN logs : logs[i].next # "none" => Latest(i)

(* What a sweep is at is the latest attempt of its chain.                  *)
Leads(w) ==
    /\ \A i \in todo[w] : Latest(i)
    /\ \A a \in attempt[w] :
          pc[w] \in {"take", "drop", "post", "log"} =>
             Latest(a.of) /\ a.of \notin todo[w]

OneChain ==
    \A i, k \in DOMAIN logs :
        i < k /\ SameChain(i, k) => ~logs[i].ok /\ logs[i].number < logs[k].number

(* Until a sweep overtakes another, whatever has a retry to come is the    *)
(* latest attempt of its chain, and is taken up by one sweep only.         *)
Chains ==
    ~overlap =>
        /\ OneSweep
        /\ PendingIsLatest
        /\ \A w \in Sweeps : Leads(w)
        /\ OneChain

IInv ==
    /\ Tables
    /\ Pending
    /\ RetriesFollowFailures
    /\ FailuresAreReal
    /\ \A w \in Workers : Stands(w) /\ Honest(w)
    /\ \A w \in Sweeps : Resends(w)
    /\ \A e \in Events : Firsts(e)
    /\ Chains

-----------------------------------------------------------------------------
(* The rows of the log stay what they are, and no retry is put off again.  *)
Calm ==
    /\ logs' \in Seq(LogRows)
    /\ Len(logs') = Len(logs)
    /\ \A i \in 1..Len(logs) :
          /\ logs'[i].sub = logs[i].sub
          /\ logs'[i].event = logs[i].event
          /\ logs'[i].number = logs[i].number
          /\ logs'[i].ok = logs[i].ok
          /\ logs[i].next = "none" => logs'[i].next = "none"
          /\ logs[i].next # "later" => logs'[i].next # "later"

LEMMA LogFacts ==
    ASSUME Tables
    PROVE  /\ DOMAIN logs = 1..Len(logs)
           /\ Len(logs) \in Nat
           /\ \A i \in DOMAIN logs : logs[i] \in LogRows
  BY DEF Tables

LEMMA UnchangedIsCalm ==
    ASSUME Tables, UNCHANGED logs
    PROVE  Calm
  BY DEF Tables, Calm

LEMMA ClearedIsCalm ==
    ASSUME Tables, NEW i \in DOMAIN logs, logs' = Cleared(i)
    PROVE  Calm /\ logs'[i].next = "none"
<1>1. logs' = [logs EXCEPT ![i] = [logs[i] EXCEPT !.next = "none"]]
  BY DEF Cleared
<1>2. logs[i] \in LogRows /\ i \in 1..Len(logs)
  BY LogFacts
<1>3. [logs[i] EXCEPT !.next = "none"] \in LogRows
  BY <1>2 DEF LogRows
<1>. QED
  BY <1>1, <1>2, <1>3, LogFacts DEF Tables, Calm, LogRows

LEMMA DueIsCalm ==
    ASSUME Tables, NEW i \in DOMAIN logs, logs[i].next = "later",
           logs' = [logs EXCEPT ![i].next = "due"]
    PROVE  Calm
<1>1. logs' = [logs EXCEPT ![i] = [logs[i] EXCEPT !.next = "due"]]
  OBVIOUS
<1>2. logs[i] \in LogRows /\ i \in 1..Len(logs)
  BY LogFacts
<1>3. [logs[i] EXCEPT !.next = "due"] \in LogRows
  BY <1>2 DEF LogRows
<1>. QED
  BY <1>1, <1>2, <1>3, LogFacts DEF Tables, Calm, LogRows

LEMMA CalmRows ==
    ASSUME IInv, Calm
    PROVE  /\ DOMAIN logs' = DOMAIN logs
           /\ \A s : Failed(s)' = Failed(s)
           /\ \A s \in Subs : FailedCount(s)' = FailedCount(s)
           /\ \A s, e : Tried(s, e)' <=> Tried(s, e)
           /\ \A i \in DOMAIN logs : Latest(i)' <=> Latest(i)
           /\ Pending'
           /\ RetriesFollowFailures'
           /\ PendingIsLatest => PendingIsLatest'
           /\ OneChain => OneChain'
<1>1. /\ DOMAIN logs = 1..Len(logs) /\ DOMAIN logs' = DOMAIN logs
      /\ Len(logs) \in Nat
      /\ \A i \in DOMAIN logs :
          /\ logs'[i].sub = logs[i].sub
          /\ logs'[i].event = logs[i].event
          /\ logs'[i].number = logs[i].number
          /\ logs'[i].ok = logs[i].ok
          /\ logs[i].next = "none" => logs'[i].next = "none"
  BY LogFacts DEF IInv, Calm
<1>2. \A s : Failed(s)' = Failed(s)
  BY <1>1 DEF Failed
<1>3. \A s \in Subs : FailedCount(s)' = FailedCount(s)
  BY <1>2 DEF FailedCount
<1>4. \A s, e : Tried(s, e)' <=> Tried(s, e)
  BY <1>1 DEF Tried
<1>5. \A i \in DOMAIN logs : Latest(i)' <=> Latest(i)
  BY <1>1 DEF Latest, SameChain
<1>6. Pending'
  BY <1>1 DEF IInv, Pending
<1>7. RetriesFollowFailures'
  <2>. SUFFICES ASSUME NEW i \in DOMAIN logs
                PROVE  /\ logs'[i].number <= MaxRetries
                       /\ logs'[i].number > 1 =>
                             \E k \in 1..i - 1 :
                                /\ logs'[k].sub = logs'[i].sub
                                /\ logs'[k].event = logs'[i].event
                                /\ logs'[k].number = logs'[i].number - 1
                                /\ ~logs'[k].ok /\ logs'[k].next = "none"
    BY <1>1 DEF RetriesFollowFailures
  <2>1. logs'[i].number = logs[i].number /\ logs[i].number <= MaxRetries
    BY <1>1 DEF IInv, RetriesFollowFailures
  <2>2. ASSUME logs[i].number > 1
        PROVE  \E k \in 1..i - 1 :
                  /\ logs'[k].sub = logs'[i].sub
                  /\ logs'[k].event = logs'[i].event
                  /\ logs'[k].number = logs'[i].number - 1
                  /\ ~logs'[k].ok /\ logs'[k].next = "none"
    <3>1. PICK k \in 1..i - 1 :
             /\ logs[k].sub = logs[i].sub /\ logs[k].event = logs[i].event
             /\ logs[k].number = logs[i].number - 1
             /\ ~logs[k].ok /\ logs[k].next = "none"
      BY <2>2 DEF IInv, RetriesFollowFailures
    <3>2. k \in DOMAIN logs
      BY <1>1
    <3>. QED
      BY <1>1, <3>1, <3>2
  <2>. QED
    BY <2>1, <2>2
<1>8. PendingIsLatest => PendingIsLatest'
  BY <1>1, <1>5 DEF PendingIsLatest
<1>9. OneChain => OneChain'
  BY <1>1 DEF OneChain, SameChain
<1>. QED
  BY <1>1, <1>2, <1>3, <1>4, <1>5, <1>6, <1>7, <1>8, <1>9

(* A worker at rest stays as it was while others step.                     *)
LEMMA CalmOthers ==
    ASSUME IInv, Calm, NEW v \in Workers,
           pc'[v] = pc[v], todo'[v] = todo[v], attempt'[v] = attempt[v]
    PROVE  /\ Stands(v)' /\ Honest(v)'
           /\ v \in Sweeps => Resends(v)' /\ (Leads(v) => Leads(v)')
           /\ v \in Events => Firsts(v)'
<1>1. /\ DOMAIN logs' = DOMAIN logs
      /\ DOMAIN logs = 1..Len(logs)
      /\ \A s \in Subs : FailedCount(s)' = FailedCount(s)
      /\ \A s, e : Tried(s, e)' <=> Tried(s, e)
      /\ \A i \in DOMAIN logs : Latest(i)' <=> Latest(i)
  BY CalmRows, LogFacts DEF IInv
<1>2. Stands(v) /\ Honest(v) /\ attempt[v] \subseteq Attempts
  BY DEF IInv, Tables
<1>3. \A a \in Attempts : a.sub \in Subs /\ a.event \in Events
  BY DEF Attempts
<1>4. Stands(v)'
  BY <1>1, <1>2 DEF Stands
<1>5. Honest(v)'
  BY <1>1, <1>2, <1>3 DEF Honest, Stands
<1>6. ASSUME v \in Sweeps PROVE Resends(v)' /\ (Leads(v) => Leads(v)')
  <2>1. todo[v] \subseteq DOMAIN logs /\ Resends(v)
    BY <1>2, <1>6 DEF Stands, IInv
  <2>2. \A i \in DOMAIN logs : Taken(i) => Taken(i)'
    BY <1>1 DEF Calm, Taken
  <2>3. \A i \in DOMAIN logs : \A a : Retries(a, i) => Retries(a, i)'
    BY <1>1 DEF Calm, Retries
  <2>4. \A i \in DOMAIN logs : logs[i].next = "none" => logs'[i].next = "none"
    BY <1>1 DEF Calm
  <2>5. Resends(v)'
    BY <1>1, <2>1, <2>2, <2>3, <2>4 DEF Resends
  <2>6. Leads(v) => Leads(v)'
    BY <1>1, <2>1 DEF Leads, Resends
  <2>. QED
    BY <2>5, <2>6
<1>7. ASSUME v \in Events PROVE Firsts(v)'
  <2>1. \A i \in DOMAIN logs : logs'[i].event = logs[i].event
    BY <1>1 DEF Calm
  <2>. QED
    BY <1>1, <1>7, <2>1 DEF Firsts, IInv
<1>. QED
  BY <1>4, <1>5, <1>6, <1>7

Alone(w) ==
    \A v \in Workers \ {w} :
        pc'[v] = pc[v] /\ todo'[v] = todo[v] /\ attempt'[v] = attempt[v]

(* What remains to be shown of a step that writes no new row.              *)
LEMMA CalmStep ==
    ASSUME IInv, Calm, NEW w \in Workers, Alone(w),
           Tables', FailuresAreReal', overlap => overlap',
           Stands(w)', Honest(w)',
           w \in Events => Firsts(w)',
           w \in Sweeps => Resends(w)',
           w \in Sweeps /\ ~overlap' => Leads(w)' /\ OneSweep'
    PROVE  IInv'
<1>1. \A v \in Workers : Stands(v)' /\ Honest(v)'
  BY CalmOthers DEF Alone
<1>2. \A v \in Sweeps : Resends(v)'
  BY CalmOthers DEF Alone, Workers
<1>3. \A v \in Events : Firsts(v)'
  BY CalmOthers DEF Alone, Workers
<1>4. Chains'
  <2>. SUFFICES ASSUME ~overlap'
                PROVE  OneSweep' /\ PendingIsLatest' /\ (\A v \in Sweeps : Leads(v)') /\ OneChain'
    BY DEF Chains
  <2>1. OneSweep /\ PendingIsLatest /\ (\A v \in Sweeps : Leads(v)) /\ OneChain
    BY DEF IInv, Chains
  <2>2. PendingIsLatest' /\ OneChain'
    BY <2>1, CalmRows
  <2>3. OneSweep'
    <3>1. CASE w \in Sweeps
      BY <3>1
    <3>2. CASE w \notin Sweeps
      BY <2>1, <3>2 DEF OneSweep, Alone, Workers
    <3>. QED
      BY <3>1, <3>2
  <2>4. \A v \in Sweeps : Leads(v)'
    BY <2>1, CalmOthers DEF Alone, Workers
  <2>. QED
    BY <2>2, <2>3, <2>4
<1>. QED
  BY <1>1, <1>2, <1>3, <1>4, CalmRows DEF IInv

-----------------------------------------------------------------------------
(* An attempt is logged.                                                   *)
LEMMA AppendedRows ==
    ASSUME Tables, NEW a \in Attempts,
           logs' = Append(logs, Entry(a, RetryAt(a)))
    PROVE  LET n == Len(logs) + 1 IN
           /\ logs' \in Seq(LogRows)
           /\ Len(logs') = n
           /\ DOMAIN logs' = 1..n
           /\ \A i \in DOMAIN logs : i \in DOMAIN logs' /\ i < n /\ logs'[i] = logs[i]
           /\ \A i \in DOMAIN logs' : i \in DOMAIN logs \/ i = n
           /\ n \in DOMAIN logs'
           /\ logs'[n] = Entry(a, RetryAt(a))
<1>1. Entry(a, RetryAt(a)) \in LogRows
  BY DEF Entry, RetryAt, LogRows, Attempts
<1>. QED
  BY <1>1, LogFacts DEF Tables

LEMMA FailedBounded ==
    ASSUME Tables, NEW s
    PROVE  /\ IsFiniteSet(Failed(s))
           /\ FailedCount(s) \in Nat
           /\ FailedCount(s) <= Len(logs)
<1>1. Failed(s) \in SUBSET (1..Len(logs))
  BY LogFacts DEF Failed
<1>2. Len(logs) \in Int /\ Len(logs) >= 0 /\ 1 \in Int
  BY LogFacts
<1>3. IsFiniteSet(1..Len(logs))
      /\ Cardinality(1..Len(logs)) = IF 1 > Len(logs) THEN 0 ELSE Len(logs) - 1 + 1
  BY <1>2, FS_Interval
<1>4. Cardinality(1..Len(logs)) = Len(logs)
  BY <1>2, <1>3
<1>. QED
  BY <1>1, <1>3, <1>4, FS_Subset, FS_CardinalityType DEF FailedCount

LEMMA MoreFailed ==
    ASSUME Tables, NEW a \in Attempts,
           logs' = Append(logs, Entry(a, RetryAt(a)))
    PROVE  \A s \in Subs :
              /\ FailedCount(s) \in Nat /\ FailedCount(s)' \in Nat
              /\ FailedCount(s)' >= FailedCount(s)
              /\ FailedCount(s) <= Len(logs)
              /\ s = a.sub /\ ~a.ok => FailedCount(s)' = FailedCount(s) + 1
<1>. TAKE s \in Subs
<1>. DEFINE n == Len(logs) + 1
<1>1. /\ DOMAIN logs' = 1..n
      /\ \A i \in DOMAIN logs : i \in DOMAIN logs' /\ i < n /\ logs'[i] = logs[i]
      /\ \A i \in DOMAIN logs' : i \in DOMAIN logs \/ i = n
      /\ n \in DOMAIN logs'
      /\ logs'[n] = Entry(a, RetryAt(a))
      /\ DOMAIN logs = 1..Len(logs) /\ Len(logs) \in Nat
  BY AppendedRows, LogFacts
<1>2. IsFiniteSet(Failed(s)) /\ FailedCount(s) \in Nat /\ FailedCount(s) <= Len(logs)
  BY FailedBounded
<1>3. CASE s = a.sub /\ ~a.ok
  <2>1. Failed(s)' = Failed(s) \cup {n} /\ n \notin Failed(s)
    BY <1>1, <1>3 DEF Failed, Entry
  <2>2. FailedCount(s)' = FailedCount(s) + 1
    BY <1>2, <2>1, FS_AddElement DEF FailedCount
  <2>. QED
    BY <1>2, <2>2
<1>4. CASE ~(s = a.sub /\ ~a.ok)
  <2>1. Failed(s)' = Failed(s)
    BY <1>1, <1>4 DEF Failed, Entry
  <2>2. FailedCount(s)' = FailedCount(s)
    BY <2>1 DEF FailedCount
  <2>. QED
    BY <1>2, <1>4, <2>2
<1>. QED
  BY <1>3, <1>4

LEMMA LogStep ==
    ASSUME IInv, NEW w \in Workers, NEW a \in Attempts, NEW place \in {"count", "next"},
           pc[w] = "log", attempt[w] = {a}, Len(logs) < MaxLogs,
           logs' = Append(logs, Entry(a, RetryAt(a))),
           pc' = [pc EXCEPT ![w] = place],
           attempt' = [attempt EXCEPT ![w] = IF place = "count" THEN {a} ELSE {}],
           UNCHANGED <<active, failures, todo, overlap>>
    PROVE  IInv'
<1>0. PICK n \in Nat : n = Len(logs) + 1
  BY LogFacts DEF IInv
<1>1. /\ logs' \in Seq(LogRows) /\ Len(logs') = n
      /\ DOMAIN logs' = 1..n
      /\ \A i \in DOMAIN logs : i \in DOMAIN logs' /\ i < n /\ logs'[i] = logs[i]
      /\ \A i \in DOMAIN logs' : i \in DOMAIN logs \/ i = n
      /\ n \in DOMAIN logs'
      /\ logs'[n].sub = a.sub /\ logs'[n].event = a.event
      /\ logs'[n].number = a.number /\ logs'[n].ok = a.ok
      /\ logs'[n].next = RetryAt(a)
      /\ DOMAIN logs = 1..Len(logs) /\ Len(logs) \in Nat
      /\ \A i \in DOMAIN logs : logs[i] \in LogRows
  <2>1. Tables
    BY DEF IInv
  <2>. QED
    BY <1>0, <2>1, AppendedRows, LogFacts DEF Entry
<1>2. \A s \in Subs :
         /\ FailedCount(s) \in Nat /\ FailedCount(s)' \in Nat
         /\ FailedCount(s)' >= FailedCount(s)
         /\ s = a.sub /\ ~a.ok => FailedCount(s)' = FailedCount(s) + 1
  BY MoreFailed DEF IInv
<1>3. /\ a.sub \in Subs /\ a.number \in Nat /\ a.number <= MaxRetries
      /\ a.count \in Nat /\ a.ok \in BOOLEAN
  BY WebhookNumbers DEF Attempts, Numbers
<1>4. Tables'
  <2>1. a \in Attempts /\ {} \in SUBSET Attempts
    OBVIOUS
  <2>2. n <= MaxLogs
    BY <1>0, <1>1, WebhookNumbers
  <2>. QED
    BY <1>1, <2>1, <2>2 DEF IInv, Tables, Places
<1>5. /\ \A v \in Workers \ {w} : pc'[v] = pc[v] /\ attempt'[v] = attempt[v]
      /\ pc'[w] = place
      /\ attempt'[w] = IF place = "count" THEN {a} ELSE {}
      /\ \A v \in Workers : todo'[v] = todo[v]
  BY DEF IInv, Tables
<1>6. w \in Sweeps => /\ a.of \in DOMAIN logs /\ Retries(a, a.of)
                      /\ ~logs[a.of].ok /\ logs[a.of].next = "none"
                      /\ w \notin Events
  BY WebhookNames DEF IInv, Resends, Taken
<1>7. w \in Events => /\ a.number = 1 /\ a.event = w /\ ~Tried(a.sub, w)
                      /\ \A b \in todo[w] : a.sub # b.sub
                      /\ w \notin Sweeps
  BY WebhookNames DEF IInv, Firsts
<1>8. w \in Sweeps \/ w \in Events
  BY DEF Workers
<1>9. Pending'
  BY <1>1, <1>3 DEF IInv, Pending, RetryAt
<1>10. RetriesFollowFailures'
  <2>. SUFFICES ASSUME NEW i \in DOMAIN logs'
                PROVE  /\ logs'[i].number <= MaxRetries
                       /\ logs'[i].number > 1 =>
                             \E k \in 1..i - 1 :
                                /\ logs'[k].sub = logs'[i].sub
                                /\ logs'[k].event = logs'[i].event
                                /\ logs'[k].number = logs'[i].number - 1
                                /\ ~logs'[k].ok /\ logs'[k].next = "none"
    BY DEF RetriesFollowFailures
  <2>1. CASE i \in DOMAIN logs
    <3>1. logs'[i] = logs[i] /\ logs[i].number <= MaxRetries
      BY <1>1, <2>1 DEF IInv, RetriesFollowFailures
    <3>2. ASSUME logs[i].number > 1
          PROVE  \E k \in 1..i - 1 :
                    /\ logs'[k].sub = logs[i].sub
                    /\ logs'[k].event = logs[i].event
                    /\ logs'[k].number = logs[i].number - 1
                    /\ ~logs'[k].ok /\ logs'[k].next = "none"
      <4>1. PICK k \in 1..i - 1 :
               /\ logs[k].sub = logs[i].sub /\ logs[k].event = logs[i].event
               /\ logs[k].number = logs[i].number - 1
               /\ ~logs[k].ok /\ logs[k].next = "none"
        BY <2>1, <3>2 DEF IInv, RetriesFollowFailures
      <4>2. k \in DOMAIN logs
        BY <1>1, <2>1
      <4>. QED
        BY <1>1, <4>1, <4>2
    <3>. QED
      BY <3>1, <3>2
  <2>2. CASE i = n
    <3>1. logs'[i].number <= MaxRetries
      BY <1>1, <1>3, <2>2
    <3>2. ASSUME logs'[i].number > 1
          PROVE  \E k \in 1..i - 1 :
                    /\ logs'[k].sub = logs'[i].sub
                    /\ logs'[k].event = logs'[i].event
                    /\ logs'[k].number = logs'[i].number - 1
                    /\ ~logs'[k].ok /\ logs'[k].next = "none"
      <4>1. w \in Sweeps
        BY <1>1, <1>3, <1>7, <1>8, <2>2, <3>2
      <4>2. a.of \in 1..n - 1 /\ logs'[a.of] = logs[a.of]
        BY <1>0, <1>1, <1>6, <4>1
      <4>3. logs[a.of].number \in Nat
        BY <1>1, <1>6, <4>1, WebhookNumbers DEF LogRows, Numbers
      <4>4. /\ logs'[a.of].sub = logs'[i].sub /\ logs'[a.of].event = logs'[i].event
            /\ ~logs'[a.of].ok /\ logs'[a.of].next = "none"
        BY <1>1, <1>6, <2>2, <4>1, <4>2 DEF Retries
      <4>5. logs'[a.of].number = logs'[i].number - 1
        BY <1>1, <1>6, <2>2, <4>1, <4>2, <4>3 DEF Retries
      <4>6. a.of \in 1..i - 1
        BY <2>2, <4>2
      <4>. QED
        BY <4>4, <4>5, <4>6
    <3>. QED
      BY <3>1, <3>2
  <2>. QED
    BY <1>1, <2>1, <2>2
<1>11. FailuresAreReal'
  <2>1. \A s \in Subs : failures[s] \in Nat
    BY DEF IInv, Tables
  <2>. QED
    BY <1>2, <2>1, WebhookNumbers DEF IInv, FailuresAreReal, FailedCount
<1>12. \A v \in Workers : Stands(v)'
  <2>. TAKE v \in Workers
  <2>1. Stands(v)
    BY DEF IInv
  <2>2. CASE v = w
    BY <1>1, <1>5, <2>1, <2>2 DEF Stands, InHand
  <2>3. CASE v # w
    BY <1>1, <1>5, <2>1, <2>3 DEF Stands
  <2>. QED
    BY <2>2, <2>3
<1>13. \A v \in Workers : Honest(v)'
  <2>. TAKE v \in Workers
  <2>1. Honest(v) /\ Stands(v) /\ attempt[v] \subseteq Attempts
    BY DEF IInv, Tables
  <2>2. \A b \in Attempts : /\ b.sub \in Subs /\ b.count \in Nat
                            /\ b.count <= FailedCount(b.sub) =>
                                  b.count <= FailedCount(b.sub)'
                            /\ b.count + 1 <= FailedCount(b.sub) =>
                                  b.count + 1 <= FailedCount(b.sub)'
    <3>1. \A b \in Attempts : b.sub \in Subs /\ b.count \in Nat
      BY WebhookNumbers DEF Attempts
    <3>. QED
      BY <1>2, <3>1
  <2>3. v \in Events => \A b \in todo'[v] : b.count <= FailedCount(b.sub)'
    BY <1>5, <2>1, <2>2 DEF Honest, Stands
  <2>4. CASE v = w
    <3>1. a.count <= FailedCount(a.sub)
      BY <2>1, <2>4 DEF Honest
    <3>2. a.count <= FailedCount(a.sub)' /\ (~a.ok => a.count + 1 <= FailedCount(a.sub)')
      BY <1>2, <1>3, <3>1
    <3>. QED
      BY <1>5, <2>3, <2>4, <3>2 DEF Honest
  <2>5. CASE v # w
    BY <1>5, <2>1, <2>2, <2>3, <2>5 DEF Honest
  <2>. QED
    BY <2>4, <2>5
<1>14. \A v \in Sweeps : Resends(v)'
  <2>. TAKE v \in Sweeps
  <2>1. v \in Workers /\ Resends(v) /\ todo[v] \subseteq DOMAIN logs
    BY DEF IInv, Stands, Workers
  <2>2. \A i \in DOMAIN logs : (Taken(i)' <=> Taken(i)) /\ \A b : Retries(b, i)' <=> Retries(b, i)
    BY <1>1 DEF Taken, Retries
  <2>3. attempt'[v] \subseteq attempt[v]
    BY <1>5, <2>1
  <2>4. pc'[v] \in {"take", "drop"} <=> pc[v] \in {"take", "drop"}
    BY <1>5, <2>1
  <2>. QED
    BY <1>1, <1>5, <2>1, <2>2, <2>3, <2>4 DEF Resends
<1>15. \A e \in Events : Firsts(e)'
  <2>. TAKE e \in Events
  <2>1. e \in Workers /\ Firsts(e)
    BY DEF IInv, Workers
  <2>2. CASE e = w
    <3>1. \A b \in todo[w] : ~Tried(b.sub, w)'
      BY <1>1, <1>7, <2>1, <2>2 DEF Tried, Firsts
    <3>. QED
      BY <1>5, <1>7, <2>1, <2>2, <3>1 DEF Firsts
  <2>3. CASE e # w
    <3>1. a.event = e => Tried(a.sub, e)
      BY <1>6, <1>7, <1>8, <2>3 DEF Retries, Tried
    <3>2. \A s : ~Tried(s, e) => ~Tried(s, e)'
      BY <1>1, <3>1 DEF Tried
    <3>3. (\A i \in DOMAIN logs : logs[i].event # e) =>
             \A i \in DOMAIN logs' : logs'[i].event # e
      BY <1>1, <3>1 DEF Tried
    <3>. QED
      BY <1>5, <2>1, <2>3, <3>2, <3>3 DEF Firsts
  <2>. QED
    BY <2>2, <2>3
<1>16. Chains'
  <2>. SUFFICES ASSUME ~overlap
                PROVE  OneSweep' /\ PendingIsLatest' /\ (\A v \in Sweeps : Leads(v)') /\ OneChain'
    BY DEF Chains
  <2>1. OneSweep /\ PendingIsLatest /\ (\A v \in Sweeps : Leads(v)) /\ OneChain
    BY DEF IInv, Chains
  <2>. DEFINE In(i) == logs[i].sub = a.sub /\ logs[i].event = a.event
  <2>2. w \in Events => \A i \in DOMAIN logs : ~In(i)
    BY <1>7 DEF Tried
  <2>3. w \in Sweeps =>
           /\ Latest(a.of) /\ a.of \notin todo[w] /\ In(a.of)
           /\ \A i \in DOMAIN logs : In(i) => i <= a.of
           /\ \A i \in DOMAIN logs : In(i) /\ Latest(i) => i = a.of
           /\ \A v \in Sweeps \ {w} : pc[v] = "idle"
    <3>. SUFFICES ASSUME w \in Sweeps
                  PROVE  /\ Latest(a.of) /\ a.of \notin todo[w] /\ In(a.of)
                         /\ \A i \in DOMAIN logs : In(i) => i <= a.of
                         /\ \A i \in DOMAIN logs : In(i) /\ Latest(i) => i = a.of
                         /\ \A v \in Sweeps \ {w} : pc[v] = "idle"
      OBVIOUS
    <3>1. Latest(a.of) /\ a.of \notin todo[w]
      BY <2>1 DEF Leads
    <3>2. In(a.of)
      BY <1>6 DEF Retries
    <3>3. \A i \in DOMAIN logs : In(i) => SameChain(i, a.of) /\ SameChain(a.of, i)
      BY <3>2 DEF SameChain
    <3>4. \A i \in DOMAIN logs : In(i) => i <= a.of
      BY <3>1, <3>3 DEF Latest
    <3>5. \A i \in DOMAIN logs : In(i) /\ Latest(i) => i = a.of
      <4>1. \A i \in DOMAIN logs : In(i) /\ Latest(i) => a.of <= i
        BY <1>6, <3>3 DEF Latest
      <4>. QED
        BY <1>1, <1>6, <3>4, <4>1
    <3>. QED
      BY <2>1, <3>1, <3>2, <3>4, <3>5 DEF OneSweep
  <2>4. \A i \in DOMAIN logs : Latest(i) /\ ~In(i) => Latest(i)'
    BY <1>1 DEF Latest, SameChain
  <2>5. Latest(n)'
    BY <1>1 DEF Latest
  <2>. HIDE DEF In
  <2>6. OneSweep'
    BY <1>5, <2>1 DEF OneSweep, Workers
  <2>7. PendingIsLatest'
    <3>1. \A i \in DOMAIN logs : logs[i].next # "none" => ~In(i)
      BY <1>6, <1>8, <2>1, <2>2, <2>3 DEF PendingIsLatest
    <3>. QED
      BY <1>1, <2>1, <2>4, <2>5, <3>1 DEF PendingIsLatest
  <2>8. \A v \in Sweeps : Leads(v)'
    <3>. TAKE v \in Sweeps
    <3>1. Leads(v) /\ Stands(v) /\ Resends(v) /\ v \in Workers
      BY <2>1 DEF IInv, Workers
    <3>2. CASE w \in Events
      <4>1. v # w
        BY <1>7, <3>2
      <4>2. \A i \in DOMAIN logs : Latest(i) => Latest(i)'
        BY <2>2, <2>4, <3>2
      <4>. QED
        BY <1>5, <3>1, <4>1, <4>2 DEF Leads, Stands, Resends
    <3>3. CASE w \in Sweeps /\ v # w
      <4>1. todo[v] = {} /\ attempt[v] = {}
        BY <2>3, <3>1, <3>3 DEF Stands, InHand
      <4>. QED
        BY <1>5, <3>1, <3>3, <4>1 DEF Leads
    <3>4. CASE w \in Sweeps /\ v = w
      <4>1. \A i \in todo[v] : Latest(i) /\ ~In(i) /\ i \in DOMAIN logs
        BY <2>3, <3>1, <3>4 DEF Leads, Stands
      <4>. QED
        BY <1>5, <2>4, <3>1, <3>4, <4>1 DEF Leads
    <3>. QED
      BY <1>8, <3>2, <3>3, <3>4
  <2>9. OneChain'
    <3>. SUFFICES ASSUME NEW i \in DOMAIN logs', NEW k \in DOMAIN logs',
                         i < k, SameChain(i, k)'
                  PROVE  ~logs'[i].ok /\ logs'[i].number < logs'[k].number
      BY DEF OneChain
    <3>1. CASE k \in DOMAIN logs
      BY <1>1, <2>1, <3>1 DEF OneChain, SameChain
    <3>2. CASE k = n
      <4>1. i \in DOMAIN logs /\ In(i)
        BY <1>1, <3>2 DEF SameChain, In
      <4>2. w \in Sweeps /\ i <= a.of
        BY <1>8, <2>2, <2>3, <4>1
      <4>3. a.of \in DOMAIN logs /\ In(a.of) /\ a.number = logs[a.of].number + 1
            /\ ~logs[a.of].ok
        BY <1>6, <2>3, <4>2 DEF Retries
      <4>4. logs[i].number \in Nat /\ logs[a.of].number \in Nat
        BY <1>1, <4>1, <4>3, WebhookNumbers DEF LogRows, Numbers
      <4>5. CASE i = a.of
        BY <1>1, <3>2, <4>1, <4>3, <4>4, <4>5
      <4>6. CASE i < a.of
        <5>1. ~logs[i].ok /\ logs[i].number < logs[a.of].number
          BY <2>1, <4>1, <4>3, <4>6 DEF OneChain, SameChain, In
        <5>. QED
          BY <1>1, <3>2, <4>1, <4>3, <4>4, <5>1
      <4>. QED
        BY <1>1, <4>1, <4>2, <4>3, <4>5, <4>6
    <3>. QED
      BY <1>1, <3>1, <3>2
  <2>. QED
    BY <2>6, <2>7, <2>8, <2>9
<1>. QED
  BY <1>4, <1>9, <1>10, <1>11, <1>12, <1>13, <1>14, <1>15, <1>16 DEF IInv

-----------------------------------------------------------------------------
(* The other steps write no row.                                           *)
LEMMA Bounded ==
    ASSUME IInv
    PROVE  /\ \A s \in Subs : FailedCount(s) \in Nat /\ FailedCount(s) <= MaxLogs
           /\ \A s \in Subs : failures[s] \in 0..MaxLogs /\ failures[s] <= FailedCount(s)
           /\ \A i \in DOMAIN logs : i \in 1..MaxLogs
<1>1. DOMAIN logs = 1..Len(logs) /\ Len(logs) \in Nat /\ Len(logs) <= MaxLogs
  BY LogFacts DEF IInv, Tables
<1>2. \A s \in Subs : FailedCount(s) \in Nat /\ FailedCount(s) <= Len(logs)
  BY FailedBounded DEF IInv
<1>3. \A s \in Subs : failures[s] \in Nat /\ failures[s] <= FailedCount(s)
  BY DEF IInv, Tables, FailuresAreReal, FailedCount
<1>. QED
  BY <1>1, <1>2, <1>3, WebhookNumbers

LEMMA InHandOne ==
    ASSUME IInv, NEW w \in Workers, pc[w] \in InHand
    PROVE  \E a \in Attempts : attempt[w] = {a} /\ The(w) = a
<1>1. PICK a \in Attempts : attempt[w] = {a}
  BY DEF IInv, Stands
<1>2. The(w) = a
  BY <1>1 DEF The
<1>. QED
  BY <1>1, <1>2

LEMMA FailuresStay ==
    ASSUME IInv, Calm, UNCHANGED <<active, failures>>
    PROVE  FailuresAreReal'
  BY CalmRows DEF IInv, FailuresAreReal, FailedCount

LEMMA OneSweepStays ==
    ASSUME OneSweep, NEW w \in Sweeps, pc[w] # "idle", Alone(w)
    PROVE  OneSweep'
  BY DEF OneSweep, Alone, Workers

LEMMA Kinds ==
    ASSUME NEW w \in Workers
    PROVE  w \in Events <=> w \notin Sweeps
  BY WebhookNames DEF Workers

LEMMA DeliverKeeps ==
    ASSUME IInv, NEW e \in Events, Deliver(e)
    PROVE  IInv'
<1>. DEFINE new == {Attempt(s, e, 1, failures[s], 0, FALSE) : s \in active}
<1>1. Calm /\ e \in Workers /\ e \notin Sweeps /\ pc[e] = "deliver"
  BY UnchangedIsCalm, Kinds DEF Deliver, tables, IInv, Workers
<1>2. \A b \in new : /\ b \in Attempts /\ b.number = 1 /\ b.event = e
                     /\ b.count <= FailedCount(b.sub)
  <2>1. \A s \in active : s \in Subs
    BY DEF IInv, Tables
  <2>. TAKE b \in new
  <2>2. PICK s \in active : b = Attempt(s, e, 1, failures[s], 0, FALSE)
    OBVIOUS
  <2>3. s \in Subs /\ failures[s] \in 0..MaxLogs /\ failures[s] <= FailedCount(s)
    BY <2>1, Bounded
  <2>. QED
    BY <2>2, <2>3, WebhookNumbers DEF Attempt, Attempts, Numbers
<1>3. \A b, c \in new : b.sub = c.sub => b = c
  <2>. SUFFICES ASSUME NEW b \in new, NEW c \in new, b.sub = c.sub PROVE b = c
    OBVIOUS
  <2>1. PICK s \in active : b = Attempt(s, e, 1, failures[s], 0, FALSE)
    OBVIOUS
  <2>2. PICK t \in active : c = Attempt(t, e, 1, failures[t], 0, FALSE)
    OBVIOUS
  <2>. QED
    BY <2>1, <2>2 DEF Attempt
<1>4. \A s : ~Tried(s, e)
  BY <1>1 DEF IInv, Firsts, Tried
<1>5. attempt[e] = {}
  BY <1>1 DEF IInv, Stands, InHand
<1>6. /\ todo' = [todo EXCEPT ![e] = new] /\ pc' = [pc EXCEPT ![e] = "next"]
      /\ UNCHANGED <<active, failures, logs, attempt, overlap>>
  BY DEF Deliver, Goto, tables
<1>. HIDE DEF new
<1>7. Alone(e) /\ pc'[e] = "next" /\ todo'[e] = new /\ attempt'[e] = {}
  BY <1>1, <1>5, <1>6 DEF IInv, Tables, Alone
<1>8. Tables'
  BY <1>1, <1>6 DEF IInv, Tables, Places
<1>9. Stands(e)'
  BY <1>1, <1>2, <1>7 DEF Stands, InHand
<1>10. Honest(e)'
  BY <1>2, <1>6, <1>7 DEF Honest, FailedCount, Failed
<1>11. Firsts(e)'
  BY <1>2, <1>3, <1>4, <1>6, <1>7 DEF Firsts, Tried
<1>. QED
  BY <1>1, <1>6, <1>7, <1>8, <1>9, <1>10, <1>11, CalmStep, FailuresStay

LEMMA NextSubKeeps ==
    ASSUME IInv, NEW e \in Events, NextSub(e)
    PROVE  IInv'
<1>1. Calm /\ e \in Workers /\ e \notin Sweeps /\ pc[e] = "next"
  BY UnchangedIsCalm, Kinds DEF NextSub, tables, IInv, Workers
<1>2. PICK a \in todo[e] :
         /\ attempt' = [attempt EXCEPT ![e] = {a}]
         /\ todo' = [todo EXCEPT ![e] = todo[e] \ {a}]
         /\ pc' = [pc EXCEPT ![e] = "post"]
         /\ UNCHANGED <<active, failures, logs, overlap>>
  BY DEF NextSub, Goto, Make, tables
<1>3. Stands(e) /\ Honest(e) /\ Firsts(e) /\ a \in Attempts /\ todo[e] \subseteq Attempts
  BY <1>1 DEF IInv, Stands
<1>4. Alone(e) /\ pc'[e] = "post" /\ todo'[e] = todo[e] \ {a} /\ attempt'[e] = {a}
  BY <1>1, <1>2 DEF IInv, Tables, Alone
<1>5. Tables'
  <2>1. {a} \in SUBSET Attempts
    BY <1>3
  <2>. QED
    BY <1>1, <1>2, <2>1 DEF IInv, Tables, Places
<1>6. Stands(e)'
  BY <1>1, <1>3, <1>4 DEF Stands, InHand
<1>7. Honest(e)'
  BY <1>2, <1>3, <1>4 DEF Honest, FailedCount, Failed
<1>8. Firsts(e)'
  BY <1>2, <1>3, <1>4 DEF Firsts, Tried
<1>. QED
  BY <1>1, <1>2, <1>4, <1>5, <1>6, <1>7, <1>8, CalmStep, FailuresStay

LEMMA SweepKeeps ==
    ASSUME IInv, NEW w \in Sweeps, Sweep(w)
    PROVE  IInv'
<1>1. /\ Calm /\ w \in Workers /\ w \notin Events /\ pc[w] = "idle" /\ attempt[w] = {}
      /\ overlap \in BOOLEAN
  BY UnchangedIsCalm, Kinds DEF Sweep, tables, IInv, Tables, Workers, Stands, InHand
<1>2. /\ todo' = [todo EXCEPT ![w] = Due] /\ pc' = [pc EXCEPT ![w] = "next"]
      /\ overlap' = (overlap \/ Sweeping # {})
      /\ UNCHANGED <<active, failures, logs, attempt>>
  BY DEF Sweep, Goto, tables
<1>3. Alone(w) /\ pc'[w] = "next" /\ todo'[w] = Due /\ attempt'[w] = {}
  BY <1>1, <1>2 DEF IInv, Tables, Alone
<1>4. overlap' \in BOOLEAN /\ (overlap => overlap')
  BY <1>1, <1>2
<1>5. Tables'
  BY <1>1, <1>2, <1>4 DEF IInv, Tables, Places
<1>6. Stands(w)'
  BY <1>1, <1>2, <1>3 DEF Stands, InHand, Due
<1>7. Honest(w)'
  BY <1>1, <1>3 DEF Honest
<1>8. Resends(w)'
  BY <1>2, <1>3 DEF Resends, Due, Taken, IInv, Pending
<1>9. ASSUME ~overlap' PROVE Leads(w)' /\ OneSweep'
  <2>1. ~overlap /\ Sweeping = {}
    BY <1>1, <1>2, <1>9
  <2>2. \A v \in Sweeps : pc[v] = "idle"
    BY <2>1 DEF Sweeping
  <2>3. OneSweep'
    BY <1>3, <2>2 DEF OneSweep, Alone, Workers
  <2>4. \A i \in Due : Latest(i)
    BY <2>1 DEF IInv, Chains, PendingIsLatest, Due
  <2>5. Leads(w)'
    BY <1>2, <1>3, <2>4 DEF Leads, Latest, SameChain
  <2>. QED
    BY <2>3, <2>5
<1>. QED
  BY <1>1, <1>2, <1>3, <1>4, <1>5, <1>6, <1>7, <1>8, <1>9, CalmStep, FailuresStay

LEMMA NextRetryKeeps ==
    ASSUME IInv, NEW w \in Sweeps, NextRetry(w)
    PROVE  IInv'
<1>1. Calm /\ w \in Workers /\ w \notin Events /\ pc[w] = "next"
  BY UnchangedIsCalm, Kinds DEF NextRetry, tables, IInv, Workers
<1>2. PICK i \in todo[w], place \in {"take", "drop"} :
         /\ attempt' = [attempt EXCEPT ![w] =
               {Attempt(logs[i].sub, logs[i].event, logs[i].number + 1,
                        failures[logs[i].sub], i, FALSE)}]
         /\ todo' = [todo EXCEPT ![w] = todo[w] \ {i}]
         /\ pc' = [pc EXCEPT ![w] = place]
         /\ UNCHANGED <<active, failures, logs, overlap>>
  BY DEF NextRetry, Goto, Make, tables
<1>. DEFINE a == Attempt(logs[i].sub, logs[i].event, logs[i].number + 1,
                         failures[logs[i].sub], i, FALSE)
<1>3. /\ Stands(w) /\ Resends(w) /\ todo[w] \subseteq DOMAIN logs
      /\ i \in DOMAIN logs /\ Taken(i) /\ logs[i] \in LogRows
  BY <1>1, LogFacts DEF IInv, Stands, Resends
<1>4. /\ a \in Attempts /\ a.of = i /\ Retries(a, i) /\ a.sub \in Subs
      /\ a.count <= FailedCount(a.sub)
  <2>1. i \in 0..MaxLogs /\ failures[logs[i].sub] \in 0..MaxLogs
        /\ failures[logs[i].sub] <= FailedCount(logs[i].sub)
    BY <1>3, Bounded, WebhookNumbers DEF LogRows
  <2>2. logs[i].number + 1 \in Numbers
    BY <1>3, WebhookNumbers DEF Taken, LogRows, Numbers
  <2>. QED
    BY <1>3, <2>1, <2>2 DEF Attempt, Attempts, Retries, LogRows
<1>5. attempt' = [attempt EXCEPT ![w] = {a}]
  BY <1>2
<1>. HIDE DEF a
<1>6. Alone(w) /\ pc'[w] = place /\ todo'[w] = todo[w] \ {i} /\ attempt'[w] = {a}
  BY <1>1, <1>2, <1>5 DEF IInv, Tables, Alone
<1>7. Tables'
  <2>1. {a} \in SUBSET Attempts
    BY <1>4
  <2>. QED
    BY <1>1, <1>2, <1>5, <2>1 DEF IInv, Tables, Places
<1>8. Stands(w)'
  BY <1>1, <1>2, <1>3, <1>4, <1>6 DEF Stands, InHand
<1>9. Honest(w)'
  BY <1>1, <1>2, <1>4, <1>6 DEF Honest, FailedCount, Failed
<1>10. Resends(w)'
  BY <1>2, <1>3, <1>4, <1>6 DEF Resends, Taken, Retries
<1>11. ASSUME ~overlap' PROVE Leads(w)' /\ OneSweep'
  <2>1. OneSweep /\ Leads(w)
    BY <1>2, <1>11 DEF IInv, Chains
  <2>2. Leads(w)'
    BY <1>2, <1>4, <1>6, <2>1 DEF Leads, Latest, SameChain
  <2>. QED
    BY <1>1, <1>6, <2>1, <2>2, OneSweepStays
<1>. QED
  BY <1>1, <1>2, <1>6, <1>7, <1>8, <1>9, <1>10, <1>11, CalmStep, FailuresStay

LEMMA TakeOrDropKeeps ==
    ASSUME IInv, NEW w \in Sweeps, Take(w) \/ Drop(w)
    PROVE  IInv'
<1>1. w \in Workers /\ w \notin Events /\ pc[w] \in {"take", "drop"}
  BY Kinds DEF Take, Drop, Workers
<1>2. PICK a \in Attempts : attempt[w] = {a} /\ The(w) = a
  BY <1>1, InHandOne DEF InHand
<1>3. /\ Stands(w) /\ Honest(w) /\ Resends(w)
      /\ a.of \in DOMAIN logs /\ Taken(a.of) /\ Retries(a, a.of)
  BY <1>1, <1>2 DEF IInv, Resends
<1>4. logs' = Cleared(a.of) /\ UNCHANGED <<active, failures, todo, overlap>>
  BY <1>2 DEF Take, Drop
<1>5. Calm /\ logs'[a.of].next = "none"
  BY <1>3, <1>4, ClearedIsCalm DEF IInv
<1>6. PICK place \in {"post", "next"} :
         /\ pc' = [pc EXCEPT ![w] = place]
         /\ attempt' = [attempt EXCEPT ![w] = IF place = "post" THEN {a} ELSE {}]
  <2>1. CASE Take(w)
    <3>1. pc' = [pc EXCEPT ![w] = "post"] /\ attempt' = [attempt EXCEPT ![w] = {a}]
      BY <1>1, <1>2, <2>1 DEF Take, Goto, IInv, Tables
    <3>. QED
      BY <3>1
  <2>2. CASE Drop(w)
    BY <2>2 DEF Drop, NextOne, Goto, Forget, NoAttempt
  <2>. QED
    BY <2>1, <2>2
<1>7. /\ Alone(w) /\ pc'[w] = place /\ todo'[w] = todo[w]
      /\ attempt'[w] = IF place = "post" THEN {a} ELSE {}
  BY <1>1, <1>4, <1>6 DEF IInv, Tables, Alone
<1>8. Tables'
  <2>1. {a} \in SUBSET Attempts /\ {} \in SUBSET Attempts
    BY <1>2
  <2>. QED
    BY <1>1, <1>4, <1>5, <1>6, <2>1 DEF IInv, Tables, Places, Calm
<1>9. /\ DOMAIN logs' = DOMAIN logs /\ DOMAIN logs = 1..Len(logs)
      /\ \A s \in Subs : FailedCount(s)' = FailedCount(s)
      /\ \A i \in DOMAIN logs : Latest(i)' <=> Latest(i)
  BY <1>5, CalmRows, LogFacts DEF IInv
<1>10. Stands(w)'
  BY <1>1, <1>2, <1>3, <1>7, <1>9 DEF Stands, InHand
<1>11. Honest(w)'
  BY <1>1, <1>2, <1>3, <1>7, <1>9 DEF Honest, Attempts
<1>12. Resends(w)'
  <2>1. todo[w] \subseteq DOMAIN logs
    BY <1>1, <1>3 DEF Stands
  <2>2. \A i \in DOMAIN logs : (Taken(i) => Taken(i)') /\ \A b : Retries(b, i) => Retries(b, i)'
    BY <1>5, <1>9 DEF Calm, Taken, Retries
  <2>. QED
    BY <1>3, <1>5, <1>7, <1>9, <2>1, <2>2 DEF Resends
<1>13. ASSUME ~overlap' PROVE Leads(w)' /\ OneSweep'
  <2>1. OneSweep /\ Leads(w) /\ todo[w] \subseteq DOMAIN logs
    BY <1>1, <1>3, <1>4, <1>13 DEF IInv, Chains, Stands
  <2>2. Leads(w)'
    BY <1>1, <1>2, <1>3, <1>7, <1>9, <2>1 DEF Leads
  <2>. QED
    BY <1>1, <1>7, <2>1, <2>2, OneSweepStays
<1>. QED
  BY <1>1, <1>4, <1>5, <1>7, <1>8, <1>10, <1>11, <1>12, <1>13, CalmStep, FailuresStay

LEMMA SweepFailsKeeps ==
    ASSUME IInv, NEW w \in Sweeps, SweepFails(w)
    PROVE  IInv'
<1>1. /\ w \in Workers /\ w \notin Events /\ pc[w] \in {"next", "take", "drop"}
      /\ UNCHANGED <<active, failures, overlap>>
  BY Kinds DEF SweepFails, Workers
<1>2. Calm
  <2>1. CASE UNCHANGED logs
    BY <2>1, UnchangedIsCalm DEF IInv
  <2>2. CASE pc[w] \in {"take", "drop"} /\ logs' = Cleared(The(w).of)
    <3>1. PICK a \in Attempts : attempt[w] = {a} /\ The(w) = a
      BY <1>1, <2>2, InHandOne DEF InHand
    <3>2. a.of \in DOMAIN logs
      BY <3>1 DEF IInv, Resends
    <3>. QED
      BY <2>2, <3>1, <3>2, ClearedIsCalm DEF IInv
  <2>. QED
    BY <2>1, <2>2 DEF SweepFails
<1>3. /\ pc' = [pc EXCEPT ![w] = "idle"] /\ attempt' = [attempt EXCEPT ![w] = {}]
      /\ todo' = [todo EXCEPT ![w] = {}]
  BY DEF SweepFails, Goto, Forget, NoAttempt
<1>4. Alone(w) /\ pc'[w] = "idle" /\ todo'[w] = {} /\ attempt'[w] = {}
  BY <1>1, <1>3 DEF IInv, Tables, Alone
<1>5. Tables'
  <2>1. {} \in SUBSET Attempts
    OBVIOUS
  <2>. QED
    BY <1>1, <1>2, <1>3, <2>1 DEF IInv, Tables, Places, Calm
<1>6. Stands(w)' /\ Honest(w)' /\ Resends(w)'
  BY <1>1, <1>4 DEF Stands, Honest, Resends, InHand
<1>7. ASSUME ~overlap' PROVE Leads(w)' /\ OneSweep'
  <2>1. OneSweep
    BY <1>1, <1>7 DEF IInv, Chains
  <2>2. Leads(w)'
    BY <1>4 DEF Leads
  <2>. QED
    BY <1>1, <1>4, <2>1, <2>2, OneSweepStays
<1>. QED
  BY <1>1, <1>2, <1>4, <1>5, <1>6, <1>7, CalmStep, FailuresStay

LEMMA PostKeeps ==
    ASSUME IInv, NEW w \in Workers, Post(w)
    PROVE  IInv'
<1>1. Calm /\ pc[w] = "post" /\ UNCHANGED <<active, failures, logs, todo, overlap>>
  BY UnchangedIsCalm DEF Post, tables, IInv
<1>2. PICK a \in Attempts : attempt[w] = {a} /\ The(w) = a
  BY <1>1, InHandOne DEF InHand
<1>3. PICK ok \in BOOLEAN :
         /\ attempt' = [attempt EXCEPT ![w] = {[a EXCEPT !.ok = ok]}]
         /\ pc' = [pc EXCEPT ![w] = "log"]
  BY <1>2 DEF Post, Make, Goto
<1>. DEFINE b == [a EXCEPT !.ok = ok]
<1>4. /\ b \in Attempts /\ b.sub = a.sub /\ b.event = a.event /\ b.number = a.number
      /\ b.count = a.count /\ b.of = a.of
  BY DEF Attempts
<1>5. attempt' = [attempt EXCEPT ![w] = {b}]
  BY <1>3
<1>. HIDE DEF b
<1>6. Alone(w) /\ pc'[w] = "log" /\ todo'[w] = todo[w] /\ attempt'[w] = {b}
  BY <1>1, <1>3, <1>5 DEF IInv, Tables, Alone
<1>7. Tables'
  <2>1. {b} \in SUBSET Attempts
    BY <1>4
  <2>. QED
    BY <1>1, <1>3, <1>5, <2>1 DEF IInv, Tables, Places
<1>8. Stands(w) /\ Honest(w) /\ (w \in Sweeps => Resends(w)) /\ (w \in Events => Firsts(w))
  BY DEF IInv
<1>9. Stands(w)'
  BY <1>1, <1>4, <1>6, <1>8 DEF Stands, InHand
<1>10. Honest(w)'
  <2>1. \A s : FailedCount(s)' = FailedCount(s)
    BY <1>1 DEF FailedCount, Failed
  <2>2. a.count <= FailedCount(a.sub)
    BY <1>2, <1>8 DEF Honest
  <2>. QED
    BY <1>4, <1>6, <1>8, <2>1, <2>2 DEF Honest
<1>11. w \in Sweeps => Resends(w)'
  BY <1>1, <1>2, <1>4, <1>6, <1>8 DEF Resends, Taken, Retries
<1>12. w \in Events => Firsts(w)'
  BY <1>1, <1>2, <1>4, <1>6, <1>8 DEF Firsts, Tried
<1>13. ASSUME ~overlap', w \in Sweeps PROVE Leads(w)' /\ OneSweep'
  <2>1. OneSweep /\ Leads(w)
    BY <1>1, <1>13 DEF IInv, Chains
  <2>2. Leads(w)'
    BY <1>1, <1>2, <1>4, <1>6, <2>1 DEF Leads, Latest, SameChain
  <2>. QED
    BY <1>1, <1>6, <1>13, <2>1, <2>2, OneSweepStays
<1>. QED
  BY <1>1, <1>6, <1>7, <1>9, <1>10, <1>11, <1>12, <1>13, CalmStep, FailuresStay

(* Steps that end an attempt, or go on to disable the subscription, after  *)
(* whatever they did to its failure count and status.                      *)
LEMMA AfterLogKeeps ==
    ASSUME IInv, NEW w \in Workers, NEW a \in Attempts, attempt[w] = {a},
           NEW place \in {"next", "disable"},
           place = "disable" => ~a.ok /\ a.count + 1 >= Threshold /\ pc[w] = "count",
           pc[w] \in {"log", "count", "disable"},
           pc' = [pc EXCEPT ![w] = place],
           attempt' = [attempt EXCEPT ![w] = IF place = "disable" THEN {a} ELSE {}],
           active' \subseteq Subs, failures' \in [Subs -> Nat], FailuresAreReal',
           UNCHANGED <<logs, todo, overlap>>
    PROVE  IInv'
<1>1. Calm
  BY UnchangedIsCalm DEF IInv
<1>2. /\ Alone(w) /\ pc'[w] = place /\ todo'[w] = todo[w]
      /\ attempt'[w] = IF place = "disable" THEN {a} ELSE {}
  BY DEF IInv, Tables, Alone
<1>3. Tables'
  <2>1. {a} \in SUBSET Attempts /\ {} \in SUBSET Attempts
    OBVIOUS
  <2>. QED
    BY <2>1 DEF IInv, Tables, Places
<1>4. Stands(w) /\ Honest(w) /\ (w \in Sweeps => Resends(w)) /\ (w \in Events => Firsts(w))
  BY DEF IInv
<1>5. \A s : FailedCount(s)' = FailedCount(s)
  BY DEF FailedCount, Failed
<1>6. Stands(w)'
  BY <1>2, <1>4 DEF Stands, InHand
<1>7. Honest(w)'
  BY <1>2, <1>4, <1>5 DEF Honest
<1>8. w \in Sweeps => Resends(w)'
  BY <1>2, <1>4 DEF Resends, Taken, Retries
<1>9. w \in Events => Firsts(w)'
  BY <1>2, <1>4 DEF Firsts, Tried
<1>10. ASSUME ~overlap', w \in Sweeps PROVE Leads(w)' /\ OneSweep'
  <2>1. OneSweep /\ Leads(w)
    BY <1>10 DEF IInv, Chains
  <2>2. Leads(w)'
    BY <1>2, <2>1 DEF Leads, Latest, SameChain
  <2>. QED
    BY <1>2, <1>10, <2>1, <2>2, OneSweepStays
<1>. QED
  BY <1>1, <1>2, <1>3, <1>6, <1>7, <1>8, <1>9, <1>10, CalmStep

LEMMA CountedIsReal ==
    ASSUME IInv, NEW w \in Workers, NEW a \in Attempts, attempt[w] = {a}, pc[w] = "count",
           failures' \in {failures, [failures EXCEPT ![a.sub] = Counted(a)]},
           UNCHANGED <<active, logs>>
    PROVE  failures' \in [Subs -> Nat] /\ FailuresAreReal'
<1>1. a.sub \in Subs /\ a.count \in Nat /\ a.ok \in BOOLEAN
  BY WebhookNumbers DEF Attempts
<1>2. Counted(a) \in Nat /\ Counted(a) <= FailedCount(a.sub)
  <2>1. ~a.ok => a.count + 1 <= FailedCount(a.sub)
    BY DEF IInv, Honest
  <2>. QED
    BY <1>1, <2>1, Bounded DEF Counted
<1>3. failures \in [Subs -> Nat]
  BY DEF IInv, Tables
<1>4. failures' \in [Subs -> Nat]
  BY <1>1, <1>2, <1>3
<1>5. \A s \in Subs : failures'[s] <= FailedCount(s)
  BY <1>1, <1>2, <1>3, Bounded
<1>6. \A s \in Subs : s \notin active => FailedCount(s) >= Threshold
  BY DEF IInv, FailuresAreReal, FailedCount
<1>7. \A s : FailedCount(s)' = FailedCount(s)
  BY DEF FailedCount, Failed
<1>. QED
  BY <1>4, <1>5, <1>6, <1>7 DEF FailuresAreReal, FailedCount

LEMMA DisabledIsReal ==
    ASSUME IInv, NEW w \in Workers, NEW a \in Attempts, attempt[w] = {a}, pc[w] = "disable",
           active' \in {active, active \ {a.sub}},
           UNCHANGED <<failures, logs>>
    PROVE  active' \subseteq Subs /\ FailuresAreReal'
<1>1. a.sub \in Subs /\ a.count \in Nat
  BY WebhookNumbers DEF Attempts
<1>2. FailedCount(a.sub) >= Threshold
  <2>1. a.count + 1 <= FailedCount(a.sub) /\ a.count + 1 >= Threshold
    BY DEF IInv, Honest
  <2>. QED
    BY <1>1, <2>1, Bounded, WebhookNumbers
<1>3. \A s \in Subs : failures[s] <= FailedCount(s)
                      /\ (s \notin active => FailedCount(s) >= Threshold)
  BY DEF IInv, FailuresAreReal, FailedCount
<1>4. \A s : FailedCount(s)' = FailedCount(s)
  BY DEF FailedCount, Failed
<1>5. \A s \in Subs : s \notin active' => FailedCount(s) >= Threshold
  BY <1>2, <1>3
<1>. QED
  BY <1>3, <1>4, <1>5 DEF FailuresAreReal, FailedCount, IInv, Tables

LEMMA CountKeeps ==
    ASSUME IInv, NEW w \in Workers, Count(w)
    PROVE  IInv'
<1>1. pc[w] = "count" /\ UNCHANGED <<active, logs, todo, overlap>>
  BY DEF Count
<1>2. PICK a \in Attempts : attempt[w] = {a} /\ The(w) = a
  BY <1>1, InHandOne DEF InHand
<1>3. failures' = [failures EXCEPT ![a.sub] = Counted(a)]
  BY <1>2 DEF Count
<1>4. failures' \in [Subs -> Nat] /\ FailuresAreReal' /\ active' \subseteq Subs
  BY <1>1, <1>2, <1>3, CountedIsReal DEF IInv, Tables
<1>5. CASE ~a.ok /\ a.count >= Threshold - 1 /\ Goto(w, "disable") /\ UNCHANGED attempt
  <2>1. attempt' = [attempt EXCEPT ![w] = {a}]
    BY <1>2, <1>5 DEF IInv, Tables
  <2>2. a.count + 1 >= Threshold
    BY <1>5, WebhookNumbers DEF Attempts
  <2>. QED
    BY <1>1, <1>2, <1>4, <1>5, <2>1, <2>2, AfterLogKeeps DEF Goto
<1>6. CASE NextOne(w)
  BY <1>1, <1>2, <1>4, <1>6, AfterLogKeeps DEF NextOne, Goto, Forget, NoAttempt
<1>. QED
  BY <1>2, <1>5, <1>6 DEF Count

LEMMA DisableKeeps ==
    ASSUME IInv, NEW w \in Workers, Disable(w)
    PROVE  IInv'
<1>1. pc[w] = "disable" /\ NextOne(w) /\ UNCHANGED <<failures, logs, todo, overlap>>
  BY DEF Disable
<1>2. PICK a \in Attempts : attempt[w] = {a} /\ The(w) = a
  BY <1>1, InHandOne DEF InHand
<1>3. active' = active \ {a.sub}
  BY <1>2 DEF Disable
<1>4. active' \subseteq Subs /\ FailuresAreReal' /\ failures' \in [Subs -> Nat]
  BY <1>1, <1>2, <1>3, DisabledIsReal DEF IInv, Tables
<1>. QED
  BY <1>1, <1>2, <1>4, AfterLogKeeps DEF NextOne, Goto, Forget, NoAttempt

LEMMA LogKeeps ==
    ASSUME IInv, NEW w \in Workers, Log(w)
    PROVE  IInv'
<1>1. pc[w] = "log" /\ Len(logs) < MaxLogs /\ Goto(w, "count")
      /\ UNCHANGED <<active, failures, todo, attempt, overlap>>
  BY DEF Log
<1>2. PICK a \in Attempts : attempt[w] = {a} /\ The(w) = a
  BY <1>1, InHandOne DEF InHand
<1>3. logs' = Append(logs, Entry(a, RetryAt(a)))
  BY <1>2 DEF Log, Logged
<1>4. attempt' = [attempt EXCEPT ![w] = {a}]
  BY <1>1, <1>2 DEF IInv, Tables
<1>. QED
  BY <1>1, <1>2, <1>3, <1>4, LogStep DEF Goto

LEMMA RecordFailsKeeps ==
    ASSUME IInv, NEW w \in Workers, RecordFails(w)
    PROVE  IInv'
<1>1. pc[w] \in {"log", "count", "disable"} /\ NextOne(w) /\ UNCHANGED <<todo, overlap>>
  BY DEF RecordFails
<1>2. PICK a \in Attempts : attempt[w] = {a} /\ The(w) = a
  BY <1>1, InHandOne DEF InHand
<1>3. pc' = [pc EXCEPT ![w] = "next"] /\ attempt' = [attempt EXCEPT ![w] = {}]
  BY <1>1 DEF NextOne, Goto, Forget, NoAttempt
<1>4. CASE pc[w] = "log"
  <2>1. UNCHANGED <<active, failures>> /\ Len(logs) < MaxLogs
    BY <1>4 DEF RecordFails
  <2>2. CASE UNCHANGED logs
    <3>1. FailuresAreReal' /\ active' \subseteq Subs /\ failures' \in [Subs -> Nat]
      BY <2>1, <2>2, UnchangedIsCalm, FailuresStay DEF IInv, Tables
    <3>. QED
      BY <1>1, <1>2, <1>3, <2>2, <3>1, AfterLogKeeps
  <2>3. CASE logs' = Append(logs, Entry(a, RetryAt(a)))
    BY <1>1, <1>2, <1>3, <1>4, <2>1, <2>3, LogStep
  <2>. QED
    BY <1>2, <1>4, <2>2, <2>3 DEF RecordFails, Logged
<1>5. CASE pc[w] = "count"
  <2>1. /\ failures' \in {failures, [failures EXCEPT ![a.sub] = Counted(a)]}
        /\ UNCHANGED <<active, logs>>
    BY <1>2, <1>5 DEF RecordFails
  <2>2. FailuresAreReal' /\ active' \subseteq Subs /\ failures' \in [Subs -> Nat]
    BY <1>2, <1>5, <2>1, CountedIsReal DEF IInv, Tables
  <2>. QED
    BY <1>1, <1>2, <1>3, <2>1, <2>2, AfterLogKeeps
<1>6. CASE pc[w] = "disable"
  <2>1. active' \in {active, active \ {a.sub}} /\ UNCHANGED <<failures, logs>>
    BY <1>2, <1>6 DEF RecordFails
  <2>2. FailuresAreReal' /\ active' \subseteq Subs /\ failures' \in [Subs -> Nat]
    BY <1>2, <1>6, <2>1, DisabledIsReal DEF IInv, Tables
  <2>. QED
    BY <1>1, <1>2, <1>3, <2>1, <2>2, AfterLogKeeps
<1>. QED
  BY <1>1, <1>4, <1>5, <1>6

LEMMA ThroughKeeps ==
    ASSUME IInv, NEW w \in Workers, Through(w)
    PROVE  IInv'
<1>1. /\ Calm /\ pc[w] = "next" /\ todo[w] = {}
      /\ UNCHANGED <<active, failures, logs, todo, attempt, overlap>>
      /\ pc' = [pc EXCEPT ![w] = End(w)]
  BY UnchangedIsCalm DEF Through, tables, IInv, Goto
<1>2. Stands(w) /\ attempt[w] = {}
  BY <1>1 DEF IInv, Stands, InHand
<1>3. End(w) \in Places
  BY DEF End, Places
<1>4. /\ Alone(w) /\ pc'[w] = End(w) /\ todo'[w] = {} /\ attempt'[w] = {}
      /\ Tables'
  BY <1>1, <1>2, <1>3 DEF IInv, Tables, Alone
<1>5. Stands(w)' /\ Honest(w)' /\ Resends(w)' /\ Leads(w)'
  BY <1>1, <1>4, Kinds DEF Stands, Honest, Resends, Leads, InHand, End
<1>6. w \in Events => Firsts(w)'
  BY <1>4 DEF Firsts, End
<1>7. ASSUME ~overlap', w \in Sweeps PROVE OneSweep'
  <2>1. OneSweep
    BY <1>1, <1>7 DEF IInv, Chains
  <2>. QED
    BY <1>1, <1>4, <1>7, <2>1, OneSweepStays
<1>. QED
  BY <1>1, <1>4, <1>5, <1>6, <1>7, CalmStep, FailuresStay

LEMMA NobodyMoves ==
    ASSUME IInv, Calm, UNCHANGED <<active, failures, pc, todo, attempt, overlap>>
    PROVE  IInv'
<1>1. Tables'
  BY DEF IInv, Tables, Calm
<1>2. \A v \in Workers : Stands(v)' /\ Honest(v)'
  BY CalmOthers
<1>3. (\A v \in Sweeps : Resends(v)') /\ (\A v \in Events : Firsts(v)')
  BY CalmOthers DEF Workers
<1>4. Chains'
  <2>. SUFFICES ASSUME ~overlap
                PROVE  OneSweep' /\ PendingIsLatest' /\ (\A v \in Sweeps : Leads(v)') /\ OneChain'
    BY DEF Chains
  <2>1. OneSweep /\ PendingIsLatest /\ (\A v \in Sweeps : Leads(v)) /\ OneChain
    BY DEF IInv, Chains
  <2>2. OneSweep'
    BY <2>1 DEF OneSweep
  <2>3. \A v \in Sweeps : Leads(v)'
    BY <2>1, CalmOthers DEF Workers
  <2>. QED
    BY <2>1, <2>2, <2>3, CalmRows
<1>. QED
  BY <1>1, <1>2, <1>3, <1>4, CalmRows, FailuresStay DEF IInv

LEMMA DelayPassesKeeps ==
    ASSUME IInv, DelayPasses
    PROVE  IInv'
<1>1. PICK i \in DOMAIN logs :
         logs[i].next = "later" /\ logs' = [logs EXCEPT ![i].next = "due"]
  BY DEF DelayPasses
<1>. QED
  BY <1>1, DueIsCalm, NobodyMoves DEF DelayPasses, IInv

LEMMA CrashKeeps ==
    ASSUME IInv, Crash
    PROVE  IInv'
<1>1. /\ Calm /\ UNCHANGED <<active, failures, logs, overlap>>
      /\ pc' = [w \in Workers |-> IF pc[w] = Start(w) THEN pc[w] ELSE End(w)]
      /\ todo' = [w \in Workers |-> {}]
      /\ attempt' = [w \in Workers |-> {}]
  BY UnchangedIsCalm DEF Crash, NoAttempt, tables, IInv
<1>2. Tables'
  <2>1. {} \in SUBSET Attempts
    OBVIOUS
  <2>. QED
    BY <1>1, <2>1 DEF IInv, Tables, Places, Start, End
<1>3. ASSUME NEW v \in Workers
      PROVE  Stands(v)' /\ Honest(v)' /\ Resends(v)' /\ Leads(v)'
  <2>1. todo'[v] = {} /\ attempt'[v] = {} /\ pc'[v] \in {Start(v), End(v)}
    BY <1>1
  <2>. QED
    BY <2>1, Kinds DEF Stands, Honest, Resends, Leads, Start, End, InHand
<1>4. ASSUME NEW e \in Events PROVE Firsts(e)'
  <2>1. todo'[e] = {} /\ attempt'[e] = {} /\ (pc'[e] = "deliver" => pc[e] = "deliver")
    BY <1>1 DEF Start, End, Workers
  <2>2. Firsts(e)
    BY DEF IInv
  <2>. QED
    BY <1>1, <2>1, <2>2 DEF Firsts
<1>5. Chains'
  <2>. SUFFICES ASSUME ~overlap
                PROVE  OneSweep' /\ PendingIsLatest' /\ (\A v \in Sweeps : Leads(v)') /\ OneChain'
    BY <1>1 DEF Chains
  <2>1. PendingIsLatest /\ OneChain
    BY DEF IInv, Chains
  <2>2. OneSweep'
    BY <1>1, Kinds DEF OneSweep, Start, End, Workers
  <2>. QED
    BY <1>1, <1>3, <2>1, <2>2, CalmRows DEF Workers
<1>. QED
  BY <1>1, <1>2, <1>3, <1>4, <1>5, CalmRows, FailuresStay DEF IInv, Workers

LEMMA NextKeeps ==
    ASSUME IInv, [Next]_vars
    PROVE  IInv'
<1>1. CASE UNCHANGED vars
  BY <1>1, UnchangedIsCalm, NobodyMoves DEF vars, tables, IInv
<1>2. CASE \E e \in Events : Deliver(e) \/ NextSub(e)
  BY <1>2, DeliverKeeps, NextSubKeeps
<1>3. CASE \E w \in Sweeps : Sweep(w) \/ NextRetry(w) \/ Take(w) \/ Drop(w) \/ SweepFails(w)
  BY <1>3, SweepKeeps, NextRetryKeeps, TakeOrDropKeeps, SweepFailsKeeps
<1>4. CASE \E w \in Workers : Post(w) \/ Log(w) \/ Count(w) \/ Disable(w)
                                \/ RecordFails(w) \/ Through(w)
  BY <1>4, PostKeeps, LogKeeps, CountKeeps, DisableKeeps, RecordFailsKeeps, ThroughKeeps
<1>. QED
  BY <1>1, <1>2, <1>3, <1>4, DelayPassesKeeps, CrashKeeps DEF Next

LEMMA InitIsHonest == Init => IInv
<1>. SUFFICES ASSUME Init PROVE IInv
  OBVIOUS
<1>1. /\ active = Subs /\ failures = [s \in Subs |-> 0] /\ logs = <<>> /\ overlap = FALSE
      /\ pc = [w \in Workers |-> Start(w)]
      /\ todo = [w \in Workers |-> {}]
      /\ attempt = [w \in Workers |-> {}]
  BY DEF Init, NoAttempt
<1>2. DOMAIN logs = {} /\ logs \in Seq(LogRows) /\ Len(logs) = 0
  BY <1>1
<1>3. Tables
  <2>1. {} \in SUBSET Attempts
    OBVIOUS
  <2>2. attempt \in [Workers -> SUBSET Attempts] /\ todo = [w \in Workers |-> todo[w]]
    BY <1>1, <2>1
  <2>3. pc \in [Workers -> Places]
    BY <1>1 DEF Places, Start
  <2>4. failures \in [Subs -> Nat] /\ Len(logs) <= MaxLogs
    BY <1>1, <1>2, WebhookNumbers
  <2>. QED
    BY <1>1, <1>2, <2>2, <2>3, <2>4 DEF Tables
<1>4. ASSUME NEW w \in Workers
      PROVE  Stands(w) /\ Honest(w) /\ Resends(w) /\ Leads(w)
  <2>1. todo[w] = {} /\ attempt[w] = {} /\ pc[w] = Start(w)
    BY <1>1
  <2>. QED
    BY <2>1, Kinds DEF Stands, Honest, Resends, Leads, Start, InHand
<1>5. ASSUME NEW e \in Events PROVE Firsts(e)
  BY <1>1, <1>2 DEF Firsts, Workers
<1>6. Pending /\ RetriesFollowFailures /\ PendingIsLatest /\ OneChain
  BY <1>2 DEF Pending, RetriesFollowFailures, PendingIsLatest, OneChain
<1>7. FailuresAreReal
  <2>1. \A s : Failed(s) = {}
    BY <1>2 DEF Failed
  <2>. QED
    BY <1>1, <2>1, FS_EmptySet DEF FailuresAreReal
<1>8. OneSweep
  BY <1>1, Kinds DEF OneSweep, Start, Workers
<1>. QED
  BY <1>3, <1>4, <1>5, <1>6, <1>7, <1>8 DEF IInv, Chains, Workers

(* What every worker has in hand stays true of the log, whatever others do *)
(* to the subscriptions and the log meanwhile.                             *)
THEOREM AttemptsStayTrue == Spec => []IInv
<1>1. IInv /\ [Next]_vars => IInv'
  BY NextKeeps
<1>. QED
  BY <1>1, InitIsHonest, PTL DEF Spec

-----------------------------------------------------------------------------
(* Every variable keeps its type, the counts within the log's bound.       *)
THEOREM WebhooksTyped == Spec => []TypeOK
<1>1. IInv => TypeOK
  <2>. SUFFICES ASSUME IInv PROVE TypeOK
    OBVIOUS
  <2>1. failures \in [Subs -> 0..MaxLogs]
    BY Bounded DEF IInv, Tables
  <2>2. \A w \in Workers : attempt[w] \subseteq Attempts /\ Cardinality(attempt[w]) <= 1
    <3>. TAKE w \in Workers
    <3>1. attempt[w] = {} \/ \E a \in Attempts : attempt[w] = {a}
      BY DEF IInv, Stands
    <3>2. Cardinality({}) = 0 /\ \A a : Cardinality({a}) = 1
      BY FS_EmptySet, FS_Singleton
    <3>3. Cardinality(attempt[w]) \in {0, 1}
      BY <3>1, <3>2
    <3>. QED
      BY <3>1, <3>3
  <2>3. (\A e \in Events : todo[e] \subseteq Attempts)
        /\ (\A w \in Sweeps : todo[w] \subseteq DOMAIN logs)
    BY DEF IInv, Stands, Workers
  <2>. QED
    BY <2>1, <2>2, <2>3 DEF IInv, Tables, TypeOK, LogRows, Pending
<1>. QED
  BY <1>1, AttemptsStayTrue, PTL

(* Every retry in the log goes back, attempt by attempt, to failures that  *)
(* are not due any more, and none beyond MAX_RETRIES, though sweeps        *)
(* overlap, statements fail after they were applied and the process dies   *)
(* (webhook-delivery.ts:82-120, 156-198).                                  *)
THEOREM RetriesHaveReasons == Spec => []RetriesFollowFailures
<1>1. IInv => RetriesFollowFailures
  BY DEF IInv
<1>. QED
  BY <1>1, AttemptsStayTrue, PTL

(* No event has two chains of attempts at one subscription, and nothing    *)
(* follows a success, until a sweep begins while another is under way.     *)
THEOREM EventsHaveOneChain == Spec => []OneChainOfAttempts
<1>1. IInv => OneChainOfAttempts
  BY DEF IInv, Chains, OneChain, OneChainOfAttempts, SameChain
<1>. QED
  BY <1>1, AttemptsStayTrue, PTL

(* A failure count never claims more than the log shows, and a             *)
(* subscription is disabled only after Threshold failed attempts, however  *)
(* stale the counts that concurrent attempts write back.                   *)
THEOREM CountsAreReal == Spec => []FailuresAreReal
<1>1. IInv => FailuresAreReal
  BY DEF IInv
<1>. QED
  BY <1>1, AttemptsStayTrue, PTL
=============================================================================
