----------------------------- MODULE AuditChain -----------------------------
(***************************************************************************)
(* The hash-chained audit log: createAuditLog, verifyAuditIntegrity and    *)
(* repairAuditChain of server/storage.ts, the rows other modules insert    *)
(* without a hash, the rows server/retention-enforcement.ts removes, and   *)
(* rows changed behind the program's back, which verification is to find.  *)
(* Each statement is a transaction of its own.  An append reads the latest *)
(* hash, takes the time, and inserts; whatever else the process awaits     *)
(* runs in between.                                                        *)
(*                                                                         *)
(* The log is kept in the order verification reads it: by createdAt, then  *)
(* by a random id, so that rows of one millisecond stand in any order.     *)
(* A hash is the list of what was hashed, which makes it injective.        *)
(***************************************************************************)
EXTENDS Naturals, Sequences, FiniteSets

CONSTANTS
    Appends,    \* calls of createAuditLog
    Repairs,    \* POST /api/audit/repair-chain requests
    Unhashed,   \* rows inserted without a hash
    Alterable,  \* rows that may be changed by hand
    Retention,  \* age after which a row has expired
    MaxTime     \* bound on the milliseconds that pass

ASSUME ChainNames ==
    /\ Appends \cap Repairs = {}
    /\ Unhashed \cap (Appends \cup Repairs) = {}

ASSUME ChainNumbers == MaxTime \in Nat \ {0} /\ Retention \in Nat

VARIABLES
    now,      \* the clock
    log,      \* the rows of audit_logs, as verification orders them
    arrived,  \* id and time of every row, in the order they were inserted
    pc,       \* where each request is
    mine,     \* what each request has read or computed
    quiet     \* since the start, or since a repair last began: no append or
              \* repair overlapped another, and no row was removed or altered

chainVars == <<now, log, arrived, pc, mine, quiet>>

Requests == Appends \cup Repairs
Ids == Requests \cup Unhashed

(* "GENESIS", or the null hash of a row that has none.                     *)
Genesis == <<>>
Hash(prev, at, id) == Append(prev, <<id, at>>)
Row(id, at, prev, hash) == [id |-> id, at |-> at, prev |-> prev, hash |-> hash]

(* The elements of a sequence at some of its places, in order.             *)
Nth(places, n) ==
    CHOOSE i \in places : Cardinality({j \in places : j <= i}) = n
Kept(s, places) == [n \in 1..Cardinality(places) |-> s[Nth(places, n)]]

Mine(prev, at, plan) == [prev |-> prev, at |-> at, plan |-> plan]
Nothing == Mine(Genesis, 0, <<>>)

ChainInit ==
    /\ now = 1
    /\ log = <<>>
    /\ arrived = <<>>
    /\ pc = [r \in Requests |-> IF r \in Repairs THEN "repair" ELSE "read"]
    /\ mine = [r \in Requests |-> Nothing]
    /\ quiet = TRUE

InFlight == {"stamp", "insert", "repairing"}
Alone(r) == \A q \in Requests \ {r} : pc[q] \notin InFlight

Goto(r, place) == pc' = [pc EXCEPT ![r] = place]
Leave(r, place) == Goto(r, place) /\ mine' = [mine EXCEPT ![r] = Nothing]

-----------------------------------------------------------------------------
(* createAuditLog                                                          *)

(* ORDER BY created_at DESC LIMIT 1: any row of the latest millisecond.    *)
OldestHashes ==
    IF log = <<>> THEN {Genesis}
    ELSE {log[i].hash : i \in {k \in DOMAIN log :
                                 \A j \in DOMAIN log : log[j].at >= log[k].at}}

LatestHashes ==
    IF log = <<>> THEN {Genesis}
    ELSE {log[i].hash : i \in {k \in DOMAIN log :
                                 \A j \in DOMAIN log : log[j].at <= log[k].at}}

Read(r) ==
    /\ pc[r] = "read"
    /\ \E hash \in LatestHashes :
          mine' = [mine EXCEPT ![r] = Mine(hash, 0, <<>>)]
    /\ quiet' = (quiet /\ Alone(r))
    /\ Goto(r, "stamp")
    /\ UNCHANGED <<now, log, arrived>>

Stamp(r) ==
    /\ pc[r] = "stamp"
    /\ mine' = [mine EXCEPT ![r] = Mine(@.prev, now, <<>>)]
    /\ Goto(r, "insert")
    /\ UNCHANGED <<now, log, arrived, quiet>>

OrderedByArrival(row) == {Append(log, row)}

(* The row takes its place by createdAt; among equals its id is random.    *)
Inserted(row) ==
    {SubSeq(log, 1, k) \o <<row>> \o SubSeq(log, k + 1, Len(log)) :
        k \in {n \in 0..Len(log) :
                 /\ \A i \in 1..n : log[i].at <= row.at
                 /\ \A i \in n + 1..Len(log) : log[i].at >= row.at}}

AppendedRow(r) == Row(r, mine[r].at, mine[r].prev, Hash(mine[r].prev, mine[r].at, r))

Insert(r) ==
    /\ pc[r] = "insert"
    /\ log' \in Inserted(AppendedRow(r))
    /\ arrived' = Append(arrived, [id |-> r, at |-> mine[r].at])
    /\ Leave(r, "done")
    /\ UNCHANGED <<now, quiet>>

(* The SELECT or the INSERT fails: the row is lost.                        *)
AppendFails(r) ==
    /\ pc[r] \in {"read", "insert"}
    /\ Leave(r, "done")
    /\ UNCHANGED <<now, log, arrived, quiet>>

(* Session timeouts, backups, cross-product accesses and others insert     *)
(* rows of their own, with neither hash.                                   *)
InsertUnhashed(u) ==
    /\ \A i \in DOMAIN arrived : arrived[i].id # u
    /\ log' \in Inserted(Row(u, now, Genesis, Genesis))
    /\ arrived' = Append(arrived, [id |-> u, at |-> now])
    /\ UNCHANGED <<now, pc, mine, quiet>>

-----------------------------------------------------------------------------
(* verifyAuditIntegrity                                                    *)

Hashed(rows) == Kept(rows, {i \in DOMAIN rows : rows[i].hash # Genesis})

Linked(rows, i) ==
    \/ rows[i].prev = Genesis
    \/ i > 1 /\ rows[i].prev = rows[i - 1].hash

Verifies(all) ==
    LET rows == Hashed(all) IN
    \A i \in DOMAIN rows :
        /\ Linked(rows, i)
        /\ rows[i].hash = Hash(rows[i].prev, rows[i].at, rows[i].id)

-----------------------------------------------------------------------------
(* repairAuditChain and its route                                          *)

RehashesInPlace(rows) ==
    LET chain[i \in 0..Len(rows)] ==
            IF i = 0 THEN Genesis
            ELSE Hash(chain[i - 1], rows[i].at, rows[i].id)
    IN  [i \in DOMAIN rows |-> [rows[i] EXCEPT !.hash = chain[i]]]

Rehashed(rows) ==
    LET chain[i \in 0..Len(rows)] ==
            IF i = 0 THEN Genesis
            ELSE Hash(chain[i - 1], rows[i].at, rows[i].id)
    IN  [i \in DOMAIN rows |->
            [rows[i] EXCEPT !.prev = chain[i - 1], !.hash = chain[i]]]

(* The rows a repair will rewrite, in order.                               *)
Plan(rows) ==
    Kept(Rehashed(rows), {i \in DOMAIN rows : rows[i] # Rehashed(rows)[i]})

(* When it is through, the route appends a CHAIN_REPAIR row.               *)
AfterRepair(plan) == IF plan = <<>> THEN "read" ELSE "repairing"

RepairRead(r) ==
    /\ pc[r] = "repair"
    /\ mine' = [mine EXCEPT ![r] = Mine(Genesis, 0, Plan(log))]
    /\ quiet' = Alone(r)
    /\ Goto(r, AfterRepair(Plan(log)))
    /\ UNCHANGED <<now, log, arrived>>

(* UPDATE ... WHERE id: one row at a time, from what was read at first.    *)
RepairRow(r) ==
    /\ pc[r] = "repairing"
    /\ LET row == Head(mine[r].plan)
           rest == Tail(mine[r].plan)
       IN  /\ log' = [i \in DOMAIN log |-> IF log[i].id = row.id THEN row ELSE log[i]]
           /\ mine' = [mine EXCEPT ![r] = Mine(Genesis, 0, rest)]
           /\ Goto(r, AfterRepair(rest))
    /\ UNCHANGED <<now, arrived, quiet>>

RepairFails(r) ==
    /\ pc[r] \in {"repair", "repairing"}
    /\ quiet' = (quiet /\ pc[r] # "repairing")
    /\ Leave(r, "done")
    /\ UNCHANGED <<now, log, arrived>>

-----------------------------------------------------------------------------
(* Retention, by a policy that deletes or by one that archives: the first  *)
(* removes all expired rows at once, the second one after the other.       *)

Expired(row) == row.at + Retention < now

ExpiredRows == {log[i] : i \in {k \in DOMAIN log : Expired(log[k])}}

Remove(gone) ==
    /\ gone # {}
    /\ log' = Kept(log, {i \in DOMAIN log : log[i] \notin gone})
    /\ quiet' = FALSE
    /\ UNCHANGED <<now, arrived, pc, mine>>

Expunge == Remove(ExpiredRows)
ArchiveOne == \E row \in ExpiredRows : Remove({row})

(* A system update or a script changes a row without computing its hash    *)
(* again, so that the hash is missing or stands for something else; a row  *)
(* that was altered already is left.                                       *)
AlterRow ==
    /\ \E i \in DOMAIN log :
          LET row == log[i] IN
          /\ row.id \in Alterable
          /\ row.hash = Hash(row.prev, row.at, row.id)
          /\ \E other \in {Genesis, Hash(row.hash, row.at, row.id)} :
                log' = [log EXCEPT ![i].hash = other]
    /\ quiet' = FALSE
    /\ UNCHANGED <<now, arrived, pc, mine>>

-----------------------------------------------------------------------------
(* The process dies with the requests in flight.                           *)
ChainCrash ==
    /\ pc' = [r \in Requests |-> IF pc[r] \in InFlight THEN "done" ELSE pc[r]]
    /\ mine' = [r \in Requests |-> Nothing]
    /\ quiet' = (quiet /\ \A r \in Requests : pc[r] # "repairing")
    /\ UNCHANGED <<now, log, arrived>>

Tick ==
    /\ now < MaxTime
    /\ now' = now + 1
    /\ UNCHANGED <<log, arrived, pc, mine, quiet>>

ChainStep(r) ==
    \/ Read(r) \/ Stamp(r) \/ Insert(r) \/ AppendFails(r)
    \/ RepairRead(r) \/ RepairRow(r) \/ RepairFails(r)

ChainNext ==
    \/ \E r \in Requests : ChainStep(r)
    \/ \E u \in Unhashed : InsertUnhashed(u)
    \/ Expunge \/ ArchiveOne \/ AlterRow
    \/ Tick

ChainSpec == ChainInit /\ [][ChainNext \/ ChainCrash]_chainVars
-----------------------------------------------------------------------------
Hashes == Seq(Ids \X (1..MaxTime))
Rows == [id : Ids, at : 1..MaxTime, prev : Hashes, hash : Hashes]

(* The log stands in the order of ORDER BY created_at, and rows, requests  *)
(* and plans have their shapes.                                            *)
ChainTypeOK ==
    /\ now \in 1..MaxTime
    /\ log \in Seq(Rows)
    /\ arrived \in Seq([id : Ids, at : 1..MaxTime])
    /\ pc \in [Requests -> InFlight \cup {"read", "repair", "done"}]
    /\ mine \in [Requests -> [prev : Hashes, at : 0..MaxTime, plan : Seq(Rows)]]
    /\ quiet \in BOOLEAN
    /\ \A i, k \in DOMAIN log : i < k => log[i].at <= log[k].at /\ log[i].id # log[k].id

Repairing == \E r \in Requests : pc[r] = "repairing"
DistinctTimes == \A i, k \in DOMAIN log : log[i].at = log[k].at => i = k

(* As long as appends and repairs come one after the other, in different   *)
(* milliseconds, and nothing is removed or altered, the log verifies:      *)
(* after rows that have no hash, after lost appends, and again once a      *)
(* repair has gone through undisturbed, whatever came before it.           *)
QuietLogVerifies == quiet /\ DistinctTimes /\ ~Repairing => Verifies(log)

(* A repair that nothing disturbed leaves a log that verifies, though rows *)
(* were altered or removed before it, and rows of one millisecond were     *)
(* read in no fixed order when they were appended (storage.ts:1490-1506).  *)
RepairMends ==
    [][\A r \in Repairs :
          pc[r] \in {"repair", "repairing"} /\ pc'[r] = "read" /\ quiet' =>
             Verifies(log')]_chainVars

(* "Audit logs have not been tampered with ... valid: true in response"    *)
(* (docs/UAT_Test_Document.md:586): with no repair and nothing removed or  *)
(* altered, the log verifies, at least while no two rows share a           *)
(* millisecond.                                                            *)
IntactLogVerifies ==
    (/\ Repairs = {} /\ Alterable = {}
     /\ Retention >= MaxTime /\ DistinctTimes) => Verifies(log)
=============================================================================
