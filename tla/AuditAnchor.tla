---------------------------- MODULE AuditAnchor ----------------------------
(***************************************************************************)
(* server/blockchain-anchor.ts over the audit log of AuditChain.  Every    *)
(* six hours, and when an administrator asks, createAnchor takes the rows  *)
(* since the last anchored one and stores the Merkle root of their hashes; *)
(* verifyAuditAgainstAnchor computes the root again.                       *)
(*                                                                         *)
(* A Merkle root stands for the list of hashes it was computed from: no    *)
(* two rows of a log have the same hash, so none are confused by the       *)
(* doubling of an odd one.                                                 *)
(***************************************************************************)
EXTENDS AuditChain

CONSTANTS
    Anchorers,   \* runs of createAnchor under way at a time
    MaxAnchors   \* bound on the anchors

ASSUME AnchorNumbers == MaxAnchors \in Nat

VARIABLES
    anchors,  \* blockchain_anchors, in the order they were inserted
    apc,      \* where each run of createAnchor is
    last,     \* the last anchored row: its id, then the row; {} without one
    rows      \* the rows it gathered

anchorVars == <<anchors, apc, last, rows>>
vars == <<chainVars, anchorVars>>

Init ==
    /\ ChainInit
    /\ anchors = <<>>
    /\ apc = [a \in Anchorers |-> "idle"]
    /\ last = [a \in Anchorers |-> {}]
    /\ rows = [a \in Anchorers |-> <<>>]

Hold(a, place, ref, gathered) ==
    /\ apc' = [apc EXCEPT ![a] = place]
    /\ last' = [last EXCEPT ![a] = ref]
    /\ rows' = [rows EXCEPT ![a] = gathered]

Stop(a) == Hold(a, "idle", {}, <<>>)

Field(s, f) == [i \in DOMAIN s |-> s[i][f]]
Members(s) == {s[i] : i \in DOMAIN s}
HashesOf(s) == Field(Hashed(s), "hash")

(* The rows of a set of ids that are still in the log.                     *)
RowsOf(ids) == {row \in Members(log) : row.id \in ids}

(* ORDER BY created_at alone: rows of one millisecond come in any order.   *)
ByTime(s) ==
    {t \in [DOMAIN s -> Members(s)] :
        /\ Members(t) = Members(s)
        /\ \A i, k \in DOMAIN t : i < k => t[i].at <= t[k].at}

-----------------------------------------------------------------------------
(* createAnchor                                                            *)

FindLast(a) ==
    /\ apc[a] = "idle"
    /\ Len(anchors) < MaxAnchors
    /\ \/ anchors = <<>> /\ Hold(a, "gather", {}, <<>>)
       \/ \E k \in DOMAIN anchors :
             /\ \A j \in DOMAIN anchors : anchors[j].at <= anchors[k].at
             /\ Hold(a, "find", {anchors[k].last}, <<>>)
    /\ UNCHANGED <<chainVars, anchors>>

(* The row itself is looked up for its time; it may be gone.               *)
FindRef(a) ==
    /\ apc[a] = "find"
    /\ Hold(a, "gather", RowsOf(last[a]), <<>>)
    /\ UNCHANGED <<chainVars, anchors>>

AfterOnly(ref) ==
    Kept(log, {i \in DOMAIN log : \A prev \in ref : log[i].at > prev.at})

(* The rows no earlier than the last anchored one, itself left out; every  *)
(* row when there is none, or when it was gone.                            *)
Since(ref) ==
    Kept(log, {i \in DOMAIN log :
        \A prev \in ref : log[i].at >= prev.at /\ log[i].id # prev.id})

(* Without a row, or without a hash, there is nothing to anchor.           *)
Gather(a) ==
    /\ apc[a] = "gather"
    /\ \E found \in ByTime(Since(last[a])) :
          IF HashesOf(found) = <<>> THEN Stop(a)
          ELSE Hold(a, "anchor", {}, found)
    /\ UNCHANGED <<chainVars, anchors>>

InsertAnchor(a) ==
    /\ apc[a] = "anchor"
    /\ Len(anchors) < MaxAnchors
    /\ anchors' = Append(anchors,
          [first |-> rows[a][1].id, last |-> rows[a][Len(rows[a])].id,
           root |-> HashesOf(rows[a]), at |-> now,
           ids |-> Members(Field(rows[a], "id"))])
    /\ Stop(a)
    /\ UNCHANGED chainVars

(* A statement fails: the run ends without an anchor.                      *)
AnchorFails(a) ==
    /\ apc[a] # "idle"
    /\ Stop(a)
    /\ UNCHANGED <<chainVars, anchors>>

-----------------------------------------------------------------------------
(* verifyAuditAgainstAnchor: the && of two drizzle conditions is the       *)
(* second one, so the rows are all those up to the anchor's last.          *)
Recomputed(k) ==
    IF RowsOf({anchors[k].first}) = {} THEN <<>>
    ELSE Kept(log, {i \in DOMAIN log :
             \E end \in RowsOf({anchors[k].last}) : log[i].at <= end.at})

(* The root comes out for some order of the rows of one millisecond.       *)
RootOf(k, s) == \E t \in ByTime(s) : HashesOf(t) = anchors[k].root
AnchorValid(k) == RootOf(k, Recomputed(k))

-----------------------------------------------------------------------------
Crash ==
    /\ ChainCrash
    /\ apc' = [a \in Anchorers |-> "idle"]
    /\ last' = [a \in Anchorers |-> {}]
    /\ rows' = [a \in Anchorers |-> <<>>]
    /\ UNCHANGED anchors

Anchoring(a) == FindLast(a) \/ FindRef(a) \/ Gather(a) \/ InsertAnchor(a) \/ AnchorFails(a)

Next ==
    \/ ChainNext /\ UNCHANGED anchorVars
    \/ \E a \in Anchorers : Anchoring(a)
    \/ Crash

Spec == Init /\ [][Next]_vars
-----------------------------------------------------------------------------
(* Anchors and the runs of createAnchor have their shapes, and so has the  *)
(* log under them.                                                         *)
TypeOK ==
    /\ ChainTypeOK
    /\ anchors \in Seq([first : Ids, last : Ids, root : Seq(Hashes),
                        at : 1..MaxTime, ids : SUBSET Ids])
    /\ apc \in [Anchorers -> {"idle", "find", "gather", "anchor"}]
    /\ last \in [Anchorers -> (SUBSET Ids) \cup (SUBSET Rows)]
    /\ rows \in [Anchorers -> Seq(Rows)]

(* A row arrived late when one of a later time was inserted before it.     *)
Late(n) == \E m \in 1..n - 1 : arrived[m].at > arrived[n].at

(* Anchoring leaves out no row but the late ones: whatever is older than   *)
(* the last row of an anchor and still in the log is in some anchor,       *)
(* though runs of createAnchor overlap, fail, and lose the row they were   *)
(* to continue from.                                                       *)
NoTimelyRowIsSkipped ==
    \A n, e \in DOMAIN arrived : \A k \in DOMAIN anchors :
        (/\ RowsOf({arrived[n].id}) # {} /\ ~Late(n)
         /\ arrived[e].id = anchors[k].last /\ arrived[n].at < arrived[e].at) =>
            \E j \in DOMAIN anchors : arrived[n].id \in anchors[j].ids

(* What an anchor covers still stands as it was anchored.                  *)
Untouched(k) ==
    RootOf(k, Kept(log, {i \in DOMAIN log :
        /\ \E start \in RowsOf({anchors[k].first}) : start.at <= log[i].at
        /\ \E end \in RowsOf({anchors[k].last}) : log[i].at <= end.at}))

(* "Records the Merkle root with a timestamp for independent verification" *)
(* (docs/architecture-and-compliance.md:148): as long as no row arrived    *)
(* late, an anchor whose rows stand untouched is found valid.              *)
UntouchedAnchorsVerify ==
    (\A n \in DOMAIN arrived : ~Late(n)) =>
        \A k \in DOMAIN anchors : Untouched(k) => AnchorValid(k)
=============================================================================
