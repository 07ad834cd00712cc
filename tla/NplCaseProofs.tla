---------------------------- MODULE NplCaseProofs ---------------------------
(***************************************************************************)
(* For any number of accounts, proposals, users and requests: what a       *)
(* request has read under its locks is still so when it commits, so every  *)
(* transaction is one observation of the abstract ledger, and a decision   *)
(* is reviewed and executed once, by separate hands.  Then what follows    *)
(* from it: the abstract ledger's chronologies explain its exposures, the  *)
(* chronology and the proposals tell one story, and the waterfall of any   *)
(* period adds up, with what that takes about sums over finite sets.       *)
(***************************************************************************)
EXTENDS NplWaterfall, FiniteSetTheorems, SequenceTheorems, TLAPS

(* What a request knows at each of its places.                             *)
TxnOK(w) ==
    LET t == txn[w] IN
    /\ \A r \in held[w] :
          \/ r = t.case /\ t.pc = "holdsCase"
          \/ /\ r = t.proposal
             /\ t.kind \in {"review", "execute"}
             /\ t.pc \in {"wantCase", "holdsCase"}
    /\ t.pc # "idle" => t.user \in Users
    /\ t.pc = "opening" =>
          /\ t.case \in Accounts
          /\ t.row.exposure \in Amounts
          /\ t.row.status = "open"
    /\ t.pc = "wantProposal" =>
          /\ t.kind \in {"review", "execute"}
          /\ t.proposal \in Proposals
          /\ proposals[t.proposal].status # NONE
    /\ t.pc \in {"wantCase", "holdsCase"} =>
          /\ t.case \in Accounts /\ events[t.case] # <<>>
          /\ t.kind \in {"review", "execute"} =>
                /\ t.proposal \in held[w] \cap Proposals
                /\ MayProceed(t.kind, t.user, proposals[t.proposal])
    /\ t.pc = "holdsCase" =>
          /\ t.case \in held[w]
          /\ t.row = cases[t.case]
          /\ t.sequence = Len(events[t.case])
          /\ t.date = events[t.case][Len(events[t.case])].date

LocksHold == \A v, w \in Workers : v # w => held[v] \cap held[w] = {}

(* A case without events has no row; one with events shows what they left. *)
CaseOK(a) ==
    /\ events[a] = <<>> => cases[a] = NoCase
    /\ events[a] # <<>> =>
          /\ cases[a].status \in {"open", "resolved"}
          /\ cases[a].status = "resolved" <=> cases[a].exposure = 0
          /\ cases[a].exposure = 0 => cases[a].stage = "resolved"
    /\ \A i \in 1..Len(events[a]) :
          /\ events[a][i].date <= today
          /\ events[a][i].date <= events[a][Len(events[a])].date

ProposalOK(p) ==
    LET r == proposals[p] IN
    /\ r.status = NONE => r = NoProposal
    /\ r.status # NONE =>
          /\ r.case \in Accounts /\ events[r.case] # <<>>
          /\ r.maker \in Users
    /\ r.status \in {NONE, "pending"} => r.checker = NONE
    /\ r.status # "execution_recorded" => r.executor = NONE
    /\ r.checker # NONE => r.checker # r.maker
    /\ r.executor # NONE => r.executor # r.checker /\ r.executedOn >= r.reviewedOn

IInv ==
    /\ TypeOK
    /\ LocksHold
    /\ \A w \in Workers : TxnOK(w)
    /\ \A a \in Accounts : CaseOK(a)
    /\ \A p \in Proposals : ProposalOK(p)
-----------------------------------------------------------------------------
(* A step of one request: it changes its own txn and locks, and only rows  *)
(* it has locked or that were not there.                                   *)
Local(w) ==
    /\ txn' = [txn EXCEPT ![w] = txn'[w]]
    /\ held' = [held EXCEPT ![w] = held'[w]]
    /\ today' = today
    /\ \A a \in Accounts \ held[w] : events[a] # <<>> =>
          cases'[a] = cases[a] /\ events'[a] = events[a]
    /\ \A a \in Accounts : events[a] # <<>> => events'[a] # <<>>
    /\ \A p \in Proposals \ held[w] : proposals[p].status # NONE =>
          proposals'[p] = proposals[p]
    /\ \A p \in Proposals : proposals[p].status # NONE =>
          proposals'[p].status # NONE

LEMMA OthersKeep ==
    ASSUME IInv, NEW w \in Workers, Local(w), NEW v \in Workers, v # w
    PROVE  TxnOK(v)'
<1>1. txn'[v] = txn[v] /\ held'[v] = held[v]
  BY DEF Local, IInv, TypeOK
<1>2. TxnOK(v) /\ held[v] \cap held[w] = {}
  BY DEF IInv, LocksHold
<1> DEFINE t == txn[v]
<1>3. CASE t.pc \in {"wantCase", "holdsCase"}
  <2>1. /\ t.case \in Accounts /\ events[t.case] # <<>> /\ events'[t.case] # <<>>
    BY <1>2, <1>3 DEF TxnOK, Local
  <2>2. t.kind \in {"review", "execute"} =>
          /\ t.proposal \in held[v] \cap Proposals
          /\ MayProceed(t.kind, t.user, proposals'[t.proposal])
    <3> SUFFICES ASSUME t.kind \in {"review", "execute"}
                 PROVE  /\ t.proposal \in held[v] \cap Proposals
                        /\ MayProceed(t.kind, t.user, proposals'[t.proposal])
      OBVIOUS
    <3>1. /\ t.proposal \in held[v] \cap Proposals
          /\ MayProceed(t.kind, t.user, proposals[t.proposal])
      BY <1>2, <1>3 DEF TxnOK
    <3>2. proposals[t.proposal].status # NONE
      BY <3>1, NplNames DEF MayProceed, NPL_DECISION_STATUSES
    <3>3. proposals'[t.proposal] = proposals[t.proposal]
      BY <1>2, <3>1, <3>2 DEF Local
    <3> QED BY <3>1, <3>3
  <2>3. t.pc = "holdsCase" =>
          cases'[t.case] = cases[t.case] /\ events'[t.case] = events[t.case]
    BY <1>2, <2>1 DEF TxnOK, Local
  <2> QED BY <1>1, <1>2, <1>3, <2>1, <2>2, <2>3 DEF TxnOK
<1>4. CASE t.pc = "wantProposal"
  BY <1>1, <1>2, <1>4 DEF TxnOK, Local
<1>5. CASE t.pc \notin {"wantCase", "holdsCase", "wantProposal"}
  BY <1>1, <1>2, <1>5 DEF TxnOK
<1> QED BY <1>3, <1>4, <1>5

(* No lock is taken twice.                                                 *)
LEMMA LocksStayApart ==
    ASSUME IInv, NEW w \in Workers, Local(w),
           \A r \in held'[w] \ held[w] : Free(r)
    PROVE  LocksHold'
<1>1. \A v \in Workers : v # w => held'[v] = held[v]
  BY DEF Local, IInv, TypeOK
<1> QED BY <1>1 DEF LocksHold, IInv, Free

(* What is left to show of a step of one request.                          *)
LEMMA LocalStep ==
    ASSUME IInv, NEW w \in Workers, Local(w), TypeOK', TxnOK(w)',
           \A r \in held'[w] \ held[w] : Free(r),
           \A a \in Accounts : CaseOK(a)',
           \A p \in Proposals : ProposalOK(p)'
    PROVE  IInv'
BY OthersKeep, LocksStayApart DEF IInv

(* Giving everything up is always right.                                   *)
LEMMA EndIsLocal ==
    ASSUME IInv, NEW w \in Workers, End(w)
    PROVE  /\ txn'[w] = Idle /\ held'[w] = {} /\ TxnOK(w)'
           /\ txn' = [txn EXCEPT ![w] = txn'[w]]
           /\ held' = [held EXCEPT ![w] = held'[w]]
           /\ txn' \in [Workers -> Txns]
           /\ held' \in [Workers -> SUBSET (Accounts \cup Proposals)]
<1>1. Idle \in Txns
  BY NplNumbers DEF Idle, Txn, Txns, NoCase, CaseRow, CaseRows
<1>2. txn'[w] = Idle /\ held'[w] = {}
  BY DEF End, IInv, TypeOK
<1>3. Idle.pc = "idle"
  BY DEF Idle, Txn
<1> QED BY <1>1, <1>2, <1>3 DEF End, IInv, TypeOK, TxnOK

-----------------------------------------------------------------------------
(* Steps that only move a request.                                         *)
LEMMA Moving ==
    ASSUME IInv, NEW w \in Workers, UNCHANGED <<today, tables>>,
           txn' = [txn EXCEPT ![w] = txn'[w]], txn'[w] \in Txns,
           held' = [held EXCEPT ![w] = held'[w]],
           held'[w] \subseteq Accounts \cup Proposals,
           \A r \in held'[w] \ held[w] : Free(r), TxnOK(w)'
    PROVE  IInv'
<1>1. Local(w)
  BY DEF Local, tables
<1>2. TypeOK'
  BY DEF IInv, TypeOK, tables
<1>3. \A a \in Accounts : CaseOK(a)'
  BY DEF IInv, CaseOK, tables
<1>4. \A p \in Proposals : ProposalOK(p)'
  BY DEF IInv, ProposalOK, tables
<1> QED BY <1>1, <1>2, <1>3, <1>4, LocalStep
LEMMA ReadAccountKeeps ==
    ASSUME IInv, NEW w \in Workers, ReadAccount(w) PROVE IInv'
<1>1. PICK a \in Accounts, u \in Users, b \in Amounts, s \in {"watchlist", "npl"} :
        /\ txn[w] = Idle
        /\ txn' = [txn EXCEPT ![w] =
              [Txn("opening", "open", u, a, NONE) EXCEPT
                 !.row = CaseRow(b, s, "open")]]
  BY DEF ReadAccount
<1> DEFINE t == [Txn("opening", "open", u, a, NONE) EXCEPT
                   !.row = CaseRow(b, s, "open")]
<1>2. b \in Nat /\ b > 0
  BY NplNumbers
<1>3. t \in Txns
  BY <1>2, NplNumbers
     DEF Txn, Txns, NoCase, CaseRow, CaseRows, NPL_CASE_STAGES
<1>4. /\ t.pc = "opening" /\ t.user = u /\ t.case = a
      /\ t.row.exposure = b /\ t.row.status = "open"
  BY DEF Txn, CaseRow
<1> HIDE DEF t
<1>5. txn'[w] = t /\ txn' = [txn EXCEPT ![w] = t] /\ held' = held
  BY <1>1 DEF ReadAccount, IInv, TypeOK, t
<1>6. held[w] = {}
  BY <1>1 DEF IInv, TxnOK, Idle, Txn
<1>7. TxnOK(w)'
  BY <1>2, <1>4, <1>5, <1>6 DEF TxnOK
<1> QED BY <1>3, <1>5, <1>6, <1>7, Moving DEF ReadAccount, IInv, TypeOK

LEMMA BeginOnCaseKeeps ==
    ASSUME IInv, NEW w \in Workers, BeginOnCase(w) PROVE IInv'
<1>1. PICK kind \in {"append", "submit"}, u \in Users, a \in Accounts :
        /\ txn[w] = Idle /\ Exists(a)
        /\ txn' = [txn EXCEPT ![w] = Txn("wantCase", kind, u, a, NONE)]
  BY DEF BeginOnCase
<1> DEFINE t == Txn("wantCase", kind, u, a, NONE)
<1>2. t \in Txns
  BY NplNumbers DEF Txn, Txns, NoCase, CaseRow, CaseRows
<1>3. t.pc = "wantCase" /\ t.user = u /\ t.case = a /\ t.kind = kind
  BY DEF Txn
<1> HIDE DEF t
<1>4. txn'[w] = t /\ txn' = [txn EXCEPT ![w] = t] /\ held' = held
  BY <1>1 DEF BeginOnCase, IInv, TypeOK, t
<1>5. held[w] = {}
  BY <1>1 DEF IInv, TxnOK, Idle, Txn
<1>6. events' = events
  BY DEF BeginOnCase, tables
<1>7. TxnOK(w)'
  BY <1>1, <1>3, <1>4, <1>5, <1>6 DEF TxnOK, Exists
<1> QED BY <1>2, <1>4, <1>5, <1>7, Moving DEF BeginOnCase, IInv, TypeOK

LEMMA BeginOnProposalKeeps ==
    ASSUME IInv, NEW w \in Workers, BeginOnProposal(w) PROVE IInv'
<1>1. PICK kind \in {"review", "execute"}, u \in Users, p \in Proposals :
        /\ txn[w] = Idle /\ proposals[p] # NoProposal
        /\ txn' = [txn EXCEPT ![w] =
              [Txn("wantProposal", kind, u, NONE, p) EXCEPT !.began = today]]
  BY DEF BeginOnProposal
<1> DEFINE t == [Txn("wantProposal", kind, u, NONE, p) EXCEPT !.began = today]
<1>0. today \in 0..MaxDay
  BY NplNumbers DEF IInv, TypeOK
<1>2. t \in Txns
  BY <1>0, NplNumbers DEF Txn, Txns, NoCase, CaseRow, CaseRows
<1>3. t.pc = "wantProposal" /\ t.user = u /\ t.proposal = p /\ t.kind = kind
  BY DEF Txn
<1> HIDE DEF t
<1>4. txn'[w] = t /\ txn' = [txn EXCEPT ![w] = t] /\ held' = held
  BY <1>1 DEF BeginOnProposal, IInv, TypeOK, t
<1>5. held[w] = {}
  BY <1>1 DEF IInv, TxnOK, Idle, Txn
<1>6. proposals[p].status # NONE /\ proposals' = proposals
  BY <1>1 DEF IInv, ProposalOK, BeginOnProposal, tables
<1>7. TxnOK(w)'
  BY <1>3, <1>4, <1>5, <1>6 DEF TxnOK
<1> QED BY <1>2, <1>4, <1>5, <1>7, Moving DEF BeginOnProposal, IInv, TypeOK

LEMMA EndKeeps ==
    ASSUME IInv, NEW w \in Workers, End(w), UNCHANGED <<today, tables>>
    PROVE  IInv'
BY EndIsLocal, Moving DEF IInv, TypeOK

LEMMA LockProposalKeeps ==
    ASSUME IInv, NEW w \in Workers, LockProposal(w) PROVE IInv'
<1> DEFINE old == txn[w]
           p == old.proposal
           t == [old EXCEPT !.pc = "wantCase", !.case = proposals[p].case]
<1>1. old \in Txns /\ TxnOK(w) /\ old.pc = "wantProposal" /\ Free(p)
  BY DEF LockProposal, IInv, TypeOK
<1>2. /\ p \in Proposals /\ proposals[p].status # NONE
      /\ old.kind \in {"review", "execute"} /\ old.user \in Users
      /\ held[w] = {}
  BY <1>1 DEF TxnOK
<1>3. CASE ~MayProceed(old.kind, old.user, proposals[p])
  BY <1>3, EndKeeps DEF LockProposal
<1>4. CASE MayProceed(old.kind, old.user, proposals[p])
  <2>1. /\ txn'[w] = t /\ txn' = [txn EXCEPT ![w] = t]
        /\ held'[w] = {p} /\ held' = [held EXCEPT ![w] = {p}]
        /\ UNCHANGED <<today, tables>>
    BY <1>2, <1>4 DEF LockProposal, IInv, TypeOK
  <2>2. /\ proposals[p].case \in Accounts
        /\ events[proposals[p].case] # <<>>
    BY <1>2 DEF IInv, ProposalOK
  <2>3. t \in Txns
    BY <1>1, <2>2 DEF Txns
  <2>4. /\ t.pc = "wantCase" /\ t.case = proposals[p].case
        /\ t.user = old.user /\ t.kind = old.kind /\ t.proposal = p
    BY <1>1 DEF Txns
  <2> HIDE DEF t
  <2>5. TxnOK(w)'
    BY <1>2, <1>4, <2>1, <2>2, <2>4 DEF TxnOK, tables
  <2> QED BY <1>1, <1>2, <2>1, <2>3, <2>5, Moving
<1> QED BY <1>3, <1>4

LEMMA LockCaseKeeps ==
    ASSUME IInv, NEW w \in Workers, LockCase(w) PROVE IInv'
<1> DEFINE old == txn[w]
           a == old.case
           t == [old EXCEPT !.pc = "holdsCase", !.row = cases[a],
                            !.sequence = Len(events[a]),
                            !.date = events[a][Len(events[a])].date]
<1>1. old \in Txns /\ TxnOK(w) /\ old.pc = "wantCase" /\ Free(a)
  BY DEF LockCase, IInv, TypeOK
<1>2. a \in Accounts /\ events[a] # <<>> /\ old.user \in Users
  BY <1>1 DEF TxnOK
<1>3. /\ txn'[w] = t /\ txn' = [txn EXCEPT ![w] = t]
      /\ held'[w] = held[w] \cup {a}
      /\ held' = [held EXCEPT ![w] = held[w] \cup {a}]
      /\ UNCHANGED <<today, tables>>
  BY DEF LockCase, IInv, TypeOK
<1>4. t \in Txns
  <2>1. events[a] \in Seq(EventRows) /\ cases[a] \in CaseRows
    BY <1>2 DEF IInv, TypeOK
  <2>2. Len(events[a]) \in 1..Len(events[a]) /\ Len(events[a]) \in Nat
    BY <1>2, <2>1
  <2>3. events[a][Len(events[a])] \in EventRows
    BY <2>1, <2>2
  <2>4. events[a][Len(events[a])].date \in 0..MaxDay
    BY <2>3, NplNumbers DEF EventRows
  <2> QED BY <1>1, <2>1, <2>2, <2>4 DEF Txns
<1>5. /\ t.pc = "holdsCase" /\ t.case = a /\ t.user = old.user
      /\ t.kind = old.kind /\ t.proposal = old.proposal
      /\ t.row = cases[a] /\ t.sequence = Len(events[a])
      /\ t.date = events[a][Len(events[a])].date
  BY <1>1 DEF Txns
<1> HIDE DEF t
<1>6. TxnOK(w)'
  BY <1>1, <1>2, <1>3, <1>5 DEF TxnOK, tables
<1>7. held'[w] \subseteq Accounts \cup Proposals
  BY <1>2, <1>3 DEF IInv, TypeOK
<1> QED BY <1>1, <1>3, <1>4, <1>6, <1>7, Moving
-----------------------------------------------------------------------------
(* Steps that change the tables.  An event joins the chronology of a case  *)
(* that is locked, and the row becomes what the event makes of it.         *)
LEMMA AppendKeeps ==
    ASSUME IInv, NEW w \in Workers, txn[w].pc = "holdsCase",
           NEW e \in EventRows, NEW row \in CaseRows, Insert(txn[w], e),
           cases' = [cases EXCEPT ![txn[w].case] = row], today' = today,
           txn[w].date <= e.date, e.date <= today,
           row.status \in {"open", "resolved"},
           row.status = "resolved" <=> row.exposure = 0,
           row.exposure = 0 => row.stage = "resolved"
    PROVE  /\ cases' \in [Accounts -> CaseRows]
           /\ events' \in [Accounts -> Seq(EventRows)]
           /\ \A a \in Accounts : CaseOK(a)'
           /\ \A a \in Accounts \ held[w] :
                 cases'[a] = cases[a] /\ events'[a] = events[a]
           /\ \A a \in Accounts : events[a] # <<>> => events'[a] # <<>>
<1>0. PICK c \in Accounts : c = txn[w].case
  BY DEF IInv, TxnOK
<1>1. /\ c \in held[w] /\ events[c] # <<>>
      /\ txn[w].date = events[c][Len(events[c])].date
  BY <1>0 DEF IInv, TxnOK
<1>2. /\ cases \in [Accounts -> CaseRows]
      /\ events \in [Accounts -> Seq(EventRows)]
  BY DEF IInv, TypeOK
<1> DEFINE rows == events[c]
           new == Append(rows, e)
<1>a. rows \in Seq(EventRows) /\ rows # <<>>
  BY <1>1, <1>2
<1> HIDE DEF rows
<1>3. /\ new \in Seq(EventRows) /\ Len(new) = Len(rows) + 1
      /\ Len(rows) \in 1..Len(rows) /\ Len(rows) \in Nat /\ new[Len(new)] = e
      /\ \A i \in 1..Len(rows) : new[i] = rows[i]
      /\ new # <<>>
  BY <1>a
<1>4. events' = [events EXCEPT ![c] = new]
  BY <1>0 DEF Insert, rows
<1> HIDE DEF new
<1>5. /\ cases' \in [Accounts -> CaseRows]
      /\ events' \in [Accounts -> Seq(EventRows)]
      /\ events'[c] = new /\ cases'[c] = row
      /\ \A a \in Accounts : a # c => cases'[a] = cases[a] /\ events'[a] = events[a]
  BY <1>0, <1>1, <1>2, <1>3, <1>4
<1>6. CaseOK(c)'
  <2>1. \A x \in EventRows : x.date \in Int
    BY DEF EventRows
  <2>2. /\ rows[Len(rows)].date <= e.date
        /\ \A i \in 1..Len(rows) :
              rows[i].date <= today /\ rows[i].date <= rows[Len(rows)].date
    BY <1>1 DEF IInv, CaseOK, rows
  <2>3. \A i \in 1..Len(rows) : rows[i].date \in Int
    BY <1>a, <2>1
  <2>4. \A i \in 1..Len(new) : new[i].date <= today /\ new[i].date <= e.date
    <3>1. e.date \in Int
      BY <2>1
    <3>2. \A i \in 1..Len(rows) : rows[i].date <= e.date
      BY <1>3, <2>2, <2>3, <3>1
    <3>3. ASSUME NEW i \in 1..Len(new)
          PROVE  i \in 1..Len(rows) \/ i = Len(new)
      BY <1>3, <3>3
    <3>4. \A i \in 1..Len(rows) : new[i].date <= today /\ new[i].date <= e.date
      BY <1>3, <2>2, <3>2
    <3>5. new[Len(new)].date <= today /\ new[Len(new)].date <= e.date
      BY <1>3, <3>1
    <3> QED BY <3>3, <3>4, <3>5
  <2>5. new[Len(new)].date = e.date
    BY <1>3
  <2>6. today' = today
    OBVIOUS
  <2> QED BY <1>3, <1>5, <2>4, <2>5, <2>6 DEF CaseOK
<1>7. \A a \in Accounts : a # c => CaseOK(a)'
  BY <1>5 DEF IInv, CaseOK
<1> QED BY <1>1, <1>3, <1>5, <1>6, <1>7

LEMMA UntouchedProposals ==
    ASSUME IInv, proposals' = proposals,
           \A a \in Accounts : events[a] # <<>> => events'[a] # <<>>
    PROVE  \A p \in Proposals : ProposalOK(p)'
BY DEF IInv, ProposalOK

LEMMA MovedIsInt ==
    ASSUME NEW type, NEW amount \in Nat
    PROVE  Moved(type, amount) \in Int
BY DEF Moved

(* What a posted event is, and what it makes of its case.                  *)
LEMMA CommitEventFacts ==
    ASSUME IInv, NEW w \in Workers, CommitEvent(w)
    PROVE  \E e \in EventRows, row \in CaseRows :
              /\ txn[w].pc = "holdsCase"
              /\ Insert(txn[w], e)
              /\ cases' = [cases EXCEPT ![txn[w].case] = row]
              /\ txn[w].date <= e.date /\ e.date <= today
              /\ row.status \in {"open", "resolved"}
              /\ row.status = "resolved" <=> row.exposure = 0
              /\ row.exposure = 0 => row.stage = "resolved"
              /\ row.exposure = e.after
              /\ e.after = txn[w].row.exposure + Moved(e.type, e.amount)
              /\ e.amount \in Amounts \cup {0}
              /\ e.proposal = NONE
<1> DEFINE t == txn[w]
<1>1. PICK type \in PostedTypes, d \in 1..today, amount \in Amounts \cup {0},
           given \in PostedStages \cup {NONE} :
        LET after == t.row.exposure + Moved(type, amount) IN
        /\ t.pc = "holdsCase" /\ t.kind = "append"
        /\ d >= t.date
        /\ CanApply(t.row.exposure, type, amount)
        /\ Insert(t, Event(type, d, amount, t.row.exposure, after, t.user, NONE))
        /\ cases' = [cases EXCEPT ![t.case] =
              CaseRow(after, StageAfter(type, given, t.row.stage, after),
                      StatusAfter(type, t.row.status, after))]
  BY DEF CommitEvent, NotBackdated
<1> DEFINE after == t.row.exposure + Moved(type, amount)
           e == Event(type, d, amount, t.row.exposure, after, t.user, NONE)
           row == CaseRow(after, StageAfter(type, given, t.row.stage, after),
                          StatusAfter(type, t.row.status, after))
<1>2. /\ t \in Txns /\ t.case \in Accounts /\ t.user \in Users
      /\ t.row = cases[t.case] /\ events[t.case] # <<>> /\ CaseOK(t.case)
      /\ t.row \in CaseRows /\ amount \in Nat /\ today \in 1..MaxDay
  <2>1. t \in Txns /\ TxnOK(w) /\ today \in 1..MaxDay
    BY DEF IInv, TypeOK
  <2>2. t.case \in Accounts /\ t.user \in Users
        /\ t.row = cases[t.case] /\ events[t.case] # <<>>
    BY <1>1, <2>1 DEF TxnOK
  <2>3. amount \in Nat
    BY NplNumbers
  <2> QED BY <2>1, <2>2, <2>3 DEF IInv, Txns
<1>3. /\ t.row.exposure \in Nat /\ t.row.stage \in NPL_CASE_STAGES \cup {NONE}
      /\ t.row.status \in {"open", "resolved"}
      /\ t.row.status = "resolved" <=> t.row.exposure = 0
  BY <1>2 DEF CaseRows, CaseOK
<1>4. after \in Nat
  BY <1>1, <1>2, <1>3, MovedIsInt DEF CanApply
<1>5. e \in EventRows
  BY <1>1, <1>2, <1>3, <1>4, NplNames, NplNumbers DEF Event, EventRows
<1>6. /\ row \in CaseRows /\ row.status \in {"open", "resolved"}
      /\ row.status = "resolved" <=> row.exposure = 0
      /\ row.exposure = 0 => row.stage = "resolved"
  <2>1. StageAfter(type, given, t.row.stage, after) \in NPL_CASE_STAGES \cup {NONE}
    BY <1>3, NplNames DEF StageAfter, NPL_CASE_STAGES
  <2>2. StatusAfter(type, t.row.status, after) \in {"open", "resolved"}
    BY <1>3 DEF StatusAfter
  <2>3. StatusAfter(type, t.row.status, after) = "resolved" <=> after = 0
    <3>1. CASE type = "npl_inflow_observed"
      BY <1>3, <1>4, <3>1 DEF StatusAfter
    <3>2. CASE type # "npl_inflow_observed"
      <4>1. Moved(type, amount) <= 0
        BY <1>1, <1>2, <3>2, NplNames DEF Moved, Inflows, Recoveries
      <4>2. after # 0 => t.row.exposure # 0
        BY <1>2, <1>3, <1>4, <4>1, MovedIsInt
      <4> QED BY <1>3, <3>2, <4>2 DEF StatusAfter
    <3> QED BY <3>1, <3>2
  <2>4. after = 0 => StageAfter(type, given, t.row.stage, after) = "resolved"
    BY DEF StageAfter
  <2> QED BY <1>4, <2>1, <2>2, <2>3, <2>4 DEF CaseRow, CaseRows
<1>7. /\ e.date = d /\ t.date <= d /\ d <= today
      /\ e.type = type /\ e.amount = amount /\ e.after = after
      /\ row.exposure = after /\ e.proposal = NONE
  BY <1>1, <1>2 DEF Event, Txns, CaseRow
<1> HIDE DEF e, row
<1>8. /\ Insert(t, e) /\ cases' = [cases EXCEPT ![t.case] = row]
      /\ t.pc = "holdsCase"
  BY <1>1 DEF e, row
<1> QED BY <1>5, <1>6, <1>7, <1>8

LEMMA CommitEventKeeps ==
    ASSUME IInv, NEW w \in Workers, CommitEvent(w) PROVE IInv'
<1>1. PICK e \in EventRows, row \in CaseRows :
          /\ txn[w].pc = "holdsCase"
          /\ Insert(txn[w], e)
          /\ cases' = [cases EXCEPT ![txn[w].case] = row]
          /\ txn[w].date <= e.date /\ e.date <= today
          /\ row.status \in {"open", "resolved"}
          /\ row.status = "resolved" <=> row.exposure = 0
          /\ row.exposure = 0 => row.stage = "resolved"
  BY CommitEventFacts
<1>2. today' = today /\ proposals' = proposals /\ End(w)
  BY DEF CommitEvent
<1>3. /\ cases' \in [Accounts -> CaseRows]
      /\ events' \in [Accounts -> Seq(EventRows)]
      /\ \A a \in Accounts : CaseOK(a)'
      /\ \A a \in Accounts \ held[w] :
            cases'[a] = cases[a] /\ events'[a] = events[a]
      /\ \A a \in Accounts : events[a] # <<>> => events'[a] # <<>>
  BY <1>1, <1>2, AppendKeeps
<1>4. Local(w) /\ TypeOK' /\ TxnOK(w)' /\ held'[w] = {}
  BY <1>2, <1>3, EndIsLocal DEF Local, IInv, TypeOK
<1>5. \A p \in Proposals : ProposalOK(p)'
  BY <1>2, <1>3, UntouchedProposals
<1> QED BY <1>3, <1>4, <1>5, LocalStep

(* A decision event leaves the case as it is.                              *)
LEMMA DecisionKeeps ==
    ASSUME IInv, NEW w \in Workers, txn[w].pc = "holdsCase",
           NEW type \in NPL_EVENT_TYPES, NEW p \in Proposals,
           InsertDecision(txn[w], type, p), cases' = cases, today' = today
    PROVE  /\ cases' \in [Accounts -> CaseRows]
           /\ events' \in [Accounts -> Seq(EventRows)]
           /\ \A a \in Accounts : CaseOK(a)'
           /\ \A a \in Accounts \ held[w] :
                 cases'[a] = cases[a] /\ events'[a] = events[a]
           /\ \A a \in Accounts : events[a] # <<>> => events'[a] # <<>>
<1> DEFINE t == txn[w]
           e == Event(type, today, 0, t.row.exposure, t.row.exposure, t.user, p)
<1>1. PICK row \in CaseRows : row = t.row
  BY DEF IInv, TypeOK, Txns
<1>2. /\ t \in Txns /\ t.case \in Accounts /\ t.user \in Users
      /\ row = cases[t.case] /\ events[t.case] # <<>>
      /\ t.date = events[t.case][Len(events[t.case])].date
  BY <1>1 DEF IInv, TypeOK, TxnOK
<1>3. row.exposure \in Nat
  BY DEF CaseRows
<1>4. today \in 1..MaxDay /\ CaseOK(t.case)
  BY <1>2 DEF IInv, TypeOK
<1>5. e \in EventRows /\ e.date = today
  BY <1>1, <1>2, <1>3, <1>4 DEF Event, EventRows
<1>6. t.date <= today
  <2>1. events[t.case] \in Seq(EventRows)
    BY <1>2 DEF IInv, TypeOK
  <2>2. Len(events[t.case]) \in 1..Len(events[t.case])
    BY <1>2, <2>1
  <2> QED BY <1>2, <1>4, <2>2 DEF CaseOK
<1>7. cases' = [cases EXCEPT ![t.case] = row]
  BY <1>2 DEF IInv, TypeOK
<1>8. Insert(t, e)
  BY DEF InsertDecision
<1>9. /\ row.status \in {"open", "resolved"}
      /\ row.status = "resolved" <=> row.exposure = 0
      /\ row.exposure = 0 => row.stage = "resolved"
  BY <1>2, <1>4 DEF CaseOK
<1>10. today <= today
  BY <1>4
<1> HIDE DEF e
<1> QED BY <1>5, <1>6, <1>7, <1>8, <1>9, <1>10, AppendKeeps

LEMMA InsertCaseKeeps ==
    ASSUME IInv, NEW w \in Workers, InsertCase(w) PROVE IInv'
<1> DEFINE t == txn[w]
<1>1. PICK d \in 1..today :
        IF Exists(t.case)
        THEN UNCHANGED <<cases, events>>
        ELSE /\ cases' = [cases EXCEPT ![t.case] = t.row]
             /\ events' = [events EXCEPT ![t.case] =
                   <<Event("case_opened", d, t.row.exposure, 0,
                           t.row.exposure, t.user, NONE)>>]
  BY DEF InsertCase
<1>2. PICK c \in Accounts : c = t.case
  BY DEF InsertCase, IInv, TxnOK
<1>3. PICK row \in CaseRows : row = t.row
  BY DEF IInv, TypeOK, Txns
<1>4. /\ t.user \in Users /\ row.exposure > 0 /\ row.exposure \in Nat
      /\ row.status = "open" /\ held[w] = {}
  BY <1>3, NplNumbers DEF InsertCase, IInv, TxnOK, CaseRows
<1>5. End(w) /\ UNCHANGED <<today, proposals>>
  BY DEF InsertCase
<1>6. CASE events[c] # <<>>
  BY <1>1, <1>2, <1>5, <1>6, EndKeeps DEF Exists, tables
<1>7. CASE events[c] = <<>>
  <2> DEFINE e == Event("case_opened", d, t.row.exposure, 0,
                        t.row.exposure, t.user, NONE)
  <2>1. e \in EventRows /\ e.date = d
    BY <1>3, <1>4, NplNumbers
       DEF Event, EventRows, NPL_EVENT_TYPES, IInv, TypeOK
  <2>2. PICK x \in EventRows : x = e
    BY <2>1
  <2>3. /\ cases' = [cases EXCEPT ![c] = row]
        /\ events' = [events EXCEPT ![c] = <<x>>]
    BY <1>1, <1>2, <1>3, <1>7, <2>2 DEF Exists
  <2>4. x.date = d /\ d <= today /\ d \in Int
    BY <2>1, <2>2 DEF IInv, TypeOK
  <2> HIDE DEF e
  <2>5. <<x>> \in Seq(EventRows) /\ Len(<<x>>) = 1 /\ <<x>>[1] = x /\ <<x>> # <<>>
    OBVIOUS
  <2>6. /\ cases' \in [Accounts -> CaseRows]
        /\ events' \in [Accounts -> Seq(EventRows)]
        /\ events'[c] = <<x>> /\ cases'[c] = row
        /\ \A a \in Accounts : a # c => cases'[a] = cases[a] /\ events'[a] = events[a]
    BY <2>3, <2>5 DEF IInv, TypeOK
  <2>7. \A a \in Accounts : CaseOK(a)'
    <3>1. CaseOK(c)'
      BY <1>4, <1>5, <2>4, <2>5, <2>6 DEF CaseOK
    <3>2. \A a \in Accounts : a # c => CaseOK(a)'
      BY <1>5, <2>6 DEF IInv, CaseOK
    <3> QED BY <3>1, <3>2
  <2>8. Local(w) /\ TypeOK' /\ TxnOK(w)' /\ held'[w] = {}
    BY <1>5, <1>7, <2>5, <2>6, EndIsLocal DEF Local, IInv, TypeOK
  <2>9. \A p \in Proposals : ProposalOK(p)'
    BY <1>5, <1>7, <2>6, UntouchedProposals
  <2> QED BY <2>7, <2>8, <2>9, LocalStep
<1> QED BY <1>6, <1>7
(* One proposal changes under its own lock, or comes into being.           *)
LEMMA DecisionStep ==
    ASSUME IInv, NEW w \in Workers, txn[w].pc = "holdsCase",
           NEW type \in NPL_EVENT_TYPES, NEW p \in Proposals,
           InsertDecision(txn[w], type, p),
           cases' = cases, today' = today, End(w),
           NEW r \in ProposalRows, proposals' = [proposals EXCEPT ![p] = r],
           p \in held[w] \/ proposals[p].status = NONE,
           r.status # NONE, r.case \in Accounts, events[r.case] # <<>>,
           r.maker \in Users,
           r.status = "pending" => r.checker = NONE,
           r.status # "execution_recorded" => r.executor = NONE,
           r.checker # NONE => r.checker # r.maker,
           r.executor # NONE =>
              r.executor # r.checker /\ r.executedOn >= r.reviewedOn
    PROVE  IInv'
<1>1. /\ cases' \in [Accounts -> CaseRows]
      /\ events' \in [Accounts -> Seq(EventRows)]
      /\ \A a \in Accounts : CaseOK(a)'
      /\ \A a \in Accounts \ held[w] :
            cases'[a] = cases[a] /\ events'[a] = events[a]
      /\ \A a \in Accounts : events[a] # <<>> => events'[a] # <<>>
  BY DecisionKeeps
<1>2. /\ proposals' \in [Proposals -> ProposalRows] /\ proposals'[p] = r
      /\ \A q \in Proposals : q # p => proposals'[q] = proposals[q]
  BY DEF IInv, TypeOK
<1>3. Local(w) /\ TypeOK' /\ TxnOK(w)' /\ held'[w] = {}
  BY <1>1, <1>2, EndIsLocal DEF Local, IInv, TypeOK
<1>4. ASSUME NEW q \in Proposals PROVE ProposalOK(q)'
  <2>1. CASE q = p
    BY <1>1, <1>2, <2>1 DEF ProposalOK
  <2>2. CASE q # p
    BY <1>1, <1>2, <2>2 DEF IInv, ProposalOK
  <2> QED BY <2>1, <2>2
<1> QED BY <1>1, <1>3, <1>4, LocalStep

LEMMA CommitSubmitKeeps ==
    ASSUME IInv, NEW w \in Workers, CommitSubmit(w) PROVE IInv'
<1> DEFINE t == txn[w]
<1>1. PICK p \in Proposals, type \in DecisionTypes, amount \in Amounts \cup {0} :
        /\ t.pc = "holdsCase" /\ proposals[p] = NoProposal
        /\ proposals' = [proposals EXCEPT ![p] =
              [NoProposal EXCEPT !.case = t.case, !.type = type,
                 !.amount = amount, !.status = "pending", !.maker = t.user]]
        /\ InsertDecision(t, "decision_submitted", p)
  BY DEF CommitSubmit
<1> DEFINE r == [NoProposal EXCEPT !.case = t.case, !.type = type,
                   !.amount = amount, !.status = "pending", !.maker = t.user]
<1>2. t.case \in Accounts /\ events[t.case] # <<>> /\ t.user \in Users
  BY <1>1 DEF IInv, TxnOK
<1>3. amount \in Nat
  BY NplNumbers
<1>a. NoProposal \in ProposalRows
  BY NplNumbers DEF NoProposal, ProposalRows
<1>b. r \in ProposalRows
  BY <1>a, <1>2, <1>3 DEF ProposalRows, NPL_DECISION_STATUSES
<1>4. PICK x \in ProposalRows : x = r
  BY <1>b
<1>5. /\ r.status = "pending" /\ r.case = t.case /\ r.maker = t.user
      /\ r.checker = NONE /\ r.executor = NONE
  BY DEF NoProposal
<1>6. proposals' = [proposals EXCEPT ![p] = x] /\ proposals[p].status = NONE
  BY <1>1, <1>4 DEF NoProposal
<1> HIDE DEF r
<1>7. /\ InsertDecision(t, "decision_submitted", p)
      /\ "decision_submitted" \in NPL_EVENT_TYPES
      /\ cases' = cases /\ today' = today /\ End(w)
  BY <1>1 DEF CommitSubmit, NPL_EVENT_TYPES
<1>8. "pending" # NONE /\ NONE \notin Users
  BY NplNames DEF NPL_DECISION_STATUSES
<1>9. /\ x.status # NONE /\ x.case \in Accounts /\ events[x.case] # <<>>
      /\ x.maker \in Users
      /\ x.status = "pending" => x.checker = NONE
      /\ x.status # "execution_recorded" => x.executor = NONE
      /\ x.checker # NONE => x.checker # x.maker
      /\ x.executor # NONE =>
            x.executor # x.checker /\ x.executedOn >= x.reviewedOn
  BY <1>2, <1>4, <1>5, <1>8
<1> QED BY <1>1, <1>6, <1>7, <1>9, DecisionStep

LEMMA CommitReviewKeeps ==
    ASSUME IInv, NEW w \in Workers, CommitReview(w) PROVE IInv'
<1> DEFINE t == txn[w]
<1>1. PICK decision \in {"approved", "rejected"} :
        /\ t.pc = "holdsCase" /\ t.kind = "review"
        /\ proposals' = [proposals EXCEPT ![t.proposal].status = decision,
                                          ![t.proposal].checker = t.user,
                                          ![t.proposal].reviewedOn = t.began]
        /\ InsertDecision(t, IF decision = "approved" THEN "decision_approved"
                                                      ELSE "decision_rejected",
                          t.proposal)
  BY DEF CommitReview
<1>2. PICK p \in Proposals : /\ p = t.proposal /\ p \in held[w]
                             /\ t.user \in Users
                             /\ proposals[p].maker # t.user
                             /\ proposals[p].status = "pending"
  BY <1>1 DEF IInv, TxnOK, MayProceed
<1> DEFINE old == proposals[p]
           r == [old EXCEPT !.status = decision, !.checker = t.user,
                            !.reviewedOn = t.began]
<1>3. old \in ProposalRows /\ ProposalOK(p) /\ t.began \in 0..MaxDay
  BY DEF IInv, TypeOK, Txns
<1>4. PICK x \in ProposalRows : x = r
  BY <1>2, <1>3 DEF ProposalRows, NPL_DECISION_STATUSES
<1>5. /\ r.status = decision /\ r.case = old.case /\ r.maker = old.maker
      /\ r.checker = t.user /\ r.executor = old.executor
  BY <1>3 DEF ProposalRows
<1>6. proposals' = [proposals EXCEPT ![p] = x]
  BY <1>1, <1>2, <1>4 DEF IInv, TypeOK
<1>7. /\ decision # NONE /\ "pending" # NONE /\ decision # "pending"
      /\ decision # "execution_recorded"
  BY NplNames DEF NPL_DECISION_STATUSES
<1>8. old.case \in Accounts /\ events[old.case] # <<>> /\ old.maker \in Users
      /\ old.executor = NONE
  BY <1>2, <1>3, <1>7 DEF ProposalOK
<1> HIDE DEF r
<1>9. PICK type \in NPL_EVENT_TYPES : InsertDecision(t, type, p)
  BY <1>1, <1>2 DEF NPL_EVENT_TYPES
<1>10. cases' = cases /\ today' = today /\ End(w)
  BY DEF CommitReview
<1>11. /\ x.status # NONE /\ x.case \in Accounts /\ events[x.case] # <<>>
       /\ x.maker \in Users
       /\ x.status = "pending" => x.checker = NONE
       /\ x.status # "execution_recorded" => x.executor = NONE
       /\ x.checker # NONE => x.checker # x.maker
       /\ x.executor # NONE =>
             x.executor # x.checker /\ x.executedOn >= x.reviewedOn
  BY <1>2, <1>4, <1>5, <1>7, <1>8
<1>12. txn[w].pc = "holdsCase" /\ p \in held[w]
  BY <1>1, <1>2
<1> QED BY <1>6, <1>9, <1>10, <1>11, <1>12, DecisionStep

LEMMA CommitExecutionKeeps ==
    ASSUME IInv, NEW w \in Workers, CommitExecution(w) PROVE IInv'
<1> DEFINE t == txn[w]
<1>1. PICK d \in 1..today :
        /\ t.pc = "holdsCase" /\ t.kind = "execute"
        /\ d >= proposals[t.proposal].reviewedOn
        /\ proposals' = [proposals EXCEPT
                           ![t.proposal].status = "execution_recorded",
                           ![t.proposal].executor = t.user,
                           ![t.proposal].executedOn = d]
        /\ InsertDecision(t, "decision_execution_recorded", t.proposal)
  BY DEF CommitExecution
<1>2. PICK p \in Proposals : /\ p = t.proposal /\ p \in held[w]
                             /\ t.user \in Users
                             /\ proposals[p].checker # t.user
                             /\ proposals[p].status = "approved"
  BY <1>1 DEF IInv, TxnOK, MayProceed
<1> DEFINE old == proposals[p]
           r == [old EXCEPT !.status = "execution_recorded",
                            !.executor = t.user, !.executedOn = d]
<1>3. /\ old \in ProposalRows /\ ProposalOK(p) /\ d \in 0..MaxDay
      /\ d >= old.reviewedOn
  BY <1>1, <1>2, NplNumbers DEF IInv, TypeOK
<1>4. PICK x \in ProposalRows : x = r
  BY <1>2, <1>3 DEF ProposalRows, NPL_DECISION_STATUSES
<1>5. /\ r.status = "execution_recorded" /\ r.case = old.case
      /\ r.maker = old.maker /\ r.checker = old.checker
      /\ r.executor = t.user /\ r.executedOn = d
      /\ r.reviewedOn = old.reviewedOn
  BY <1>3 DEF ProposalRows
<1>6. proposals' = [proposals EXCEPT ![p] = x]
  BY <1>1, <1>2, <1>4 DEF IInv, TypeOK
<1>7. "execution_recorded" # NONE /\ "approved" # NONE
  BY NplNames DEF NPL_DECISION_STATUSES
<1>8. /\ old.case \in Accounts /\ events[old.case] # <<>> /\ old.maker \in Users
      /\ old.checker # NONE => old.checker # old.maker
  BY <1>2, <1>3, <1>7 DEF ProposalOK
<1> HIDE DEF r
<1>9. /\ InsertDecision(t, "decision_execution_recorded", p)
      /\ "decision_execution_recorded" \in NPL_EVENT_TYPES
      /\ cases' = cases /\ today' = today /\ End(w)
  BY <1>1, <1>2 DEF CommitExecution, NPL_EVENT_TYPES
<1>10. /\ x.status # NONE /\ x.case \in Accounts /\ events[x.case] # <<>>
       /\ x.maker \in Users
       /\ x.status = "pending" => x.checker = NONE
       /\ x.status # "execution_recorded" => x.executor = NONE
       /\ x.checker # NONE => x.checker # x.maker
       /\ x.executor # NONE =>
             x.executor # x.checker /\ x.executedOn >= x.reviewedOn
  BY <1>2, <1>3, <1>4, <1>5, <1>7, <1>8
<1>11. txn[w].pc = "holdsCase" /\ p \in held[w]
  BY <1>1, <1>2
<1> QED BY <1>6, <1>9, <1>10, <1>11, DecisionStep

LEMMA NextDayKeeps ==
    ASSUME IInv, NextDay PROVE IInv'
<1>1. /\ today' \in 1..MaxDay /\ today \in 1..MaxDay /\ today <= today'
      /\ UNCHANGED <<cases, events, proposals, txn, held>>
  BY NplNumbers DEF NextDay, IInv, TypeOK, tables
<1>2. TypeOK' /\ LocksHold'
  BY <1>1 DEF IInv, TypeOK, LocksHold
<1>3. \A w \in Workers : TxnOK(w)'
  BY <1>1 DEF IInv, TxnOK
<1>4. \A p \in Proposals : ProposalOK(p)'
  BY <1>1 DEF IInv, ProposalOK
<1>5. ASSUME NEW a \in Accounts PROVE CaseOK(a)'
  <2>1. \A i \in 1..Len(events[a]) : events[a][i].date \in Int
    <3>1. events[a] \in Seq(EventRows)
      BY DEF IInv, TypeOK
    <3>2. \A x \in EventRows : x.date \in Int
      BY DEF EventRows
    <3> QED BY <3>1, <3>2
  <2> QED BY <1>1, <2>1 DEF IInv, CaseOK
<1> QED BY <1>2, <1>3, <1>4, <1>5 DEF IInv

LEMMA InitOK == Init => IInv
<1> SUFFICES ASSUME Init PROVE IInv
  OBVIOUS
<1>1. Idle \in Txns /\ Idle.pc = "idle"
  BY NplNumbers DEF Idle, Txn, Txns, NoCase, CaseRow, CaseRows
<1>2. NoCase \in CaseRows
  BY DEF NoCase, CaseRow, CaseRows
<1>3. NoProposal \in ProposalRows
  BY NplNumbers DEF NoProposal, ProposalRows
<1>4. <<>> \in Seq(EventRows) /\ Len(<<>>) = 0
  OBVIOUS
<1>5. TypeOK
  BY <1>1, <1>2, <1>3, <1>4, NplNumbers DEF Init, TypeOK
<1>6. LocksHold /\ \A w \in Workers : TxnOK(w)
  BY <1>1 DEF Init, LocksHold, TxnOK
<1>7. \A a \in Accounts : CaseOK(a)
  BY <1>4 DEF Init, CaseOK
<1>8. \A p \in Proposals : ProposalOK(p)
  <2>1. /\ NoProposal.status = NONE /\ NoProposal.checker = NONE
        /\ NoProposal.executor = NONE
    BY DEF NoProposal
  <2> QED BY <2>1 DEF Init, ProposalOK
<1> QED BY <1>5, <1>6, <1>7, <1>8 DEF IInv

(* Whatever requests do to each other, each finds under its locks what it  *)
(* read when it took them.                                                 *)
THEOREM RequestsKnow == Spec => []IInv
<1>1. IInv /\ [Next]_vars => IInv'
  <2> SUFFICES ASSUME IInv, [Next]_vars PROVE IInv'
    OBVIOUS
  <2>1. ASSUME NEW w \in Workers, Request(w) PROVE IInv'
    BY <2>1, ReadAccountKeeps, InsertCaseKeeps, BeginOnCaseKeeps,
       BeginOnProposalKeeps, LockProposalKeeps, LockCaseKeeps,
       CommitEventKeeps, CommitSubmitKeeps, CommitReviewKeeps,
       CommitExecutionKeeps, EndKeeps
       DEF Request, Rollback
  <2>2. CASE NextDay
    BY <2>2, NextDayKeeps
  <2>3. CASE UNCHANGED vars
    BY <2>3 DEF vars, tables, IInv, TypeOK, LocksHold, TxnOK, CaseOK, ProposalOK
  <2> QED BY <2>1, <2>2, <2>3 DEF Next
<1> QED BY <1>1, InitOK, PTL DEF Spec
-----------------------------------------------------------------------------
(* One event of one case is one observation of the abstract ledger.        *)
LEMMA EventIsObservation ==
    ASSUME IInv, NEW a \in Accounts, NEW e \in EventRows,
           cases' \in [Accounts -> CaseRows],
           events' = [events EXCEPT ![a] = Append(events[a], e)],
           \A b \in Accounts : b # a => cases'[b].exposure = cases[b].exposure,
           cases'[a].exposure = e.after,
           e.after = cases[a].exposure + Moved(e.type, e.amount),
           e.amount \in Amounts \cup {0},
           \A i \in 1..Len(events[a]) : events[a][i].date <= e.date
    PROVE  Ledger!LedgerNext
<1> DEFINE moved == Moved(e.type, e.amount)
           X == [b \in Accounts |-> cases[b].exposure]
           H == [b \in Accounts |-> [i \in 1..Len(events[b]) |->
                                        Seen(events[b][i])]]
<1>1. moved \in Ledger!Moves
  BY NplNumbers DEF Moved, Ledger!Moves
<1>2. e.date \in 1..MaxDay /\ e.after \in Nat
  BY DEF EventRows
<1>3. cases \in [Accounts -> CaseRows] /\ events \in [Accounts -> Seq(EventRows)]
  BY DEF IInv, TypeOK
<1>4. X' = [X EXCEPT ![a] = X[a] + moved]
  BY <1>3
<1>5. X[a] + moved >= 0
  BY <1>2
<1>6. H' = [H EXCEPT ![a] = Append(H[a], Ledger!Observed(moved, X[a] + moved, e.date))]
  <2> DEFINE old == events[a]
             new == Append(old, e)
             o == Ledger!Observed(moved, X[a] + moved, e.date)
  <2>1. old \in Seq(EventRows)
    BY <1>3
  <2>2. /\ Len(new) = Len(old) + 1 /\ Len(old) \in Nat /\ new[Len(old) + 1] = e
        /\ \A i \in 1..Len(old) : new[i] = old[i]
    BY <2>1
  <2>3. o = Seen(e)
    BY DEF Ledger!Observed, Seen
  <2> DEFINE row == [i \in 1..Len(old) |-> Seen(old[i])]
             S == {Seen(old[i]) : i \in 1..Len(old)} \cup {o}
  <2>4. row \in Seq(S) /\ Len(row) = Len(old)
    BY <2>2
  <2> HIDE DEF o, S
  <2>5. o \in S
    BY DEF S
  <2>6. Append(row, o) = [i \in 1..(Len(old) + 1) |->
                            IF i = Len(old) + 1 THEN o ELSE row[i]]
    BY <2>4, <2>5
  <2> HIDE DEF old, new
  <2>7. [i \in 1..Len(new) |-> Seen(new[i])] = Append(row, o)
    BY <2>2, <2>3, <2>6
  <2>8. /\ events'[a] = new
        /\ \A b \in Accounts : b # a => events'[b] = events[b]
    BY <1>3 DEF old, new
  <2>9. H[a] = row
    BY DEF old
  <2>10. H'[a] = Append(row, o)
    BY <2>7, <2>8
  <2>11. \A b \in Accounts : b # a => H'[b] = H[b]
    BY <2>8
  <2> HIDE DEF row
  <2> QED BY <2>9, <2>10, <2>11 DEF o
<1>7. \A i \in DOMAIN H[a] : H[a][i].date <= e.date
  BY DEF Seen
<1>8. Ledger!Observe(a, moved, e.date)
  BY <1>4, <1>5, <1>6, <1>7 DEF Ledger!Observe
<1> HIDE DEF moved
<1> QED BY <1>1, <1>2, <1>8 DEF Ledger!LedgerNext
(* Dates of a locked case are all up to the one its request read.          *)
LEMMA ReadDateIsLatest ==
    ASSUME IInv, NEW w \in Workers, txn[w].pc = "holdsCase",
           NEW d \in Int, txn[w].date <= d
    PROVE  \A i \in 1..Len(events[txn[w].case]) :
              events[txn[w].case][i].date <= d
<1> DEFINE rows == events[txn[w].case]
<1>1. /\ txn[w].case \in Accounts /\ rows # <<>>
      /\ txn[w].date = rows[Len(rows)].date
  BY DEF IInv, TxnOK
<1>2. rows \in Seq(EventRows) /\ CaseOK(txn[w].case)
  BY <1>1 DEF IInv, TypeOK
<1>3. \A x \in EventRows : x.date \in Int
  BY DEF EventRows
<1>4. \A i \in 1..Len(rows) : rows[i].date \in Int
  BY <1>2, <1>3
<1>5. \A i \in 1..Len(rows) : rows[i].date <= rows[Len(rows)].date
  BY <1>2 DEF CaseOK
<1>6. Len(rows) \in 1..Len(rows)
  BY <1>1, <1>2
<1> HIDE DEF rows
<1>7. \A i \in 1..Len(rows) : rows[i].date <= d
  BY <1>1, <1>4, <1>5, <1>6
<1> QED BY <1>7 DEF rows

LEMMA CommitEventObserves ==
    ASSUME IInv, NEW w \in Workers, CommitEvent(w)
    PROVE  Ledger!LedgerNext
<1>1. PICK e \in EventRows, row \in CaseRows :
          /\ txn[w].pc = "holdsCase"
          /\ Insert(txn[w], e)
          /\ cases' = [cases EXCEPT ![txn[w].case] = row]
          /\ txn[w].date <= e.date
          /\ row.exposure = e.after
          /\ e.after = txn[w].row.exposure + Moved(e.type, e.amount)
          /\ e.amount \in Amounts \cup {0}
  BY CommitEventFacts
<1>2. PICK a \in Accounts : a = txn[w].case /\ txn[w].row = cases[a]
  BY <1>1 DEF IInv, TxnOK
<1>3. e.date \in Int
  BY DEF EventRows
<1>4. \A i \in 1..Len(events[a]) : events[a][i].date <= e.date
  BY <1>1, <1>2, <1>3, ReadDateIsLatest
<1>5. events' = [events EXCEPT ![a] = Append(events[a], e)]
  BY <1>1, <1>2 DEF Insert
<1>6. /\ cases' \in [Accounts -> CaseRows] /\ cases'[a] = row
      /\ \A b \in Accounts : b # a => cases'[b].exposure = cases[b].exposure
  BY <1>1, <1>2 DEF IInv, TypeOK
<1>7. cases'[a].exposure = e.after
      /\ e.after = cases[a].exposure + Moved(e.type, e.amount)
  BY <1>1, <1>2, <1>6
<1> QED BY <1>1, <1>4, <1>5, <1>6, <1>7, EventIsObservation

LEMMA DecisionObserves ==
    ASSUME IInv, NEW w \in Workers, txn[w].pc = "holdsCase",
           NEW type \in NPL_EVENT_TYPES \ (Inflows \cup Recoveries),
           NEW p \in Proposals,
           InsertDecision(txn[w], type, p), cases' = cases, today' = today
    PROVE  Ledger!LedgerNext
<1>1. PICK a \in Accounts : /\ a = txn[w].case /\ txn[w].row = cases[a]
                            /\ events[a] # <<>> /\ txn[w].user \in Users
  BY DEF IInv, TxnOK
<1> DEFINE x == cases[a].exposure
<1>2. x \in Nat /\ today \in 1..MaxDay
  BY DEF IInv, TypeOK, CaseRows
<1>3. PICK e \in EventRows : e = Event(type, today, 0, x, x, txn[w].user, p)
  BY <1>1, <1>2 DEF Event, EventRows
<1>4. /\ e.type = type /\ e.amount = 0 /\ e.after = x /\ e.date = today
  BY <1>3 DEF Event
<1>5. events' = [events EXCEPT ![a] = Append(events[a], e)]
  BY <1>1, <1>3 DEF InsertDecision, Insert
<1>6. Moved(type, 0) = 0
  BY DEF Moved
<1>7. \A i \in 1..Len(events[a]) : events[a][i].date <= e.date
  BY <1>4 DEF IInv, CaseOK
<1>8. cases' \in [Accounts -> CaseRows] /\ e.after = x + Moved(e.type, e.amount)
  BY <1>2, <1>4, <1>6 DEF IInv, TypeOK
<1> QED BY <1>4, <1>5, <1>7, <1>8, EventIsObservation

LEMMA CaseOpenedMoves ==
    ASSUME NEW x \in Nat PROVE Moved("case_opened", x) = x
<1>1. "case_opened" \in Inflows /\ "case_opened" \notin Recoveries
  BY DEF Inflows, Recoveries
<1> QED BY <1>1 DEF Moved

LEMMA InsertCaseObserves ==
    ASSUME IInv, NEW w \in Workers, InsertCase(w)
    PROVE  Ledger!LedgerNext \/ UNCHANGED <<cases, events>>
<1>1. CASE Exists(txn[w].case)
  BY <1>1 DEF InsertCase
<1>2. CASE ~Exists(txn[w].case)
  <2>1. PICK a \in Accounts : /\ a = txn[w].case /\ txn[w].user \in Users
                              /\ txn[w].row.exposure \in Amounts
    BY DEF InsertCase, IInv, TxnOK
  <2>2. PICK row \in CaseRows : row = txn[w].row
    BY DEF IInv, TypeOK, Txns
  <2>3. row.exposure \in Nat /\ cases[a].exposure = 0 /\ events[a] = <<>>
    BY <1>2, <2>1 DEF CaseRows, IInv, CaseOK, Exists, NoCase, CaseRow
  <2>4. PICK d \in 1..today :
          /\ cases' = [cases EXCEPT ![a] = row]
          /\ events' = [events EXCEPT ![a] =
                <<Event("case_opened", d, row.exposure, 0,
                        row.exposure, txn[w].user, NONE)>>]
    BY <1>2, <2>1, <2>2 DEF InsertCase
  <2> DEFINE opened == Event("case_opened", d, row.exposure, 0,
                             row.exposure, txn[w].user, NONE)
  <2>a. d \in 1..MaxDay
    BY NplNumbers DEF IInv, TypeOK
  <2>b. opened \in EventRows
    BY <2>1, <2>3, <2>a DEF Event, EventRows, NPL_EVENT_TYPES
  <2>5. PICK e \in EventRows : e = opened
    BY <2>b
  <2>6. e.type = "case_opened" /\ e.amount = row.exposure /\ e.after = row.exposure
    BY <2>5 DEF Event
  <2>7. Moved("case_opened", row.exposure) = row.exposure
    BY CaseOpenedMoves, <2>3
  <2>8. <<e>> = Append(events[a], e) /\ Len(events[a]) = 0
    BY <2>3
  <2>9. events' = [events EXCEPT ![a] = Append(events[a], e)]
    BY <2>4, <2>5, <2>8
  <2>10. \A i \in 1..Len(events[a]) : events[a][i].date <= e.date
    BY <2>8
  <2>11. /\ cases' \in [Accounts -> CaseRows] /\ cases'[a] = row
         /\ \A b \in Accounts : b # a => cases'[b].exposure = cases[b].exposure
    BY <2>4 DEF IInv, TypeOK
  <2>12. /\ cases'[a].exposure = e.after
         /\ e.after = cases[a].exposure + Moved(e.type, e.amount)
         /\ e.amount \in Amounts \cup {0}
    BY <2>1, <2>2, <2>3, <2>6, <2>7, <2>11
  <2> QED BY <2>9, <2>10, <2>11, <2>12, EventIsObservation
<1> QED BY <1>1, <1>2

LEMMA StepObserves ==
    ASSUME IInv, [Next]_vars
    PROVE  Ledger!LedgerNext \/ UNCHANGED <<cases, events>>
<1>1. ASSUME NEW w \in Workers, CommitSubmit(w)
      PROVE  Ledger!LedgerNext
  <2>1. PICK p \in Proposals : /\ txn[w].pc = "holdsCase"
                               /\ InsertDecision(txn[w], "decision_submitted", p)
    BY <1>1 DEF CommitSubmit
  <2>2. "decision_submitted" \in NPL_EVENT_TYPES \ (Inflows \cup Recoveries)
    BY DEF NPL_EVENT_TYPES, Inflows, Recoveries
  <2> QED BY <1>1, <2>1, <2>2, DecisionObserves DEF CommitSubmit
<1>2. ASSUME NEW w \in Workers, CommitReview(w)
      PROVE  Ledger!LedgerNext
  <2>1. PICK type \in {"decision_approved", "decision_rejected"} :
          /\ txn[w].pc = "holdsCase" /\ txn[w].kind = "review"
          /\ InsertDecision(txn[w], type, txn[w].proposal)
    BY <1>2 DEF CommitReview
  <2>2. PICK p \in Proposals : p = txn[w].proposal
    BY <2>1 DEF IInv, TxnOK
  <2>3. type \in NPL_EVENT_TYPES \ (Inflows \cup Recoveries)
    BY DEF NPL_EVENT_TYPES, Inflows, Recoveries
  <2> QED BY <1>2, <2>1, <2>2, <2>3, DecisionObserves DEF CommitReview
<1>3. ASSUME NEW w \in Workers, CommitExecution(w)
      PROVE  Ledger!LedgerNext
  <2>1. /\ txn[w].pc = "holdsCase" /\ txn[w].kind = "execute"
        /\ InsertDecision(txn[w], "decision_execution_recorded", txn[w].proposal)
    BY <1>3 DEF CommitExecution
  <2>2. PICK p \in Proposals : p = txn[w].proposal
    BY <2>1 DEF IInv, TxnOK
  <2>3. "decision_execution_recorded"
          \in NPL_EVENT_TYPES \ (Inflows \cup Recoveries)
    BY DEF NPL_EVENT_TYPES, Inflows, Recoveries
  <2> QED BY <1>3, <2>1, <2>2, <2>3, DecisionObserves DEF CommitExecution
<1>4. ASSUME NEW w \in Workers, Request(w), ~CommitSubmit(w),
             ~CommitReview(w), ~CommitExecution(w)
      PROVE  Ledger!LedgerNext \/ UNCHANGED <<cases, events>>
  BY <1>4, CommitEventObserves, InsertCaseObserves
     DEF Request, ReadAccount, BeginOnCase, BeginOnProposal, LockProposal,
         LockCase, Rollback, tables
<1>5. CASE NextDay \/ UNCHANGED vars
  BY <1>5 DEF NextDay, vars, tables
<1> QED BY <1>1, <1>2, <1>3, <1>4, <1>5 DEF Next

(* Every transaction of the case ledger is one observation of the abstract *)
(* ledger, or changes nothing of it, however requests overlap.             *)
THEOREM LedgerIsImplemented == Spec => ImplementsLedger
<1>1. Init => Ledger!LedgerInit
  BY DEF Init, Ledger!LedgerInit, NoCase, CaseRow
<1>2. IInv /\ [Next]_vars => [Ledger!LedgerNext]_(Ledger!ledgerVars)
  BY StepObserves DEF Ledger!ledgerVars
<1> QED BY <1>1, <1>2, RequestsKnow, PTL
        DEF Spec, ImplementsLedger, Ledger!LedgerSpec
-----------------------------------------------------------------------------
(* The abstract ledger explains every exposure by its history.             *)
LEMMA MovesAreIntegers ==
    ASSUME NEW moved \in Ledger!Moves
    PROVE  moved \in Int
<1> USE NplNumbers
<1>1. CASE moved \in {-x : x \in Amounts}
  <2>1. PICK x \in Amounts : moved = -x
    BY <1>1
  <2>2. x \in Nat
    OBVIOUS
  <2> QED BY <2>1, <2>2
<1>2. CASE moved \in {0} \cup Amounts
  BY <1>2
<1> QED BY <1>1, <1>2 DEF Ledger!Moves

(* One more observation of the current exposure keeps a chronology sound.  *)
LEMMA OneMore ==
    ASSUME NEW rows \in Seq(Ledger!Observations), NEW current \in Nat,
           NEW moved \in Ledger!Moves, NEW date \in 1..MaxDay,
           Ledger!Explains(rows, current), Ledger!InOrder(rows),
           current + moved >= 0,
           \A i \in DOMAIN rows : rows[i].date <= date
    PROVE  LET new == Append(rows, Ledger!Observed(moved, current + moved, date))
           IN /\ new \in Seq(Ledger!Observations)
              /\ Ledger!Explains(new, current + moved)
              /\ Ledger!InOrder(new)
<1> DEFINE e == Ledger!Observed(moved, current + moved, date)
           new == Append(rows, e)
<1>1. moved \in Int /\ current + moved \in Nat
  BY MovesAreIntegers
<1>2. e \in Ledger!Observations /\ e.moved = moved /\ e.after = current + moved
      /\ e.date = date
  BY <1>1 DEF Ledger!Observed, Ledger!Observations
<1> HIDE DEF e
<1>3. /\ new \in Seq(Ledger!Observations)
      /\ Len(new) = Len(rows) + 1 /\ Len(rows) \in Nat
      /\ new[Len(rows) + 1] = e
      /\ \A i \in 1..Len(rows) : new[i] = rows[i]
      /\ DOMAIN rows = 1..Len(rows)
  BY <1>2
<1>4. \A i \in 0..Len(rows) : Ledger!Left(new, i) = Ledger!Left(rows, i)
  BY <1>3 DEF Ledger!Left
<1>5. Ledger!Explains(new, current + moved)
  <2>1. ASSUME NEW i \in 1..Len(new)
        PROVE  new[i].after = Ledger!Left(new, i - 1) + new[i].moved
    <3>1. CASE i \in 1..Len(rows)
      <4>1. Ledger!Left(new, i - 1) = Ledger!Left(rows, i - 1)
        BY <1>3, <1>4, <3>1
      <4> QED BY <1>3, <3>1, <4>1 DEF Ledger!Explains
    <3>2. CASE i = Len(rows) + 1
      <4>1. Ledger!Left(new, i - 1) = current
        BY <1>3, <1>4, <3>2 DEF Ledger!Explains
      <4> QED BY <1>2, <1>3, <3>2, <4>1
    <3> QED BY <1>3, <2>1, <3>1, <3>2
  <2>2. current + moved = Ledger!Left(new, Len(new))
    BY <1>2, <1>3 DEF Ledger!Left
  <2> QED BY <2>1, <2>2 DEF Ledger!Explains
<1>6. Ledger!InOrder(new)
  <2> SUFFICES ASSUME NEW i \in 1..Len(new), NEW j \in 1..Len(new), i <= j
               PROVE  new[i].date <= new[j].date
    BY DEF Ledger!InOrder
  <2>1. date \in Nat
    BY NplNumbers
  <2>2. CASE j \in 1..Len(rows)
    BY <1>3, <2>2 DEF Ledger!InOrder
  <2>3. CASE j = Len(rows) + 1 /\ i \in 1..Len(rows)
    BY <1>2, <1>3, <2>3
  <2>4. CASE j = Len(rows) + 1 /\ i = Len(rows) + 1
    BY <1>2, <1>3, <2>1, <2>4
  <2> QED BY <1>3, <2>2, <2>3, <2>4
<1> QED BY <1>3, <1>5, <1>6 DEF e

(* The promise, of the exposures X and the histories H of the accounts.    *)
Sound(X, H) ==
    /\ X \in [Accounts -> Nat]
    /\ H \in [Accounts -> Seq(Ledger!Observations)]
    /\ \A a \in Accounts : Ledger!Explains(H[a], X[a])
    /\ \A a \in Accounts : Ledger!InOrder(H[a])

LEMMA OneObservation ==
    ASSUME NEW X, NEW H, Sound(X, H),
           NEW a \in Accounts, NEW moved \in Ledger!Moves, NEW date \in 1..MaxDay,
           X[a] + moved >= 0,
           \A i \in DOMAIN H[a] : H[a][i].date <= date
    PROVE  Sound([X EXCEPT ![a] = @ + moved],
                 [H EXCEPT ![a] = Append(@, Ledger!Observed(moved, X[a] + moved, date))])
<1> DEFINE new == Append(H[a], Ledger!Observed(moved, X[a] + moved, date))
<1>1. PICK rows \in Seq(Ledger!Observations), current \in Nat :
        /\ rows = H[a] /\ current = X[a]
        /\ Ledger!Explains(rows, current) /\ Ledger!InOrder(rows)
  BY DEF Sound
<1>2. /\ new \in Seq(Ledger!Observations)
      /\ Ledger!Explains(new, X[a] + moved)
      /\ Ledger!InOrder(new)
  <2>1. /\ current + moved >= 0
        /\ \A i \in DOMAIN rows : rows[i].date <= date
    BY <1>1
  <2>2. LET x == Append(rows, Ledger!Observed(moved, current + moved, date))
        IN /\ x \in Seq(Ledger!Observations)
           /\ Ledger!Explains(x, current + moved)
           /\ Ledger!InOrder(x)
    BY <1>1, <2>1, OneMore
  <2> QED BY <1>1, <2>2
<1>3. X[a] + moved \in Nat
  BY MovesAreIntegers DEF Sound
<1> HIDE DEF new
<1> QED BY <1>2, <1>3 DEF Sound, new

(* The chronology of every case explains its exposure and is in order:     *)
(* what npl_case_events and npl_cases promise together.                    *)
THEOREM ExposureLedgerSound == Ledger!LedgerSpec => []Ledger!ChronologySound
<1> DEFINE X == [a \in Accounts |-> cases[a].exposure]
           H == [a \in Accounts |-> [i \in 1..Len(events[a]) |->
                                        Seen(events[a][i])]]
<1>1. Ledger!LedgerInit => Ledger!ChronologySound
  <2> SUFFICES ASSUME Ledger!LedgerInit PROVE Sound(X, H)
    BY DEF Sound, Ledger!ChronologySound
  <2>1. X = [a \in Accounts |-> 0] /\ H = [a \in Accounts |-> <<>>]
    BY DEF Ledger!LedgerInit
  <2>2. <<>> \in Seq(Ledger!Observations) /\ Len(<<>>) = 0 /\ 0 \in Nat
    OBVIOUS
  <2>3. Ledger!Explains(<<>>, 0) /\ Ledger!InOrder(<<>>)
    BY <2>2 DEF Ledger!Explains, Ledger!InOrder, Ledger!Left
  <2> HIDE DEF X, H
  <2> QED BY <2>1, <2>2, <2>3 DEF Sound
<1>2. Ledger!ChronologySound /\ [Ledger!LedgerNext]_(Ledger!ledgerVars)
        => Ledger!ChronologySound'
  <2> SUFFICES ASSUME Sound(X, H), [Ledger!LedgerNext]_(Ledger!ledgerVars)
               PROVE  Sound(X', H')
    BY DEF Sound, Ledger!ChronologySound
  <2>1. CASE UNCHANGED Ledger!ledgerVars
    <3>1. X' = X /\ H' = H
      BY <2>1 DEF Ledger!ledgerVars
    <3> HIDE DEF X, H
    <3> QED BY <3>1
  <2>2. ASSUME NEW a \in Accounts, NEW moved \in Ledger!Moves, NEW date \in 1..MaxDay,
               Ledger!Observe(a, moved, date)
        PROVE  Sound(X', H')
    <3>1. /\ X[a] + moved >= 0
          /\ \A i \in DOMAIN H[a] : H[a][i].date <= date
          /\ X' = [X EXCEPT ![a] = @ + moved]
          /\ H' = [H EXCEPT ![a] =
                     Append(@, Ledger!Observed(moved, X[a] + moved, date))]
      BY <2>2 DEF Ledger!Observe
    <3> HIDE DEF X, H
    <3> QED BY <3>1, OneObservation
  <2> QED BY <2>1, <2>2 DEF Ledger!LedgerNext
<1> QED BY <1>1, <1>2, PTL DEF Ledger!LedgerSpec

(* In any number of requests, what npl_cases shows of a case is what its   *)
(* events add up to, in the order of their dates.                          *)
THEOREM CasesAreExplained == Spec => []EventsExplainCases
BY ExposureLedgerSound, LedgerIsImplemented, PTL
   DEF ImplementsLedger, EventsExplainCases

(* Rows and requests keep their shapes.                                    *)
THEOREM CaseTyped == Spec => []TypeOK
<1>1. IInv => TypeOK
  BY DEF IInv
<1> QED BY <1>1, RequestsKnow, PTL

(* A case is resolved exactly while nothing is owed on it.                 *)
THEOREM PaidIsResolved == Spec => []ResolvedWhenPaid
<1>1. IInv => ResolvedWhenPaid
  BY DEF IInv, CaseOK, ResolvedWhenPaid, Exists
<1> QED BY <1>1, RequestsKnow, PTL

(* A maker, a checker and the hand that records the execution: nobody      *)
(* follows themselves.                                                     *)
THEOREM SeparateHands == Spec => []HandsAreSeparate
<1>1. IInv => HandsAreSeparate
  BY DEF IInv, ProposalOK, HandsAreSeparate
<1> QED BY <1>1, RequestsKnow, PTL

(* Whoever waits for a proposal waits for a request that holds it and      *)
(* waits at most for a case; whoever holds a case waits for nothing.       *)
THEOREM NoCircle == Spec => []SomeoneProceeds
<1>1. ASSUME IInv, NEW w \in Workers, NEW a \in Accounts, ~Free(a)
      PROVE  \E v \in Workers : txn[v] # Idle /\ ~Blocked(v)
  <2>1. PICK v \in Workers : a \in held[v]
    BY <1>1 DEF Free
  <2>2. txn[v].pc = "holdsCase"
    BY <1>1, <2>1, NplNames DEF IInv, TxnOK
  <2> QED BY <2>2 DEF Blocked, Idle, Txn
<1>2. ASSUME IInv, NEW w \in Workers, NEW p \in Proposals, ~Free(p)
      PROVE  \E v \in Workers : txn[v] # Idle /\ ~Blocked(v)
  <2>1. PICK v \in Workers : p \in held[v]
    BY <1>2 DEF Free
  <2>2. txn[v].pc \in {"wantCase", "holdsCase"}
    BY <1>2, <2>1 DEF IInv, TxnOK
  <2>3. CASE ~Blocked(v)
    BY <2>2, <2>3 DEF Idle, Txn
  <2>4. CASE Blocked(v)
    BY <1>1, <1>2, <2>2, <2>4 DEF Blocked, IInv, TxnOK
  <2> QED BY <2>3, <2>4
<1>3. IInv => SomeoneProceeds
  BY <1>1, <1>2 DEF SomeoneProceeds, Blocked, IInv, TxnOK
<1> QED BY <1>3, RequestsKnow, PTL

(* Nobody rewrites a review: the row a request changes is one it found     *)
(* pending, or approved and to be executed, under its lock.                *)
THEOREM FinalReviews == Spec => ReviewsAreFinal
<1> DEFINE Final(p) ==
      proposals[p].status \notin {NONE, "pending"} =>
         /\ proposals'[p].checker = proposals[p].checker
         /\ proposals'[p].reviewedOn = proposals[p].reviewedOn
         /\ \/ proposals'[p] = proposals[p]
            \/ /\ proposals[p].status = "approved"
               /\ proposals'[p].status = "execution_recorded"
<1>1. ASSUME IInv, [Next]_vars, NEW p \in Proposals PROVE Final(p)
  <2>0. proposals \in [Proposals -> ProposalRows]
    BY <1>1 DEF IInv, TypeOK
  <2>1. ASSUME NEW w \in Workers, CommitSubmit(w) PROVE Final(p)
    <3>1. PICK q \in Proposals : /\ proposals[q] = NoProposal
                                 /\ \E r : proposals' = [proposals EXCEPT ![q] = r]
      BY <2>1 DEF CommitSubmit
    <3> QED BY <2>0, <3>1 DEF NoProposal
  <2>2. ASSUME NEW w \in Workers, CommitReview(w) PROVE Final(p)
    <3>1. PICK q \in Proposals : /\ q = txn[w].proposal
                                 /\ MayProceed(txn[w].kind, txn[w].user, proposals[q])
      BY <1>1, <2>2 DEF CommitReview, IInv, TxnOK
    <3>2. proposals[q].status = "pending"
      BY <2>2, <3>1 DEF CommitReview, MayProceed
    <3>3. p # q => proposals'[p] = proposals[p]
      BY <2>0, <2>2, <3>1 DEF CommitReview
    <3> QED BY <3>2, <3>3
  <2>3. ASSUME NEW w \in Workers, CommitExecution(w) PROVE Final(p)
    <3>1. PICK q \in Proposals : /\ q = txn[w].proposal
                                 /\ MayProceed(txn[w].kind, txn[w].user, proposals[q])
      BY <1>1, <2>3 DEF CommitExecution, IInv, TxnOK
    <3>2. proposals[q].status = "approved"
      BY <2>3, <3>1 DEF CommitExecution, MayProceed
    <3>3. p # q => proposals'[p] = proposals[p]
      BY <2>0, <2>3, <3>1 DEF CommitExecution
    <3>4. /\ proposals'[q].checker = proposals[q].checker
          /\ proposals'[q].reviewedOn = proposals[q].reviewedOn
          /\ proposals'[q].status = "execution_recorded"
      BY <2>0, <2>3, <3>1 DEF CommitExecution, ProposalRows
    <3> QED BY <3>2, <3>3, <3>4
  <2>4. ASSUME ~ \E w \in Workers : CommitSubmit(w) \/ CommitReview(w)
                                      \/ CommitExecution(w)
        PROVE  proposals' = proposals
    <3>1. CASE NextDay \/ UNCHANGED vars
      BY <3>1 DEF NextDay, tables, vars
    <3>2. CASE \E w \in Workers : Request(w)
      BY <2>4, <3>2
         DEF Request, ReadAccount, InsertCase, BeginOnCase, BeginOnProposal,
             LockProposal, LockCase, CommitEvent, Rollback, tables
    <3> QED BY <1>1, <3>1, <3>2 DEF Next
  <2> QED BY <2>1, <2>2, <2>3, <2>4
<1>2. IInv /\ [Next]_vars =>
        [\A p \in Proposals :
            proposals[p].status \notin {NONE, "pending"} =>
               /\ proposals'[p].checker = proposals[p].checker
               /\ proposals'[p].reviewedOn = proposals[p].reviewedOn
               /\ \/ proposals'[p] = proposals[p]
                  \/ /\ proposals[p].status = "approved"
                     /\ proposals'[p].status = "execution_recorded"]_vars
  BY <1>1
<1> QED BY <1>2, RequestsKnow, PTL DEF Spec, ReviewsAreFinal
-----------------------------------------------------------------------------
(* The chronology names a proposal only in its own case; what it says of   *)
(* the proposal is its story; and the event of its submission shows that   *)
(* its amount was owed.                                                    *)
NamedInItsCase(a, e) ==
    e.proposal # NONE =>
        proposals[e.proposal].status # NONE /\ proposals[e.proposal].case = a

Submission(e, p, amount) ==
    /\ e.proposal = p /\ e.type = "decision_submitted"
    /\ e.after > 0 /\ amount <= e.after

Covered(rows, p, amount) == \E i \in 1..Len(rows) : Submission(rows[i], p, amount)

StoryOK(p) ==
    LET r == proposals[p] IN
    r.status # NONE =>
        /\ Tells(events[r.case], p, Chapters(r))
        /\ Covered(events[r.case], p, r.amount)

(* A request that reviews or executes a proposal goes for its case.        *)
RightCase(w) ==
    txn[w].pc \in {"wantCase", "holdsCase"} /\ txn[w].kind \in {"review", "execute"} =>
        txn[w].case = proposals[txn[w].proposal].case

NamesOK ==
    \A a \in Accounts : \A i \in 1..Len(events[a]) : NamedInItsCase(a, events[a][i])

SInv ==
    /\ NamesOK
    /\ \A p \in Proposals : StoryOK(p)
    /\ \A w \in Workers : RightCase(w)

(* A story grows with the chronology.                                      *)
ChapterSet == NPL_EVENT_TYPES \X (Users \cup {NONE})

LEMMA OneMoreEvent ==
    ASSUME NEW rows \in Seq(EventRows), NEW e \in EventRows
    PROVE  /\ Append(rows, e) \in Seq(EventRows)
           /\ Len(Append(rows, e)) = Len(rows) + 1 /\ Len(rows) \in Nat
           /\ Append(rows, e)[Len(rows) + 1] = e
           /\ \A i \in 1..Len(rows) : Append(rows, e)[i] = rows[i]
OBVIOUS

LEMMA AboutMore ==
    ASSUME NEW rows \in Seq(EventRows), NEW e \in EventRows, NEW p
    PROVE  About(Append(rows, e), p) =
              About(rows, p) \cup (IF e.proposal = p THEN {Len(rows) + 1} ELSE {})
<1> DEFINE new == Append(rows, e)
<1>1. /\ Len(new) = Len(rows) + 1 /\ Len(rows) \in Nat
      /\ new[Len(rows) + 1] = e
      /\ \A i \in 1..Len(rows) : new[i] = rows[i]
  BY OneMoreEvent
<1> HIDE DEF new
<1>2. \A k : k \in 1..Len(new) <=> k \in 1..Len(rows) \/ k = Len(rows) + 1
  BY <1>1
<1>3. Len(rows) + 1 \notin 1..Len(rows)
  BY <1>1
<1> QED BY <1>1, <1>2, <1>3 DEF About, new

LEMMA TellsNothing ==
    ASSUME NEW rows \in Seq(EventRows), NEW p, About(rows, p) = {}
    PROVE  Tells(rows, p, <<>>)
<1>1. Len(<<>>) = 0 /\ 1..0 = {}
  OBVIOUS
<1>2. [i \in {} |-> i] \in [1..Len(<<>>) -> 1..Len(rows)]
  BY <1>1
<1>3. About(rows, p) = {[i \in {} |-> i][j] : j \in 1..Len(<<>>)}
  BY <1>1
<1> QED BY <1>1, <1>2, <1>3 DEF Tells

LEMMA TellsSame ==
    ASSUME NEW rows \in Seq(EventRows), NEW e \in EventRows, NEW p, e.proposal # p,
           NEW story, Tells(rows, p, story)
    PROVE  Tells(Append(rows, e), p, story)
<1>1. PICK at \in [1..Len(story) -> 1..Len(rows)] :
        /\ \A i, j \in 1..Len(story) : i < j => at[i] < at[j]
        /\ About(rows, p) = {at[i] : i \in 1..Len(story)}
        /\ \A i \in 1..Len(story) : <<rows[at[i]].type, rows[at[i]].by>> = story[i]
  BY DEF Tells
<1>2. About(Append(rows, e), p) = About(rows, p)
  <2>1. About(Append(rows, e), p) =
           About(rows, p) \cup (IF e.proposal = p THEN {Len(rows) + 1} ELSE {})
    BY AboutMore
  <2>2. (IF e.proposal = p THEN {Len(rows) + 1} ELSE {}) = {}
    OBVIOUS
  <2> HIDE DEF About
  <2> QED BY <2>1, <2>2
<1>3. PICK new : new = Append(rows, e)
  OBVIOUS
<1>4. /\ Len(new) = Len(rows) + 1 /\ Len(rows) \in Nat
      /\ \A i \in 1..Len(rows) : new[i] = rows[i]
  BY <1>3, OneMoreEvent
<1>5. at \in [1..Len(story) -> 1..Len(new)]
  BY <1>4
<1>6. \A i \in 1..Len(story) : <<new[at[i]].type, new[at[i]].by>> = story[i]
  BY <1>1, <1>4
<1> QED BY <1>1, <1>2, <1>3, <1>5, <1>6 DEF Tells

LEMMA TellsMore ==
    ASSUME NEW rows \in Seq(EventRows), NEW e \in EventRows, NEW p, e.proposal = p,
           NEW story \in Seq(ChapterSet), <<e.type, e.by>> \in ChapterSet,
           Tells(rows, p, story)
    PROVE  Tells(Append(rows, e), p, Append(story, <<e.type, e.by>>))
<1>1. PICK at \in [1..Len(story) -> 1..Len(rows)] :
        /\ \A i, j \in 1..Len(story) : i < j => at[i] < at[j]
        /\ About(rows, p) = {at[i] : i \in 1..Len(story)}
        /\ \A i \in 1..Len(story) : <<rows[at[i]].type, rows[at[i]].by>> = story[i]
  BY DEF Tells
<1>2. PICK new, n, l : new = Append(rows, e) /\ n = Len(rows) /\ l = Len(story)
  OBVIOUS
<1>3. /\ Len(new) = n + 1 /\ n \in Nat /\ new[n + 1] = e
      /\ \A i \in 1..n : new[i] = rows[i]
  BY <1>2, OneMoreEvent
<1>4. PICK chapter \in ChapterSet : chapter = <<e.type, e.by>>
  OBVIOUS
<1>5. PICK told : told = Append(story, chapter)
  OBVIOUS
<1>6. /\ Len(told) = l + 1 /\ l \in Nat /\ told[l + 1] = chapter
      /\ \A i \in 1..l : told[i] = story[i]
  BY <1>2, <1>5
<1>7. About(new, p) = About(rows, p) \cup {n + 1}
  BY <1>2, AboutMore
<1>8. PICK next : next = [i \in 1..(l + 1) |-> IF i = l + 1 THEN n + 1 ELSE at[i]]
  OBVIOUS
<1>9. \A i \in 1..(l + 1) : i \in 1..l \/ i = l + 1
  BY <1>6
<1>10. /\ \A i \in 1..l : at[i] \in 1..n
       /\ \A i \in 1..l : next[i] = at[i]
       /\ next[l + 1] = n + 1
       /\ \A i \in 1..l : i \in 1..(l + 1) /\ i # l + 1
       /\ l + 1 \in 1..(l + 1)
  <2>1. \A i \in 1..l : i \in 1..(l + 1) /\ i # l + 1
    BY <1>6
  <2>2. l + 1 \in 1..(l + 1)
    BY <1>6
  <2>3. \A i \in 1..l : at[i] \in 1..n
    BY <1>2
  <2> QED BY <1>8, <2>1, <2>2, <2>3
<1>11. next \in [1..(l + 1) -> 1..(n + 1)]
  <2>1. \A i \in 1..(l + 1) : next[i] \in 1..(n + 1)
    BY <1>3, <1>9, <1>10
  <2> QED BY <1>8, <2>1
<1>12. \A i, j \in 1..(l + 1) : i < j => next[i] < next[j]
  <2> SUFFICES ASSUME NEW i \in 1..(l + 1), NEW j \in 1..(l + 1), i < j
               PROVE  next[i] < next[j]
    OBVIOUS
  <2>1. i \in 1..l
    BY <1>6, <1>9
  <2>2. CASE j \in 1..l
    BY <1>1, <1>2, <1>10, <2>1, <2>2
  <2>3. CASE j = l + 1
    BY <1>3, <1>10, <2>1, <2>3
  <2> QED BY <1>9, <2>2, <2>3
<1>13. About(new, p) = {next[i] : i \in 1..(l + 1)}
  <2>1. About(rows, p) = {at[i] : i \in 1..l}
    BY <1>1, <1>2
  <2>2. {next[i] : i \in 1..(l + 1)} = {at[i] : i \in 1..l} \cup {n + 1}
    BY <1>9, <1>10
  <2> QED BY <1>7, <2>1, <2>2
<1>14. \A i \in 1..(l + 1) : <<new[next[i]].type, new[next[i]].by>> = told[i]
  <2>1. ASSUME NEW i \in 1..l
        PROVE  <<new[next[i]].type, new[next[i]].by>> = told[i]
    <3>1. new[next[i]] = rows[at[i]]
      BY <1>3, <1>10
    <3>2. <<rows[at[i]].type, rows[at[i]].by>> = story[i]
      BY <1>1, <1>2
    <3> QED BY <1>6, <3>1, <3>2
  <2>2. <<new[next[l + 1]].type, new[next[l + 1]].by>> = told[l + 1]
    BY <1>3, <1>4, <1>6, <1>10
  <2> QED BY <1>9, <2>1, <2>2
<1>15. Tells(new, p, told)
  <2>1. Len(told) = l + 1 /\ Len(new) = n + 1
    BY <1>3, <1>6
  <2> QED BY <2>1, <1>11, <1>12, <1>13, <1>14 DEF Tells
<1>16. new = Append(rows, e) /\ told = Append(story, <<e.type, e.by>>)
  BY <1>2, <1>4, <1>5
<1> QED BY <1>15, <1>16

LEMMA CoveredSame ==
    ASSUME NEW rows \in Seq(EventRows), NEW e \in EventRows, NEW p, NEW amount,
           Covered(rows, p, amount)
    PROVE  Covered(Append(rows, e), p, amount)
<1>1. PICK i \in 1..Len(rows) : Submission(rows[i], p, amount)
  BY DEF Covered
<1>2. Append(rows, e)[i] = rows[i] /\ i \in 1..Len(Append(rows, e))
  BY OneMoreEvent
<1> QED BY <1>1, <1>2 DEF Covered

-----------------------------------------------------------------------------
(* A row and an event of its case change together.                         *)
LEMMA RowsOf ==
    ASSUME IInv
    PROVE  /\ \A a \in Accounts : events[a] \in Seq(EventRows)
           /\ \A p \in Proposals : proposals[p] \in ProposalRows
           /\ \A p \in Proposals : proposals[p].status # NONE =>
                 proposals[p].case \in Accounts
BY DEF IInv, TypeOK, ProposalOK

LEMMA OtherStory ==
    ASSUME IInv, NEW q \in Proposals, StoryOK(q), proposals'[q] = proposals[q],
           NEW c \in Accounts, NEW e \in EventRows, e.proposal # q,
           events' = [events EXCEPT ![c] = Append(events[c], e)]
    PROVE  StoryOK(q)'
<1> SUFFICES ASSUME proposals[q].status # NONE
             PROVE  StoryOK(q)'
  BY DEF StoryOK
<1>1. PICK r, a, rows : r = proposals[q] /\ a = r.case /\ rows = events[a]
  OBVIOUS
<1>2. a \in Accounts /\ rows \in Seq(EventRows)
  BY <1>1, RowsOf
<1>3. Tells(rows, q, Chapters(r)) /\ Covered(rows, q, r.amount)
  BY <1>1 DEF StoryOK
<1>4. CASE a = c
  <2>1. PICK story, amount : story = Chapters(r) /\ amount = r.amount
    OBVIOUS
  <2>2. Tells(rows, q, story) /\ Covered(rows, q, amount)
    BY <1>3, <2>1
  <2>3. Tells(Append(rows, e), q, story)
    BY <1>2, <2>2, TellsSame
  <2>4. Covered(Append(rows, e), q, amount)
    BY <1>2, <2>2, CoveredSame
  <2>5. events'[a] = Append(rows, e)
    BY <1>1, <1>2, <1>4 DEF IInv, TypeOK
  <2> QED BY <1>1, <2>1, <2>3, <2>4, <2>5 DEF StoryOK
<1>5. CASE a # c
  <2>1. events'[a] = rows
    BY <1>1, <1>2, <1>5 DEF IInv, TypeOK
  <2> QED BY <1>1, <1>3, <2>1 DEF StoryOK
<1> QED BY <1>4, <1>5

LEMMA NewEvent ==
    ASSUME IInv, SInv, NEW c \in Accounts, NEW e \in EventRows,
           events' = [events EXCEPT ![c] = Append(events[c], e)],
           \A q \in Proposals : q # e.proposal => proposals'[q] = proposals[q],
           e.proposal # NONE =>
              /\ proposals'[e.proposal].status # NONE
              /\ proposals'[e.proposal].case = c
              /\ proposals[e.proposal].status # NONE =>
                    proposals[e.proposal].case = c
              /\ StoryOK(e.proposal)'
    PROVE  NamesOK' /\ \A p \in Proposals : StoryOK(p)'
<1>1. ASSUME NEW a \in Accounts, NEW x \in EventRows, NamedInItsCase(a, x)
      PROVE  NamedInItsCase(a, x)'
  <2> SUFFICES ASSUME x.proposal # NONE
               PROVE  /\ proposals'[x.proposal].status # NONE
                      /\ proposals'[x.proposal].case = a
    BY DEF NamedInItsCase
  <2>1. x.proposal \in Proposals
    BY DEF EventRows
  <2>2. proposals[x.proposal].status # NONE /\ proposals[x.proposal].case = a
    BY <1>1 DEF NamedInItsCase
  <2>3. CASE x.proposal = e.proposal
    BY <2>2, <2>3
  <2>4. CASE x.proposal # e.proposal
    BY <2>1, <2>2, <2>4
  <2> QED BY <2>3, <2>4
<1>2. NamedInItsCase(c, e)'
  BY DEF NamedInItsCase
<1>3. ASSUME NEW a \in Accounts, NEW i \in 1..Len(events'[a])
      PROVE  NamedInItsCase(a, events[a][i])'
  <2>1. PICK rows \in Seq(EventRows) : rows = events[a]
    BY RowsOf
  <2>2. \A k \in 1..Len(rows) : rows[k] \in EventRows /\ NamedInItsCase(a, rows[k])
    BY <2>1 DEF SInv, NamesOK
  <2>3. CASE a # c
    <3>1. events'[a] = rows
      BY <2>1, <2>3 DEF IInv, TypeOK
    <3>2. PICK x \in EventRows : x = rows[i] /\ NamedInItsCase(a, x)
      BY <1>3, <2>2, <3>1
    <3>3. NamedInItsCase(a, x)'
      BY <1>1, <3>2
    <3>4. x = events'[a][i]
      BY <3>1, <3>2
    <3> QED BY <3>3, <3>4 DEF NamedInItsCase
  <2>4. CASE a = c
    <3>0. PICK new : new = Append(rows, e)
      OBVIOUS
    <3>2. /\ Len(new) = Len(rows) + 1 /\ Len(rows) \in Nat
          /\ new[Len(rows) + 1] = e
          /\ \A k \in 1..Len(rows) : new[k] = rows[k]
      BY <3>0, OneMoreEvent
    <3>1. new = events'[a]
      BY <2>1, <2>4, <3>0 DEF IInv, TypeOK
    <3>3. i \in 1..Len(new)
      BY <1>3, <3>1
    <3>4. CASE i \in 1..Len(rows)
      <4>1. PICK x \in EventRows : x = rows[i] /\ NamedInItsCase(a, x)
        BY <2>2, <3>4
      <4>2. NamedInItsCase(a, x)'
        BY <1>1, <4>1
      <4>3. x = events'[a][i]
        BY <3>1, <3>2, <3>4, <4>1
      <4> QED BY <4>2, <4>3 DEF NamedInItsCase
    <3>5. CASE i = Len(rows) + 1
      <4>1. e = events'[a][i]
        BY <3>1, <3>2, <3>5
      <4> QED BY <1>2, <2>4, <4>1 DEF NamedInItsCase
    <3> QED BY <3>2, <3>3, <3>4, <3>5
  <2> QED BY <2>3, <2>4
<1>4. ASSUME NEW q \in Proposals PROVE StoryOK(q)'
  <2>1. CASE q = e.proposal
    <3>1. q # NONE
      BY NplNames
    <3> QED BY <2>1, <3>1
  <2>2. CASE q # e.proposal
    BY <2>2, OtherStory DEF SInv
  <2> QED BY <2>1, <2>2
<1>5. NamesOK'
  BY <1>3 DEF NamesOK
<1> QED BY <1>4, <1>5

(* The submission begins a story, a review and an execution continue it.   *)
LEMMA FirstChapter ==
    ASSUME IInv, SInv, NEW c \in Accounts, NEW p \in Proposals,
           NEW e \in EventRows, e.proposal = p,
           e.type = "decision_submitted", e.after > 0,
           events'[c] = Append(events[c], e),
           proposals[p].status = NONE,
           NEW r \in ProposalRows, proposals'[p] = r, r.case = c,
           r.status = "pending", r.maker = e.by, r.amount <= e.after
    PROVE  StoryOK(p)'
<1>1. PICK rows \in Seq(EventRows) : rows = events[c]
  BY RowsOf
<1>2. About(rows, p) = {}
  <2>1. p # NONE
    BY NplNames
  <2>2. \A k \in 1..Len(rows) : NamedInItsCase(c, rows[k])
    BY <1>1 DEF SInv, NamesOK
  <2>3. \A k \in 1..Len(rows) : rows[k].proposal # p
    BY <2>1, <2>2 DEF NamedInItsCase
  <2> QED BY <2>3 DEF About
<1>3. Tells(rows, p, <<>>)
  BY <1>2, TellsNothing
<1>4. <<e.type, e.by>> \in ChapterSet /\ <<>> \in Seq(ChapterSet)
  BY DEF ChapterSet, EventRows
<1>5. Tells(Append(rows, e), p, Append(<<>>, <<e.type, e.by>>))
  <2>1. PICK story \in Seq(ChapterSet) : story = <<>>
    BY <1>4
  <2>2. Tells(rows, p, story)
    BY <1>3, <2>1
  <2>3. Tells(Append(rows, e), p, Append(story, <<e.type, e.by>>))
    BY <1>4, <2>2, TellsMore
  <2> QED BY <2>1, <2>3
<1>6. Append(<<>>, <<e.type, e.by>>) = Chapters(r)
  <2>1. Append(<<>>, <<e.type, e.by>>) = <<<<e.type, e.by>>>>
    OBVIOUS
  <2> QED BY <2>1 DEF Chapters
<1>7. Covered(Append(rows, e), p, r.amount)
  <2>1. /\ Append(rows, e)[Len(rows) + 1] = e
        /\ Len(rows) + 1 \in 1..Len(Append(rows, e))
    BY OneMoreEvent
  <2>2. Submission(e, p, r.amount)
    BY DEF Submission
  <2> QED BY <2>1, <2>2 DEF Covered
<1>8. events'[c] = Append(rows, e)
  BY <1>1
<1> QED BY <1>5, <1>6, <1>7, <1>8 DEF StoryOK

LEMMA NextChapter ==
    ASSUME IInv, SInv, NEW c \in Accounts, NEW p \in Proposals,
           NEW e \in EventRows, e.proposal = p,
           events'[c] = Append(events[c], e),
           proposals[p].status # NONE, proposals[p].case = c,
           NEW r \in ProposalRows, proposals'[p] = r, r.case = c,
           r.status # NONE, r.amount = proposals[p].amount,
           Chapters(proposals[p]) \in Seq(ChapterSet),
           Chapters(r) = Append(Chapters(proposals[p]), <<e.type, e.by>>)
    PROVE  StoryOK(p)'
<1>1. PICK rows \in Seq(EventRows) : rows = events[c]
  BY RowsOf
<1>2. PICK story \in Seq(ChapterSet) : story = Chapters(proposals[p])
  OBVIOUS
<1>3. Tells(rows, p, story) /\ Covered(rows, p, r.amount)
  BY <1>1, <1>2 DEF SInv, StoryOK
<1>4. <<e.type, e.by>> \in ChapterSet
  BY DEF ChapterSet, EventRows
<1>5. Tells(Append(rows, e), p, Append(story, <<e.type, e.by>>))
  BY <1>3, <1>4, TellsMore
<1>6. PICK amount : amount = r.amount
  OBVIOUS
<1>7. Covered(rows, p, amount)
  BY <1>3, <1>6
<1>8. Covered(Append(rows, e), p, amount)
  BY <1>7, CoveredSame
<1>9. events'[c] = Append(rows, e) /\ Chapters(r) = Append(story, <<e.type, e.by>>)
  BY <1>1, <1>2
<1> QED BY <1>5, <1>6, <1>8, <1>9 DEF StoryOK
-----------------------------------------------------------------------------
(* Requests keep going for the case of their proposal.                     *)
LEMMA RightCases ==
    ASSUME IInv, SInv, NEW w \in Workers,
           txn' = [txn EXCEPT ![w] = txn'[w]], RightCase(w)',
           \A p \in Proposals : proposals[p].status # NONE =>
              proposals'[p].case = proposals[p].case
    PROVE  \A v \in Workers : RightCase(v)'
<1> SUFFICES ASSUME NEW v \in Workers, v # w PROVE RightCase(v)'
  OBVIOUS
<1>1. txn'[v] = txn[v] /\ RightCase(v) /\ TxnOK(v)
  BY DEF IInv, TypeOK, SInv
<1> SUFFICES ASSUME txn[v].pc \in {"wantCase", "holdsCase"},
                    txn[v].kind \in {"review", "execute"}
             PROVE  txn[v].case = proposals'[txn[v].proposal].case
  BY <1>1 DEF RightCase
<1>2. /\ txn[v].proposal \in Proposals
      /\ MayProceed(txn[v].kind, txn[v].user, proposals[txn[v].proposal])
  BY <1>1 DEF TxnOK
<1>3. proposals[txn[v].proposal].status # NONE
  BY <1>2, NplNames DEF MayProceed, NPL_DECISION_STATUSES
<1> QED BY <1>1, <1>2, <1>3 DEF RightCase

LEMMA EndIsRight ==
    ASSUME IInv, NEW w \in Workers, End(w)
    PROVE  txn' = [txn EXCEPT ![w] = txn'[w]] /\ RightCase(w)'
<1>1. txn'[w] = Idle /\ txn' = [txn EXCEPT ![w] = txn'[w]]
  BY EndIsLocal
<1>2. Idle.pc = "idle"
  BY DEF Idle, Txn
<1> QED BY <1>1, <1>2 DEF RightCase

(* A step that leaves the tables alone leaves the stories alone.           *)
LEMMA SameTables ==
    ASSUME IInv, SInv, NEW w \in Workers, UNCHANGED tables,
           txn' = [txn EXCEPT ![w] = txn'[w]], RightCase(w)'
    PROVE  SInv'
<1>1. events' = events /\ proposals' = proposals
  BY DEF tables
<1>2. \A v \in Workers : RightCase(v)'
  BY <1>1, RightCases
<1>3. NamesOK'
  BY <1>1 DEF SInv, NamesOK, NamedInItsCase
<1>4. ASSUME NEW p \in Proposals PROVE StoryOK(p)'
  BY <1>1 DEF SInv, StoryOK
<1> QED BY <1>2, <1>3, <1>4 DEF SInv

LEMMA MovesKeepStories ==
    ASSUME IInv, SInv, NEW w \in Workers,
           \/ ReadAccount(w) \/ BeginOnCase(w) \/ BeginOnProposal(w)
           \/ LockProposal(w) \/ LockCase(w) \/ Rollback(w)
    PROVE  SInv'
<1>0. txn \in [Workers -> Txns]
  BY DEF IInv, TypeOK
<1>1. CASE ReadAccount(w)
  <2>1. PICK x : txn' = [txn EXCEPT ![w] = x] /\ x.pc = "opening"
    <3>1. PICK a \in Accounts, u \in Users, b \in Amounts, s \in {"watchlist", "npl"} :
            txn' = [txn EXCEPT ![w] =
                      [Txn("opening", "open", u, a, NONE) EXCEPT
                         !.row = CaseRow(b, s, "open")]]
      BY <1>1 DEF ReadAccount
    <3>2. [Txn("opening", "open", u, a, NONE) EXCEPT
             !.row = CaseRow(b, s, "open")].pc = "opening"
      BY DEF Txn
    <3> QED BY <3>1, <3>2
  <2> QED BY <1>0, <1>1, <2>1, SameTables DEF ReadAccount, RightCase
<1>2. CASE BeginOnCase(w)
  <2>1. PICK x : txn' = [txn EXCEPT ![w] = x] /\ x.kind \in {"append", "submit"}
    <3>1. PICK kind \in {"append", "submit"}, u \in Users, a \in Accounts :
            txn' = [txn EXCEPT ![w] = Txn("wantCase", kind, u, a, NONE)]
      BY <1>2 DEF BeginOnCase
    <3>2. Txn("wantCase", kind, u, a, NONE).kind = kind
      BY DEF Txn
    <3> QED BY <3>1, <3>2
  <2> QED BY <1>0, <1>2, <2>1, SameTables DEF BeginOnCase, RightCase
<1>3. CASE BeginOnProposal(w)
  <2>1. PICK x : txn' = [txn EXCEPT ![w] = x] /\ x.pc = "wantProposal"
    <3>1. PICK kind \in {"review", "execute"}, u \in Users, p \in Proposals :
            txn' = [txn EXCEPT ![w] =
                      [Txn("wantProposal", kind, u, NONE, p) EXCEPT !.began = today]]
      BY <1>3 DEF BeginOnProposal
    <3>2. [Txn("wantProposal", kind, u, NONE, p) EXCEPT !.began = today].pc
             = "wantProposal"
      BY DEF Txn
    <3> QED BY <3>1, <3>2
  <2> QED BY <1>0, <1>3, <2>1, SameTables DEF BeginOnProposal, RightCase
<1>4. CASE LockProposal(w)
  <2>1. CASE End(w)
    BY <1>4, <2>1, EndIsRight, SameTables DEF LockProposal
  <2>2. CASE ~End(w)
    <3>1. /\ txn' = [txn EXCEPT ![w].pc = "wantCase",
                                ![w].case = proposals[txn[w].proposal].case]
          /\ UNCHANGED tables
      BY <1>4, <2>2 DEF LockProposal
    <3>2. /\ txn' = [txn EXCEPT ![w] = txn'[w]]
          /\ txn'[w].proposal = txn[w].proposal
          /\ txn'[w].case = proposals[txn[w].proposal].case
      BY <1>0, <3>1 DEF Txns
    <3>3. RightCase(w)'
      BY <3>1, <3>2 DEF RightCase, tables
    <3> QED BY <3>1, <3>2, <3>3, SameTables
  <2> QED BY <2>1, <2>2
<1>5. CASE LockCase(w)
  <2>1. /\ UNCHANGED tables /\ txn[w].pc = "wantCase"
        /\ txn' = [txn EXCEPT ![w] = txn'[w]]
        /\ txn'[w].proposal = txn[w].proposal
        /\ txn'[w].kind = txn[w].kind
        /\ txn'[w].case = txn[w].case
    BY <1>0, <1>5 DEF LockCase, Txns
  <2>2. RightCase(w)'
    BY <2>1 DEF RightCase, tables, SInv
  <2> QED BY <2>1, <2>2, SameTables
<1>6. CASE Rollback(w)
  BY <1>6, EndIsRight, SameTables DEF Rollback
<1> QED BY <1>1, <1>2, <1>3, <1>4, <1>5, <1>6

(* An event that names no proposal.                                        *)
LEMMA PlainEvent ==
    ASSUME IInv, SInv, NEW w \in Workers, End(w), proposals' = proposals,
           NEW c \in Accounts, NEW e \in EventRows, e.proposal = NONE,
           events' = [events EXCEPT ![c] = Append(events[c], e)]
    PROVE  SInv'
<1>1. NamesOK' /\ \A p \in Proposals : StoryOK(p)'
  BY NewEvent
<1>2. \A v \in Workers : RightCase(v)'
  BY EndIsRight, RightCases
<1> QED BY <1>1, <1>2 DEF SInv

LEMMA InsertCaseKeepsStories ==
    ASSUME IInv, SInv, NEW w \in Workers, InsertCase(w) PROVE SInv'
<1> DEFINE t == txn[w]
<1>1. PICK d \in 1..today :
        IF Exists(t.case)
        THEN UNCHANGED <<cases, events>>
        ELSE events' = [events EXCEPT ![t.case] =
                <<Event("case_opened", d, t.row.exposure, 0,
                        t.row.exposure, t.user, NONE)>>]
  BY DEF InsertCase
<1>2. PICK c \in Accounts : c = t.case
  BY DEF InsertCase, IInv, TxnOK
<1>3. End(w) /\ proposals' = proposals
  BY DEF InsertCase
<1>4. CASE Exists(t.case)
  <2>1. UNCHANGED tables
    BY <1>1, <1>3, <1>4 DEF tables, InsertCase
  <2> QED BY <1>3, <2>1, EndIsRight, SameTables
<1>5. CASE ~Exists(t.case)
  <2>1. PICK row \in CaseRows : row = t.row
    BY DEF IInv, TypeOK, Txns
  <2>2. t.user \in Users /\ row.exposure \in Nat /\ d \in 1..MaxDay
    BY NplNumbers DEF InsertCase, IInv, TypeOK, TxnOK, CaseRows
  <2> DEFINE x == Event("case_opened", d, t.row.exposure, 0,
                        t.row.exposure, t.user, NONE)
  <2>3. x \in EventRows /\ x.proposal = NONE
    BY <2>1, <2>2 DEF Event, EventRows, NPL_EVENT_TYPES
  <2>4. PICK e \in EventRows : e = x
    BY <2>3
  <2>5. Append(<<>>, e) = <<e>>
    OBVIOUS
  <2>6. events[c] = <<>> /\ events' = [events EXCEPT ![c] = <<e>>]
    BY <1>1, <1>2, <1>5, <2>4 DEF Exists
  <2>7. events' = [events EXCEPT ![c] = Append(events[c], e)]
    BY <2>5, <2>6
  <2>8. e.proposal = NONE
    BY <2>3, <2>4
  <2> QED BY <1>3, <2>7, <2>8, PlainEvent
<1> QED BY <1>4, <1>5

LEMMA CommitEventKeepsStories ==
    ASSUME IInv, SInv, NEW w \in Workers, CommitEvent(w) PROVE SInv'
<1>1. PICK e \in EventRows : /\ txn[w].pc = "holdsCase"
                             /\ Insert(txn[w], e) /\ e.proposal = NONE
  BY CommitEventFacts
<1>2. PICK c \in Accounts : c = txn[w].case
  BY <1>1 DEF IInv, TxnOK
<1>3. events' = [events EXCEPT ![c] = Append(events[c], e)]
  BY <1>1, <1>2 DEF Insert
<1>4. End(w) /\ proposals' = proposals
  BY DEF CommitEvent
<1> QED BY <1>1, <1>3, <1>4, PlainEvent

(* The event of a decision, and the proposal it is about.                  *)
LEMMA DecisionEvent ==
    ASSUME IInv, NEW w \in Workers, txn[w].pc = "holdsCase",
           NEW type \in NPL_EVENT_TYPES, NEW p \in Proposals,
           InsertDecision(txn[w], type, p)
    PROVE  \E e \in EventRows, c \in Accounts :
              /\ c = txn[w].case /\ e.type = type /\ e.by = txn[w].user
              /\ e.proposal = p /\ e.after = txn[w].row.exposure
              /\ events' = [events EXCEPT ![c] = Append(events[c], e)]
<1> DEFINE t == txn[w]
           x == Event(type, today, 0, t.row.exposure, t.row.exposure, t.user, p)
<1>1. PICK row \in CaseRows : row = t.row
  BY DEF IInv, TypeOK, Txns
<1>2. t.case \in Accounts /\ t.user \in Users /\ today \in 1..MaxDay
  BY DEF IInv, TypeOK, TxnOK
<1>3. row.exposure \in Nat
  BY DEF CaseRows
<1>4. /\ x \in EventRows /\ x.type = type /\ x.by = t.user
      /\ x.proposal = p /\ x.after = t.row.exposure
  BY <1>1, <1>2, <1>3 DEF Event, EventRows
<1>5. Insert(t, x)
  BY DEF InsertDecision
<1> HIDE DEF x
<1> QED BY <1>2, <1>4, <1>5 DEF Insert

(* What is left to show of a decision: the story of its proposal.          *)
LEMMA DecisionStory ==
    ASSUME IInv, SInv, NEW w \in Workers, End(w),
           NEW c \in Accounts, NEW p \in Proposals,
           NEW e \in EventRows, e.proposal = p,
           events' = [events EXCEPT ![c] = Append(events[c], e)],
           NEW r \in ProposalRows, proposals' = [proposals EXCEPT ![p] = r],
           r.status # NONE, r.case = c,
           proposals[p].status # NONE => proposals[p].case = c,
           StoryOK(p)'
    PROVE  SInv'
<1>1. /\ proposals'[p] = r
      /\ \A q \in Proposals : q # p => proposals'[q] = proposals[q]
  BY DEF IInv, TypeOK
<1>2. NamesOK' /\ \A q \in Proposals : StoryOK(q)'
  <2>1. \A q \in Proposals : q # e.proposal => proposals'[q] = proposals[q]
    BY <1>1
  <2>2. /\ proposals'[e.proposal].status # NONE
        /\ proposals'[e.proposal].case = c
        /\ proposals[e.proposal].status # NONE => proposals[e.proposal].case = c
    BY <1>1
  <2>3. StoryOK(e.proposal)'
    <3>1. p = e.proposal
      OBVIOUS
    <3> QED BY <3>1 DEF StoryOK
  <2> QED BY <2>1, <2>2, <2>3, NewEvent
<1>3. \A q \in Proposals : proposals[q].status # NONE =>
         proposals'[q].case = proposals[q].case
  BY <1>1
<1>4. \A v \in Workers : RightCase(v)'
  BY <1>3, EndIsRight, RightCases
<1> QED BY <1>2, <1>4 DEF SInv

LEMMA CommitSubmitKeepsStories ==
    ASSUME IInv, SInv, NEW w \in Workers, CommitSubmit(w) PROVE SInv'
<1> DEFINE t == txn[w]
<1>1. PICK p \in Proposals, type \in DecisionTypes, amount \in Amounts \cup {0} :
        /\ t.pc = "holdsCase" /\ t.row.status = "open"
        /\ ProposedAmountOK(type, amount, t.row.exposure)
        /\ proposals[p] = NoProposal
        /\ proposals' = [proposals EXCEPT ![p] =
              [NoProposal EXCEPT !.case = t.case, !.type = type,
                 !.amount = amount, !.status = "pending", !.maker = t.user]]
        /\ InsertDecision(t, "decision_submitted", p)
  BY DEF CommitSubmit
<1>2. "decision_submitted" \in NPL_EVENT_TYPES
  BY DEF NPL_EVENT_TYPES
<1>3. PICK e \in EventRows, c \in Accounts :
        /\ c = t.case /\ e.type = "decision_submitted" /\ e.by = t.user
        /\ e.proposal = p /\ e.after = t.row.exposure
        /\ events' = [events EXCEPT ![c] = Append(events[c], e)]
  BY <1>1, <1>2, DecisionEvent
<1> DEFINE x == [NoProposal EXCEPT !.case = t.case, !.type = type,
                   !.amount = amount, !.status = "pending", !.maker = t.user]
<1>4. amount \in Nat /\ t.user \in Users
  BY <1>1, NplNumbers DEF IInv, TxnOK
<1>5. NoProposal \in ProposalRows /\ NoProposal.status = NONE
  BY NplNumbers DEF NoProposal, ProposalRows
<1>6. /\ x \in ProposalRows /\ x.status = "pending" /\ x.case = c
      /\ x.maker = t.user /\ x.amount = amount
  BY <1>3, <1>4, <1>5 DEF ProposalRows, NPL_DECISION_STATUSES
<1>7. PICK r \in ProposalRows : r = x
  BY <1>6
<1>8. proposals' = [proposals EXCEPT ![p] = r] /\ proposals[p].status = NONE
  BY <1>1, <1>5, <1>7
<1> HIDE DEF x
<1>9. /\ r.status = "pending" /\ r.case = c /\ r.maker = e.by /\ r.amount = amount
  BY <1>3, <1>6, <1>7
<1>10. e.after > 0 /\ r.amount <= e.after
  <2>1. PICK row \in CaseRows : row = t.row
    BY DEF IInv, TypeOK, Txns
  <2>2. row.exposure \in Nat
    BY DEF CaseRows
  <2>3. row = cases[c] /\ events[c] # <<>>
    BY <1>1, <1>3, <2>1 DEF IInv, TxnOK
  <2>4. row.exposure # 0
    BY <1>1, <2>1, <2>3 DEF IInv, CaseOK
  <2> QED BY <1>1, <1>3, <1>9, <2>1, <2>2, <2>4 DEF ProposedAmountOK
<1>11. proposals'[p] = r /\ events'[c] = Append(events[c], e)
  BY <1>3, <1>8 DEF IInv, TypeOK
<1>12. StoryOK(p)'
  BY <1>3, <1>8, <1>9, <1>10, <1>11, FirstChapter
<1>13. r.status # NONE
  BY <1>9, NplNames DEF NPL_DECISION_STATUSES
<1>14. End(w)
  BY DEF CommitSubmit
<1> QED BY <1>3, <1>8, <1>9, <1>12, <1>13, <1>14, DecisionStory

LEMMA AppendToOne ==
    ASSUME NEW S, NEW a \in S, NEW b \in S
    PROVE  Append(<<a>>, b) = <<a, b>>
<1>1. <<a>> \in Seq(S) /\ <<a, b>> \in Seq(S)
  OBVIOUS
<1>2. PICK x : x = Append(<<a>>, b)
  OBVIOUS
<1>3. x \in Seq(S) /\ Len(x) = 2 /\ x[1] = a /\ x[2] = b
  BY <1>1, <1>2
<1>4. \A i \in 1..Len(x) : x[i] = <<a, b>>[i]
  BY <1>3
<1> QED BY <1>1, <1>2, <1>3, <1>4, SeqEqual

LEMMA AppendToTwo ==
    ASSUME NEW S, NEW a \in S, NEW b \in S, NEW c \in S
    PROVE  Append(<<a, b>>, c) = <<a, b, c>>
<1>1. <<a, b>> \in Seq(S) /\ <<a, b, c>> \in Seq(S)
  OBVIOUS
<1>2. PICK x : x = Append(<<a, b>>, c)
  OBVIOUS
<1>3. x \in Seq(S) /\ Len(x) = 3 /\ x[1] = a /\ x[2] = b /\ x[3] = c
  BY <1>1, <1>2
<1>4. \A i \in 1..Len(x) : x[i] = <<a, b, c>>[i]
  BY <1>3
<1> QED BY <1>1, <1>2, <1>3, <1>4, SeqEqual

(* A step that finds a proposal under its lock adds the next chapter.      *)
LEMMA LaterStory ==
    ASSUME IInv, SInv, NEW w \in Workers, End(w), txn[w].pc = "holdsCase",
           txn[w].kind \in {"review", "execute"},
           NEW p \in Proposals, p = txn[w].proposal,
           NEW type \in NPL_EVENT_TYPES, InsertDecision(txn[w], type, p),
           NEW r \in ProposalRows, proposals' = [proposals EXCEPT ![p] = r],
           proposals[p].status # NONE, r.status # NONE,
           r.case = proposals[p].case, r.amount = proposals[p].amount,
           Chapters(proposals[p]) \in Seq(ChapterSet),
           Chapters(r) = Append(Chapters(proposals[p]), <<type, txn[w].user>>)
    PROVE  SInv'
<1>1. PICK e \in EventRows, c \in Accounts :
        /\ c = txn[w].case /\ e.type = type /\ e.by = txn[w].user
        /\ e.proposal = p
        /\ events' = [events EXCEPT ![c] = Append(events[c], e)]
  BY DecisionEvent
<1>2. c = proposals[p].case
  BY <1>1 DEF SInv, RightCase
<1>3. proposals'[p] = r /\ events'[c] = Append(events[c], e)
  BY <1>1 DEF IInv, TypeOK
<1>4. Chapters(r) = Append(Chapters(proposals[p]), <<e.type, e.by>>)
  BY <1>1
<1>5. StoryOK(p)'
  BY <1>1, <1>2, <1>3, <1>4, NextChapter
<1> QED BY <1>1, <1>2, <1>5, DecisionStory

LEMMA CommitReviewKeepsStories ==
    ASSUME IInv, SInv, NEW w \in Workers, CommitReview(w) PROVE SInv'
<1> DEFINE t == txn[w]
<1>1. PICK decision \in {"approved", "rejected"} :
        /\ t.pc = "holdsCase" /\ t.kind = "review"
        /\ proposals' = [proposals EXCEPT ![t.proposal].status = decision,
                                          ![t.proposal].checker = t.user,
                                          ![t.proposal].reviewedOn = t.began]
        /\ InsertDecision(t, IF decision = "approved" THEN "decision_approved"
                                                      ELSE "decision_rejected",
                          t.proposal)
  BY DEF CommitReview
<1>2. PICK p \in Proposals : /\ p = t.proposal /\ t.user \in Users
                             /\ proposals[p].status = "pending"
  BY <1>1 DEF IInv, TxnOK, MayProceed
<1>3. PICK old \in ProposalRows : old = proposals[p]
  BY RowsOf
<1> DEFINE x == [old EXCEPT !.status = decision, !.checker = t.user,
                            !.reviewedOn = t.began]
<1>4. t.began \in 0..MaxDay
  BY DEF IInv, TypeOK, Txns
<1>5. /\ x \in ProposalRows /\ x.status = decision /\ x.case = old.case
      /\ x.maker = old.maker /\ x.checker = t.user /\ x.amount = old.amount
  BY <1>2, <1>4 DEF ProposalRows, NPL_DECISION_STATUSES
<1>6. PICK r \in ProposalRows : r = x
  BY <1>5
<1>7. proposals' = [proposals EXCEPT ![p] = r]
  BY <1>1, <1>2, <1>3, <1>6 DEF IInv, TypeOK
<1> HIDE DEF x
<1>8. /\ r.status = decision /\ r.case = old.case /\ r.maker = old.maker
      /\ r.checker = t.user /\ r.amount = old.amount
  BY <1>5, <1>6
<1>9. PICK type \in NPL_EVENT_TYPES :
        /\ InsertDecision(t, type, p)
        /\ type = IF decision = "approved" THEN "decision_approved"
                                           ELSE "decision_rejected"
  BY <1>1, <1>2 DEF NPL_EVENT_TYPES
<1>10. PICK submitted \in ChapterSet : submitted = <<"decision_submitted", old.maker>>
  BY DEF ChapterSet, NPL_EVENT_TYPES, ProposalRows
<1>11. Chapters(old) = <<submitted>> /\ <<submitted>> \in Seq(ChapterSet)
  BY <1>2, <1>3, <1>10 DEF Chapters
<1>12. Chapters(r) = <<submitted, <<type, t.user>>>>
  <2>1. CASE decision = "approved"
    BY <1>8, <1>9, <1>10, <2>1 DEF Chapters
  <2>2. CASE decision = "rejected"
    BY <1>8, <1>9, <1>10, <2>2 DEF Chapters
  <2> QED BY <1>1, <2>1, <2>2
<1>13. PICK last \in ChapterSet : last = <<type, t.user>>
  BY <1>2 DEF ChapterSet
<1>14. Append(<<submitted>>, last) = <<submitted, last>>
  BY AppendToOne
<1>15. Chapters(r) = Append(Chapters(proposals[p]), <<type, t.user>>)
  BY <1>3, <1>11, <1>12, <1>13, <1>14
<1>16. Chapters(proposals[p]) \in Seq(ChapterSet)
  BY <1>3, <1>11
<1>17. proposals[p].status # NONE /\ r.status # NONE
  BY <1>2, <1>8, NplNames DEF NPL_DECISION_STATUSES
<1>18. r.case = proposals[p].case /\ r.amount = proposals[p].amount
  BY <1>3, <1>8
<1>19. /\ End(w) /\ txn[w].pc = "holdsCase" /\ p = txn[w].proposal
       /\ txn[w].kind \in {"review", "execute"}
       /\ InsertDecision(txn[w], type, p)
  BY <1>1, <1>2, <1>9 DEF CommitReview
<1> HIDE DEF t
<1> QED BY <1>7, <1>15, <1>16, <1>17, <1>18, <1>19, LaterStory DEF t

LEMMA CommitExecutionKeepsStories ==
    ASSUME IInv, SInv, NEW w \in Workers, CommitExecution(w) PROVE SInv'
<1> DEFINE t == txn[w]
<1>1. PICK d \in 1..today :
        /\ t.pc = "holdsCase" /\ t.kind = "execute"
        /\ proposals' = [proposals EXCEPT
                           ![t.proposal].status = "execution_recorded",
                           ![t.proposal].executor = t.user,
                           ![t.proposal].executedOn = d]
        /\ InsertDecision(t, "decision_execution_recorded", t.proposal)
  BY DEF CommitExecution
<1>2. PICK p \in Proposals : /\ p = t.proposal /\ t.user \in Users
                             /\ proposals[p].status = "approved"
  BY <1>1 DEF IInv, TxnOK, MayProceed
<1>3. PICK old \in ProposalRows : old = proposals[p]
  BY RowsOf
<1> DEFINE x == [old EXCEPT !.status = "execution_recorded",
                            !.executor = t.user, !.executedOn = d]
<1>4. d \in 0..MaxDay
  BY NplNumbers DEF IInv, TypeOK
<1>5. /\ x \in ProposalRows /\ x.status = "execution_recorded"
      /\ x.case = old.case /\ x.maker = old.maker /\ x.checker = old.checker
      /\ x.executor = t.user /\ x.amount = old.amount
  BY <1>2, <1>4 DEF ProposalRows, NPL_DECISION_STATUSES
<1>6. PICK r \in ProposalRows : r = x
  BY <1>5
<1>7. proposals' = [proposals EXCEPT ![p] = r]
  BY <1>1, <1>2, <1>3, <1>6 DEF IInv, TypeOK
<1> HIDE DEF x
<1>8. /\ r.status = "execution_recorded" /\ r.case = old.case
      /\ r.maker = old.maker /\ r.checker = old.checker
      /\ r.executor = t.user /\ r.amount = old.amount
  BY <1>5, <1>6
<1>9. /\ InsertDecision(t, "decision_execution_recorded", p)
      /\ "decision_execution_recorded" \in NPL_EVENT_TYPES
  BY <1>1, <1>2 DEF NPL_EVENT_TYPES
<1>10. PICK submitted \in ChapterSet : submitted = <<"decision_submitted", old.maker>>
  BY DEF ChapterSet, NPL_EVENT_TYPES, ProposalRows
<1>11. PICK approved \in ChapterSet : approved = <<"decision_approved", old.checker>>
  BY DEF ChapterSet, NPL_EVENT_TYPES, ProposalRows
<1>12. PICK last \in ChapterSet : last = <<"decision_execution_recorded", t.user>>
  BY <1>2 DEF ChapterSet, NPL_EVENT_TYPES
<1>13. Chapters(old) = <<submitted, approved>>
  BY <1>2, <1>3, <1>10, <1>11 DEF Chapters
<1>14. <<submitted, approved>> \in Seq(ChapterSet)
  OBVIOUS
<1>15. Chapters(r) = <<submitted, approved, last>>
  BY <1>8, <1>10, <1>11, <1>12 DEF Chapters
<1>16. Append(<<submitted, approved>>, last) = <<submitted, approved, last>>
  BY AppendToTwo
<1>17. /\ Chapters(r) = Append(Chapters(proposals[p]),
                               <<"decision_execution_recorded", t.user>>)
       /\ Chapters(proposals[p]) \in Seq(ChapterSet)
  BY <1>3, <1>12, <1>13, <1>14, <1>15, <1>16
<1>18. proposals[p].status # NONE /\ r.status # NONE
  BY <1>2, <1>8, NplNames DEF NPL_DECISION_STATUSES
<1>19. r.case = proposals[p].case /\ r.amount = proposals[p].amount
  BY <1>3, <1>8
<1>20. PICK type \in NPL_EVENT_TYPES : type = "decision_execution_recorded"
  BY <1>9
<1>21. /\ End(w) /\ txn[w].pc = "holdsCase" /\ p = txn[w].proposal
       /\ txn[w].kind \in {"review", "execute"}
       /\ InsertDecision(txn[w], type, p)
  BY <1>1, <1>2, <1>9, <1>20 DEF CommitExecution
<1>22. Chapters(r) = Append(Chapters(proposals[p]), <<type, txn[w].user>>)
  BY <1>17, <1>20
<1> QED BY <1>7, <1>17, <1>18, <1>19, <1>21, <1>22, LaterStory

(* What the chronology tells of a proposal is what its row says, and shows *)
(* that its amount was owed, however requests overlap.                     *)
THEOREM StoriesStayTrue == Spec => []SInv
<1>1. Init => SInv
  <2> SUFFICES ASSUME Init PROVE SInv
    OBVIOUS
  <2>1. Len(<<>>) = 0 /\ Idle.pc = "idle" /\ NoProposal.status = NONE
    BY DEF Idle, Txn, NoProposal
  <2>2. NamesOK
    BY <2>1 DEF Init, NamesOK
  <2>3. \A p \in Proposals : StoryOK(p)
    BY <2>1 DEF Init, StoryOK
  <2>4. \A w \in Workers : RightCase(w)
    BY <2>1 DEF Init, RightCase
  <2> QED BY <2>2, <2>3, <2>4 DEF SInv
<1>2. IInv /\ SInv /\ [Next]_vars => SInv'
  <2> SUFFICES ASSUME IInv, SInv, [Next]_vars PROVE SInv'
    OBVIOUS
  <2>1. ASSUME NEW w \in Workers, Request(w) PROVE SInv'
    BY <2>1, MovesKeepStories, InsertCaseKeepsStories,
       CommitEventKeepsStories, CommitSubmitKeepsStories,
       CommitReviewKeepsStories, CommitExecutionKeepsStories
       DEF Request
  <2>2. CASE NextDay \/ UNCHANGED vars
    <3>1. events' = events /\ proposals' = proposals /\ txn' = txn
      BY <2>2 DEF NextDay, vars, tables
    <3>2. NamesOK'
      BY <3>1 DEF SInv, NamesOK, NamedInItsCase
    <3>3. ASSUME NEW p \in Proposals PROVE StoryOK(p)'
      BY <3>1 DEF SInv, StoryOK
    <3>4. ASSUME NEW w \in Workers PROVE RightCase(w)'
      BY <3>1 DEF SInv, RightCase
    <3> QED BY <3>2, <3>3, <3>4 DEF SInv
  <2> QED BY <2>1, <2>2 DEF Next
<1> QED BY <1>1, <1>2, RequestsKnow, PTL DEF Spec

(* A proposal that exists has a status.                                    *)
LEMMA StatusOfAProposal ==
    ASSUME IInv, NEW p \in Proposals, proposals[p] # NoProposal
    PROVE  proposals[p].status # NONE
BY DEF IInv, ProposalOK

(* The chronology of a case holds one event for each thing that was done   *)
(* with a proposal, in order, by the user its row names, and no other.     *)
THEOREM DecisionsTellOneStory == Spec => []DecisionsAreChronicled
<1>1. IInv /\ SInv => DecisionsAreChronicled
  BY StatusOfAProposal DEF SInv, StoryOK, DecisionsAreChronicled
<1> QED BY <1>1, RequestsKnow, StoriesStayTrue, PTL

(* Every proposed amount was owed when it was proposed.                    *)
THEOREM AmountsWereOwed == Spec => []ProposalsWereCovered
<1>1. IInv /\ SInv => ProposalsWereCovered
  BY StatusOfAProposal
     DEF SInv, StoryOK, Covered, Submission, ProposalsWereCovered
<1> QED BY <1>1, RequestsKnow, StoriesStayTrue, PTL
-----------------------------------------------------------------------------
(* The waterfall.  Sums over finite sets first: induction is a statement   *)
(* about sets of numbers.                                                  *)
LEMMA NatSet ==
    ASSUME NEW T \in SUBSET Nat, 0 \in T, \A n \in T : n + 1 \in T
    PROVE  T = Nat
<1>. DEFINE R == StrictSubsetOrdering(Nat)
            F == FiniteSubsetsOf(Nat)
            U == Nat \ T
            V == {1..n : n \in U}
<1>. SUFFICES ASSUME U # {} PROVE FALSE
  OBVIOUS
<1>1. IsWellFoundedOn(R, F)
  BY FS_StrictSubsetOrderingWellFounded
<1>2. V \subseteq F /\ V # {}
  <2>1. ASSUME NEW n \in Nat PROVE 1..n \in F
    BY FS_Interval DEF FiniteSubsetsOf
  <2>. QED
    BY <2>1
<1>3. PICK v \in V : \A w \in V : ~(<<w, v>> \in R)
  <2>. HIDE DEF R, F, V
  <2>. QED
    BY <1>1, <1>2, WFMin
<1>4. PICK x \in U : v = 1..x
  OBVIOUS
<1>5. x \in Nat /\ x # 0 /\ x - 1 \in Nat
  OBVIOUS
<1>6. <<1..(x - 1), v>> \in R
  BY <1>4, <1>5 DEF StrictSubsetOrdering
<1>7. x - 1 \notin U
  BY <1>3, <1>6
<1>. QED
  BY <1>5, <1>7
-----------------------------------------------------------------------------
(* Kept(s, places) runs through the places in order.                       *)
UpTo(places, i) == {j \in places : j <= i}

(* What sums over finite sets are: tlapm sees the fold behind              *)
(* SumFunctionOnSet as a chosen function on the subsets of the set.        *)
Pick(s) == CHOOSE x \in s : TRUE

Took(f, s, g) == IF s = {} THEN 0 ELSE f[Pick(s)] + g[s \ {Pick(s)}]

SumTo(f, S, g) == g = [s \in SUBSET S |-> Took(f, s, g)]

LEMMA SumIs ==
    ASSUME NEW f, NEW S
    PROVE  SumFunctionOnSet(f, S) = (CHOOSE g : SumTo(f, S, g))[S]
BY DEF SumFunctionOnSet, FoldFunctionOnSet, MapThenFoldSet, SumTo, Took, Pick

LEMMA PickIsIn ==
    ASSUME NEW s, IsFiniteSet(s), s # {}
    PROVE  /\ Pick(s) \in s
           /\ IsFiniteSet(s \ {Pick(s)})
           /\ Cardinality(s) \in Nat
           /\ Cardinality(s) = Cardinality(s \ {Pick(s)}) + 1
<1>1. Pick(s) \in s
  BY DEF Pick
<1>2. Cardinality(s) \in Nat
  BY FS_CardinalityType
<1> QED BY <1>1, <1>2, FS_RemoveElement

Small(S, n) == {s \in SUBSET S : Cardinality(s) <= n}

SumUpTo(f, S, n, g) == g = [s \in Small(S, n) |-> Took(f, s, g)]

LEMMA SomeSumUpTo ==
    ASSUME NEW f, NEW S, IsFiniteSet(S), NEW N \in Nat
    PROVE  \E g : SumUpTo(f, S, N, g)
<1> DEFINE T == {n \in Nat : \E g : SumUpTo(f, S, n, g)}
<1>0. ASSUME NEW s \in SUBSET S
      PROVE  /\ IsFiniteSet(s) /\ Cardinality(s) \in Nat
             /\ Cardinality(s) = 0 <=> s = {}
  BY FS_Subset, FS_CardinalityType, FS_EmptySet
<1>1. 0 \in T
  <2>1. PICK g : g = [s \in Small(S, 0) |-> 0]
    OBVIOUS
  <2>2. ASSUME NEW s \in Small(S, 0) PROVE g[s] = Took(f, s, g)
    <3>1. s \in SUBSET S /\ Cardinality(s) <= 0
      BY DEF Small
    <3>2. s = {}
      BY <1>0, <3>1
    <3> QED BY <2>1, <3>2 DEF Took
  <2>3. g = [s \in Small(S, 0) |-> Took(f, s, g)]
    BY <2>1, <2>2
  <2> QED BY <2>3 DEF SumUpTo
<1>2. ASSUME NEW n \in T PROVE n + 1 \in T
  <2>1. PICK g : SumUpTo(f, S, n, g)
    OBVIOUS
  <2>2. n \in Nat
    OBVIOUS
  <2>3. PICK h : h = [s \in Small(S, n + 1) |-> Took(f, s, g)]
    OBVIOUS
  <2>4. ASSUME NEW s \in Small(S, n) PROVE s \in Small(S, n + 1) /\ h[s] = g[s]
    <3>1. s \in SUBSET S /\ Cardinality(s) <= n
      BY DEF Small
    <3>2. Cardinality(s) <= n + 1
      BY <1>0, <2>2, <3>1
    <3>3. s \in Small(S, n + 1)
      BY <3>1, <3>2 DEF Small
    <3>4. g[s] = Took(f, s, g)
      BY <2>1 DEF SumUpTo
    <3> QED BY <2>3, <3>3, <3>4
  <2>5. ASSUME NEW s \in Small(S, n + 1) PROVE h[s] = Took(f, s, h)
    <3>1. s \in SUBSET S /\ Cardinality(s) <= n + 1
      BY DEF Small
    <3>2. CASE s = {}
      BY <2>3, <3>2 DEF Took
    <3>3. CASE s # {}
      <4>1. /\ Cardinality(s) \in Nat /\ Pick(s) \in s
            /\ Cardinality(s) = Cardinality(s \ {Pick(s)}) + 1
        BY <1>0, <3>1, <3>3, PickIsIn
      <4>2. s \ {Pick(s)} \in SUBSET S
        BY <3>1
      <4>3. Cardinality(s \ {Pick(s)}) \in Nat
        BY <1>0, <4>2
      <4>4. Cardinality(s \ {Pick(s)}) <= n
        BY <2>2, <3>1, <4>1, <4>3
      <4>5. s \ {Pick(s)} \in Small(S, n)
        BY <4>2, <4>4 DEF Small
      <4>6. h[s \ {Pick(s)}] = g[s \ {Pick(s)}]
        BY <2>4, <4>5
      <4> QED BY <2>3, <4>6 DEF Took
    <3> QED BY <3>2, <3>3
  <2>6. h = [s \in Small(S, n + 1) |-> Took(f, s, h)]
    BY <2>3, <2>5
  <2>7. SumUpTo(f, S, n + 1, h)
    BY <2>6 DEF SumUpTo
  <2> QED BY <2>2, <2>7
<1>3. T = Nat
  <2>1. T \in SUBSET Nat
    OBVIOUS
  <2> HIDE DEF T
  <2> QED BY <1>1, <1>2, <2>1, NatSet
<1>4. N \in T
  BY <1>3
<1> QED BY <1>4

LEMMA SumExists ==
    ASSUME NEW f, NEW S, IsFiniteSet(S)
    PROVE  SumTo(f, S, CHOOSE g : SumTo(f, S, g))
<1>1. Cardinality(S) \in Nat
  BY FS_CardinalityType
<1>2. Small(S, Cardinality(S)) = SUBSET S
  BY FS_Subset DEF Small
<1>3. \E g : SumUpTo(f, S, Cardinality(S), g)
  BY <1>1, SomeSumUpTo
<1>4. \E g : SumTo(f, S, g)
  BY <1>2, <1>3 DEF SumUpTo, SumTo
<1> QED BY <1>4

(* Sums over a set and over a subset of it agree on what both speak of.    *)
LEMMA SumsAgree ==
    ASSUME NEW f, NEW S, IsFiniteSet(S), NEW R \in SUBSET S,
           NEW g, SumTo(f, S, g), NEW h, SumTo(f, R, h)
    PROVE  g[R] = h[R]
<1> DEFINE T == {n \in Nat : \A s \in SUBSET R : Cardinality(s) = n => g[s] = h[s]}
<1>0. ASSUME NEW s \in SUBSET R
      PROVE  /\ IsFiniteSet(s) /\ Cardinality(s) \in Nat
             /\ Cardinality(s) = 0 <=> s = {}
             /\ g[s] = Took(f, s, g) /\ h[s] = Took(f, s, h)
  <2>1. s \in SUBSET S
    OBVIOUS
  <2>2. IsFiniteSet(s)
    BY <2>1, FS_Subset
  <2>3. g[s] = Took(f, s, g) /\ h[s] = Took(f, s, h)
    BY <2>1 DEF SumTo
  <2> QED BY <2>2, <2>3, FS_CardinalityType, FS_EmptySet
<1>1. 0 \in T
  <2>1. ASSUME NEW s \in SUBSET R, Cardinality(s) = 0 PROVE g[s] = h[s]
    BY <1>0, <2>1 DEF Took
  <2> QED BY <2>1
<1>2. ASSUME NEW n \in T PROVE n + 1 \in T
  <2>1. ASSUME NEW s \in SUBSET R, Cardinality(s) = n + 1 PROVE g[s] = h[s]
    <3>1. s # {}
      BY <1>0, <2>1
    <3>2. /\ Cardinality(s) \in Nat /\ Pick(s) \in s
          /\ Cardinality(s) = Cardinality(s \ {Pick(s)}) + 1
      BY <1>0, <3>1, PickIsIn
    <3>3. s \ {Pick(s)} \in SUBSET R
      OBVIOUS
    <3>4. Cardinality(s \ {Pick(s)}) \in Nat
      BY <1>0, <3>3
    <3>5. Cardinality(s \ {Pick(s)}) = n
      BY <2>1, <3>2, <3>4
    <3>6. g[s \ {Pick(s)}] = h[s \ {Pick(s)}]
      BY <3>3, <3>5
    <3> QED BY <1>0, <3>6 DEF Took
  <2> QED BY <2>1
<1>3. T = Nat
  <2>1. T \in SUBSET Nat
    OBVIOUS
  <2> HIDE DEF T
  <2> QED BY <1>1, <1>2, <2>1, NatSet
<1>4. Cardinality(R) \in T
  BY <1>0, <1>3
<1> QED BY <1>4

(* A sum over nothing is 0; any other takes out one member.                *)
LEMMA SumSteps ==
    ASSUME NEW f, NEW S, IsFiniteSet(S)
    PROVE  /\ S = {} => SumFunctionOnSet(f, S) = 0
           /\ S # {} => SumFunctionOnSet(f, S) =
                           f[Pick(S)] + SumFunctionOnSet(f, S \ {Pick(S)})
<1> DEFINE g == CHOOSE x : SumTo(f, S, x)
           R == S \ {Pick(S)}
           h == CHOOSE x : SumTo(f, R, x)
<1>1. SumTo(f, S, g) /\ SumFunctionOnSet(f, S) = g[S]
  BY SumExists, SumIs
<1>2. IsFiniteSet(R) /\ R \in SUBSET S
  BY FS_Subset
<1>3. SumTo(f, R, h) /\ SumFunctionOnSet(f, R) = h[R]
  BY <1>2, SumExists, SumIs
<1> HIDE DEF g, h
<1>4. g[R] = h[R]
  BY <1>1, <1>2, <1>3, SumsAgree
<1>5. g[S] = Took(f, S, g)
  BY <1>1 DEF SumTo
<1> QED BY <1>1, <1>3, <1>4, <1>5 DEF Took

LEMMA SumIsInt ==
    ASSUME NEW f, NEW S, IsFiniteSet(S), \A x \in S : f[x] \in Int
    PROVE  SumFunctionOnSet(f, S) \in Int
<1> DEFINE T == {n \in Nat : \A R \in SUBSET S :
                    Cardinality(R) = n => SumFunctionOnSet(f, R) \in Int}
<1>0. ASSUME NEW R \in SUBSET S
      PROVE  /\ IsFiniteSet(R) /\ Cardinality(R) \in Nat
             /\ Cardinality(R) = 0 <=> R = {}
  BY FS_Subset, FS_CardinalityType, FS_EmptySet
<1>1. 0 \in T
  <2>1. ASSUME NEW R \in SUBSET S, Cardinality(R) = 0
        PROVE  SumFunctionOnSet(f, R) \in Int
    <3>1. R = {} /\ IsFiniteSet(R)
      BY <1>0, <2>1
    <3>2. SumFunctionOnSet(f, R) = 0
      BY <3>1, SumSteps
    <3> QED BY <3>2
  <2> QED BY <2>1
<1>2. ASSUME NEW n \in T PROVE n + 1 \in T
  <2>1. ASSUME NEW R \in SUBSET S, Cardinality(R) = n + 1
        PROVE  SumFunctionOnSet(f, R) \in Int
    <3>1. R # {} /\ IsFiniteSet(R)
      BY <1>0, <2>1
    <3>2. /\ Pick(R) \in R /\ R \ {Pick(R)} \in SUBSET S
          /\ Cardinality(R) = Cardinality(R \ {Pick(R)}) + 1
      BY <3>1, PickIsIn
    <3>3. Cardinality(R \ {Pick(R)}) = n
      BY <1>0, <2>1, <3>2
    <3>4. SumFunctionOnSet(f, R \ {Pick(R)}) \in Int
      BY <3>2, <3>3
    <3>5. f[Pick(R)] \in Int
      BY <3>2
    <3>6. SumFunctionOnSet(f, R) = f[Pick(R)] + SumFunctionOnSet(f, R \ {Pick(R)})
      BY <3>1, SumSteps
    <3> QED BY <3>4, <3>5, <3>6
  <2> QED BY <2>1
<1>3. T = Nat
  <2>1. T \in SUBSET Nat
    OBVIOUS
  <2> HIDE DEF T
  <2> QED BY <1>1, <1>2, <2>1, NatSet
<1>4. Cardinality(S) \in T
  BY <1>0, <1>3
<1> QED BY <1>4

(* Any member can be the one that is taken out.                            *)
LEMMA SumTakes ==
    ASSUME NEW f, NEW S, IsFiniteSet(S), \A x \in S : f[x] \in Int, NEW m \in S
    PROVE  SumFunctionOnSet(f, S) = f[m] + SumFunctionOnSet(f, S \ {m})
<1> DEFINE T == {n \in Nat : \A R \in SUBSET S : \A y \in R :
                    Cardinality(R) = n =>
                       SumFunctionOnSet(f, R) = f[y] + SumFunctionOnSet(f, R \ {y})}
<1>0. ASSUME NEW R \in SUBSET S
      PROVE  /\ IsFiniteSet(R) /\ Cardinality(R) \in Nat
             /\ Cardinality(R) = 0 <=> R = {}
             /\ SumFunctionOnSet(f, R) \in Int
  <2>1. IsFiniteSet(R) /\ \A x \in R : f[x] \in Int
    BY FS_Subset
  <2> QED BY <2>1, SumIsInt, FS_CardinalityType, FS_EmptySet
<1>1. 0 \in T
  <2>1. ASSUME NEW R \in SUBSET S, NEW y \in R, Cardinality(R) = 0 PROVE FALSE
    BY <1>0, <2>1
  <2> QED BY <2>1
<1>2. ASSUME NEW n \in T PROVE n + 1 \in T
  <2>1. ASSUME NEW R \in SUBSET S, NEW y \in R, Cardinality(R) = n + 1
        PROVE  SumFunctionOnSet(f, R) = f[y] + SumFunctionOnSet(f, R \ {y})
    <3>1. R # {} /\ IsFiniteSet(R)
      BY <1>0
    <3>2. PICK x : x = Pick(R)
      OBVIOUS
    <3>3. /\ x \in R /\ Cardinality(R) = Cardinality(R \ {x}) + 1
          /\ SumFunctionOnSet(f, R) = f[x] + SumFunctionOnSet(f, R \ {x})
      BY <3>1, <3>2, PickIsIn, SumSteps
    <3>4. CASE x = y
      BY <3>3, <3>4
    <3>5. CASE x # y
      <4>1. /\ R \ {x} \in SUBSET S /\ R \ {y} \in SUBSET S
            /\ (R \ {x}) \ {y} \in SUBSET S
            /\ y \in R \ {x} /\ x \in R \ {y}
            /\ (R \ {x}) \ {y} = (R \ {y}) \ {x}
        BY <3>3, <3>5
      <4>2. Cardinality(R \ {x}) = n
        BY <1>0, <2>1, <3>3, <4>1
      <4>3. Cardinality(R \ {y}) = n
        <5>1. Cardinality(R \ {y}) = Cardinality(R) - 1
          BY <3>1, FS_RemoveElement
        <5> QED BY <1>0, <2>1, <5>1
      <4>4. SumFunctionOnSet(f, R \ {x}) = f[y] + SumFunctionOnSet(f, (R \ {x}) \ {y})
        BY <4>1, <4>2
      <4>5. SumFunctionOnSet(f, R \ {y}) = f[x] + SumFunctionOnSet(f, (R \ {x}) \ {y})
        BY <4>1, <4>3
      <4>6. f[x] \in Int /\ f[y] \in Int
            /\ SumFunctionOnSet(f, (R \ {x}) \ {y}) \in Int
        BY <1>0, <3>3, <4>1
      <4> QED BY <3>3, <4>4, <4>5, <4>6
    <3> QED BY <3>4, <3>5
  <2> QED BY <2>1
<1>3. T = Nat
  <2>1. T \in SUBSET Nat
    OBVIOUS
  <2> HIDE DEF T
  <2> QED BY <1>1, <1>2, <2>1, NatSet
<1>4. Cardinality(S) \in T
  BY <1>0, <1>3
<1> QED BY <1>4

(* Sums of what adds up member by member add up.                           *)
LEMMA SumsAddUp ==
    ASSUME NEW S, IsFiniteSet(S), NEW f, NEW g, NEW p, NEW q,
           \A x \in S : /\ g[x] \in Int /\ p[x] \in Int /\ q[x] \in Int
                        /\ f[x] = g[x] + p[x] - q[x]
    PROVE  /\ SumFunctionOnSet(f, S) = SumFunctionOnSet(g, S)
                + SumFunctionOnSet(p, S) - SumFunctionOnSet(q, S)
<1> DEFINE Adds(R) == SumFunctionOnSet(f, R) = SumFunctionOnSet(g, R)
                         + SumFunctionOnSet(p, R) - SumFunctionOnSet(q, R)
           T == {n \in Nat : \A R \in SUBSET S : Cardinality(R) = n => Adds(R)}
<1>0. ASSUME NEW R \in SUBSET S
      PROVE  /\ IsFiniteSet(R) /\ Cardinality(R) \in Nat
             /\ Cardinality(R) = 0 <=> R = {}
             /\ SumFunctionOnSet(g, R) \in Int
             /\ SumFunctionOnSet(p, R) \in Int
             /\ SumFunctionOnSet(q, R) \in Int
  <2>1. IsFiniteSet(R)
    BY FS_Subset
  <2>2. \A x \in R : g[x] \in Int /\ p[x] \in Int /\ q[x] \in Int
    OBVIOUS
  <2>3. SumFunctionOnSet(g, R) \in Int
    BY <2>1, <2>2, SumIsInt
  <2>4. SumFunctionOnSet(p, R) \in Int
    BY <2>1, <2>2, SumIsInt
  <2>5. SumFunctionOnSet(q, R) \in Int
    BY <2>1, <2>2, SumIsInt
  <2> QED BY <2>1, <2>3, <2>4, <2>5, FS_CardinalityType, FS_EmptySet
<1>1. 0 \in T
  <2>1. ASSUME NEW R \in SUBSET S, Cardinality(R) = 0 PROVE Adds(R)
    <3>1. R = {} /\ IsFiniteSet(R)
      BY <1>0, <2>1
    <3>2. /\ SumFunctionOnSet(f, R) = 0 /\ SumFunctionOnSet(g, R) = 0
          /\ SumFunctionOnSet(p, R) = 0 /\ SumFunctionOnSet(q, R) = 0
      BY <3>1, SumSteps
    <3> QED BY <3>2
  <2> QED BY <2>1
<1>2. ASSUME NEW n \in T PROVE n + 1 \in T
  <2>1. ASSUME NEW R \in SUBSET S, Cardinality(R) = n + 1 PROVE Adds(R)
    <3>1. R # {} /\ IsFiniteSet(R)
      BY <1>0, <2>1
    <3>2. PICK x : x = Pick(R)
      OBVIOUS
    <3>3. PICK Q : Q = R \ {x}
      OBVIOUS
    <3>4. /\ x \in R /\ Cardinality(R) = Cardinality(Q) + 1 /\ Q \in SUBSET S
      BY <3>1, <3>2, <3>3, PickIsIn
    <3>5. /\ SumFunctionOnSet(f, R) = f[x] + SumFunctionOnSet(f, Q)
          /\ SumFunctionOnSet(g, R) = g[x] + SumFunctionOnSet(g, Q)
          /\ SumFunctionOnSet(p, R) = p[x] + SumFunctionOnSet(p, Q)
          /\ SumFunctionOnSet(q, R) = q[x] + SumFunctionOnSet(q, Q)
      BY <3>1, <3>2, <3>3, SumSteps
    <3>6. Cardinality(Q) = n
      BY <1>0, <2>1, <3>4
    <3>7. Adds(Q)
      BY <3>4, <3>6
    <3>8. /\ g[x] \in Int /\ p[x] \in Int /\ q[x] \in Int
          /\ f[x] = g[x] + p[x] - q[x]
      BY <3>4
    <3>9. /\ SumFunctionOnSet(g, Q) \in Int /\ SumFunctionOnSet(p, Q) \in Int
          /\ SumFunctionOnSet(q, Q) \in Int
      BY <1>0, <3>4
    <3> QED BY <3>5, <3>7, <3>8, <3>9
  <2> HIDE DEF Adds
  <2> QED BY <2>1
<1>3. T = Nat
  <2>1. T \in SUBSET Nat
    OBVIOUS
  <2> HIDE DEF T
  <2> QED BY <1>1, <1>2, <2>1, NatSet
<1>4. Cardinality(S) \in T
  BY <1>0, <1>3
<1> QED BY <1>4

-----------------------------------------------------------------------------
(* A chronology in which every event starts from what the one before left, *)
(* in the order of the dates.                                              *)
LeftBy(rows, n) == IF n = 0 THEN 0 ELSE rows[n].after

Linked(rows) == \A i \in 1..Len(rows) :
    rows[i].after = LeftBy(rows, i - 1) + Moved(rows[i].type, rows[i].amount)

ByDate(rows) == \A i, j \in 1..Len(rows) : i <= j => rows[i].date <= rows[j].date

UpToDay(rows, day) == {i \in DOMAIN rows : rows[i].date <= day}

Within(rows, types, start, end) ==
    {i \in DOMAIN rows : rows[i].type \in types /\ rows[i].date \in start..end}

AmountsOf(rows) == [i \in DOMAIN rows |-> rows[i].amount]

OwedBy(rows, day) ==
    IF UpToDay(rows, day) = {} THEN 0
    ELSE LET latest == CHOOSE i \in UpToDay(rows, day) :
                          \A j \in UpToDay(rows, day) : j <= i
         IN  rows[latest].after

(* Its events up to a day come first.                                      *)
LEMMA DatedFirst ==
    ASSUME NEW rows \in Seq(EventRows), ByDate(rows), NEW day \in Int
    PROVE  \E k \in 0..Len(rows) :
              /\ UpToDay(rows, day) = 1..k
              /\ OwedBy(rows, day) = LeftBy(rows, k)
<1>1. PICK N \in Nat : N = Len(rows)
  OBVIOUS
<1>2. \A i \in 1..N : rows[i] \in EventRows
  BY <1>1
<1>3. \A i \in 1..N : rows[i].date \in Int
  BY <1>2, NplNumbers DEF EventRows
<1> DEFINE First(n, k) == k \in 0..n /\ \A i \in 1..n : rows[i].date <= day <=> i <= k
           T == {n \in Nat : n <= N => \E k \in 0..n : First(n, k)}
<1>4. 0 \in T
  <2>1. First(0, 0)
    OBVIOUS
  <2> QED BY <2>1
<1>5. ASSUME NEW n \in T PROVE n + 1 \in T
  <2>1. n \in Nat /\ N \in Nat
    BY <1>1
  <2>2. CASE n + 1 <= N
    <3>0. n <= N
      BY <2>1, <2>2
    <3>1. PICK k \in 0..n : First(n, k)
      <4> HIDE DEF First
      <4> QED BY <3>0
    <3>2. n + 1 \in 1..N /\ k \in 0..(n + 1) /\ rows[n + 1].date \in Int
      BY <1>3, <2>1, <2>2
    <3>3. ASSUME rows[n + 1].date <= day
          PROVE  \E m \in 0..(n + 1) : First(n + 1, m)
      <4>1. ASSUME NEW i \in 1..(n + 1) PROVE rows[i].date <= day
        <5>1. i \in 1..N /\ i <= n + 1
          BY <2>1, <2>2
        <5>2. rows[i].date <= rows[n + 1].date /\ rows[i].date \in Int
          BY <1>1, <1>3, <3>2, <5>1 DEF ByDate
        <5> QED BY <3>2, <3>3, <5>2
      <4>2. \A i \in 1..(n + 1) : i <= n + 1
        OBVIOUS
      <4>3. n + 1 \in 0..(n + 1)
        BY <2>1
      <4>4. First(n + 1, n + 1)
        BY <4>1, <4>2, <4>3
      <4> HIDE DEF First
      <4> QED BY <4>3, <4>4
    <3>4. ASSUME ~(rows[n + 1].date <= day)
          PROVE  \E m \in 0..(n + 1) : First(n + 1, m)
      <4>1. ASSUME NEW i \in 1..(n + 1) PROVE rows[i].date <= day <=> i <= k
        <5>1. CASE i = n + 1
          <6>1. ~(i <= k)
            BY <2>1, <3>1, <5>1
          <6> QED BY <3>4, <5>1, <6>1
        <5>2. CASE i # n + 1
          <6>1. i \in 1..n
            BY <2>1, <5>2
          <6> QED BY <3>1, <6>1
        <5> QED BY <5>1, <5>2
      <4>2. First(n + 1, k)
        BY <3>2, <4>1
      <4> HIDE DEF First
      <4> QED BY <3>2, <4>2
    <3>5. \E m \in 0..(n + 1) : First(n + 1, m)
      <4> HIDE DEF First
      <4> QED BY <3>3, <3>4
    <3>6. n + 1 \in Nat
      BY <2>1
    <3> HIDE DEF First
    <3> QED BY <3>5, <3>6
  <2>3. CASE ~(n + 1 <= N)
    BY <2>1, <2>3
  <2> QED BY <2>2, <2>3
<1>6. T = Nat
  <2>1. T \in SUBSET Nat
    OBVIOUS
  <2> HIDE DEF T
  <2> QED BY <1>4, <1>5, <2>1, NatSet
<1>7. PICK k \in 0..N : First(N, k)
  <2>1. N \in T
    BY <1>1, <1>6
  <2> QED BY <1>1, <2>1
<1>8. UpToDay(rows, day) = 1..k
  <2>1. \A i : i \in 1..k => i \in 1..N /\ i <= k
    BY <1>1
  <2>2. \A i \in 1..N : i <= k => i \in 1..k
    BY <1>1
  <2>3. DOMAIN rows = 1..N
    BY <1>1
  <2> QED BY <1>7, <2>1, <2>2, <2>3 DEF UpToDay
<1>9. OwedBy(rows, day) = LeftBy(rows, k)
  <2>1. CASE k = 0
    <3>1. 1..k = {}
      BY <2>1
    <3> QED BY <1>8, <2>1, <3>1 DEF OwedBy, LeftBy
  <2>2. CASE k # 0
    <3>1. k \in 1..k /\ \A j \in 1..k : j <= k
      BY <1>1, <2>2
    <3>2. \A i \in 1..k : (\A j \in 1..k : j <= i) => i = k
      BY <1>1, <3>1
    <3>3. PICK U : U = UpToDay(rows, day)
      OBVIOUS
    <3>4. /\ k \in U /\ \A j \in U : j <= k
          /\ \A i \in U : (\A j \in U : j <= i) => i = k
      BY <1>8, <3>1, <3>2, <3>3
    <3>5. (CHOOSE i \in U : \A j \in U : j <= i) = k
      BY <3>4
    <3>6. OwedBy(rows, day) = IF U = {} THEN 0
            ELSE rows[CHOOSE i \in U : \A j \in U : j <= i].after
      BY <3>3 DEF OwedBy
    <3> QED BY <2>2, <3>4, <3>5, <3>6 DEF LeftBy
  <2> QED BY <2>1, <2>2
<1> QED BY <1>1, <1>8, <1>9

LEMMA WithinOf ==
    ASSUME NEW rows \in Seq(EventRows), NEW types, NEW start, NEW end
    PROVE  /\ Within(rows, types, start, end) \in SUBSET (1..Len(rows))
           /\ IsFiniteSet(Within(rows, types, start, end))
           /\ \A i \in 1..Len(rows) : AmountsOf(rows)[i] = rows[i].amount
           /\ \A i \in 1..Len(rows) : AmountsOf(rows)[i] \in Int
<1>1. DOMAIN rows = 1..Len(rows) /\ Len(rows) \in Nat
  OBVIOUS
<1>2. \A i \in 1..Len(rows) : rows[i] \in EventRows
  OBVIOUS
<1>3. \A i \in 1..Len(rows) : rows[i].amount \in Int
  BY <1>2 DEF EventRows
<1>4. Within(rows, types, start, end) \in SUBSET (1..Len(rows))
  BY <1>1 DEF Within
<1>5. IsFiniteSet(1..Len(rows))
  BY <1>1, FS_Interval
<1>6. IsFiniteSet(Within(rows, types, start, end))
  BY <1>4, <1>5, FS_Subset
<1> QED BY <1>1, <1>3, <1>4, <1>6 DEF AmountsOf

(* What the events of a type up to a place add up to.                      *)
SumOf(rows, types, b, n) ==
    SumFunctionOnSet(AmountsOf(rows), {i \in (b + 1)..n : rows[i].type \in types})

LEMMA OneMoreOf ==
    ASSUME NEW rows \in Seq(EventRows), NEW types, NEW b \in Nat, NEW n \in Nat,
           b <= n, n + 1 <= Len(rows)
    PROVE  /\ SumOf(rows, types, b, n) \in Int
           /\ SumOf(rows, types, b, n + 1) = SumOf(rows, types, b, n)
                + (IF rows[n + 1].type \in types THEN rows[n + 1].amount ELSE 0)
<1> DEFINE I(m) == {i \in (b + 1)..m : rows[i].type \in types}
           f == AmountsOf(rows)
<1>1. Len(rows) \in Nat
  OBVIOUS
<1>2. \A i \in 1..Len(rows) : f[i] = rows[i].amount /\ f[i] \in Int
  BY WithinOf
<1>3. \A m \in Nat : m <= n + 1 => I(m) \subseteq 1..Len(rows)
  BY <1>1
<1>4. IsFiniteSet(1..Len(rows))
  BY <1>1, FS_Interval
<1>5. IsFiniteSet(I(n)) /\ IsFiniteSet(I(n + 1))
  BY <1>3, <1>4, FS_Subset
<1>6. \A i \in I(n) : f[i] \in Int
  BY <1>2, <1>3
<1>7. \A i \in I(n + 1) : f[i] \in Int
  BY <1>2, <1>3
<1>8. SumFunctionOnSet(f, I(n)) \in Int
  <2> HIDE DEF f, I
  <2> QED BY <1>5, <1>6, SumIsInt
<1>9. (b + 1)..(n + 1) = ((b + 1)..n) \cup {n + 1} /\ n + 1 \notin (b + 1)..n
  OBVIOUS
<1>10. CASE rows[n + 1].type \in types
  <2>1. n + 1 \in I(n + 1) /\ I(n + 1) \ {n + 1} = I(n)
    BY <1>9, <1>10
  <2>2. f[n + 1] = rows[n + 1].amount
    BY <1>1, <1>2
  <2>3. SumFunctionOnSet(f, I(n + 1)) = f[n + 1] + SumFunctionOnSet(f, I(n + 1) \ {n + 1})
    <3> HIDE DEF f, I
    <3> QED BY <1>5, <1>7, <2>1, SumTakes
  <2>4. f[n + 1] \in Int
    BY <1>1, <1>2
  <2>5. SumFunctionOnSet(f, I(n + 1)) = SumFunctionOnSet(f, I(n)) + rows[n + 1].amount
    <3>1. SumFunctionOnSet(f, I(n + 1)) = f[n + 1] + SumFunctionOnSet(f, I(n))
      <4> HIDE DEF f, I
      <4> QED BY <2>1, <2>3
    <3>2. PICK x : x = SumFunctionOnSet(f, I(n)) /\ x \in Int
      BY <1>8
    <3>3. PICK y : y = f[n + 1] /\ y \in Int /\ y = rows[n + 1].amount
      BY <2>2, <2>4
    <3>4. y + x = x + y
      BY <3>2, <3>3
    <3> HIDE DEF f, I
    <3> QED BY <3>1, <3>2, <3>3, <3>4
  <2> QED BY <1>8, <1>10, <2>5 DEF SumOf
<1>11. CASE rows[n + 1].type \notin types
  <2>1. I(n + 1) = I(n)
    BY <1>9, <1>11
  <2>2. SumFunctionOnSet(f, I(n + 1)) = SumFunctionOnSet(f, I(n))
    <3> HIDE DEF f, I
    <3> QED BY <2>1
  <2> QED BY <1>8, <1>11, <2>2 DEF SumOf
<1> QED BY <1>10, <1>11

LEMMA MovedIs ==
    ASSUME NEW type, NEW amount \in Int
    PROVE  Moved(type, amount) = (IF type \in Inflows THEN amount ELSE 0)
                                  - (IF type \in Recoveries THEN amount ELSE 0)
BY DEF Moved, Inflows, Recoveries

LEMMA NothingYet ==
    ASSUME NEW rows, NEW types, NEW b \in Nat PROVE SumOf(rows, types, b, b) = 0
<1>1. {i \in (b + 1)..b : rows[i].type \in types} = {}
  OBVIOUS
<1> QED BY <1>1, SumSteps, FS_EmptySet DEF SumOf

(* From one place to a later one, the movements between lead.              *)
LEMMA MovesLead ==
    ASSUME NEW rows \in Seq(EventRows), Linked(rows),
           NEW b \in Nat, NEW e \in Nat, b <= e, e <= Len(rows)
    PROVE  /\ LeftBy(rows, b) \in Int
           /\ SumOf(rows, Inflows, b, e) \in Int
           /\ SumOf(rows, Recoveries, b, e) \in Int
           /\ LeftBy(rows, e) = LeftBy(rows, b) + SumOf(rows, Inflows, b, e)
                                 - SumOf(rows, Recoveries, b, e)
<1>1. PICK N \in Nat : N = Len(rows)
  OBVIOUS
<1>2. \A i \in 1..N : rows[i] \in EventRows
  BY <1>1
<1>3. \A i \in 1..N : rows[i].after \in Int /\ rows[i].amount \in Int
  BY <1>2 DEF EventRows
<1>4. \A i \in 0..N : LeftBy(rows, i) \in Int
  <2>1. \A i \in 0..N : i = 0 \/ i \in 1..N
    BY <1>1
  <2> QED BY <1>3, <2>1 DEF LeftBy
<1> DEFINE Leads(n) == /\ SumOf(rows, Inflows, b, n) \in Int
                       /\ SumOf(rows, Recoveries, b, n) \in Int
                       /\ LeftBy(rows, n) = LeftBy(rows, b)
                             + SumOf(rows, Inflows, b, n)
                             - SumOf(rows, Recoveries, b, n)
           T == {n \in Nat : b + n <= e => Leads(b + n)}
<1>5. b \in 0..N /\ LeftBy(rows, b) \in Int
  <2>1. b \in 0..N
    BY <1>1
  <2> QED BY <1>4, <2>1
<1>6. 0 \in T
  <2>1. Leads(b)
    BY <1>5, NothingYet
  <2>2. b + 0 = b
    OBVIOUS
  <2> HIDE DEF Leads
  <2> QED BY <2>1, <2>2
<1>7. ASSUME NEW n \in T PROVE n + 1 \in T
  <2>0. n \in Nat
    OBVIOUS
  <2>1. PICK m \in Nat : m = b + n
    BY <2>0
  <2>2. b + (n + 1) = m + 1
    BY <2>0, <2>1
  <2>3. ASSUME m + 1 <= e PROVE Leads(m + 1)
    <3>1. m <= e /\ b <= m /\ m + 1 <= Len(rows) /\ m + 1 \in 1..N /\ m \in 0..N
      BY <1>1, <2>0, <2>1, <2>3
    <3>2. Leads(m)
      BY <2>1, <3>1
    <3>3. PICK r : r = rows[m + 1]
      OBVIOUS
    <3>4. r.after \in Int /\ r.amount \in Int
      BY <1>3, <3>1, <3>3
    <3>5. LeftBy(rows, m + 1) = r.after
      BY <2>1, <3>1, <3>3 DEF LeftBy
    <3>6. (m + 1) - 1 = m
      BY <2>1
    <3>7. r.after = LeftBy(rows, m) + Moved(r.type, r.amount)
      BY <1>1, <3>1, <3>3, <3>6 DEF Linked
    <3>8. PICK x, y : /\ x = IF r.type \in Inflows THEN r.amount ELSE 0
                      /\ y = IF r.type \in Recoveries THEN r.amount ELSE 0
      OBVIOUS
    <3>9. x \in Int /\ y \in Int
      BY <3>4, <3>8
    <3>10. Moved(r.type, r.amount) = x - y
      BY <3>4, <3>8, MovedIs
    <3>11. SumOf(rows, Inflows, b, m + 1) = SumOf(rows, Inflows, b, m) + x
      BY <3>1, <3>3, <3>8, OneMoreOf
    <3>12. SumOf(rows, Recoveries, b, m + 1) = SumOf(rows, Recoveries, b, m) + y
      BY <3>1, <3>3, <3>8, OneMoreOf
    <3> QED BY <1>5, <3>2, <3>5, <3>7, <3>9, <3>10, <3>11, <3>12
  <2>4. b + (n + 1) <= e => Leads(b + (n + 1))
    <3> HIDE DEF Leads
    <3> QED BY <2>2, <2>3
  <2>5. n + 1 \in Nat
    BY <2>0
  <2> HIDE DEF Leads
  <2> QED BY <2>4, <2>5
<1>8. T = Nat
  <2>1. T \in SUBSET Nat
    OBVIOUS
  <2> HIDE DEF T
  <2> QED BY <1>6, <1>7, <2>1, NatSet
<1>9. e - b \in Nat /\ b + (e - b) = e
  OBVIOUS
<1>10. Leads(e)
  <2> HIDE DEF Leads
  <2>1. e - b \in T
    BY <1>8, <1>9
  <2> QED BY <1>9, <2>1
<1> QED BY <1>5, <1>10

(* One case: its movements in a period lead from what was owed before to   *)
(* what was owed at its end.                                               *)
LEMMA CaseReconciles ==
    ASSUME NEW rows \in Seq(EventRows), Linked(rows), ByDate(rows),
           NEW start \in Int, NEW end \in Int, start <= end,
           NEW in, in = SumFunctionOnSet(AmountsOf(rows), Within(rows, Inflows, start, end)),
           NEW out, out = SumFunctionOnSet(AmountsOf(rows), Within(rows, Recoveries, start, end))
    PROVE  /\ OwedBy(rows, start - 1) \in Int /\ in \in Int /\ out \in Int
           /\ OwedBy(rows, end) = OwedBy(rows, start - 1) + in - out
<1>1. PICK N \in Nat : N = Len(rows) /\ DOMAIN rows = 1..N
  OBVIOUS
<1>2. \A i \in 1..N : rows[i] \in EventRows
  BY <1>1
<1>3. \A i \in 1..N : rows[i].date \in Int
  BY <1>2, NplNumbers DEF EventRows
<1>4. PICK d : d = start - 1 /\ d \in Int /\ d <= end
  OBVIOUS
<1>5. PICK b \in 0..N : UpToDay(rows, d) = 1..b /\ OwedBy(rows, d) = LeftBy(rows, b)
  BY <1>1, <1>4, DatedFirst
<1>6. PICK e \in 0..N : UpToDay(rows, end) = 1..e /\ OwedBy(rows, end) = LeftBy(rows, e)
  BY <1>1, DatedFirst
<1>7. \A i \in 1..N : rows[i].date <= d <=> i <= b
  <2>1. \A i \in 1..N : i \in UpToDay(rows, d) <=> rows[i].date <= d
    BY <1>1 DEF UpToDay
  <2>2. \A i \in 1..N : i \in 1..b <=> i <= b
    BY <1>1
  <2> QED BY <1>5, <2>1, <2>2
<1>8. \A i \in 1..N : rows[i].date <= end <=> i <= e
  <2>1. \A i \in 1..N : i \in UpToDay(rows, end) <=> rows[i].date <= end
    BY <1>1 DEF UpToDay
  <2>2. \A i \in 1..N : i \in 1..e <=> i <= e
    BY <1>1
  <2> QED BY <1>6, <2>1, <2>2
<1>9. b <= e
  <2>1. CASE b = 0
    BY <1>1, <2>1
  <2>2. CASE b # 0
    <3>1. b \in 1..N /\ b <= b
      BY <1>1, <2>2
    <3>2. rows[b].date <= d /\ rows[b].date \in Int
      BY <1>3, <1>7, <3>1
    <3>3. rows[b].date <= end
      BY <1>4, <3>2
    <3> QED BY <1>8, <3>1, <3>3
  <2> QED BY <2>1, <2>2
<1>10. ASSUME NEW i \in 1..N
       PROVE  rows[i].date \in start..end <=> i \in (b + 1)..e
  <2>1. rows[i].date \in start..end <=> ~(rows[i].date <= d) /\ rows[i].date <= end
    BY <1>3, <1>4
  <2>2. i \in (b + 1)..e <=> ~(i <= b) /\ i <= e
    BY <1>1
  <2> QED BY <1>7, <1>8, <2>1, <2>2
<1>11. ASSUME NEW types
       PROVE  Within(rows, types, start, end) = {i \in (b + 1)..e : rows[i].type \in types}
  <2>1. (b + 1)..e \subseteq 1..N
    BY <1>1
  <2> QED BY <1>1, <1>10, <2>1 DEF Within
<1>12. in = SumOf(rows, Inflows, b, e) /\ out = SumOf(rows, Recoveries, b, e)
  BY <1>11 DEF SumOf
<1>13. b \in Nat /\ e \in Nat /\ e <= Len(rows)
  BY <1>1
<1>14. /\ LeftBy(rows, b) \in Int
       /\ SumOf(rows, Inflows, b, e) \in Int
       /\ SumOf(rows, Recoveries, b, e) \in Int
       /\ LeftBy(rows, e) = LeftBy(rows, b) + SumOf(rows, Inflows, b, e)
                                 - SumOf(rows, Recoveries, b, e)
  BY <1>9, <1>13, MovesLead
<1> QED BY <1>4, <1>5, <1>6, <1>12, <1>14

(* What the implementation of the abstract ledger says of one chronology.  *)
LEMMA ExplainedRows ==
    ASSUME TypeOK, EventsExplainCases, NEW a \in Accounts
    PROVE  /\ events[a] \in Seq(EventRows)
           /\ Linked(events[a]) /\ ByDate(events[a])
<1>1. PICK rows \in Seq(EventRows) : rows = events[a]
  BY DEF TypeOK
<1>2. PICK seen : seen = [i \in 1..Len(rows) |-> Seen(rows[i])]
  OBVIOUS
<1>3. Ledger!Explains(seen, cases[a].exposure) /\ Ledger!InOrder(seen)
  BY <1>1, <1>2 DEF EventsExplainCases, Ledger!ChronologySound
<1>4. PICK N \in Nat : N = Len(rows)
  OBVIOUS
<1>5. seen \in [1..N -> {Seen(rows[i]) : i \in 1..N}] /\ Len(seen) = N
  BY <1>2, <1>4
<1>6. ASSUME NEW i \in 1..N
      PROVE  /\ seen[i].moved = Moved(rows[i].type, rows[i].amount)
             /\ seen[i].after = rows[i].after
             /\ seen[i].date = rows[i].date
  BY <1>2, <1>4 DEF Seen
<1>7. ASSUME NEW i \in 1..N
      PROVE  rows[i].after = LeftBy(rows, i - 1) + Moved(rows[i].type, rows[i].amount)
  <2>1. seen[i].after = Ledger!Left(seen, i - 1) + seen[i].moved
    BY <1>3, <1>5 DEF Ledger!Explains
  <2>2. Ledger!Left(seen, i - 1) = LeftBy(rows, i - 1)
    <3>1. CASE i - 1 = 0
      BY <3>1 DEF Ledger!Left, LeftBy
    <3>2. CASE i - 1 # 0
      <4>1. i - 1 \in 1..N
        BY <1>4, <3>2
      <4>2. seen[i - 1].after = rows[i - 1].after
        BY <1>6, <4>1
      <4> QED BY <3>2, <4>2 DEF Ledger!Left, LeftBy
    <3> QED BY <3>1, <3>2
  <2> QED BY <1>6, <2>1, <2>2
<1>8. ASSUME NEW i \in 1..N, NEW j \in 1..N, i <= j
      PROVE  rows[i].date <= rows[j].date
  <2>1. seen[i].date <= seen[j].date
    BY <1>3, <1>5, <1>8 DEF Ledger!InOrder
  <2> QED BY <1>6, <2>1
<1> QED BY <1>1, <1>4, <1>7, <1>8 DEF Linked, ByDate

(* Whatever period a report names, its movements lead from the exposure    *)
(* before it to the exposure at its end, for any number of cases.          *)
THEOREM WaterfallAddsUp == Spec => []WaterfallReconciles
<1>1. ASSUME TypeOK, EventsExplainCases PROVE WaterfallReconciles
  <2> SUFFICES ASSUME NEW start \in 1..MaxDay, NEW end \in 1..MaxDay, start <= end
               PROVE  calculatedClosing(start, end) = Closing(end)
    BY DEF WaterfallReconciles
  <2>1. start \in Int /\ end \in Int
    BY NplNumbers
  <2> DEFINE f == [a \in Accounts |-> OwedAtEnd(a, end)]
             g == [a \in Accounts |-> OwedAtEnd(a, start - 1)]
             p == [a \in Accounts |-> Observed(a, Inflows, start, end)]
             q == [a \in Accounts |-> Observed(a, Recoveries, start, end)]
  <2>2. ASSUME NEW a \in Accounts
        PROVE  /\ g[a] \in Int /\ p[a] \in Int /\ q[a] \in Int
               /\ f[a] = g[a] + p[a] - q[a]
    <3>1. PICK rows \in Seq(EventRows) :
            rows = events[a] /\ Linked(rows) /\ ByDate(rows)
      BY <1>1, ExplainedRows
    <3>2. f[a] = OwedBy(rows, end) /\ g[a] = OwedBy(rows, start - 1)
      BY <3>1 DEF OwedAtEnd, Dated, OwedBy, UpToDay
    <3>3. /\ p[a] = SumFunctionOnSet(AmountsOf(rows), Within(rows, Inflows, start, end))
          /\ q[a] = SumFunctionOnSet(AmountsOf(rows), Within(rows, Recoveries, start, end))
      BY <3>1 DEF Observed, AmountsOf, Within
    <3> HIDE DEF f, g, p, q
    <3>4. /\ OwedBy(rows, start - 1) \in Int /\ p[a] \in Int /\ q[a] \in Int
          /\ OwedBy(rows, end) = OwedBy(rows, start - 1) + p[a] - q[a]
      BY <2>1, <3>1, <3>3, CaseReconciles
    <3> QED BY <3>2, <3>4
  <2>3. /\ Closing(end) = SumFunctionOnSet(f, Accounts)
        /\ Opening(start) = SumFunctionOnSet(g, Accounts)
        /\ Movements(Inflows, start, end) = SumFunctionOnSet(p, Accounts)
        /\ Movements(Recoveries, start, end) = SumFunctionOnSet(q, Accounts)
    BY DEF Closing, Opening, Movements, SumFunction
  <2> HIDE DEF f, g, p, q
  <2>4. SumFunctionOnSet(f, Accounts) = SumFunctionOnSet(g, Accounts)
          + SumFunctionOnSet(p, Accounts) - SumFunctionOnSet(q, Accounts)
    BY <2>2, SumsAddUp, CountedAccounts
  <2> QED BY <2>3, <2>4 DEF calculatedClosing
<1> QED BY <1>1, CaseTyped, CasesAreExplained, PTL
=============================================================================
