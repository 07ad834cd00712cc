------------------------- MODULE WalletEngineProofs -------------------------
(***************************************************************************)
(* WalletEngine implements AtomicLedger, for any number of organizations,  *)
(* requests and connections: what a request read under its row locks is    *)
(* still the balance when it commits, so its whole transaction can be      *)
(* counted as one step of the ledger.  That the ledgers explain the        *)
(* balances, and that no wallet is overdrawn, follow from AtomicLedger.    *)
(* That a fee is charged in full or not at all, and never told otherwise,  *)
(* needs the rows each request left behind.                                *)
(***************************************************************************)
EXTENDS WalletEngine, FiniteSetTheorems, SequenceTheorems, TLAPS

Types ==
    /\ open \subseteq Wallets
    /\ balance \in [Wallets -> 0..MaxInt]
    /\ held \in [Requests -> SUBSET Wallets]
    /\ conns \in [Requests -> 0..2]
    /\ pc \in [Requests -> Places]
    /\ job \in [Requests -> Jobs]
    /\ seen \in [Requests -> [own : 0..MaxInt, to : PlatformIds, plat : 0..MaxInt]]

(* Which job can be at which place.                                        *)
RightPlace(r) ==
    /\ pc[r] \in {"lockOrg", "lockPlatform"} => job[r].op = "fee"
    /\ pc[r] = "lockWallet" => job[r].op \in {"topup", "withdrawal"}
    /\ pc[r] = "decide" => job[r].op \in {"fee", "topup", "withdrawal"}
    /\ pc[r] \in {"connectBureau", "findBureau", "insertBureau"} =>
          job[r].op \in {"fee", "bureau"}
    /\ pc[r] = "connect" => conns[r] = 0
    /\ pc[r] \in {"lockOrg", "lockPlatform",
                  "connectBureau", "connectPlatform"} => conns[r] = 1

(* What a request read under a lock is the balance as long as it keeps the *)
(* lock, and no two requests lock one row.                                 *)
LocksHold ==
    /\ \A r, s \in Requests : r # s => held[r] \cap held[s] = {}
    /\ \A r \in Requests :
          pc[r] \in {"lockPlatform", "decide"} =>
             /\ job[r].w \in held[r] \cap open
             /\ seen[r].own = balance[job[r].w]
    /\ \A r \in Requests :
          pc[r] = "decide" /\ job[r].op = "fee" =>
             /\ seen[r].to \in held[r] \cap Platforms
             /\ seen[r].plat = balance[seen[r].to]

IInv == Types /\ LocksHold /\ \A r \in Requests : RightPlace(r)

-----------------------------------------------------------------------------
(* What each kind of job names.                                            *)
LEMMA JobFacts ==
    ASSUME NEW j \in Jobs
    PROVE  /\ j.w \in Wallets
           /\ j.op \in {"fee", "topup", "withdrawal", "bureau", "platform"}
           /\ j.op = "fee" => /\ j.w \in Orgs /\ j.amount \in Amounts
                              /\ j.fee \in Amounts \cup {0} /\ j.fee <= j.amount
           /\ j.op \in {"topup", "withdrawal"} => j.amount \in Amounts
           /\ j.op = "bureau" => j.w \in Orgs
  BY DEF Jobs, FeeJobs, MoveJobs, OpenJobs, Wallets, PlatformIds

LEMMA AmountFacts ==
    ASSUME NEW a \in Amounts \cup {0}
    PROVE  a \in Nat /\ a <= MaxInt /\ (a # 0 => a \in Amounts)
  BY NumbersAssumption

LEMMA InitInv == Init => IInv
<1> SUFFICES ASSUME Init PROVE IInv
  OBVIOUS
<1>1. Types
  <2>1. balance \in [Wallets -> 0..MaxInt] /\ open \subseteq Wallets
    <3>1. Amounts \cup {0} \subseteq 0..MaxInt
      BY NumbersAssumption
    <3>2. Wallets = Ledger!Wallets
      BY DEF Wallets, Ledger!Wallets
    <3> QED BY <3>1, <3>2 DEF Init, Ledger!LedgerInit
  <2>2. Unread \in [own : 0..MaxInt, to : PlatformIds, plat : 0..MaxInt]
    BY NumbersAssumption DEF Unread, Read, PlatformIds
  <2> QED BY <2>1, <2>2 DEF Init, Types, Places
<1>2. LocksHold
  BY DEF Init, LocksHold
<1>3. \A r \in Requests : RightPlace(r)
  BY DEF Init, RightPlace
<1> QED BY <1>1, <1>2, <1>3 DEF IInv

(* Leaving gives up locks and changes no balance by itself.                *)
LEMMA AbortInv ==
    ASSUME IInv, NEW r \in Requests, NEW answer \in Answers, Abort(r, answer)
    PROVE  IInv'
<1>1. Unread \in [own : 0..MaxInt, to : PlatformIds, plat : 0..MaxInt]
  BY NumbersAssumption DEF Unread, Read, PlatformIds
<1>2. Types'
  BY <1>1 DEF IInv, Types, Abort, Leave, Places
<1>3. LocksHold'
  BY DEF IInv, Types, LocksHold, Abort, Leave, Answers, Platforms
<1>4. \A s \in Requests : RightPlace(s)'
  BY DEF IInv, Types, RightPlace, Abort, Leave, Answers
<1> QED BY <1>2, <1>3, <1>4 DEF IInv
(* A committed fee leaves every other request's reads untouched, because   *)
(* both rows it writes were locked by it.                                  *)
LEMMA CommitFeeFacts ==
    ASSUME IInv, NEW r \in Requests, CommitFee(r)
    PROVE  LET o == job[r].w
               p == seen[r].to
           IN  /\ o \in open \cap Orgs /\ p \in Platforms /\ o # p
               /\ o \in held[r] /\ p \in held[r]
               /\ job[r].amount \in Amounts /\ job[r].fee \in Amounts \cup {0}
               /\ job[r].fee <= job[r].amount
               /\ seen[r].own = balance[o] /\ seen[r].plat = balance[p]
               /\ balance[o] - job[r].amount \in 0..MaxInt
               /\ balance[p] + job[r].fee \in 0..MaxInt
               /\ balance' = [balance EXCEPT ![o] = balance[o] - job[r].amount,
                                             ![p] = balance[p] + job[r].fee]
               /\ open' = open
<1> DEFINE o == job[r].w
           p == seen[r].to
<1>1. job[r] \in Jobs /\ job[r].op = "fee" /\ pc[r] = "decide"
  BY DEF IInv, Types, CommitFee
<1>2. /\ o \in Orgs /\ job[r].amount \in Amounts
      /\ job[r].fee \in Amounts \cup {0} /\ job[r].fee <= job[r].amount
  BY <1>1, JobFacts
<1>3. /\ o \in held[r] \cap open /\ seen[r].own = balance[o]
      /\ p \in held[r] \cap Platforms /\ seen[r].plat = balance[p]
  BY <1>1 DEF IInv, LocksHold
<1>4. o # p
  BY <1>2, <1>3, NamesAssumption DEF Platforms
<1>5. balance[o] \in 0..MaxInt /\ balance[p] \in 0..MaxInt
  BY <1>3 DEF IInv, Types, Platforms
<1>6. job[r].amount \in Nat /\ job[r].fee \in Nat
  BY <1>2, AmountFacts
<1>7. job[r].amount <= balance[o] /\ balance[p] + job[r].fee <= MaxInt
  BY <1>3 DEF CommitFee, Affords
<1>8. /\ balance[o] - job[r].amount \in 0..MaxInt
      /\ balance[p] + job[r].fee \in 0..MaxInt
  BY <1>5, <1>6, <1>7, NumbersAssumption
<1>9. /\ balance' = [balance EXCEPT ![o] = balance[o] - job[r].amount,
                                    ![p] = balance[p] + job[r].fee]
      /\ open' = open
  BY <1>3 DEF CommitFee
<1> QED BY <1>2, <1>3, <1>4, <1>8, <1>9

LEMMA CommitFeeInv ==
    ASSUME IInv, NEW r \in Requests, CommitFee(r)
    PROVE  IInv'
<1> DEFINE o == job[r].w
           p == seen[r].to
<1>1. PICK answer \in {"ok", "failed"} : Leave(r, answer)
  BY DEF CommitFee
<1>2. Unread \in [own : 0..MaxInt, to : PlatformIds, plat : 0..MaxInt]
  BY NumbersAssumption DEF Unread, Read, PlatformIds
<1>3. balance' \in [Wallets -> 0..MaxInt]
  BY CommitFeeFacts DEF IInv, Types
<1>4. Types'
  BY <1>1, <1>2, <1>3, CommitFeeFacts DEF IInv, Types, Leave, Places, Answers
<1>5. ASSUME NEW s \in Requests, s # r, NEW w \in held[s]
      PROVE  balance'[w] = balance[w]
  BY <1>5, CommitFeeFacts DEF IInv, LocksHold, Types
<1>6. LocksHold'
  BY <1>1, <1>5, CommitFeeFacts DEF IInv, Types, LocksHold, Leave, Platforms
<1>7. \A s \in Requests : RightPlace(s)'
  BY <1>1 DEF IInv, Types, RightPlace, Leave
<1> QED BY <1>4, <1>6, <1>7 DEF IInv

LEMMA CommitMoveFacts ==
    ASSUME IInv, NEW r \in Requests, CommitMove(r)
    PROVE  \E a \in Int :
              /\ \/ job[r].op = "topup" /\ a \in Amounts
                 \/ job[r].op = "withdrawal" /\ -a \in Amounts
              /\ job[r].w \in open \cap held[r]
              /\ balance[job[r].w] + a \in 0..MaxInt
              /\ balance' = [balance EXCEPT ![job[r].w] = balance[job[r].w] + a]
              /\ ledger' = [ledger EXCEPT ![job[r].w] =
                    Write(job[r].w, job[r].op, a, balance[job[r].w] + a, r)]
              /\ open' = open
<1> DEFINE w == job[r].w
           a == IF job[r].op = "topup" THEN job[r].amount ELSE -job[r].amount
<1>1. /\ job[r] \in Jobs /\ job[r].op \in {"topup", "withdrawal"}
      /\ pc[r] = "decide"
  BY DEF IInv, Types, CommitMove
<1>2. job[r].amount \in Amounts /\ job[r].amount \in Nat /\ job[r].amount <= MaxInt
  BY <1>1, JobFacts, AmountFacts
<1>3. w \in held[r] \cap open /\ seen[r].own = balance[w]
  BY <1>1 DEF IInv, LocksHold
<1>4. balance[w] \in 0..MaxInt
  BY <1>3 DEF IInv, Types
<1>5. balance[w] + a \in 0..MaxInt
  <2>1. CASE job[r].op = "topup"
    BY <1>2, <1>3, <1>4, <2>1, NumbersAssumption DEF CommitMove
  <2>2. CASE job[r].op = "withdrawal"
    BY <1>2, <1>3, <1>4, <2>2, NumbersAssumption DEF CommitMove, Affords
  <2> QED BY <1>1, <2>1, <2>2
<1>6. /\ balance' = [balance EXCEPT ![w] = balance[w] + a]
      /\ ledger' = [ledger EXCEPT ![w] = Write(w, job[r].op, a, balance[w] + a, r)]
      /\ open' = open
  BY <1>3 DEF CommitMove
<1>7. a \in Int /\ (\/ job[r].op = "topup" /\ a \in Amounts
                    \/ job[r].op = "withdrawal" /\ -a \in Amounts)
  <2>1. CASE job[r].op = "topup"
    BY <1>2, <2>1
  <2>2. CASE job[r].op = "withdrawal"
    <3>1. a = -job[r].amount
      BY <2>2
    <3>2. -a = job[r].amount
      BY <1>2, <3>1
    <3> QED BY <1>2, <2>2, <3>1, <3>2
  <2> QED BY <1>1, <2>1, <2>2
<1> HIDE DEF a
<1> QED BY <1>3, <1>5, <1>6, <1>7

LEMMA CommitMoveInv ==
    ASSUME IInv, NEW r \in Requests, CommitMove(r)
    PROVE  IInv'
<1>1. PICK answer \in {"ok", "failed"} : Leave(r, answer)
  BY DEF CommitMove
<1>2. Unread \in [own : 0..MaxInt, to : PlatformIds, plat : 0..MaxInt]
  BY NumbersAssumption DEF Unread, Read, PlatformIds
<1>3. balance' \in [Wallets -> 0..MaxInt] /\ open' = open
  BY CommitMoveFacts DEF IInv, Types
<1>4. Types'
  BY <1>1, <1>2, <1>3 DEF IInv, Types, Leave, Places, Answers
<1>5. ASSUME NEW s \in Requests, s # r, NEW w \in held[s]
      PROVE  balance'[w] = balance[w]
  BY <1>5, CommitMoveFacts DEF IInv, LocksHold, Types
<1>6. LocksHold'
  BY <1>1, <1>3, <1>5 DEF IInv, Types, LocksHold, Leave, Platforms
<1>7. \A s \in Requests : RightPlace(s)'
  BY <1>1 DEF IInv, Types, RightPlace, Leave
<1> QED BY <1>4, <1>6, <1>7 DEF IInv
(* Taking a free lock and reading the row under it.                        *)
LEMMA LockInv ==
    ASSUME IInv, NEW r \in Requests,
           LockOrg(r) \/ LockWallet(r) \/ LockPlatform(r)
    PROVE  IInv'
<1>1. job[r] \in Jobs /\ job[r].w \in Wallets
  BY JobFacts DEF IInv, Types
<1>2. CASE LockOrg(r) \/ LockWallet(r)
  <2> DEFINE w == job[r].w
  <2>1. /\ w \in open /\ \A s \in Requests : w \notin held[s]
        /\ held' = [held EXCEPT ![r] = {w}]
        /\ seen' = [seen EXCEPT ![r] = Read(balance[w], Platform0, 0)]
        /\ UNCHANGED <<open, balance, conns, job>>
        /\ pc[r] \in {"lockOrg", "lockWallet"}
        /\ \/ pc[r] = "lockOrg" /\ pc' = [pc EXCEPT ![r] = "lockPlatform"]
           \/ pc[r] = "lockWallet" /\ pc' = [pc EXCEPT ![r] = "decide"]
    BY <1>2 DEF LockOrg, LockWallet, Goto, Locked
  <2>2. /\ Read(balance[w], Platform0, 0) \in
              [own : 0..MaxInt, to : PlatformIds, plat : 0..MaxInt]
        /\ Read(balance[w], Platform0, 0).own = balance[w]
    BY <1>1, NumbersAssumption DEF Read, IInv, Types, PlatformIds
  <2> HIDE DEF w
  <2>3. Types'
    BY <1>1, <2>1, <2>2 DEF IInv, Types, Places, InTransaction, w
  <2>4. LocksHold'
    <3>1. \A t, s \in Requests : t # s => held'[t] \cap held'[s] = {}
      BY <2>1 DEF IInv, Types, LocksHold
    <3>2. \A s \in Requests \ {r} : /\ seen'[s] = seen[s] /\ pc'[s] = pc[s]
                                   /\ held'[s] = held[s]
      BY <2>1 DEF IInv, Types
    <3>3. /\ seen'[r].own = balance[w] /\ held'[r] = {w}
          /\ pc'[r] = "decide" => job[r].op # "fee"
      BY <2>1, <2>2 DEF IInv, Types, RightPlace
    <3>4. Platforms' = Platforms
      BY <2>1 DEF Platforms
    <3> QED BY <2>1, <3>1, <3>2, <3>3, <3>4 DEF IInv, LocksHold, w
  <2>5. \A s \in Requests : RightPlace(s)'
    BY <2>1 DEF IInv, Types, RightPlace
  <2> QED BY <2>3, <2>4, <2>5 DEF IInv
<1>3. CASE LockPlatform(r)
  <2>1. PICK p \in Platforms :
           seen' = [seen EXCEPT ![r] = Read(seen[r].own, p, balance[p])]
    BY <1>3 DEF LockPlatform
  <2>2. Platforms \subseteq Wallets /\ p \in PlatformIds
    BY DEF Platforms, Wallets
  <2> DEFINE now == Read(seen[r].own, p, balance[p])
  <2>a. /\ now \in [own : 0..MaxInt, to : PlatformIds, plat : 0..MaxInt]
        /\ now.own = seen[r].own /\ now.to = p /\ now.plat = balance[p]
    BY <2>2 DEF Read, IInv, Types
  <2>b. seen' = [seen EXCEPT ![r] = now]
    BY <2>1
  <2> HIDE DEF now
  <2>3. Types'
    BY <1>3, <2>2, <2>a, <2>b DEF IInv, Types, LockPlatform, Goto, Places, InTransaction
  <2>4. /\ \A q \in Platforms, s \in Requests : q \notin held[s]
        /\ held' = [held EXCEPT ![r] = @ \cup Platforms]
    BY <1>3 DEF LockPlatform, Locked
  <2>5. LocksHold'
    <3>1. \A t, s \in Requests : t # s => held'[t] \cap held'[s] = {}
      BY <2>4 DEF IInv, Types, LocksHold
    <3>2. \A s \in Requests : s # r => seen'[s] = seen[s] /\ pc'[s] = pc[s]
      BY <1>3, <2>b DEF LockPlatform, Goto, IInv, Types
    <3>3. /\ seen'[r].own = seen[r].own /\ seen'[r].to = p
          /\ seen'[r].plat = balance[p] /\ pc[r] = "lockPlatform"
      BY <1>3, <2>a, <2>b DEF LockPlatform, IInv, Types
    <3>4. \A s \in Requests : held[s] \subseteq held'[s]
      BY <2>4 DEF IInv, Types
    <3>5. p \in held'[r]
      BY <2>4 DEF IInv, Types
    <3>6. UNCHANGED <<open, balance, job>> /\ Platforms' = Platforms
      BY <1>3 DEF LockPlatform, Platforms
    <3> QED BY <3>1, <3>2, <3>3, <3>4, <3>5, <3>6 DEF IInv, LocksHold
  <2>6. \A s \in Requests : RightPlace(s)'
    BY <1>3 DEF IInv, Types, RightPlace, LockPlatform, Goto
  <2> QED BY <2>3, <2>5, <2>6 DEF IInv
<1> QED BY <1>2, <1>3

(* Connecting, and finding that a wallet does not exist yet.               *)
LEMMA SeekInv ==
    ASSUME IInv, NEW r \in Requests,
           Connect(r) \/ MissingOrg(r) \/ MissingPlatform(r)
           \/ (FindBureau(r) /\ Goto(r, "insertBureau")
                 /\ UNCHANGED <<open, balance, ledger, held, conns, job, seen>>)
           \/ (FindPlatform(r) /\ Goto(r, "insertPlatform")
                 /\ UNCHANGED <<open, balance, ledger, held, conns, job, seen>>)
           \/ FindLockedPlatform(r)
    PROVE  IInv'
<1>1. Unread \in [own : 0..MaxInt, to : PlatformIds, plat : 0..MaxInt]
  BY NumbersAssumption DEF Unread, Read, PlatformIds
<1>2. job[r] \in Jobs
  BY DEF IInv, Types
<1>3. CASE Connect(r)
  <2>1. /\ conns[r] \in {0, 1}
        /\ conns' = [conns EXCEPT ![r] = conns[r] + 1]
        /\ pc' = [pc EXCEPT ![r] = AfterConnect(r)]
    BY <1>3 DEF Connect, Goto, IInv, RightPlace, Connecting
  <2>2. CASE pc[r] = "connect"
    <3>1. /\ AfterConnect(r) \in {"lockOrg", "findBureau", "findPlatform", "lockWallet"}
          /\ AfterConnect(r) = "lockOrg" => job[r].op = "fee"
          /\ AfterConnect(r) = "findBureau" => job[r].op = "bureau"
          /\ AfterConnect(r) = "lockWallet" => job[r].op \in {"topup", "withdrawal"}
          /\ conns[r] = 0
      BY <1>2, <2>2, JobFacts DEF AfterConnect, FirstPlace, IInv, RightPlace
    <3> HIDE DEF AfterConnect
    <3>2. Types'
      BY <1>3, <2>1, <3>1 DEF IInv, Types, Connect, Places, InTransaction
    <3>3. LocksHold'
      BY <1>3, <2>1, <3>1 DEF IInv, Types, LocksHold, Connect, Platforms
    <3>4. \A s \in Requests : RightPlace(s)'
      BY <1>3, <2>1, <3>1 DEF IInv, Types, RightPlace, Connect
    <3> QED BY <3>2, <3>3, <3>4 DEF IInv
  <2>3. CASE pc[r] \in {"connectBureau", "connectPlatform"}
    <3>1. /\ AfterConnect(r) \in {"findBureau", "findPlatform"}
          /\ AfterConnect(r) = "findBureau" => job[r].op \in {"fee", "bureau"}
      BY <2>3 DEF AfterConnect, IInv, RightPlace
    <3>2. Types'
      BY <1>3, <2>1, <3>1 DEF IInv, Types, Connect, Places, InTransaction
    <3>3. LocksHold'
      BY <1>3, <2>1, <3>1 DEF IInv, Types, LocksHold, Connect, Platforms
    <3>4. \A s \in Requests : RightPlace(s)'
      BY <1>3, <2>1, <3>1 DEF IInv, Types, RightPlace, Connect
    <3> QED BY <3>2, <3>3, <3>4 DEF IInv
  <2> QED BY <1>3, <2>2, <2>3 DEF Connect, Connecting
<1>4. CASE MissingPlatform(r)
  <2>1. Types'
    BY <1>1, <1>4 DEF IInv, Types, MissingPlatform, Goto, Places, InTransaction
  <2>2. LocksHold'
    BY <1>4 DEF IInv, Types, LocksHold, MissingPlatform, Goto, Platforms
  <2>3. \A s \in Requests : RightPlace(s)'
    BY <1>4 DEF IInv, Types, RightPlace, MissingPlatform, Goto
  <2> QED BY <2>1, <2>2, <2>3 DEF IInv
<1>5. CASE MissingOrg(r)
  <2>1. Types'
    BY <1>5 DEF IInv, Types, MissingOrg, Goto, Places, InTransaction
  <2>2. LocksHold'
    BY <1>5 DEF IInv, Types, LocksHold, MissingOrg, Goto, Platforms
  <2>3. \A s \in Requests : RightPlace(s)'
    BY <1>5 DEF IInv, Types, RightPlace, MissingOrg, Goto
  <2> QED BY <2>1, <2>2, <2>3 DEF IInv
<1>6. CASE /\ FindBureau(r) \/ FindPlatform(r)
           /\ \/ Goto(r, "insertBureau") /\ FindBureau(r)
              \/ Goto(r, "insertPlatform")
           /\ UNCHANGED <<open, balance, ledger, held, conns, job, seen>>
  <2>1. Types'
    BY <1>6 DEF IInv, Types, Goto, Places, InTransaction
  <2>2. LocksHold'
    BY <1>6 DEF IInv, Types, LocksHold, Goto, Platforms
  <2>3. \A s \in Requests : RightPlace(s)'
    BY <1>6 DEF IInv, Types, RightPlace, Goto, FindBureau
  <2> QED BY <2>1, <2>2, <2>3 DEF IInv
<1>7. CASE FindLockedPlatform(r)
  <2>1. PICK p \in Platforms : seen' = [seen EXCEPT ![r] = Read(0, p, 0)]
    BY <1>7 DEF FindLockedPlatform
  <2>2. Read(0, p, 0) \in [own : 0..MaxInt, to : PlatformIds, plat : 0..MaxInt]
    BY NumbersAssumption DEF Read, Platforms
  <2>3. /\ UNCHANGED <<open, balance, held, conns, job>> /\ pc[r] = "findPlatform"
        /\ pc' = [pc EXCEPT ![r] = "awaitPlatform"]
    BY <1>7 DEF FindLockedPlatform, Goto
  <2>4. Types'
    BY <2>1, <2>2, <2>3 DEF IInv, Types, Places, InTransaction
  <2>5. ASSUME NEW s \in Requests, pc'[s] \in {"lockPlatform", "decide"}
        PROVE  s # r /\ pc'[s] = pc[s] /\ seen'[s] = seen[s]
    BY <2>1, <2>3, <2>5 DEF IInv, Types
  <2>6. LocksHold'
    BY <2>3, <2>5 DEF IInv, LocksHold, Platforms
  <2>7. \A s \in Requests : RightPlace(s)'
    BY <2>3 DEF IInv, Types, RightPlace
  <2> QED BY <2>4, <2>6, <2>7 DEF IInv
<1> QED BY <1>3, <1>4, <1>5, <1>6, <1>7

(* A new row appears; the rows there were keep their locks and balances.   *)
LEMMA OpenInv ==
    ASSUME IInv, NEW r \in Requests, NEW w \in Wallets, NEW answer \in Answers,
           open' = open \cup {w}, Leave(r, answer), UNCHANGED <<balance, ledger>>
    PROVE  IInv'
<1>1. Unread \in [own : 0..MaxInt, to : PlatformIds, plat : 0..MaxInt]
  BY NumbersAssumption DEF Unread, Read, PlatformIds
<1>2. Types'
  BY <1>1 DEF IInv, Types, Leave, Places
<1>3. LocksHold'
  BY DEF IInv, Types, LocksHold, Leave, Answers, Platforms
<1>4. \A s \in Requests : RightPlace(s)'
  BY DEF IInv, Types, RightPlace, Leave, Answers
<1> QED BY <1>2, <1>3, <1>4 DEF IInv

LEMMA CrashInv == ASSUME IInv, Crash PROVE IInv'
<1>1. Unread \in [own : 0..MaxInt, to : PlatformIds, plat : 0..MaxInt]
  BY NumbersAssumption DEF Unread, Read, PlatformIds
<1>2. Types'
  BY <1>1 DEF IInv, Types, Crash, Places, Answers
<1>3. \A r \in Requests : pc'[r] \notin InTransaction
  BY DEF Crash, InTransaction
<1>4. LocksHold'
  BY <1>3 DEF Crash, LocksHold, InTransaction
<1>5. \A r \in Requests : RightPlace(r)'
  BY <1>3 DEF Crash, RightPlace, InTransaction
<1> QED BY <1>2, <1>4, <1>5 DEF IInv

LEMMA StepInv == IInv /\ [Next]_vars => IInv'
<1> SUFFICES ASSUME IInv, [Next]_vars PROVE IInv'
  OBVIOUS
<1>1. ASSUME NEW r \in Requests, Step(r) PROVE IInv'
  <2>1. CASE Connect(r) \/ MissingOrg(r) \/ MissingPlatform(r)
    BY <2>1, SeekInv
  <2>2. CASE LockOrg(r) \/ LockWallet(r) \/ LockPlatform(r)
    BY <2>2, LockInv
  <2>3. CASE CommitFee(r)
    BY <2>3, CommitFeeInv
  <2>4. CASE CommitMove(r)
    BY <2>4, CommitMoveInv
  <2>5. CASE ConnectTimeout(r) \/ MissingWallet(r) \/ Insufficient(r) \/ Overflow(r)
    BY <2>5, AbortInv DEF ConnectTimeout, MissingWallet, Insufficient, Overflow, Answers
  <2>6. AnswerOfOpening(r) \in Answers /\ "failed" \in Answers
    BY DEF AnswerOfOpening, Answers
  <2>7. CASE FindBureau(r)
    <3>1. CASE Abort(r, AnswerOfOpening(r))
      BY <2>6, <3>1, AbortInv
    <3> QED BY <2>7, <3>1, SeekInv DEF FindBureau
  <2>8. CASE FindPlatform(r)
    <3>1. CASE Abort(r, AnswerOfOpening(r))
      BY <2>6, <3>1, AbortInv
    <3> QED BY <2>8, <3>1, SeekInv DEF FindPlatform
  <2>11. CASE FindLockedPlatform(r)
    BY <2>11, SeekInv
  <2>12. CASE AwaitPlatform(r)
    BY <2>6, <2>12, AbortInv DEF AwaitPlatform
  <2>9. CASE InsertBureau(r)
    <3>1. job[r].w \in Wallets
      BY JobFacts DEF IInv, Types
    <3> QED BY <2>6, <2>9, <3>1, OpenInv, AbortInv DEF InsertBureau, Opened
  <2>10. CASE InsertPlatform(r)
    <3>1. r \in Wallets
      BY DEF Wallets, PlatformIds
    <3> QED BY <2>6, <2>10, <3>1, OpenInv DEF InsertPlatform, Opened
  <2> QED BY <1>1, <2>1, <2>2, <2>3, <2>4, <2>5, <2>7, <2>8, <2>9, <2>10, <2>11, <2>12
      DEF Step
<1>2. ASSUME NEW r \in Requests, StatementFails(r) PROVE IInv'
  BY <1>2, AbortInv DEF StatementFails, Answers
<1>3. CASE UNCHANGED vars
  BY <1>3 DEF vars, IInv, Types, LocksHold, RightPlace, Platforms
<1> QED BY <1>1, <1>2, <1>3, CrashInv DEF Next, Finished

(* In every reachable state, for any organizations, requests and pool:     *)
(* what wallet-engine.ts read with SELECT ... FOR UPDATE is still the       *)
(* committed balance when it writes, and no row is locked twice.           *)
THEOREM LocksAreKept == Spec => []IInv
  BY InitInv, StepInv, PTL DEF Spec
-----------------------------------------------------------------------------
(* What a request does to the three tables, in the words of AtomicLedger.  *)

LEMMA CommitFeeIsCharge ==
    ASSUME IInv, NEW r \in Requests, CommitFee(r)
    PROVE  Ledger!LedgerNext
<1> DEFINE o == job[r].w
           p == seen[r].to
           total == job[r].amount
           fee == job[r].fee
<1>1. /\ o \in open \cap Orgs /\ p \in open \cap PlatformIds
      /\ total \in Amounts /\ fee \in Amounts \cup {0} /\ fee <= total
      /\ seen[r].own = balance[o] /\ seen[r].plat = balance[p]
      /\ balance[o] - total \in 0..MaxInt /\ balance[p] + fee \in 0..MaxInt
      /\ balance' = [balance EXCEPT ![o] = balance[o] - total,
                                    ![p] = balance[p] + fee]
      /\ open' = open
  BY CommitFeeFacts DEF Platforms
<1>2. total \in Nat /\ fee \in Nat /\ balance[o] \in Int /\ balance[p] \in Int
  BY <1>1, AmountFacts DEF IInv, Types
<1>3. balance[o] - total = balance[o] + (-total)
  BY <1>2
<1>4. ledger' = [ledger EXCEPT
          ![o] = Ledger!Posted(o, "transaction_fee", -total, r),
          ![p] = Ledger!Posted(p, "platform_fee", fee, r)]
  BY <1>1, <1>3 DEF CommitFee, Write, PlatformRow, Entry, Ledger!Posted, Ledger!Entry
<1>5. total <= balance[o] /\ balance[p] + fee <= MaxInt
  BY <1>1, <1>2
<1>6. Ledger!Charge(o, p, total, fee, r)
  BY <1>1, <1>4, <1>5 DEF Ledger!Charge
<1> QED BY <1>1, <1>6 DEF Ledger!LedgerNext

LEMMA CommitMoveIsMove ==
    ASSUME IInv, NEW r \in Requests, CommitMove(r)
    PROVE  Ledger!LedgerNext
<1> DEFINE w == job[r].w
<1>1. PICK a \in Int :
          /\ \/ job[r].op = "topup" /\ a \in Amounts
             \/ job[r].op = "withdrawal" /\ -a \in Amounts
          /\ w \in open
          /\ balance[w] + a \in 0..MaxInt
          /\ balance' = [balance EXCEPT ![w] = balance[w] + a]
          /\ ledger' = [ledger EXCEPT ![w] =
                Write(w, job[r].op, a, balance[w] + a, r)]
          /\ open' = open
  BY CommitMoveFacts
<1>2. Ledger!Move(w, job[r].op, a, r)
  BY <1>1 DEF Ledger!Move, Write, Entry, Ledger!Posted, Ledger!Entry
<1>3. w \in Ledger!Wallets
  BY JobFacts DEF IInv, Types, Wallets, Ledger!Wallets
<1>4. a = -(-a)
  OBVIOUS
<1> QED BY <1>1, <1>2, <1>3, <1>4 DEF Ledger!LedgerNext

LEMMA InsertIsOpen ==
    ASSUME IInv, NEW r \in Requests, InsertBureau(r) \/ InsertPlatform(r)
    PROVE  [Ledger!LedgerNext]_<<open, balance, ledger>>
<1>1. job[r].w \in Ledger!Wallets /\ r \in Ledger!Wallets
  BY JobFacts DEF IInv, Types, Wallets, PlatformIds, Ledger!Wallets
<1>2. CASE InsertBureau(r)
  BY <1>1, <1>2 DEF InsertBureau, Opened, Abort, Ledger!LedgerNext, Ledger!Open
<1>3. CASE InsertPlatform(r)
  BY <1>1, <1>3 DEF InsertPlatform, Opened, Ledger!LedgerNext, Ledger!Open
<1> QED BY <1>2, <1>3

LEMMA StepRefines ==
    ASSUME IInv, [Next]_vars
    PROVE  [Ledger!LedgerNext]_(Ledger!ledgerVars)
<1>1. ASSUME NEW r \in Requests, Step(r)
      PROVE  [Ledger!LedgerNext]_<<open, balance, ledger>>
  <2>1. CASE CommitFee(r)
    BY <2>1, CommitFeeIsCharge
  <2>2. CASE CommitMove(r)
    BY <2>2, CommitMoveIsMove
  <2>3. CASE InsertBureau(r) \/ InsertPlatform(r)
    BY <2>3, InsertIsOpen
  <2>4. CASE Connect(r) \/ ConnectTimeout(r) \/ LockOrg(r) \/ MissingOrg(r)
             \/ LockPlatform(r) \/ MissingPlatform(r) \/ LockWallet(r)
             \/ MissingWallet(r) \/ Insufficient(r) \/ Overflow(r)
             \/ FindBureau(r) \/ FindPlatform(r) \/ FindLockedPlatform(r)
             \/ AwaitPlatform(r)
    BY <2>4 DEF Connect, ConnectTimeout, LockOrg, MissingOrg, LockPlatform,
                MissingPlatform, LockWallet, MissingWallet, Insufficient,
                Overflow, FindBureau, FindPlatform, FindLockedPlatform,
                AwaitPlatform, Abort
  <2> QED BY <1>1, <2>1, <2>2, <2>3, <2>4 DEF Step
<1>2. CASE \/ \E r \in Requests : StatementFails(r)
           \/ Crash \/ UNCHANGED vars
  BY <1>2 DEF StatementFails, Abort, Crash, vars, Ledger!ledgerVars
<1> QED BY <1>1, <1>2 DEF Next, Finished, Ledger!ledgerVars

(* The transactions of wallet-engine.ts, interleaved and interrupted in any *)
(* way, implement the ledger whose every movement is one step.             *)
THEOREM TransactionsAreAtomic == Spec => ActsAtomically
<1>1. Init => Ledger!LedgerInit
  BY DEF Init
<1>2. IInv /\ [Next]_vars => [Ledger!LedgerNext]_(Ledger!ledgerVars)
  BY StepRefines
<1> QED BY <1>1, <1>2, LocksAreKept, PTL DEF Spec, ActsAtomically, Ledger!LedgerSpec
-----------------------------------------------------------------------------
(* A row that starts from the balance the rows explain extends them.       *)
LEMMA ExplainsAppend ==
    ASSUME NEW S,
           \A x \in S : x.after \in Int /\ x.amount \in Int,
           NEW rows \in Seq(S), NEW bal \in Int, NEW e \in S,
           Ledger!Explains(rows, bal), e.after = bal + e.amount
    PROVE  Ledger!Explains(Append(rows, e), bal + e.amount)
<1> DEFINE new == Append(rows, e)
<1>1. /\ new \in Seq(S)
      /\ Len(new) = Len(rows) + 1
      /\ new[Len(rows) + 1] = e
      /\ \A i \in 1..Len(rows) : new[i] = rows[i]
  OBVIOUS
<1>2. Len(rows) \in Nat
  OBVIOUS
<1>3. new # <<>> /\ bal + e.amount = new[Len(new)].after
  BY <1>1, <1>2
<1>4. ASSUME NEW i \in 1..Len(new)
      PROVE  new[i].after = Ledger!Before(new, i) + new[i].amount
  <2>1. CASE i \in 1..Len(rows)
    <3>1. new[i] = rows[i] /\ Ledger!Before(new, i) = Ledger!Before(rows, i)
      BY <1>1, <1>2, <2>1 DEF Ledger!Before
    <3> QED BY <3>1, <2>1 DEF Ledger!Explains
  <2>2. CASE i = Len(rows) + 1
    <3>1. CASE rows = <<>>
      BY <1>1, <2>2, <3>1 DEF Ledger!Before, Ledger!Explains
    <3>2. CASE rows # <<>>
      <4>1. Len(rows) \in 1..Len(rows) /\ Len(rows) # 0
        BY <1>2, <3>2
      <4>2. Ledger!Before(new, i) = rows[Len(rows)].after
        BY <1>1, <2>2, <4>1 DEF Ledger!Before
      <4> QED BY <1>1, <2>2, <3>2, <4>2 DEF Ledger!Explains
    <3> QED BY <3>1, <3>2
  <2> QED BY <1>1, <1>2, <1>4, <2>1, <2>2
<1> QED BY <1>3, <1>4 DEF Ledger!Explains
-----------------------------------------------------------------------------
(* One wallet takes one row; the others keep theirs.                       *)
LEMMA PostOne ==
    ASSUME NEW w \in Ledger!Wallets, NEW kind \in Ledger!Kinds, NEW amount \in Int,
           NEW ref \in Requests \cup Ledger!Wallets,
           Ledger!LedgerSound, balance[w] + amount \in 0..MaxInt
    PROVE  /\ Ledger!Posted(w, kind, amount, ref) \in Seq(Ledger!Rows)
           /\ Ledger!Explains(Ledger!Posted(w, kind, amount, ref), balance[w] + amount)
<1> USE NumbersAssumption, NamesAssumption
<1> DEFINE e == Ledger!Entry(kind, amount, balance[w] + amount, ref)
<1>1. e \in Ledger!Rows /\ e.after = balance[w] + e.amount /\ e.amount = amount
  BY DEF Ledger!Entry, Ledger!Rows
<1>2. ledger[w] \in Seq(Ledger!Rows) /\ Ledger!Explains(ledger[w], balance[w])
  BY DEF Ledger!LedgerSound, Ledger!LedgerExplains
<1>3. balance[w] \in Int
  BY DEF Ledger!LedgerSound
<1>4. \A x \in Ledger!Rows : x.after \in Int /\ x.amount \in Int
  BY DEF Ledger!Rows
<1>5. Ledger!Posted(w, kind, amount, ref) = Append(ledger[w], e)
  BY DEF Ledger!Posted
<1>6. Ledger!Explains(Append(ledger[w], e), balance[w] + e.amount)
  BY <1>1, <1>2, <1>3, <1>4, ExplainsAppend
<1> QED BY <1>1, <1>2, <1>5, <1>6

(* A charge moves money between two wallets that differ, in one step.      *)
LEMMA StepSound ==
    ASSUME Ledger!LedgerSound, [Ledger!LedgerNext]_(Ledger!ledgerVars)
    PROVE  Ledger!LedgerSound'
<1> USE NumbersAssumption, NamesAssumption
<1>1. CASE UNCHANGED Ledger!ledgerVars
  BY <1>1 DEF Ledger!ledgerVars, Ledger!LedgerExplains, Ledger!LedgerSound
<1>2. ASSUME NEW w \in Ledger!Wallets, Ledger!Open(w) PROVE Ledger!LedgerSound'
  BY <1>2 DEF Ledger!Open, Ledger!LedgerExplains, Ledger!LedgerSound
<1>3. ASSUME NEW w \in Ledger!Wallets, NEW kind \in Ledger!Kinds, NEW a \in Int,
             NEW r \in Requests, Ledger!Move(w, kind, a, r)
      PROVE  Ledger!LedgerSound'
  <2>1. /\ Ledger!Posted(w, kind, a, r) \in Seq(Ledger!Rows)
        /\ Ledger!Explains(Ledger!Posted(w, kind, a, r), balance[w] + a)
    BY <1>3, PostOne DEF Ledger!Move
  <2>2. balance' \in [Ledger!Wallets -> 0..MaxInt] /\ ledger' \in [Ledger!Wallets -> Seq(Ledger!Rows)]
    BY <1>3, <2>1 DEF Ledger!Move, Ledger!LedgerSound
  <2>3. ASSUME NEW v \in Ledger!Wallets PROVE Ledger!LedgerExplains(v)'
    BY <1>3, <2>1 DEF Ledger!Move, Ledger!LedgerExplains, Ledger!LedgerSound
  <2> QED BY <1>3, <2>2, <2>3 DEF Ledger!Move, Ledger!LedgerSound
<1>4. ASSUME NEW o \in Orgs, NEW p \in PlatformIds, NEW r \in Requests,
             NEW total \in Amounts, NEW fee \in Amounts \cup {0},
             Ledger!Charge(o, p, total, fee, r)
      PROVE  Ledger!LedgerSound'
  <2>1. o # p /\ o \in Ledger!Wallets /\ p \in Ledger!Wallets
    BY DEF Ledger!Wallets
  <2>2. /\ total \in Nat /\ fee \in Nat
        /\ balance[o] \in 0..MaxInt /\ balance[p] \in 0..MaxInt
        /\ -total \in Int /\ r \in Requests \cup Ledger!Wallets
    BY <2>1 DEF Ledger!LedgerSound
  <2>3. balance[o] + (-total) \in 0..MaxInt /\ balance[p] + fee \in 0..MaxInt
    BY <1>4, <2>2 DEF Ledger!Charge
  <2>4. /\ Ledger!Posted(o, "transaction_fee", -total, r) \in Seq(Ledger!Rows)
        /\ Ledger!Explains(Ledger!Posted(o, "transaction_fee", -total, r), balance[o] + (-total))
    <3>1. "transaction_fee" \in Ledger!Kinds
      BY DEF Ledger!Kinds
    <3> QED BY <2>1, <2>2, <2>3, <3>1, PostOne
  <2>5. /\ Ledger!Posted(p, "platform_fee", fee, r) \in Seq(Ledger!Rows)
        /\ Ledger!Explains(Ledger!Posted(p, "platform_fee", fee, r), balance[p] + fee)
    <3>1. "platform_fee" \in Ledger!Kinds /\ fee \in Int
      BY <2>2 DEF Ledger!Kinds
    <3> QED BY <2>1, <2>2, <2>3, <3>1, PostOne
  <2>6. balance' \in [Ledger!Wallets -> 0..MaxInt] /\ ledger' \in [Ledger!Wallets -> Seq(Ledger!Rows)]
    BY <1>4, <2>1, <2>2, <2>3, <2>4, <2>5 DEF Ledger!Charge, Ledger!LedgerSound
  <2>7. ASSUME NEW v \in Ledger!Wallets PROVE Ledger!LedgerExplains(v)'
    <3>1. balance[o] - total = balance[o] + (-total)
      BY <2>2
    <3> QED BY <1>4, <2>1, <2>4, <2>5, <3>1 DEF Ledger!Charge, Ledger!LedgerExplains, Ledger!LedgerSound
  <2> QED BY <1>4, <2>6, <2>7 DEF Ledger!Charge, Ledger!LedgerSound
<1>5. ASSUME NEW a \in Amounts PROVE a \in Int /\ -a \in Int
  OBVIOUS
<1> QED BY <1>1, <1>2, <1>3, <1>4, <1>5 DEF Ledger!LedgerNext, Ledger!Kinds

LEMMA InitSound ==
    ASSUME Ledger!LedgerInit
    PROVE  Ledger!LedgerSound
<1> USE NumbersAssumption, NamesAssumption
<1>1. balance \in [Ledger!Wallets -> 0..MaxInt]
  <2>1. Amounts \cup {0} \subseteq 0..MaxInt
    OBVIOUS
  <2> QED BY <2>1 DEF Ledger!LedgerInit
<1>2. ASSUME NEW w \in Ledger!Wallets
      PROVE  ledger[w] \in Seq(Ledger!Rows) /\ Ledger!LedgerExplains(w)
  <2>1. CASE balance[w] = 0
    BY <2>1 DEF Ledger!LedgerInit, Ledger!LedgerExplains, Ledger!Explains
  <2>2. CASE balance[w] # 0
    <3> DEFINE e == Ledger!Entry("topup", balance[w], balance[w], w)
    <3>1. ledger[w] = <<e>>
      BY <2>2 DEF Ledger!LedgerInit, Ledger!OpeningRow
    <3>2. e \in Ledger!Rows /\ e.after = balance[w] /\ e.amount = balance[w]
      BY <1>1 DEF Ledger!Entry, Ledger!Rows, Ledger!Kinds
    <3>3. Ledger!Explains(<<e>>, balance[w])
      BY <1>1, <3>2 DEF Ledger!Explains, Ledger!Before
    <3> QED BY <3>1, <3>2, <3>3 DEF Ledger!LedgerExplains
  <2> QED BY <2>1, <2>2
<1>3. ledger \in [Ledger!Wallets -> Seq(Ledger!Rows)]
  BY <1>2 DEF Ledger!LedgerInit
<1> QED BY <1>1, <1>2, <1>3 DEF Ledger!LedgerSound, Ledger!LedgerInit

(* For any wallets and amounts, every history of opening, moving and       *)
(* charging keeps each balance equal to what its ledger explains, within   *)
(* 0..MaxInt.                                                              *)
THEOREM AtomicLedgerSound == Ledger!LedgerSpec => []Ledger!LedgerSound
<1>1. Ledger!LedgerInit => Ledger!LedgerSound
  BY InitSound
<1>2. Ledger!LedgerSound /\ [Ledger!LedgerNext]_(Ledger!ledgerVars) => Ledger!LedgerSound'
  BY StepSound
<1> QED BY <1>1, <1>2, PTL DEF Ledger!LedgerSpec

(* Everything the abstract ledger promises holds of the wallets.           *)
LEMMA WalletsAreSound == Spec => []Ledger!LedgerSound
  BY AtomicLedgerSound, TransactionsAreAtomic, PTL DEF ActsAtomically

(* No wallet of any deployment loses or gains money its ledger does not    *)
(* explain, whatever the requests do to each other.                        *)
THEOREM LedgersAlwaysAgree == Spec => []LedgerAgrees
<1>1. Ledger!LedgerSound => LedgerAgrees
  BY DEF Ledger!LedgerSound, Ledger!Wallets, LedgerAgrees, Wallets
<1> QED BY <1>1, WalletsAreSound, PTL

(* No wallet of any deployment is overdrawn, not even for one row.         *)
THEOREM NoWalletIsOverdrawn == Spec => []NeverOverdrawn
<1>1. Ledger!LedgerSound => NeverOverdrawn
  <2>1. Ledger!Wallets = Wallets
    BY DEF Ledger!Wallets, Wallets
  <2>2. ASSUME Ledger!LedgerSound, NEW w \in Wallets, NEW i \in 1..Len(ledger[w])
        PROVE  ledger[w][i].after \in 0..MaxInt
    <3>1. ledger[w] \in Seq(Ledger!Rows)
      BY <2>1, <2>2 DEF Ledger!LedgerSound
    <3>2. ledger[w][i] \in Ledger!Rows
      BY <3>1
    <3> QED BY <3>2 DEF Ledger!Rows
  <2> QED BY <2>2 DEF NeverOverdrawn
<1> QED BY <1>1, WalletsAreSound, PTL
-----------------------------------------------------------------------------
(* No more connections are out than the pool has.                          *)
PoolKept == IsFiniteSet(InUse) /\ Cardinality(InUse) <= PoolSize

LEMMA InUseFinite == ASSUME Types PROVE IsFiniteSet(InUse)
<1>1. IsFiniteSet({1, 2})
  <2>1. IsFiniteSet({1}) /\ {1, 2} = {1} \cup {2}
    BY FS_Singleton
  <2> QED BY <2>1, FS_AddElement
<1>2. IsFiniteSet(Requests \X {1, 2})
  BY <1>1, FiniteAssumption, FS_Product
<1> QED BY <1>2, FS_Subset DEF InUse

(* Giving connections back, or not touching them.                          *)
LEMMA FewerInUse ==
    ASSUME IInv, PoolKept, InUse' \subseteq InUse
    PROVE  PoolKept'
<1>1. IsFiniteSet(InUse') /\ Cardinality(InUse') <= Cardinality(InUse)
  BY FS_Subset DEF PoolKept
<1>2. Cardinality(InUse) \in Nat /\ Cardinality(InUse') \in Nat
  BY <1>1, FS_CardinalityType DEF PoolKept
<1> QED BY <1>1, <1>2, NumbersAssumption DEF PoolKept

LEMMA ConnectKeepsPool ==
    ASSUME IInv, PoolKept, NEW r \in Requests, Connect(r)
    PROVE  PoolKept'
<1> DEFINE x == <<r, conns[r] + 1>>
<1>1. conns[r] \in {0, 1} /\ conns' = [conns EXCEPT ![r] = conns[r] + 1]
  BY DEF Connect, Connecting, IInv, RightPlace
<1>2. conns \in [Requests -> 0..2]
  BY DEF IInv, Types
<1>3. InUse' = InUse \cup {x}
  BY <1>1, <1>2 DEF InUse
<1>4. x \notin InUse
  BY <1>1 DEF InUse
<1>5. /\ IsFiniteSet(InUse \cup {x})
      /\ Cardinality(InUse \cup {x}) = Cardinality(InUse) + 1
  BY <1>4, FS_AddElement DEF PoolKept
<1>6. Cardinality(InUse) < PoolSize /\ Cardinality(InUse) \in Nat
  BY FS_CardinalityType DEF Connect, FreeConnection, PoolKept
<1> QED BY <1>3, <1>5, <1>6, NumbersAssumption DEF PoolKept

LEMMA PoolStep == IInv /\ PoolKept /\ [Next]_vars => PoolKept'
<1> SUFFICES ASSUME IInv, PoolKept, [Next]_vars PROVE PoolKept'
  OBVIOUS
<1>1. conns \in [Requests -> 0..2]
  BY DEF IInv, Types
<1>2. CASE conns' = conns
  BY <1>2, FewerInUse DEF InUse
<1>3. ASSUME NEW r \in Requests, conns' = [conns EXCEPT ![r] = 0]
      PROVE  PoolKept'
  BY <1>1, <1>3, FewerInUse DEF InUse
<1>4. CASE conns' = [r \in Requests |-> 0]
  BY <1>1, <1>4, FewerInUse DEF InUse
<1>5. ASSUME NEW r \in Requests, Step(r), ~Connect(r)
      PROVE  conns' = conns \/ conns' = [conns EXCEPT ![r] = 0]
  BY <1>5 DEF Step, ConnectTimeout, LockOrg, MissingOrg, LockPlatform,
     MissingPlatform, LockWallet, MissingWallet, CommitFee, CommitMove,
     Insufficient, Overflow, FindBureau, InsertBureau, FindPlatform,
     FindLockedPlatform, AwaitPlatform, InsertPlatform, Opened, Abort, Leave
<1> QED BY <1>2, <1>3, <1>4, <1>5, ConnectKeepsPool
        DEF Next, StatementFails, Abort, Leave, Crash, Finished, vars

LEMMA PoolInit == Init => PoolKept
<1> SUFFICES ASSUME Init PROVE PoolKept
  OBVIOUS
<1>1. InUse = {}
  BY DEF Init, InUse
<1> QED BY <1>1, FS_EmptySet, NumbersAssumption DEF PoolKept

(* Every variable keeps its type, and the bounded pool of server/db.ts     *)
(* never hands out more connections than it has.                           *)
THEOREM TypesAreKept == Spec => []TypeOK
<1>1. Spec => []PoolKept
  BY PoolInit, PoolStep, LocksAreKept, PTL DEF Spec
<1>2. IInv /\ PoolKept /\ Ledger!LedgerSound => TypeOK
  <2> SUFFICES ASSUME IInv, PoolKept, Ledger!LedgerSound PROVE TypeOK
    OBVIOUS
  <2>1. Ledger!Wallets = Wallets /\ Requests \subseteq Wallets
    BY DEF Ledger!Wallets, Wallets, PlatformIds
  <2> DEFINE Row == [kind : Ledger!Kinds, amount : Int, after : Int, ref : Wallets]
  <2>2. Ledger!Rows \subseteq Row
    BY <2>1 DEF Ledger!Rows
  <2> HIDE DEF Row
  <2>3. Seq(Ledger!Rows) \subseteq Seq(Row)
    BY <2>2, SeqMonotonic
  <2>4. ledger \in [Wallets -> Seq(Row)]
    BY <2>1, <2>3 DEF Ledger!LedgerSound
  <2>5. [Wallets -> 0..MaxInt] \subseteq [Wallets -> Int]
    OBVIOUS
  <2>6. \A s \in [own : 0..MaxInt, to : PlatformIds, plat : 0..MaxInt] :
            s \in [own : Int, to : PlatformIds, plat : Int]
    OBVIOUS
  <2> QED BY <2>4, <2>5, <2>6 DEF IInv, Types, PoolKept, TypeOK, Row
<1> QED BY <1>1, <1>2, LocksAreKept, WalletsAreSound, PTL
-----------------------------------------------------------------------------
(* A request's fee rows appear in one step, both of them, and no other     *)
(* step of any request adds a row to them.                                 *)
FeeKinds == {"transaction_fee", "platform_fee"}

IsFeeRow(w, i, r) == ledger[w][i].ref = r /\ ledger[w][i].kind \in FeeKinds

FeeRowsOf(rows, r) ==
    {x \in UNION {{w} \X (1..Len(rows[w])) : w \in Wallets} :
        rows[x[1]][x[2]].ref = r /\ rows[x[1]][x[2]].kind \in FeeKinds}

LEMMA InFeeRowsOf ==
    ASSUME NEW rows, NEW r
    PROVE  \A x : x \in FeeRowsOf(rows, r) <=>
              \E w \in Wallets : \E i \in 1..Len(rows[w]) :
                 x = <<w, i>> /\ rows[w][i].ref = r /\ rows[w][i].kind \in FeeKinds
<1>1. ASSUME NEW x \in FeeRowsOf(rows, r)
      PROVE  \E w \in Wallets : \E i \in 1..Len(rows[w]) :
                x = <<w, i>> /\ rows[w][i].ref = r /\ rows[w][i].kind \in FeeKinds
  <2>1. PICK w \in Wallets : x \in {w} \X (1..Len(rows[w]))
    BY DEF FeeRowsOf
  <2>2. PICK i \in 1..Len(rows[w]) : x = <<w, i>>
    BY <2>1
  <2>3. rows[x[1]][x[2]].ref = r /\ rows[x[1]][x[2]].kind \in FeeKinds
    BY DEF FeeRowsOf
  <2> QED BY <2>2, <2>3
<1>2. ASSUME NEW w \in Wallets, NEW i \in 1..Len(rows[w]),
             rows[w][i].ref = r, rows[w][i].kind \in FeeKinds
      PROVE  <<w, i>> \in FeeRowsOf(rows, r)
  <2>1. <<w, i>> \in UNION {{v} \X (1..Len(rows[v])) : v \in Wallets}
    OBVIOUS
  <2> QED BY <1>2, <2>1 DEF FeeRowsOf
<1> QED BY <1>1, <1>2

LEMMA InFeeRows ==
    ASSUME NEW r
    PROVE  /\ \A x : x \in FeeRows(r) <=>
                 \E w \in Wallets : \E i \in 1..Len(ledger[w]) :
                    x = <<w, i>> /\ IsFeeRow(w, i, r)
           /\ \A x : x \in FeeRows(r)' <=>
                 \E w \in Wallets : \E i \in 1..Len(ledger'[w]) :
                    x = <<w, i>> /\ IsFeeRow(w, i, r)'
<1>1. PICK old, new : old = ledger /\ new = ledger'
  OBVIOUS
<1>2. FeeRows(r) = FeeRowsOf(old, r) /\ FeeRows(r)' = FeeRowsOf(new, r)
  BY <1>1 DEF FeeRows, FeeRowsOf, FeeKinds
<1>3. /\ \A x : x \in FeeRowsOf(old, r) <=>
            \E w \in Wallets : \E i \in 1..Len(old[w]) :
               x = <<w, i>> /\ old[w][i].ref = r /\ old[w][i].kind \in FeeKinds
      /\ \A x : x \in FeeRowsOf(new, r) <=>
            \E w \in Wallets : \E i \in 1..Len(new[w]) :
               x = <<w, i>> /\ new[w][i].ref = r /\ new[w][i].kind \in FeeKinds
  BY InFeeRowsOf
<1> QED BY <1>1, <1>2, <1>3 DEF IsFeeRow

(* What was there stays, and what is new is no fee row of s.               *)
NoNewFeeRow(s) ==
    \A w \in Wallets :
        /\ Len(ledger[w]) <= Len(ledger'[w])
        /\ \A i \in 1..Len(ledger[w]) : ledger'[w][i] = ledger[w][i]
        /\ \A i \in 1..Len(ledger'[w]) :
              i > Len(ledger[w]) => ~(IsFeeRow(w, i, s)')

LEMMA FeeStays ==
    ASSUME Ledger!LedgerSound, Ledger!LedgerSound', NEW s \in Requests,
           job' = job, job[s].w \in Wallets, NoNewFeeRow(s)
    PROVE  /\ FeeRows(s)' = FeeRows(s)
           /\ ChargedInFull(s) => ChargedInFull(s)'
<1>1. \A w \in Wallets : Len(ledger[w]) \in Nat /\ Len(ledger'[w]) \in Nat
  BY DEF Ledger!LedgerSound, Ledger!Wallets, Wallets
<1>2. \A w \in Wallets : \A i \in 1..Len(ledger[w]) :
         i \in 1..Len(ledger'[w]) /\ ledger'[w][i] = ledger[w][i]
  BY <1>1 DEF NoNewFeeRow
<1>3. \A x : x \in FeeRows(s)' <=>
         \E w \in Wallets : \E i \in 1..Len(ledger'[w]) :
            x = <<w, i>> /\ IsFeeRow(w, i, s)'
  BY InFeeRows
<1>4. \A x \in FeeRows(s)' : x \in FeeRows(s)
  <2>1. ASSUME NEW w \in Wallets, NEW i \in 1..Len(ledger'[w]), IsFeeRow(w, i, s)'
        PROVE  i \in 1..Len(ledger[w]) /\ IsFeeRow(w, i, s)
    <3>1. i <= Len(ledger[w])
      BY <1>1, <2>1 DEF NoNewFeeRow
    <3>2. i \in 1..Len(ledger[w])
      BY <1>1, <3>1
    <3> QED BY <1>2, <2>1, <3>2 DEF IsFeeRow
  <2> QED BY <1>3, <2>1, InFeeRows
<1>5. \A x \in FeeRows(s) : x \in FeeRows(s)'
  <2>1. ASSUME NEW w \in Wallets, NEW i \in 1..Len(ledger[w]), IsFeeRow(w, i, s)
        PROVE  i \in 1..Len(ledger'[w]) /\ IsFeeRow(w, i, s)'
    BY <1>2, <2>1 DEF IsFeeRow
  <2> QED BY <1>3, <2>1, InFeeRows
<1>6. FeeRows(s)' = FeeRows(s)
  BY <1>4, <1>5
<1>7. ASSUME ChargedInFull(s) PROVE ChargedInFull(s)'
  <2>1. PICK p \in PlatformIds :
         \E i \in 1..Len(ledger[job[s].w]), k \in 1..Len(ledger[p]) :
            /\ FeeRows(s) = {<<job[s].w, i>>, <<p, k>>}
            /\ ledger[job[s].w][i].amount = -job[s].amount
            /\ ledger[p][k].amount = job[s].fee
    BY <1>7 DEF ChargedInFull
  <2>2. p \in Wallets
    BY DEF Wallets
  <2>3. PICK i \in 1..Len(ledger[job[s].w]), k \in 1..Len(ledger[p]) :
            /\ FeeRows(s) = {<<job[s].w, i>>, <<p, k>>}
            /\ ledger[job[s].w][i].amount = -job[s].amount
            /\ ledger[p][k].amount = job[s].fee
    BY <2>1
  <2>4. /\ i \in 1..Len(ledger'[job[s].w]) /\ ledger'[job[s].w][i] = ledger[job[s].w][i]
        /\ k \in 1..Len(ledger'[p]) /\ ledger'[p][k] = ledger[p][k]
    BY <1>2, <2>2
  <2> QED BY <1>6, <2>3, <2>4 DEF ChargedInFull
<1> QED BY <1>6, <1>7

(* One wallet takes one more row.                                          *)
LEMMA OneMoreRow ==
    ASSUME NEW S, NEW rows \in Seq(S), NEW e \in S
    PROVE  /\ Len(Append(rows, e)) = Len(rows) + 1 /\ Len(rows) \in Nat
           /\ Append(rows, e)[Len(rows) + 1] = e
           /\ \A i \in 1..Len(rows) : Append(rows, e)[i] = rows[i]
           /\ \A i \in 1..Len(Append(rows, e)) : i > Len(rows) => i = Len(rows) + 1
  OBVIOUS

LEMMA EntrySound ==
    ASSUME NEW kind \in Ledger!Kinds, NEW amount \in Int, NEW new \in 0..MaxInt,
           NEW r \in Requests
    PROVE  /\ Entry(kind, amount, new, r) \in Ledger!Rows
           /\ Entry(kind, amount, new, r).kind = kind
           /\ Entry(kind, amount, new, r).amount = amount
           /\ Entry(kind, amount, new, r).ref = r
  BY DEF Entry, Ledger!Rows

(* A committed fee is two rows of its request and none of any other.       *)
LEMMA CommitFeeRows ==
    ASSUME IInv, Ledger!LedgerSound, NEW r \in Requests, CommitFee(r),
           FeeRows(r) = {}
    PROVE  /\ ChargedInFull(r)'
           /\ \A s \in Requests : s # r => NoNewFeeRow(s)
<1>1. PICK o, p, total, fee, newOrg, newPlat :
         /\ o = job[r].w /\ p = seen[r].to /\ total = job[r].amount /\ fee = job[r].fee
         /\ newOrg = balance[o] - total /\ newPlat = balance[p] + fee
  OBVIOUS
<1>2. /\ o \in Orgs /\ p \in Platforms /\ o # p
      /\ total \in Amounts /\ fee \in Amounts \cup {0}
      /\ seen[r].own = balance[o] /\ seen[r].plat = balance[p]
      /\ newOrg \in 0..MaxInt /\ newPlat \in 0..MaxInt
      /\ job[r].w = o
  BY <1>1, CommitFeeFacts
<1>3. o \in Wallets /\ p \in Wallets /\ p \in PlatformIds
  BY <1>2 DEF Wallets, Platforms
<1>4. PICK ro, rp : /\ ro = Entry("transaction_fee", -total, newOrg, r)
                    /\ rp = Entry("platform_fee", fee, newPlat, r)
  OBVIOUS
<1>5. ledger' = [ledger EXCEPT ![o] = Append(ledger[o], ro), ![p] = Append(ledger[p], rp)]
  BY <1>1, <1>2, <1>4 DEF CommitFee, Write, PlatformRow
<1>6. /\ ro \in Ledger!Rows /\ ro.kind = "transaction_fee" /\ ro.amount = -total /\ ro.ref = r
      /\ rp \in Ledger!Rows /\ rp.kind = "platform_fee" /\ rp.amount = fee /\ rp.ref = r
  <2>1. "transaction_fee" \in Ledger!Kinds /\ "platform_fee" \in Ledger!Kinds
    BY DEF Ledger!Kinds
  <2>2. total \in Nat /\ fee \in Nat
    BY <1>2, AmountFacts
  <2>3. PICK owed \in Int : owed = -total
    BY <2>2
  <2>4. /\ ro \in Ledger!Rows /\ ro.kind = "transaction_fee"
        /\ ro.amount = owed /\ ro.ref = r
    BY <1>2, <1>4, <2>1, <2>3, EntrySound
  <2>5. /\ rp \in Ledger!Rows /\ rp.kind = "platform_fee"
        /\ rp.amount = fee /\ rp.ref = r
    BY <1>2, <1>4, <2>1, <2>2, EntrySound
  <2> QED BY <2>3, <2>4, <2>5
<1>7. /\ ledger \in [Wallets -> Seq(Ledger!Rows)]
      /\ ledger[o] \in Seq(Ledger!Rows) /\ ledger[p] \in Seq(Ledger!Rows)
  BY <1>3 DEF Ledger!LedgerSound, Ledger!Wallets, Wallets
<1>8. /\ ledger'[o] = Append(ledger[o], ro) /\ ledger'[p] = Append(ledger[p], rp)
      /\ \A w \in Wallets : w # o /\ w # p => ledger'[w] = ledger[w]
  BY <1>2, <1>3, <1>5, <1>7
<1>9. PICK m, n : m = Len(ledger[o]) + 1 /\ n = Len(ledger[p]) + 1
  OBVIOUS
<1>10. /\ Len(ledger'[o]) = m /\ ledger'[o][m] = ro /\ Len(ledger[o]) \in Nat
       /\ \A i \in 1..Len(ledger[o]) : ledger'[o][i] = ledger[o][i]
       /\ \A i \in 1..Len(ledger'[o]) : i > Len(ledger[o]) => i = m
  BY <1>6, <1>7, <1>8, <1>9, OneMoreRow
<1>11. /\ Len(ledger'[p]) = n /\ ledger'[p][n] = rp /\ Len(ledger[p]) \in Nat
       /\ \A i \in 1..Len(ledger[p]) : ledger'[p][i] = ledger[p][i]
       /\ \A i \in 1..Len(ledger'[p]) : i > Len(ledger[p]) => i = n
  BY <1>6, <1>7, <1>8, <1>9, OneMoreRow
<1>12. m \in 1..Len(ledger'[o]) /\ n \in 1..Len(ledger'[p])
  BY <1>9, <1>10, <1>11
<1>13. IsFeeRow(o, m, r)' /\ IsFeeRow(p, n, r)'
  BY <1>6, <1>10, <1>11 DEF IsFeeRow, FeeKinds
<1>14. ASSUME NEW w \in Wallets, NEW i \in 1..Len(ledger'[w]), IsFeeRow(w, i, r)'
       PROVE  <<w, i>> \in {<<o, m>>, <<p, n>>}
  <2>1. ~(i \in 1..Len(ledger[w]) /\ ledger'[w][i] = ledger[w][i])
    <3>1. SUFFICES ASSUME i \in 1..Len(ledger[w]), ledger'[w][i] = ledger[w][i]
                   PROVE  FALSE
      OBVIOUS
    <3>2. IsFeeRow(w, i, r)
      BY <1>14, <3>1 DEF IsFeeRow
    <3>3. <<w, i>> \in FeeRows(r)
      BY <3>1, <3>2, InFeeRows
    <3> QED BY <3>3
  <2>2. CASE w = o
    <3>1. i > Len(ledger[o])
      BY <1>10, <2>1, <2>2
    <3> QED BY <1>10, <2>2, <3>1
  <2>3. CASE w = p
    <3>1. i > Len(ledger[p])
      BY <1>11, <2>1, <2>3
    <3> QED BY <1>11, <2>3, <3>1
  <2>4. CASE w # o /\ w # p
    <3>1. ledger'[w] = ledger[w]
      BY <1>8, <2>4
    <3> QED BY <2>1, <3>1
  <2> QED BY <2>2, <2>3, <2>4
<1>15. FeeRows(r)' = {<<o, m>>, <<p, n>>}
  <2>1. \A x : x \in FeeRows(r)' <=>
           \E w \in Wallets : \E i \in 1..Len(ledger'[w]) :
              x = <<w, i>> /\ IsFeeRow(w, i, r)'
    BY InFeeRows
  <2>2. <<o, m>> \in FeeRows(r)' /\ <<p, n>> \in FeeRows(r)'
    BY <1>3, <1>12, <1>13, <2>1
  <2>3. \A x \in FeeRows(r)' : x \in {<<o, m>>, <<p, n>>}
    BY <1>14, <2>1
  <2> QED BY <2>2, <2>3
<1>16. ChargedInFull(r)'
  <2>1. job' = job
    BY DEF CommitFee, Leave
  <2>2. ledger'[o][m].amount = -total /\ ledger'[p][n].amount = fee
    BY <1>6, <1>10, <1>11
  <2> QED BY <1>1, <1>3, <1>12, <1>15, <2>1, <2>2 DEF ChargedInFull
<1>17. ASSUME NEW s \in Requests, s # r PROVE NoNewFeeRow(s)
  <2>1. ~(IsFeeRow(o, m, s)') /\ ~(IsFeeRow(p, n, s)')
    BY <1>6, <1>10, <1>11, <1>17 DEF IsFeeRow
  <2>2. \A w \in Wallets : Len(ledger[w]) \in Nat
    BY <1>7
  <2>3. ASSUME NEW w \in Wallets
        PROVE  /\ Len(ledger[w]) <= Len(ledger'[w])
               /\ \A i \in 1..Len(ledger[w]) : ledger'[w][i] = ledger[w][i]
               /\ \A i \in 1..Len(ledger'[w]) :
                     i > Len(ledger[w]) => ~(IsFeeRow(w, i, s)')
    <3>1. CASE w = o
      <4>1. Len(ledger[o]) <= Len(ledger'[o])
        BY <1>9, <1>10
      <4> QED BY <1>10, <2>1, <3>1, <4>1
    <3>2. CASE w = p
      <4>1. Len(ledger[p]) <= Len(ledger'[p])
        BY <1>9, <1>11
      <4> QED BY <1>11, <2>1, <3>2, <4>1
    <3>3. CASE w # o /\ w # p
      <4>1. ledger'[w] = ledger[w]
        BY <1>8, <3>3
      <4> QED BY <2>2, <4>1
    <3> QED BY <3>1, <3>2, <3>3
  <2> QED BY <2>3 DEF NoNewFeeRow
<1> QED BY <1>16, <1>17

(* A top-up or a withdrawal writes no fee row.                             *)
LEMMA CommitMoveRows ==
    ASSUME IInv, Ledger!LedgerSound, NEW r \in Requests, CommitMove(r),
           NEW s \in Requests
    PROVE  NoNewFeeRow(s)
<1>1. PICK w, kind : w = job[r].w /\ kind = job[r].op
  OBVIOUS
<1>2. PICK a \in Int :
          /\ w \in open
          /\ balance[w] + a \in 0..MaxInt
          /\ ledger' = [ledger EXCEPT ![w] = Write(w, kind, a, balance[w] + a, r)]
  BY <1>1, CommitMoveFacts
<1>3. w \in Wallets /\ kind \in {"topup", "withdrawal"}
  BY <1>1, JobFacts DEF CommitMove, IInv, Types
<1>4. PICK row, new : new = balance[w] + a /\ row = Entry(kind, a, new, r)
  OBVIOUS
<1>5. ledger' = [ledger EXCEPT ![w] = Append(ledger[w], row)]
  BY <1>2, <1>4 DEF Write
<1>6. row \in Ledger!Rows /\ row.kind = kind
  <2>1. kind \in Ledger!Kinds
    BY <1>3 DEF Ledger!Kinds
  <2> QED BY <1>2, <1>4, <2>1, EntrySound
<1>7. ledger \in [Wallets -> Seq(Ledger!Rows)] /\ ledger[w] \in Seq(Ledger!Rows)
  BY <1>3 DEF Ledger!LedgerSound, Ledger!Wallets, Wallets
<1>8. /\ ledger'[w] = Append(ledger[w], row)
      /\ \A v \in Wallets : v # w => ledger'[v] = ledger[v]
  BY <1>3, <1>5, <1>7
<1>9. PICK m : m = Len(ledger[w]) + 1
  OBVIOUS
<1>10. /\ Len(ledger'[w]) = m /\ ledger'[w][m] = row /\ Len(ledger[w]) \in Nat
       /\ \A i \in 1..Len(ledger[w]) : ledger'[w][i] = ledger[w][i]
       /\ \A i \in 1..Len(ledger'[w]) : i > Len(ledger[w]) => i = m
  BY <1>6, <1>7, <1>8, <1>9, OneMoreRow
<1>11. ~(IsFeeRow(w, m, s)') /\ Len(ledger[w]) <= Len(ledger'[w])
  BY <1>3, <1>6, <1>9, <1>10 DEF IsFeeRow, FeeKinds
<1>12. \A v \in Wallets : Len(ledger[v]) \in Nat
  BY <1>7
<1>13. ASSUME NEW v \in Wallets
       PROVE  /\ Len(ledger[v]) <= Len(ledger'[v])
              /\ \A i \in 1..Len(ledger[v]) : ledger'[v][i] = ledger[v][i]
              /\ \A i \in 1..Len(ledger'[v]) :
                    i > Len(ledger[v]) => ~(IsFeeRow(v, i, s)')
  <2>1. CASE v = w
    BY <1>10, <1>11, <2>1
  <2>2. CASE v # w
    <3>1. ledger'[v] = ledger[v]
      BY <1>8, <2>2
    <3> QED BY <1>12, <3>1
  <2> QED BY <2>1, <2>2
<1> QED BY <1>13 DEF NoNewFeeRow

LEMMA SameLedger ==
    ASSUME Ledger!LedgerSound, ledger' = ledger, NEW s \in Requests
    PROVE  NoNewFeeRow(s)
<1>1. \A v \in Wallets : Len(ledger[v]) \in Nat
  BY DEF Ledger!LedgerSound, Ledger!Wallets, Wallets
<1> QED BY <1>1 DEF NoNewFeeRow

(* What a request's caller is told and what its ledger rows say.           *)
FeeWhole(r) ==
    /\ FeeRows(r) = {} \/ ChargedInFull(r)
    /\ pc[r] = "ok" /\ job[r].op = "fee" => ChargedInFull(r)
    /\ pc[r] \notin {"ok", "failed"} => FeeRows(r) = {}

(* A request whose rows stay as they are is told nothing new, or that it   *)
(* failed, or something that is no success of a fee while it has no row.   *)
LEMMA FeeWholeStays ==
    ASSUME IInv, Ledger!LedgerSound, Ledger!LedgerSound', NEW s \in Requests,
           job' = job, NoNewFeeRow(s), FeeWhole(s),
           \/ pc'[s] = pc[s]
           \/ pc'[s] = "failed"
           \/ pc[s] \notin {"ok", "failed"} /\ (pc'[s] = "ok" => job[s].op # "fee")
    PROVE  FeeWhole(s)'
<1>1. job[s].w \in Wallets
  BY JobFacts DEF IInv, Types
<1>2. /\ FeeRows(s)' = FeeRows(s)
      /\ ChargedInFull(s) => ChargedInFull(s)'
  BY <1>1, FeeStays
<1> QED BY <1>2 DEF FeeWhole

LEMMA FeeStep ==
    ASSUME IInv, Ledger!LedgerSound, \A s \in Requests : FeeWhole(s), [Next]_vars
    PROVE  \A s \in Requests : FeeWhole(s)'
<1>1. Ledger!LedgerSound'
  BY StepRefines, StepSound
<1>2. job' = job
  BY DEF Next, Step, Finished, StatementFails, Crash, Connect, ConnectTimeout,
     LockOrg, MissingOrg, LockPlatform, MissingPlatform, LockWallet, MissingWallet,
     CommitFee, CommitMove, Insufficient, Overflow, FindBureau, InsertBureau,
     FindPlatform, FindLockedPlatform, AwaitPlatform, InsertPlatform, Opened,
     Abort, Leave, vars
<1>3. pc \in [Requests -> Places] /\ \A r \in Requests : job[r].op \in
         {"fee", "topup", "withdrawal", "bureau", "platform"}
  BY JobFacts DEF IInv, Types
<1>4. ASSUME NEW r \in Requests, CommitFee(r)
      PROVE  \A s \in Requests : FeeWhole(s)'
  <2>1. pc[r] = "decide" /\ \E answer \in {"ok", "failed"} : pc' = [pc EXCEPT ![r] = answer]
    BY <1>4 DEF CommitFee, Leave
  <2>2. FeeRows(r) = {}
    BY <2>1 DEF FeeWhole
  <2>3. ChargedInFull(r)' /\ \A s \in Requests : s # r => NoNewFeeRow(s)
    BY <1>4, <2>2, CommitFeeRows
  <2>4. pc'[r] \in {"ok", "failed"} /\ \A s \in Requests : s # r => pc'[s] = pc[s]
    BY <1>3, <2>1
  <2>5. FeeWhole(r)'
    BY <2>3, <2>4 DEF FeeWhole
  <2>6. ASSUME NEW s \in Requests, s # r PROVE FeeWhole(s)'
    BY <1>1, <1>2, <2>3, <2>4, <2>6, FeeWholeStays
  <2> QED BY <2>5, <2>6
<1>5. ASSUME NEW r \in Requests, NEW place, pc' = [pc EXCEPT ![r] = place],
             pc[r] \notin {"ok", "failed"},
             place = "ok" => job[r].op # "fee",
             \A s \in Requests : NoNewFeeRow(s)
      PROVE  \A s \in Requests : FeeWhole(s)'
  <2>1. ASSUME NEW s \in Requests PROVE FeeWhole(s)'
    <3>1. \/ pc'[s] = pc[s]
          \/ pc[s] \notin {"ok", "failed"} /\ (pc'[s] = "ok" => job[s].op # "fee")
      BY <1>3, <1>5
    <3> QED BY <1>1, <1>2, <1>5, <3>1, FeeWholeStays
  <2> QED BY <2>1
<1>6. ASSUME NEW r \in Requests, CommitMove(r)
      PROVE  \A s \in Requests : FeeWhole(s)'
  <2>1. \A s \in Requests : NoNewFeeRow(s)
    BY <1>6, CommitMoveRows
  <2>2. pc[r] = "decide" /\ job[r].op # "fee"
    BY <1>6 DEF CommitMove
  <2>3. \E answer : pc' = [pc EXCEPT ![r] = answer]
    BY <1>6 DEF CommitMove, Leave
  <2> QED BY <1>5, <2>1, <2>2, <2>3
<1>7. ASSUME NEW r \in Requests, Step(r) \/ StatementFails(r),
             ~CommitFee(r), ~CommitMove(r)
      PROVE  /\ ledger' = ledger
             /\ pc[r] \notin {"ok", "failed"}
             /\ \E place : /\ pc' = [pc EXCEPT ![r] = place]
                           /\ place = "ok" => job[r].op # "fee"
  <2>1. ledger' = ledger
    BY <1>7 DEF Step, StatementFails, Connect, ConnectTimeout,
       LockOrg, MissingOrg, LockPlatform, MissingPlatform, LockWallet, MissingWallet,
       Insufficient, Overflow, FindBureau, InsertBureau, FindPlatform,
       FindLockedPlatform, AwaitPlatform, InsertPlatform, Opened, Abort
  <2>2. pc[r] \notin {"ok", "failed"}
    BY <1>7 DEF Step, StatementFails, Connect, ConnectTimeout, Connecting, InTransaction,
       LockOrg, MissingOrg, LockPlatform, MissingPlatform, LockWallet, MissingWallet,
       Insufficient, Overflow, FindBureau, InsertBureau, FindPlatform,
       FindLockedPlatform, AwaitPlatform, InsertPlatform
  <2>3. CASE Connect(r)
    <3>1. AfterConnect(r) # "ok"
      BY <1>3, <2>3 DEF Connect, Connecting, AfterConnect, FirstPlace
    <3> QED BY <2>1, <2>2, <2>3, <3>1 DEF Connect, Goto
  <2>4. CASE \/ FindBureau(r) \/ InsertBureau(r) \/ FindPlatform(r)
             \/ FindLockedPlatform(r) \/ AwaitPlatform(r) \/ InsertPlatform(r)
    <3>1. AnswerOfOpening(r) = "ok" => job[r].op # "fee"
      BY DEF AnswerOfOpening
    <3>2. \E place \in {"failed", AnswerOfOpening(r), "insertBureau", "insertPlatform",
                         "awaitPlatform"} :
             pc' = [pc EXCEPT ![r] = place]
      BY <2>4 DEF FindBureau, InsertBureau, FindPlatform, FindLockedPlatform,
         AwaitPlatform, InsertPlatform, Opened, Abort, Leave, Goto
    <3> QED BY <2>1, <2>2, <3>1, <3>2
  <2>5. CASE ConnectTimeout(r) \/ MissingWallet(r) \/ Insufficient(r) \/ Overflow(r)
             \/ StatementFails(r)
    <3>1. \E place \in {"failed", "insufficient"} : pc' = [pc EXCEPT ![r] = place]
      BY <2>5 DEF ConnectTimeout, MissingWallet, Insufficient, Overflow,
         StatementFails, Abort, Leave
    <3> QED BY <2>1, <2>2, <3>1
  <2>6. CASE LockOrg(r) \/ MissingOrg(r) \/ LockPlatform(r) \/ MissingPlatform(r)
             \/ LockWallet(r)
    <3>1. \E place \in {"lockPlatform", "connectBureau", "decide", "connectPlatform"} :
             pc' = [pc EXCEPT ![r] = place]
      BY <2>6 DEF LockOrg, MissingOrg, LockPlatform, MissingPlatform, LockWallet, Goto
    <3> QED BY <2>1, <2>2, <3>1
  <2> QED BY <1>7, <2>3, <2>4, <2>5, <2>6 DEF Step
<1>8. CASE Crash \/ UNCHANGED vars
  <2>1. ledger' = ledger
    BY <1>8 DEF Crash, vars
  <2>2. ASSUME NEW s \in Requests PROVE FeeWhole(s)'
    <3>1. pc'[s] = pc[s] \/ pc'[s] = "failed"
      BY <1>8 DEF Crash, vars
    <3>2. NoNewFeeRow(s)
      BY <2>1, SameLedger
    <3> QED BY <1>1, <1>2, <3>1, <3>2, FeeWholeStays
  <2> QED BY <2>2
<1>9. ASSUME NEW r \in Requests, Step(r) \/ StatementFails(r),
             ~CommitFee(r), ~CommitMove(r)
      PROVE  \A s \in Requests : FeeWhole(s)'
  <2>1. \A s \in Requests : NoNewFeeRow(s)
    BY <1>7, <1>9, SameLedger
  <2> QED BY <1>5, <1>7, <1>9, <2>1
<1> QED BY <1>4, <1>6, <1>8, <1>9 DEF Next, Finished

LEMMA FeeInit == Init => \A s \in Requests : FeeWhole(s)
<1> SUFFICES ASSUME Init, NEW s \in Requests PROVE FeeWhole(s)
  OBVIOUS
<1>1. FeeRows(s) = {}
  <2>1. SUFFICES ASSUME NEW w \in Wallets, NEW i \in 1..Len(ledger[w]), IsFeeRow(w, i, s)
                 PROVE  FALSE
    BY InFeeRows
  <2>2. PICK row : row = Ledger!OpeningRow(w, balance[w])
    OBVIOUS
  <2>3. ledger[w] = <<>> \/ ledger[w] = <<row>>
    BY <2>2 DEF Init, Ledger!LedgerInit, Ledger!Wallets, Wallets
  <2>4. row.kind = "topup"
    BY <2>2 DEF Ledger!OpeningRow, Ledger!Entry
  <2>5. ledger[w] = <<row>> /\ i = 1
    <3>1. Len(<<>>) = 0 /\ Len(<<row>>) = 1
      OBVIOUS
    <3>2. ledger[w] # <<>>
      BY <2>1, <3>1
    <3>3. ledger[w] = <<row>>
      BY <2>3, <3>2
    <3>4. Len(ledger[w]) = 1
      BY <3>1, <3>3
    <3> QED BY <3>3, <3>4
  <2> QED BY <2>1, <2>4, <2>5 DEF IsFeeRow, FeeKinds
<1> QED BY <1>1 DEF Init, FeeWhole

(* A fee is charged once and in full or not at all, and the caller of      *)
(* processTransactionFee is told a success only of a charge that took      *)
(* place, for any requests, lost answers, crashes and exhausted pools.     *)
THEOREM FeesAreCharged == Spec => []FeesAreWhole
<1>1. (\A s \in Requests : FeeWhole(s)) => FeesAreWhole
  BY DEF FeeWhole, FeesAreWhole
<1>2. /\ IInv /\ Ledger!LedgerSound /\ (\A s \in Requests : FeeWhole(s)) /\ [Next]_vars
      => (\A s \in Requests : FeeWhole(s))'
  BY FeeStep
<1> QED BY <1>1, <1>2, FeeInit, LocksAreKept, WalletsAreSound, PTL DEF Spec
=============================================================================
