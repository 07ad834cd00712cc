---------------------------- MODULE AtomicLedger ----------------------------
(***************************************************************************)
(* What the prepaid wallets promise, with no transaction, lock or          *)
(* connection in sight: every movement of money happens in one step, on    *)
(* the balances of that moment, together with the ledger rows that         *)
(* describe it.  WalletEngine is shown to implement this module, and       *)
(* UsageBilling uses it for the money side of metering.                    *)
(***************************************************************************)
EXTENDS Integers, Sequences

CONSTANTS
    Orgs,          \* organizations, each naming its own bureau wallet
    PlatformIds,   \* names a platform wallet row can get
    Refs,          \* what a ledger row can be attributed to
    Amounts,       \* amounts of money a request can name, in cents
    MaxInt         \* largest value of an int4 column

VARIABLES
    open,          \* wallets that have a row
    balance,       \* balance_cents of each wallet, 0 when it has no row
    ledger         \* wallet_transactions of each wallet, oldest first

ledgerVars == <<open, balance, ledger>>

Wallets == Orgs \cup PlatformIds

Kinds == {"topup", "withdrawal", "transaction_fee", "platform_fee"}

Entry(kind, amount, after, ref) ==
    [kind |-> kind, amount |-> amount, after |-> after, ref |-> ref]

(* One row: the balance and the row that explains it change together.      *)
Posted(w, kind, amount, ref) ==
    Append(ledger[w], Entry(kind, amount, balance[w] + amount, ref))

Open(w) ==
    /\ w \in Wallets \ open
    /\ open' = open \cup {w}
    /\ UNCHANGED <<balance, ledger>>

(* A top-up (amount > 0) or a withdrawal (amount < 0).                     *)
Move(w, kind, amount, ref) ==
    /\ w \in open
    /\ balance[w] + amount \in 0..MaxInt
    /\ balance' = [balance EXCEPT ![w] = @ + amount]
    /\ ledger' = [ledger EXCEPT ![w] = Posted(w, kind, amount, ref)]
    /\ UNCHANGED open

(* The organization pays the whole charge, a platform wallet gets its cut. *)
Charge(o, p, total, fee, ref) ==
    /\ o \in open \cap Orgs
    /\ p \in open \cap PlatformIds
    /\ total <= balance[o]
    /\ balance[p] + fee <= MaxInt
    /\ balance' = [balance EXCEPT ![o] = @ - total, ![p] = @ + fee]
    /\ ledger' = [ledger EXCEPT
                    ![o] = Posted(o, "transaction_fee", -total, ref),
                    ![p] = Posted(p, "platform_fee", fee, ref)]
    /\ UNCHANGED open

-----------------------------------------------------------------------------
OpeningRow(w, amount) == Entry("topup", amount, amount, w)

(* The database the process boots over: some wallets exist, and bureau     *)
(* wallets may already have been topped up.                                *)
LedgerInit ==
    /\ open \in SUBSET Wallets
    /\ balance \in [Wallets -> Amounts \cup {0}]
    /\ \A w \in Wallets : balance[w] > 0 => w \in open \cap Orgs
    /\ ledger = [w \in Wallets |->
                    IF balance[w] = 0 THEN <<>>
                                      ELSE <<OpeningRow(w, balance[w])>>]

LedgerNext ==
    \/ \E w \in Wallets : Open(w)
    \/ \E w \in Wallets, a \in Amounts, r \in Refs :
          \/ Move(w, "topup", a, r)
          \/ Move(w, "withdrawal", -a, r)
    \/ \E o \in Orgs, p \in PlatformIds, r \in Refs :
          \E total \in Amounts, fee \in Amounts \cup {0} :
             fee <= total /\ Charge(o, p, total, fee, r)

LedgerSpec == LedgerInit /\ [][LedgerNext]_ledgerVars

-----------------------------------------------------------------------------
Before(rows, i) == IF i = 1 THEN 0 ELSE rows[i - 1].after

(* Rows explain a balance: every row starts from what the row before it    *)
(* left, and the last one leaves that balance.                             *)
Explains(rows, bal) ==
    /\ rows = <<>> => bal = 0
    /\ rows # <<>> => bal = rows[Len(rows)].after
    /\ \A i \in 1..Len(rows) :
          rows[i].after = Before(rows, i) + rows[i].amount

LedgerExplains(w) == Explains(ledger[w], balance[w])

Rows == [kind : Kinds, amount : Int, after : 0..MaxInt, ref : Refs \cup Wallets]

(* The ledger of every wallet explains its balance, and no wallet is or    *)
(* ever was below zero or beyond its column.                               *)
LedgerSound ==
    /\ open \subseteq Wallets
    /\ balance \in [Wallets -> 0..MaxInt]
    /\ ledger \in [Wallets -> Seq(Rows)]
    /\ \A w \in Wallets : LedgerExplains(w)
=============================================================================
