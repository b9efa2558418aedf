------------------------------- MODULE Ledger -------------------------------
(***************************************************************************)
(* What the wallet service promises, with no handlers, locks or sessions:  *)
(* a double-entry ledger whose postings happen one at a time.              *)
(*                                                                         *)
(* Opening a wallet is a posting too (the genesis grant).  Only the        *)
(* treasury may be overdrawn, and a transaction id is posted at most once. *)
(* Wallet.tla is the detailed specification that implements this one.      *)
(***************************************************************************)
EXTENDS Integers

CONSTANTS
    Users,          \* user ids that may own a wallet
    Treasury,       \* SYSTEM_USER_ID, the source of all ISL
    Escrow,         \* ESCROW_USER_ID, the credit side of withdrawals
    GenesisAmount,  \* ISL granted to a new wallet
    TxIds,          \* transaction ids
    Amounts         \* amounts a transaction may move

Accounts == Users \cup {Treasury, Escrow}

TxTypes == {"genesis", "transfer", "admin_adjustment", "withdrawal"}

Entries == [tx: TxIds, acct: Accounts, amt: Int, type: TxTypes]

VARIABLES
    wallets,        \* accounts that have a wallet row
    balance,        \* the materialized balance of every account
    ledger          \* the rows of ledger_entries

ledgerVars == <<wallets, balance, ledger>>

\* The two rows of a transaction: a debit and a credit of the same amount.
Posting(tx, from, to, amount, type) ==
    { [tx |-> tx, acct |-> from, amt |-> -amount, type |-> type],
      [tx |-> tx, acct |-> to,   amt |->  amount, type |-> type] }

Posted(tx) == \E e \in ledger : e.tx = tx

Init ==
    /\ wallets = {Treasury, Escrow}
    /\ balance = [a \in Accounts |-> 0]
    /\ ledger = {}

\* One transaction: both balances move, and two rows say by how much.
Post(from, to, amount, types) ==
    /\ from # to
    /\ balance' = [balance EXCEPT ![from] = @ - amount, ![to] = @ + amount]
    /\ \E tx \in TxIds, type \in types :
        /\ ~Posted(tx)
        /\ ledger' = ledger \cup Posting(tx, from, to, amount, type)

Open(u) ==
    /\ u \notin wallets
    /\ wallets' = wallets \cup {u}
    /\ Post(Treasury, u, GenesisAmount, {"genesis"})

Move ==
    /\ \E from, to \in wallets, amount \in Amounts :
        /\ from = Treasury \/ balance[from] >= amount
        /\ Post(from, to, amount, TxTypes \ {"genesis"})
    /\ UNCHANGED wallets

Next == (\E u \in Users : Open(u)) \/ Move

Spec == Init /\ [][Next]_ledgerVars
=============================================================================
