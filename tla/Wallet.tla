------------------------------- MODULE Wallet -------------------------------
(***************************************************************************)
(* The wallet service (services/wallet/main.py): the four request handlers *)
(* that write the ISL ledger, run concurrently by any number of server     *)
(* processes against one PostgreSQL database (READ COMMITTED).             *)
(*                                                                         *)
(*   "genesis"   POST /wallets/{user}        create_wallet                 *)
(*   "transfer"  POST /transactions/transfer transfer                      *)
(*   "adjust"    POST /admin/adjustments     admin_adjust                  *)
(*   "withdraw"  POST /withdrawals           create_withdrawal             *)
(*                                                                         *)
(* A handler is one process walking through                                *)
(*   lookup -> locking -> check -> (relookup |) publish -> idle            *)
(* where each step is what happens between two awaits that other           *)
(* processes can observe: the replay lookup, one row lock, the commit, the *)
(* replay lookup after a rollback, and the publication after the commit.   *)
(* A server process may die at any point; PostgreSQL then rolls back.      *)
(***************************************************************************)
EXTENDS Integers, FiniteSetsExt

CONSTANTS
    Users, Treasury, Escrow,
    Keys, NoKey,      \* idempotency keys, and the request without one
    Amounts,          \* amounts a request or the genesis grant moves
    GenesisAmount,    \* GENESIS_AMOUNT
    MinWithdrawal,    \* settings.solana_min_withdrawal
    SupplyCap,        \* settings.solana_max_supply, 0 when there is none
    Rank,             \* the order of the wallet ids
    Requests,         \* the requests that clients send
    Procs, NoProc,    \* request handlers, and nobody
    MaxRequests       \* bound: number of requests received in all

Accounts == Users \cup {Treasury, Escrow}

Kinds == {"genesis", "transfer", "adjust", "withdraw"}

\* from is debited and to is credited: the treasury is `from' of a genesis and
\* of an adjustment in the direction "credit", `to' of one in the direction
\* "debit"; the escrow is `to' of a withdrawal.
RequestShape == [kind : Kinds, from : Accounts, to : Accounts,
                 amount : Amounts, key : Keys \cup {NoKey}]

WellFormed(r) ==
    /\ r.kind = "genesis" => /\ r.from = Treasury
                             /\ r.to \in Users
                             /\ r.amount = GenesisAmount
                             /\ r.key = NoKey
    /\ r.kind = "adjust" => \/ r.from = Treasury /\ r.to \in Users
                            \/ r.from \in Users /\ r.to = Treasury
    /\ r.kind = "withdraw" => r.to = Escrow

ASSUME AccountsAssumption ==
    /\ Treasury \notin Users /\ Escrow \notin Users /\ Treasury # Escrow
ASSUME AmountsAssumption ==
    /\ Amounts \subseteq Nat \ {0} /\ GenesisAmount \in Amounts
    /\ MinWithdrawal \in Nat /\ SupplyCap \in Nat
ASSUME RankAssumption ==
    /\ Rank \in [Accounts -> Nat]
    /\ \A a, b \in Accounts : Rank[a] = Rank[b] => a = b
ASSUME RequestsAssumption ==
    /\ Requests \subseteq RequestShape
    /\ \A r \in Requests : WellFormed(r)
\* The callers of a transfer are users (tips, the stakes of a game): the code
\* would take the reserved wallets' ids, but nobody sends them.
ASSUME TransferAssumption ==
    \A r \in Requests : r.kind = "transfer" => r.from \in Users /\ r.to \in Users
ASSUME ProcsAssumption == NoProc \notin Procs
ASSUME KeysAssumption == NoKey \notin Keys
ASSUME MaxRequestsAssumption == MaxRequests \in Nat

TxIds == ({"key", "admin_adjust"} \X Accounts \X Keys)
         \cup ({"genesis"} \X {Treasury} \X Users)
         \cup ({"uuid4"} \X Accounts \X (0 .. MaxRequests))

NoTx == <<"none", NoProc, NoKey>>
NoReq == [kind |-> "none"]

VARIABLES
    wallets,      \* accounts that have a row in wallets
    balance,      \* wallets.balance, for every account
    ledger,       \* rows of ledger_entries
    withdrawals,  \* rows of withdrawals, as inserted with status "pending"
    mintStream,   \* ledger_tx_ids whose task was added to stream:solana_mints
    lock,         \* holder of the row lock of each wallet
    pc,           \* where each handler is
    req,          \* the request it serves
    tx,           \* the transaction id it derived
    snap,         \* the balances in its ORM objects
    received,     \* number of requests received
    answers       \* the responses sent

dbVars == <<wallets, balance, ledger, withdrawals>>
vars == <<wallets, balance, ledger, withdrawals, mintStream, lock, pc, req, tx,
          snap, received, answers>>

L == INSTANCE Ledger

-----------------------------------------------------------------------------
(* Helpers *)

\* tx_id of the n-th request: uuid5 of the debited (for a genesis and an
\* adjustment: the system) user and the key, or a fresh uuid4.
TxIdOf(r, n) ==
    CASE r.kind = "genesis" -> <<"genesis", Treasury, r.to>>
      [] r.kind = "adjust" /\ r.key # NoKey ->
                                       <<"admin_adjust", Treasury, r.key>>
      [] r.kind \in {"transfer", "withdraw"} /\ r.key # NoKey ->
                                       <<"key", r.from, r.key>>
      [] OTHER -> <<"uuid4", r.from, n>>

TypeOf(r) ==
    CASE r.kind = "genesis"  -> "genesis"
      [] r.kind = "transfer" -> "transfer"
      [] r.kind = "adjust"   -> "admin_adjustment"
      [] r.kind = "withdraw" -> "withdrawal"

\* The user whose wallet an adjustment is about.
Target(r) == IF r.from = Treasury THEN r.to ELSE r.from

PostingOf(r, t) == L!Posting(t, r.from, r.to, r.amount, TypeOf(r))

\* What the replay lookup of this kind of request finds under transaction t.
Found(r, t) ==
    IF r.kind = "withdraw" THEN \E w \in withdrawals : w.tx = t
    ELSE L!Posted(t)

\* Mutant of SameParameters: a key that was used is a replay.
MutantKeyOnly(r, t) == Found(r, t)

\* Whether what it found has the parameters of this request.
SameParameters(r, t) ==
    CASE r.kind = "withdraw" ->
            [tx |-> t, user |-> r.from, amount |-> r.amount] \in withdrawals
      [] r.kind = "adjust" ->
            \E e \in ledger :
                /\ e.tx = t /\ e.acct = Target(r) /\ e.type = TypeOf(r)
                /\ e.amt = IF r.to = Target(r) THEN r.amount ELSE -r.amount
      [] OTHER -> PostingOf(r, t) \subseteq ledger

\* Rows to lock, in the order of the wallet ids.
ToLock(r) == IF r.kind = "genesis" THEN {Treasury} ELSE {r.from, r.to}

Held(p) == {a \in Accounts : lock[a] = p}

\* Mutant of NextLock: the payer's row first.
MutantPayerFirst(p) ==
    IF req[p].from \notin Held(p) THEN req[p].from ELSE req[p].to

NextLock(p) ==
    CHOOSE a \in ToLock(req[p]) \ Held(p) :
        \A b \in ToLock(req[p]) \ Held(p) : Rank[a] <= Rank[b]

\* ck_wallets_balance_non_negative, on the value the UPDATE would write.
CheckNonNegative(a, value) == a = Treasury \/ value >= 0

\* The balance check of the handler, or failing it the database's.
Insufficient(p) ==
    LET r == req[p] IN
    \/ /\ \/ r.kind \in {"transfer", "withdraw"}
          \/ r.kind = "adjust" /\ r.from # Treasury
       /\ snap[p][r.from] < r.amount
    \/ ~CheckNonNegative(r.from, snap[p][r.from] - r.amount)

\* Mutant of OverCap: the cap is compared without this withdrawal.
MutantCapBefore(p) ==
    req[p].kind = "withdraw" /\ SupplyCap # 0 /\ snap[p][Escrow] > SupplyCap

OverCap(p) ==
    /\ req[p].kind = "withdraw"
    /\ SupplyCap # 0
    /\ snap[p][Escrow] + req[p].amount > SupplyCap

\* Mutant of UniqueViolation: ledger_entries without the constraint.
MutantNoConstraint(p) == req[p].from = req[p].to

\* uq_ledger_entries_tx_account, on the two rows about to be inserted.
UniqueViolation(p) ==
    \/ req[p].from = req[p].to
    \/ \E e \in ledger : e.tx = tx[p] /\ e.acct \in {req[p].from, req[p].to}

\* Mutant of Refreshed: the row lock leaves the ORM object as it was.
MutantNoRefresh(p, a) == snap

\* with_for_update reads the locked row into the ORM object.
Refreshed(p, a) == [snap EXCEPT ![p][a] = balance[a]]

NoSnap == [a \in Accounts |-> 0]

\* A handler leaves the session: its row locks are gone.
Unlock(p) == lock' = [a \in Accounts |-> IF lock[a] = p THEN NoProc ELSE lock[a]]

Idle(p) ==
    /\ pc' = [pc EXCEPT ![p] = "idle"]
    /\ req' = [req EXCEPT ![p] = NoReq]
    /\ tx' = [tx EXCEPT ![p] = NoTx]
    /\ snap' = [snap EXCEPT ![p] = NoSnap]

\* The response, and the end of the handler.
Answer(p, outcome) ==
    /\ answers' = answers \cup
            {[id |-> tx[p], req |-> req[p], outcome |-> outcome]}
    /\ Unlock(p)
    /\ Idle(p)

-----------------------------------------------------------------------------
(* Actions *)

Init ==
    /\ wallets = {Treasury, Escrow}
    /\ balance = [a \in Accounts |-> 0]
    /\ ledger = {}
    /\ withdrawals = {}
    /\ mintStream = {}
    /\ lock = [a \in Accounts |-> NoProc]
    /\ pc = [p \in Procs |-> "idle"]
    /\ req = [p \in Procs |-> NoReq]
    /\ tx = [p \in Procs |-> NoTx]
    /\ snap = [p \in Procs |-> NoSnap]
    /\ received = 0
    /\ answers = {}

\* A request arrives.  A client's retry is a request equal to an earlier one.
Receive(p) ==
    /\ pc[p] = "idle"
    /\ received < MaxRequests
    /\ \E r \in Requests :
        /\ req' = [req EXCEPT ![p] = r]
        /\ tx' = [tx EXCEPT ![p] = TxIdOf(r, received)]
    /\ received' = received + 1
    /\ pc' = [pc EXCEPT ![p] = "lookup"]
    /\ UNCHANGED <<dbVars, mintStream, lock, snap, answers>>

\* The wallets exist and the request is acceptable so far.
Acceptable(r) ==
    /\ r.from # r.to
    /\ r.from \in wallets
    /\ IF r.kind = "genesis" THEN r.to \notin wallets ELSE r.to \in wallets
    /\ r.kind = "withdraw" => r.amount >= MinWithdrawal

\* 400, 404 or 409 before anything is looked up or locked.
Refuse(p) ==
    /\ pc[p] = "lookup"
    /\ ~Acceptable(req[p])
    /\ Answer(p, "refused")
    /\ UNCHANGED <<dbVars, mintStream, received>>

\* The replay lookup found the transaction: the stored result, or 409.
Replay(p) ==
    /\ pc[p] = "lookup"
    /\ Acceptable(req[p])
    /\ req[p].key # NoKey
    /\ Found(req[p], tx[p])
    /\ Answer(p, IF SameParameters(req[p], tx[p]) THEN "replay" ELSE "conflict")
    /\ UNCHANGED <<dbVars, mintStream, received>>

\* Nothing to replay: go on with the wallets as the queries read them.
Proceed(p) ==
    /\ pc[p] = "lookup"
    /\ Acceptable(req[p])
    /\ req[p].key # NoKey => ~Found(req[p], tx[p])
    /\ snap' = [snap EXCEPT ![p] = balance]
    /\ pc' = [pc EXCEPT ![p] = "locking"]
    /\ UNCHANGED <<dbVars, mintStream, lock, req, tx, received, answers>>

\* SELECT ... FOR UPDATE of the next row; it reads the row it has locked.
Acquire(p) ==
    /\ pc[p] = "locking"
    /\ LET a == NextLock(p) IN
        /\ lock[a] = NoProc
        /\ lock' = [lock EXCEPT ![a] = p]
        /\ snap' = Refreshed(p, a)
        /\ pc' = [pc EXCEPT ![p] = IF ToLock(req[p]) = Held(p) \cup {a}
                                   THEN "check" ELSE "locking"]
    /\ UNCHANGED <<dbVars, mintStream, req, tx, received, answers>>

\* Under the locks: the wallet appeared meanwhile (a second genesis violates
\* the unique user id), the balance is short, or the supply cap is reached.
Reject(p) ==
    /\ pc[p] = "check"
    /\ \/ /\ req[p].kind = "genesis" /\ req[p].to \in wallets
          /\ Answer(p, "refused")
       \/ /\ req[p].kind # "genesis" /\ Insufficient(p)
          /\ Answer(p, "insufficient")
       \/ /\ ~Insufficient(p) /\ OverCap(p)
          /\ Answer(p, "over_cap")
    /\ UNCHANGED <<dbVars, mintStream, received>>

Passes(p) ==
    /\ req[p].kind = "genesis" => req[p].to \notin wallets
    /\ ~Insufficient(p)
    /\ ~OverCap(p)

\* The commit: two rows, two balances computed from the ORM objects, and the
\* withdrawal row; or nothing.
Commit(p) ==
    /\ pc[p] = "check"
    /\ Passes(p)
    /\ ~UniqueViolation(p)
    /\ LET r == req[p] IN
        /\ ledger' = ledger \cup PostingOf(r, tx[p])
        /\ balance' = [balance EXCEPT
                         ![r.from] = snap[p][r.from] - r.amount,
                         ![r.to] = IF r.kind = "genesis" THEN r.amount
                                   ELSE snap[p][r.to] + r.amount]
        /\ wallets' = wallets \cup {r.to}
        /\ withdrawals' = IF r.kind = "withdraw"
                          THEN withdrawals \cup {[tx |-> tx[p], user |-> r.from,
                                                  amount |-> r.amount]}
                          ELSE withdrawals
    /\ Unlock(p)
    /\ pc' = [pc EXCEPT ![p] = "publish"]
    /\ UNCHANGED <<mintStream, req, tx, snap, received, answers>>

\* IntegrityError on uq_ledger_entries_tx_account: roll back.
Collide(p) ==
    /\ pc[p] = "check"
    /\ Passes(p)
    /\ UniqueViolation(p)
    /\ Unlock(p)
    /\ pc' = [pc EXCEPT ![p] = "relookup"]
    /\ UNCHANGED <<dbVars, mintStream, req, tx, snap, received, answers>>

\* After the rollback: replay the winner's result, 409, or re-raise (500).
Relookup(p) ==
    /\ pc[p] = "relookup"
    /\ Answer(p, IF ~Found(req[p], tx[p]) THEN "error"
                 ELSE IF SameParameters(req[p], tx[p]) THEN "replay"
                 ELSE "conflict")
    /\ UNCHANGED <<dbVars, mintStream, received>>

\* After the commit: a withdrawal's task goes to the mint stream, unless Redis
\* fails, which is only logged; then the response.
Publish(p) ==
    /\ pc[p] = "publish"
    /\ \/ /\ req[p].kind = "withdraw"
          /\ mintStream' = mintStream \cup {tx[p]}
       \/ UNCHANGED mintStream
    /\ Answer(p, "ok")
    /\ UNCHANGED <<dbVars, received>>

\* The server process dies: no response, and PostgreSQL rolls back.
Crash(p) ==
    /\ pc[p] # "idle"
    /\ Unlock(p)
    /\ Idle(p)
    /\ UNCHANGED <<dbVars, mintStream, received, answers>>

Handle(p) ==
    \/ Refuse(p) \/ Replay(p) \/ Proceed(p) \/ Acquire(p) \/ Reject(p)
    \/ Commit(p) \/ Collide(p) \/ Relookup(p) \/ Publish(p)

Next == \E p \in Procs : Receive(p) \/ Handle(p) \/ Crash(p)

Spec == Init /\ [][Next]_vars

-----------------------------------------------------------------------------
(* Properties *)

Outcomes == {"ok", "replay", "refused", "conflict", "insufficient", "over_cap",
             "error"}

\* Every variable holds values of its kind.
TypeOK ==
    /\ wallets \subseteq Accounts
    /\ balance \in [Accounts -> Int]
    /\ ledger \subseteq L!Entries
    /\ withdrawals \subseteq [tx : TxIds, user : Accounts, amount : Amounts]
    /\ mintStream \subseteq TxIds
    /\ lock \in [Accounts -> Procs \cup {NoProc}]
    /\ pc \in [Procs -> {"idle", "lookup", "locking", "check", "relookup",
                         "publish"}]
    /\ req \in [Procs -> Requests \cup {NoReq}]
    /\ tx \in [Procs -> TxIds \cup {NoTx}]
    /\ snap \in [Procs -> [Accounts -> Int]]
    /\ received \in 0 .. MaxRequests
    /\ answers \subseteq [id : TxIds, req : Requests, outcome : Outcomes]

\* The amounts of a set of ledger rows, and of a set of withdrawals.
EntrySum(S) == MapThenSumSet(LAMBDA e : e.amt, S)
WithdrawalSum(S) == MapThenSumSet(LAMBDA w : w.amount, S)

\* The rows of an account, and what they add up to.
RowsIn(S, a) == {e \in S : e.acct = a}
LedgerSum(a) == EntrySum(RowsIn(ledger, a))

\* What check_balances audits: every materialized balance is the sum of the
\* account's ledger rows, whatever the interleaving of handlers that each
\* write a balance they computed from their own copy of the row.
BalanceMatchesLedger == \A a \in Accounts : balance[a] = LedgerSum(a)

\* What check_tx_group audits: the rows of a transaction are exactly one debit
\* and one credit of the same amount and type, for a key that several requests
\* with different parameters race for too.
DoubleEntry ==
    \A e \in ledger :
        \E f \in ledger :
            /\ {g \in ledger : g.tx = e.tx} = {e, f}
            /\ e.amt + f.amt = 0 /\ e.amt # 0 /\ e.type = f.type

\* The rows themselves never add up to an overdraft of anyone but the
\* treasury: no two handlers spend the same money.
NoOverdraft == \A a \in Accounts \ {Treasury} : LedgerSum(a) >= 0

\* No two withdrawals pass the supply cap together ("no over-mint race").
SupplyWithinCap == SupplyCap # 0 => balance[Escrow] <= SupplyCap

\* The escrow holds what the withdrawal rows say was withdrawn, so every debit
\* has the row that the mint worker will find.
EscrowBacksWithdrawals ==
    balance[Escrow] = WithdrawalSum(withdrawals)

\* What the audit looks for, between any two steps of the handlers: balances
\* that are not the sums of their entries, an overdraft, and an escrow that
\* does not hold what was withdrawn.
AuditPasses ==
    /\ BalanceMatchesLedger /\ NoOverdraft /\ EscrowBacksWithdrawals

\* The posting of the request that was answered is in the ledger.
Committed(a) == PostingOf(a.req, a.id) \subseteq ledger

\* What a client was told about a keyed request is true of the ledger: a
\* success or a replay has its posting, a conflict has somebody else's.
AnswersTruthful ==
    \A a \in answers :
        /\ a.outcome \in {"ok", "replay"} => Committed(a)
        /\ a.outcome = "conflict" => L!Posted(a.id) /\ ~Committed(a)

\* p waits for a row that q holds.
WaitsFor(p, q) == pc[p] = "locking" /\ lock[NextLock(p)] = q

\* Handlers never wait for each other in a cycle, whichever way their transfers
\* point: the rows are locked in the order of their ids.
NoWaitCycle ==
    \A p, q, s \in Procs :
        /\ ~(WaitsFor(p, q) /\ WaitsFor(q, p))
        /\ ~(WaitsFor(p, q) /\ WaitsFor(q, s) /\ WaitsFor(s, p))

-----------------------------------------------------------------------------
(* The inductive invariant, in named parts *)

\* A handler that is not idle serves a request under a transaction id.
Busy == \A p \in Procs : pc[p] # "idle" => req[p] \in Requests /\ tx[p] \in TxIds

\* The locks a handler holds are the ones its control state says it holds.
LocksFollowControl ==
    \A p \in Procs :
        /\ pc[p] \notin {"locking", "check"} => Held(p) = {}
        /\ pc[p] = "locking" => Held(p) \subseteq ToLock(req[p])
                                /\ Held(p) # ToLock(req[p])
        /\ pc[p] = "check" => Held(p) = ToLock(req[p])

\* A handler holds rows with lower ids than those it still has to lock.
LocksAscend ==
    \A p \in Procs : pc[p] = "locking" =>
        \A a \in Held(p), b \in ToLock(req[p]) \ Held(p) : Rank[a] <= Rank[b]

\* A handler that holds a row's lock has that row's current balance.
LockedRowIsFresh ==
    \A p \in Procs, a \in Accounts : lock[a] = p => snap[p][a] = balance[a]

\* A handler past its lookup works on wallets that exist.
WalletsExist ==
    \A p \in Procs :
        pc[p] \in {"locking", "check", "relookup", "publish"} =>
            /\ req[p].from # req[p].to
            /\ ToLock(req[p]) \subseteq wallets

\* The user a transaction id is scoped to is a party of the request, and one of
\* the rows of a posted transaction is that user's: this is why a constraint on
\* (tx_id, account_id) makes a whole transaction unique.
ScopeIsParty ==
    /\ \A p \in Procs : pc[p] # "idle" =>
          tx[p][2] \in {req[p].from, req[p].to}
    /\ \A e \in ledger : \E f \in ledger : f.tx = e.tx /\ f.acct = e.tx[2]

\* Nobody but the treasury is overdrawn, and a wallet not yet opened is empty.
BalancesSound ==
    /\ \A a \in Accounts \ {Treasury} : balance[a] >= 0
    /\ \A a \in Accounts \ wallets : balance[a] = 0
    /\ {Treasury, Escrow} \subseteq wallets

IInv ==
    /\ TypeOK
    /\ Busy
    /\ LocksFollowControl
    /\ LocksAscend
    /\ LockedRowIsFresh
    /\ WalletsExist
    /\ ScopeIsParty
    /\ BalancesSound
    /\ SupplyWithinCap
    /\ DoubleEntry

-----------------------------------------------------------------------------
(* Refinement and liveness *)

\* The handlers implement the atomic ledger.
ImplementsLedger == L!Spec

\* A server keeps serving the requests it has, and PostgreSQL grants a row
\* lock to whoever waits for it: weak fairness of the steps of each handler,
\* a handler that waits for nobody.  Clients and crashes are under no obligation.
CanHandle(p) == pc[p] # "idle" /\ \A q \in Procs : ~WaitsFor(p, q)
Moves(p) == pc'[p] # pc[p] \/ Held(p)' # Held(p)
Fairness == \A p \in Procs : <>[]CanHandle(p) => []<><<Moves(p)>>_vars

FairSpec == Spec /\ Fairness

\* Every request that is received is answered, or its server dies.
EveryRequestEnds == \A p \in Procs : pc[p] # "idle" ~> pc[p] = "idle"
=============================================================================
