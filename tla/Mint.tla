-------------------------------- MODULE Mint --------------------------------
(***************************************************************************)
(* Withdrawals on their way to the chain: the withdrawal rows, the stream  *)
(* stream:solana_mints and its consumer group, the mint workers            *)
(* (services/worker/solana_mint.py) and the Solana transactions they       *)
(* submit.  Every withdrawal is for one unit; Wallet.tla is about the      *)
(* amounts and about the debit that precedes the task.                     *)
(*                                                                         *)
(* A worker walks through                                                  *)
(*   idle -> load -> [reconcile] -> claim -> submit -> persist -> confirm  *)
(* one step per await of process_withdrawal.  It may die at any step; an   *)
(* exception leaves the entry in the group's pending list.  Nothing in the *)
(* code takes an entry out of that list again: a second delivery is an     *)
(* operator's re-enqueue or a claim, which the code is written to survive. *)
(***************************************************************************)
EXTENDS Integers, Sequences, FiniteSetsExt

CONSTANTS
    Withdrawals,      \* withdrawals that users request
    Workers,          \* solana_mint processes
    NoW,              \* no withdrawal
    MaxAttempts,      \* settings.solana_mint_max_attempts
    MaxRedeliveries,  \* bound: second deliveries of unacknowledged entries
    MaxCrashes,       \* bound: worker deaths
    Prompt            \* TRUE: an entry may be redelivered while its worker is
                      \* alive or its transaction still in flight

ASSUME BoundsAssumption ==
    /\ MaxAttempts \in Nat \ {0} /\ MaxRedeliveries \in Nat /\ MaxCrashes \in Nat
    /\ Prompt \in BOOLEAN
ASSUME NoWAssumption == NoW \notin Withdrawals

Statuses == {"none", "pending", "minting", "confirmed", "failed"}
Terminal == {"confirmed", "failed"}
Steps == {"idle", "load", "reconcile", "claim", "submit", "persist", "confirm",
          "ack"}

VARIABLES
    row,          \* the withdrawal rows: status, signature (0: none), attempts
    stream,       \* entries not yet delivered
    unacked,      \* delivered entries that were not acknowledged
    acked,        \* withdrawals whose entry was acknowledged
    step, task,   \* where each worker is, and on which withdrawal
    mem,          \* the row as the worker's session has it
    sent,         \* the signature mint_isl_to returned to it
    chain,        \* the transactions submitted for each withdrawal, in order
    recorded,     \* the signatures that were ever committed to the row
    redeliveries, crashes

mintVars == <<row, stream, unacked, acked, step, task, mem, sent, chain, recorded,
          redeliveries, crashes>>
workerVars == <<step, task, mem, sent>>
streamVars == <<stream, unacked, acked>>
bounds == <<redeliveries, crashes>>

NoRow == [status |-> "none", sig |-> 0, attempts |-> 0]

MintInit ==
    /\ row = [w \in Withdrawals |-> NoRow]
    /\ stream = <<>>
    /\ unacked = {}
    /\ acked = {}
    /\ step = [m \in Workers |-> "idle"]
    /\ task = [m \in Workers |-> NoW]
    /\ mem = [m \in Workers |-> NoRow]
    /\ sent = [m \in Workers |-> 0]
    /\ chain = [w \in Withdrawals |-> <<>>]
    /\ recorded = [w \in Withdrawals |-> {}]
    /\ redeliveries = 0
    /\ crashes = 0

-----------------------------------------------------------------------------
(* The wallet service and the operator *)

\* create_withdrawal commits the debit and the row; then the XADD works, or
\* fails and leaves the row "pending" with no task.
Request(w) ==
    /\ row[w].status = "none"
    /\ row' = [row EXCEPT ![w].status = "pending"]
    /\ stream' \in {stream, Append(stream, w)}
    /\ UNCHANGED <<unacked, acked, workerVars, chain, recorded, bounds>>

InFlight(w) == \E i \in DOMAIN chain[w] : chain[w][i] = "in_flight"
InHand(w) == \E m \in Workers : task[m] = w

Redeliver(w) ==
    /\ w \in unacked
    /\ redeliveries < MaxRedeliveries
    /\ Prompt \/ ~(InFlight(w) \/ InHand(w))
    /\ unacked' = unacked \ {w}
    /\ stream' = Append(stream, w)
    /\ redeliveries' = redeliveries + 1
    /\ UNCHANGED <<row, acked, workerVars, chain, recorded, crashes>>

-----------------------------------------------------------------------------
(* The worker *)

Goto(m, to) == step' = [step EXCEPT ![m] = to]

\* The worker loop is ready for the next entry.
Done(m) ==
    /\ Goto(m, "idle")
    /\ task' = [task EXCEPT ![m] = NoW]
    /\ mem' = [mem EXCEPT ![m] = NoRow]
    /\ sent' = [sent EXCEPT ![m] = 0]

\* An ORM flush: only the attributes that changed in the session are written.
Flush(m, new) ==
    LET old == mem[m] w == task[m] IN
    /\ row' = [row EXCEPT
         ![w].status = IF new.status = old.status THEN @ ELSE new.status,
         ![w].sig = IF new.sig = old.sig THEN @ ELSE new.sig,
         ![w].attempts = IF new.attempts = old.attempts THEN @ ELSE new.attempts]
    /\ mem' = [mem EXCEPT ![m] = new]

\* XREADGROUP ">": the next entry that was never delivered.
Deliver(m) ==
    /\ step[m] = "idle"
    /\ stream # <<>>
    /\ stream' = Tail(stream)
    /\ unacked' = unacked \cup {Head(stream)}
    /\ task' = [task EXCEPT ![m] = Head(stream)]
    /\ Goto(m, "load")
    /\ UNCHANGED <<row, acked, mem, sent, chain, recorded, bounds>>

\* Mutants of StepAfterLoad: mint again without asking the chain, or retry a
\* withdrawal that was given up.
MutantStepBlind(r) == IF r.status \in Terminal THEN "ack" ELSE "claim"
MutantStepRetryingFailed(r) ==
    CASE r.status = "confirmed" -> "ack"
      [] r.status # "confirmed" /\ r.sig # 0 -> "reconcile"
      [] OTHER -> "claim"

\* The early returns of a settled withdrawal, and the reconciliation.
StepAfterLoad(r) ==
    CASE r.status \in Terminal -> "ack"
      [] r.status \notin Terminal /\ r.sig # 0 -> "reconcile"
      [] OTHER -> "claim"

Load(m) ==
    /\ step[m] = "load"
    /\ mem' = [mem EXCEPT ![m] = row[task[m]]]
    /\ Goto(m, StepAfterLoad(row[task[m]]))
    /\ UNCHANGED <<row, streamVars, task, sent, chain, recorded, bounds>>

\* signature_status is "confirmed", or confirm_mint returns True.
OnChain(w, sig) == chain[w][sig] = "landed"

\* The recorded signature landed, or else mint again.
Reconcile(m) ==
    /\ step[m] = "reconcile"
    /\ IF OnChain(task[m], mem[m].sig)
       THEN /\ Flush(m, [mem[m] EXCEPT !.status = "confirmed"])
            /\ Goto(m, "ack")
       ELSE /\ Goto(m, "claim")
            /\ UNCHANGED <<row, mem>>
    /\ UNCHANGED <<streamVars, task, sent, chain, recorded, bounds>>

\* pending -> minting, and one more attempt.
Claim(m) ==
    /\ step[m] = "claim"
    /\ Flush(m, [mem[m] EXCEPT !.status = "minting", !.attempts = @ + 1])
    /\ Goto(m, "submit")
    /\ UNCHANGED <<streamVars, task, sent, chain, recorded, bounds>>

Broadcast(w) == chain' = [chain EXCEPT ![w] = Append(@, "in_flight")]

\* mint_isl_to returns the signature of the transaction it submitted.
Submit(m) ==
    /\ step[m] = "submit"
    /\ Broadcast(task[m])
    /\ sent' = [sent EXCEPT ![m] = Len(chain[task[m]]) + 1]
    /\ Goto(m, "persist")
    /\ UNCHANGED <<row, streamVars, task, mem, recorded, bounds>>

Exhausted(m) == mem[m].attempts >= MaxAttempts

\* Mutant of Raise: return, so the entry is acknowledged.
MutantReturn(m) == Goto(m, "ack") /\ UNCHANGED <<task, mem, sent>>

\* The exception ends process_withdrawal and skips the XACK.
Raise(m) == Done(m)

\* mint_isl_to raises, before or after the node accepted the transaction:
\* give up when the attempts are spent, else back to pending and raise.
SubmitFails(m) ==
    /\ step[m] = "submit"
    /\ Broadcast(task[m]) \/ UNCHANGED chain
    /\ \/ /\ Exhausted(m)
          /\ Flush(m, [mem[m] EXCEPT !.status = "failed"])
          /\ Goto(m, "ack")
          /\ UNCHANGED <<task, sent>>
       \/ /\ ~Exhausted(m)
          /\ row' = [row EXCEPT ![task[m]].status = "pending"]
          /\ Raise(m)
    /\ UNCHANGED <<streamVars, recorded, bounds>>

\* "Linchpin": the signature is committed before it is confirmed.
Persist(m) ==
    /\ step[m] = "persist"
    /\ Flush(m, [mem[m] EXCEPT !.sig = sent[m]])
    /\ recorded' = [recorded EXCEPT ![task[m]] = @ \cup {sent[m]}]
    /\ Goto(m, "confirm")
    /\ UNCHANGED <<streamVars, task, sent, chain, bounds>>

Confirm(m) ==
    /\ step[m] = "confirm"
    /\ OnChain(task[m], sent[m])
    /\ Flush(m, [mem[m] EXCEPT !.status = "confirmed"])
    /\ Goto(m, "ack")
    /\ UNCHANGED <<streamVars, task, sent, chain, recorded, bounds>>

\* confirm_mint times out, finds nothing or finds an error, whatever becomes
\* of the transaction: failed when the attempts are spent, else raise.
ConfirmFails(m) ==
    /\ step[m] = "confirm"
    /\ IF Exhausted(m)
       THEN /\ Flush(m, [mem[m] EXCEPT !.status = "failed"])
            /\ Goto(m, "ack")
            /\ UNCHANGED <<task, sent>>
       ELSE Raise(m) /\ UNCHANGED row
    /\ UNCHANGED <<streamVars, chain, recorded, bounds>>

\* process_withdrawal returned: XACK.
Ack(m) ==
    /\ step[m] = "ack"
    /\ unacked' = unacked \ {task[m]}
    /\ acked' = acked \cup {task[m]}
    /\ Done(m)
    /\ UNCHANGED <<row, stream, chain, recorded, bounds>>

\* The process dies, or an await outside the handler's try raises.
Die(m) ==
    /\ step[m] # "idle"
    /\ crashes < MaxCrashes
    /\ crashes' = crashes + 1
    /\ Done(m)
    /\ UNCHANGED <<row, streamVars, chain, recorded, redeliveries>>

Work(m) ==
    \/ Deliver(m) \/ Load(m) \/ Reconcile(m) \/ Claim(m) \/ Submit(m)
    \/ SubmitFails(m) \/ Persist(m) \/ Confirm(m) \/ ConfirmFails(m) \/ Ack(m)

-----------------------------------------------------------------------------
(* The chain *)

\* A transaction lands, lands with an error, or is dropped.
Settle(w) ==
    /\ \E i \in DOMAIN chain[w], fate \in {"landed", "errored", "dropped"} :
        /\ chain[w][i] = "in_flight"
        /\ chain' = [chain EXCEPT ![w][i] = fate]
    /\ UNCHANGED <<row, streamVars, workerVars, recorded, bounds>>

MintNext ==
    \/ \E w \in Withdrawals : Request(w) \/ Redeliver(w) \/ Settle(w)
    \/ \E m \in Workers : Work(m) \/ Die(m)

MintSpec == MintInit /\ [][MintNext]_mintVars

-----------------------------------------------------------------------------
(* Properties *)

Landed(w) == {i \in DOMAIN chain[w] : chain[w][i] = "landed"}

\* Every variable holds values of its kind, and a signature is of a submitted
\* transaction.
MintTypeOK ==
    /\ \A w \in Withdrawals :
        /\ row[w].status \in Statuses
        /\ row[w].sig \in 0 .. Len(chain[w])
        /\ row[w].attempts \in Nat
        /\ recorded[w] \subseteq DOMAIN chain[w]
    /\ stream \in Seq(Withdrawals) /\ unacked \subseteq Withdrawals
    /\ acked \subseteq Withdrawals
    /\ \A m \in Workers : /\ step[m] \in Steps
                          /\ task[m] \in Withdrawals \cup {NoW}
                          /\ step[m] = "idle" <=> task[m] = NoW

\* A user is told "confirmed" only of tokens that exist.
ConfirmedIsMinted ==
    \A w \in Withdrawals : row[w].status = "confirmed" => Landed(w) # {}

\* The module's stated risk is the only one: a withdrawal that minted twice
\* has, for each extra mint, a signature that was never committed.
OnlyLostSignaturesDoubleMint ==
    \A w \in Withdrawals :
        Cardinality(Landed(w)) <= 1 + Cardinality(DOMAIN chain[w] \ recorded[w])

\* An acknowledged entry never leaves its withdrawal unsettled: XACK only after
\* the row is confirmed or failed.
AckedIsSettled == \A w \in acked : row[w].status \in Terminal

\* What the user, the row and the stream say of a withdrawal is true of the chain.
MintInv ==
    /\ MintTypeOK /\ ConfirmedIsMinted /\ AckedIsSettled

\* A confirmed or failed withdrawal stays so, whatever is delivered again.
TerminalIsFinal ==
    [][\A w \in Withdrawals :
          row[w].status \in Terminal => row'[w].status = row[w].status]_mintVars

=============================================================================
