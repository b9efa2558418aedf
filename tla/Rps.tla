-------------------------------- MODULE Rps --------------------------------
(***************************************************************************)
(* Rock-paper-scissors between the two sides of one visit                  *)
(* (services/visit/rps.py).  A round is a Redis hash that expires; a key   *)
(* that expires too says that the visit has a round.  The handlers are     *)
(* concurrent, every Redis or HTTP call is a step of its own, and nothing  *)
(* is locked: a handler decides on the hash as it read it.                 *)
(*                                                                         *)
(* The loser's wager moves by the wallet's transfer, whose promise (atomic,*)
(* at most once per payer and idempotency key) is what Ledger.tla states   *)
(* and Wallet.tla implements.  A call may be lost on either way, and then  *)
(* may still take effect later.                                            *)
(***************************************************************************)
EXTENDS Integers

CONSTANTS
    Rounds,      \* round ids
    Procs,       \* concurrent handlers of the visit service
    Hands,       \* hands that the players choose from
    Wager,       \* WAGER_AMOUNT
    Funds,       \* what each player's wallet holds at first
    NoRound,
    MaxLost,     \* bound: calls of the wallet that go unanswered
    MaxCrashes   \* bound: handlers that die

Players == {"visitor", "host"}
Opponent(q) == IF q = "visitor" THEN "host" ELSE "visitor"

ASSUME HandsAssumption == Hands \subseteq {"rock", "paper", "scissors"}
ASSUME WagerAssumption == Wager \in Nat \ {0} /\ Funds \in [Players -> Nat]
ASSUME BoundsAssumption ==
    NoRound \notin Rounds /\ MaxLost \in Nat /\ MaxCrashes \in Nat

VARIABLES
    hash,      \* rps:round:{round}
    active,    \* visit:rps:active:{visit}
    balance,   \* the wallets of the players
    paid,      \* the transfers that the wallet has committed
    inflight,  \* unanswered calls that may still reach the wallet
    handler,   \* what each handler does
    used,      \* round ids given out
    lost, crashes

vars == <<hash, active, balance, paid, inflight, handler, used, lost, crashes>>
walletVars == <<balance, paid, inflight, lost>>

\* No key: hgetall finds no field.  A hash that is written again after it
\* expired has no status, or no picks, and no TTL.
NoHash == [status |-> "none", pick |-> [q \in Players |-> "none"],
           outcome |-> "none", ttl |-> FALSE]
NoActive == [round |-> NoRound, ttl |-> FALSE]
\* A handler: its next step, and the round and the picks that it works on.
Idle == [at |-> "idle", round |-> NoRound, player |-> "visitor",
         hand |-> "none", pick |-> NoHash.pick, tries |-> 0]

Init ==
    /\ hash = [r \in Rounds |-> NoHash]
    /\ active = NoActive
    /\ balance = Funds
    /\ paid = {}
    /\ inflight = {}
    /\ handler = [p \in Procs |-> Idle]
    /\ used = {}
    /\ lost = 0
    /\ crashes = 0

Goes(p, step) == handler' = [handler EXCEPT ![p].at = step]
Ends(p) == handler' = [handler EXCEPT ![p] = Idle]

-----------------------------------------------------------------------------
(* create_round *)

MayCreate == active = NoActive

CreateRead(p) ==
    /\ handler[p].at = "idle"
    /\ MayCreate
    /\ Goes(p, "store")
    /\ UNCHANGED <<hash, active, walletVars, used, crashes>>

MutantFunded(q) == TRUE
Funded(q) == balance[q] >= Wager

\* Both wallets hold the wager, and the round is stored.
Store(p) ==
    /\ handler[p].at = "store"
    /\ \A q \in Players : Funded(q)
    /\ \E r \in Rounds \ used :
        /\ used' = used \cup {r}
        /\ hash' = [hash EXCEPT ![r] = [NoHash EXCEPT !.status = "pending"]]
        /\ handler' = [handler EXCEPT ![p].at = "expire", ![p].round = r]
    /\ UNCHANGED <<active, walletVars, crashes>>

Refuse(p) ==
    /\ handler[p].at = "store"
    /\ \E q \in Players : ~Funded(q)
    /\ Ends(p)
    /\ UNCHANGED <<hash, active, walletVars, used, crashes>>

Expire(p) ==
    /\ handler[p].at = "expire"
    /\ hash' = [hash EXCEPT ![handler[p].round].ttl = TRUE]
    /\ Goes(p, "activate")
    /\ UNCHANGED <<active, walletVars, used, crashes>>

MutantActivated(r) == [round |-> r, ttl |-> FALSE]
Activated(r) == [round |-> r, ttl |-> TRUE]

\* The players are invited after this step, and may know the round before.
Activate(p) ==
    /\ handler[p].at = "activate"
    /\ active' = Activated(handler[p].round)
    /\ Ends(p)
    /\ UNCHANGED <<hash, walletVars, used, crashes>>

-----------------------------------------------------------------------------
(* submit_pick and decline_round *)

Beats == {<<"rock", "scissors">>, <<"paper", "rock">>, <<"scissors", "paper">>}

\* The outcome for the visitor, and who wins by it.
Resolve(pick) ==
    IF pick["visitor"] = pick["host"] THEN "draw"
    ELSE IF <<pick["visitor"], pick["host"]>> \in Beats THEN "win" ELSE "lose"
Winner(outcome) == IF outcome = "win" THEN "visitor" ELSE "host"

\* The wallet's transaction id is scoped to the payer.
Transfer(r, outcome) == [round |-> r, from |-> Opponent(Winner(outcome))]

Pending(h) == h.status = "pending"
MayPick(h, q) == Pending(h) /\ h.pick[q] = "none"

PickRead(p, r, q, hand) ==
    /\ handler[p].at = "idle"
    /\ MayPick(hash[r], q)
    /\ handler' = [handler EXCEPT ![p] = [Idle EXCEPT !.at = "write",
                     !.round = r, !.player = q, !.hand = hand,
                     !.pick = hash[r].pick]]
    /\ UNCHANGED <<hash, active, walletVars, used, crashes>>

\* The picks as the handler knows them: those it read, and its own.
Seen(pick, q, hand) == [pick EXCEPT ![q] = hand]

PickWrite(p) ==
    /\ handler[p].at = "write"
    /\ LET r == handler[p].round
           q == handler[p].player
           pick == Seen(handler[p].pick, q, handler[p].hand) IN
        /\ hash' = [hash EXCEPT ![r].pick[q] = handler[p].hand]
        /\ handler' = [handler EXCEPT
             ![p] = IF \E o \in Players : pick[o] = "none" THEN Idle
                    ELSE [Idle EXCEPT !.round = r, !.pick = pick,
                            !.at = IF Resolve(pick) = "draw"
                                   THEN "reveal" ELSE "pay"]]
    /\ UNCHANGED <<active, walletVars, used, crashes>>

\* The wallet commits a transfer once, if the payer can pay.
Committed(t) ==
    IF t \in paid \/ ~Funded(t.from) THEN UNCHANGED <<balance, paid>>
    ELSE /\ paid' = paid \cup {t}
         /\ balance' = [balance EXCEPT ![t.from] = @ - Wager,
                                       ![Opponent(t.from)] = @ + Wager]

MutantAfterAnswer(t) == "reveal"
AfterAnswer(t) == IF t \in paid \/ Funded(t.from) THEN "reveal" ELSE "cancel"

\* The wallet answers: committed or replayed, or refused.
Pay(p) ==
    /\ handler[p].at = "pay"
    /\ LET t == Transfer(handler[p].round, Resolve(handler[p].pick)) IN
        Committed(t) /\ Goes(p, AfterAnswer(t))
    /\ UNCHANGED <<hash, active, inflight, used, lost, crashes>>

Attempts == 3

\* It does not, or with a 5xx: the handler tries again, then gives up.
Unanswered(p) ==
    /\ handler[p].at = "pay"
    /\ lost < MaxLost
    /\ lost' = lost + 1
    /\ \/ inflight' = inflight \cup
                {Transfer(handler[p].round, Resolve(handler[p].pick))}
       \/ UNCHANGED inflight
    /\ handler' = [handler EXCEPT ![p].tries = @ + 1,
         ![p].at = IF handler[p].tries + 1 >= Attempts THEN "cancel" ELSE "pay"]
    /\ UNCHANGED <<hash, active, balance, paid, used, crashes>>

Land(t) ==
    /\ inflight' = inflight \ {t}
    /\ Committed(t)
    /\ UNCHANGED <<hash, active, handler, used, lost, crashes>>

\* The players use their wallets for other things too.
Spend(q) ==
    /\ Funded(q)
    /\ balance' = [balance EXCEPT ![q] = @ - Wager]
    /\ UNCHANGED <<hash, active, paid, inflight, handler, used, lost, crashes>>

Reveal(p) ==
    /\ handler[p].at = "reveal"
    /\ hash' = [hash EXCEPT ![handler[p].round].status = "revealed",
                   ![handler[p].round].outcome = Resolve(handler[p].pick)]
    /\ handler' = [handler EXCEPT ![p] = [Idle EXCEPT !.at = "release"]]
    /\ UNCHANGED <<active, walletVars, used, crashes>>

DeclineRead(p, r) ==
    /\ handler[p].at = "idle"
    /\ Pending(hash[r])
    /\ handler' = [handler EXCEPT ![p] = [Idle EXCEPT !.at = "cancel",
                                                      !.round = r]]
    /\ UNCHANGED <<hash, active, walletVars, used, crashes>>

\* Declined, or the wallet refused or did not answer.
Cancel(p) ==
    /\ handler[p].at = "cancel"
    /\ hash' = [hash EXCEPT ![handler[p].round].status = "cancelled"]
    /\ handler' = [handler EXCEPT ![p] = [Idle EXCEPT !.at = "release"]]
    /\ UNCHANGED <<active, walletVars, used, crashes>>

\* The active key is deleted, whichever round it names.
Release(p) ==
    /\ handler[p].at = "release"
    /\ active' = NoActive
    /\ Ends(p)
    /\ UNCHANGED <<hash, walletVars, used, crashes>>

-----------------------------------------------------------------------------
(* Redis, and failures *)

HashExpires(r) ==
    /\ hash[r].ttl
    /\ hash' = [hash EXCEPT ![r] = NoHash]
    /\ UNCHANGED <<active, walletVars, handler, used, crashes>>

\* The active key got its TTL after the hash of its round got the same.
ActiveExpires ==
    /\ active.ttl /\ ~hash[active.round].ttl
    /\ active' = NoActive
    /\ UNCHANGED <<hash, walletVars, handler, used, crashes>>

Crash(p) ==
    /\ handler[p].at # "idle"
    /\ crashes < MaxCrashes
    /\ crashes' = crashes + 1
    /\ Ends(p)
    /\ UNCHANGED <<hash, active, walletVars, used>>

Continue(p) ==
    \/ Store(p) \/ Refuse(p) \/ Expire(p) \/ Activate(p) \/ PickWrite(p)
    \/ Pay(p) \/ Reveal(p) \/ Cancel(p) \/ Release(p)

Next ==
    \/ \E p \in Procs :
        \/ CreateRead(p) \/ Continue(p) \/ Unanswered(p) \/ Crash(p)
        \/ \E r \in Rounds :
            \/ DeclineRead(p, r)
            \/ \E q \in Players, hand \in Hands : PickRead(p, r, q, hand)
    \/ \E t \in inflight : Land(t)
    \/ \E q \in Players : Spend(q)
    \/ \E r \in Rounds : HashExpires(r)
    \/ ActiveExpires

Spec == Init /\ [][Next]_vars

\* A handler that runs goes on, and Redis expires what it was told to.
Fairness ==
    /\ \A p \in Procs : WF_vars(Continue(p))
    /\ \A r \in Rounds : WF_vars(HashExpires(r))
    /\ WF_vars(ActiveExpires)

FairSpec == Spec /\ Fairness

-----------------------------------------------------------------------------
(* Properties *)

Picks == [Players -> Hands \cup {"none"}]
HashType == [status : {"none", "pending", "revealed", "cancelled"},
             pick : Picks, outcome : {"none", "win", "lose", "draw"},
             ttl : BOOLEAN]
AtRound == {"expire", "activate", "write", "pay", "reveal", "cancel"}
HandlerType == [at : {"idle", "store", "release"} \cup AtRound,
                round : Rounds \cup {NoRound}, player : Players,
                hand : Hands \cup {"none"}, pick : Picks, tries : Nat]

\* Every variable holds values of its kind: no wallet is overdrawn, and a
\* handler in the middle of a round knows which.
TypeOK ==
    /\ hash \in [Rounds -> HashType]
    /\ active \in [round : Rounds \cup {NoRound}, ttl : BOOLEAN]
    /\ balance \in [Players -> Nat]
    /\ paid \cup inflight \subseteq [round : Rounds, from : Players]
    /\ handler \in [Procs -> HandlerType]
    /\ \A p \in Procs : handler[p].at \in AtRound => handler[p].round \in Rounds

\* A round that is shown as won has its wager in the winner's wallet, whatever
\* was lost, retried, expired or crashed on the way.
RevealedIsPaid ==
    \A r \in Rounds :
        hash[r].status = "revealed" /\ hash[r].outcome \in {"win", "lose"}
            => Transfer(r, hash[r].outcome) \in paid

\* A visit is not locked out of a new round for ever.
ActiveIsReleased == active # NoActive ~> active = NoActive

=============================================================================
