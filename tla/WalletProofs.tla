---------------------------- MODULE WalletProofs ----------------------------
(***************************************************************************)
(* Money in the database and on its way to the chain: the worker that      *)
(* mints the withdrawals (Mint), and the wallet service (Wallet).          *)
(***************************************************************************)
EXTENDS Wallet, Mint, CommonLemmas

-----------------------------------------------------------------------------
(***************************************************************************)
(* Theorems about Mint, for every set of withdrawals and workers and every *)
(* number of attempts, redeliveries and crashes, when an operator delivers *)
(* an entry again only after its worker is gone and its transactions have  *)
(* settled (~Prompt).                                                      *)
(*                                                                         *)
(* The argument: an entry is in the stream, or in the hands of one worker, *)
(* or neither (Exclusive); hence a worker's copy of the row is the row     *)
(* (Fresh); hence a worker that mints again has looked at the fate of the  *)
(* last recorded signature, and no other recorded one has landed (Chains). *)
(***************************************************************************)

USE BoundsAssumption, NoWAssumption

-----------------------------------------------------------------------------
(* The inductive invariant *)

RowType == [status : Statuses, sig : Nat, attempts : Nat]
Fates == {"in_flight", "landed", "errored", "dropped"}
Dead == {"errored", "dropped"}

Types ==
    /\ row \in [Withdrawals -> RowType]
    /\ stream \in Seq(Withdrawals)
    /\ unacked \subseteq Withdrawals /\ acked \subseteq Withdrawals
    /\ step \in [Workers -> Steps]
    /\ task \in [Workers -> Withdrawals \cup {NoW}]
    /\ \A m \in Workers : step[m] = "idle" <=> task[m] = NoW
    /\ mem \in [Workers -> RowType]
    /\ sent \in [Workers -> Nat]
    /\ chain \in [Withdrawals -> Seq(Fates)]
    /\ recorded \in [Withdrawals -> SUBSET Nat]

\* An entry is in the stream once, or with one worker, or with nobody; a
\* withdrawal that was not requested has none.
Exclusive ==
    /\ \A i \in DOMAIN stream : stream[i] \notin unacked
    /\ \A i, j \in DOMAIN stream : stream[i] = stream[j] => i = j
    /\ \A m \in Workers : task[m] # NoW => task[m] \in unacked
    /\ \A m, n \in Workers : task[m] # NoW /\ task[m] = task[n] => m = n
    /\ \A w \in Withdrawals : row[w].status = "none" =>
          /\ w \notin unacked /\ chain[w] = <<>>
          /\ \A i \in DOMAIN stream : stream[i] # w

\* A worker past its load has the row itself, of a withdrawal that is not
\* settled; one that acknowledges has settled it.
FreshAt(m) ==
    /\ step[m] \in {"reconcile", "claim", "submit", "persist", "confirm"} =>
          mem[m] = row[task[m]] /\ mem[m].status \notin Terminal
    /\ step[m] = "reconcile" => mem[m].sig # 0
    /\ step[m] = "ack" => row[task[m]].status \in Terminal

Fresh == (\A m \in Workers : FreshAt(m)) /\ AckedIsSettled

\* Of the recorded signatures only the row's may land, and a confirmed row's did.
ChainAt(w) ==
    /\ row[w].sig \in 0 .. Len(chain[w])
    /\ recorded[w] \subseteq DOMAIN chain[w]
    /\ \A i \in recorded[w] : i # row[w].sig => chain[w][i] \in Dead
    /\ row[w].status = "confirmed" => Landed(w) # {}

\* A worker that is about to mint knows that nothing recorded can land.
HeldAt(m) ==
    /\ step[m] \in {"load", "reconcile", "claim", "submit"} => ~InFlight(task[m])
    /\ step[m] \in {"claim", "submit", "persist"} =>
          \A i \in recorded[task[m]] : chain[task[m]][i] \in Dead
    /\ step[m] \in {"persist", "confirm"} => sent[m] \in DOMAIN chain[task[m]]

Chains ==
    /\ \A w \in Withdrawals : ChainAt(w)
    /\ \A i \in DOMAIN stream : ~InFlight(stream[i])
    /\ \A m \in Workers : HeldAt(m)

MintIInv == Types /\ Exclusive /\ Fresh /\ Chains

-----------------------------------------------------------------------------
(* The steps *)

\* A worker that has the row writes what it means to.
LEMMA FlushWrites ==
    ASSUME Types, NEW m \in Workers, task[m] # NoW, mem[m] = row[task[m]],
           NEW new \in RowType, Flush(m, new)
    PROVE  /\ row' = [row EXCEPT ![task[m]] = new]
           /\ mem' = [mem EXCEPT ![m] = new]
  <1> DEFINE w == task[m]
             r == [row[w] EXCEPT
                     !.status = IF new.status = row[w].status THEN @ ELSE new.status,
                     !.sig = IF new.sig = row[w].sig THEN @ ELSE new.sig,
                     !.attempts = IF new.attempts = row[w].attempts THEN @
                                  ELSE new.attempts]
  <1>1. w \in Withdrawals /\ row[w] \in RowType
    BY DEF Types
  <1>2. r = new
    BY <1>1 DEF RowType
  <1>3. row' = [row EXCEPT ![w] = r]
    BY <1>1 DEF Flush, RowType, Types
  <1> QED
    BY <1>2, <1>3 DEF Flush

\* What the steps write to a row.
Marked(r, s) == [r EXCEPT !.status = s]
Claimed(r) == [r EXCEPT !.status = "minting", !.attempts = r.attempts + 1]
Signed(r, sig) == [r EXCEPT !.sig = sig]

LEMMA MarkedFacts ==
    ASSUME NEW r \in RowType, NEW s \in Statuses
    PROVE  Marked(r, s) \in RowType /\ Marked(r, s).status = s /\ Marked(r, s).sig = r.sig
  <1>1. r.status \in Statuses /\ r.sig \in Nat /\ r.attempts \in Nat
    BY DEF RowType
  <1> QED
    BY <1>1 DEF RowType, Marked

LEMMA ClaimedFacts ==
    ASSUME NEW r \in RowType
    PROVE  /\ Claimed(r) \in RowType
           /\ Claimed(r).status = "minting" /\ Claimed(r).sig = r.sig
  <1>1. r.status \in Statuses /\ r.sig \in Nat /\ r.attempts \in Nat /\ r.attempts + 1 \in Nat
    BY DEF RowType
  <1>2. "minting" \in Statuses
    BY DEF Statuses
  <1> QED
    BY <1>1, <1>2 DEF RowType, Claimed

LEMMA SignedFacts ==
    ASSUME NEW r \in RowType, NEW sig \in Nat
    PROVE  /\ Signed(r, sig) \in RowType
           /\ Signed(r, sig).status = r.status /\ Signed(r, sig).sig = sig
  <1>1. r.status \in Statuses /\ r.sig \in Nat /\ r.attempts \in Nat
    BY DEF RowType
  <1> QED
    BY <1>1 DEF RowType, Signed

WritesRow(w, new) == row' = [row EXCEPT ![w] = new]
Writes(m, new) == WritesRow(task[m], new) /\ mem' = [mem EXCEPT ![m] = new]

\* What the steps of a worker past its load write to the row and its copy.
LEMMA RowSteps ==
    ASSUME Types, Fresh, NEW m \in Workers,
           step[m] \in {"reconcile", "claim", "submit", "persist", "confirm"}
    PROVE  LET r == row[task[m]] IN
           /\ task[m] \in Withdrawals /\ r \in RowType /\ sent[m] \in Nat
           /\ mem[m] = r
           /\ Reconcile(m) /\ OnChain(task[m], mem[m].sig) => Writes(m, Marked(r, "confirmed"))
           /\ Claim(m) => Writes(m, Claimed(r))
           /\ Persist(m) => Writes(m, Signed(r, sent[m]))
           /\ Confirm(m) => Writes(m, Marked(r, "confirmed"))
           /\ SubmitFails(m) => \/ Writes(m, Marked(r, "failed")) /\ Goto(m, "ack")
                                   /\ UNCHANGED <<task, sent>>
                                \/ WritesRow(task[m], Marked(r, "pending")) /\ Done(m)
           /\ ConfirmFails(m) => \/ Writes(m, Marked(r, "failed")) /\ Goto(m, "ack")
                                    /\ UNCHANGED <<task, sent>>
                                 \/ UNCHANGED row /\ Done(m)
  <1> DEFINE r == row[task[m]]
  <1>1. task[m] # NoW /\ task[m] \in Withdrawals /\ r \in RowType
        /\ mem[m] = r /\ sent[m] \in Nat
    BY DEF Types, Fresh, FreshAt
  <1>2. ASSUME NEW new \in RowType, Flush(m, new)
        PROVE  Writes(m, new)
    BY <1>1, <1>2, FlushWrites DEF Writes, WritesRow
  <1>3. /\ Marked(r, "confirmed") \in RowType /\ Marked(r, "failed") \in RowType
        /\ Claimed(r) \in RowType /\ Signed(r, sent[m]) \in RowType
    <2>1. "confirmed" \in Statuses /\ "failed" \in Statuses
      BY DEF Statuses
    <2> QED
      BY <1>1, <2>1, MarkedFacts, ClaimedFacts, SignedFacts
  <1>4. ASSUME Reconcile(m), OnChain(task[m], mem[m].sig)
        PROVE  Writes(m, Marked(r, "confirmed"))
    BY <1>1, <1>2, <1>3, <1>4 DEF Reconcile, Marked
  <1>5. ASSUME Claim(m)
        PROVE  Writes(m, Claimed(r))
    BY <1>1, <1>2, <1>3, <1>5 DEF Claim, Claimed
  <1>6. ASSUME Persist(m)
        PROVE  Writes(m, Signed(r, sent[m]))
    BY <1>1, <1>2, <1>3, <1>6 DEF Persist, Signed
  <1>7. ASSUME Confirm(m)
        PROVE  Writes(m, Marked(r, "confirmed"))
    BY <1>1, <1>2, <1>3, <1>7 DEF Confirm, Marked
  <1>8. ASSUME Flush(m, [mem[m] EXCEPT !.status = "failed"])
        PROVE  Writes(m, Marked(r, "failed"))
    BY <1>1, <1>2, <1>3, <1>8 DEF Marked
  <1>9. row' = [row EXCEPT ![task[m]].status = "pending"]
           => WritesRow(task[m], Marked(r, "pending"))
    BY <1>1 DEF WritesRow, Marked, Types
  <1>10. ASSUME SubmitFails(m)
         PROVE  \/ Writes(m, Marked(r, "failed")) /\ Goto(m, "ack") /\ UNCHANGED <<task, sent>>
                \/ WritesRow(task[m], Marked(r, "pending")) /\ Done(m)
    BY <1>8, <1>9, <1>10 DEF SubmitFails, Raise
  <1>11. ASSUME ConfirmFails(m)
         PROVE  \/ Writes(m, Marked(r, "failed")) /\ Goto(m, "ack") /\ UNCHANGED <<task, sent>>
                \/ UNCHANGED row /\ Done(m)
    BY <1>8, <1>11 DEF ConfirmFails, Raise
  <1> QED
    BY <1>1, <1>4, <1>5, <1>6, <1>7, <1>10, <1>11

\* The chain only grows, and only in-flight transactions change.
LEMMA ChainSteps ==
    ASSUME Types, NEW w \in Withdrawals
    PROVE  /\ Broadcast(w) =>
                /\ chain' \in [Withdrawals -> Seq(Fates)]
                /\ \A v \in Withdrawals \ {w} : chain'[v] = chain[v]
                /\ Len(chain'[w]) = Len(chain[w]) + 1
                /\ DOMAIN chain'[w] = DOMAIN chain[w] \cup {Len(chain[w]) + 1}
                /\ \A i \in DOMAIN chain[w] : chain'[w][i] = chain[w][i]
           /\ Settle(w) =>
                /\ chain' \in [Withdrawals -> Seq(Fates)]
                /\ \A v \in Withdrawals \ {w} : chain'[v] = chain[v]
                /\ Len(chain'[w]) = Len(chain[w])
                /\ DOMAIN chain'[w] = DOMAIN chain[w]
                /\ \A i \in DOMAIN chain[w] :
                      chain'[w][i] = chain[w][i] \/ chain[w][i] = "in_flight"
                /\ InFlight(w)
                /\ \A i \in DOMAIN chain[w] :
                      chain'[w][i] = "in_flight" => chain[w][i] = "in_flight"
  <1> DEFINE c == chain[w]
  <1>1. c \in Seq(Fates) /\ "in_flight" \in Fates
    BY DEF Types, Fates
  <1>2. ASSUME Broadcast(w)
        PROVE  /\ chain' \in [Withdrawals -> Seq(Fates)]
               /\ chain'[w] = Append(c, "in_flight")
               /\ \A v \in Withdrawals \ {w} : chain'[v] = chain[v]
    BY <1>1, <1>2 DEF Broadcast, Types
  <1>3. ASSUME Settle(w)
        PROVE  \E i \in DOMAIN c, fate \in Fates \ {"in_flight"} :
                 /\ c[i] = "in_flight"
                 /\ chain' = [chain EXCEPT ![w] = [c EXCEPT ![i] = fate]]
    BY <1>1, <1>3 DEF Settle, Types, Fates
  <1>4. ASSUME NEW i \in DOMAIN c, NEW fate \in Fates
        PROVE  /\ [c EXCEPT ![i] = fate] \in Seq(Fates)
               /\ Len([c EXCEPT ![i] = fate]) = Len(c)
               /\ DOMAIN [c EXCEPT ![i] = fate] = DOMAIN c
    BY <1>1
  <1>5. ASSUME Settle(w)
        PROVE  /\ chain' \in [Withdrawals -> Seq(Fates)]
               /\ \A v \in Withdrawals \ {w} : chain'[v] = chain[v]
               /\ Len(chain'[w]) = Len(chain[w])
               /\ DOMAIN chain'[w] = DOMAIN chain[w]
               /\ \A i \in DOMAIN chain[w] :
                     chain'[w][i] = chain[w][i] \/ chain[w][i] = "in_flight"
               /\ InFlight(w)
               /\ \A i \in DOMAIN chain[w] :
                     chain'[w][i] = "in_flight" => chain[w][i] = "in_flight"
    <2>1. PICK i \in DOMAIN c, fate \in Fates \ {"in_flight"} :
                 /\ c[i] = "in_flight"
                 /\ chain' = [chain EXCEPT ![w] = [c EXCEPT ![i] = fate]]
      BY <1>3, <1>5
    <2>2. chain'[w] = [c EXCEPT ![i] = fate]
      BY <2>1 DEF Types
    <2> QED
      BY <1>1, <1>4, <2>1, <2>2 DEF InFlight, Types
  <1>6. /\ Len(Append(c, "in_flight")) = Len(c) + 1
        /\ DOMAIN Append(c, "in_flight") = DOMAIN c \cup {Len(c) + 1}
        /\ \A i \in DOMAIN c : Append(c, "in_flight")[i] = c[i]
    BY <1>1
  <1>7. ASSUME Broadcast(w)
        PROVE  /\ chain' \in [Withdrawals -> Seq(Fates)]
               /\ \A v \in Withdrawals \ {w} : chain'[v] = chain[v]
               /\ Len(chain'[w]) = Len(c) + 1
               /\ DOMAIN chain'[w] = DOMAIN c \cup {Len(c) + 1}
               /\ \A i \in DOMAIN c : chain'[w][i] = c[i]
    BY <1>2, <1>6, <1>7
  <1> QED
    BY <1>5, <1>7

LEMMA RowWrite ==
    ASSUME Types, NEW w \in Withdrawals, NEW new, WritesRow(w, new)
    PROVE  /\ row'[w] = new
           /\ \A v \in Withdrawals \ {w} : row'[v] = row[v]
           /\ new \in RowType => row' \in [Withdrawals -> RowType]
  BY DEF WritesRow, Types

LEMMA AppendFacts ==
    ASSUME NEW S, NEW s \in Seq(S), NEW e \in S
    PROVE  /\ Append(s, e) \in Seq(S)
           /\ DOMAIN Append(s, e) = DOMAIN s \cup {Len(s) + 1}
           /\ Append(s, e)[Len(s) + 1] = e
           /\ \A i \in DOMAIN s : Append(s, e)[i] = s[i]
  OBVIOUS

-----------------------------------------------------------------------------
(* Requests, redeliveries and the chain *)

LEMMA RequestStep ==
    ASSUME MintIInv, NEW w \in Withdrawals, Request(w)
    PROVE  MintIInv'
  <1> DEFINE new == Marked(row[w], "pending")
  <1> USE DEF MintIInv
  <1>1. row[w] \in RowType /\ "pending" \in Statuses
    BY DEF Types, Statuses
  <1>2. WritesRow(w, new)
    BY <1>1 DEF Request, WritesRow, Marked, Types
  <1>3. new \in RowType /\ new.status = "pending" /\ new.sig = row[w].sig
    BY <1>1, MarkedFacts
  <1>4. /\ row'[w] = new /\ \A v \in Withdrawals \ {w} : row'[v] = row[v]
        /\ row' \in [Withdrawals -> RowType]
    BY <1>2, <1>3, RowWrite
  <1>5. /\ w \notin unacked /\ chain[w] = <<>> /\ w \notin acked
        /\ \A i \in DOMAIN stream : stream[i] # w
        /\ \A m \in Workers : task[m] # w
        /\ row[w].status = "none"
    <2>1. row[w].status = "none" /\ "none" \notin Terminal
      BY DEF Request, Terminal
    <2>2. w # NoW
      OBVIOUS
    <2> QED
      BY <2>1, <2>2 DEF Exclusive, Fresh, AckedIsSettled
  <1>6. /\ stream' \in Seq(Withdrawals)
        /\ \/ stream' = stream
           \/ /\ DOMAIN stream' = DOMAIN stream \cup {Len(stream) + 1}
              /\ stream'[Len(stream) + 1] = w
              /\ \A i \in DOMAIN stream : stream'[i] = stream[i]
    <2>1. stream \in Seq(Withdrawals)
      BY DEF Types
    <2>2. /\ Append(stream, w) \in Seq(Withdrawals)
          /\ DOMAIN Append(stream, w) = DOMAIN stream \cup {Len(stream) + 1}
          /\ Append(stream, w)[Len(stream) + 1] = w
          /\ \A i \in DOMAIN stream : Append(stream, w)[i] = stream[i]
      BY <2>1, AppendFacts
    <2>3. stream' = stream \/ stream' = Append(stream, w)
      BY DEF Request
    <2>4. CASE stream' = stream
      BY <2>1, <2>4
    <2>5. CASE stream' = Append(stream, w)
      BY <2>2, <2>5
    <2> QED
      BY <2>3, <2>4, <2>5
  <1>7. Types'
    BY <1>4, <1>6 DEF Request, Types, workerVars
  <1>8. Exclusive'
    <2>1. \A i \in DOMAIN stream' : stream'[i] \notin unacked
      BY <1>5, <1>6 DEF Exclusive
    <2>2. \A i, j \in DOMAIN stream' : stream'[i] = stream'[j] => i = j
      BY <1>5, <1>6 DEF Exclusive
    <2>3. \A v \in Withdrawals : row'[v].status = "none" => v # w /\ row[v].status = "none"
      BY <1>3, <1>4
    <2>4. \A v \in Withdrawals : row'[v].status = "none" =>
            \A i \in DOMAIN stream' : stream'[i] # v
      BY <1>6, <2>3 DEF Exclusive
    <2> QED
      BY <2>1, <2>2, <2>3, <2>4 DEF Request, Exclusive, workerVars
  <1>9. Fresh'
    <2>1. AckedIsSettled'
      BY <1>4, <1>5 DEF Request, Fresh, AckedIsSettled, Types
    <2>2. \A m \in Workers : step[m] # "idle" => row'[task[m]] = row[task[m]]
      BY <1>4, <1>5 DEF Types
    <2> QED
      BY <2>1, <2>2 DEF Request, Fresh, FreshAt, workerVars
  <1>10. Chains'
    <2>1. recorded[w] = {} /\ ~InFlight(w)
      BY <1>5 DEF Chains, ChainAt, InFlight
    <2>2. ASSUME NEW v \in Withdrawals
          PROVE  ChainAt(v)'
      BY <1>3, <1>4, <2>1 DEF Request, Chains, ChainAt, Landed
    <2>3. \A i \in DOMAIN stream' : ~InFlight(stream[i])'
      BY <1>6, <2>1 DEF Request, Chains, InFlight
    <2>4. \A m \in Workers : HeldAt(m)'
      BY DEF Request, Chains, HeldAt, InFlight, workerVars
    <2> QED
      BY <2>2, <2>3, <2>4 DEF Chains
  <1> QED
    BY <1>7, <1>8, <1>9, <1>10

\* The operator waits until no worker has the entry and nothing is in flight.
LEMMA RedeliverStep ==
    ASSUME MintIInv, ~Prompt, NEW w \in Withdrawals, Redeliver(w)
    PROVE  MintIInv'
  <1> USE DEF MintIInv
  <1>1. /\ w \in unacked /\ ~InFlight(w) /\ \A m \in Workers : task[m] # w
        /\ unacked' = unacked \ {w} /\ row[w].status # "none"
        /\ \A i \in DOMAIN stream : stream[i] # w
    BY DEF Redeliver, InHand, Exclusive
  <1>2. /\ stream' \in Seq(Withdrawals)
        /\ DOMAIN stream' = DOMAIN stream \cup {Len(stream) + 1}
        /\ stream'[Len(stream) + 1] = w
        /\ \A i \in DOMAIN stream : stream'[i] = stream[i]
    BY DEF Redeliver, Types
  <1>3. Types'
    BY <1>1, <1>2 DEF Redeliver, Types, workerVars
  <1>4. Exclusive'
    BY <1>1, <1>2 DEF Redeliver, Exclusive, workerVars
  <1>5. Fresh'
    BY DEF Redeliver, Fresh, FreshAt, AckedIsSettled, workerVars
  <1>6. Chains'
    <2>1. \A i \in DOMAIN stream' : ~InFlight(stream[i])'
      BY <1>1, <1>2 DEF Redeliver, Chains, InFlight
    <2> QED
      BY <2>1 DEF Redeliver, Chains, ChainAt, HeldAt, Landed, InFlight, workerVars
  <1> QED
    BY <1>3, <1>4, <1>5, <1>6

LEMMA SettleStep ==
    ASSUME MintIInv, NEW w \in Withdrawals, Settle(w)
    PROVE  MintIInv'
  <1> USE DEF MintIInv
  <1>1. /\ chain' \in [Withdrawals -> Seq(Fates)]
        /\ \A v \in Withdrawals \ {w} : chain'[v] = chain[v]
        /\ Len(chain'[w]) = Len(chain[w]) /\ DOMAIN chain'[w] = DOMAIN chain[w]
        /\ \A i \in DOMAIN chain[w] :
              /\ chain'[w][i] = chain[w][i] \/ chain[w][i] = "in_flight"
              /\ chain'[w][i] = "in_flight" => chain[w][i] = "in_flight"
        /\ InFlight(w)
    BY ChainSteps
  <1>2. /\ \A v \in Withdrawals : DOMAIN chain'[v] = DOMAIN chain[v] /\ Len(chain'[v]) = Len(chain[v])
        /\ \A v \in Withdrawals : \A i \in DOMAIN chain[v] :
              /\ chain[v][i] # "in_flight" => chain'[v][i] = chain[v][i]
              /\ chain'[v][i] = "in_flight" => chain[v][i] = "in_flight"
    BY <1>1
  <1>3. \A v \in Withdrawals : ~InFlight(v) => ~InFlight(v)'
    BY <1>2 DEF InFlight
  <1>4. Types'
    BY <1>1 DEF Settle, Types, workerVars, streamVars
  <1>5. Exclusive'
    <2>1. chain[w] # <<>>
      BY <1>1 DEF InFlight
    <2> QED
      BY <1>1, <2>1 DEF Settle, Exclusive, workerVars, streamVars
  <1>6. Fresh'
    BY DEF Settle, Fresh, FreshAt, AckedIsSettled, workerVars, streamVars
  <1>7. Chains'
    <2>1. \A v \in Withdrawals : \A i \in DOMAIN chain[v] :
            chain[v][i] \in Dead => chain'[v][i] \in Dead
      BY <1>2 DEF Dead
    <2>2. ASSUME NEW v \in Withdrawals
          PROVE  ChainAt(v)'
      <3>1. Landed(v) \subseteq Landed(v)'
        BY <1>2 DEF Landed
      <3> QED
        BY <1>2, <2>1, <3>1 DEF Settle, Chains, ChainAt
    <2>3. \A i \in DOMAIN stream' : ~InFlight(stream[i])'
      BY <1>3 DEF Settle, Chains, Types, streamVars
    <2>4. ASSUME NEW m \in Workers
          PROVE  HeldAt(m)'
      <3>1. step[m] # "idle" => task[m] \in Withdrawals
        BY DEF Types
      <3>2. step[m] \in {"load", "reconcile", "claim", "submit"} => ~InFlight(task[m])'
        BY <1>3, <3>1 DEF Settle, Chains, HeldAt, workerVars
      <3>3. /\ step[m] \in {"claim", "submit", "persist"} =>
                  \A i \in recorded[task[m]] : chain'[task[m]][i] \in Dead
            /\ step[m] \in {"persist", "confirm"} => sent[m] \in DOMAIN chain'[task[m]]
        BY <1>2, <2>1, <3>1 DEF Chains, HeldAt, ChainAt
      <3> QED
        BY <3>2, <3>3 DEF Settle, HeldAt, workerVars
    <2> QED
      BY <2>2, <2>3, <2>4 DEF Chains
  <1> QED
    BY <1>4, <1>5, <1>6, <1>7

-----------------------------------------------------------------------------
(* The worker *)

OthersAlone(m, w) ==
    /\ \A n \in Workers \ {m} : /\ step'[n] = step[n] /\ task'[n] = task[n]
                                /\ mem'[n] = mem[n] /\ sent'[n] = sent[n]
    /\ \A v \in Withdrawals \ {w} : /\ row'[v] = row[v] /\ chain'[v] = chain[v]
                                    /\ recorded'[v] = recorded[v]
    /\ stream' = stream

\* What one worker does to its own withdrawal leaves the others' alone.
LEMMA WorkerStep ==
    ASSUME Types, Types', Exclusive, Fresh, Chains, NEW m \in Workers,
           NEW w \in Withdrawals, w = task[m], OthersAlone(m, w),
           \/ task'[m] = w /\ unacked' = unacked /\ acked' = acked
           \/ /\ task'[m] = NoW /\ step'[m] = "idle"
              /\ unacked' \in {unacked, unacked \ {w}}
              /\ \/ acked' = acked
                 \/ acked' = acked \cup {w} /\ row'[w].status \in Terminal,
           row'[w].status # "none",
           row[w].status \in Terminal => row'[w].status \in Terminal,
           FreshAt(m)', HeldAt(m)', ChainAt(w)'
    PROVE  MintIInv'
  <1>1. /\ w # NoW /\ w \in unacked /\ \A n \in Workers \ {m} : task[n] # w
        /\ \A i \in DOMAIN stream : stream[i] # w
    BY DEF Exclusive
  <1>2. Exclusive'
    <2>1. \A n \in Workers : task'[n] # NoW => task'[n] = task[n]
      BY DEF OthersAlone
    <2>2. /\ \A n \in Workers : task'[n] # NoW => task'[n] \in unacked'
          /\ \A n, o \in Workers : task'[n] # NoW /\ task'[n] = task'[o] => n = o
      BY <1>1, <2>1 DEF Exclusive
    <2>3. unacked' \subseteq unacked
      OBVIOUS
    <2>4. \A v \in Withdrawals : row'[v].status = "none" =>
            v # w /\ row[v].status = "none" /\ chain'[v] = chain[v]
      BY DEF OthersAlone
    <2> QED
      BY <2>2, <2>3, <2>4 DEF Exclusive, OthersAlone
  <1>3. \A n \in Workers \ {m} : step[n] # "idle" => task[n] \in Withdrawals \ {w}
    BY <1>1 DEF Types
  <1>4. Fresh'
    <2>1. AckedIsSettled'
      <3>1. \/ acked' = acked
            \/ acked' = acked \cup {w} /\ row'[w].status \in Terminal
        OBVIOUS
      <3>2. \A v \in acked : v \in Withdrawals /\ row[v].status \in Terminal
        BY DEF Fresh, AckedIsSettled, Types
      <3>3. \A v \in acked : row'[v].status \in Terminal
        BY <3>2 DEF OthersAlone
      <3> QED
        BY <3>1, <3>3 DEF AckedIsSettled
    <2>2. ASSUME NEW n \in Workers \ {m}
          PROVE  FreshAt(n)'
      BY <1>3 DEF Fresh, FreshAt, OthersAlone
    <2> QED
      BY <2>1, <2>2 DEF Fresh
  <1>5. Chains'
    <2>1. ASSUME NEW v \in Withdrawals \ {w}
          PROVE  ChainAt(v)'
      BY DEF Chains, ChainAt, Landed, OthersAlone
    <2>2. ASSUME NEW n \in Workers \ {m}
          PROVE  HeldAt(n)'
      BY <1>3 DEF Chains, HeldAt, InFlight, OthersAlone
    <2>3. \A i \in DOMAIN stream' : ~InFlight(stream[i])'
      <3>1. \A i \in DOMAIN stream : stream[i] \in Withdrawals \ {w}
        BY <1>1 DEF Types
      <3> QED
        BY <3>1 DEF Chains, InFlight, OthersAlone
    <2> QED
      BY <2>1, <2>2, <2>3 DEF Chains
  <1> QED
    BY <1>2, <1>4, <1>5 DEF MintIInv

\* The worker loop's end of an entry is the same wherever it comes.
LEMMA DoneFacts ==
    ASSUME Types, NEW m \in Workers, Done(m)
    PROVE  /\ step' \in [Workers -> Steps] /\ task' \in [Workers -> Withdrawals \cup {NoW}]
           /\ mem' \in [Workers -> RowType] /\ sent' \in [Workers -> Nat]
           /\ \A n \in Workers : step'[n] = "idle" <=> task'[n] = NoW
           /\ step'[m] = "idle" /\ task'[m] = NoW
           /\ \A n \in Workers \ {m} : /\ step'[n] = step[n] /\ task'[n] = task[n]
                                       /\ mem'[n] = mem[n] /\ sent'[n] = sent[n]
           /\ FreshAt(m)' /\ HeldAt(m)'
  <1>1. NoRow \in RowType
    BY DEF NoRow, RowType, Statuses
  <1> QED
    BY <1>1 DEF Done, Goto, Types, Steps, FreshAt, HeldAt

\* A withdrawal in a worker's hands was requested.
LEMMA InHandFacts ==
    ASSUME MintIInv, NEW m \in Workers, step[m] # "idle"
    PROVE  /\ task[m] \in Withdrawals /\ task[m] # NoW /\ row[task[m]] \in RowType
           /\ row[task[m]].status # "none" /\ ChainAt(task[m]) /\ FreshAt(m) /\ HeldAt(m)
           /\ chain[task[m]] \in Seq(Fates)
  BY DEF MintIInv, Types, Exclusive, Fresh, Chains

LEMMA DeliverStep ==
    ASSUME MintIInv, NEW m \in Workers, Deliver(m)
    PROVE  MintIInv'
  <1> DEFINE w == Head(stream)
  <1> USE DEF MintIInv
  <1>1. /\ w \in Withdrawals /\ w = stream[1] /\ 1 \in DOMAIN stream
        /\ Tail(stream) \in Seq(Withdrawals)
        /\ \A i \in DOMAIN Tail(stream) :
              i + 1 \in DOMAIN stream /\ i + 1 # 1 /\ Tail(stream)[i] = stream[i + 1]
    BY DEF Deliver, Types
  <1>2. /\ w \notin unacked /\ ~InFlight(w) /\ row[w].status # "none" /\ w # NoW
        /\ \A n \in Workers : task[n] # w
        /\ \A i \in DOMAIN Tail(stream) : Tail(stream)[i] # w
    BY <1>1 DEF Exclusive, Chains
  <1>3. Types'
    BY <1>1, <1>2 DEF Deliver, Goto, Types, Steps
  <1>4. Exclusive'
    <2>1. /\ \A i \in DOMAIN stream' : stream'[i] \notin unacked'
          /\ \A i, j \in DOMAIN stream' : stream'[i] = stream'[j] => i = j
      BY <1>1, <1>2 DEF Deliver, Exclusive
    <2>2. /\ \A n \in Workers : task'[n] # NoW => task'[n] \in unacked'
          /\ \A n, o \in Workers : task'[n] # NoW /\ task'[n] = task'[o] => n = o
      BY <1>2 DEF Deliver, Exclusive, Types
    <2> QED
      BY <1>1, <1>2, <2>1, <2>2 DEF Deliver, Exclusive
  <1>5. Fresh'
    BY DEF Deliver, Goto, Fresh, FreshAt, AckedIsSettled, Types
  <1>6. Chains'
    <2>1. \A i \in DOMAIN stream' : ~InFlight(stream[i])'
      BY <1>1 DEF Deliver, Chains, InFlight
    <2>2. \A n \in Workers : HeldAt(n)'
      BY <1>2 DEF Deliver, Goto, Chains, HeldAt, InFlight, Types
    <2>3. \A v \in Withdrawals : ChainAt(v)'
      BY DEF Deliver, Chains, ChainAt, Landed
    <2> QED
      BY <2>1, <2>2, <2>3 DEF Chains
  <1> QED
    BY <1>3, <1>4, <1>5, <1>6

LEMMA LoadStep ==
    ASSUME MintIInv, NEW m \in Workers, Load(m)
    PROVE  MintIInv'
  <1> DEFINE w == task[m]
             r == row[w]
  <1>1. step[m] = "load"
    BY DEF Load
  <1>2. /\ w \in Withdrawals /\ r \in RowType /\ r.status # "none" /\ w # NoW
        /\ ChainAt(w) /\ HeldAt(m) /\ chain[w] \in Seq(Fates)
    BY <1>1, InHandFacts
  <1>3. /\ StepAfterLoad(r) \in {"ack", "reconcile", "claim"}
        /\ StepAfterLoad(r) = "ack" => r.status \in Terminal
        /\ StepAfterLoad(r) = "reconcile" => r.status \notin Terminal /\ r.sig # 0
        /\ StepAfterLoad(r) = "claim" => r.status \notin Terminal /\ r.sig = 0
    BY DEF StepAfterLoad
  <1>4. /\ step' \in [Workers -> Steps] /\ step'[m] = StepAfterLoad(r)
        /\ mem' \in [Workers -> RowType] /\ mem'[m] = r
        /\ \A n \in Workers \ {m} : step'[n] = step[n] /\ mem'[n] = mem[n]
    BY <1>2, <1>3 DEF Load, Goto, MintIInv, Types, Steps
  <1>5. Types'
    BY <1>1, <1>3, <1>4 DEF Load, MintIInv, Types, streamVars
  <1>6. FreshAt(m)'
    BY <1>3, <1>4 DEF Load, FreshAt, streamVars
  <1>7. ChainAt(w)'
    BY <1>2 DEF Load, ChainAt, Landed, streamVars
  <1>8. HeldAt(m)'
    <2>1. r.sig = 0 => \A i \in recorded[w] : chain[w][i] \in Dead
      BY <1>2 DEF ChainAt
    <2> QED
      BY <1>1, <1>2, <1>3, <1>4, <2>1 DEF Load, HeldAt, InFlight, streamVars
  <1>9. OthersAlone(m, w)
    BY <1>4 DEF Load, OthersAlone, streamVars
  <1> QED
    BY <1>2, <1>5, <1>6, <1>7, <1>8, <1>9, WorkerStep DEF Load, MintIInv, streamVars

\* A step that writes the row, and the copy, of a worker past its load.
LEMMA WriteFacts ==
    ASSUME Types, NEW m \in Workers, task[m] \in Withdrawals, NEW new \in RowType,
           Writes(m, new), NEW to \in Steps \ {"idle"}, step[m] # "idle", Goto(m, to)
    PROVE  /\ row' \in [Withdrawals -> RowType] /\ row'[task[m]] = new
           /\ \A v \in Withdrawals \ {task[m]} : row'[v] = row[v]
           /\ mem' \in [Workers -> RowType] /\ mem'[m] = new
           /\ step' \in [Workers -> Steps] /\ step'[m] = to
           /\ \A n \in Workers \ {m} : mem'[n] = mem[n] /\ step'[n] = step[n]
           /\ task' = task => \A n \in Workers : step'[n] = "idle" <=> task'[n] = NoW
  BY DEF Types, Writes, WritesRow, Goto, Steps

LEMMA ReconcileStep ==
    ASSUME MintIInv, NEW m \in Workers, Reconcile(m)
    PROVE  MintIInv'
  <1> DEFINE w == task[m]
             r == row[w]
  <1>1. step[m] = "reconcile"
    BY DEF Reconcile
  <1>2. /\ w \in Withdrawals /\ r \in RowType /\ r.status # "none" /\ w # NoW
        /\ ChainAt(w) /\ HeldAt(m) /\ FreshAt(m) /\ chain[w] \in Seq(Fates)
    BY <1>1, InHandFacts
  <1>3. mem[m] = r /\ r.status \notin Terminal /\ r.sig \in DOMAIN chain[w] /\ ~InFlight(w)
    BY <1>1, <1>2 DEF FreshAt, ChainAt, HeldAt
  <1>4. CASE OnChain(w, mem[m].sig)
    <2> DEFINE new == Marked(r, "confirmed")
    <2>1. Writes(m, new) /\ Goto(m, "ack")
      BY <1>1, <1>4, RowSteps DEF Reconcile, MintIInv
    <2>2. new \in RowType /\ new.status = "confirmed" /\ new.sig = r.sig
      <3>1. "confirmed" \in Statuses
        BY DEF Statuses
      <3> QED
        BY <1>2, <3>1, MarkedFacts
    <2>3. /\ row' \in [Withdrawals -> RowType] /\ row'[w] = new
          /\ \A v \in Withdrawals \ {w} : row'[v] = row[v]
          /\ mem' \in [Workers -> RowType] /\ mem'[m] = new
          /\ step' \in [Workers -> Steps] /\ step'[m] = "ack"
          /\ \A n \in Workers \ {m} : mem'[n] = mem[n] /\ step'[n] = step[n]
          /\ \A n \in Workers : step'[n] = "idle" <=> task'[n] = NoW
      <3>1. "ack" \in Steps \ {"idle"}
        BY DEF Steps
      <3> QED
        BY <1>1, <1>2, <2>1, <2>2, <3>1, WriteFacts DEF MintIInv, Reconcile
    <2>4. Types'
      BY <2>3 DEF Reconcile, MintIInv, Types, streamVars
    <2>5. FreshAt(m)' /\ HeldAt(m)'
      BY <2>2, <2>3 DEF Reconcile, FreshAt, HeldAt, Terminal
    <2>6. ChainAt(w)'
      BY <1>2, <1>3, <1>4, <2>2, <2>3 DEF Reconcile, ChainAt, Landed, OnChain
    <2>7. OthersAlone(m, w)
      BY <2>3 DEF Reconcile, OthersAlone, streamVars
    <2> QED
      BY <1>2, <1>3, <2>2, <2>3, <2>4, <2>5, <2>6, <2>7, WorkerStep DEF Reconcile, MintIInv, streamVars
  <1>5. CASE ~OnChain(w, mem[m].sig)
    <2>1. /\ step' = [step EXCEPT ![m] = "claim"]
          /\ UNCHANGED <<row, mem, streamVars, task, sent, chain, recorded, bounds>>
      BY <1>5 DEF Reconcile, Goto
    <2>2. Types'
      BY <1>1, <2>1 DEF MintIInv, Types, Steps, streamVars
    <2>3. chain[w][r.sig] \in Dead
      BY <1>2, <1>3, <1>5 DEF OnChain, InFlight, Fates, Dead
    <2>4. HeldAt(m)'
      BY <1>2, <1>3, <2>1, <2>3 DEF HeldAt, ChainAt, InFlight, MintIInv, Types
    <2>5. FreshAt(m)'
      BY <1>3, <2>1 DEF FreshAt, MintIInv, Types
    <2>6. ChainAt(w)'
      BY <1>2, <2>1 DEF ChainAt, Landed
    <2>7. OthersAlone(m, w)
      BY <2>1 DEF OthersAlone, streamVars
    <2> QED
      BY <1>2, <2>1, <2>2, <2>4, <2>5, <2>6, <2>7, WorkerStep DEF MintIInv, streamVars
  <1> QED
    BY <1>4, <1>5

LEMMA ClaimStep ==
    ASSUME MintIInv, NEW m \in Workers, Claim(m)
    PROVE  MintIInv'
  <1> DEFINE w == task[m]
             r == row[w]
             new == Claimed(r)
  <1>1. step[m] = "claim"
    BY DEF Claim
  <1>2. /\ w \in Withdrawals /\ r \in RowType /\ r.status # "none" /\ w # NoW
        /\ ChainAt(w) /\ HeldAt(m) /\ FreshAt(m)
    BY <1>1, InHandFacts
  <1>3. r.status \notin Terminal
    BY <1>1, <1>2 DEF FreshAt
  <1>4. Writes(m, new) /\ Goto(m, "submit")
    BY <1>1, RowSteps DEF Claim, MintIInv
  <1>5. new \in RowType /\ new.status = "minting" /\ new.sig = r.sig
    BY <1>2, ClaimedFacts
  <1>6. /\ row' \in [Withdrawals -> RowType] /\ row'[w] = new
        /\ \A v \in Withdrawals \ {w} : row'[v] = row[v]
        /\ mem' \in [Workers -> RowType] /\ mem'[m] = new
        /\ step' \in [Workers -> Steps] /\ step'[m] = "submit"
        /\ \A n \in Workers \ {m} : mem'[n] = mem[n] /\ step'[n] = step[n]
        /\ \A n \in Workers : step'[n] = "idle" <=> task'[n] = NoW
    <2>1. "submit" \in Steps \ {"idle"}
      BY DEF Steps
    <2> QED
      BY <1>1, <1>2, <1>4, <1>5, <2>1, WriteFacts DEF MintIInv, Claim
  <1>7. Types'
    BY <1>6 DEF Claim, MintIInv, Types, streamVars
  <1>8. FreshAt(m)' /\ HeldAt(m)'
    BY <1>1, <1>2, <1>5, <1>6 DEF Claim, FreshAt, HeldAt, InFlight, Terminal
  <1>9. ChainAt(w)'
    BY <1>2, <1>5, <1>6 DEF Claim, ChainAt, Landed
  <1>10. OthersAlone(m, w)
    BY <1>6 DEF Claim, OthersAlone, streamVars
  <1> QED
    BY <1>2, <1>3, <1>5, <1>6, <1>7, <1>8, <1>9, <1>10, WorkerStep DEF Claim, MintIInv, streamVars

LEMMA SubmitStep ==
    ASSUME MintIInv, NEW m \in Workers, Submit(m)
    PROVE  MintIInv'
  <1> DEFINE w == task[m]
  <1>1. step[m] = "submit"
    BY DEF Submit
  <1>2. /\ w \in Withdrawals /\ row[w].status # "none" /\ w # NoW
        /\ ChainAt(w) /\ HeldAt(m) /\ FreshAt(m) /\ chain[w] \in Seq(Fates)
    BY <1>1, InHandFacts
  <1>3. /\ chain' \in [Withdrawals -> Seq(Fates)]
        /\ \A v \in Withdrawals \ {w} : chain'[v] = chain[v]
        /\ Len(chain'[w]) = Len(chain[w]) + 1
        /\ DOMAIN chain'[w] = DOMAIN chain[w] \cup {Len(chain[w]) + 1}
        /\ \A i \in DOMAIN chain[w] : chain'[w][i] = chain[w][i]
    BY <1>2, ChainSteps DEF Submit, MintIInv
  <1>4. /\ step' \in [Workers -> Steps] /\ step'[m] = "persist"
        /\ sent' \in [Workers -> Nat] /\ sent'[m] = Len(chain[w]) + 1
        /\ \A n \in Workers \ {m} : step'[n] = step[n] /\ sent'[n] = sent[n]
        /\ \A n \in Workers : step'[n] = "idle" <=> task'[n] = NoW
    <2>1. Len(chain[w]) + 1 \in Nat
      BY <1>2
    <2> QED
      BY <1>1, <2>1 DEF Submit, Goto, MintIInv, Types, Steps
  <1>5. Types'
    BY <1>3, <1>4 DEF Submit, MintIInv, Types, streamVars
  <1>6. FreshAt(m)'
    BY <1>1, <1>2, <1>4 DEF Submit, FreshAt
  <1>7. HeldAt(m)'
    BY <1>1, <1>2, <1>3, <1>4 DEF Submit, HeldAt, ChainAt
  <1>8. ChainAt(w)'
    <2>1. Landed(w) \subseteq Landed(w)'
      BY <1>3 DEF Landed, Submit
    <2>2. row[w].sig \in 0 .. (Len(chain[w]) + 1)
      BY <1>2 DEF ChainAt
    <2> QED
      BY <1>2, <1>3, <2>1, <2>2 DEF Submit, ChainAt
  <1>9. OthersAlone(m, w)
    BY <1>3, <1>4 DEF Submit, OthersAlone, streamVars
  <1> QED
    BY <1>2, <1>5, <1>6, <1>7, <1>8, <1>9, WorkerStep DEF Submit, MintIInv, streamVars

LEMMA SubmitFailsStep ==
    ASSUME MintIInv, NEW m \in Workers, NEW w \in Withdrawals, w = task[m], SubmitFails(m)
    PROVE  MintIInv'
  <1> DEFINE r == row[w]
  <1>1. step[m] = "submit"
    BY DEF SubmitFails
  <1>2. /\ w \in Withdrawals /\ r \in RowType /\ r.status # "none" /\ w # NoW
        /\ ChainAt(w) /\ FreshAt(m) /\ chain[w] \in Seq(Fates)
    BY <1>1, InHandFacts
  <1>3. r.status \notin Terminal
    BY <1>1, <1>2 DEF FreshAt
  <1>4. /\ chain' \in [Withdrawals -> Seq(Fates)]
        /\ \A v \in Withdrawals \ {w} : chain'[v] = chain[v]
        /\ Len(chain[w]) <= Len(chain'[w])
        /\ DOMAIN chain[w] \subseteq DOMAIN chain'[w]
        /\ \A i \in DOMAIN chain[w] : chain'[w][i] = chain[w][i]
    <2>1. Broadcast(w) \/ UNCHANGED chain
      BY DEF SubmitFails
    <2>2. CASE Broadcast(w)
      BY <1>2, <2>2, ChainSteps DEF MintIInv
    <2>3. CASE UNCHANGED chain
      BY <1>2, <2>3 DEF MintIInv, Types
    <2> QED
      BY <2>1, <2>2, <2>3
  <1>8. UNCHANGED <<stream, unacked, acked, recorded>>
    BY DEF SubmitFails, streamVars
  <1>5. ASSUME NEW new \in RowType, row'[w] = new, new.sig = r.sig, new.status # "confirmed"
        PROVE  ChainAt(w)'
    <2>1. r.sig \in 0 .. Len(chain'[w])
      BY <1>2, <1>4 DEF ChainAt, MintIInv, Types
    <2> QED
      BY <1>2, <1>4, <1>5, <1>8, <2>1 DEF ChainAt
  <1>6. CASE Writes(m, Marked(r, "failed")) /\ Goto(m, "ack") /\ UNCHANGED <<task, sent>>
    <2> DEFINE new == Marked(r, "failed")
    <2>1. new \in RowType /\ new.status = "failed" /\ new.sig = r.sig
      <3>1. "failed" \in Statuses
        BY DEF Statuses
      <3> QED
        BY <1>2, <3>1, MarkedFacts
    <2>2. /\ row' \in [Withdrawals -> RowType] /\ row'[w] = new
          /\ \A v \in Withdrawals \ {w} : row'[v] = row[v]
          /\ mem' \in [Workers -> RowType] /\ mem'[m] = new
          /\ step' \in [Workers -> Steps] /\ step'[m] = "ack"
          /\ \A n \in Workers \ {m} : mem'[n] = mem[n] /\ step'[n] = step[n]
          /\ \A n \in Workers : step'[n] = "idle" <=> task'[n] = NoW
      <3>1. "ack" \in Steps \ {"idle"}
        BY DEF Steps
      <3> QED
        BY <1>1, <1>2, <1>6, <2>1, <3>1, WriteFacts DEF MintIInv
    <2>3. Types'
      BY <1>4, <1>6, <2>2 DEF SubmitFails, MintIInv, Types, streamVars
    <2>4. FreshAt(m)' /\ HeldAt(m)'
      BY <1>6, <2>1, <2>2 DEF FreshAt, HeldAt, Terminal
    <2>5. ChainAt(w)'
      BY <1>5, <2>1, <2>2
    <2>6. OthersAlone(m, w)
      BY <1>4, <1>6, <2>2 DEF SubmitFails, OthersAlone, streamVars
    <2> QED
      BY <1>2, <1>3, <1>6, <2>1, <2>2, <2>3, <2>4, <2>5, <2>6, WorkerStep, <1>8
         DEF MintIInv
  <1>7. CASE WritesRow(w, Marked(r, "pending")) /\ Done(m)
    <2> DEFINE new == Marked(r, "pending")
    <2>1. new \in RowType /\ new.status = "pending" /\ new.sig = r.sig
      <3>1. "pending" \in Statuses
        BY DEF Statuses
      <3> QED
        BY <1>2, <3>1, MarkedFacts
    <2>2. /\ row' \in [Withdrawals -> RowType] /\ row'[w] = new
          /\ \A v \in Withdrawals \ {w} : row'[v] = row[v]
      BY <1>2, <1>7, <2>1, RowWrite DEF MintIInv
    <2>3. /\ Types' /\ step'[m] = "idle" /\ task'[m] = NoW
          /\ \A n \in Workers \ {m} : /\ step'[n] = step[n] /\ task'[n] = task[n]
                                      /\ mem'[n] = mem[n] /\ sent'[n] = sent[n]
          /\ FreshAt(m)' /\ HeldAt(m)'
      BY <1>4, <1>7, <2>2, DoneFacts DEF SubmitFails, MintIInv, Types, streamVars
    <2>4. ChainAt(w)'
      BY <1>5, <2>1, <2>2
    <2>5. OthersAlone(m, w)
      BY <1>4, <2>2, <2>3 DEF SubmitFails, OthersAlone, streamVars
    <2> QED
      BY <1>2, <1>3, <1>8, <2>1, <2>2, <2>3, <2>4, <2>5, WorkerStep DEF MintIInv
  <1> QED
    BY <1>1, <1>6, <1>7, RowSteps DEF MintIInv

LEMMA PersistStep ==
    ASSUME MintIInv, NEW m \in Workers, Persist(m)
    PROVE  MintIInv'
  <1> DEFINE w == task[m]
             r == row[w]
             new == Signed(r, sent[m])
  <1>1. step[m] = "persist"
    BY DEF Persist
  <1>2. /\ w \in Withdrawals /\ r \in RowType /\ r.status # "none" /\ w # NoW
        /\ ChainAt(w) /\ HeldAt(m) /\ FreshAt(m) /\ chain[w] \in Seq(Fates)
    BY <1>1, InHandFacts
  <1>3. /\ r.status \notin Terminal /\ sent[m] \in DOMAIN chain[w] /\ sent[m] \in Nat
        /\ \A i \in recorded[w] : chain[w][i] \in Dead
    BY <1>1, <1>2 DEF FreshAt, HeldAt, MintIInv, Types
  <1>4. Writes(m, new) /\ Goto(m, "confirm")
    BY <1>1, RowSteps DEF Persist, MintIInv
  <1>5. new \in RowType /\ new.status = r.status /\ new.sig = sent[m]
    BY <1>2, <1>3, SignedFacts
  <1>6. /\ row' \in [Withdrawals -> RowType] /\ row'[w] = new
        /\ \A v \in Withdrawals \ {w} : row'[v] = row[v]
        /\ mem' \in [Workers -> RowType] /\ mem'[m] = new
        /\ step' \in [Workers -> Steps] /\ step'[m] = "confirm"
        /\ \A n \in Workers \ {m} : mem'[n] = mem[n] /\ step'[n] = step[n]
        /\ \A n \in Workers : step'[n] = "idle" <=> task'[n] = NoW
    <2>1. "confirm" \in Steps \ {"idle"}
      BY DEF Steps
    <2> QED
      BY <1>1, <1>2, <1>4, <1>5, <2>1, WriteFacts DEF MintIInv, Persist
  <1>7. /\ recorded' \in [Withdrawals -> SUBSET Nat]
        /\ recorded'[w] = recorded[w] \cup {sent[m]}
        /\ \A v \in Withdrawals \ {w} : recorded'[v] = recorded[v]
    BY <1>2, <1>3 DEF Persist, MintIInv, Types
  <1>8. Types'
    BY <1>6, <1>7 DEF Persist, MintIInv, Types, streamVars
  <1>9. FreshAt(m)' /\ HeldAt(m)'
    BY <1>2, <1>3, <1>5, <1>6 DEF Persist, FreshAt, HeldAt
  <1>10. ChainAt(w)'
    BY <1>2, <1>3, <1>5, <1>6, <1>7 DEF Persist, ChainAt, Landed, Terminal
  <1>11. OthersAlone(m, w)
    BY <1>6, <1>7 DEF Persist, OthersAlone, streamVars
  <1> QED
    BY <1>2, <1>3, <1>5, <1>6, <1>8, <1>9, <1>10, <1>11, WorkerStep DEF Persist, MintIInv, streamVars

LEMMA ConfirmStep ==
    ASSUME MintIInv, NEW m \in Workers, Confirm(m)
    PROVE  MintIInv'
  <1> DEFINE w == task[m]
             r == row[w]
             new == Marked(r, "confirmed")
  <1>1. step[m] = "confirm"
    BY DEF Confirm
  <1>2. /\ w \in Withdrawals /\ r \in RowType /\ r.status # "none" /\ w # NoW
        /\ ChainAt(w) /\ HeldAt(m) /\ FreshAt(m) /\ chain[w] \in Seq(Fates)
    BY <1>1, InHandFacts
  <1>3. r.status \notin Terminal /\ sent[m] \in Landed(w)
    BY <1>1, <1>2 DEF FreshAt, HeldAt, Confirm, OnChain, Landed
  <1>4. Writes(m, new) /\ Goto(m, "ack")
    BY <1>1, RowSteps DEF Confirm, MintIInv
  <1>5. new \in RowType /\ new.status = "confirmed" /\ new.sig = r.sig
    <2>1. "confirmed" \in Statuses
      BY DEF Statuses
    <2> QED
      BY <1>2, <2>1, MarkedFacts
  <1>6. /\ row' \in [Withdrawals -> RowType] /\ row'[w] = new
        /\ \A v \in Withdrawals \ {w} : row'[v] = row[v]
        /\ mem' \in [Workers -> RowType] /\ mem'[m] = new
        /\ step' \in [Workers -> Steps] /\ step'[m] = "ack"
        /\ \A n \in Workers \ {m} : mem'[n] = mem[n] /\ step'[n] = step[n]
        /\ \A n \in Workers : step'[n] = "idle" <=> task'[n] = NoW
    <2>1. "ack" \in Steps \ {"idle"}
      BY DEF Steps
    <2> QED
      BY <1>1, <1>2, <1>4, <1>5, <2>1, WriteFacts DEF MintIInv, Confirm
  <1>7. Types'
    BY <1>6 DEF Confirm, MintIInv, Types, streamVars
  <1>8. FreshAt(m)' /\ HeldAt(m)'
    BY <1>5, <1>6 DEF Confirm, FreshAt, HeldAt, Terminal
  <1>9. ChainAt(w)'
    BY <1>2, <1>3, <1>5, <1>6 DEF Confirm, ChainAt, Landed
  <1>10. OthersAlone(m, w)
    BY <1>6 DEF Confirm, OthersAlone, streamVars
  <1> QED
    BY <1>2, <1>3, <1>5, <1>6, <1>7, <1>8, <1>9, <1>10, WorkerStep DEF Confirm, MintIInv, streamVars

LEMMA ConfirmFailsStep ==
    ASSUME MintIInv, NEW m \in Workers, NEW w \in Withdrawals, w = task[m], ConfirmFails(m)
    PROVE  MintIInv'
  <1> DEFINE r == row[w]
  <1>1. step[m] = "confirm" /\ UNCHANGED <<stream, unacked, acked, chain, recorded>>
    BY DEF ConfirmFails, streamVars
  <1>2. /\ r \in RowType /\ r.status # "none" /\ w # NoW
        /\ ChainAt(w) /\ HeldAt(m) /\ FreshAt(m)
    BY <1>1, InHandFacts
  <1>3. r.status \notin Terminal
    BY <1>1, <1>2 DEF FreshAt
  <1>4. CASE Writes(m, Marked(r, "failed")) /\ Goto(m, "ack") /\ UNCHANGED <<task, sent>>
    <2> DEFINE new == Marked(r, "failed")
    <2>1. new \in RowType /\ new.status = "failed" /\ new.sig = r.sig
      <3>1. "failed" \in Statuses
        BY DEF Statuses
      <3> QED
        BY <1>2, <3>1, MarkedFacts
    <2>2. /\ row' \in [Withdrawals -> RowType] /\ row'[w] = new
          /\ \A v \in Withdrawals \ {w} : row'[v] = row[v]
          /\ mem' \in [Workers -> RowType] /\ mem'[m] = new
          /\ step' \in [Workers -> Steps] /\ step'[m] = "ack"
          /\ \A n \in Workers \ {m} : mem'[n] = mem[n] /\ step'[n] = step[n]
          /\ \A n \in Workers : step'[n] = "idle" <=> task'[n] = NoW
      <3>1. "ack" \in Steps \ {"idle"}
        BY DEF Steps
      <3> QED
        BY <1>1, <1>2, <1>4, <2>1, <3>1, WriteFacts DEF MintIInv
    <2>3. Types'
      BY <1>1, <1>4, <2>2 DEF MintIInv, Types
    <2>4. FreshAt(m)' /\ HeldAt(m)'
      BY <1>4, <2>1, <2>2 DEF FreshAt, HeldAt, Terminal
    <2>5. ChainAt(w)'
      BY <1>1, <1>2, <2>1, <2>2 DEF ChainAt
    <2>6. OthersAlone(m, w)
      BY <1>1, <1>4, <2>2 DEF OthersAlone
    <2> QED
      BY <1>1, <1>2, <1>3, <1>4, <2>1, <2>2, <2>3, <2>4, <2>5, <2>6, WorkerStep DEF MintIInv
  <1>5. CASE UNCHANGED row /\ Done(m)
    <2>1. /\ Types' /\ step'[m] = "idle" /\ task'[m] = NoW
          /\ \A n \in Workers \ {m} : /\ step'[n] = step[n] /\ task'[n] = task[n]
                                      /\ mem'[n] = mem[n] /\ sent'[n] = sent[n]
          /\ FreshAt(m)' /\ HeldAt(m)'
      BY <1>1, <1>5, DoneFacts DEF MintIInv, Types
    <2>2. ChainAt(w)'
      BY <1>1, <1>2, <1>5 DEF ChainAt, Landed
    <2>3. OthersAlone(m, w)
      BY <1>1, <1>5, <2>1 DEF OthersAlone
    <2> QED
      BY <1>1, <1>2, <1>3, <1>5, <2>1, <2>2, <2>3, WorkerStep DEF MintIInv
  <1> QED
    BY <1>1, <1>4, <1>5, RowSteps DEF MintIInv

\* An acknowledgement and a crash leave the rows and the chain alone.
LEMMA LeaveStep ==
    ASSUME MintIInv, NEW m \in Workers, NEW w \in Withdrawals, w = task[m],
           Ack(m) \/ Die(m)
    PROVE  MintIInv'
  <1>1. Done(m) /\ UNCHANGED <<row, stream, chain, recorded>> /\ step[m] # "idle"
    BY DEF Ack, Die, streamVars
  <1>2. /\ unacked' \in {unacked, unacked \ {w}}
        /\ \/ acked' = acked
           \/ acked' = acked \cup {w} /\ row[w].status \in Terminal
    BY DEF Ack, Die, MintIInv, Fresh, FreshAt, streamVars
  <1>3. row[w].status # "none" /\ ChainAt(w)
    BY <1>1, InHandFacts
  <1>4. /\ Types' /\ step'[m] = "idle" /\ task'[m] = NoW
        /\ \A n \in Workers \ {m} : /\ step'[n] = step[n] /\ task'[n] = task[n]
                                    /\ mem'[n] = mem[n] /\ sent'[n] = sent[n]
        /\ FreshAt(m)' /\ HeldAt(m)'
    BY <1>1, <1>2, DoneFacts DEF MintIInv, Types
  <1>5. ChainAt(w)'
    BY <1>1, <1>3 DEF ChainAt, Landed
  <1>6. OthersAlone(m, w)
    BY <1>1, <1>4 DEF OthersAlone
  <1> QED
    BY <1>1, <1>2, <1>3, <1>4, <1>5, <1>6, WorkerStep DEF MintIInv

-----------------------------------------------------------------------------
(* The invariant *)

LEMMA MintIInvInit ==
    MintInit => MintIInv
  <1> SUFFICES ASSUME MintInit PROVE MintIInv
    OBVIOUS
  <1>1. NoRow \in RowType /\ NoRow.status = "none" /\ NoRow.sig = 0
    BY DEF NoRow, RowType, Statuses
  <1>2. Types
    BY <1>1 DEF MintInit, Types, Steps
  <1>3. Exclusive
    BY <1>1 DEF MintInit, Exclusive
  <1>4. Fresh
    BY <1>1 DEF MintInit, Fresh, FreshAt, AckedIsSettled
  <1>5. Chains
    BY <1>1 DEF MintInit, Chains, ChainAt, HeldAt
  <1> QED
    BY <1>2, <1>3, <1>4, <1>5 DEF MintIInv

LEMMA MintIInvStep ==
    ASSUME MintIInv, ~Prompt, [MintNext]_mintVars
    PROVE  MintIInv'
  <1>1. ASSUME NEW w \in Withdrawals, Request(w) \/ Redeliver(w) \/ Settle(w)
        PROVE  MintIInv'
    BY <1>1, RequestStep, RedeliverStep, SettleStep
  <1>2. ASSUME NEW m \in Workers, Work(m) \/ Die(m)
        PROVE  MintIInv'
    <2>1. CASE step[m] = "idle"
      <3>1. Deliver(m)
        BY <1>2, <2>1 DEF Work, Die, Load, Reconcile, Claim, Submit, SubmitFails, Persist,
                          Confirm, ConfirmFails, Ack
      <3> QED
        BY <3>1, DeliverStep
    <2>2. CASE step[m] # "idle"
      <3>1. task[m] \in Withdrawals
        BY <2>2, InHandFacts
      <3> QED
        BY <1>2, <3>1, DeliverStep, LoadStep, ReconcileStep, ClaimStep, SubmitStep,
           SubmitFailsStep, PersistStep, ConfirmStep, ConfirmFailsStep, LeaveStep DEF Work
    <2> QED
      BY <2>1, <2>2
  <1>3. CASE UNCHANGED mintVars
    BY <1>3 DEF mintVars, MintIInv, Types, Exclusive, Fresh, FreshAt, AckedIsSettled, Chains, ChainAt,
                HeldAt, InFlight, Landed
  <1> QED
    BY <1>1, <1>2, <1>3 DEF MintNext

\* What the code relies on holds throughout, when the operator waits: an entry
\* has one holder, whose copy of the row is the row.
THEOREM MintInvariantHolds ==
    ASSUME ~Prompt
    PROVE  MintSpec => []MintIInv
  BY MintIInvInit, MintIInvStep, PTL DEF MintSpec

\* The row, the acknowledgements and the chain agree about every withdrawal.
THEOREM MintInvHolds ==
    ASSUME ~Prompt
    PROVE  MintSpec => []MintInv
  <1>1. MintIInv => MintInv
    <2> SUFFICES ASSUME MintIInv PROVE MintInv
      OBVIOUS
    <2>1. MintTypeOK
      BY DEF MintIInv, Types, Chains, ChainAt, MintTypeOK, RowType
    <2> QED
      BY <2>1 DEF MintIInv, Fresh, Chains, ChainAt, MintInv, ConfirmedIsMinted
  <1> QED
    BY <1>1, MintInvariantHolds, PTL

LEMMA TerminalStep ==
    ASSUME MintIInv, [MintNext]_mintVars, NEW w \in Withdrawals, row[w].status \in Terminal
    PROVE  row'[w].status = row[w].status
  <1>1. ASSUME NEW v \in Withdrawals, Request(v) \/ Redeliver(v) \/ Settle(v)
        PROVE  row'[w] = row[w]
    <2>1. CASE Request(v)
      <3>1. v # w
        BY <2>1 DEF Request, Terminal
      <3> QED
        BY <2>1, <3>1 DEF Request, MintIInv, Types
    <2> QED
      BY <1>1, <2>1 DEF Redeliver, Settle
  <1>2. ASSUME NEW m \in Workers, Work(m) \/ Die(m)
        PROVE  row'[w] = row[w]
    <2>1. CASE step[m] \in {"reconcile", "claim", "submit", "persist", "confirm"}
      <3>1. w # task[m] /\ task[m] \in Withdrawals
        BY <2>1 DEF MintIInv, Types, Fresh, FreshAt
      <3>2. \A new : WritesRow(task[m], new) => row'[w] = row[w]
        BY <3>1 DEF WritesRow, MintIInv, Types
      <3>3. CASE SubmitFails(m) \/ ConfirmFails(m)
        BY <2>1, <3>2, <3>3, RowSteps DEF MintIInv, Writes
      <3>4. CASE Reconcile(m)
        BY <2>1, <3>2, <3>4, RowSteps DEF MintIInv, Writes, Reconcile
      <3>5. CASE Claim(m) \/ Persist(m) \/ Confirm(m)
        BY <2>1, <3>2, <3>5, RowSteps DEF MintIInv, Writes
      <3>6. CASE Deliver(m) \/ Load(m) \/ Submit(m) \/ Ack(m) \/ Die(m)
        BY <3>6 DEF Deliver, Load, Submit, Ack, Die
      <3> QED
        BY <1>2, <3>3, <3>4, <3>5, <3>6 DEF Work
    <2>2. CASE step[m] \notin {"reconcile", "claim", "submit", "persist", "confirm"}
      <3>1. Deliver(m) \/ Load(m) \/ Ack(m) \/ Die(m)
        BY <1>2, <2>2 DEF Work, Reconcile, Claim, Submit, SubmitFails, Persist, Confirm,
                          ConfirmFails
      <3> QED
        BY <3>1 DEF Deliver, Load, Ack, Die
    <2> QED
      BY <2>1, <2>2
  <1>3. CASE UNCHANGED mintVars
    BY <1>3 DEF mintVars
  <1> QED
    BY <1>1, <1>2, <1>3 DEF MintNext

\* A settled withdrawal is never written again, whatever is delivered again.
THEOREM TerminalIsFinalHolds ==
    ASSUME ~Prompt
    PROVE  MintSpec => TerminalIsFinal
  <1>1. MintIInv /\ [MintNext]_mintVars => [\A w \in Withdrawals :
          row[w].status \in Terminal => row'[w].status = row[w].status]_mintVars
    BY TerminalStep
  <1> QED
    BY <1>1, MintInvariantHolds, PTL DEF MintSpec, TerminalIsFinal

\* Two transactions of one withdrawal both land only if the signature of one
\* was never committed to the row.
THEOREM OnlyLostSignaturesDoubleMintHolds ==
    ASSUME ~Prompt
    PROVE  MintSpec => []OnlyLostSignaturesDoubleMint
  <1>1. ASSUME MintIInv, NEW w \in Withdrawals
        PROVE  Cardinality(Landed(w)) <= 1 + Cardinality(DOMAIN chain[w] \ recorded[w])
    <2> DEFINE lost == DOMAIN chain[w] \ recorded[w]
    <2>1. IsFiniteSet(lost)
      <3>1. chain[w] \in Seq(Fates)
        BY <1>1 DEF MintIInv, Types
      <3>2. DOMAIN chain[w] = 1 .. Len(chain[w]) /\ Len(chain[w]) \in Nat
        BY <3>1
      <3>3. IsFiniteSet(DOMAIN chain[w])
        BY <3>2, FS_Interval
      <3> QED
        BY <3>3, FS_Subset
    <2>2. Landed(w) \subseteq lost \cup {row[w].sig}
      BY <1>1 DEF MintIInv, Chains, ChainAt, Landed, Dead
    <2>3. /\ IsFiniteSet(lost \cup {row[w].sig})
          /\ Cardinality(lost \cup {row[w].sig}) \in {Cardinality(lost), Cardinality(lost) + 1}
      BY <2>1, FS_AddElement
    <2>4. Cardinality(Landed(w)) <= Cardinality(lost \cup {row[w].sig})
      BY <2>2, <2>3, FS_Subset
    <2>5. /\ Cardinality(lost) \in Nat /\ Cardinality(Landed(w)) \in Nat
          /\ Cardinality(lost \cup {row[w].sig}) \in Nat
      BY <2>1, <2>2, <2>3, FS_Subset, FS_CardinalityType
    <2> HIDE DEF lost
    <2>6. Cardinality(Landed(w)) <= 1 + Cardinality(lost)
      BY <2>3, <2>4, <2>5
    <2> QED
      BY <2>6 DEF lost
  <1>2. MintIInv => OnlyLostSignaturesDoubleMint
    BY <1>1 DEF OnlyLostSignaturesDoubleMint
  <1> QED
    BY <1>2, MintInvariantHolds, PTL

-----------------------------------------------------------------------------
(***************************************************************************)
(* Theorems about Wallet, for every set of users, keys, amounts, requests  *)
(* and handlers.                                                           *)
(*                                                                         *)
(* The core: the row locks make the balances that a handler computes from  *)
(* current ones (LockedRowIsFresh), and the scope of a transaction id      *)
(* makes the row constraint a constraint on transactions (ScopeIsParty);   *)
(* with these two, a commit is a posting of the abstract ledger.           *)
(*                                                                         *)
(* What a client is told: a replay lookup sees one row of a transaction,   *)
(* or its withdrawal, and answers for the whole posting.  It may, because  *)
(* rows are only ever added by postings (RowsWhole), and the withdrawal    *)
(* rows are those of the withdrawal postings (WithdrawalsPosted).          *)
(*                                                                         *)
(* What the audit finds: a commit adds to the rows of each party one new   *)
(* row that says by how much the balance moves, so the sums follow the     *)
(* balances.  That a new row adds its amount is a fact about the fold that *)
(* sums a finite set (SumOfAdd); it is proved here by taking a smallest    *)
(* set on which it would fail.                                             *)
(***************************************************************************)

-----------------------------------------------------------------------------
(* The assumptions on the constants *)

USE AccountsAssumption, AmountsAssumption, RankAssumption, RequestsAssumption,
    ProcsAssumption, KeysAssumption, MaxRequestsAssumption, TransferAssumption

-----------------------------------------------------------------------------
(* Operators *)

\* A request names accounts and an amount, and never credits a user of the
\* wrong kind.
LEMMA RequestType ==
    ASSUME NEW r \in Requests
    PROVE  /\ r.kind \in Kinds /\ r.from \in Accounts /\ r.to \in Accounts
           /\ r.amount \in Amounts /\ r.amount \in Nat /\ r.amount > 0
           /\ r.key \in Keys \cup {NoKey}
           /\ r # NoReq
  <1>1. r \in RequestShape
    OBVIOUS
  <1>2. r.kind \in Kinds /\ r.from \in Accounts /\ r.to \in Accounts
        /\ r.amount \in Amounts /\ r.key \in Keys \cup {NoKey}
    BY <1>1 DEF RequestShape
  <1>3. r # NoReq
    BY <1>2 DEF NoReq, Kinds
  <1>4. r.amount \in Nat \ {0}
    BY <1>2
  <1> QED
    BY <1>2, <1>3, <1>4

\* The transaction id of a request is one, and is scoped to a party of it.
LEMMA TxIdOfType ==
    ASSUME NEW r \in Requests, NEW n \in 0 .. MaxRequests
    PROVE  /\ TxIdOf(r, n) \in TxIds
           /\ TxIdOf(r, n)[2] \in {r.from, r.to}
  <1> USE RequestType
  <1>1. CASE r.kind = "genesis"
    <2>1. TxIdOf(r, n) = <<"genesis", Treasury, r.to>>
      BY <1>1 DEF TxIdOf
    <2>2. r.from = Treasury /\ r.to \in Users
      BY <1>1 DEF WellFormed
    <2> QED
      BY <2>1, <2>2 DEF TxIds
  <1>2. CASE r.kind = "adjust" /\ r.key # NoKey
    <2>1. TxIdOf(r, n) = <<"admin_adjust", Treasury, r.key>>
      BY <1>2 DEF TxIdOf
    <2>2. Treasury \in {r.from, r.to}
      BY <1>2 DEF WellFormed
    <2> QED
      BY <2>1, <2>2, <1>2 DEF TxIds, Accounts
  <1>3. CASE r.kind \in {"transfer", "withdraw"} /\ r.key # NoKey
    <2>1. TxIdOf(r, n) = <<"key", r.from, r.key>>
      BY <1>3 DEF TxIdOf
    <2> QED
      BY <2>1, <1>3 DEF TxIds
  <1>4. CASE r.kind # "genesis" /\ r.key = NoKey
    <2>1. TxIdOf(r, n) = <<"uuid4", r.from, n>>
      BY <1>4 DEF TxIdOf
    <2> QED
      BY <2>1 DEF TxIds
  <1> QED
    BY <1>1, <1>2, <1>3, <1>4 DEF Kinds

\* Answering, unlocking and crashing keep the types of what they touch.
LEMMA UnlockType ==
    ASSUME TypeOK, NEW p \in Procs, Unlock(p)
    PROVE  /\ lock' \in [Accounts -> Procs \cup {NoProc}]
           /\ \A a \in Accounts : lock'[a] # p
           /\ \A a \in Accounts, q \in Procs : q # p =>
                  (lock'[a] = q <=> lock[a] = q)
  BY DEF TypeOK, Unlock

LEMMA IdleType ==
    ASSUME TypeOK, NEW p \in Procs, Idle(p)
    PROVE  /\ pc' = [pc EXCEPT ![p] = "idle"]
           /\ pc' \in [Procs -> {"idle", "lookup", "locking", "check",
                                 "relookup", "publish"}]
           /\ req' \in [Procs -> Requests \cup {NoReq}]
           /\ tx' \in [Procs -> TxIds \cup {NoTx}]
           /\ snap' \in [Procs -> [Accounts -> Int]]
           /\ \A q \in Procs \ {p} : /\ req'[q] = req[q] /\ tx'[q] = tx[q]
                                     /\ snap'[q] = snap[q] /\ pc'[q] = pc[q]
           /\ pc'[p] = "idle"
  BY DEF TypeOK, Idle, NoSnap

\* The two rows of a request's posting are ledger rows.
LEMMA PostingType ==
    ASSUME NEW r \in Requests, NEW t \in TxIds
    PROVE  PostingOf(r, t) \subseteq L!Entries
  <1>1. TypeOf(r) \in L!TxTypes
    BY RequestType DEF TypeOf, Kinds, L!TxTypes
  <1>2. r.from \in L!Accounts /\ r.to \in L!Accounts
    BY RequestType DEF Accounts, L!Accounts
  <1> QED
    BY <1>1, <1>2, RequestType DEF PostingOf, L!Posting, L!Entries

\* The row to lock next is one of the rows the request needs.
LEMMA NextLockType ==
    ASSUME NEW p \in Procs, Held(p) \subseteq ToLock(req[p]), Held(p) # ToLock(req[p]),
           ToLock(req[p]) \subseteq Accounts,
           \E a, b \in Accounts : ToLock(req[p]) \subseteq {a, b}
    PROVE  /\ NextLock(p) \in ToLock(req[p]) \ Held(p)
           /\ \A b \in ToLock(req[p]) \ Held(p) : Rank[NextLock(p)] <= Rank[b]
  <1> DEFINE Rest == ToLock(req[p]) \ Held(p)
             P(a) == a \in Rest /\ \A b \in Rest : Rank[a] <= Rank[b]
  <1>1. PICK a, b \in Accounts : Rest \subseteq {a, b}
    OBVIOUS
  <1>2. Rest # {}
    OBVIOUS
  <1>3. Rank[a] \in Nat /\ Rank[b] \in Nat
    OBVIOUS
  <1>4. \E c \in Rest : \A d \in Rest : Rank[c] <= Rank[d]
    BY <1>1, <1>2, <1>3
  <1> QED
    BY <1>4 DEF NextLock

LEMMA ToLockType ==
    ASSUME NEW r \in Requests
    PROVE  /\ ToLock(r) \subseteq Accounts
           /\ \E a, b \in Accounts : ToLock(r) \subseteq {a, b}
           /\ r.from \in ToLock(r)
           /\ r.kind # "genesis" => r.to \in ToLock(r)
  <1>1. r.kind = "genesis" => r.from = Treasury
    BY DEF WellFormed
  <1> QED
    BY <1>1, RequestType DEF ToLock, Accounts

-----------------------------------------------------------------------------
(* Type correctness *)

\* Every step keeps every variable in its type, and every busy handler with a
\* request and a transaction id.
LEMMA TypeStep ==
    ASSUME TypeOK, Busy, LocksFollowControl, [Next]_vars
    PROVE  TypeOK' /\ Busy'
  <1> USE RequestType DEF Busy
  <1>1. ASSUME NEW p \in Procs, Receive(p)
        PROVE  TypeOK' /\ Busy'
    <2>1. PICK r \in Requests :
             /\ req' = [req EXCEPT ![p] = r]
             /\ tx' = [tx EXCEPT ![p] = TxIdOf(r, received)]
      BY <1>1 DEF Receive
    <2>2. TxIdOf(r, received) \in TxIds
      BY TxIdOfType DEF TypeOK
    <2> QED
      BY <1>1, <2>1, <2>2 DEF Receive, TypeOK, dbVars
  <1>2. ASSUME NEW p \in Procs, NEW out \in Outcomes, Answer(p, out), pc[p] # "idle",
               UNCHANGED <<dbVars, received>>, mintStream' \subseteq TxIds
        PROVE  TypeOK' /\ Busy'
    <2>1. answers' \subseteq [id : TxIds, req : Requests, outcome : Outcomes]
      BY <1>2 DEF Answer, TypeOK
    <2> QED
      BY <1>2, <2>1, UnlockType, IdleType DEF Answer, TypeOK, dbVars
  <1>3. ASSUME NEW p \in Procs, Refuse(p)
        PROVE  TypeOK' /\ Busy'
    BY <1>3, <1>2 DEF Refuse, Outcomes, TypeOK, dbVars
  <1>4. ASSUME NEW p \in Procs, Replay(p)
        PROVE  TypeOK' /\ Busy'
    BY <1>4, <1>2 DEF Replay, Outcomes, TypeOK, dbVars
  <1>5. ASSUME NEW p \in Procs, Proceed(p)
        PROVE  TypeOK' /\ Busy'
    BY <1>5 DEF Proceed, TypeOK, dbVars
  <1>6. ASSUME NEW p \in Procs, Acquire(p)
        PROVE  TypeOK' /\ Busy'
    <2>1. req[p] \in Requests /\ NextLock(p) \in Accounts
      BY <1>6, ToLockType, NextLockType DEF Acquire, Refreshed, LocksFollowControl
    <2> QED
      BY <1>6, <2>1 DEF Acquire, Refreshed, TypeOK, dbVars
  <1>7. ASSUME NEW p \in Procs, Reject(p)
        PROVE  TypeOK' /\ Busy'
    BY <1>7, <1>2 DEF Reject, Outcomes, TypeOK, dbVars
  <1>8. ASSUME NEW p \in Procs, Commit(p)
        PROVE  TypeOK' /\ Busy'
    <2> DEFINE r == req[p]
    <2>1. r \in Requests /\ tx[p] \in TxIds
      BY <1>8 DEF Commit
    <2>2. ledger' \subseteq L!Entries
      BY <1>8, <2>1, PostingType DEF Commit, TypeOK
    <2>3. balance' \in [Accounts -> Int]
      BY <1>8, <2>1 DEF Commit, TypeOK
    <2>4. wallets' \subseteq Accounts
      BY <1>8, <2>1 DEF Commit, TypeOK
    <2>5. withdrawals' \subseteq [tx : TxIds, user : Accounts, amount : Amounts]
      BY <1>8, <2>1 DEF Commit, TypeOK
    <2>6. lock' \in [Accounts -> Procs \cup {NoProc}]
      BY <1>8, UnlockType DEF Commit
    <2> QED
      BY <1>8, <2>2, <2>3, <2>4, <2>5, <2>6 DEF Commit, TypeOK
  <1>9. ASSUME NEW p \in Procs, Collide(p)
        PROVE  TypeOK' /\ Busy'
    BY <1>9, UnlockType DEF Collide, TypeOK, dbVars
  <1>10. ASSUME NEW p \in Procs, Relookup(p)
         PROVE  TypeOK' /\ Busy'
    BY <1>10, <1>2 DEF Relookup, Outcomes, TypeOK, dbVars
  <1>11. ASSUME NEW p \in Procs, Publish(p)
         PROVE  TypeOK' /\ Busy'
    <2>1. mintStream' \subseteq TxIds
      BY <1>11 DEF Publish, TypeOK
    <2> QED
      BY <1>11, <1>2, <2>1 DEF Publish, Outcomes, dbVars
  <1>12. ASSUME NEW p \in Procs, Crash(p)
         PROVE  TypeOK' /\ Busy'
    BY <1>12, UnlockType, IdleType DEF Crash, TypeOK, dbVars
  <1>13. CASE UNCHANGED vars
    BY <1>13 DEF vars, dbVars, TypeOK
  <1> QED
    BY <1>1, <1>3, <1>4, <1>5, <1>6, <1>7, <1>8, <1>9, <1>10, <1>11, <1>12, <1>13
    DEF Next, Handle

-----------------------------------------------------------------------------
(* The locks *)

\* A step is one of a handler, and only a commit writes the database.
LEMMA StepCases ==
    ASSUME [Next]_vars
    PROVE  \/ UNCHANGED dbVars /\ UNCHANGED vars
           \/ \E p \in Procs :
                \/ Commit(p)
                \/ /\ UNCHANGED dbVars
                   /\ \/ Receive(p) \/ Proceed(p) \/ Acquire(p) \/ Collide(p)
                      \/ pc[p] # "idle" /\ Unlock(p) /\ Idle(p)
  <1>1. ASSUME NEW p \in Procs, Handle(p)
        PROVE  \/ Commit(p)
               \/ /\ UNCHANGED dbVars
                  /\ \/ Proceed(p) \/ Acquire(p) \/ Collide(p)
                     \/ pc[p] # "idle" /\ Unlock(p) /\ Idle(p)
    BY <1>1 DEF Handle, Refuse, Replay, Proceed, Acquire, Refreshed, Reject, Collide,
                Relookup, Publish, Answer, dbVars
  <1>2. ASSUME NEW p \in Procs, Receive(p) \/ Crash(p)
        PROVE  /\ UNCHANGED dbVars
               /\ Receive(p) \/ (pc[p] # "idle" /\ Unlock(p) /\ Idle(p))
    BY <1>2 DEF Receive, Crash, dbVars
  <1>3. CASE UNCHANGED vars
    BY <1>3 DEF vars, dbVars
  <1> QED
    BY <1>1, <1>2, <1>3 DEF Next

\* A handler never holds a lock that its control state does not account for.
LEMMA LocksStep ==
    ASSUME TypeOK, Busy, LocksFollowControl, [Next]_vars
    PROVE  LocksFollowControl'
  <1> USE DEF LocksFollowControl, Held, Busy
  <1>1. ASSUME NEW p \in Procs, Receive(p)
        PROVE  LocksFollowControl'
    BY <1>1 DEF Receive, TypeOK
  <1>2. ASSUME NEW p \in Procs, Proceed(p)
        PROVE  LocksFollowControl'
    <2>1. req[p] \in Requests /\ ToLock(req[p]) # {}
      BY <1>2, ToLockType DEF Proceed
    <2>2. Held(p) = {}
      BY <1>2 DEF Proceed
    <2> QED
      BY <1>2, <2>1, <2>2 DEF Proceed, TypeOK
  <1>3. ASSUME NEW p \in Procs, Acquire(p)
        PROVE  LocksFollowControl'
    <2> DEFINE a == NextLock(p)
    <2>1. req[p] \in Requests
      BY <1>3 DEF Acquire, Refreshed
    <2>2. a \in ToLock(req[p]) \ Held(p) /\ a \in Accounts
      BY <1>3, <2>1, ToLockType, NextLockType DEF Acquire, Refreshed
    <2>3. lock' = [lock EXCEPT ![a] = p] /\ lock[a] = NoProc /\ req' = req
      BY <1>3 DEF Acquire, Refreshed
    <2>4. Held(p)' = Held(p) \cup {a}
      BY <2>2, <2>3 DEF TypeOK
    <2>5. \A q \in Procs \ {p} : Held(q)' = Held(q) /\ pc'[q] = pc[q]
      BY <1>3, <2>2, <2>3 DEF TypeOK, Acquire, Refreshed
    <2>6. /\ ToLock(req[p]) = Held(p)' => pc'[p] = "check"
          /\ ToLock(req[p]) # Held(p)' => pc'[p] = "locking"
      BY <1>3, <2>4 DEF Acquire, Refreshed, TypeOK
    <2>7. Held(p)' \subseteq ToLock(req[p])
      BY <1>3, <2>2, <2>4 DEF Acquire, Refreshed
    <2> QED
      BY <2>3, <2>5, <2>6, <2>7
  <1>4. ASSUME NEW p \in Procs, Unlock(p), req' = req, \A q \in Procs \ {p} : pc'[q] = pc[q],
               pc'[p] \notin {"locking", "check"}
        PROVE  LocksFollowControl'
    BY <1>4, UnlockType
  <1>5. ASSUME NEW p \in Procs, Commit(p) \/ Collide(p)
        PROVE  LocksFollowControl'
    BY <1>4, <1>5 DEF Commit, Collide, TypeOK
  <1>6. ASSUME NEW p \in Procs, Unlock(p), Idle(p)
        PROVE  LocksFollowControl'
    BY <1>6, UnlockType, IdleType
  <1>7. CASE UNCHANGED vars
    BY <1>7 DEF vars
  <1> QED
    BY <1>1, <1>2, <1>3, <1>5, <1>6, <1>7, StepCases

\* The next row is one of least id, so the rows already held stay below.
LEMMA AscendStep ==
    ASSUME TypeOK, Busy, LocksFollowControl, LocksAscend, [Next]_vars
    PROVE  LocksAscend'
  <1> USE DEF LocksAscend, Held
  <1>1. ASSUME NEW p \in Procs, Acquire(p)
        PROVE  LocksAscend'
    <2> DEFINE a == NextLock(p)
    <2>1. req[p] \in Requests
      BY <1>1 DEF Acquire, Refreshed, Busy
    <2>2. /\ a \in ToLock(req[p]) \ Held(p) /\ a \in Accounts
          /\ \A b \in ToLock(req[p]) \ Held(p) : Rank[a] <= Rank[b]
      BY <1>1, <2>1, ToLockType, NextLockType DEF Acquire, Refreshed, LocksFollowControl
    <2>3. lock' = [lock EXCEPT ![a] = p] /\ lock[a] = NoProc /\ req' = req
      BY <1>1 DEF Acquire, Refreshed
    <2>4. Held(p)' = Held(p) \cup {a}
      BY <2>2, <2>3 DEF TypeOK
    <2>5. \A q \in Procs \ {p} : Held(q)' = Held(q) /\ pc'[q] = pc[q]
      BY <1>1, <2>2, <2>3 DEF TypeOK, Acquire, Refreshed
    <2> QED
      BY <1>1, <2>2, <2>3, <2>4, <2>5 DEF Acquire, Refreshed
  <1>2. ASSUME NEW p \in Procs, Receive(p)
        PROVE  LocksAscend'
    BY <1>2 DEF Receive, TypeOK
  <1>3. ASSUME NEW p \in Procs, Proceed(p)
        PROVE  LocksAscend'
    <2>1. Held(p) = {}
      BY <1>3 DEF Proceed, LocksFollowControl
    <2> QED
      BY <1>3, <2>1 DEF Proceed, TypeOK
  <1>4. ASSUME NEW p \in Procs, Commit(p) \/ Collide(p)
        PROVE  LocksAscend'
    BY <1>4, UnlockType DEF Commit, Collide, TypeOK
  <1>5. ASSUME NEW p \in Procs, Unlock(p), Idle(p)
        PROVE  LocksAscend'
    BY <1>5, UnlockType, IdleType
  <1>6. CASE UNCHANGED vars
    BY <1>6 DEF vars
  <1> QED
    BY <1>1, <1>2, <1>3, <1>4, <1>5, <1>6, StepCases

-----------------------------------------------------------------------------
(* What a commit writes *)

\* A commit moves the amount between the balances as they are now, although it
\* writes values computed from the handler's own copies.
LEMMA CommitMovesAmount ==
    ASSUME TypeOK, Busy, LocksFollowControl, LockedRowIsFresh, WalletsExist,
           BalancesSound, NEW p \in Procs, Commit(p)
    PROVE  LET r == req[p] IN
           /\ r \in Requests /\ tx[p] \in TxIds
           /\ r.from # r.to
           /\ lock[r.from] = p
           /\ r.kind # "genesis" => lock[r.to] = p
           /\ r.kind = "genesis" => r.to \notin wallets /\ r.from = Treasury
           /\ balance' = [balance EXCEPT ![r.from] = balance[r.from] - r.amount,
                                         ![r.to] = balance[r.to] + r.amount]
  <1> DEFINE r == req[p]
  <1>1. r \in Requests /\ tx[p] \in TxIds
    BY DEF Commit, Busy
  <1>2. r.from # r.to
    BY DEF Commit, WalletsExist
  <1>3. Held(p) = ToLock(r)
    BY DEF Commit, LocksFollowControl
  <1>4. lock[r.from] = p /\ (r.kind # "genesis" => lock[r.to] = p)
    BY <1>1, <1>3, ToLockType DEF Held
  <1>5. r.kind = "genesis" => r.to \notin wallets /\ r.from = Treasury
    BY <1>1 DEF Commit, Passes, WellFormed
  <1>6. snap[p][r.from] = balance[r.from]
    BY <1>1, <1>4, RequestType DEF LockedRowIsFresh
  <1>7. r.kind # "genesis" => snap[p][r.to] = balance[r.to]
    BY <1>1, <1>4, RequestType DEF LockedRowIsFresh
  <1>8. r.kind = "genesis" => balance[r.to] = 0
    BY <1>1, <1>5, RequestType DEF BalancesSound
  <1>9. balance' = [balance EXCEPT ![r.from] = balance[r.from] - r.amount,
                                   ![r.to] = balance[r.to] + r.amount]
    <2>1. balance' = [balance EXCEPT
                        ![r.from] = snap[p][r.from] - r.amount,
                        ![r.to] = IF r.kind = "genesis" THEN r.amount
                                  ELSE snap[p][r.to] + r.amount]
      BY DEF Commit
    <2>2. (IF r.kind = "genesis" THEN r.amount ELSE snap[p][r.to] + r.amount)
             = balance[r.to] + r.amount
      BY <1>1, <1>7, <1>8, RequestType
    <2> QED
      BY <1>6, <2>1, <2>2
  <1> QED
    BY <1>1, <1>2, <1>4, <1>5, <1>9

\* The constraint on the rows keeps a posted transaction from being posted
\* again: the user its id is scoped to would have two rows.
LEMMA CommitIsNew ==
    ASSUME Busy, ScopeIsParty, NEW p \in Procs, Commit(p)
    PROVE  ~L!Posted(tx[p])
  <1>1. tx[p][2] \in {req[p].from, req[p].to}
    BY DEF Commit, ScopeIsParty
  <1>2. \A e \in ledger : e.tx = tx[p] =>
           \E f \in ledger : f.tx = tx[p] /\ f.acct \in {req[p].from, req[p].to}
    BY <1>1 DEF ScopeIsParty
  <1> QED
    BY <1>2 DEF Commit, UniqueViolation, L!Posted

\* A debited account other than the treasury has the amount.
LEMMA CommitIsCovered ==
    ASSUME TypeOK, Busy, LocksFollowControl, LockedRowIsFresh, WalletsExist,
           BalancesSound, NEW p \in Procs, Commit(p)
    PROVE  req[p].from = Treasury \/ balance[req[p].from] >= req[p].amount
  <1> DEFINE r == req[p]
  <1>1. r \in Requests /\ lock[r.from] = p
    BY CommitMovesAmount
  <1>2. snap[p][r.from] = balance[r.from] /\ balance[r.from] \in Int
    BY <1>1, RequestType DEF LockedRowIsFresh, TypeOK
  <1>3. r.from = Treasury \/ snap[p][r.from] - r.amount >= 0
    BY DEF Commit, Passes, Insufficient, CheckNonNegative
  <1>4. r.amount \in Nat
    BY <1>1, RequestType
  <1>5. balance[r.from] - r.amount >= 0 => balance[r.from] >= r.amount
    BY <1>2, <1>4
  <1> QED
    BY <1>2, <1>3, <1>5

-----------------------------------------------------------------------------
(* The other parts of the invariant *)

\* A locked row cannot be written by another handler.
LEMMA FreshStep ==
    ASSUME IInv, [Next]_vars
    PROVE  LockedRowIsFresh'
  <1> USE DEF IInv, LockedRowIsFresh
  <1>1. ASSUME NEW p \in Procs, Commit(p)
        PROVE  LockedRowIsFresh'
    <2> DEFINE r == req[p]
    <2>1. \A a \in Accounts : lock'[a] # p
      BY <1>1, UnlockType DEF Commit
    <2>2. ASSUME NEW q \in Procs, q # p, NEW a \in Accounts, lock'[a] = q
          PROVE  snap'[q][a] = balance'[a]
      <3>1. lock[a] = q /\ snap[q][a] = balance[a] /\ snap' = snap
        BY <1>1, <2>2, UnlockType DEF Commit
      <3>2. a # r.from
        BY <1>1, <2>2, <3>1, CommitMovesAmount
      <3>3. a # r.to
        <4>1. CASE r.kind # "genesis"
          BY <1>1, <2>2, <3>1, <4>1, CommitMovesAmount
        <4>2. CASE r.kind = "genesis"
          <5>1. r.to \notin wallets
            BY <1>1, <4>2, CommitMovesAmount
          <5>2. a \in Held(q)
            BY <3>1 DEF Held
          <5>3. pc[q] \in {"locking", "check"} /\ Held(q) \subseteq ToLock(req[q])
            BY <5>2 DEF LocksFollowControl, TypeOK
          <5> QED
            BY <5>1, <5>2, <5>3 DEF WalletsExist
        <4> QED
          BY <4>1, <4>2
      <3> QED
        BY <1>1, <3>1, <3>2, <3>3, CommitMovesAmount DEF TypeOK
    <2> QED
      BY <2>1, <2>2
  <1>2. ASSUME NEW p \in Procs, Acquire(p)
        PROVE  LockedRowIsFresh'
    <2>1. NextLock(p) \in Accounts
      BY <1>2, ToLockType, NextLockType DEF Acquire, Refreshed, LocksFollowControl, Busy
    <2> QED
      BY <1>2, <2>1 DEF Acquire, Refreshed, TypeOK, dbVars
  <1>3. ASSUME NEW p \in Procs, Receive(p) \/ Collide(p), UNCHANGED dbVars
        PROVE  LockedRowIsFresh'
    BY <1>3, UnlockType DEF Receive, Collide, dbVars
  <1>4. ASSUME NEW p \in Procs, Proceed(p)
        PROVE  LockedRowIsFresh'
    <2>1. Held(p) = {}
      BY <1>4 DEF Proceed, LocksFollowControl
    <2> QED
      BY <1>4, <2>1 DEF Proceed, TypeOK, dbVars, Held
  <1>5. ASSUME NEW p \in Procs, Unlock(p), Idle(p), UNCHANGED dbVars
        PROVE  LockedRowIsFresh'
    BY <1>5, UnlockType, IdleType DEF dbVars
  <1>6. CASE UNCHANGED vars
    BY <1>6 DEF vars
  <1> QED
    BY <1>1, <1>2, <1>3, <1>4, <1>5, <1>6, StepCases

\* Wallets are never removed.
LEMMA WalletsStep ==
    ASSUME IInv, [Next]_vars
    PROVE  WalletsExist'
  <1> USE DEF IInv, WalletsExist
  <1>1. wallets \subseteq wallets'
    BY StepCases DEF Commit, dbVars
  <1>2. ASSUME NEW p \in Procs, Commit(p) \/ Collide(p)
        PROVE  WalletsExist'
    BY <1>1, <1>2 DEF Commit, Collide, TypeOK
  <1>3. ASSUME NEW p \in Procs, Receive(p)
        PROVE  WalletsExist'
    BY <1>1, <1>3 DEF Receive, TypeOK
  <1>4. ASSUME NEW p \in Procs, Proceed(p)
        PROVE  WalletsExist'
    <2>1. req[p].from # req[p].to /\ ToLock(req[p]) \subseteq wallets
      <3>1. req[p] \in Requests /\ Acceptable(req[p])
        BY <1>4 DEF Proceed, Busy
      <3>2. req[p].kind = "genesis" => req[p].from = Treasury
        BY <3>1 DEF WellFormed
      <3> QED
        BY <3>1, <3>2 DEF Acceptable, ToLock
    <2> QED
      BY <1>1, <1>4, <2>1 DEF Proceed, TypeOK
  <1>5. ASSUME NEW p \in Procs, Acquire(p)
        PROVE  WalletsExist'
    BY <1>1, <1>5 DEF Acquire, Refreshed, TypeOK
  <1>6. ASSUME NEW p \in Procs, Unlock(p), Idle(p)
        PROVE  WalletsExist'
    BY <1>1, <1>6, IdleType
  <1>7. CASE UNCHANGED vars
    BY <1>7 DEF vars
  <1> QED
    BY <1>2, <1>3, <1>4, <1>5, <1>6, <1>7, StepCases

\* Posted transactions keep the row of the user they are scoped to.
LEMMA ScopeStep ==
    ASSUME IInv, [Next]_vars
    PROVE  ScopeIsParty'
  <1> USE DEF IInv, ScopeIsParty
  <1>1. ASSUME NEW p \in Procs, Commit(p)
        PROVE  ScopeIsParty'
    <2> DEFINE r == req[p]
    <2>1. tx[p][2] \in {r.from, r.to} /\ r \in Requests
      BY <1>1 DEF Commit, Busy
    <2>2. ledger' = ledger \cup PostingOf(r, tx[p]) /\ req' = req /\ tx' = tx
      BY <1>1 DEF Commit
    <2>3. \A e \in PostingOf(r, tx[p]) :
             /\ e.tx = tx[p]
             /\ \E f \in PostingOf(r, tx[p]) : f.tx = tx[p] /\ f.acct = tx[p][2]
      BY <2>1 DEF PostingOf, L!Posting
    <2>4. \A q \in Procs : pc'[q] # "idle" => pc[q] # "idle"
      BY <1>1 DEF Commit, TypeOK
    <2> QED
      BY <2>2, <2>3, <2>4
  <1>2. ASSUME NEW p \in Procs, Receive(p), UNCHANGED dbVars
        PROVE  ScopeIsParty'
    <2>1. PICK r \in Requests :
             /\ req' = [req EXCEPT ![p] = r]
             /\ tx' = [tx EXCEPT ![p] = TxIdOf(r, received)]
      BY <1>2 DEF Receive
    <2>2. TxIdOf(r, received)[2] \in {r.from, r.to}
      BY TxIdOfType DEF TypeOK
    <2> QED
      BY <1>2, <2>1, <2>2 DEF Receive, TypeOK, dbVars
  <1>3. ASSUME NEW p \in Procs, Proceed(p) \/ Acquire(p) \/ Collide(p), UNCHANGED dbVars
        PROVE  ScopeIsParty'
    BY <1>3 DEF Proceed, Acquire, Refreshed, Collide, TypeOK, dbVars
  <1>4. ASSUME NEW p \in Procs, Unlock(p), Idle(p), UNCHANGED dbVars
        PROVE  ScopeIsParty'
    BY <1>4, IdleType DEF dbVars
  <1>5. CASE UNCHANGED vars
    BY <1>5 DEF vars
  <1> QED
    BY <1>1, <1>2, <1>3, <1>4, <1>5, StepCases

\* Overdrafts stay the treasury's.
LEMMA BalancesStep ==
    ASSUME IInv, [Next]_vars
    PROVE  BalancesSound'
  <1> USE DEF IInv, BalancesSound
  <1>1. ASSUME NEW p \in Procs, Commit(p)
        PROVE  BalancesSound'
    <2> DEFINE r == req[p]
    <2>1. /\ r \in Requests /\ r.from # r.to
          /\ balance' = [balance EXCEPT ![r.from] = balance[r.from] - r.amount,
                                        ![r.to] = balance[r.to] + r.amount]
      BY <1>1, CommitMovesAmount
    <2>2. r.from = Treasury \/ balance[r.from] >= r.amount
      BY <1>1, CommitIsCovered
    <2>3. wallets' = wallets \cup {r.to}
      BY <1>1 DEF Commit
    <2>4. r.from \in wallets
      BY <1>1, <2>1, ToLockType DEF Commit, WalletsExist
    <2>5. r.amount \in Nat /\ r.from \in Accounts /\ r.to \in Accounts
      BY <2>1, RequestType
    <2>6. \A a \in Accounts \ {Treasury} : balance'[a] >= 0
      BY <2>1, <2>2, <2>5 DEF TypeOK
    <2>7. \A a \in Accounts \ wallets' : balance'[a] = 0
      BY <2>1, <2>3, <2>4, <2>5 DEF TypeOK
    <2> QED
      BY <2>3, <2>6, <2>7
  <1>2. CASE UNCHANGED dbVars
    BY <1>2 DEF dbVars
  <1> QED
    BY <1>1, <1>2, StepCases

\* The cap is checked against the escrow's balance under the escrow's lock.
LEMMA CapStep ==
    ASSUME IInv, [Next]_vars
    PROVE  SupplyWithinCap'
  <1> USE DEF IInv, SupplyWithinCap
  <1>1. ASSUME NEW p \in Procs, Commit(p)
        PROVE  SupplyWithinCap'
    <2> DEFINE r == req[p]
    <2>1. /\ r \in Requests /\ r.from # r.to /\ lock[r.from] = p
          /\ r.kind # "genesis" => lock[r.to] = p
          /\ balance' = [balance EXCEPT ![r.from] = balance[r.from] - r.amount,
                                        ![r.to] = balance[r.to] + r.amount]
      BY <1>1, CommitMovesAmount
    <2>2. r.amount \in Nat /\ r.from \in Accounts /\ r.to \in Accounts /\ r.kind \in Kinds
      BY <2>1, RequestType
    <2>3. CASE r.to # Escrow
      BY <2>1, <2>2, <2>3 DEF TypeOK, Accounts
    <2>4. CASE r.to = Escrow
      <3>1. r.kind = "withdraw"
        BY <2>1, <2>2, <2>4 DEF Kinds, WellFormed
      <3>2. snap[p][Escrow] = balance[Escrow]
        BY <2>1, <2>2, <2>4, <3>1 DEF LockedRowIsFresh
      <3>3. SupplyCap # 0 => ~(snap[p][Escrow] + r.amount > SupplyCap)
        BY <1>1, <3>1 DEF Commit, Passes, OverCap
      <3>4. balance'[Escrow] = balance[Escrow] + r.amount
        BY <2>1, <2>2, <2>4 DEF TypeOK
      <3>5. balance[Escrow] \in Int
        BY DEF TypeOK, Accounts
      <3> QED
        BY <2>2, <3>2, <3>3, <3>4, <3>5
    <2> QED
      BY <2>3, <2>4
  <1>2. CASE UNCHANGED dbVars
    BY <1>2 DEF dbVars
  <1> QED
    BY <1>1, <1>2, StepCases

\* A posting adds the two rows of a transaction that had none.
LEMMA DoubleEntryStep ==
    ASSUME IInv, [Next]_vars
    PROVE  DoubleEntry'
  <1> USE DEF IInv, DoubleEntry
  <1>1. ASSUME NEW p \in Procs, Commit(p)
        PROVE  DoubleEntry'
    <2> DEFINE r == req[p]
               d == [tx |-> tx[p], acct |-> r.from, amt |-> -r.amount, type |-> TypeOf(r)]
               c == [tx |-> tx[p], acct |-> r.to, amt |-> r.amount, type |-> TypeOf(r)]
    <2>1. ledger' = ledger \cup {d, c}
      BY <1>1 DEF Commit, PostingOf, L!Posting
    <2>2. \A e \in ledger : e.tx # tx[p]
      BY <1>1, CommitIsNew DEF L!Posted
    <2>3. r.amount \in Nat /\ r.amount > 0
      BY <1>1, RequestType DEF Commit, Busy
    <2>4. ASSUME NEW e \in ledger'
          PROVE  \E f \in ledger' :
                    /\ {g \in ledger' : g.tx = e.tx} = {e, f}
                    /\ e.amt + f.amt = 0 /\ e.amt # 0 /\ e.type = f.type
      <3>1. CASE e \in ledger
        <4>1. {g \in ledger' : g.tx = e.tx} = {g \in ledger : g.tx = e.tx}
          BY <2>1, <2>2, <3>1
        <4> QED
          BY <2>1, <3>1, <4>1
      <3>2. CASE e \in {d, c}
        <4>1. {g \in ledger' : g.tx = e.tx} = {d, c}
          BY <2>1, <2>2, <3>2
        <4>2. /\ d.amt + c.amt = 0 /\ c.amt + d.amt = 0 /\ d.amt # 0 /\ c.amt # 0
              /\ d.type = c.type /\ d \in ledger' /\ c \in ledger'
          BY <2>1, <2>3
        <4> HIDE DEF d, c
        <4>3. CASE e = d
          <5>1. {g \in ledger' : g.tx = e.tx} = {e, c}
            BY <4>1, <4>3
          <5>2. e.amt + c.amt = 0 /\ e.amt # 0 /\ e.type = c.type
            BY <4>2, <4>3
          <5> QED
            BY <4>2, <5>1, <5>2
        <4>4. CASE e = c
          <5>1. {g \in ledger' : g.tx = e.tx} = {e, d}
            BY <4>1, <4>4
          <5>2. e.amt + d.amt = 0 /\ e.amt # 0 /\ e.type = d.type
            BY <4>2, <4>4
          <5> QED
            BY <4>2, <5>1, <5>2
        <4> QED
          BY <3>2, <4>3, <4>4
      <3> QED
        BY <2>1, <3>1, <3>2
    <2> QED
      BY <2>4
  <1>2. CASE UNCHANGED dbVars
    BY <1>2 DEF dbVars
  <1> QED
    BY <1>1, <1>2, StepCases

-----------------------------------------------------------------------------
(* The theorems *)

LEMMA InitIInv == Init => IInv
  <1> SUFFICES ASSUME Init
               PROVE  IInv
    OBVIOUS
  <1> USE DEF Init
  <1>1. TypeOK
    BY DEF TypeOK, NoSnap, Accounts
  <1>2. Busy /\ LockedRowIsFresh /\ WalletsExist /\ ScopeIsParty /\ DoubleEntry
    BY DEF Busy, LockedRowIsFresh, WalletsExist, ScopeIsParty, DoubleEntry
  <1>3. LocksFollowControl /\ LocksAscend
    BY DEF LocksFollowControl, LocksAscend, Held
  <1>4. BalancesSound /\ SupplyWithinCap
    BY DEF BalancesSound, SupplyWithinCap, Accounts
  <1> QED
    BY <1>1, <1>2, <1>3, <1>4 DEF IInv

LEMMA StepIInv == IInv /\ [Next]_vars => IInv'
  <1> SUFFICES ASSUME IInv, [Next]_vars
               PROVE  IInv'
    OBVIOUS
  <1>1. TypeOK' /\ Busy' /\ LocksFollowControl' /\ LocksAscend'
    BY TypeStep, LocksStep, AscendStep DEF IInv
  <1> QED
    BY <1>1, FreshStep, WalletsStep, ScopeStep, BalancesStep, CapStep, DoubleEntryStep
    DEF IInv

\* The whole invariant of the wallet service: types, locks, fresh balances
\* under a lock, unique transactions, no overdraft, the cap, double entry.
THEOREM Invariance == Spec => []IInv
  BY InitIInv, StepIInv, PTL DEF Spec

\* Every transaction of the ledger is one debit and one credit of the same
\* amount, although requests with one key race to post it.
THEOREM DoubleEntryHolds == Spec => []DoubleEntry
  <1>1. IInv => DoubleEntry
    BY DEF IInv
  <1> QED
    BY <1>1, Invariance, PTL

\* Concurrent withdrawals never take the escrow over the supply cap.
THEOREM SupplyCapHolds == Spec => []SupplyWithinCap
  <1>1. IInv => SupplyWithinCap
    BY DEF IInv
  <1> QED
    BY <1>1, Invariance, PTL

\* A handler that waits for q and is waited for has its rows below q's next.
LEMMA WaitsUpward ==
    ASSUME IInv, NEW p \in Procs, NEW q \in Procs, NEW s \in Procs,
           WaitsFor(p, q), WaitsFor(q, s)
    PROVE  /\ Rank[NextLock(p)] \in Nat /\ Rank[NextLock(q)] \in Nat
           /\ Rank[NextLock(p)] < Rank[NextLock(q)]
  <1>1. ASSUME NEW x \in Procs, pc[x] = "locking"
        PROVE  NextLock(x) \in ToLock(req[x]) \ Held(x) /\ NextLock(x) \in Accounts
    BY <1>1, ToLockType, NextLockType DEF IInv, Busy, LocksFollowControl
  <1>2. NextLock(p) \in Accounts /\ lock[NextLock(p)] = q /\ NextLock(p) \in Held(q)
    BY <1>1 DEF WaitsFor, Held
  <1>3. pc[q] = "locking" /\ NextLock(q) \in ToLock(req[q]) \ Held(q)
        /\ NextLock(q) \in Accounts
    BY <1>1 DEF WaitsFor
  <1>4. Rank[NextLock(p)] <= Rank[NextLock(q)] /\ NextLock(p) # NextLock(q)
    BY <1>2, <1>3 DEF IInv, LocksAscend
  <1> QED
    BY <1>2, <1>3, <1>4

\* Handlers never wait for each other's rows in a cycle of two or three.
THEOREM NoWaitCycleHolds == Spec => []NoWaitCycle
  <1>1. ASSUME IInv, NEW p \in Procs, NEW q \in Procs, NEW s \in Procs
        PROVE  /\ ~(WaitsFor(p, q) /\ WaitsFor(q, p))
               /\ ~(WaitsFor(p, q) /\ WaitsFor(q, s) /\ WaitsFor(s, p))
    <2>1. ~(WaitsFor(p, q) /\ WaitsFor(q, p))
      <3>1. SUFFICES ASSUME WaitsFor(p, q), WaitsFor(q, p)
                     PROVE  FALSE
        OBVIOUS
      <3>2. Rank[NextLock(p)] < Rank[NextLock(q)] /\ Rank[NextLock(q)] < Rank[NextLock(p)]
            /\ Rank[NextLock(p)] \in Nat /\ Rank[NextLock(q)] \in Nat
        BY <1>1, <3>1, WaitsUpward
      <3> QED
        BY <3>2
    <2>2. ~(WaitsFor(p, q) /\ WaitsFor(q, s) /\ WaitsFor(s, p))
      <3>1. SUFFICES ASSUME WaitsFor(p, q), WaitsFor(q, s), WaitsFor(s, p)
                     PROVE  FALSE
        OBVIOUS
      <3>2. /\ Rank[NextLock(p)] < Rank[NextLock(q)]
            /\ Rank[NextLock(q)] < Rank[NextLock(s)]
            /\ Rank[NextLock(s)] < Rank[NextLock(p)]
            /\ Rank[NextLock(p)] \in Nat /\ Rank[NextLock(q)] \in Nat
            /\ Rank[NextLock(s)] \in Nat
        BY <1>1, <3>1, WaitsUpward
      <3> QED
        BY <3>2
    <2> QED
      BY <2>1, <2>2
  <1>2. IInv => NoWaitCycle
    BY <1>1 DEF NoWaitCycle
  <1> QED
    BY <1>2, Invariance, PTL

\* A step of a handler is a posting of the abstract ledger or none.
LEMMA StepRefines ==
    ASSUME IInv, [Next]_vars
    PROVE  [L!Next]_(L!ledgerVars)
  <1>1. ASSUME NEW p \in Procs, Commit(p)
        PROVE  L!Next
    <2> DEFINE r == req[p]
    <2>1. /\ r \in Requests /\ tx[p] \in TxIds /\ r.from # r.to
          /\ r.kind = "genesis" => r.to \notin wallets /\ r.from = Treasury
          /\ balance' = [balance EXCEPT ![r.from] = balance[r.from] - r.amount,
                                        ![r.to] = balance[r.to] + r.amount]
      BY <1>1, CommitMovesAmount DEF IInv
    <2>2. ledger' = ledger \cup L!Posting(tx[p], r.from, r.to, r.amount, TypeOf(r))
          /\ ~L!Posted(tx[p])
      BY <1>1, CommitIsNew DEF IInv, Commit, PostingOf
    <2>3. ASSUME NEW types, TypeOf(r) \in types
          PROVE  L!Post(r.from, r.to, r.amount, types)
      BY <2>1, <2>2, <2>3 DEF L!Post
    <2>4. wallets' = wallets \cup {r.to} /\ ToLock(r) \subseteq wallets
      BY <1>1 DEF Commit, IInv, WalletsExist
    <2>5. CASE r.kind = "genesis"
      <3>1. r.to \in Users /\ r.amount = GenesisAmount /\ TypeOf(r) = "genesis"
        BY <2>1, <2>5 DEF WellFormed, TypeOf
      <3>2. L!Open(r.to)
        BY <2>1, <2>3, <2>4, <2>5, <3>1 DEF L!Open
      <3> QED
        BY <3>1, <3>2 DEF L!Next
    <2>6. CASE r.kind # "genesis"
      <3>1. TypeOf(r) \in L!TxTypes \ {"genesis"} /\ r.amount \in Amounts
        BY <2>1, <2>6, RequestType DEF TypeOf, Kinds, L!TxTypes
      <3>2. r.from \in wallets /\ r.to \in wallets /\ wallets' = wallets
        BY <2>4, <2>6 DEF ToLock
      <3>3. r.from = Treasury \/ balance[r.from] >= r.amount
        BY <1>1, CommitIsCovered DEF IInv
      <3>4. L!Move
        BY <2>3, <3>1, <3>2, <3>3 DEF L!Move
      <3> QED
        BY <3>4 DEF L!Next
    <2> QED
      BY <2>5, <2>6
  <1>2. CASE UNCHANGED dbVars
    BY <1>2 DEF dbVars, L!ledgerVars
  <1> QED
    BY <1>1, <1>2, StepCases

\* The concurrent handlers, their locks, retries and crashes implement the
\* ledger whose postings happen one at a time.
THEOREM LedgerImplemented == Spec => ImplementsLedger
  <1>1. Init => L!Init
    BY DEF Init, L!Init, Accounts, L!Accounts
  <1>2. IInv /\ [Next]_vars => [L!Next]_(L!ledgerVars)
    BY StepRefines
  <1> QED
    BY <1>1, <1>2, Invariance, PTL DEF Spec, ImplementsLedger, L!Spec

-----------------------------------------------------------------------------
(* The invariant *)

\* Each row of the ledger is one of the two rows of some request's posting.
RowsWhole ==
    \A e \in ledger : \E r \in Requests :
        e \in PostingOf(r, e.tx) /\ PostingOf(r, e.tx) \subseteq ledger

WithdrawalOf(e) == [tx |-> e.tx, user |-> e.acct, amount |-> -e.amt]

\* There is a withdrawal row for each withdrawal posting, and no other.
WithdrawalsPosted ==
    /\ \A w \in withdrawals :
          L!Posting(w.tx, w.user, Escrow, w.amount, "withdrawal") \subseteq ledger
    /\ \A e \in ledger :
          e.type = "withdrawal" /\ e.amt < 0 => WithdrawalOf(e) \in withdrawals

\* A handler that publishes has committed.
PublishedIsPosted ==
    \A p \in Procs : pc[p] = "publish" => PostingOf(req[p], tx[p]) \subseteq ledger

AnswersInv ==
    IInv /\ RowsWhole /\ WithdrawalsPosted /\ PublishedIsPosted /\ AnswersTruthful

-----------------------------------------------------------------------------
(* What a lookup tells *)

\* The rows of a posting, and the type that only its kind of request has.
LEMMA PostingRows ==
    ASSUME NEW r \in Requests, NEW t
    PROVE  /\ \A e \in PostingOf(r, t) :
                 /\ e.tx = t /\ e.type = TypeOf(r)
                 /\ \/ e.acct = r.from /\ e.amt = -r.amount
                    \/ e.acct = r.to /\ e.amt = r.amount
           /\ \E e \in PostingOf(r, t) : e.acct = r.from /\ e.amt = -r.amount
           /\ \E e \in PostingOf(r, t) : e.acct = r.to /\ e.amt = r.amount
           /\ TypeOf(r) = "admin_adjustment" <=> r.kind = "adjust"
           /\ TypeOf(r) = "withdrawal" <=> r.kind = "withdraw"
  <1>1. /\ TypeOf(r) = "admin_adjustment" <=> r.kind = "adjust"
        /\ TypeOf(r) = "withdrawal" <=> r.kind = "withdraw"
    BY RequestType DEF TypeOf, Kinds
  <1> QED
    BY <1>1 DEF PostingOf, L!Posting

\* A withdrawal's lookup goes by its row.
LEMMA WithdrawalLookup ==
    ASSUME WithdrawalsPosted, NEW r \in Requests, r.kind = "withdraw", NEW t
    PROVE  /\ Found(r, t) => L!Posted(t)
           /\ SameParameters(r, t) <=> PostingOf(r, t) \subseteq ledger
  <1> DEFINE w == [tx |-> t, user |-> r.from, amount |-> r.amount]
             d == [tx |-> t, acct |-> r.from, amt |-> -r.amount, type |-> "withdrawal"]
  <1>1. r.to = Escrow /\ TypeOf(r) = "withdrawal" /\ r.amount \in Nat /\ r.amount > 0
    BY RequestType, PostingRows DEF WellFormed
  <1>2. PostingOf(r, t) = L!Posting(w.tx, w.user, Escrow, w.amount, "withdrawal")
    BY <1>1 DEF PostingOf
  <1>3. d \in PostingOf(r, t)
    BY <1>1 DEF PostingOf, L!Posting
  <1>4. d \in ledger => w \in withdrawals
    <2>1. d.type = "withdrawal" /\ d.amt < 0 /\ -d.amt = r.amount
      BY <1>1
    <2>2. WithdrawalOf(d) = w
      BY <2>1 DEF WithdrawalOf
    <2> QED
      BY <2>1, <2>2 DEF WithdrawalsPosted
  <1>5. SameParameters(r, t) <=> w \in withdrawals
    BY DEF SameParameters
  <1>6. Found(r, t) => L!Posted(t)
    <2> SUFFICES ASSUME NEW v \in withdrawals, v.tx = t
                 PROVE  L!Posted(t)
      BY DEF Found
    <2>1. L!Posting(v.tx, v.user, Escrow, v.amount, "withdrawal") \subseteq ledger
      BY DEF WithdrawalsPosted
    <2> QED
      BY <2>1 DEF L!Posting, L!Posted
  <1> QED
    BY <1>2, <1>3, <1>4, <1>5, <1>6 DEF WithdrawalsPosted

\* An adjustment's lookup goes by the row of the user it is about.
LEMMA AdjustmentLookup ==
    ASSUME RowsWhole, NEW r \in Requests, r.kind = "adjust", NEW t
    PROVE  /\ Found(r, t) => L!Posted(t)
           /\ SameParameters(r, t) <=> PostingOf(r, t) \subseteq ledger
  <1> DEFINE amt == IF r.to = Target(r) THEN r.amount ELSE -r.amount
  <1>1. /\ r.amount \in Nat /\ r.amount > 0 /\ Target(r) \in Users /\ Treasury \notin Users
        /\ \/ r.from = Treasury /\ r.to = Target(r) /\ amt = r.amount
           \/ r.from = Target(r) /\ r.to = Treasury /\ amt = -r.amount
    BY RequestType DEF WellFormed, Target
  <1>2. SameParameters(r, t) <=>
          \E e \in ledger : e.tx = t /\ e.acct = Target(r) /\ e.type = TypeOf(r) /\ e.amt = amt
    BY DEF SameParameters
  <1>3. ASSUME PostingOf(r, t) \subseteq ledger
        PROVE  SameParameters(r, t)
    <2>1. \E e \in PostingOf(r, t) : e.acct = Target(r) /\ e.amt = amt
      BY <1>1, PostingRows
    <2> HIDE DEF amt
    <2> QED
      BY <1>2, <1>3, <2>1, PostingRows
  <1>4. ASSUME NEW e \in ledger, e.tx = t, e.acct = Target(r), e.type = TypeOf(r), e.amt = amt
        PROVE  PostingOf(r, t) \subseteq ledger
    <2>1. PICK s \in Requests : e \in PostingOf(s, t) /\ PostingOf(s, t) \subseteq ledger
      BY <1>4 DEF RowsWhole
    <2>2. s.kind = "adjust" /\ s.amount \in Nat /\ s.amount > 0
      BY <1>4, <2>1, PostingRows, RequestType
    <2>3. (s.from = Treasury /\ s.to \in Users) \/ (s.from \in Users /\ s.to = Treasury)
      BY <2>2 DEF WellFormed
    <2>4. \/ e.acct = s.from /\ e.amt = -s.amount
          \/ e.acct = s.to /\ e.amt = s.amount
      BY <2>1, PostingRows
    <2>5. s.from = r.from /\ s.to = r.to /\ s.amount = r.amount
      BY <1>1, <1>4, <2>2, <2>3, <2>4
    <2>6. TypeOf(s) = TypeOf(r)
      BY <2>2 DEF TypeOf
    <2>7. PostingOf(s, t) = PostingOf(r, t)
      BY <2>5, <2>6 DEF PostingOf
    <2> QED
      BY <2>1, <2>7
  <1>5. Found(r, t) => L!Posted(t)
    BY DEF Found
  <1> QED
    BY <1>2, <1>3, <1>4, <1>5

\* The lookup tells of the whole posting, for every kind of request.
LEMMA LookupTells ==
    ASSUME RowsWhole, WithdrawalsPosted, NEW r \in Requests, NEW t
    PROVE  /\ Found(r, t) => L!Posted(t)
           /\ SameParameters(r, t) <=> PostingOf(r, t) \subseteq ledger
  <1>1. CASE r.kind \notin {"withdraw", "adjust"}
    BY <1>1 DEF Found, SameParameters
  <1> QED
    BY <1>1, WithdrawalLookup, AdjustmentLookup

-----------------------------------------------------------------------------
(* The steps *)

\* A commit adds the posting of a request under a new id, and nothing else
\* touches the ledger.
LEMMA CommitFacts ==
    ASSUME IInv, NEW p \in Procs, Commit(p)
    PROVE  /\ req[p] \in Requests /\ UNCHANGED <<req, tx, answers>>
           /\ ledger' = ledger \cup PostingOf(req[p], tx[p])
           /\ \A e \in ledger : e.tx # tx[p]
           /\ pc' = [pc EXCEPT ![p] = "publish"]
  <1>1. req[p] \in Requests
    BY DEF IInv, Busy, Commit
  <1> QED
    BY <1>1, CommitIsNew DEF Commit, IInv, L!Posted

LEMMA RowsWholeStep ==
    ASSUME IInv, RowsWhole, [Next]_vars
    PROVE  RowsWhole'
  <1>1. ASSUME NEW p \in Procs, Commit(p)
        PROVE  RowsWhole'
    <2>1. ASSUME NEW e \in ledger'
          PROVE  \E r \in Requests : e \in PostingOf(r, e.tx) /\ PostingOf(r, e.tx) \subseteq ledger'
      <3>1. CASE e \in ledger
        BY <1>1, <3>1, CommitFacts DEF RowsWhole
      <3>2. CASE e \in PostingOf(req[p], tx[p])
        <4>1. e.tx = tx[p]
          BY <1>1, <3>2, CommitFacts, PostingRows
        <4> QED
          BY <1>1, <3>2, <4>1, CommitFacts
      <3> QED
        BY <1>1, <3>1, <3>2, CommitFacts
    <2> QED
      BY <2>1 DEF RowsWhole
  <1>2. CASE UNCHANGED dbVars
    BY <1>2 DEF RowsWhole, dbVars
  <1> QED
    BY <1>1, <1>2, StepCases

LEMMA WithdrawalsPostedStep ==
    ASSUME IInv, WithdrawalsPosted, [Next]_vars
    PROVE  WithdrawalsPosted'
  <1>1. ASSUME NEW p \in Procs, Commit(p)
        PROVE  WithdrawalsPosted'
    <2> DEFINE r == req[p]
               w == [tx |-> tx[p], user |-> r.from, amount |-> r.amount]
    <2>1. r \in Requests /\ ledger' = ledger \cup PostingOf(r, tx[p])
      BY <1>1, CommitFacts
    <2>2. withdrawals' = IF r.kind = "withdraw" THEN withdrawals \cup {w} ELSE withdrawals
      BY <1>1 DEF Commit
    <2>3. /\ \A e \in PostingOf(r, tx[p]) :
                /\ e.tx = tx[p] /\ e.type = TypeOf(r)
                /\ \/ e.acct = r.from /\ e.amt = -r.amount
                   \/ e.acct = r.to /\ e.amt = r.amount
          /\ TypeOf(r) = "withdrawal" <=> r.kind = "withdraw"
      BY <2>1, PostingRows
    <2>4. r.amount \in Nat /\ r.amount > 0 /\ (r.kind = "withdraw" => r.to = Escrow)
      BY <2>1, RequestType DEF WellFormed
    <2>5. ASSUME NEW v \in withdrawals'
          PROVE  L!Posting(v.tx, v.user, Escrow, v.amount, "withdrawal") \subseteq ledger'
      <3>1. CASE v \in withdrawals
        BY <2>1, <3>1 DEF WithdrawalsPosted
      <3>2. CASE v = w /\ r.kind = "withdraw"
        <4>1. L!Posting(v.tx, v.user, Escrow, v.amount, "withdrawal") = PostingOf(r, tx[p])
          BY <2>3, <2>4, <3>2 DEF PostingOf
        <4> QED
          BY <2>1, <4>1
      <3> QED
        BY <2>2, <3>1, <3>2
    <2>6. ASSUME NEW e \in ledger', e.type = "withdrawal", e.amt < 0
          PROVE  WithdrawalOf(e) \in withdrawals'
      <3>1. CASE e \in ledger
        BY <2>2, <2>6, <3>1 DEF WithdrawalsPosted
      <3>2. CASE e \in PostingOf(r, tx[p])
        <4>1. r.kind = "withdraw" /\ e.tx = tx[p] /\ e.acct = r.from /\ -e.amt = r.amount
          BY <2>3, <2>4, <2>6, <3>2
        <4>2. WithdrawalOf(e) = w
          BY <4>1 DEF WithdrawalOf
        <4> QED
          BY <2>2, <4>1, <4>2
      <3> QED
        BY <2>1, <3>1, <3>2
    <2> QED
      BY <2>5, <2>6 DEF WithdrawalsPosted
  <1>2. CASE UNCHANGED dbVars
    BY <1>2 DEF WithdrawalsPosted, dbVars
  <1> QED
    BY <1>1, <1>2, StepCases

LEMMA PublishedStep ==
    ASSUME IInv, PublishedIsPosted, [Next]_vars
    PROVE  PublishedIsPosted'
  <1>1. TypeOK
    BY DEF IInv
  <1>2. ASSUME NEW p \in Procs, Commit(p)
        PROVE  PublishedIsPosted'
    BY <1>1, <1>2, CommitFacts DEF PublishedIsPosted, TypeOK
  <1>3. ASSUME UNCHANGED ledger,
               \A q \in Procs : pc'[q] = "publish" =>
                  pc[q] = "publish" /\ req'[q] = req[q] /\ tx'[q] = tx[q]
        PROVE  PublishedIsPosted'
    BY <1>3 DEF PublishedIsPosted
  <1>4. ASSUME NEW p \in Procs, Receive(p) \/ Proceed(p) \/ Acquire(p) \/ Collide(p),
               UNCHANGED dbVars
        PROVE  PublishedIsPosted'
    BY <1>1, <1>3, <1>4 DEF Receive, Proceed, Acquire, Collide, TypeOK, dbVars
  <1>5. ASSUME NEW p \in Procs, Idle(p), UNCHANGED dbVars
        PROVE  PublishedIsPosted'
    BY <1>1, <1>3, <1>5, IdleType DEF dbVars
  <1>6. CASE UNCHANGED vars
    BY <1>3, <1>6 DEF vars
  <1> QED
    BY <1>2, <1>4, <1>5, <1>6, StepCases

\* The answer that a step gives is true when it is given.
LEMMA AnswerIsTrue ==
    ASSUME IInv, RowsWhole, WithdrawalsPosted, PublishedIsPosted, NEW p \in Procs,
           Refuse(p) \/ Replay(p) \/ Reject(p) \/ Relookup(p) \/ Publish(p)
    PROVE  LET r == req[p] t == tx[p] IN
           /\ UNCHANGED ledger
           /\ \E o \in Outcomes :
                /\ answers' = answers \cup {[id |-> t, req |-> r, outcome |-> o]}
                /\ o \in {"ok", "replay"} => PostingOf(r, t) \subseteq ledger
                /\ o = "conflict" => L!Posted(t) /\ ~(PostingOf(r, t) \subseteq ledger)
  <1> DEFINE r == req[p]
             t == tx[p]
  <1>1. r \in Requests
    BY DEF IInv, Busy, Refuse, Replay, Reject, Relookup, Publish
  <1>2. /\ Found(r, t) => L!Posted(t)
        /\ SameParameters(r, t) <=> PostingOf(r, t) \subseteq ledger
    BY <1>1, LookupTells
  <1>3. CASE Refuse(p)
    BY <1>3 DEF Refuse, Answer, Outcomes, dbVars
  <1>4. CASE Replay(p)
    BY <1>2, <1>4 DEF Replay, Answer, Outcomes, dbVars
  <1>5. CASE Reject(p)
    BY <1>5 DEF Reject, Answer, Outcomes, dbVars
  <1>6. CASE Relookup(p)
    BY <1>2, <1>6 DEF Relookup, Answer, Outcomes, dbVars
  <1>7. CASE Publish(p)
    BY <1>7 DEF Publish, PublishedIsPosted, Answer, Outcomes, dbVars
  <1> QED
    BY <1>3, <1>4, <1>5, <1>6, <1>7

LEMMA AnswersTruthfulStep ==
    ASSUME AnswersInv, [Next]_vars
    PROVE  AnswersTruthful'
  <1> USE DEF AnswersInv
  <1>1. \A a \in answers : a.req \in Requests
    BY DEF IInv, TypeOK
  <1>2. ASSUME NEW p \in Procs, Commit(p)
        PROVE  AnswersTruthful'
    <2>1. ASSUME NEW a \in answers, a.outcome \in {"ok", "replay"}
          PROVE  Committed(a)'
      BY <1>2, <2>1, CommitFacts DEF AnswersTruthful, Committed, PostingOf
    <2>2. ASSUME NEW a \in answers, a.outcome = "conflict"
          PROVE  L!Posted(a.id)' /\ ~Committed(a)'
      <3>1. PICK e \in ledger : e.tx = a.id
        BY <2>2 DEF AnswersTruthful, L!Posted
      <3>2. a.id # tx[p] /\ ledger' = ledger \cup PostingOf(req[p], tx[p])
        BY <1>2, <3>1, CommitFacts
      <3>3. \A f \in PostingOf(req[p], tx[p]) : f.tx = tx[p]
        BY <1>2, CommitFacts, PostingRows
      <3>4. \A f \in PostingOf(a.req, a.id) : f.tx = a.id
        BY <1>1, PostingRows
      <3>5. ~(PostingOf(a.req, a.id) \subseteq ledger)
        BY <2>2 DEF AnswersTruthful, Committed
      <3>6. ~(PostingOf(a.req, a.id) \subseteq ledger')
        BY <3>2, <3>3, <3>4, <3>5
      <3> QED
        BY <3>1, <3>2, <3>6 DEF Committed, L!Posted, PostingOf
    <2> QED
      BY <1>2, <2>1, <2>2, CommitFacts DEF AnswersTruthful
  <1>3. ASSUME NEW p \in Procs,
               Refuse(p) \/ Replay(p) \/ Reject(p) \/ Relookup(p) \/ Publish(p)
        PROVE  AnswersTruthful'
    <2>1. PICK o \in Outcomes :
            /\ UNCHANGED ledger
            /\ answers' = answers \cup {[id |-> tx[p], req |-> req[p], outcome |-> o]}
            /\ o \in {"ok", "replay"} => PostingOf(req[p], tx[p]) \subseteq ledger
            /\ o = "conflict" => /\ L!Posted(tx[p])
                                 /\ ~(PostingOf(req[p], tx[p]) \subseteq ledger)
      BY <1>3, AnswerIsTrue
    <2> QED
      BY <2>1 DEF AnswersTruthful, Committed, L!Posted, PostingOf
  <1>4. ASSUME UNCHANGED <<ledger, answers>>
        PROVE  AnswersTruthful'
    BY <1>4 DEF AnswersTruthful, Committed, L!Posted, PostingOf
  <1>5. ASSUME NEW p \in Procs, Receive(p) \/ Proceed(p) \/ Acquire(p) \/ Collide(p) \/ Crash(p)
        PROVE  UNCHANGED <<ledger, answers>>
    BY <1>5 DEF Receive, Proceed, Acquire, Collide, Crash, dbVars
  <1>6. CASE UNCHANGED vars
    BY <1>4, <1>6 DEF vars
  <1> QED
    BY <1>2, <1>3, <1>4, <1>5, <1>6 DEF Next, Handle

-----------------------------------------------------------------------------
(* The theorem *)

LEMMA AnswersInvInit ==
    Init => AnswersInv
  BY InitIInv DEF Init, AnswersInv, RowsWhole, WithdrawalsPosted, PublishedIsPosted,
                  AnswersTruthful

LEMMA AnswersInvStep ==
    AnswersInv /\ [Next]_vars => AnswersInv'
  BY StepIInv, RowsWholeStep, WithdrawalsPostedStep, PublishedStep, AnswersTruthfulStep
     DEF AnswersInv

\* A success and a replay are of a request whose posting is in the ledger, and
\* a conflict of one whose id somebody else posted: whatever requests race for
\* a key, and however long ago the answer was given.
THEOREM AnswersTruthfulHolds == Spec => []AnswersTruthful
  <1>1. AnswersInv => AnswersTruthful
    BY DEF AnswersInv
  <1> QED
    BY <1>1, AnswersInvInit, AnswersInvStep, PTL DEF Spec

-----------------------------------------------------------------------------
(* What the audit finds *)

\* The amounts of ledger rows, and of withdrawal rows, are added by that fold.
LEMMA EntrySumIs ==
    ASSUME NEW S
    PROVE  EntrySum(S) = SumOf([e \in S |-> e.amt], S)
  <1> DEFINE w == [e \in S |-> e.amt]
             Unfold(f) == [s \in SUBSET S |->
                            IF s = {} THEN 0 ELSE FirstOut(s).amt + f[s \ {FirstOut(s)}]]
  <1>1. EntrySum(S) = (CHOOSE f : f = Unfold(f))[S]
    BY DEF EntrySum, MapThenSumSet, MapThenFoldSet, FirstOut
  <1>2. \A f : Unfold(f) = [U \in SUBSET S |-> Body(w, f, U)]
    BY FirstOutIn DEF Body
  <1> HIDE DEF Unfold, w
  <1>3. (CHOOSE f : f = Unfold(f))
          = (CHOOSE f : f = [U \in SUBSET S |-> Body(w, f, U)])
    BY <1>2
  <1> QED
    BY <1>1, <1>3 DEF SumOf, w

\* The same for the rows of withdrawals.
LEMMA WithdrawalSumIs ==
    ASSUME NEW S
    PROVE  WithdrawalSum(S) = SumOf([e \in S |-> e.amount], S)
  <1> DEFINE w == [e \in S |-> e.amount]
             Unfold(f) == [s \in SUBSET S |->
                            IF s = {} THEN 0 ELSE FirstOut(s).amount + f[s \ {FirstOut(s)}]]
  <1>1. WithdrawalSum(S) = (CHOOSE f : f = Unfold(f))[S]
    BY DEF WithdrawalSum, MapThenSumSet, MapThenFoldSet, FirstOut
  <1>2. \A f : Unfold(f) = [U \in SUBSET S |-> Body(w, f, U)]
    BY FirstOutIn DEF Body
  <1> HIDE DEF Unfold, w
  <1>3. (CHOOSE f : f = Unfold(f))
          = (CHOOSE f : f = [U \in SUBSET S |-> Body(w, f, U)])
    BY <1>2
  <1> QED
    BY <1>1, <1>3 DEF SumOf, w

\* A row more adds its amount to the sum of a set of rows.
LEMMA EntrySumAdd ==
    ASSUME NEW S, IsFiniteSet(S), NEW e, e \notin S, \A f \in S \cup {e} : f.amt \in Int
    PROVE  EntrySum(S \cup {e}) = EntrySum(S) + e.amt /\ EntrySum(S) \in Int
  <1> DEFINE w == [f \in S \cup {e} |-> f.amt]
             v == [f \in S |-> f.amt]
  <1>1. Agree(w, v, S) /\ Ints(w, S \cup {e}) /\ w[e] = e.amt
    BY DEF Agree, Ints
  <1>2. EntrySum(S \cup {e}) = SumOf(w, S \cup {e}) /\ EntrySum(S) = SumOf(v, S)
    BY EntrySumIs
  <1> HIDE DEF w, v
  <1>3. SumOf(w, S \cup {e}) = w[e] + SumOf(v, S) /\ SumOf(v, S) \in Int
    BY <1>1, SumOfAdd, Zenon
  <1>4. e.amt \in Int
    OBVIOUS
  <1> QED
    BY <1>1, <1>2, <1>3, <1>4

\* A withdrawal more adds its amount.
LEMMA WithdrawalSumAdd ==
    ASSUME NEW S, IsFiniteSet(S), NEW e, e \notin S,
           \A f \in S \cup {e} : f.amount \in Int
    PROVE  /\ WithdrawalSum(S \cup {e}) = WithdrawalSum(S) + e.amount
           /\ WithdrawalSum(S) \in Int
  <1> DEFINE w == [f \in S \cup {e} |-> f.amount]
             v == [f \in S |-> f.amount]
  <1>1. Agree(w, v, S) /\ Ints(w, S \cup {e}) /\ w[e] = e.amount
    BY DEF Agree, Ints
  <1>2. WithdrawalSum(S \cup {e}) = SumOf(w, S \cup {e})
        /\ WithdrawalSum(S) = SumOf(v, S)
    BY WithdrawalSumIs
  <1> HIDE DEF w, v
  <1>3. SumOf(w, S \cup {e}) = w[e] + SumOf(v, S) /\ SumOf(v, S) \in Int
    BY <1>1, SumOfAdd, Zenon
  <1>4. e.amount \in Int
    OBVIOUS
  <1> QED
    BY <1>1, <1>2, <1>3, <1>4

\* No rows add up to nothing.
LEMMA EmptySums == EntrySum({}) = 0 /\ WithdrawalSum({}) = 0
  BY EntrySumIs, WithdrawalSumIs, SumOfEmpty

\* Only so many rows were ever inserted.
RowsFinite == IsFiniteSet(ledger) /\ IsFiniteSet(withdrawals)

\* The invariant: what the audit compares, on top of what the answers rest on.
AuditInv ==
    AnswersInv /\ RowsFinite /\ BalanceMatchesLedger /\ EscrowBacksWithdrawals

\* A commit adds one row to each party's, and none to anyone else's.
LEMMA CommitRows ==
    ASSUME IInv, NEW p \in Procs, Commit(p)
    PROVE  LET r == req[p]
               d == [tx |-> tx[p], acct |-> r.from, amt |-> -r.amount, type |-> TypeOf(r)]
               c == [tx |-> tx[p], acct |-> r.to, amt |-> r.amount, type |-> TypeOf(r)]
           IN
           /\ RowsIn(ledger', r.from) = RowsIn(ledger, r.from) \cup {d} /\ d \notin ledger
           /\ RowsIn(ledger', r.to) = RowsIn(ledger, r.to) \cup {c} /\ c \notin ledger
           /\ \A a \in Accounts \ {r.from, r.to} : RowsIn(ledger', a) = RowsIn(ledger, a)
           /\ ledger' = ledger \cup {d, c}
  <1> DEFINE r == req[p]
             d == [tx |-> tx[p], acct |-> r.from, amt |-> -r.amount, type |-> TypeOf(r)]
             c == [tx |-> tx[p], acct |-> r.to, amt |-> r.amount, type |-> TypeOf(r)]
  <1>1. ledger' = ledger \cup {d, c}
    BY CommitFacts DEF PostingOf, L!Posting
  <1>2. d \notin ledger /\ c \notin ledger
    <2>1. d.tx = tx[p] /\ c.tx = tx[p]
      OBVIOUS
    <2> QED BY <2>1, CommitFacts
  <1>3. d.acct = r.from /\ c.acct = r.to /\ r.from # r.to
    BY CommitMovesAmount DEF IInv
  <1> HIDE DEF d, c
  <1>4. /\ RowsIn(ledger', r.from) = RowsIn(ledger, r.from) \cup {d}
        /\ RowsIn(ledger', r.to) = RowsIn(ledger, r.to) \cup {c}
        /\ \A a \in Accounts \ {r.from, r.to} : RowsIn(ledger', a) = RowsIn(ledger, a)
    BY <1>1, <1>3 DEF RowsIn
  <1> QED
    BY <1>1, <1>2, <1>4 DEF d, c

\* The rows of an account are finitely many rows of the ledger.
LEMMA RowsInType ==
    ASSUME TypeOK, RowsFinite, NEW a
    PROVE  /\ IsFiniteSet(RowsIn(ledger, a))
           /\ \A e \in RowsIn(ledger, a) : e.amt \in Int /\ e \in ledger
  <1>1. RowsIn(ledger, a) \subseteq ledger /\ ledger \subseteq L!Entries
    BY DEF RowsIn, TypeOK
  <1>2. \A e \in ledger : e.amt \in Int
    BY <1>1 DEF L!Entries
  <1> QED
    BY <1>1, <1>2, FS_Subset DEF RowsFinite

\* Both balances move by what the rows say.
LEMMA BalancesMatchStep ==
    ASSUME AuditInv, [Next]_vars
    PROVE  BalanceMatchesLedger'
  <1> USE DEF AuditInv, AnswersInv
  <1>0. TypeOK
    BY DEF IInv
  <1>1. ASSUME NEW p \in Procs, Commit(p), NEW a \in Accounts
        PROVE  balance'[a] = LedgerSum(a)'
    <2> DEFINE r == req[p]
               d == [tx |-> tx[p], acct |-> r.from, amt |-> -r.amount, type |-> TypeOf(r)]
               c == [tx |-> tx[p], acct |-> r.to, amt |-> r.amount, type |-> TypeOf(r)]
    <2>1. /\ r \in Requests /\ r.from # r.to /\ r.amount \in Int
          /\ balance' = [balance EXCEPT ![r.from] = balance[r.from] - r.amount,
                                        ![r.to] = balance[r.to] + r.amount]
      BY <1>1, CommitMovesAmount, RequestType DEF IInv
    <2>2. balance[a] = EntrySum(RowsIn(ledger, a))
          /\ LedgerSum(a)' = EntrySum(RowsIn(ledger', a))
      BY DEF BalanceMatchesLedger, LedgerSum
    <2>3. /\ RowsIn(ledger', r.from) = RowsIn(ledger, r.from) \cup {d} /\ d \notin ledger
          /\ RowsIn(ledger', r.to) = RowsIn(ledger, r.to) \cup {c} /\ c \notin ledger
          /\ \A b \in Accounts \ {r.from, r.to} : RowsIn(ledger', b) = RowsIn(ledger, b)
      BY <1>1, CommitRows
    <2>4. /\ IsFiniteSet(RowsIn(ledger, a))
          /\ \A e \in RowsIn(ledger, a) : e.amt \in Int /\ e \in ledger
      BY <1>0, RowsInType
    <2>5. balance \in [Accounts -> Int]
      BY <1>0 DEF TypeOK
    <2>6. CASE a = r.from
      <3>1. d.amt = -r.amount /\ d.amt \in Int
        BY <2>1
      <3> HIDE DEF d
      <3>2. d \notin RowsIn(ledger, a) /\ \A f \in RowsIn(ledger, a) \cup {d} : f.amt \in Int
        BY <2>3, <2>4, <3>1
      <3>3. EntrySum(RowsIn(ledger, a) \cup {d}) = EntrySum(RowsIn(ledger, a)) + d.amt
        BY <2>4, <3>2, EntrySumAdd
      <3> QED
        BY <2>1, <2>2, <2>3, <2>5, <2>6, <3>1, <3>3
    <2>7. CASE a = r.to
      <3>1. c.amt = r.amount /\ c.amt \in Int
        BY <2>1
      <3> HIDE DEF c
      <3>2. c \notin RowsIn(ledger, a) /\ \A f \in RowsIn(ledger, a) \cup {c} : f.amt \in Int
        BY <2>3, <2>4, <3>1
      <3>3. EntrySum(RowsIn(ledger, a) \cup {c}) = EntrySum(RowsIn(ledger, a)) + c.amt
        BY <2>4, <3>2, EntrySumAdd
      <3> QED
        BY <2>1, <2>2, <2>3, <2>5, <2>7, <3>1, <3>3
    <2>8. CASE a \notin {r.from, r.to}
      BY <2>1, <2>2, <2>3, <2>5, <2>8
    <2> QED
      BY <2>6, <2>7, <2>8
  <1>2. ASSUME UNCHANGED dbVars, NEW a \in Accounts
        PROVE  balance'[a] = LedgerSum(a)'
    <2>1. RowsIn(ledger', a) = RowsIn(ledger, a) /\ balance' = balance
      BY <1>2 DEF RowsIn, dbVars
    <2> QED
      BY <2>1 DEF BalanceMatchesLedger, LedgerSum
  <1> QED
    BY <1>1, <1>2, StepCases DEF BalanceMatchesLedger

\* Only a withdrawal pays the escrow, nothing is paid from it, and each
\* withdrawal leaves one row.
LEMMA EscrowStep ==
    ASSUME AuditInv, [Next]_vars
    PROVE  EscrowBacksWithdrawals'
  <1> USE DEF AuditInv, AnswersInv
  <1>0. TypeOK
    BY DEF IInv
  <1>a. /\ EscrowBacksWithdrawals <=> balance[Escrow] = WithdrawalSum(withdrawals)
        /\ EscrowBacksWithdrawals' <=> balance'[Escrow] = WithdrawalSum(withdrawals')
    BY DEF EscrowBacksWithdrawals
  <1>1. ASSUME NEW p \in Procs, Commit(p)
        PROVE  balance'[Escrow] = WithdrawalSum(withdrawals')
    <2> DEFINE r == req[p]
               w == [tx |-> tx[p], user |-> r.from, amount |-> r.amount]
    <2>1. /\ r \in Requests /\ r.from # r.to /\ r.amount \in Int
          /\ balance' = [balance EXCEPT ![r.from] = balance[r.from] - r.amount,
                                        ![r.to] = balance[r.to] + r.amount]
      BY <1>1, CommitMovesAmount, RequestType DEF IInv
    <2>2. /\ r.from # Escrow
          /\ r.to = Escrow <=> r.kind = "withdraw"
      BY <2>1, RequestType, RequestsAssumption, AccountsAssumption, TransferAssumption
      DEF WellFormed, Kinds
    <2>3. /\ IsFiniteSet(withdrawals)
          /\ withdrawals \subseteq [tx : TxIds, user : Accounts, amount : Amounts]
          /\ balance \in [Accounts -> Int] /\ Escrow \in Accounts
      BY <1>0 DEF RowsFinite, TypeOK, Accounts
    <2>4. \A v \in withdrawals : v.amount \in Int
      <3>1. \A v \in withdrawals : v.amount \in Amounts
        BY <2>3
      <3>2. Amounts \subseteq Int
        BY AmountsAssumption
      <3> QED
        BY <3>1, <3>2
    <2>5. withdrawals' = IF r.kind = "withdraw" THEN withdrawals \cup {w} ELSE withdrawals
      BY <1>1 DEF Commit
    <2>6. w \notin withdrawals
      <3>1. SUFFICES ASSUME w \in withdrawals PROVE FALSE
        OBVIOUS
      <3>2. L!Posting(tx[p], r.from, Escrow, r.amount, "withdrawal") \subseteq ledger
        BY <3>1 DEF WithdrawalsPosted
      <3>3. \E e \in ledger : e.tx = tx[p]
        BY <3>2 DEF L!Posting
      <3> QED
        BY <1>1, <3>3, CommitFacts
    <2>7. CASE r.kind = "withdraw"
      <3>1. w.amount = r.amount /\ w.amount \in Int
        BY <2>1
      <3> HIDE DEF w
      <3>2. \A v \in withdrawals \cup {w} : v.amount \in Int
        BY <2>4, <3>1
      <3>3. WithdrawalSum(withdrawals \cup {w}) = WithdrawalSum(withdrawals) + w.amount
        BY <2>3, <2>6, <3>2, WithdrawalSumAdd
      <3> QED
        BY <1>a, <2>1, <2>2, <2>3, <2>5, <2>7, <3>1, <3>3
    <2>8. CASE r.kind # "withdraw"
      BY <1>a, <2>1, <2>2, <2>3, <2>5, <2>8
    <2> QED
      BY <2>7, <2>8
  <1>2. CASE UNCHANGED dbVars
    BY <1>2, <1>a DEF dbVars
  <1> QED
    BY <1>1, <1>2, <1>a, StepCases

\* A step inserts at most two rows into one table and one into the other.
LEMMA RowsFiniteStep ==
    ASSUME AuditInv, [Next]_vars
    PROVE  RowsFinite'
  <1> USE DEF AuditInv, AnswersInv
  <1>1. ASSUME NEW p \in Procs, Commit(p)
        PROVE  RowsFinite'
    <2> DEFINE r == req[p]
               w == [tx |-> tx[p], user |-> r.from, amount |-> r.amount]
               d == [tx |-> tx[p], acct |-> r.from, amt |-> -r.amount, type |-> TypeOf(r)]
               c == [tx |-> tx[p], acct |-> r.to, amt |-> r.amount, type |-> TypeOf(r)]
    <2>1. ledger' = (ledger \cup {d}) \cup {c}
      BY <1>1, CommitRows
    <2>2. withdrawals' \in {withdrawals, withdrawals \cup {w}}
      BY <1>1 DEF Commit
    <2> HIDE DEF w, d, c
    <2>3. IsFiniteSet(ledger \cup {d}) /\ IsFiniteSet(withdrawals \cup {w})
      BY FS_AddElement DEF RowsFinite
    <2>4. IsFiniteSet((ledger \cup {d}) \cup {c})
      BY <2>3, FS_AddElement
    <2> QED
      BY <2>1, <2>2, <2>3, <2>4, Zenon DEF RowsFinite
  <1>2. CASE UNCHANGED dbVars
    BY <1>2 DEF RowsFinite, dbVars
  <1> QED
    BY <1>1, <1>2, StepCases

\* The empty database passes the audit.
LEMMA AuditInvInit == Init => AuditInv
  <1> SUFFICES ASSUME Init
               PROVE  AuditInv
    OBVIOUS
  <1>1. AnswersInv /\ RowsFinite
    BY AnswersInvInit, FS_EmptySet DEF Init, RowsFinite
  <1>2. BalanceMatchesLedger
    <2>1. \A a : RowsIn(ledger, a) = {}
      BY DEF Init, RowsIn
    <2> QED
      BY <2>1, EmptySums DEF Init, BalanceMatchesLedger, LedgerSum
  <1>3. EscrowBacksWithdrawals
    BY EmptySums DEF Init, EscrowBacksWithdrawals, Accounts
  <1> QED
    BY <1>1, <1>2, <1>3 DEF AuditInv

\* Every step keeps what the audit compares.
LEMMA AuditInvStep == AuditInv /\ [Next]_vars => AuditInv'
  BY AnswersInvStep, RowsFiniteStep, BalancesMatchStep, EscrowStep DEF AuditInv

\* Between any two steps of any number of handlers, every balance is the sum of
\* its rows, nobody but the treasury is overdrawn by them, and the escrow holds
\* the sum of the withdrawals.
THEOREM AuditPassesHolds == Spec => []AuditPasses
  <1>1. AuditInv => AuditPasses
    BY DEF AuditInv, AuditPasses, AnswersInv, IInv, BalancesSound, NoOverdraft,
           BalanceMatchesLedger
  <1> QED
    BY <1>1, AuditInvInit, AuditInvStep, PTL DEF Spec
=============================================================================
