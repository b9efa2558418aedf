------------------------------ MODULE MCWallet ------------------------------
(* Small instances of Wallet for TLC. *)
EXTENDS Wallet, TLC

CONSTANTS u1, u2, k1

MCUsers == {u1, u2}
MCKeys == {k1}
\* The treasury's id sorts between the users', the escrow's after both.
MCRank == [a \in {u1, u2, Treasury, Escrow} |->
              CASE a = u1 -> 1 [] a = Treasury -> 2 [] a = u2 -> 3 [] OTHER -> 4]

Req(k, f, t, n, key) ==
    [kind |-> k, from |-> f, to |-> t, amount |-> n, key |-> key]

\* Opposite transfers, one of them keyed; a withdrawal with the same key, which
\* shares its scope; adjustments in both directions with one key; and two
\* withdrawals for the cap.
MCRequests ==
    {Req("genesis", Treasury, u1, 2, NoKey), Req("genesis", Treasury, u2, 2, NoKey),
     Req("transfer", u1, u2, 1, k1), Req("transfer", u2, u1, 1, NoKey),
     Req("adjust", Treasury, u1, 1, k1), Req("adjust", u1, Treasury, 2, k1),
     Req("withdraw", u1, Escrow, 1, k1), Req("withdraw", u1, Escrow, 2, NoKey)}
=============================================================================
