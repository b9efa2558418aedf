-------------------------------- MODULE Duel --------------------------------
(***************************************************************************)
(* The two browsers of a rock-paper-scissors round: the invitation, the    *)
(* dialog of each side (RPSGameDialog.tsx) and the store slots that the    *)
(* user channel fills.  A dialog hears of its round in two ways that are   *)
(* not ordered: the answers to its own requests, and the events of the     *)
(* user channel.                                                           *)
(*                                                                         *)
(* The service is seen from outside: a request takes effect in one step    *)
(* (Rps.tla has the steps of its handlers).  A round that expires is gone  *)
(* without an event.                                                       *)
(***************************************************************************)
EXTENDS Integers, Sequences, FiniteSets

CONSTANTS
    Hands,       \* hands that each player chooses from in each round
    MaxRounds,   \* bound: rounds of the visit
    MaxFaults,   \* bound: calls that fail, answers that are lost, reloads
    MaxAsking    \* bound: rounds asked for at a time

Players == {"visitor", "host"}
Opponent(q) == IF q = "visitor" THEN "host" ELSE "visitor"
Rounds == 1 .. MaxRounds
NoRound == 0

ASSUME HandsAssumption ==
    Hands \in [Rounds -> [Players -> SUBSET {"rock", "paper", "scissors"}]]
ASSUME BoundsAssumption ==
    MaxRounds \in Nat /\ MaxFaults \in Nat /\ MaxAsking \in Nat

VARIABLES
    round,    \* the rounds as the service keeps them
    inbox,    \* events of the user channel on their way to each browser
    call,     \* requests of each browser that are not answered
    tab,      \* each browser's page
    faults

vars == <<round, inbox, call, tab, faults>>

NoPick == [q \in Players |-> "none"]
Event(type, r) == [type |-> type, round |-> r, pick |-> NoPick, outcome |-> "none"]
NoReveal == Event("reveal", NoRound)
NoResult == [mine |-> "none", opp |-> "none", tone |-> "none"]

\* A page.  current is what mounts the dialog (visitorActiveRpsRound, or
\* acceptedHostRpsRound), dialog the round that the mounted dialog is at.
Page == [current |-> NoRound, dialog |-> NoRound, phase |-> "none",
         result |-> NoResult, invite |-> NoRound, busy |-> FALSE,
         reveal |-> NoReveal, cancelled |-> NoRound]

\* A request.  live: the dialog that made it is still mounted.
Call(kind, r, hand) ==
    [kind |-> kind, round |-> r, hand |-> hand, at |-> "sent", live |-> TRUE]

Init ==
    /\ round = [r \in Rounds |-> [status |-> "none", pick |-> NoPick]]
    /\ inbox = [q \in Players |-> <<>>]
    /\ call = [q \in Players |-> {}]
    /\ tab = [q \in Players |-> Page]
    /\ faults = 0

-----------------------------------------------------------------------------
(* The dialog *)

\* What a reveal says to one side.
Tone(q, outcome) ==
    IF outcome = "draw" THEN "draw"
    ELSE IF <<q, outcome>> \in {<<"visitor", "win">>, <<"host", "lose">>}
    THEN "win" ELSE "lose"

MutantResult(q, e) == [mine |-> e.pick["visitor"], opp |-> e.pick["host"],
                       tone |-> Tone(q, e.outcome)]
Result(q, e) == [mine |-> e.pick[q], opp |-> e.pick[Opponent(q)],
                 tone |-> Tone(q, e.outcome)]

MutantIsRevealed(t) == t.reveal.round = t.dialog /\ t.phase = "waiting"
IsRevealed(t) == t.dialog # NoRound /\ t.reveal.round = t.dialog

\* The effects that watch the store: each takes what is for its round.
WatchReveal(q, t) ==
    IF IsRevealed(t)
    THEN [t EXCEPT !.phase = "result", !.result = Result(q, t.reveal),
                   !.reveal = NoReveal]
    ELSE t
WatchCancelled(t) ==
    IF t.dialog # NoRound /\ t.cancelled = t.dialog
    THEN [t EXCEPT !.phase = "cancelled", !.result = NoResult,
                   !.cancelled = NoRound]
    ELSE t
Watched(q, t) == WatchCancelled(WatchReveal(q, t))

\* A dialog starts a round by fetching the balance.
Starts(q, t, r) ==
    Watched(q, [t EXCEPT !.dialog = r, !.phase = "loading", !.result = NoResult])
AsksBalance(q, r) == call[q] \cup {Call("balance", r, "none")}

\* The slot that mounts the dialog is set.  A mounted dialog keeps the round
\* of its own state: useState reads the prop when it mounts only.
Mounts(t) == t.current = NoRound
Opened(q, t, r) ==
    IF Mounts(t) THEN Starts(q, [t EXCEPT !.current = r], r)
    ELSE [t EXCEPT !.current = r]
Asked(q, t, r) == IF Mounts(t) THEN AsksBalance(q, r) ELSE call[q]

\* Nobody hears the answers that were for the dialog; what was sent is served.
Unmounted(cs) ==
    {[c EXCEPT !.live = FALSE] : c \in {d \in cs :
        d.kind # "balance" /\ (d.kind = "pick" => d.at = "sent")}}

\* The effect of an answer on the dialog, unless it is gone.
Shows(q, c, phase) ==
    IF c.live
    THEN tab' = [tab EXCEPT ![q].phase = phase, ![q].result = NoResult]
    ELSE UNCHANGED tab
Answered(q, c) == call' = [call EXCEPT ![q] = @ \ {c}]

\* What fails, fails with it.
Fails(n) == /\ faults' = faults + n
            /\ faults' <= MaxFaults

BalanceAnswer(q, c) ==
    /\ c.kind = "balance"
    /\ \/ Shows(q, c, "ready") /\ Fails(0)
       \/ Shows(q, c, "cancelled") /\ Fails(1)
    /\ Answered(q, c)
    /\ UNCHANGED <<round, inbox>>

\* onPick
Pick(q, hand) ==
    /\ tab[q].phase = "ready"
    /\ tab' = [tab EXCEPT ![q].phase = "picking"]
    /\ call' = [call EXCEPT ![q] = @ \cup {Call("pick", tab[q].dialog, hand)}]
    /\ UNCHANGED <<round, inbox, faults>>

MutantPhaseAfter(status) == IF status = "pending" THEN "waiting" ELSE "same"
PhaseAfter(status) ==
    CASE status = "pending" -> "waiting"
      [] status = "failed" -> "cancelled"
      [] OTHER -> "same"

PickAnswer(q, c) ==
    /\ c.kind = "pick" /\ c.at # "sent"
    /\ IF PhaseAfter(c.at) = "same" THEN UNCHANGED tab
       ELSE Shows(q, c, PhaseAfter(c.at))
    /\ Answered(q, c)
    /\ UNCHANGED <<round, inbox, faults>>

\* onClose: no button while a round is being played.
Close(q) ==
    /\ tab[q].phase \in {"ready", "result", "cancelled"}
    /\ tab' = [tab EXCEPT ![q] = [@ EXCEPT !.current = NoRound,
                 !.dialog = NoRound, !.phase = "none", !.result = NoResult]]
    /\ call' = [call EXCEPT ![q] = Unmounted(@)]
    /\ UNCHANGED <<round, inbox, faults>>

-----------------------------------------------------------------------------
(* A new round: the visitor asks, from the view or from the dialog *)

\* Bound: nothing is asked for when there is no round left.
Unused == {r \in Rounds : round[r].status = "none"}
Asking == {c \in call["visitor"] : c.kind \in {"play", "again"}}

AskRound(kind) ==
    /\ Cardinality(Asking) < MaxAsking /\ Unused # {}
    /\ call' = [call EXCEPT !["visitor"] = @ \cup {Call(kind, NoRound, "none")}]
    /\ UNCHANGED <<round, inbox, tab, faults>>

\* onPlayGame: the dialog covers its buttons.
Play == tab["visitor"].current = NoRound /\ AskRound("play")
\* onRematch: the button stays enabled.
Again == tab["visitor"].phase = "result" /\ AskRound("again")

CreateAnswer(c) ==
    LET q == "visitor"
        t == tab[q] IN
    /\ c.kind \in {"play", "again"} /\ c.at # "sent"
    /\ IF c.at = "failed"
       THEN /\ IF c.kind = "again" THEN Shows(q, c, "cancelled")
               ELSE UNCHANGED tab
            /\ Answered(q, c)
       ELSE IF c.kind = "again" /\ c.live
       THEN /\ tab' = [tab EXCEPT ![q] =
                         Starts(q, [t EXCEPT !.current = c.round], c.round)]
            /\ call' = [call EXCEPT ![q] = AsksBalance(q, c.round) \ {c}]
       ELSE /\ tab' = [tab EXCEPT ![q] = Opened(q, t, c.round)]
            /\ call' = [call EXCEPT ![q] = Asked(q, t, c.round) \ {c}]
    /\ UNCHANGED <<round, inbox, faults>>

-----------------------------------------------------------------------------
(* The invitation *)

Accept ==
    LET q == "host"
        t == tab[q] IN
    /\ t.invite # NoRound /\ ~t.busy
    /\ tab' = [tab EXCEPT ![q] =
                 [Opened(q, t, t.invite) EXCEPT !.invite = NoRound]]
    /\ call' = [call EXCEPT ![q] = Asked(q, t, t.invite)]
    /\ UNCHANGED <<round, inbox, faults>>

Decline ==
    LET q == "host" IN
    /\ tab[q].invite # NoRound /\ ~tab[q].busy
    /\ tab' = [tab EXCEPT ![q].busy = TRUE]
    /\ call' = [call EXCEPT ![q] =
                  @ \cup {Call("decline", tab[q].invite, "none")}]
    /\ UNCHANGED <<round, inbox, faults>>

\* The toast goes, whatever the answer, and whichever round it shows by now.
DeclineAnswer(c) ==
    /\ c.kind = "decline" /\ c.at # "sent"
    /\ tab' = [tab EXCEPT !["host"].invite = NoRound, !["host"].busy = FALSE]
    /\ Answered("host", c)
    /\ UNCHANGED <<round, inbox, faults>>

\* The user channel's next event, as the page's handlers take it.
Receive(q) ==
    /\ inbox[q] # <<>>
    /\ inbox' = [inbox EXCEPT ![q] = Tail(@)]
    /\ LET e == Head(inbox[q])
           t == tab[q] IN
        IF e.type = "invite" /\ q = "visitor"
        THEN /\ tab' = [tab EXCEPT ![q] = Opened(q, t, e.round)]
             /\ call' = [call EXCEPT ![q] = Asked(q, t, e.round)]
        ELSE /\ tab' = [tab EXCEPT ![q] =
                  CASE e.type = "invite" -> [t EXCEPT !.invite = e.round]
                    [] e.type = "reveal" -> Watched(q, [t EXCEPT !.reveal = e])
                    [] e.type = "cancelled" ->
                         Watched(q, [t EXCEPT !.cancelled = e.round])]
             /\ UNCHANGED call
    /\ UNCHANGED <<round, faults>>

\* The page keeps nothing of a visit, and the channel does not replay.
Reload(q) ==
    /\ tab[q] # Page
    /\ Fails(1)
    /\ tab' = [tab EXCEPT ![q] = Page]
    /\ inbox' = [inbox EXCEPT ![q] = <<>>]
    /\ call' = [call EXCEPT ![q] = {c \in Unmounted(@) : c.at = "sent"}]
    /\ UNCHANGED round

-----------------------------------------------------------------------------
(* The service *)

Busy == \E r \in Rounds : round[r].status = "pending"
Broadcast(e) == inbox' = [q \in Players |-> Append(inbox[q], e)]
Silent == UNCHANGED <<round, inbox>>

Beats == {<<"rock", "scissors">>, <<"paper", "rock">>, <<"scissors", "paper">>}
Outcome(pick) ==
    IF pick["visitor"] = pick["host"] THEN "draw"
    ELSE IF <<pick["visitor"], pick["host"]>> \in Beats THEN "win" ELSE "lose"

\* An answer that changes no page: the dialog is gone, or it says no to Play.
Unheard(c, at) == \/ c.kind = "pick" /\ ~c.live
                  \/ c.kind = "play" /\ at = "failed"

\* The answer that a browser gets to a request: the service's, or a failure.
Answer(q, c, status, r, failed) ==
    /\ \E at \in {status, "failed"} :
        /\ Fails(failed + IF at = status THEN 0 ELSE 1)
        /\ call' = [call EXCEPT ![q] = (@ \ {c}) \cup
                      IF Unheard(c, at) THEN {}
                      ELSE {[c EXCEPT !.at = at, !.round = r]}]
    /\ UNCHANGED tab

\* create_round: one round at a time; a wallet may not hold the wager.
ServeCreate(c) ==
    /\ c.kind \in {"play", "again"} /\ c.at = "sent"
    /\ \/ /\ ~Busy
          /\ \E r \in Unused :
              /\ \A s \in Unused : r <= s
              /\ round' = [round EXCEPT ![r].status = "pending"]
              /\ Broadcast(Event("invite", r))
              /\ Answer("visitor", c, "created", r, 0)
       \/ /\ Silent
          /\ Answer("visitor", c, "failed", NoRound,
                    IF Busy \/ Unused = {} THEN 0 ELSE 1)

\* submit_pick: the second pick resolves the round, unless the wager cannot
\* be moved.
ServePick(q, c) ==
    /\ c.kind = "pick" /\ c.at = "sent"
    /\ LET r == c.round
           pick == [round[r].pick EXCEPT ![q] = c.hand] IN
        IF round[r].status # "pending" \/ round[r].pick[q] # "none"
        THEN Silent /\ Answer(q, c, "failed", r, 0)
        ELSE IF \E o \in Players : pick[o] = "none"
        THEN /\ round' = [round EXCEPT ![r].pick = pick]
             /\ Answer(q, c, "pending", r, 0)
             /\ UNCHANGED inbox
        ELSE \/ /\ round' = [round EXCEPT ![r] = [status |-> "revealed",
                                                 pick |-> pick]]
                /\ Broadcast([type |-> "reveal", round |-> r, pick |-> pick,
                              outcome |-> Outcome(pick)])
                /\ Answer(q, c, "revealed", r, 0)
             \/ /\ Outcome(pick) # "draw"
                /\ round' = [round EXCEPT ![r] = [status |-> "cancelled",
                                                 pick |-> pick]]
                /\ Broadcast(Event("cancelled", r))
                /\ Answer(q, c, "cancelled", r, 1)

\* decline_round: a round that is over, or expired, is left as it is.
ServeDecline(c) ==
    /\ c.kind = "decline" /\ c.at = "sent"
    /\ IF round[c.round].status = "pending"
       THEN /\ round' = [round EXCEPT ![c.round].status = "cancelled"]
            /\ Broadcast(Event("cancelled", c.round))
       ELSE Silent
    /\ Answer("host", c, "done", c.round, 0)

\* Redis drops the round and the key that blocks others, and tells nobody.
Expire(r) ==
    /\ round[r].status = "pending"
    /\ round' = [round EXCEPT ![r].status = "expired"]
    /\ UNCHANGED <<inbox, call, tab, faults>>

-----------------------------------------------------------------------------
Serve(q) ==
    \E c \in call[q] : ServeCreate(c) \/ ServePick(q, c) \/ ServeDecline(c)

Return(q) ==
    \E c \in call[q] :
        \/ BalanceAnswer(q, c)
        \/ PickAnswer(q, c) \/ CreateAnswer(c) \/ DeclineAnswer(c)

Next ==
    \/ Play \/ Again \/ Accept \/ Decline
    \/ \E q \in Players :
        \/ Serve(q) \/ Return(q) \/ Receive(q) \/ Close(q) \/ Reload(q)
        \/ \E r \in Rounds : \E hand \in Hands[r][q] : tab[q].dialog = r /\ Pick(q, hand)
    \/ \E r \in Rounds : Expire(r)

Spec == Init /\ [][Next]_vars

\* Requests are served and answered, the channel stays connected, and a round
\* that nobody plays expires: what stays to be done is done again and again,
\* the weak fairness of Serve, Return, Receive and Expire.  The players need
\* not do anything.
ToServe(q) == {c \in call[q] : c.at = "sent" /\ c.kind # "balance"}
ToReturn(q) == call[q] \ ToServe(q)

Fairness ==
    /\ \A q \in Players :
        /\ <>[](ToServe(q) # {}) => []<><<ToServe(q) \ call'[q] # {}>>_vars
        /\ <>[](ToReturn(q) # {}) => []<><<ToReturn(q) \ call'[q] # {}>>_vars
        /\ <>[](inbox[q] # <<>>) => []<><<Len(inbox'[q]) < Len(inbox[q])>>_vars
    /\ \A r \in Rounds : []<>(round[r].status # "pending")

FairSpec == Spec /\ Fairness

-----------------------------------------------------------------------------
(* Properties *)

Phases == {"none", "loading", "ready", "picking", "waiting", "result", "cancelled"}

\* Every variable holds values of its kind; a dialog is mounted while its slot
\* is set, and then it is at a round.
TypeOK ==
    /\ \A r \in Rounds : round[r].status \in
        {"none", "pending", "revealed", "cancelled", "expired"}
    /\ \A q \in Players :
        /\ tab[q].phase \in Phases
        /\ {tab[q].current, tab[q].dialog, tab[q].invite} \subseteq 0 .. MaxRounds
        /\ (tab[q].current = NoRound) = (tab[q].dialog = NoRound)
        /\ (tab[q].phase = "none") = (tab[q].dialog = NoRound)
        /\ (tab[q].phase = "result") = (tab[q].result # NoResult)

\* A result on screen is the one of the round that the dialog is at: the hands
\* that the service holds, each on its side, and won by one side only.
ResultIsTheRounds ==
    \A q \in Players : tab[q].phase = "result" =>
        LET pick == round[tab[q].dialog].pick IN
        /\ round[tab[q].dialog].status = "revealed"
        /\ tab[q].result.mine = pick[q]
        /\ tab[q].result.opp = pick[Opponent(q)]
        /\ tab[q].result.tone =
             IF pick[q] = pick[Opponent(q)] THEN "draw"
             ELSE IF <<pick[q], pick[Opponent(q)]>> \in Beats THEN "win" ELSE "lose"

\* Each dialog is at its round and shows that round's result.
DuelInv ==
    /\ TypeOK /\ ResultIsTheRounds

\* A player whose hand is locked in is told something in the end, whether the
\* service answers first, the channel tells first, or the answer is lost.
PickIsAnswered ==
    \A q \in Players : tab[q].phase = "picking" ~> tab[q].phase # "picking"

\* "we may receive the reveal before the response returns. The reveal effect
\* handles the result" (RPSGameDialog.tsx): a reveal that is on its way to a
\* dialog at its round is shown there, whatever the dialog is waiting for.
OnItsWay(q, r) ==
    \E i \in DOMAIN inbox[q] :
        inbox[q][i].type = "reveal" /\ inbox[q][i].round = r
RevealIsShown ==
    \A q \in Players, r \in Rounds :
        tab[q].dialog = r /\ OnItsWay(q, r)
            ~> tab[q].phase = "result" \/ tab[q].dialog # r

=============================================================================
