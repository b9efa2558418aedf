------------------------------ MODULE PageProofs ------------------------------
(***************************************************************************)
(* What a page shows: the dialogs of a round of rock-paper-scissors, and   *)
(* the sidebar with a session or a chat in it.                             *)
(*                                                                         *)
(* The dialogs, for any rounds, hands, faults and requests under way: each *)
(* dialog is at its round, and a result on screen is what the service      *)
(* holds of that round, each hand on its side.  An event of the channel    *)
(* and a reveal that waits in the store say what the service holds         *)
(* (Truth), which lasts because a revealed round is never written again    *)
(* (Lasts); a dialog takes only the reveal of its own round (PageOK), and  *)
(* the answer to a request that finds no dialog changes no page (CallOK).  *)
(*                                                                         *)
(* The sidebar, for any sessions, scripts of theirs and requests under     *)
(* way, and for any peers and messages.  What is on view carries the       *)
(* session on view (OwnView), and a socket that is open has put on view    *)
(* what it has read of a stream that is only added to (Replayed).  One     *)
(* request at most creates a session, and then one is in the queue         *)
(* (RequestsOK).  A room on screen has each message once in its list and   *)
(* once from its socket (RoomOK), and a request for a room that will be    *)
(* heard is for the target (AskingOK).                                     *)
(***************************************************************************)
EXTENDS Duel, Sidebar, CommonLemmas

(* The dialogs *)

Moves == {"rock", "paper", "scissors"}
Statuses == {"none", "pending", "revealed", "cancelled", "expired"}
Tones == {"draw", "win", "lose"}
RoundOrNone == 0 .. MaxRounds
Picks == [Players -> Moves \cup {"none"}]
Table == [Rounds -> [status : Statuses, pick : Picks]]
Events == [type : {"invite", "reveal", "cancelled"}, round : RoundOrNone,
           pick : Picks, outcome : Tones \cup {"none"}]
Results == [mine : Moves \cup {"none"}, opp : Moves \cup {"none"},
            tone : Tones \cup {"none"}]
Pages == [current : RoundOrNone, dialog : RoundOrNone, phase : Phases,
          result : Results, invite : RoundOrNone, busy : BOOLEAN,
          reveal : Events, cancelled : RoundOrNone]
Calls == [kind : {"balance", "pick", "play", "again", "decline"},
          round : RoundOrNone, hand : Moves \cup {"none"},
          at : {"sent", "failed", "created", "pending", "revealed", "cancelled", "done"},
          live : BOOLEAN]

\* The reveal e says what the table of rounds holds.
Truth(table, e) ==
    /\ e.round \in Rounds
    /\ table[e.round].status = "revealed"
    /\ table[e.round].pick = e.pick
    /\ e.pick \in [Players -> Moves]
    /\ e.outcome = Outcome(e.pick)

EventOK(table, e) ==
    /\ e \in Events /\ e.round \in Rounds
    /\ e.type = "reveal" => Truth(table, e)

ToneOf(q, pick) ==
    IF pick[q] = pick[Opponent(q)] THEN "draw"
    ELSE IF <<pick[q], pick[Opponent(q)]>> \in Beats THEN "win" ELSE "lose"

ShowsRound(table, q, t) ==
    LET pick == table[t.dialog].pick IN
    /\ table[t.dialog].status = "revealed"
    /\ t.result.mine = pick[q]
    /\ t.result.opp = pick[Opponent(q)]
    /\ t.result.tone = ToneOf(q, pick)

\* A page's dialog, slot, phase and result belong together, and the result is
\* the one of the dialog's round.
PageOK(table, q, t) ==
    /\ t \in Pages
    /\ (t.current = NoRound) = (t.dialog = NoRound)
    /\ (t.phase = "none") = (t.dialog = NoRound)
    /\ (t.phase = "result") = (t.result # NoResult)
    /\ t.reveal.round # NoRound => Truth(table, t.reveal)
    /\ t.phase = "result" => ShowsRound(table, q, t)

\* A request of a page whose dialog is at round d.
CallOK(q, c, d) ==
    /\ c \in Calls
    /\ c.kind \in {"pick", "decline"} => c.round \in Rounds
    /\ c.kind = "pick" => c.hand \in Moves
    /\ c.kind \in {"play", "again"} =>
           q = "visitor" /\ (c.at \notin {"sent", "failed"} => c.round \in Rounds)
    /\ c.kind = "decline" => q = "host"
    /\ c.live /\ c.kind \in {"balance", "pick", "again"} => d # NoRound

CallsOK(q, cs, d) == \A c \in cs : CallOK(q, c, d)
InboxOK(table, s) ==
    /\ s \in Seq(Events)
    /\ \A i \in DOMAIN s : EventOK(table, s[i])

Shapes ==
    /\ round \in Table /\ faults \in Nat
    /\ tab \in [Players -> Pages]
    /\ call \in [Players -> SUBSET Calls]
    /\ inbox \in [Players -> Seq(Events)]

IInv ==
    /\ Shapes
    /\ \A q \in Players :
        /\ PageOK(round, q, tab[q])
        /\ CallsOK(q, call[q], tab[q].dialog)
        /\ InboxOK(round, inbox[q])

\* A round that was revealed is never written again.
Lasts(old, new) ==
    \A r \in Rounds : old[r].status = "revealed" => new[r] = old[r]

-----------------------------------------------------------------------------
(* What is true lasts *)

LEMMA TruthLasts ==
    ASSUME NEW old \in Table, NEW new \in Table, Lasts(old, new),
           NEW e, Truth(old, e)
    PROVE  Truth(new, e)
  BY DEF Truth, Lasts

LEMMA PageLasts ==
    ASSUME NEW old \in Table, NEW new \in Table, Lasts(old, new),
           NEW q \in Players, NEW t, PageOK(old, q, t)
    PROVE  PageOK(new, q, t)
  <1>1. t.reveal.round # NoRound => Truth(new, t.reveal)
    BY TruthLasts DEF PageOK
  <1>2. ASSUME t.phase = "result" PROVE ShowsRound(new, q, t)
    <2>1. t.dialog \in Rounds
      BY <1>2, BoundsAssumption DEF PageOK, Pages, RoundOrNone, Rounds, NoRound
    <2> QED BY <1>2, <2>1 DEF PageOK, ShowsRound, Lasts
  <1> QED BY <1>1, <1>2 DEF PageOK

LEMMA InboxLasts ==
    ASSUME NEW old \in Table, NEW new \in Table, Lasts(old, new),
           NEW s, InboxOK(old, s)
    PROVE  InboxOK(new, s)
  BY TruthLasts DEF InboxOK, EventOK

LEMMA InboxTail ==
    ASSUME NEW table, NEW s, InboxOK(table, s), s # <<>>
    PROVE  InboxOK(table, Tail(s)) /\ EventOK(table, Head(s))
  <1>1. s \in Seq(Events) /\ Tail(s) \in Seq(Events) /\ Head(s) = s[1]
        /\ Len(Tail(s)) = Len(s) - 1
        /\ \A i \in 1 .. Len(Tail(s)) : Tail(s)[i] = s[i + 1]
    BY HeadTailProperties DEF InboxOK
  <1>2. Len(s) \in Nat /\ DOMAIN s = 1 .. Len(s) /\ Len(s) # 0
        /\ DOMAIN Tail(s) = 1 .. Len(Tail(s))
    BY <1>1, EmptySeq DEF InboxOK
  <1>3. \A i \in DOMAIN Tail(s) : i + 1 \in DOMAIN s
    BY <1>1, <1>2
  <1> QED BY <1>1, <1>2, <1>3 DEF InboxOK

LEMMA InboxAppend ==
    ASSUME NEW table, NEW s, NEW e, InboxOK(table, s), EventOK(table, e)
    PROVE  InboxOK(table, Append(s, e))
  <1>1. s \in Seq(Events) /\ e \in Events
    BY DEF InboxOK, EventOK
  <1>2. /\ Append(s, e) \in Seq(Events)
        /\ Len(Append(s, e)) = Len(s) + 1
        /\ \A i \in 1 .. Len(s) : Append(s, e)[i] = s[i]
        /\ Append(s, e)[Len(s) + 1] = e
    BY <1>1, AppendProperties
  <1>3. DOMAIN Append(s, e) = 1 .. Len(s) + 1 /\ DOMAIN s = 1 .. Len(s)
        /\ Len(s) \in Nat
    BY <1>1, <1>2
  <1>4. ASSUME NEW i \in DOMAIN Append(s, e)
        PROVE  EventOK(table, Append(s, e)[i])
    <2>1. CASE i = Len(s) + 1
      BY <2>1, <1>2
    <2>2. CASE i \in 1 .. Len(s)
      BY <2>2, <1>2, <1>3 DEF InboxOK
    <2> QED BY <1>3, <1>4, <2>1, <2>2
  <1> QED BY <1>2, <1>4 DEF InboxOK

-----------------------------------------------------------------------------
(* Dialogs and pages *)

LEMMA TypesOfNothing ==
    /\ NoPick \in Picks /\ NoReveal \in Events /\ NoResult \in Results
    /\ NoResult.mine = "none" /\ NoReveal.round = NoRound
    /\ Page \in Pages
    /\ \A type \in {"invite", "cancelled"}, r \in Rounds : Event(type, r) \in Events
    /\ \A kind, r, hand : Call(kind, r, hand) =
         [kind |-> kind, round |-> r, hand |-> hand, at |-> "sent", live |-> TRUE]
  BY BoundsAssumption DEF NoPick, NoReveal, NoResult, Page, Event, Call, Picks,
     Events, Results, Pages, RoundOrNone, Rounds, NoRound, Phases

LEMMA ToneIsRight ==
    ASSUME NEW q \in Players, NEW pick \in [Players -> Moves]
    PROVE  /\ Tone(q, Outcome(pick)) = ToneOf(q, pick)
           /\ Outcome(pick) \in Tones
  <1>1. pick["visitor"] \in Moves /\ pick["host"] \in Moves
    BY DEF Players
  <1>2. CASE q = "visitor"
    BY <1>1, <1>2 DEF Tone, ToneOf, Outcome, Opponent, Beats, Moves, Tones
  <1>3. CASE q = "host"
    BY <1>1, <1>3 DEF Tone, ToneOf, Outcome, Opponent, Beats, Moves, Tones
  <1> QED BY <1>2, <1>3 DEF Players

LEMMA RevealTaken ==
    ASSUME NEW table, NEW q \in Players, NEW t, PageOK(table, q, t)
    PROVE  /\ PageOK(table, q, WatchReveal(q, t))
           /\ WatchReveal(q, t).dialog = t.dialog
           /\ WatchReveal(q, t).current = t.current
  <1>1. CASE ~IsRevealed(t)
    BY <1>1 DEF WatchReveal
  <1>2. CASE IsRevealed(t)
    <2> DEFINE res == Result(q, t.reveal)
               new == [t EXCEPT !.phase = "result", !.result = res,
                                !.reveal = NoReveal]
    <2>1. t \in Pages /\ t.dialog # NoRound /\ t.current # NoRound
          /\ t.reveal.round = t.dialog /\ Truth(table, t.reveal)
      BY <1>2 DEF IsRevealed, PageOK
    <2>2. Opponent(q) \in Players
      BY DEF Players, Opponent
    <2>3. res.mine = t.reveal.pick[q] /\ res.opp = t.reveal.pick[Opponent(q)]
          /\ res.tone = ToneOf(q, t.reveal.pick)
          /\ res \in Results /\ res.mine \in Moves
      BY <2>1, <2>2, ToneIsRight DEF Truth, Result, Results, ToneOf, Tones
    <2>4. res # NoResult
      BY <2>3, TypesOfNothing DEF Moves
    <2> HIDE DEF res
    <2>5. /\ new \in Pages /\ new.dialog = t.dialog /\ new.current = t.current
          /\ new.phase = "result" /\ new.result = res
          /\ new.reveal.round = NoRound
      BY <2>1, <2>3, TypesOfNothing DEF Pages, Phases
    <2>6. WatchReveal(q, t) = new
      BY <1>2 DEF WatchReveal, res
    <2> HIDE DEF new
    <2>7. ShowsRound(table, q, new)
      BY <2>1, <2>3, <2>5 DEF ShowsRound, Truth
    <2> QED BY <2>1, <2>4, <2>5, <2>6, <2>7 DEF PageOK
  <1> QED BY <1>1, <1>2

LEMMA CancelTaken ==
    ASSUME NEW table, NEW q \in Players, NEW t, PageOK(table, q, t)
    PROVE  /\ PageOK(table, q, WatchCancelled(t))
           /\ WatchCancelled(t).dialog = t.dialog
           /\ WatchCancelled(t).current = t.current
  <1> DEFINE new == [t EXCEPT !.phase = "cancelled", !.result = NoResult,
                              !.cancelled = NoRound]
  <1>1. CASE t.dialog # NoRound /\ t.cancelled = t.dialog
    <2>1. /\ new \in Pages /\ new.dialog = t.dialog /\ new.current = t.current
          /\ new.phase = "cancelled" /\ new.result = NoResult
          /\ new.reveal = t.reveal
      <3>1. t \in Pages /\ NoRound \in RoundOrNone
        BY BoundsAssumption DEF PageOK, RoundOrNone, NoRound
      <3> QED BY <3>1, TypesOfNothing DEF Pages, Phases
    <2>2. WatchCancelled(t) = new
      BY <1>1 DEF WatchCancelled
    <2> HIDE DEF new
    <2> QED BY <1>1, <2>1, <2>2 DEF PageOK
  <1>2. CASE ~(t.dialog # NoRound /\ t.cancelled = t.dialog)
    BY <1>2 DEF WatchCancelled
  <1> QED BY <1>1, <1>2

LEMMA WatchedOK ==
    ASSUME NEW table, NEW q \in Players, NEW t, PageOK(table, q, t)
    PROVE  /\ PageOK(table, q, Watched(q, t))
           /\ Watched(q, t).dialog = t.dialog
           /\ Watched(q, t).current = t.current
  BY RevealTaken, CancelTaken DEF Watched

\* A dialog that starts a round is at it, in its loading phase or a later one.
StartsAt(q, t, r) == Starts(q, [t EXCEPT !.current = r], r)

LEMMA StartsOK ==
    ASSUME NEW table, NEW q \in Players, NEW t, PageOK(table, q, t),
           NEW r \in Rounds
    PROVE  /\ PageOK(table, q, StartsAt(q, t, r))
           /\ StartsAt(q, t, r).dialog = r
  <1> DEFINE u == [t EXCEPT !.current = r]
             v == [u EXCEPT !.dialog = r, !.phase = "loading", !.result = NoResult]
  <1>1. t \in Pages /\ r # NoRound /\ r \in RoundOrNone
    BY BoundsAssumption DEF PageOK, Rounds, NoRound, RoundOrNone
  <1>2. /\ v \in Pages /\ v.dialog = r /\ v.current = r /\ v.phase = "loading"
        /\ v.result = NoResult /\ v.reveal = t.reveal
    BY <1>1, TypesOfNothing DEF Pages, Phases
  <1>3. Starts(q, u, r) = Watched(q, v)
    BY DEF Starts
  <1> HIDE DEF v
  <1>4. PageOK(table, q, v)
    BY <1>1, <1>2 DEF PageOK
  <1> QED BY <1>2, <1>3, <1>4, WatchedOK DEF u, StartsAt

\* Setting the slot mounts a dialog, or leaves the one that is there at its round.
LEMMA OpenedOK ==
    ASSUME NEW table, NEW q \in Players, NEW t, PageOK(table, q, t),
           NEW r \in Rounds
    PROVE  /\ PageOK(table, q, Opened(q, t, r))
           /\ Opened(q, t, r).dialog # NoRound
  <1>1. r # NoRound /\ r \in RoundOrNone
    BY BoundsAssumption DEF Rounds, NoRound, RoundOrNone
  <1>2. CASE Mounts(t)
    BY <1>1, <1>2, StartsOK DEF Opened, StartsAt
  <1>3. CASE ~Mounts(t)
    <2> DEFINE u == [t EXCEPT !.current = r]
    <2>1. /\ u \in Pages /\ u.current = r /\ u.dialog = t.dialog
          /\ u.phase = t.phase /\ u.result = t.result /\ u.reveal = t.reveal
      BY <1>1 DEF PageOK, Pages
    <2>2. Opened(q, t, r) = u
      BY <1>3 DEF Opened
    <2> HIDE DEF u
    <2> QED BY <1>1, <1>3, <2>1, <2>2 DEF PageOK, Mounts, ShowsRound
  <1> QED BY <1>2, <1>3

-----------------------------------------------------------------------------
(* Steps of one browser, and of the service *)

\* Whatever changes one page, its requests and its channel, and keeps what was
\* revealed, preserves the invariant when that browser is left in order.
LEMMA OneBrowser ==
    ASSUME IInv, NEW q \in Players, NEW t, NEW cs, NEW s,
           round' \in Table, faults' \in Nat, Lasts(round, round'),
           PageOK(round', q, t), CallsOK(q, cs, t.dialog), InboxOK(round', s),
           tab' = [tab EXCEPT ![q] = t], call' = [call EXCEPT ![q] = cs],
           inbox' = [inbox EXCEPT ![q] = s]
    PROVE  IInv'
  <1>1. /\ tab \in [Players -> Pages] /\ call \in [Players -> SUBSET Calls]
        /\ inbox \in [Players -> Seq(Events)] /\ round \in Table
    BY DEF IInv, Shapes
  <1>2. t \in Pages /\ cs \in SUBSET Calls /\ s \in Seq(Events)
    BY DEF PageOK, CallsOK, CallOK, InboxOK
  <1>3. Shapes'
    BY <1>1, <1>2 DEF Shapes
  <1>4. ASSUME NEW p \in Players
        PROVE  /\ PageOK(round', p, tab'[p])
               /\ CallsOK(p, call'[p], tab'[p].dialog)
               /\ InboxOK(round', inbox'[p])
    <2>1. CASE p = q
      BY <1>1, <2>1
    <2>2. CASE p # q
      <3>1. tab'[p] = tab[p] /\ call'[p] = call[p] /\ inbox'[p] = inbox[p]
        BY <1>1, <2>2
      <3>2. PageOK(round, p, tab[p]) /\ CallsOK(p, call[p], tab[p].dialog)
            /\ InboxOK(round, inbox[p])
        BY DEF IInv
      <3> QED BY <1>1, <3>1, <3>2, PageLasts, InboxLasts
    <2> QED BY <2>1, <2>2
  <1> QED BY <1>3, <1>4 DEF IInv

\* The same for a step that the service and the other browser do not see.
LEMMA PageStep ==
    ASSUME IInv, NEW q \in Players, NEW t, NEW cs,
           PageOK(round, q, t), CallsOK(q, cs, t.dialog),
           tab' = [tab EXCEPT ![q] = t], call' = [call EXCEPT ![q] = cs],
           UNCHANGED <<round, inbox>>, faults' \in Nat
    PROVE  IInv'
  <1>1. round' = round /\ round \in Table /\ Lasts(round, round')
    BY DEF IInv, Shapes, Lasts
  <1>2. inbox' = [inbox EXCEPT ![q] = inbox[q]] /\ InboxOK(round', inbox[q])
    BY <1>1 DEF IInv, Shapes
  <1> QED BY <1>1, <1>2, OneBrowser

\* What the service answers, and what it tells both players.
LEMMA ServiceStep ==
    ASSUME IInv, NEW q \in Players, NEW cs, NEW e,
           round' \in Table, faults' \in Nat, Lasts(round, round'),
           UNCHANGED tab, call' = [call EXCEPT ![q] = cs],
           CallsOK(q, cs, tab[q].dialog),
           inbox' = inbox \/ (Broadcast(e) /\ EventOK(round', e))
    PROVE  IInv'
  <1>1. /\ tab \in [Players -> Pages] /\ call \in [Players -> SUBSET Calls]
        /\ inbox \in [Players -> Seq(Events)] /\ round \in Table
    BY DEF IInv, Shapes
  <1>2. \A p \in Players : InboxOK(round', inbox[p])
    BY <1>1, InboxLasts DEF IInv
  <1>3. inbox' \in [Players -> Seq(Events)]
        /\ \A p \in Players : InboxOK(round', inbox'[p])
    <2>1. CASE inbox' = inbox
      BY <1>1, <1>2, <2>1
    <2>2. CASE Broadcast(e) /\ EventOK(round', e)
      <3>1. ASSUME NEW p \in Players
            PROVE  InboxOK(round', Append(inbox[p], e))
        BY <1>2, <2>2, InboxAppend
      <3> DEFINE told == [p \in Players |-> Append(inbox[p], e)]
      <3>2. told \in [Players -> Seq(Events)]
        BY <3>1 DEF InboxOK
      <3>3. inbox' = told
        BY <2>2 DEF Broadcast
      <3> QED BY <3>1, <3>2, <3>3
    <2> QED BY <2>1, <2>2
  <1>4. cs \in SUBSET Calls
    BY DEF CallsOK, CallOK
  <1>5. Shapes'
    BY <1>1, <1>3, <1>4 DEF Shapes
  <1>6. ASSUME NEW p \in Players
        PROVE  PageOK(round', p, tab'[p]) /\ CallsOK(p, call'[p], tab'[p].dialog)
    <2>1. PageOK(round', p, tab'[p])
      BY <1>1, PageLasts DEF IInv
    <2>2. CASE p = q
      BY <1>1, <2>1, <2>2
    <2>3. CASE p # q
      BY <1>1, <2>1, <2>3 DEF IInv
    <2> QED BY <2>2, <2>3
  <1> QED BY <1>3, <1>5, <1>6 DEF IInv

\* Calls fewer than before, or of a page whose dialog is newly at a round.
LEMMA FewerCalls ==
    ASSUME NEW q \in Players, NEW cs, NEW d, CallsOK(q, cs, d), NEW c, NEW b,
           b # NoRound \/ b = d
    PROVE  CallsOK(q, cs \ {c}, b) /\ CallsOK(q, cs, b)
  BY DEF CallsOK, CallOK

\* A request that is made keeps the others in order.
LEMMA OneMoreCall ==
    ASSUME NEW q \in Players, NEW cs, NEW d, CallsOK(q, cs, d),
           NEW kind, NEW r, NEW hand, CallOK(q, Call(kind, r, hand), d)
    PROVE  CallsOK(q, cs \cup {Call(kind, r, hand)}, d)
  BY DEF CallsOK

LEMMA UnmountedOK ==
    ASSUME NEW q \in Players, NEW cs, NEW d, CallsOK(q, cs, d), NEW b
    PROVE  CallsOK(q, Unmounted(cs), b)
  <1> SUFFICES ASSUME NEW c \in cs PROVE CallOK(q, [c EXCEPT !.live = FALSE], b)
    BY DEF CallsOK, Unmounted
  <1> DEFINE n == [c EXCEPT !.live = FALSE]
  <1>1. CallOK(q, c, d) /\ c \in Calls
    BY DEF CallsOK, CallOK
  <1>2. n \in Calls /\ n.kind = c.kind /\ n.round = c.round /\ n.hand = c.hand
        /\ n.at = c.at /\ n.live = FALSE
    BY <1>1 DEF Calls
  <1> HIDE DEF n
  <1>3. CallOK(q, n, b)
    BY <1>1, <1>2 DEF CallOK
  <1> QED BY <1>3 DEF n

\* Opening asks for the balance when it mounts the dialog.
LEMMA AskedOK ==
    ASSUME NEW table, NEW q \in Players, PageOK(table, q, tab[q]), NEW r \in Rounds,
           CallsOK(q, call[q], tab[q].dialog), NEW b, b # NoRound
    PROVE  CallsOK(q, AsksBalance(q, r), b) /\ CallsOK(q, Asked(q, tab[q], r), b)
  <1>1. CallsOK(q, call[q], b)
    BY FewerCalls
  <1>2. r \in RoundOrNone
    BY BoundsAssumption DEF Rounds, RoundOrNone
  <1>3. CallOK(q, Call("balance", r, "none"), b)
    BY <1>2 DEF CallOK, Call, Calls
  <1> QED BY <1>1, <1>3, OneMoreCall DEF AsksBalance, Asked

-----------------------------------------------------------------------------
(* The actions *)

LEMMA FaultsCounted ==
    ASSUME faults \in Nat, NEW n \in Nat, Fails(n)
    PROVE  faults' \in Nat
  BY DEF Fails

\* An answer is shown by the dialog that waits for it, or by none.
LEMMA ShowsStep ==
    ASSUME IInv, NEW q \in Players, NEW c \in call[q],
           NEW phase \in {"ready", "waiting", "cancelled"},
           c.kind \in {"balance", "pick", "again"},
           Shows(q, c, phase), Answered(q, c), UNCHANGED <<round, inbox>>,
           faults' \in Nat
    PROVE  IInv'
  <1>1. tab \in [Players -> Pages] /\ PageOK(round, q, tab[q])
        /\ CallsOK(q, call[q], tab[q].dialog) /\ CallOK(q, c, tab[q].dialog)
    BY DEF IInv, Shapes, CallsOK
  <1>2. CallsOK(q, call[q] \ {c}, tab[q].dialog)
    BY <1>1, FewerCalls
  <1>3. call' = [call EXCEPT ![q] = call[q] \ {c}]
    BY DEF Answered, IInv, Shapes
  <1>4. CASE c.live
    <2> DEFINE new == [tab[q] EXCEPT !.phase = phase, !.result = NoResult]
    <2>1. tab[q].dialog # NoRound /\ tab[q] \in Pages
      BY <1>1, <1>4 DEF CallOK
    <2>2. /\ new \in Pages /\ new.dialog = tab[q].dialog
          /\ new.current = tab[q].current /\ new.phase = phase
          /\ new.result = NoResult /\ new.reveal = tab[q].reveal
      BY <2>1, TypesOfNothing DEF Pages, Phases
    <2>3. tab' = [tab EXCEPT ![q] = new]
      BY <1>1, <1>4 DEF Shows
    <2> HIDE DEF new
    <2>4. PageOK(round, q, new)
      BY <1>1, <2>1, <2>2 DEF PageOK
    <2> QED BY <1>2, <1>3, <2>2, <2>3, <2>4, PageStep
  <1>5. CASE ~c.live
    <2>1. tab' = [tab EXCEPT ![q] = tab[q]]
      BY <1>1, <1>5 DEF Shows
    <2> QED BY <1>1, <1>2, <1>3, <2>1, PageStep
  <1> QED BY <1>4, <1>5

LEMMA BalanceAnswerStep ==
    ASSUME IInv, NEW q \in Players, NEW c \in call[q], BalanceAnswer(q, c)
    PROVE  IInv'
  <1>1. faults' \in Nat
    BY FaultsCounted DEF BalanceAnswer, IInv, Shapes
  <1>2. \E phase \in {"ready", "cancelled"} : Shows(q, c, phase)
    BY DEF BalanceAnswer
  <1> QED BY <1>1, <1>2, ShowsStep DEF BalanceAnswer

LEMMA PickAnswerStep ==
    ASSUME IInv, NEW q \in Players, NEW c \in call[q], PickAnswer(q, c)
    PROVE  IInv'
  <1>1. faults' \in Nat
    BY DEF PickAnswer, IInv, Shapes
  <1>2. CASE PhaseAfter(c.at) = "same"
    <2>1. tab \in [Players -> Pages] /\ call \in [Players -> SUBSET Calls]
          /\ PageOK(round, q, tab[q]) /\ CallsOK(q, call[q] \ {c}, tab[q].dialog)
      BY FewerCalls DEF IInv, Shapes
    <2>2. tab' = [tab EXCEPT ![q] = tab[q]]
          /\ call' = [call EXCEPT ![q] = call[q] \ {c}]
      BY <1>2, <2>1 DEF PickAnswer, Answered
    <2> QED BY <1>1, <2>1, <2>2, PageStep DEF PickAnswer
  <1>3. CASE PhaseAfter(c.at) # "same"
    <2>1. PhaseAfter(c.at) \in {"waiting", "cancelled"}
      BY <1>3 DEF PhaseAfter
    <2> QED BY <1>1, <1>3, <2>1, ShowsStep DEF PickAnswer
  <1> QED BY <1>2, <1>3

LEMMA PickStep ==
    ASSUME IInv, NEW q \in Players, NEW r \in Rounds, NEW hand \in Hands[r][q],
           tab[q].dialog = r, Pick(q, hand)
    PROVE  IInv'
  <1> DEFINE new == [tab[q] EXCEPT !.phase = "picking"]
  <1>1. /\ tab \in [Players -> Pages] /\ call \in [Players -> SUBSET Calls]
        /\ PageOK(round, q, tab[q]) /\ CallsOK(q, call[q], r)
        /\ faults' \in Nat /\ tab[q] \in Pages /\ r # NoRound
    BY BoundsAssumption DEF IInv, Shapes, Pick, Rounds, NoRound
  <1>2. /\ new \in Pages /\ new.dialog = r
        /\ new.current = tab[q].current /\ new.phase = "picking"
        /\ new.result = tab[q].result /\ new.reveal = tab[q].reveal
    BY <1>1 DEF Pages, Phases
  <1>3. tab[q].phase = "ready" /\ tab' = [tab EXCEPT ![q] = new]
        /\ call' = [call EXCEPT ![q] = call[q] \cup {Call("pick", r, hand)}]
    BY <1>1 DEF Pick
  <1> HIDE DEF new
  <1>4. PageOK(round, q, new)
    BY <1>1, <1>2, <1>3 DEF PageOK
  <1>5. CallOK(q, Call("pick", r, hand), r)
    <2>1. hand \in Moves /\ r \in RoundOrNone
      BY HandsAssumption, BoundsAssumption DEF Moves, Rounds, RoundOrNone
    <2> QED BY <1>1, <2>1 DEF CallOK, Call, Calls
  <1>6. CallsOK(q, call[q] \cup {Call("pick", r, hand)}, new.dialog)
    BY <1>1, <1>2, <1>5, OneMoreCall
  <1> QED BY <1>1, <1>3, <1>4, <1>6, PageStep DEF Pick

LEMMA CloseStep ==
    ASSUME IInv, NEW q \in Players, Close(q)
    PROVE  IInv'
  <1> DEFINE new == [tab[q] EXCEPT !.current = NoRound, !.dialog = NoRound,
                                   !.phase = "none", !.result = NoResult]
  <1>1. /\ tab \in [Players -> Pages] /\ call \in [Players -> SUBSET Calls]
        /\ PageOK(round, q, tab[q]) /\ CallsOK(q, call[q], tab[q].dialog)
        /\ faults' \in Nat /\ tab[q] \in Pages /\ NoRound \in RoundOrNone
    BY BoundsAssumption DEF IInv, Shapes, Close, RoundOrNone, NoRound
  <1>2. /\ new \in Pages /\ new.dialog = NoRound /\ new.current = NoRound
        /\ new.phase = "none" /\ new.result = NoResult /\ new.reveal = tab[q].reveal
    BY <1>1, TypesOfNothing DEF Pages, Phases
  <1>3. tab' = [tab EXCEPT ![q] = new]
        /\ call' = [call EXCEPT ![q] = Unmounted(call[q])]
    BY <1>1 DEF Close
  <1> HIDE DEF new
  <1>4. PageOK(round, q, new)
    BY <1>1, <1>2 DEF PageOK
  <1>5. CallsOK(q, Unmounted(call[q]), new.dialog)
    BY <1>1, UnmountedOK
  <1> QED BY <1>1, <1>3, <1>4, <1>5, PageStep DEF Close

LEMMA AskRoundStep ==
    ASSUME IInv, NEW kind \in {"play", "again"}, AskRound(kind),
           kind = "again" => tab["visitor"].phase = "result"
    PROVE  IInv'
  <1> DEFINE q == "visitor"
             c == Call(kind, NoRound, "none")
             d == tab[q].dialog
  <1>1. /\ q \in Players /\ tab \in [Players -> Pages]
        /\ call \in [Players -> SUBSET Calls]
        /\ PageOK(round, q, tab[q]) /\ CallsOK(q, call[q], d)
        /\ faults' \in Nat /\ NoRound \in RoundOrNone
    BY BoundsAssumption DEF IInv, Shapes, AskRound, RoundOrNone, NoRound, Players
  <1>2. kind = "again" => d # NoRound
    BY <1>1 DEF PageOK
  <1>3. CallOK(q, c, d)
    BY <1>1, <1>2 DEF CallOK, Call, Calls
  <1>4. tab' = [tab EXCEPT ![q] = tab[q]]
        /\ call' = [call EXCEPT ![q] = call[q] \cup {c}]
    BY <1>1 DEF AskRound
  <1>5. CallsOK(q, call[q] \cup {c}, d)
    BY <1>1, <1>3, OneMoreCall
  <1> QED BY <1>1, <1>4, <1>5, PageStep DEF AskRound

LEMMA CreateAnswerStep ==
    ASSUME IInv, NEW p \in Players, NEW c \in call[p], CreateAnswer(c)
    PROVE  IInv'
  <1> DEFINE q == "visitor"
             t == tab[q]
             r == c.round
  <1>1. /\ p = q /\ q \in Players /\ tab \in [Players -> Pages]
        /\ call \in [Players -> SUBSET Calls]
        /\ PageOK(round, q, t) /\ CallsOK(q, call[q], t.dialog) /\ c \in Calls
        /\ c.at # "failed" => r \in Rounds
        /\ faults' \in Nat /\ c.at # "sent"
    BY DEF IInv, Shapes, CallsOK, CallOK, CreateAnswer, Players
  <1>2. CASE c.at = "failed"
    <2>1. Answered(q, c) /\ UNCHANGED <<round, inbox>>
      BY <1>2 DEF CreateAnswer
    <2>2. CASE c.kind = "again"
      <3>1. Shows(q, c, "cancelled")
        BY <1>2, <2>2 DEF CreateAnswer
      <3> QED BY <1>1, <2>1, <2>2, <3>1, ShowsStep
    <2>3. CASE c.kind # "again"
      <3>1. tab' = [tab EXCEPT ![q] = t] /\ call' = [call EXCEPT ![q] = call[q] \ {c}]
        BY <1>1, <1>2, <2>1, <2>3 DEF CreateAnswer, Answered
      <3>2. CallsOK(q, call[q] \ {c}, t.dialog)
        BY <1>1, FewerCalls
      <3> QED BY <1>1, <2>1, <3>1, <3>2, PageStep
    <2> QED BY <2>2, <2>3
  <1>3. CASE c.at # "failed"
    <2>1. r \in Rounds /\ r # NoRound /\ UNCHANGED <<round, inbox>>
      BY <1>1, <1>3 DEF Rounds, NoRound, CreateAnswer
    <2>2. CASE c.kind = "again" /\ c.live
      <3> DEFINE new == StartsAt(q, t, r)
                 cs == AsksBalance(q, r) \ {c}
      <3>1. tab' = [tab EXCEPT ![q] = new] /\ call' = [call EXCEPT ![q] = cs]
        BY <1>3, <2>2 DEF CreateAnswer, StartsAt
      <3>2. PageOK(round, q, new) /\ new.dialog = r
        BY <1>1, <2>1, StartsOK
      <3> HIDE DEF new
      <3>3. CallsOK(q, AsksBalance(q, r), new.dialog)
        BY <1>1, <2>1, <3>2, AskedOK
      <3>4. CallsOK(q, cs, new.dialog)
        BY <1>1, <3>3, FewerCalls
      <3> HIDE DEF cs
      <3> QED BY <1>1, <2>1, <3>1, <3>2, <3>4, PageStep
    <2>3. CASE ~(c.kind = "again" /\ c.live)
      <3> DEFINE new == Opened(q, t, r)
                 cs == Asked(q, t, r) \ {c}
      <3>1. tab' = [tab EXCEPT ![q] = new] /\ call' = [call EXCEPT ![q] = cs]
        BY <1>3, <2>3 DEF CreateAnswer
      <3>2. PageOK(round, q, new) /\ new.dialog # NoRound
        BY <1>1, <2>1, OpenedOK
      <3> HIDE DEF new
      <3>3. CallsOK(q, Asked(q, t, r), new.dialog)
        BY <1>1, <2>1, <3>2, AskedOK
      <3>4. CallsOK(q, cs, new.dialog)
        BY <1>1, <3>3, FewerCalls
      <3> HIDE DEF cs
      <3> QED BY <1>1, <2>1, <3>1, <3>2, <3>4, PageStep
    <2> QED BY <2>2, <2>3
  <1> QED BY <1>2, <1>3

\* What the page keeps of the invitation concerns no dialog.
WithInvite(t, r, b) == [t EXCEPT !.invite = r, !.busy = b]

LEMMA InviteOK ==
    ASSUME NEW table, NEW q \in Players, NEW t, PageOK(table, q, t),
           NEW r \in RoundOrNone, NEW b \in BOOLEAN
    PROVE  /\ PageOK(table, q, WithInvite(t, r, b))
           /\ WithInvite(t, r, b).dialog = t.dialog
  <1> DEFINE new == WithInvite(t, r, b)
  <1>1. /\ new \in Pages /\ new.dialog = t.dialog /\ new.current = t.current
        /\ new.phase = t.phase /\ new.result = t.result /\ new.reveal = t.reveal
    BY DEF PageOK, Pages, WithInvite
  <1> HIDE DEF new
  <1>2. PageOK(table, q, new) /\ new.dialog = t.dialog
    BY <1>1 DEF PageOK, ShowsRound
  <1> QED BY <1>2 DEF new

LEMMA AcceptStep ==
    ASSUME IInv, Accept
    PROVE  IInv'
  <1> DEFINE q == "host"
             t == tab[q]
             r == t.invite
             open == Opened(q, t, r)
             new == WithInvite(open, NoRound, open.busy)
  <1>1. /\ q \in Players /\ tab \in [Players -> Pages]
        /\ PageOK(round, q, t) /\ CallsOK(q, call[q], t.dialog)
        /\ faults' \in Nat /\ t \in Pages
    BY DEF IInv, Shapes, Accept, Players
  <1>2. r \in Rounds /\ NoRound \in RoundOrNone
    BY <1>1, BoundsAssumption DEF Accept, Pages, RoundOrNone, Rounds, NoRound
  <1>3. PageOK(round, q, open) /\ open.dialog # NoRound
    BY <1>1, <1>2, OpenedOK
  <1>4. /\ tab' = [tab EXCEPT ![q] = [open EXCEPT !.invite = NoRound]]
        /\ call' = [call EXCEPT ![q] = Asked(q, t, r)]
    BY DEF Accept
  <1> HIDE DEF open
  <1>5. open \in Pages /\ open.busy \in BOOLEAN
    BY <1>3 DEF PageOK, Pages
  <1>6. tab' = [tab EXCEPT ![q] = new]
    BY <1>4, <1>5 DEF Pages, WithInvite
  <1>7. PageOK(round, q, new) /\ new.dialog = open.dialog
    BY <1>1, <1>2, <1>3, <1>5, InviteOK
  <1> HIDE DEF new
  <1>8. CallsOK(q, Asked(q, t, r), new.dialog)
    BY <1>1, <1>2, <1>3, <1>7, AskedOK
  <1> QED BY <1>1, <1>4, <1>6, <1>7, <1>8, PageStep DEF Accept

LEMMA DeclineStep ==
    ASSUME IInv, Decline
    PROVE  IInv'
  <1> DEFINE q == "host"
             t == tab[q]
             r == t.invite
             new == WithInvite(t, r, TRUE)
             c == Call("decline", r, "none")
  <1>1. /\ q \in Players /\ tab \in [Players -> Pages]
        /\ call \in [Players -> SUBSET Calls]
        /\ PageOK(round, q, t) /\ CallsOK(q, call[q], t.dialog)
        /\ faults' \in Nat /\ t \in Pages
    BY DEF IInv, Shapes, Decline, Players
  <1>2. r \in Rounds /\ r \in RoundOrNone
    BY <1>1, BoundsAssumption DEF Decline, Pages, RoundOrNone, Rounds, NoRound
  <1>3. tab' = [tab EXCEPT ![q] = new] /\ call' = [call EXCEPT ![q] = call[q] \cup {c}]
    BY <1>1 DEF Decline, Pages, WithInvite
  <1>4. PageOK(round, q, new) /\ new.dialog = t.dialog
    BY <1>1, <1>2, InviteOK
  <1>5. CallOK(q, c, t.dialog)
    BY <1>1, <1>2 DEF CallOK, Call, Calls
  <1>6. CallsOK(q, call[q] \cup {c}, t.dialog)
    BY <1>1, <1>5, OneMoreCall
  <1> HIDE DEF new, c
  <1> QED BY <1>1, <1>3, <1>4, <1>6, PageStep DEF Decline

LEMMA DeclineAnswerStep ==
    ASSUME IInv, NEW p \in Players, NEW c \in call[p], DeclineAnswer(c)
    PROVE  IInv'
  <1> DEFINE q == "host"
             t == tab[q]
             new == WithInvite(t, NoRound, FALSE)
  <1>1. /\ p = q /\ q \in Players /\ tab \in [Players -> Pages]
        /\ call \in [Players -> SUBSET Calls]
        /\ PageOK(round, q, t) /\ CallsOK(q, call[q], t.dialog)
        /\ faults' \in Nat /\ NoRound \in RoundOrNone
    BY BoundsAssumption
    DEF IInv, Shapes, CallsOK, CallOK, DeclineAnswer, Players, RoundOrNone, NoRound
  <1>2. tab' = [tab EXCEPT ![q] = new] /\ call' = [call EXCEPT ![q] = call[q] \ {c}]
    BY <1>1 DEF DeclineAnswer, Answered, WithInvite
  <1>3. PageOK(round, q, new) /\ new.dialog = t.dialog
    BY <1>1, InviteOK
  <1>4. CallsOK(q, call[q] \ {c}, t.dialog)
    BY <1>1, FewerCalls
  <1> HIDE DEF new
  <1> QED BY <1>1, <1>2, <1>3, <1>4, PageStep DEF DeclineAnswer

\* What the channel brings says what the service holds, and is shown at its
\* round only.
WithReveal(t, e) == [t EXCEPT !.reveal = e]
WithCancelled(t, r) == [t EXCEPT !.cancelled = r]

LEMMA RevealOK ==
    ASSUME NEW table, NEW q \in Players, NEW t, PageOK(table, q, t),
           NEW e, EventOK(table, e), e.type = "reveal"
    PROVE  /\ PageOK(table, q, WithReveal(t, e))
           /\ WithReveal(t, e).dialog = t.dialog
  <1> DEFINE new == WithReveal(t, e)
  <1>1. /\ new \in Pages /\ new.dialog = t.dialog /\ new.current = t.current
        /\ new.phase = t.phase /\ new.result = t.result /\ new.reveal = e
    BY DEF PageOK, EventOK, Pages, WithReveal
  <1> HIDE DEF new
  <1>2. PageOK(table, q, new) /\ new.dialog = t.dialog
    BY <1>1 DEF PageOK, ShowsRound, EventOK
  <1> QED BY <1>2 DEF new

LEMMA CancelledOK ==
    ASSUME NEW table, NEW q \in Players, NEW t, PageOK(table, q, t),
           NEW r \in RoundOrNone
    PROVE  /\ PageOK(table, q, WithCancelled(t, r))
           /\ WithCancelled(t, r).dialog = t.dialog
  <1> DEFINE new == WithCancelled(t, r)
  <1>1. /\ new \in Pages /\ new.dialog = t.dialog /\ new.current = t.current
        /\ new.phase = t.phase /\ new.result = t.result /\ new.reveal = t.reveal
    BY DEF PageOK, Pages, WithCancelled
  <1> HIDE DEF new
  <1>2. PageOK(table, q, new) /\ new.dialog = t.dialog
    BY <1>1 DEF PageOK, ShowsRound
  <1> QED BY <1>2 DEF new

LEMMA ReceiveStep ==
    ASSUME IInv, NEW q \in Players, Receive(q)
    PROVE  IInv'
  <1> DEFINE t == tab[q]
             e == Head(inbox[q])
             rest == Tail(inbox[q])
  <1>1. /\ tab \in [Players -> Pages] /\ call \in [Players -> SUBSET Calls]
        /\ inbox \in [Players -> Seq(Events)]
        /\ PageOK(round, q, t) /\ CallsOK(q, call[q], t.dialog)
        /\ round' \in Table /\ round' = round /\ faults' \in Nat
        /\ Lasts(round, round')
    BY DEF IInv, Shapes, Receive, Lasts
  <1>2. InboxOK(round', rest) /\ EventOK(round, e)
    BY <1>1, InboxTail DEF IInv, Receive
  <1>3. inbox' = [inbox EXCEPT ![q] = rest]
    BY <1>1 DEF Receive
  <1>4. e.round \in Rounds /\ e.type \in {"invite", "reveal", "cancelled"}
        /\ e.round \in RoundOrNone /\ t.busy \in BOOLEAN
    BY <1>1, <1>2 DEF EventOK, Events, PageOK, Pages
  <1> HIDE DEF e, rest
  <1>5. SUFFICES \E new, cs : /\ PageOK(round, q, new) /\ CallsOK(q, cs, new.dialog)
                              /\ tab' = [tab EXCEPT ![q] = new]
                              /\ call' = [call EXCEPT ![q] = cs]
    BY <1>1, <1>2, <1>3, OneBrowser
  <1>6. CASE e.type = "invite" /\ q = "visitor"
    <2>1. tab' = [tab EXCEPT ![q] = Opened(q, t, e.round)]
          /\ call' = [call EXCEPT ![q] = Asked(q, t, e.round)]
      BY <1>6 DEF Receive, e
    <2>2. PageOK(round, q, Opened(q, t, e.round))
          /\ Opened(q, t, e.round).dialog # NoRound
      BY <1>1, <1>4, OpenedOK
    <2>3. CallsOK(q, Asked(q, t, e.round), Opened(q, t, e.round).dialog)
      BY <1>1, <1>4, <2>2, AskedOK
    <2> QED BY <2>1, <2>2, <2>3
  <1>7. CASE ~(e.type = "invite" /\ q = "visitor")
    <2>1. call' = [call EXCEPT ![q] = call[q]]
      BY <1>1, <1>7 DEF Receive, e
    <2>2. CASE e.type = "invite"
      <3>1. tab' = [tab EXCEPT ![q] = WithInvite(t, e.round, t.busy)]
        BY <1>1, <1>7, <2>2 DEF Receive, e, WithInvite, Pages
      <3>2. PageOK(round, q, WithInvite(t, e.round, t.busy))
            /\ WithInvite(t, e.round, t.busy).dialog = t.dialog
        BY <1>1, <1>4, InviteOK, ZenonT(40)
      <3> QED BY <1>1, <2>1, <3>1, <3>2
    <2>3. CASE e.type = "reveal"
      <3> DEFINE u == WithReveal(t, e)
      <3>1. tab' = [tab EXCEPT ![q] = Watched(q, u)]
        BY <1>7, <2>3 DEF Receive, e, WithReveal
      <3>2. PageOK(round, q, u) /\ u.dialog = t.dialog
        <4>1. PageOK(round, q, t) /\ EventOK(round, e)
          BY <1>1, <1>2
        <4> HIDE DEF t
        <4> QED BY <2>3, <4>1, RevealOK
      <3> HIDE DEF u
      <3>3. PageOK(round, q, Watched(q, u)) /\ Watched(q, u).dialog = t.dialog
        BY <3>2, WatchedOK
      <3> QED BY <1>1, <2>1, <3>1, <3>3
    <2>4. CASE e.type = "cancelled"
      <3> DEFINE u == WithCancelled(t, e.round)
      <3>1. tab' = [tab EXCEPT ![q] = Watched(q, u)]
        BY <1>7, <2>4 DEF Receive, e, WithCancelled
      <3>2. PageOK(round, q, u) /\ u.dialog = t.dialog
        BY <1>1, <1>4, CancelledOK
      <3> HIDE DEF u
      <3>3. PageOK(round, q, Watched(q, u)) /\ Watched(q, u).dialog = t.dialog
        BY <3>2, WatchedOK
      <3> QED BY <1>1, <2>1, <3>1, <3>3
    <2> QED BY <1>4, <2>2, <2>3, <2>4
  <1> QED BY <1>6, <1>7

LEMMA ReloadStep ==
    ASSUME IInv, NEW q \in Players, Reload(q)
    PROVE  IInv'
  <1> DEFINE cs == {c \in Unmounted(call[q]) : c.at = "sent"}
  <1>1. /\ round' \in Table /\ Lasts(round, round') /\ CallsOK(q, call[q], tab[q].dialog)
    BY DEF IInv, Shapes, Reload, Lasts
  <1>2. faults' \in Nat
    BY FaultsCounted DEF Reload, IInv, Shapes
  <1>3. CallsOK(q, cs, Page.dialog)
    <2>1. CallsOK(q, Unmounted(call[q]), Page.dialog)
      BY <1>1, UnmountedOK
    <2> QED BY <2>1 DEF CallsOK
  <1>4. PageOK(round', q, Page)
    BY TypesOfNothing DEF PageOK, Page
  <1>5. InboxOK(round', <<>>)
    BY DEF InboxOK
  <1>6. /\ tab' = [tab EXCEPT ![q] = Page] /\ call' = [call EXCEPT ![q] = cs]
        /\ inbox' = [inbox EXCEPT ![q] = <<>>]
    BY DEF Reload, IInv, Shapes
  <1> HIDE DEF cs
  <1> QED BY <1>1, <1>2, <1>3, <1>4, <1>5, <1>6, OneBrowser

\* An answer comes back to the request that it is for.
LEMMA AnswerOK ==
    ASSUME IInv, NEW q \in Players, NEW c \in call[q],
           NEW status \in {"failed", "created", "pending", "revealed", "cancelled", "done"},
           NEW r \in RoundOrNone, NEW failed \in Nat, Answer(q, c, status, r, failed),
           c.kind \in {"pick", "decline"} => r \in Rounds,
           c.kind \in {"play", "again"} /\ status # "failed" => r \in Rounds
    PROVE  /\ faults' \in Nat /\ UNCHANGED tab
           /\ \E cs : /\ call' = [call EXCEPT ![q] = cs]
                     /\ CallsOK(q, cs, tab[q].dialog)
  <1> PICK at \in {status, "failed"} :
        /\ Fails(failed + IF at = status THEN 0 ELSE 1)
        /\ call' = [call EXCEPT ![q] = (call[q] \ {c}) \cup
              IF Unheard(c, at) THEN {} ELSE {[c EXCEPT !.at = at, !.round = r]}]
    BY DEF Answer, IInv, Shapes
  <1> DEFINE d == tab[q].dialog
             n == [c EXCEPT !.at = at, !.round = r]
             cs == (call[q] \ {c}) \cup IF Unheard(c, at) THEN {} ELSE {n}
  <1>1. CallsOK(q, call[q], d) /\ CallOK(q, c, d) /\ c \in Calls
    BY DEF IInv, CallsOK, CallOK
  <1>2. faults' \in Nat
    <2>1. failed + (IF at = status THEN 0 ELSE 1) \in Nat
      OBVIOUS
    <2> QED BY <2>1, FaultsCounted DEF IInv, Shapes
  <1>3. /\ n \in Calls /\ n.kind = c.kind /\ n.round = r /\ n.hand = c.hand
        /\ n.at = at /\ n.live = c.live
    BY <1>1 DEF Calls
  <1> HIDE DEF n
  <1>4. CallOK(q, n, d)
    BY <1>1, <1>3 DEF CallOK
  <1>5. CallsOK(q, cs, d)
    BY <1>1, <1>4 DEF CallsOK
  <1>6. call' = [call EXCEPT ![q] = cs]
    BY DEF n
  <1> HIDE DEF cs
  <1> QED BY <1>2, <1>5, <1>6 DEF Answer

\* An answer with which the table of rounds does not change, and nobody is told.
LEMMA SilentAnswer ==
    ASSUME IInv, NEW q \in Players, NEW cs, call' = [call EXCEPT ![q] = cs],
           CallsOK(q, cs, tab[q].dialog), UNCHANGED tab, faults' \in Nat, Silent
    PROVE  IInv'
  <1>1. round' \in Table /\ Lasts(round, round')
    BY DEF Silent, IInv, Shapes, Lasts
  <1> QED BY <1>1, ServiceStep DEF Silent

\* A write to a round that is not revealed leaves the revealed ones alone.
LEMMA Written ==
    ASSUME IInv, NEW r \in Rounds, round[r].status # "revealed",
           NEW new \in [status : Statuses, pick : Picks],
           round' = [round EXCEPT ![r] = new]
    PROVE  round' \in Table /\ Lasts(round, round') /\ round'[r] = new
  BY DEF IInv, Shapes, Table, Lasts

WithStatus(r, status) == [round[r] EXCEPT !.status = status]

LEMMA StatusOK ==
    ASSUME IInv, NEW r \in Rounds, NEW status \in Statuses
    PROVE  /\ WithStatus(r, status) \in [status : Statuses, pick : Picks]
           /\ [round EXCEPT ![r].status = status]
                = [round EXCEPT ![r] = WithStatus(r, status)]
  BY DEF IInv, Shapes, Table, WithStatus

LEMMA ServeCreateStep ==
    ASSUME IInv, NEW p \in Players, NEW c \in call[p], ServeCreate(c)
    PROVE  IInv'
  <1> DEFINE q == "visitor"
  <1>1. /\ p = q /\ q \in Players
        /\ c.kind \in {"play", "again"}
    BY DEF IInv, CallsOK, CallOK, ServeCreate, Players
  <1>2. CASE \E r \in Unused :
                /\ round' = [round EXCEPT ![r].status = "pending"]
                /\ Broadcast(Event("invite", r))
                /\ Answer(q, c, "created", r, 0)
    <2> PICK r \in Unused : /\ round' = [round EXCEPT ![r].status = "pending"]
                            /\ Broadcast(Event("invite", r))
                            /\ Answer(q, c, "created", r, 0)
      BY <1>2
    <2>1. r \in Rounds /\ r \in RoundOrNone /\ round[r].status = "none"
      BY BoundsAssumption DEF Unused, Rounds, RoundOrNone
    <2>2. round' \in Table /\ Lasts(round, round')
      BY <2>1, Written, StatusOK DEF Statuses
    <2>3. faults' \in Nat /\ UNCHANGED tab
          /\ \E cs : /\ call' = [call EXCEPT ![q] = cs]
                    /\ CallsOK(q, cs, tab[q].dialog)
      BY <1>1, <2>1, AnswerOK
    <2>4. EventOK(round', Event("invite", r))
      BY <2>1, TypesOfNothing DEF EventOK, Event
    <2> QED BY <1>1, <2>2, <2>3, <2>4, ServiceStep
  <1>3. CASE Silent /\ Answer(q, c, "failed", NoRound,
                              IF Busy \/ Unused = {} THEN 0 ELSE 1)
    <2>1. (IF Busy \/ Unused = {} THEN 0 ELSE 1) \in Nat /\ NoRound \in RoundOrNone
      BY BoundsAssumption DEF RoundOrNone, NoRound
    <2>2. faults' \in Nat /\ UNCHANGED tab
          /\ \E cs : /\ call' = [call EXCEPT ![q] = cs]
                    /\ CallsOK(q, cs, tab[q].dialog)
      BY <1>1, <1>3, <2>1, AnswerOK
    <2> QED BY <1>1, <1>3, <2>2, SilentAnswer
  <1> QED BY <1>2, <1>3 DEF ServeCreate

LEMMA ServePickStep ==
    ASSUME IInv, NEW q \in Players, NEW c \in call[q], ServePick(q, c)
    PROVE  IInv'
  <1> DEFINE r == c.round
             pick == [round[r].pick EXCEPT ![q] = c.hand]
  <1>1. /\ c.kind = "pick" /\ r \in Rounds /\ c.hand \in Moves /\ r \in RoundOrNone
        /\ round \in Table
    BY DEF IInv, Shapes, CallsOK, CallOK, Calls, ServePick
  <1>2. pick \in Picks /\ \A p \in Players : p # q => pick[p] = round[r].pick[p]
    BY <1>1 DEF Table, Picks, Moves
  <1>3. ASSUME NEW status \in {"failed", "pending", "revealed", "cancelled"},
               NEW failed \in Nat, Answer(q, c, status, r, failed)
        PROVE  /\ faults' \in Nat /\ UNCHANGED tab
               /\ \E cs : /\ call' = [call EXCEPT ![q] = cs]
                         /\ CallsOK(q, cs, tab[q].dialog)
    BY <1>1, <1>3, AnswerOK
  <1>4. CASE round[r].status # "pending" \/ round[r].pick[q] # "none"
    <2>1. Silent /\ Answer(q, c, "failed", r, 0)
      BY <1>4 DEF ServePick
    <2> QED BY <1>3, <2>1, SilentAnswer
  <1>5. CASE round[r].status = "pending" /\ round[r].pick[q] = "none"
    <2> HIDE DEF pick
    <2>1. CASE \E o \in Players : pick[o] = "none"
      <3> DEFINE new == [round[r] EXCEPT !.pick = pick]
      <3>1. /\ round' = [round EXCEPT ![r] = new]
            /\ Answer(q, c, "pending", r, 0) /\ UNCHANGED inbox
        BY <1>1, <1>5, <2>1 DEF ServePick, pick
      <3>2. new \in [status : Statuses, pick : Picks]
        BY <1>1, <1>2 DEF Table
      <3> HIDE DEF new
      <3>3. round' \in Table /\ Lasts(round, round')
        BY <1>1, <1>5, <3>1, <3>2, Written
      <3> QED BY <1>3, <3>1, <3>3, ServiceStep
    <2>2. CASE ~\E o \in Players : pick[o] = "none"
      <3>1. pick \in [Players -> Moves]
        BY <1>2, <2>2 DEF Picks
      <3>2. CASE /\ round' = [round EXCEPT ![r] = [status |-> "revealed", pick |-> pick]]
                 /\ Broadcast([type |-> "reveal", round |-> r, pick |-> pick,
                               outcome |-> Outcome(pick)])
                 /\ Answer(q, c, "revealed", r, 0)
        <4> DEFINE new == [status |-> "revealed", pick |-> pick]
                   e == [type |-> "reveal", round |-> r, pick |-> pick,
                         outcome |-> Outcome(pick)]
        <4>1. new \in [status : Statuses, pick : Picks]
          BY <1>2 DEF Statuses
        <4>2. /\ round' \in Table /\ Lasts(round, round') /\ round'[r] = new
          BY <1>1, <1>5, <3>2, <4>1, Written
        <4>3. EventOK(round', e)
          <5>1. e \in Events
            BY <1>1, <1>2, <3>1, ToneIsRight DEF Events
          <5>2. Truth(round', e)
            BY <1>1, <3>1, <4>2 DEF Truth
          <5> QED BY <1>1, <5>1, <5>2 DEF EventOK
        <4> HIDE DEF e
        <4>4. Broadcast(e)
          BY <3>2 DEF e
        <4> QED BY <1>3, <3>2, <4>2, <4>3, <4>4, ServiceStep
      <3>3. CASE /\ round' = [round EXCEPT ![r] = [status |-> "cancelled", pick |-> pick]]
                 /\ Broadcast(Event("cancelled", r))
                 /\ Answer(q, c, "cancelled", r, 1)
        <4> DEFINE new == [status |-> "cancelled", pick |-> pick]
        <4>1. new \in [status : Statuses, pick : Picks]
          BY <1>2 DEF Statuses
        <4>2. round' \in Table /\ Lasts(round, round')
          BY <1>1, <1>5, <3>3, <4>1, Written
        <4>3. EventOK(round', Event("cancelled", r))
          BY <1>1, TypesOfNothing DEF EventOK, Event
        <4> QED BY <1>3, <3>3, <4>2, <4>3, ServiceStep
      <3> QED BY <1>5, <2>2, <3>2, <3>3 DEF ServePick, pick
    <2> QED BY <2>1, <2>2
  <1> QED BY <1>4, <1>5

LEMMA ServeDeclineStep ==
    ASSUME IInv, NEW p \in Players, NEW c \in call[p], ServeDecline(c)
    PROVE  IInv'
  <1> DEFINE q == "host"
             r == c.round
  <1>1. /\ p = q /\ q \in Players /\ r \in Rounds /\ c.kind = "decline"
        /\ r \in RoundOrNone
    BY DEF IInv, CallsOK, CallOK, Calls, ServeDecline, Players
  <1>2. faults' \in Nat /\ UNCHANGED tab
        /\ \E cs : /\ call' = [call EXCEPT ![q] = cs]
                  /\ CallsOK(q, cs, tab[q].dialog)
    BY <1>1, AnswerOK DEF ServeDecline
  <1>3. CASE round[r].status = "pending"
    <2>1. /\ round' = [round EXCEPT ![r].status = "cancelled"]
          /\ Broadcast(Event("cancelled", r))
      BY <1>3 DEF ServeDecline
    <2>2. round' \in Table /\ Lasts(round, round')
      BY <1>1, <1>3, <2>1, Written, StatusOK DEF Statuses
    <2>3. EventOK(round', Event("cancelled", r))
      BY <1>1, TypesOfNothing DEF EventOK, Event
    <2> QED BY <1>1, <1>2, <2>1, <2>2, <2>3, ServiceStep
  <1>4. CASE round[r].status # "pending"
    <2>1. Silent
      BY <1>4 DEF ServeDecline
    <2> QED BY <1>1, <1>2, <2>1, SilentAnswer
  <1> QED BY <1>3, <1>4

LEMMA ExpireStep ==
    ASSUME IInv, NEW r \in Rounds, Expire(r)
    PROVE  IInv'
  <1>1. round' \in Table /\ Lasts(round, round')
    BY Written, StatusOK DEF Expire, Statuses
  <1>2. /\ "host" \in Players /\ faults' \in Nat /\ inbox' = inbox /\ UNCHANGED tab
        /\ call' = [call EXCEPT !["host"] = call["host"]]
        /\ CallsOK("host", call["host"], tab["host"].dialog)
    BY DEF Expire, IInv, Shapes, Players
  <1> QED BY <1>1, <1>2, ServiceStep

LEMMA Stutters ==
    ASSUME IInv, UNCHANGED vars
    PROVE  IInv'
  BY DEF IInv, Shapes, vars

-----------------------------------------------------------------------------
(* The theorems *)

LEMMA InitHolds ==
    ASSUME Init
    PROVE  IInv
  <1>1. Shapes
    BY TypesOfNothing DEF Init, Shapes, Table, Statuses
  <1>2. \A q \in Players : PageOK(round, q, Page)
    BY TypesOfNothing DEF PageOK, Page
  <1>3. \A q \in Players : InboxOK(round, inbox[q])
    BY DEF Init, InboxOK
  <1> QED BY <1>1, <1>2, <1>3 DEF Init, IInv, CallsOK

\* What the proof relies on holds in every state: pages, requests and events on
\* their way agree with the rounds of the service (RPSGameDialog.tsx, rps.py).
THEOREM InvariantHolds == Spec => []IInv
  <1>1. ASSUME IInv, [Next]_vars
        PROVE  IInv'
    <2>1. CASE Play \/ Again
      <3>1. CASE Play
        BY <1>1, <3>1, AskRoundStep DEF Play
      <3>2. CASE Again
        BY <1>1, <3>2, AskRoundStep DEF Again
      <3> QED BY <2>1, <3>1, <3>2
    <2>2. CASE Accept \/ Decline
      BY <1>1, <2>2, AcceptStep, DeclineStep
    <2>3. CASE \E q \in Players : Serve(q)
      BY <1>1, <2>3, ServeCreateStep, ServePickStep, ServeDeclineStep DEF Serve
    <2>4. CASE \E q \in Players : Return(q)
      BY <1>1, <2>4, BalanceAnswerStep, PickAnswerStep, CreateAnswerStep,
         DeclineAnswerStep DEF Return
    <2>5. CASE \E q \in Players : Receive(q) \/ Close(q) \/ Reload(q)
      BY <1>1, <2>5, ReceiveStep, CloseStep, ReloadStep
    <2>6. CASE \E q \in Players, r \in Rounds : \E hand \in Hands[r][q] :
                  tab[q].dialog = r /\ Pick(q, hand)
      BY <1>1, <2>6, PickStep
    <2>7. CASE \E r \in Rounds : Expire(r)
      BY <1>1, <2>7, ExpireStep
    <2>8. CASE UNCHANGED vars
      BY <1>1, <2>8, Stutters
    <2> QED BY <1>1, <2>1, <2>2, <2>3, <2>4, <2>5, <2>6, <2>7, <2>8 DEF Next
  <1> QED BY <1>1, InitHolds, PTL DEF Spec

\* Each dialog is at its round, and a result on screen is the one of that round,
\* each hand on its side, in whichever order answers and events arrive.
THEOREM DuelInvHolds == Spec => []DuelInv
  <1>1. ASSUME IInv
        PROVE  DuelInv
    <2>1. TypeOK
      <3>1. \A r \in Rounds : round[r].status \in Statuses
        BY <1>1 DEF IInv, Shapes, Table
      <3>2. ASSUME NEW q \in Players
            PROVE  /\ tab[q].phase \in Phases
                   /\ {tab[q].current, tab[q].dialog, tab[q].invite} \subseteq 0 .. MaxRounds
                   /\ (tab[q].current = NoRound) = (tab[q].dialog = NoRound)
                   /\ (tab[q].phase = "none") = (tab[q].dialog = NoRound)
                   /\ (tab[q].phase = "result") = (tab[q].result # NoResult)
        BY <1>1 DEF IInv, PageOK, Pages, RoundOrNone
      <3> QED BY <3>1, <3>2 DEF TypeOK, Statuses
    <2>2. ResultIsTheRounds
      BY <1>1 DEF IInv, PageOK, ShowsRound, ToneOf, ResultIsTheRounds
    <2> QED BY <2>1, <2>2 DEF DuelInv
  <1> QED BY <1>1, InvariantHolds, PTL

-----------------------------------------------------------------------------
(* The sidebar: its sets of values, and the invariant *)

SomeSession == Sessions \cup {"none"}
EventsOfStream == [type : V!Types, n : Nat]
Records == [phase : V!Phases, stored : Nat, stream : Seq(EventsOfStream),
            coming : Seq(V!Types), votes : SUBSET V!Owners]
TurnsOf == [of : Sessions, n : Nat]
Cards == [of : SomeSession, state : V!ToolEvents \cup {"none"}]
Views == [active : SomeSession, status : V!Statuses, turns : SUBSET TurnsOf,
          card : Cards, check : SomeSession, final : SomeSession,
          history : SUBSET TurnsOf, asking : BOOLEAN, toasts : SUBSET Sessions]
Conns == [sock : {"none", "connecting", "open", "waiting", "closed"}, at : Nat,
          tries : 0 .. V!MaxReconnectAttempts]
Answers == {"created", "ended", "resumed", "waiting", "done", "failed"}
Requests == [kind : V!Kinds \cup {"create"}, of : Sessions, res : Answers \cup {"sent"}]
Matches == [status : {"idle", "searching", "found", "no_match"}, pending : BOOLEAN,
            found : SUBSET Sessions, chosen : SUBSET Sessions, queue : Seq(Sessions)]

\* What is on view is of the session on view, if there is one.
OwnView(v) ==
    /\ v \in Views
    /\ \A t \in v.turns \cup v.history : t.of = v.active
    /\ v.card # V!NoCard => v.card.of = v.active
    /\ v.final # "none" => v.final = v.active
    /\ v.asking => v.active # "none"

\* The first n events are on view.
Replayed(v, events, n) ==
    /\ n <= Len(events)
    /\ \A i \in 1 .. n :
        /\ events[i].type = "turn" => [of |-> v.active, n |-> events[i].n] \in v.turns
        /\ (/\ events[i].type \in V!ToolEvents
            /\ \A j \in 1 .. n : j > i => events[j].type \notin V!ToolEvents)
             => v.card.state = events[i].type

RecordOK(r) == r \in Records /\ r.votes # V!Owners
SessionsOK == session \in [Sessions -> Records] /\ \A s \in Sessions : RecordOK(session[s])
ConnOK == conn \in Conns /\ (conn.sock = "none") = (view.active = "none" \/ ~shown)
ReplayOK == conn.sock = "open" =>
                Replayed(view, session[view.active].stream, conn.at)
RequestsOK ==
    /\ calls \in SUBSET Requests
    /\ \A c, d \in calls : c.kind = "create" /\ d.kind = "create" => c = d
    /\ \A c \in calls : c.kind = "create" => match.queue # <<>>
ViewerOK ==
    /\ SessionsOK /\ listed \in [Sessions -> V!Phases] /\ OwnView(view) /\ ConnOK
    /\ ReplayOK /\ RequestsOK /\ match \in Matches /\ shown \in BOOLEAN

SomePeer == Peers \cup {"none"}
Msgs == [of : Peers, n : Nat]
Dues == [of : Peers, n : Nat, added : BOOLEAN]
Panels == [target : SomePeer, room : SomePeer, open : SomePeer, mounted : BOOLEAN,
           unread : [Peers -> Nat], base : Seq(Msgs), polled : BOOLEAN,
           live : Seq(Msgs), seen : SUBSET Msgs, sock : {"none", "open", "closed"},
           at : Nat]

GatewayOK ==
    /\ msgs \in [Peers -> Seq(Peers \cup {"me"})]
    /\ \A p \in Peers : msgs[p] \in Seq({"me", p})
    /\ stream \in [Peers -> Seq(Nat)]
    /\ \A p \in Peers : \A i \in 1 .. Len(stream[p]) : stream[p][i] \in 1 .. Len(msgs[p])
    /\ due \in SUBSET Dues /\ \A d \in due : d.n \in 1 .. Len(msgs[d.of])
    /\ notices \in Seq(Peers)

\* The room on screen: each of its messages is once in each of its lists, and
\* what the socket has brought is remembered.
RoomOK(q) ==
    /\ q \in Panels
    /\ (q.sock = "none") = (q.room = "none")
    /\ q.room # "none" => q.mounted
    /\ q.open = q.room
    /\ q.open # "none" => q.unread[q.open] = 0
    /\ \A i, j \in 1 .. Len(q.base) : q.base[i] = q.base[j] => i = j
    /\ \A i, j \in 1 .. Len(q.live) : q.live[i] = q.live[j] => i = j
    /\ \A i \in 1 .. Len(q.live) : q.live[i] \in q.seen

\* The last request of a panel that is there is for its target.
AskingOK ==
    /\ asked \in SUBSET [to : Peers, last : BOOLEAN]
    /\ asked # {} => panel.mounted
    /\ \A c \in asked : c.last /\ panel.target # "none" => c.to = panel.target

ChatOK == GatewayOK /\ RoomOK(panel) /\ AskingOK
SidebarOK == ViewerOK /\ ChatOK /\ (panel.mounted = There)
-----------------------------------------------------------------------------
(* The session on view *)

USE DEF V!None, C!None

\* Another session comes on view.
LEMMA SetActiveIsOwn ==
    ASSUME NEW v, OwnView(v), NEW s \in Sessions
    PROVE  OwnView(V!SetActive(v, s)) /\ V!SetActive(v, s).active = s
  <1>1. CASE v.active = s
    BY <1>1 DEF V!SetActive
  <1>2. CASE v.active # s
    <2> DEFINE w == V!SetActive(v, s)
    <2>1. w = [v EXCEPT !.active = s, !.status = "active", !.turns = {},
                        !.card = V!NoCard, !.final = "none", !.history = {},
                        !.asking = TRUE]
      BY <1>2 DEF V!SetActive
    <2>2. "active" \in V!Statuses /\ V!NoCard \in Cards
          /\ s \in SomeSession /\ "none" \in SomeSession /\ s # "none"
      BY NamesAssumption DEF V!Statuses, V!Running, V!NoCard, Cards, SomeSession
    <2> HIDE DEF w
    <2>3. w \in Views /\ w.active = s /\ w.turns = {} /\ w.history = {}
          /\ w.card = V!NoCard /\ w.final = "none"
      BY <2>1, <2>2 DEF OwnView, Views
    <2> QED
      BY <2>2, <2>3 DEF OwnView, w
  <1> QED
    BY <1>1, <1>2

\* An event of the session on view is put on view.
LEMMA HeardIsOwn ==
    ASSUME NEW v, OwnView(v), v.active # "none", NEW e \in EventsOfStream
    PROVE  /\ OwnView(V!Heard(v, e)) /\ V!Heard(v, e).active = v.active
           /\ v.turns \subseteq V!Heard(v, e).turns
           /\ e.type = "turn" => [of |-> v.active, n |-> e.n] \in V!Heard(v, e).turns
           /\ V!Heard(v, e).card =
                IF e.type \in V!ToolEvents THEN [of |-> v.active, state |-> e.type]
                ELSE v.card
  <1> USE DEF OwnView, Views, V!Heard, V!Statuses, V!Running
  <1>1. v.active \in Sessions
    BY DEF SomeSession
  <1>2. CASE e.type = "turn"
    <2>1. [of |-> v.active, n |-> e.n] \in TurnsOf
      BY <1>1 DEF TurnsOf, EventsOfStream
    <2> QED
      BY <1>2, <2>1 DEF V!ToolEvents
  <1>3. CASE e.type \in V!ToolEvents
    <2>1. [of |-> v.active, state |-> e.type] \in Cards
      BY <1>1, <1>3 DEF Cards, SomeSession
    <2> QED
      BY <1>3, <2>1 DEF V!ToolEvents, V!Upsert
  <1>4. CASE e.type \in {"check", "final", "ended"}
    BY <1>1, <1>4 DEF V!ToolEvents, SomeSession
  <1> QED
    BY <1>2, <1>3, <1>4 DEF EventsOfStream, V!Types

LEMMA HeardIsReplayed ==
    ASSUME NEW v, OwnView(v), v.active # "none", NEW events \in Seq(EventsOfStream),
           NEW n \in Nat, n + 1 <= Len(events), Replayed(v, events, n)
    PROVE  Replayed(V!Heard(v, events[n + 1]), events, n + 1)
  <1> DEFINE w == V!Heard(v, events[n + 1])
  <1>1. events[n + 1] \in EventsOfStream
    OBVIOUS
  <1>2. /\ w.active = v.active /\ v.turns \subseteq w.turns
        /\ events[n + 1].type = "turn" =>
             [of |-> v.active, n |-> events[n + 1].n] \in w.turns
        /\ w.card = IF events[n + 1].type \in V!ToolEvents
                    THEN [of |-> v.active, state |-> events[n + 1].type] ELSE v.card
    BY <1>1, HeardIsOwn
  <1> HIDE DEF w
  <1>3. ASSUME NEW i \in 1 .. n + 1
        PROVE  /\ events[i].type = "turn" => [of |-> w.active, n |-> events[i].n] \in w.turns
               /\ (/\ events[i].type \in V!ToolEvents
                   /\ \A j \in 1 .. n + 1 : j > i => events[j].type \notin V!ToolEvents)
                    => w.card.state = events[i].type
    <2>1. CASE i = n + 1
      BY <2>1, <1>2
    <2>2. CASE i \in 1 .. n
      <3>1. events[i].type = "turn" => [of |-> w.active, n |-> events[i].n] \in w.turns
        BY <2>2, <1>2 DEF Replayed
      <3>2. ASSUME events[i].type \in V!ToolEvents,
                   \A j \in 1 .. n + 1 : j > i => events[j].type \notin V!ToolEvents
            PROVE  w.card.state = events[i].type
        <4>1. events[n + 1].type \notin V!ToolEvents
          BY <2>2, <3>2
        <4>2. \A j \in 1 .. n : j > i => events[j].type \notin V!ToolEvents
          BY <3>2
        <4> QED
          BY <2>2, <3>2, <4>1, <4>2, <1>2 DEF Replayed
      <3> QED BY <3>1, <3>2
    <2> QED BY <2>1, <2>2
  <1> QED
    BY <1>3 DEF Replayed, w

\* A stream is only added to.
Grows(r, q) ==
    /\ Len(r.stream) <= Len(q.stream)
    /\ \A i \in 1 .. Len(r.stream) : q.stream[i] = r.stream[i]

LEMMA ReplayLasts ==
    ASSUME NEW v, NEW w, NEW r \in Records, NEW q \in Records, NEW n \in Nat,
           Replayed(v, r.stream, n), Grows(r, q), w.active = v.active, w.turns = v.turns,
           w.card = v.card
    PROVE  Replayed(w, q.stream, n)
  <1>1. Len(r.stream) \in Nat /\ Len(q.stream) \in Nat
    BY DEF Records
  <1>2. \A i \in 1 .. n : i \in 1 .. Len(r.stream) /\ q.stream[i] = r.stream[i]
    BY <1>1 DEF Replayed, Grows
  <1>3. n <= Len(q.stream)
    BY <1>1 DEF Replayed, Grows
  <1>4. ASSUME NEW i \in 1 .. n
        PROVE  /\ q.stream[i].type = "turn" =>
                    [of |-> w.active, n |-> q.stream[i].n] \in w.turns
               /\ (/\ q.stream[i].type \in V!ToolEvents
                   /\ \A j \in 1 .. n : j > i => q.stream[j].type \notin V!ToolEvents)
                    => w.card.state = q.stream[i].type
    <2>1. q.stream[i] = r.stream[i]
          /\ \A j \in 1 .. n : q.stream[j].type = r.stream[j].type
      BY <1>2
    <2> QED
      BY <2>1 DEF Replayed
  <1> QED
    BY <1>3, <1>4 DEF Replayed

-----------------------------------------------------------------------------
(* The services *)

LEMMA PublishedIsOK ==
    ASSUME NEW r \in Records, NEW type \in V!Types
    PROVE  RecordOK(V!Published(r, type)) /\ Grows(r, V!Published(r, type))
  <1> DEFINE n == IF type = "turn" THEN r.stored + 1 ELSE r.stored
             e == [type |-> type, n |-> n]
             p == V!Published(r, type)
  <1>1. e \in EventsOfStream /\ n \in Nat
    BY DEF EventsOfStream, Records
  <1>2. r.stream \in Seq(EventsOfStream) /\ Append(r.stream, e) \in Seq(EventsOfStream)
    BY <1>1 DEF Records
  <1>3. V!PhaseAfter(type) \in V!Phases
    BY DEF V!PhaseAfter, V!Phases
  <1> DEFINE coming == IF type = "ended" THEN <<>> ELSE r.coming
  <1>4. /\ p = [r EXCEPT !.phase = V!PhaseAfter(type), !.stored = n, !.votes = {},
                         !.stream = Append(@, e), !.coming = coming]
        /\ coming \in Seq(V!Types)
    BY DEF V!Published, Records
  <1> HIDE DEF n, e, p, coming
  <1>5. p \in Records /\ p.votes # V!Owners
    BY <1>1, <1>2, <1>3, <1>4 DEF Records, V!Owners
  <1>6. Grows(r, p)
    BY <1>2, <1>4 DEF Grows, Records
  <1> QED
    BY <1>5, <1>6 DEF RecordOK, p

LEMMA AgreedIsOK ==
    ASSUME NEW r, RecordOK(r), NEW owner \in V!Owners
    PROVE  RecordOK(V!Agreed(r, owner)) /\ Grows(r, V!Agreed(r, owner))
  <1>1. r \in Records /\ r.votes \in SUBSET V!Owners /\ r.votes \cup {owner} \in SUBSET V!Owners
    BY DEF RecordOK, Records
  <1>2. CASE r.votes \cup {owner} = V!Owners
    <2>1. V!Agreed(r, owner) = [r EXCEPT !.phase = "active", !.votes = {}]
      BY <1>2 DEF V!Agreed
    <2>2. {} # V!Owners /\ {} \in SUBSET V!Owners
      BY DEF V!Owners
    <2>3. "active" \in V!Phases
      BY DEF V!Phases
    <2> HIDE DEF V!Owners, V!Phases
    <2>4. V!Agreed(r, owner) \in Records /\ V!Agreed(r, owner).votes = {}
          /\ V!Agreed(r, owner).stream = r.stream
      BY <1>1, <2>1, <2>2, <2>3 DEF Records
    <2> QED
      BY <2>2, <2>4 DEF RecordOK, Records, Grows
  <1>3. CASE r.votes \cup {owner} # V!Owners
    <2>1. V!Agreed(r, owner) = [r EXCEPT !.votes = r.votes \cup {owner}]
      BY <1>3 DEF V!Agreed
    <2> HIDE DEF V!Owners
    <2> QED
      BY <1>1, <1>3, <2>1 DEF RecordOK, Records, Grows
  <1> QED
    BY <1>2, <1>3

LEMMA TakenIsOK ==
    ASSUME NEW r, RecordOK(r), NEW c \in Requests
    PROVE  /\ RecordOK(V!Taken(c, r)[1]) /\ Grows(r, V!Taken(c, r)[1])
           /\ V!Taken(c, r)[2] \in Answers
  <1>1. r \in Records /\ Grows(r, r)
    BY DEF RecordOK, Records, Grows
  <1>2. RecordOK(V!Ended(r)) /\ Grows(r, V!Ended(r))
    BY <1>1, PublishedIsOK DEF V!Ended, V!Types
  <1>3. RecordOK(V!Agreed(r, "me")) /\ Grows(r, V!Agreed(r, "me"))
    BY AgreedIsOK DEF V!Owners
  <1>4. \A type \in {"user_confirmed", "user_rejected"} :
            RecordOK(V!Published(r, type)) /\ Grows(r, V!Published(r, type))
    BY <1>1, PublishedIsOK DEF V!Types, V!ToolEvents
  <1>5. LET q == [r EXCEPT !.phase = "active"] IN RecordOK(q) /\ Grows(r, q)
    BY <1>1 DEF RecordOK, Records, Grows, V!Phases
  <1> DEFINE x == V!Taken(c, r)
  <1>6. \/ x = <<[r EXCEPT !.phase = "active"], "created">>
        \/ x = <<V!Ended(r), "ended">>
        \/ x = <<V!Agreed(r, "me"), "resumed">>
        \/ x = <<V!Agreed(r, "me"), "waiting">>
        \/ x = <<V!Published(r, "user_confirmed"), "done">>
        \/ x = <<V!Published(r, "user_rejected"), "done">>
        \/ x = <<r, "failed">>
    BY DEF V!Taken
  <1> HIDE DEF x
  <1>7. RecordOK(x[1]) /\ Grows(r, x[1]) /\ x[2] \in Answers
    BY <1>1, <1>2, <1>3, <1>4, <1>5, <1>6 DEF Answers
  <1> QED
    BY <1>7 DEF x

LEMMA AnsweredIsOwn ==
    ASSUME NEW v, OwnView(v), NEW c \in Requests
    PROVE  /\ OwnView(V!Answered(v, c)) /\ V!Answered(v, c).active = v.active
           /\ V!Answered(v, c).turns = v.turns /\ V!Answered(v, c).card = v.card
  <1> DEFINE w == V!Answered(v, c)
  <1>1. \/ w = v
        \/ w = [v EXCEPT !.toasts = @ \ {c.of}]
        \/ w = [v EXCEPT !.status = "ended"]
        \/ \E status \in {"active", "ended"} :
              \/ w = [v EXCEPT !.status = status, !.check = "none"]
              \/ w = [v EXCEPT !.status = status, !.final = "none"]
    BY DEF V!Answered
  <1> HIDE DEF w
  <1>2. OwnView(w) /\ w.active = v.active /\ w.turns = v.turns /\ w.card = v.card
    <2>1. {"active", "ended"} \subseteq V!Statuses /\ "none" \in SomeSession
      BY DEF V!Statuses, V!Running, SomeSession
    <2>2. CASE w = v \/ w = [v EXCEPT !.toasts = @ \ {c.of}] \/ w = [v EXCEPT !.status = "ended"]
      BY <2>1, <2>2 DEF OwnView, Views
    <2>3. ASSUME NEW status \in {"active", "ended"},
                 \/ w = [v EXCEPT !.status = status, !.check = "none"]
                 \/ w = [v EXCEPT !.status = status, !.final = "none"]
          PROVE  OwnView(w) /\ w.active = v.active /\ w.turns = v.turns /\ w.card = v.card
      BY <2>1, <2>3 DEF OwnView, Views
    <2> QED
      BY <1>1, <2>2, <2>3
  <1> QED
    BY <1>2 DEF w

-----------------------------------------------------------------------------
(* The steps of the viewer *)

\* A session on view has a stream.
LEMMA OnView ==
    ASSUME ViewerOK, conn.sock # "none"
    PROVE  /\ view.active \in Sessions /\ view.active # "none" /\ shown
           /\ session[view.active] \in Records
           /\ session[view.active].stream \in Seq(EventsOfStream)
  BY DEF ViewerOK, ConnOK, OwnView, Views, SomeSession, SessionsOK, Records

LEMMA SessionStep ==
    ASSUME ViewerOK, NEW s \in Sessions, NEW r, RecordOK(r), Grows(session[s], r),
           session' = [session EXCEPT ![s] = r]
    PROVE  SessionsOK' /\ \A t \in Sessions : Grows(session[t], session'[t])
  <1>1. \A t \in Sessions : session'[t] = IF t = s THEN r ELSE session[t]
    BY DEF ViewerOK, SessionsOK
  <1>2. \A t \in Sessions : RecordOK(session'[t])
    BY <1>1 DEF ViewerOK, SessionsOK
  <1>3. session' \in [Sessions -> Records]
    BY <1>1 DEF ViewerOK, SessionsOK, RecordOK
  <1>4. ASSUME NEW t \in Sessions PROVE Grows(session[t], session'[t])
    <2>1. Grows(session[t], session[t])
      BY DEF Grows, ViewerOK, SessionsOK, Records
    <2> QED
      BY <1>1, <2>1
  <1> QED
    BY <1>2, <1>3, <1>4 DEF SessionsOK

LEMMA ReplayStep ==
    ASSUME ViewerOK, SessionsOK', \A t \in Sessions : Grows(session[t], session'[t]),
           conn' = conn, view'.active = view.active, view'.turns = view.turns,
           view'.card = view.card
    PROVE  ReplayOK'
  <1>1. SUFFICES ASSUME conn.sock = "open"
                 PROVE  Replayed(view', session'[view'.active].stream, conn.at)
    BY DEF ReplayOK
  <1> DEFINE r == session[view.active]
             q == session'[view.active]
  <1>2. /\ view.active \in Sessions /\ r \in Records /\ q \in Records /\ Grows(r, q)
        /\ conn.at \in Nat /\ Replayed(view, r.stream, conn.at)
    BY <1>1, OnView DEF SessionsOK, ViewerOK, ConnOK, Conns, ReplayOK
  <1> HIDE DEF r, q
  <1>3. Replayed(view', q.stream, conn.at)
    BY <1>2, ReplayLasts
  <1> QED
    BY <1>3 DEF q

\* Sessions go on while the page stays as it is.
LEMMA ServicesStep ==
    ASSUME ViewerOK, SessionsOK', \A t \in Sessions : Grows(session[t], session'[t]),
           OwnView(view'), view'.active = view.active, view'.turns = view.turns,
           view'.card = view.card, RequestsOK', UNCHANGED <<listed, conn, match, shown>>
    PROVE  ViewerOK'
  <1>1. ReplayOK'
    BY ReplayStep DEF ViewerOK
  <1>2. OwnView(view)' /\ ConnOK'
    BY DEF ViewerOK, ConnOK, OwnView
  <1> QED
    BY <1>1, <1>2 DEF ViewerOK

LEMMA AdvanceStep ==
    ASSUME ViewerOK, NEW s \in Sessions, V!Advance(s) PROVE ViewerOK'
  <1> DEFINE type == Head(session[s].coming)
             q == [session[s] EXCEPT !.coming = Tail(@)]
             r == V!Published(q, type)
  <1>1. session[s] \in Records /\ session[s].coming \in Seq(V!Types)
        /\ session[s].coming # <<>>
    BY DEF ViewerOK, SessionsOK, V!Advance, Records
  <1>2. q \in Records /\ type \in V!Types /\ q.stream = session[s].stream
    <2>1. Head(session[s].coming) \in V!Types /\ Tail(session[s].coming) \in Seq(V!Types)
      BY <1>1
    <2> QED
      BY <1>1, <2>1 DEF Records
  <1>3. session' = [session EXCEPT ![s] = r]
    BY DEF V!Advance, ViewerOK, SessionsOK
  <1>4. view' = (IF type = "pending" THEN [view EXCEPT !.toasts = @ \cup {s}] ELSE view)
        /\ UNCHANGED <<listed, conn, calls, match, shown>>
    BY DEF V!Advance
  <1> HIDE DEF type, q
  <1>5. RecordOK(r) /\ Grows(session[s], r)
    BY <1>2, PublishedIsOK DEF Grows
  <1>6. SessionsOK' /\ \A t \in Sessions : Grows(session[t], session'[t])
    BY <1>3, <1>5, SessionStep
  <1>7. OwnView(view') /\ view'.active = view.active /\ view'.turns = view.turns
        /\ view'.card = view.card
    BY <1>4 DEF ViewerOK, OwnView, Views
  <1>8. RequestsOK'
    BY <1>4 DEF ViewerOK, RequestsOK
  <1> QED
    BY <1>4, <1>6, <1>7, <1>8, ServicesStep

LEMMA PartnerVotesStep ==
    ASSUME ViewerOK, NEW s \in Sessions, V!PartnerVotes(s) PROVE ViewerOK'
  <1>1. session[s] \in Records /\ RecordOK(session[s])
    BY DEF ViewerOK, SessionsOK
  <1>2. \E r : RecordOK(r) /\ Grows(session[s], r) /\ session' = [session EXCEPT ![s] = r]
    <2>1. CASE session' = [session EXCEPT ![s] = V!Agreed(@, "partner")]
      BY <1>1, <2>1, AgreedIsOK DEF V!Owners
    <2>2. CASE session' = [session EXCEPT ![s] = V!Published(@, "ended")]
      BY <1>1, <2>2, PublishedIsOK DEF V!Types
    <2> QED
      BY <2>1, <2>2 DEF V!PartnerVotes
  <1>3. SessionsOK' /\ \A t \in Sessions : Grows(session[t], session'[t])
    BY <1>2, SessionStep
  <1> QED
    BY <1>3, ServicesStep DEF V!PartnerVotes, ViewerOK, RequestsOK

LEMMA ServeStep ==
    ASSUME ViewerOK, NEW c \in calls, V!Serve(c) PROVE ViewerOK'
  <1>1. c \in Requests /\ c.of \in Sessions /\ RecordOK(session[c.of])
    BY DEF ViewerOK, SessionsOK, RequestsOK, Requests
  <1> DEFINE x == V!Taken(c, session[c.of])
  <1>2. RecordOK(x[1]) /\ Grows(session[c.of], x[1]) /\ x[2] \in Answers
    BY <1>1, TakenIsOK
  <1>3. \E a \in Answers : calls' = (calls \ {c}) \cup {[c EXCEPT !.res = a]}
    BY <1>2 DEF V!Serve, Answers
  <1>4. SessionsOK' /\ \A t \in Sessions : Grows(session[t], session'[t])
    <2>1. CASE session' = [session EXCEPT ![c.of] = x[1]]
      BY <1>1, <1>2, <2>1, SessionStep
    <2>2. CASE UNCHANGED session
      BY <2>2 DEF ViewerOK, SessionsOK, Grows, Records
    <2> QED
      BY <2>1, <2>2 DEF V!Serve
  <1>5. RequestsOK'
    <2>1. PICK a \in Answers : calls' = (calls \ {c}) \cup {[c EXCEPT !.res = a]}
      BY <1>3
    <2> DEFINE e == [c EXCEPT !.res = a]
    <2>2. e \in Requests /\ e.kind = c.kind
      BY <1>1 DEF Requests
    <2> HIDE DEF e
    <2> QED
      BY <2>1, <2>2 DEF ViewerOK, RequestsOK, V!Serve, e
  <1> QED
    BY <1>4, <1>5, ServicesStep DEF V!Serve, ViewerOK

\* The view changes, of the same session.
LEMMA ReturnStep ==
    ASSUME ViewerOK, NEW c \in calls, V!Return(c) PROVE ViewerOK'
  <1>1. c \in Requests
    BY DEF ViewerOK, RequestsOK
  <1>2. OwnView(view') /\ view'.active = view.active /\ view'.turns = view.turns
        /\ view'.card = view.card
    BY <1>1, AnsweredIsOwn DEF V!Return, ViewerOK
  <1>3. RequestsOK'
    BY DEF V!Return, ViewerOK, RequestsOK
  <1>4. SessionsOK' /\ \A t \in Sessions : Grows(session[t], session'[t])
    BY DEF V!Return, ViewerOK, SessionsOK, Grows, Records
  <1> QED
    BY <1>2, <1>3, <1>4, ServicesStep DEF V!Return

\* Only requests, the list and the search change.
LEMMA QuietStep ==
    ASSUME ViewerOK, UNCHANGED <<session, conn, shown>>,
           OwnView(view'), view'.active = view.active, view'.turns = view.turns,
           view'.card = view.card,
           RequestsOK', listed' \in [Sessions -> V!Phases], match' \in Matches
    PROVE  ViewerOK'
  <1>1. SessionsOK' /\ \A t \in Sessions : Grows(session[t], session'[t])
    BY DEF ViewerOK, SessionsOK, Grows, Records
  <1>2. ReplayOK'
    BY <1>1, ReplayStep
  <1>3. OwnView(view)' /\ ConnOK'
    BY DEF ViewerOK, ConnOK, OwnView
  <1> QED
    BY <1>1, <1>2, <1>3 DEF ViewerOK

LEMMA FetchTurnsStep == ASSUME ViewerOK, V!FetchTurns PROVE ViewerOK'
  <1>1. view.active \in Sessions
    BY DEF V!FetchTurns, ViewerOK, OwnView, Views, SomeSession
  <1>2. V!Turns(view.active) \in SUBSET TurnsOf
        /\ \A t \in V!Turns(view.active) : t.of = view.active
    BY <1>1 DEF V!Turns, TurnsOf
  <1>3. OwnView(view') /\ view'.active = view.active /\ view'.turns = view.turns
        /\ view'.card = view.card
    BY <1>2 DEF V!FetchTurns, ViewerOK, OwnView, Views
  <1> QED
    BY <1>3, QuietStep DEF V!FetchTurns, ViewerOK, RequestsOK

LEMMA PollSessionsStep == ASSUME ViewerOK, V!PollSessions PROVE ViewerOK'
  <1>1. listed' \in [Sessions -> V!Phases]
    BY DEF V!PollSessions, ViewerOK, SessionsOK, Records
  <1> QED
    BY <1>1, QuietStep DEF V!PollSessions, ViewerOK, RequestsOK

LEMMA FindMatchStep == ASSUME ViewerOK, V!FindMatch PROVE ViewerOK'
  <1>1. match' \in Matches /\ match'.queue = match.queue
    BY DEF V!FindMatch, ViewerOK, Matches
  <1> QED
    BY <1>1, QuietStep DEF V!FindMatch, ViewerOK, RequestsOK

LEMMA MatchAnswerStep == ASSUME ViewerOK, V!MatchAnswer PROVE ViewerOK'
  <1>0. V!Candidates \in SUBSET Sessions
    BY DEF V!Candidates
  <1>1. match' \in Matches /\ match'.queue = match.queue
    BY <1>0 DEF V!MatchAnswer, ViewerOK, Matches
  <1> QED
    BY <1>1, QuietStep DEF V!MatchAnswer, ViewerOK, RequestsOK

LEMMA ToggleMatchStep ==
    ASSUME ViewerOK, NEW s \in Sessions, V!ToggleMatch(s) PROVE ViewerOK'
  <1>1. match' \in Matches /\ match'.queue = match.queue
    BY DEF V!ToggleMatch, ViewerOK, Matches
  <1> QED
    BY <1>1, QuietStep DEF V!ToggleMatch, ViewerOK, RequestsOK

LEMMA AskStep ==
    ASSUME ViewerOK, NEW kind \in V!Kinds, NEW s \in Sessions, V!Ask(kind, s)
    PROVE  ViewerOK'
  <1>1. [kind |-> kind, of |-> s, res |-> "sent"] \in Requests /\ kind # "create"
    BY DEF Requests, V!Kinds
  <1>2. RequestsOK'
    BY <1>1 DEF V!Ask, ViewerOK, RequestsOK
  <1> QED
    BY <1>2, QuietStep DEF V!Ask, ViewerOK

\* The order in which the chosen sessions are created.
LEMMA QueueOf ==
    ASSUME NEW S \in SUBSET Sessions, S # {}, NEW q \in V!SetToSeqs(S)
    PROVE  q \in Seq(Sessions) /\ q # <<>> /\ Head(q) \in Sessions
  <1>1. IsFiniteSet(S) /\ Cardinality(S) \in Nat /\ Cardinality(S) # 0
    BY SizesAssumption, FS_Subset, FS_CardinalityType, FS_EmptySet
  <1>2. q \in [1 .. Cardinality(S) -> S]
    <2>1. V!Cardinality(S) = Cardinality(S)
      BY DEF V!Cardinality, Cardinality
    <2> QED
      BY <2>1 DEF V!SetToSeqs
  <1>3. q \in Seq(S) /\ Len(q) = Cardinality(S)
    BY <1>1, <1>2
  <1> QED
    BY <1>1, <1>3

LEMMA StartStep == ASSUME ViewerOK, V!Start PROVE ViewerOK'
  <1> DEFINE S == match.chosen \cap V!Candidates
  <1>1. S \in SUBSET Sessions /\ S # {}
    BY DEF V!Start, V!Candidates
  <1>2. PICK q \in V!SetToSeqs(S) : match' = [match EXCEPT !.queue = q]
                                    /\ calls' = V!Create(Head(q))
    BY DEF V!Start
  <1> HIDE DEF S
  <1>3. q \in Seq(Sessions) /\ q # <<>> /\ Head(q) \in Sessions
    BY <1>1, QueueOf
  <1>4. match' \in Matches /\ match'.queue # <<>>
    BY <1>2, <1>3 DEF ViewerOK, Matches
  <1> DEFINE e == [kind |-> "create", of |-> Head(q), res |-> "sent"]
  <1>5. e \in Requests /\ calls' = calls \cup {e}
    BY <1>2, <1>3 DEF V!Create, Requests
  <1> HIDE DEF e
  <1>6. \A c \in calls : c.kind # "create"
    BY DEF ViewerOK, RequestsOK, V!Start
  <1>7. RequestsOK'
    BY <1>4, <1>5, <1>6 DEF ViewerOK, RequestsOK
  <1>8. OwnView(view') /\ view'.active = view.active /\ view'.turns = view.turns
        /\ view'.card = view.card
    BY DEF V!Start, ViewerOK, OwnView, Views, V!Statuses
  <1> QED
    BY <1>4, <1>7, <1>8, QuietStep DEF V!Start, ViewerOK

-----------------------------------------------------------------------------
(* The socket, and what brings another session on view *)

LEMMA ConnectStep == ASSUME ViewerOK, V!Connect PROVE ViewerOK'
  <1>1. view.active \in Sessions /\ view.active # "none" /\ shown
        /\ session[view.active].stream \in Seq(EventsOfStream)
    BY OnView DEF V!Connect
  <1>2. OwnView(view)' /\ view'.active = view.active
    BY DEF V!Connect, ViewerOK, OwnView, Views, V!Statuses, V!Running
  <1>3. conn' \in Conns /\ conn'.sock = "open" /\ conn'.at = 0
    BY DEF V!Connect, Conns, V!MaxReconnectAttempts
  <1>4. ConnOK'
    BY <1>1, <1>2, <1>3 DEF ConnOK, V!Connect
  <1>5. ReplayOK'
    BY <1>1, <1>2, <1>3 DEF ReplayOK, Replayed, V!Connect
  <1>6. RequestsOK'
    BY DEF V!Connect, ViewerOK, RequestsOK
  <1> QED
    BY <1>2, <1>4, <1>5, <1>6 DEF V!Connect, ViewerOK, SessionsOK

\* A socket that is not open anew.
LEMMA SocketStep ==
    ASSUME ViewerOK, conn' \in Conns, conn'.sock # "open",
           OwnView(view'), (conn'.sock = "none") = (view'.active = "none" \/ ~shown'),
           RequestsOK', match' \in Matches, shown' \in BOOLEAN,
           UNCHANGED <<session, listed>>
    PROVE  ViewerOK'
  <1>1. ReplayOK' /\ ConnOK' /\ OwnView(view)'
    BY DEF ReplayOK, ConnOK, OwnView
  <1> QED
    BY <1>1 DEF ViewerOK, SessionsOK

LEMMA DropStep == ASSUME ViewerOK, V!Drop PROVE ViewerOK'
  <1>1. conn \in Conns /\ conn.sock # "none"
    BY DEF ViewerOK, ConnOK, V!Drop
  <1>2. conn' \in Conns /\ conn'.sock \notin {"open", "none"}
    <2>1. conn.at \in Nat /\ conn.tries \in 0 .. 3
          /\ conn = [sock |-> conn.sock, at |-> conn.at, tries |-> conn.tries]
      BY <1>1 DEF Conns, V!MaxReconnectAttempts
    <2>2. \/ conn.tries < 3 /\ conn' = [conn EXCEPT !.sock = "waiting", !.tries = @ + 1]
          \/ conn' = [conn EXCEPT !.sock = "closed"]
      BY DEF V!Drop, V!Lost, V!MaxReconnectAttempts
    <2>3. \E sock \in {"waiting", "closed"}, n \in 0 .. 3 :
              conn' = [sock |-> sock, at |-> conn.at, tries |-> n]
      <3>1. CASE conn.tries < 3 /\ conn' = [conn EXCEPT !.sock = "waiting", !.tries = @ + 1]
        <4>1. conn.tries + 1 \in 0 .. 3
          BY <2>1, <3>1
        <4>2. conn' = [sock |-> "waiting", at |-> conn.at, tries |-> conn.tries + 1]
          BY <2>1, <3>1
        <4> QED
          BY <4>1, <4>2
      <3>2. CASE conn' = [conn EXCEPT !.sock = "closed"]
        <4>1. conn' = [sock |-> "closed", at |-> conn.at, tries |-> conn.tries]
          BY <2>1, <3>2
        <4> QED
          BY <2>1, <4>1
      <3> QED
        BY <2>2, <3>1, <3>2
    <2> QED
      BY <2>1, <2>3 DEF Conns, V!MaxReconnectAttempts
  <1>3. RequestsOK'
    BY DEF V!Drop, ViewerOK, RequestsOK
  <1> QED
    BY <1>1, <1>2, <1>3, SocketStep DEF V!Drop, ViewerOK, ConnOK

LEMMA ReconnectStep == ASSUME ViewerOK, V!Reconnect PROVE ViewerOK'
  <1>1. conn' \in Conns /\ conn'.sock = "connecting" /\ conn.sock # "none"
    BY DEF ViewerOK, ConnOK, V!Reconnect, Conns
  <1>2. RequestsOK'
    BY DEF V!Reconnect, ViewerOK, RequestsOK
  <1> QED
    BY <1>1, <1>2, SocketStep DEF V!Reconnect, ViewerOK, ConnOK

LEMMA DeliverStep == ASSUME ViewerOK, V!Deliver PROVE ViewerOK'
  <1> DEFINE events == session[view.active].stream
             e == events[conn.at + 1]
  <1>1. view.active \in Sessions /\ view.active # "none" /\ shown
        /\ events \in Seq(EventsOfStream)
    BY OnView DEF V!Deliver
  <1>2. conn \in Conns /\ conn.at \in Nat /\ conn.at + 1 <= Len(events)
        /\ Replayed(view, events, conn.at)
    BY <1>1 DEF V!Deliver, ViewerOK, ConnOK, Conns, ReplayOK
  <1>3. view' = V!Heard(view, e) /\ UNCHANGED <<session, listed, calls, match, shown>>
        /\ conn' = [conn EXCEPT !.at = @ + 1,
                       !.sock = IF e.type = "ended" THEN "closed" ELSE @]
        /\ conn.sock = "open"
    BY DEF V!Deliver
  <1> HIDE DEF events
  <1>4. e \in EventsOfStream
    BY <1>1, <1>2
  <1> HIDE DEF e
  <1>5. OwnView(view)' /\ view'.active = view.active
    <2>1. OwnView(view)
      BY DEF ViewerOK
    <2>2. OwnView(V!Heard(view, e)) /\ V!Heard(view, e).active = view.active
      BY <1>1, <1>4, <2>1, HeardIsOwn
    <2>3. OwnView(view')
      BY <1>3, <2>2
    <2> QED
      BY <1>3, <2>2, <2>3 DEF OwnView
  <1>6. Replayed(view', events, conn.at + 1)
    BY <1>1, <1>2, <1>3, HeardIsReplayed DEF ViewerOK, e
  <1>7. conn' \in Conns /\ conn'.at = conn.at + 1 /\ conn'.sock \in {"open", "closed"}
    <2> DEFINE sock == IF e.type = "ended" THEN "closed" ELSE conn.sock
    <2>1. sock \in {"open", "closed"} /\ conn' = [conn EXCEPT !.at = @ + 1, !.sock = sock]
      BY <1>3
    <2> HIDE DEF sock
    <2>2. conn = [sock |-> conn.sock, at |-> conn.at, tries |-> conn.tries]
          /\ conn.tries \in 0 .. V!MaxReconnectAttempts
      BY <1>2 DEF Conns
    <2>3. conn' = [sock |-> sock, at |-> conn.at + 1, tries |-> conn.tries]
      BY <2>1, <2>2
    <2> QED
      BY <1>2, <2>1, <2>2, <2>3 DEF Conns
  <1>8. ConnOK'
    BY <1>1, <1>3, <1>5, <1>7 DEF ConnOK
  <1>9. ReplayOK'
    BY <1>3, <1>5, <1>6, <1>7 DEF ReplayOK, events
  <1>10. RequestsOK'
    BY <1>3 DEF ViewerOK, RequestsOK
  <1> QED
    BY <1>3, <1>5, <1>8, <1>9, <1>10 DEF ViewerOK, SessionsOK

\* A session comes on view; a socket begins, unless it was on view.
LEMMA OpenStep ==
    ASSUME ViewerOK, NEW s \in Sessions, OwnView(view'), view'.active = s,
           view.active = s => view'.turns = view.turns /\ view'.card = view.card,
           conn' = V!Conn(s), shown, RequestsOK', match' \in Matches,
           UNCHANGED <<session, listed, shown>>
    PROVE  ViewerOK'
  <1>1. s # "none"
    BY NamesAssumption
  <1>2. CASE view.active = s
    <2>1. conn' = conn
      BY <1>2 DEF V!Conn
    <2>2. SessionsOK' /\ \A t \in Sessions : Grows(session[t], session'[t])
      BY DEF ViewerOK, SessionsOK, Grows, Records
    <2>3. ReplayOK'
      BY <1>2, <2>1, <2>2, ReplayStep
    <2>4. OwnView(view)' /\ ConnOK'
      BY <1>2, <2>1 DEF ViewerOK, ConnOK, OwnView
    <2> QED
      BY <2>2, <2>3, <2>4 DEF ViewerOK
  <1>3. CASE view.active # s
    <2>1. conn' \in Conns /\ conn'.sock = "connecting"
      BY <1>3 DEF V!Conn, V!Connecting, V!NoConn, Conns, V!MaxReconnectAttempts
    <2> QED
      BY <1>1, <2>1, SocketStep DEF ViewerOK
  <1> QED
    BY <1>2, <1>3

LEMMA SetActiveKeeps ==
    ASSUME NEW v, NEW s, v.active = s PROVE V!SetActive(v, s) = v
  BY DEF V!SetActive

LEMMA SelectStep ==
    ASSUME ViewerOK, NEW s \in Sessions, V!Select(s) PROVE ViewerOK'
  <1> DEFINE w == V!SetActive(view, s)
  <1>1. OwnView(w) /\ w.active = s /\ (view.active = s => w = view)
    BY SetActiveIsOwn, SetActiveKeeps DEF ViewerOK
  <1>2. view' = V!Listed(w, s)
    BY DEF V!Select
  <1> HIDE DEF w
  <1>3. view' = w \/ \E status \in V!Statuses : view' = [w EXCEPT !.status = status]
    BY <1>2 DEF V!Listed, V!Statuses, V!Running
  <1>4. OwnView(view') /\ view'.active = s /\ view'.turns = w.turns /\ view'.card = w.card
    BY <1>1, <1>3 DEF OwnView, Views
  <1>5. RequestsOK' /\ match' \in Matches
    BY DEF V!Select, ViewerOK, RequestsOK
  <1> QED
    BY <1>1, <1>4, <1>5, OpenStep DEF V!Select

LEMMA OpenNotifiedStep ==
    ASSUME ViewerOK, NEW s \in Sessions, V!OpenNotified(s) PROVE ViewerOK'
  <1>1. OwnView(view') /\ view'.active = s /\ (view.active = s => view' = view)
    BY SetActiveIsOwn, SetActiveKeeps DEF ViewerOK, V!OpenNotified
  <1>2. RequestsOK' /\ match' \in Matches
    BY DEF V!OpenNotified, ViewerOK, RequestsOK
  <1> QED
    BY <1>1, <1>2, OpenStep DEF V!OpenNotified

LEMMA ViewCloseStep == ASSUME ViewerOK, V!Close PROVE ViewerOK'
  <1>1. OwnView(view') /\ view'.active = "none"
    BY DEF V!Close, ViewerOK, OwnView, Views, V!NoSession, Cards, V!NoCard, SomeSession,
       V!Statuses
  <1>2. conn' \in Conns /\ conn'.sock = "none"
    BY DEF V!Close, V!NoConn, Conns, V!MaxReconnectAttempts
  <1>3. match' \in Matches /\ match'.queue = match.queue
    BY DEF V!Close, V!NoMatch, ViewerOK, Matches
  <1>4. RequestsOK'
    BY <1>3 DEF V!Close, ViewerOK, RequestsOK
  <1> QED
    BY <1>1, <1>2, <1>3, <1>4, SocketStep DEF V!Close, ViewerOK

LEMMA HideStep == ASSUME ViewerOK, V!Hide PROVE ViewerOK'
  <1>1. conn' \in Conns /\ conn'.sock = "none"
    BY DEF V!Hide, V!NoConn, Conns, V!MaxReconnectAttempts
  <1>2. RequestsOK'
    BY DEF V!Hide, ViewerOK, RequestsOK
  <1> QED
    BY <1>1, <1>2, SocketStep DEF V!Hide, ViewerOK

LEMMA ShowStep == ASSUME ViewerOK, V!Show PROVE ViewerOK'
  <1>1. OwnView(view') /\ view'.active = view.active
    BY DEF V!Show, ViewerOK, OwnView, Views
  <1>2. conn' \in Conns
        /\ conn'.sock = IF view.active = "none" THEN "none" ELSE "connecting"
    BY DEF V!Show, V!NoConn, V!Connecting, Conns, V!MaxReconnectAttempts
  <1>3. RequestsOK'
    BY DEF V!Show, ViewerOK, RequestsOK
  <1> QED
    BY <1>1, <1>2, <1>3, SocketStep DEF V!Show, ViewerOK

\* The session that a request created comes on view, and the next is asked for.
LEMMA SessionCreatedStep ==
    ASSUME ViewerOK, NEW c \in calls, V!CreateAnswer(c) PROVE ViewerOK'
  <1>1. c \in Requests /\ c.of \in Sessions /\ c.kind = "create"
        /\ \A d \in calls : d.kind = "create" => d = c
    BY DEF ViewerOK, RequestsOK, Requests, V!CreateAnswer
  <1>2. CASE c.res = "failed"
    <2>1. match' \in Matches
      <3>1. match' = [match EXCEPT !.queue = <<>>] /\ <<>> \in Seq(Sessions)
        BY <1>2 DEF V!CreateAnswer
      <3> QED
        BY <3>1 DEF ViewerOK, Matches
    <2>2. RequestsOK'
      BY <1>1, <1>2 DEF V!CreateAnswer, ViewerOK, RequestsOK
    <2>3. OwnView(view') /\ view'.active = view.active /\ view'.turns = view.turns
          /\ view'.card = view.card
      BY <1>2 DEF V!CreateAnswer, ViewerOK, OwnView, Views, V!Statuses
    <2> QED
      BY <1>2, <2>1, <2>2, <2>3, QuietStep DEF V!CreateAnswer, ViewerOK
  <1>3. CASE c.res # "failed"
    <2> DEFINE rest == Tail(match.queue)
               w == V!SetActive(view, c.of)
    <2>1. match.queue \in Seq(Sessions) /\ match.queue # <<>>
      BY <1>1 DEF ViewerOK, RequestsOK, Matches
    <2>2. rest \in Seq(Sessions) /\ (rest # <<>> => Head(rest) \in Sessions)
      BY <2>1
    <2>3. /\ match' = [match EXCEPT !.queue = rest]
          /\ calls' = IF rest = <<>> THEN calls \ {c} ELSE V!Create(Head(rest)) \ {c}
          /\ view' = IF rest = <<>> THEN w ELSE [w EXCEPT !.status = "creating"]
          /\ conn' = IF shown THEN V!Conn(c.of) ELSE conn
          /\ UNCHANGED <<session, listed, shown>>
      BY <1>3, Zenon DEF V!CreateAnswer
    <2>4. OwnView(w) /\ w.active = c.of /\ (view.active = c.of => w = view)
      BY <1>1, SetActiveIsOwn, SetActiveKeeps DEF ViewerOK
    <2> HIDE DEF rest, w
    <2>5. match' \in Matches /\ match'.queue = rest
      BY <2>2, <2>3 DEF ViewerOK, Matches
    <2>6. OwnView(view') /\ view'.active = c.of /\ view'.turns = w.turns
          /\ view'.card = w.card
      BY <2>3, <2>4 DEF OwnView, Views, V!Statuses
    <2>7. RequestsOK'
      <3>1. CASE rest = <<>>
        BY <1>1, <2>3, <3>1 DEF ViewerOK, RequestsOK
      <3>2. CASE rest # <<>>
        <4> DEFINE e == [kind |-> "create", of |-> Head(rest), res |-> "sent"]
        <4>1. e \in Requests /\ calls' = (calls \cup {e}) \ {c}
          BY <2>2, <2>3, <3>2 DEF Requests, V!Create
        <4> HIDE DEF e
        <4> QED
          BY <1>1, <2>5, <3>2, <4>1 DEF ViewerOK, RequestsOK
      <3> QED
        BY <3>1, <3>2
    <2>8. CASE shown
      BY <1>1, <2>3, <2>4, <2>5, <2>6, <2>7, <2>8, OpenStep
    <2>9. CASE ~shown
      <3>1. conn' = conn /\ conn \in Conns /\ conn.sock = "none"
        BY <2>3, <2>9 DEF ViewerOK, ConnOK
      <3> QED
        BY <2>3, <2>5, <2>6, <2>7, <2>9, <3>1, SocketStep DEF ViewerOK
    <2> QED
      BY <2>8, <2>9
  <1> QED
    BY <1>2, <1>3

LEMMA ViewerStep == ASSUME ViewerOK, V!Next PROVE ViewerOK'
  <1>1. CASE V!Hide \/ V!Show
    BY <1>1, HideStep, ShowStep
  <1>2. CASE V!Connect \/ V!Drop \/ V!Reconnect \/ V!Deliver \/ V!FetchTurns
    BY <1>2, ConnectStep, DropStep, ReconnectStep, DeliverStep, FetchTurnsStep
  <1>3. CASE V!PollSessions \/ V!Close \/ V!FindMatch \/ V!MatchAnswer \/ V!Start
    BY <1>3, PollSessionsStep, ViewCloseStep, FindMatchStep, MatchAnswerStep, StartStep
  <1>4. ASSUME NEW s \in Sessions,
               \/ V!Advance(s) \/ V!PartnerVotes(s) \/ V!Select(s)
               \/ V!OpenNotified(s) \/ V!ToggleMatch(s)
        PROVE  ViewerOK'
    BY <1>4, AdvanceStep, PartnerVotesStep, SelectStep, OpenNotifiedStep, ToggleMatchStep
  <1>5. ASSUME NEW s \in Sessions, NEW kind \in V!Kinds, V!Ask(kind, s)
        PROVE  ViewerOK'
    BY <1>5, AskStep
  <1>6. ASSUME NEW c \in calls, V!Serve(c) \/ V!Return(c) \/ V!CreateAnswer(c)
        PROVE  ViewerOK'
    BY <1>6, ServeStep, ReturnStep, SessionCreatedStep
  <1> QED
    BY <1>1, <1>2, <1>3, <1>4, <1>5, <1>6 DEF V!Next

-----------------------------------------------------------------------------
(* The room on screen *)

\* A room comes to be on screen, or goes.
LEMMA EnteredIsOK ==
    ASSUME NEW q, RoomOK(q), q.mounted, NEW p \in Peers
    PROVE  LET w == C!Entered(q, p) IN
           /\ RoomOK(w) /\ w.room = p /\ w.target = q.target /\ w.mounted = q.mounted
  <1>1. CASE q.room = p
    BY <1>1 DEF C!Entered
  <1>2. CASE q.room # p
    <2> DEFINE w == C!Entered(q, p)
    <2>1. w = [q EXCEPT !.room = p, !.open = p, !.sock = "open", !.at = 0,
                   !.base = <<>>, !.polled = FALSE, !.unread[p] = 0]
      BY <1>2 DEF C!Entered
    <2>2. p \in SomePeer /\ p # "none" /\ <<>> \in Seq(Msgs) /\ q.unread \in [Peers -> Nat]
      BY NamesAssumption DEF SomePeer, RoomOK, Panels
    <2> HIDE DEF w
    <2>3. /\ w.room = p /\ w.open = p /\ w.sock = "open" /\ w.base = <<>>
          /\ w.live = q.live /\ w.seen = q.seen /\ w.mounted = q.mounted
          /\ w.target = q.target /\ w.unread = [q.unread EXCEPT ![p] = 0]
      BY <2>1 DEF RoomOK, Panels
    <2>4. w \in Panels
      <3>1. [q.unread EXCEPT ![p] = 0] \in [Peers -> Nat]
        BY <2>2
      <3>2. w = [q EXCEPT !.room = p, !.open = p, !.sock = "open", !.at = 0,
                   !.base = <<>>, !.polled = FALSE, !.unread = [q.unread EXCEPT ![p] = 0]]
        BY <2>1 DEF RoomOK, Panels
      <3> QED
        BY <2>2, <3>1, <3>2 DEF RoomOK, Panels
    <2>5. w.unread[p] = 0
      BY <2>2, <2>3
    <2>6. RoomOK(w)
      BY <2>2, <2>3, <2>4, <2>5 DEF RoomOK
    <2> QED
      BY <2>3, <2>6 DEF w
  <1> QED
    BY <1>1, <1>2

LEMMA ExitedIsOK ==
    ASSUME NEW q, RoomOK(q)
    PROVE  LET w == C!Exited(q) IN
           /\ RoomOK(w) /\ w.room = "none" /\ w.target = q.target /\ w.mounted = q.mounted
  <1> DEFINE w == C!Exited(q)
  <1>1. w = [target |-> q.target, room |-> "none", open |-> "none", mounted |-> q.mounted,
             unread |-> q.unread, base |-> <<>>, polled |-> FALSE, live |-> <<>>,
             seen |-> {}, sock |-> "none", at |-> 0]
    <2> DEFINE zero == [p \in Peers |-> 0]
               r == C!NoRoom
    <2>1. r = [target |-> "none", room |-> "none", open |-> "none", mounted |-> TRUE,
               unread |-> zero, base |-> <<>>, polled |-> FALSE, live |-> <<>>,
               seen |-> {}, sock |-> "none", at |-> 0]
      BY Zenon DEF C!NoRoom
    <2>2. w = [r EXCEPT !.target = q.target, !.mounted = q.mounted, !.unread = q.unread]
      BY DEF C!Exited
    <2> HIDE DEF zero, r, w
    <2> QED
      BY <2>1, <2>2
  <1>2. "none" \in SomePeer /\ <<>> \in Seq(Msgs)
    BY DEF SomePeer
  <1> HIDE DEF w
  <1>3. w \in Panels
    BY <1>1, <1>2 DEF RoomOK, Panels
  <1>4. RoomOK(w) /\ w.room = "none" /\ w.target = q.target /\ w.mounted = q.mounted
    BY <1>1, <1>3 DEF RoomOK
  <1> QED
    BY <1>4 DEF w

\* The panel changes, but for what RoomOK says of a room.
LEMMA TargetIsFree ==
    ASSUME NEW q, RoomOK(q), NEW p \in SomePeer
    PROVE  LET w == [q EXCEPT !.target = p] IN
           RoomOK(w) /\ w.target = p /\ w.room = q.room /\ w.mounted = q.mounted
  <1> DEFINE w == [q EXCEPT !.target = p]
  <1>1. w \in Panels /\ w.target = p /\ w.room = q.room /\ w.mounted = q.mounted
        /\ w.open = q.open /\ w.unread = q.unread /\ w.sock = q.sock /\ w.base = q.base
        /\ w.live = q.live /\ w.seen = q.seen
    BY DEF RoomOK, Panels
  <1> HIDE DEF w
  <1>2. RoomOK(w)
    BY <1>1 DEF RoomOK
  <1> QED
    BY <1>1, <1>2 DEF w

\* A message of the socket is kept unless it was there.
LEMMA MessageIsKept ==
    ASSUME NEW q, RoomOK(q), NEW m \in Msgs
    PROVE  LET w == C!Heard(q, m) IN
           RoomOK(w) /\ w.target = q.target /\ w.room = q.room /\ w.mounted = q.mounted
  <1>1. CASE m \in q.seen
    BY <1>1 DEF C!Heard
  <1>2. CASE m \notin q.seen
    <2> DEFINE w == C!Heard(q, m)
               live == Append(q.live, m)
               seen == q.seen \cup {m}
    <2>1. w = [q EXCEPT !.live = live, !.seen = seen]
      BY <1>2 DEF C!Heard
    <2>2. q.live \in Seq(Msgs) /\ live \in Seq(Msgs) /\ seen \in SUBSET Msgs
          /\ Len(live) = Len(q.live) + 1 /\ live[Len(q.live) + 1] = m
          /\ \A i \in 1 .. Len(q.live) : live[i] = q.live[i]
      BY DEF RoomOK, Panels
    <2>3. \A i, j \in 1 .. Len(live) : live[i] = live[j] => i = j
      <3> HIDE DEF live
      <3>1. \A i \in 1 .. Len(live) : i \in 1 .. Len(q.live) \/ i = Len(q.live) + 1
        BY <2>2
      <3>2. \A i \in 1 .. Len(q.live) : q.live[i] # m
        BY <1>2 DEF RoomOK
      <3> QED
        BY <2>2, <3>1, <3>2 DEF RoomOK
    <2>4. \A i \in 1 .. Len(live) : live[i] \in seen
      <3> HIDE DEF live
      <3>1. \A i \in 1 .. Len(live) : i \in 1 .. Len(q.live) \/ i = Len(q.live) + 1
        BY <2>2
      <3> QED
        BY <2>2, <3>1 DEF RoomOK
    <2> HIDE DEF w, live, seen
    <2>5. w \in Panels /\ w.live = live /\ w.seen = seen /\ w.target = q.target
          /\ w.room = q.room /\ w.mounted = q.mounted /\ w.open = q.open
          /\ w.unread = q.unread /\ w.sock = q.sock /\ w.base = q.base
      BY <2>1, <2>2 DEF RoomOK, Panels
    <2>6. RoomOK(w)
      BY <2>3, <2>4, <2>5 DEF RoomOK
    <2> QED
      BY <2>5, <2>6 DEF w
  <1> QED
    BY <1>1, <1>2

\* What a poll returns: messages of the room, each once.
LEMMA PolledPage ==
    ASSUME GatewayOK, NEW p \in Peers
    PROVE  /\ C!Page(p) \in Seq(Msgs)
           /\ \A i, j \in 1 .. Len(C!Page(p)) : C!Page(p)[i] = C!Page(p)[j] => i = j
  <1> DEFINE n == C!Min({Len(msgs[p]), Limit})
  <1>1. Len(msgs[p]) \in Nat /\ Limit \in Nat
    BY SizesAssumption DEF GatewayOK
  <1>2. n \in Nat
    <2>1. \E x \in {Len(msgs[p]), Limit} : \A y \in {Len(msgs[p]), Limit} : x <= y
      BY <1>1
    <2>2. n \in {Len(msgs[p]), Limit}
      BY <2>1 DEF C!Min
    <2> QED
      BY <1>1, <2>2
  <1>3. C!Page(p) = [i \in 1 .. n |-> [of |-> p, n |-> i]]
    BY DEF C!Page
  <1> HIDE DEF n
  <1>4. \A i \in 1 .. n : [of |-> p, n |-> i] \in Msgs
    BY <1>2 DEF Msgs
  <1>5. C!Page(p) \in Seq(Msgs) /\ Len(C!Page(p)) = n
    BY <1>2, <1>3, <1>4
  <1> DEFINE g == C!Page(p)
  <1>6. Len(g) = n /\ \A i \in 1 .. n : g[i] = [of |-> p, n |-> i]
    BY <1>3, <1>5
  <1> HIDE DEF g
  <1>7. \A i \in 1 .. n : g[i].n = i
    BY <1>6
  <1>8. \A i, j \in 1 .. Len(g) : g[i] = g[j] => i = j
    BY <1>6, <1>7
  <1> QED
    BY <1>5, <1>8 DEF g

\* A message of the list and of the socket is shown once.
LEMMA ShowsOnce ==
    ASSUME NEW q, RoomOK(q) PROVE C!IsInjective(C!Shown(q))
  <1> DEFINE kept == C!Without(q.live, C!ToSet(q.base))
             all == q.base \o kept
  <1>1. q.base \in Seq(Msgs) /\ q.live \in Seq(Msgs)
    BY DEF RoomOK, Panels
  <1>2. /\ kept \in Seq(Msgs)
        /\ \E h : Thins(kept, q.live, Len(q.live), C!ToSet(q.base), h)
    <2>1. kept = Without(q.live, C!ToSet(q.base))
      BY DEF C!Without, Without
    <2> QED
      BY <1>1, <2>1, WithoutIs
  <1> HIDE DEF kept
  <1>3. PICK h : Thins(kept, q.live, Len(q.live), C!ToSet(q.base), h)
    BY <1>2
  <1>4. \A i, j \in 1 .. Len(kept) : kept[i] = kept[j] => i = j
    <2>1. ASSUME NEW i \in 1 .. Len(kept), NEW j \in 1 .. Len(kept), kept[i] = kept[j]
          PROVE  i = j
      <3>1. h[i] \in 1 .. Len(q.live) /\ h[j] \in 1 .. Len(q.live)
            /\ kept[i] = q.live[h[i]] /\ kept[j] = q.live[h[j]]
        BY <1>3 DEF Thins
      <3>2. h[i] = h[j]
        BY <2>1, <3>1 DEF RoomOK
      <3> QED
        BY <1>3, <3>2 DEF Thins
    <2> QED
      BY <2>1
  <1>5. \A i \in 1 .. Len(q.base) : \A j \in 1 .. Len(kept) : q.base[i] # kept[j]
    <2>1. \A i \in 1 .. Len(q.base) : q.base[i] \in C!ToSet(q.base)
      BY <1>1 DEF C!ToSet
    <2> QED
      BY <2>1, <1>3 DEF Thins
  <1>6. /\ DOMAIN all = 1 .. Len(q.base) + Len(kept)
        /\ \A i \in 1 .. Len(q.base) + Len(kept) :
             all[i] = IF i <= Len(q.base) THEN q.base[i] ELSE kept[i - Len(q.base)]
    BY <1>1, <1>2
  <1> HIDE DEF all
  <1>7. ASSUME NEW i \in DOMAIN all, NEW j \in DOMAIN all, all[i] = all[j] PROVE i = j
    <2>1. Len(q.base) \in Nat /\ Len(kept) \in Nat
      BY <1>1, <1>2
    <2>2. \A k \in DOMAIN all :
            \/ k \in 1 .. Len(q.base) /\ all[k] = q.base[k]
            \/ /\ k \notin 1 .. Len(q.base) /\ k - Len(q.base) \in 1 .. Len(kept)
               /\ all[k] = kept[k - Len(q.base)]
      BY <1>6, <2>1
    <2>3. CASE i \in 1 .. Len(q.base) /\ j \in 1 .. Len(q.base)
      BY <1>7, <2>2, <2>3 DEF RoomOK
    <2>4. CASE i \notin 1 .. Len(q.base) /\ j \notin 1 .. Len(q.base)
      <3>1. i - Len(q.base) = j - Len(q.base)
        BY <1>4, <1>7, <2>2, <2>4
      <3> QED
        BY <1>6, <2>1, <3>1
    <2>5. CASE (i \in 1 .. Len(q.base)) # (j \in 1 .. Len(q.base))
      BY <1>5, <1>7, <2>2, <2>5
    <2> QED
      BY <2>3, <2>4, <2>5
  <1> QED
    BY <1>7 DEF C!IsInjective, C!Shown, all, kept

-----------------------------------------------------------------------------
(* The steps of the chat *)

\* What OpensTheTarget says of a step.
Targeted ==
    panel'.room \notin {panel.room, "none"} /\ panel'.target # "none"
        => panel'.room = panel'.target

\* The requests for a room after one more.
LEMMA AskedIsOK ==
    ASSUME AskingOK, NEW p \in Peers
    PROVE  C!Asked(p) \in SUBSET [to : Peers, last : BOOLEAN]
           /\ \A c \in C!Asked(p) : c.last => c.to = p
  <1>1. \A c \in asked : LET e == [c EXCEPT !.last = FALSE] IN
            e \in [to : Peers, last : BOOLEAN] /\ ~e.last
    BY DEF AskingOK
  <1>2. [to |-> p, last |-> TRUE] \in [to : Peers, last : BOOLEAN]
    OBVIOUS
  <1>3. ASSUME NEW c \in C!Asked(p)
        PROVE  c \in [to : Peers, last : BOOLEAN] /\ (c.last => c.to = p)
    <2>1. CASE c = [to |-> p, last |-> TRUE]
      BY <1>2, <2>1
    <2>2. ASSUME NEW d \in asked, c = [d EXCEPT !.last = FALSE]
          PROVE  c \in [to : Peers, last : BOOLEAN] /\ (c.last => c.to = p)
      BY <1>1, <2>2
    <2> QED
      BY <2>1, <2>2 DEF C!Asked
  <1> QED
    BY <1>3

LEMMA PickPeerStep ==
    ASSUME ChatOK, NEW p \in Peers, C!Pick(p)
    PROVE  ChatOK' /\ panel'.mounted = panel.mounted /\ Targeted
  <1>1. p \in SomePeer /\ p # "none"
    BY NamesAssumption DEF SomePeer
  <1>2. RoomOK(panel') /\ panel'.target = p /\ panel'.room = panel.room
        /\ panel'.mounted = panel.mounted
    BY <1>1, TargetIsFree DEF C!Pick, ChatOK
  <1>3. asked' = IF panel.mounted THEN C!Asked(p) ELSE asked
    BY DEF C!Pick
  <1>4. AskingOK'
    BY <1>2, <1>3, AskedIsOK DEF ChatOK, AskingOK
  <1>5. GatewayOK' /\ RoomOK(panel)'
    BY <1>2 DEF ChatOK, GatewayOK, C!Pick, C!gateway, RoomOK
  <1> QED
    BY <1>2, <1>4, <1>5 DEF ChatOK, Targeted

\* The panel changes, the gateway does not.
LEMMA PanelStep ==
    ASSUME ChatOK, UNCHANGED C!gateway, RoomOK(panel'), AskingOK'
    PROVE  ChatOK'
  <1>1. GatewayOK' /\ RoomOK(panel)'
    BY DEF ChatOK, GatewayOK, C!gateway, RoomOK
  <1> QED
    BY <1>1 DEF ChatOK

LEMMA RoomAnswerStep ==
    ASSUME ChatOK, NEW c \in asked, C!RoomAnswer(c)
    PROVE  ChatOK' /\ panel'.mounted = panel.mounted /\ Targeted
  <1>1. c.to \in Peers /\ panel.mounted /\ RoomOK(panel)
        /\ (c.last /\ panel.target # "none" => c.to = panel.target)
    BY DEF ChatOK, AskingOK
  <1>2. CASE panel' = panel
    <2>1. AskingOK'
      BY <1>2 DEF C!RoomAnswer, ChatOK, AskingOK
    <2> QED
      BY <1>1, <1>2, <2>1, PanelStep DEF C!RoomAnswer, Targeted
  <1>3. CASE panel' = C!Entered(panel, c.to) /\ c.last
    <2>1. RoomOK(panel') /\ panel'.room = c.to /\ panel'.target = panel.target
          /\ panel'.mounted = panel.mounted
      BY <1>1, <1>3, EnteredIsOK
    <2>2. AskingOK'
      BY <2>1 DEF C!RoomAnswer, ChatOK, AskingOK
    <2> QED
      BY <1>1, <1>3, <2>1, <2>2, PanelStep DEF C!RoomAnswer, Targeted
  <1> QED
    BY <1>2, <1>3 DEF C!RoomAnswer, C!IsHeard

LEMMA OpenListedStep ==
    ASSUME ChatOK, NEW p \in Peers, C!OpenListed(p)
    PROVE  ChatOK' /\ panel'.mounted = panel.mounted /\ Targeted
  <1>1. RoomOK(panel') /\ panel'.target = "none" /\ panel'.mounted = panel.mounted
    BY EnteredIsOK DEF C!OpenListed, ChatOK
  <1>2. AskingOK'
    BY <1>1 DEF C!OpenListed, ChatOK, AskingOK
  <1> QED
    BY <1>1, <1>2, PanelStep DEF C!OpenListed, Targeted

LEMMA BackStep ==
    ASSUME ChatOK, C!Back PROVE ChatOK' /\ panel'.mounted = panel.mounted /\ Targeted
  <1> DEFINE w == C!Exited(panel)
  <1>1. RoomOK(w) /\ w.room = "none" /\ w.mounted = panel.mounted
    BY ExitedIsOK DEF ChatOK
  <1>2. panel' = [w EXCEPT !.target = "none"] /\ "none" \in SomePeer
    BY DEF C!Back, SomePeer
  <1> HIDE DEF w
  <1>3. RoomOK(panel') /\ panel'.room = "none" /\ panel'.target = "none"
        /\ panel'.mounted = panel.mounted
    BY <1>1, <1>2, TargetIsFree
  <1>4. AskingOK'
    BY <1>3 DEF C!Back, ChatOK, AskingOK
  <1> QED
    BY <1>3, <1>4, PanelStep DEF C!Back, Targeted

LEMMA UnmountStep ==
    ASSUME ChatOK, C!Unmount PROVE ChatOK' /\ panel'.mounted = FALSE /\ Targeted
  <1> DEFINE w == C!Exited(panel)
  <1>1. RoomOK(w) /\ w.room = "none"
    BY ExitedIsOK DEF ChatOK
  <1>2. panel' = [w EXCEPT !.mounted = FALSE]
    BY DEF C!Unmount
  <1> HIDE DEF w
  <1>3. panel' \in Panels /\ panel'.room = "none" /\ panel'.mounted = FALSE
        /\ panel'.open = w.open /\ panel'.unread = w.unread /\ panel'.sock = w.sock
        /\ panel'.base = w.base /\ panel'.live = w.live /\ panel'.seen = w.seen
    BY <1>1, <1>2 DEF RoomOK, Panels
  <1>4. RoomOK(panel')
    BY <1>1, <1>3 DEF RoomOK
  <1>5. AskingOK'
    BY DEF C!Unmount, AskingOK
  <1> QED
    BY <1>3, <1>4, <1>5, PanelStep DEF C!Unmount, Targeted

LEMMA MountStep ==
    ASSUME ChatOK, C!Mount PROVE ChatOK' /\ panel'.mounted = TRUE /\ Targeted
  <1>1. RoomOK(panel) /\ panel' = [panel EXCEPT !.mounted = TRUE]
    BY DEF C!Mount, ChatOK
  <1>2. panel' \in Panels /\ panel'.mounted /\ panel'.room = panel.room
        /\ panel'.target = panel.target /\ panel.target \in SomePeer
        /\ panel'.open = panel.open /\ panel'.unread = panel.unread
        /\ panel'.sock = panel.sock /\ panel'.base = panel.base
        /\ panel'.live = panel.live /\ panel'.seen = panel.seen
    BY <1>1 DEF RoomOK, Panels
  <1>3. RoomOK(panel')
    BY <1>1, <1>2 DEF RoomOK
  <1>4. AskingOK'
    <2>1. CASE panel.target = "none"
      BY <2>1, <1>2 DEF C!Mount, AskingOK
    <2>2. CASE panel.target # "none"
      <3>1. panel.target \in Peers /\ asked' = C!Asked(panel.target)
        BY <1>2, <2>2 DEF C!Mount, SomePeer
      <3> QED
        BY <1>2, <3>1, AskedIsOK DEF ChatOK, AskingOK
    <2> QED
      BY <2>1, <2>2
  <1> QED
    BY <1>2, <1>3, <1>4, PanelStep DEF C!Mount, Targeted

\* The room on screen changes, but not which.
LEMMA RoomStep ==
    ASSUME ChatOK, UNCHANGED <<C!gateway, asked>>, RoomOK(panel'),
           panel'.target = panel.target, panel'.room = panel.room,
           panel'.mounted = panel.mounted
    PROVE  ChatOK' /\ panel'.mounted = panel.mounted /\ Targeted
  <1>1. AskingOK'
    BY DEF ChatOK, AskingOK
  <1> QED
    BY <1>1, PanelStep DEF Targeted

LEMMA PollStep ==
    ASSUME ChatOK, C!Poll PROVE ChatOK' /\ panel'.mounted = panel.mounted /\ Targeted
  <1> DEFINE page == C!Page(panel.room)
  <1>1. panel.room \in Peers /\ RoomOK(panel) /\ GatewayOK
    BY DEF C!Poll, ChatOK, RoomOK, Panels, SomePeer
  <1>2. page \in Seq(Msgs) /\ \A i, j \in 1 .. Len(page) : page[i] = page[j] => i = j
    BY <1>1, PolledPage
  <1>3. panel' = [panel EXCEPT !.base = page, !.polled = TRUE]
    BY DEF C!Poll, C!Polled
  <1> HIDE DEF page
  <1>4. panel' \in Panels /\ panel'.base = page /\ panel'.target = panel.target
        /\ panel'.room = panel.room /\ panel'.mounted = panel.mounted
        /\ panel'.open = panel.open /\ panel'.unread = panel.unread
        /\ panel'.sock = panel.sock /\ panel'.live = panel.live /\ panel'.seen = panel.seen
    BY <1>1, <1>2, <1>3 DEF RoomOK, Panels
  <1>5. RoomOK(panel')
    BY <1>1, <1>2, <1>4 DEF RoomOK
  <1> QED
    BY <1>4, <1>5, RoomStep DEF C!Poll

LEMMA ChatDeliverStep ==
    ASSUME ChatOK, C!Deliver PROVE ChatOK' /\ panel'.mounted = panel.mounted /\ Targeted
  <1> DEFINE p == panel.room
             n == panel.at + 1
             q == [panel EXCEPT !.at = n]
             m == [of |-> p, n |-> stream[p][panel.at + 1]]
  <1>1. p \in Peers /\ RoomOK(panel) /\ panel.at \in Nat
        /\ stream[p] \in Seq(Nat) /\ panel.at < Len(stream[p])
    BY DEF C!Deliver, ChatOK, GatewayOK, RoomOK, Panels, SomePeer
  <1>2. m \in Msgs
    BY <1>1 DEF Msgs
  <1>0. n \in Nat /\ panel \in Panels
    BY <1>1 DEF RoomOK
  <1> HIDE DEF n, m
  <1>3. q \in Panels /\ q.target = panel.target /\ q.room = panel.room
        /\ q.mounted = panel.mounted /\ q.open = panel.open /\ q.unread = panel.unread
        /\ q.sock = panel.sock /\ q.base = panel.base /\ q.live = panel.live
        /\ q.seen = panel.seen
    BY <1>0 DEF Panels
  <1>4. panel' = C!Heard(q, m)
    BY DEF C!Deliver, n, m
  <1> HIDE DEF q, p
  <1>5. RoomOK(q)
    BY <1>1, <1>3 DEF RoomOK
  <1>6. RoomOK(panel') /\ panel'.target = q.target /\ panel'.room = q.room
        /\ panel'.mounted = q.mounted
    BY <1>2, <1>4, <1>5, MessageIsKept
  <1> QED
    BY <1>3, <1>6, RoomStep DEF C!Deliver

LEMMA ChatDropStep ==
    ASSUME ChatOK, C!Drop PROVE ChatOK' /\ panel'.mounted = panel.mounted /\ Targeted
  <1>1. RoomOK(panel) /\ panel' = [panel EXCEPT !.sock = "closed"] /\ panel.sock = "open"
    BY DEF C!Drop, ChatOK
  <1>2. panel' \in Panels /\ panel'.sock = "closed" /\ panel'.target = panel.target
        /\ panel'.room = panel.room /\ panel'.mounted = panel.mounted
        /\ panel'.open = panel.open /\ panel'.unread = panel.unread
        /\ panel'.base = panel.base /\ panel'.live = panel.live /\ panel'.seen = panel.seen
    BY <1>1 DEF RoomOK, Panels
  <1>3. RoomOK(panel')
    BY <1>1, <1>2 DEF RoomOK
  <1> QED
    BY <1>2, <1>3, RoomStep DEF C!Drop

LEMMA NoticeStep ==
    ASSUME ChatOK, C!Receive PROVE ChatOK' /\ panel'.mounted = panel.mounted /\ Targeted
  <1> DEFINE p == Head(notices)
  <1>1. p \in Peers /\ notices' \in Seq(Peers) /\ RoomOK(panel)
        /\ UNCHANGED <<msgs, stream, due, asked>>
    BY DEF C!Receive, ChatOK, GatewayOK
  <1>2. panel' = panel \/ (p # panel.open /\ panel' = [panel EXCEPT !.unread[p] = @ + 1])
    BY DEF C!Receive
  <1> HIDE DEF p
  <1>3. RoomOK(panel') /\ panel'.target = panel.target /\ panel'.room = panel.room
        /\ panel'.mounted = panel.mounted
    <2>1. CASE panel' = panel
      BY <1>1, <2>1
    <2>2. CASE p # panel.open /\ panel' = [panel EXCEPT !.unread[p] = @ + 1]
      <3> DEFINE u == [panel.unread EXCEPT ![p] = @ + 1]
      <3>1. panel.unread \in [Peers -> Nat] /\ panel.open \in SomePeer
        BY <1>1 DEF RoomOK, Panels
      <3>2. u \in [Peers -> Nat] /\ \A r \in Peers : r # p => u[r] = panel.unread[r]
        BY <1>1, <3>1
      <3>3. panel' = [panel EXCEPT !.unread = u]
        BY <1>1, <2>2 DEF RoomOK, Panels
      <3> HIDE DEF u
      <3>4. panel' \in Panels /\ panel'.unread = u /\ panel'.target = panel.target
            /\ panel'.room = panel.room /\ panel'.mounted = panel.mounted
            /\ panel'.open = panel.open /\ panel'.sock = panel.sock
            /\ panel'.base = panel.base /\ panel'.live = panel.live
            /\ panel'.seen = panel.seen
        BY <1>1, <3>2, <3>3 DEF RoomOK, Panels
      <3>5. panel.open # "none" => u[panel.open] = 0
        BY <1>1, <2>2, <3>1, <3>2 DEF RoomOK, SomePeer
      <3>6. RoomOK(panel')
        BY <1>1, <3>4, <3>5 DEF RoomOK
      <3> QED
        BY <3>4, <3>6
    <2> QED
      BY <1>2, <2>1, <2>2
  <1>4. GatewayOK' /\ AskingOK' /\ RoomOK(panel)'
    BY <1>1, <1>3 DEF ChatOK, GatewayOK, AskingOK, RoomOK
  <1> QED
    BY <1>3, <1>4 DEF ChatOK, Targeted

\* The gateway's writers leave the page alone.
LEMMA WriterStep ==
    ASSUME ChatOK, GatewayOK', UNCHANGED <<asked, panel>>
    PROVE  ChatOK' /\ panel'.mounted = panel.mounted /\ Targeted
  <1>1. AskingOK' /\ RoomOK(panel)'
    BY DEF ChatOK, AskingOK, RoomOK
  <1> QED
    BY <1>1 DEF ChatOK, Targeted

LEMMA SaveStep ==
    ASSUME ChatOK, NEW p \in Peers, NEW who \in {"me", p}, C!Save(p, who)
    PROVE  ChatOK' /\ panel'.mounted = panel.mounted /\ Targeted
  <1> DEFINE n == Len(msgs[p]) + 1
             d == [of |-> p, n |-> n, added |-> FALSE]
             a == Append(msgs[p], who)
  <1>1. msgs' = [msgs EXCEPT ![p] = a] /\ due' = due \cup {d}
        /\ UNCHANGED <<stream, notices, asked, panel>>
    BY DEF C!Save
  <1>2. GatewayOK
    BY DEF ChatOK
  <1>3. msgs[p] \in Seq({"me", p}) /\ msgs[p] \in Seq(Peers \cup {"me"})
    BY <1>2 DEF GatewayOK
  <1>4. a \in Seq({"me", p}) /\ a \in Seq(Peers \cup {"me"}) /\ Len(a) = n
        /\ n \in Nat /\ n \in 1 .. n /\ Len(msgs[p]) \in Nat /\ n = Len(msgs[p]) + 1
    BY <1>3
  <1>5. d \in Dues /\ d.of = p /\ d.n = n
    BY <1>4 DEF Dues
  <1> HIDE DEF n, d, a
  <1>6. msgs' \in [Peers -> Seq(Peers \cup {"me"})]
        /\ \A r \in Peers : msgs'[r] = IF r = p THEN a ELSE msgs[r]
    BY <1>1, <1>2, <1>4 DEF GatewayOK
  <1>7. \A r \in Peers : 1 .. Len(msgs[r]) \subseteq 1 .. Len(msgs'[r])
    <2>1. ASSUME NEW r \in Peers PROVE 1 .. Len(msgs[r]) \subseteq 1 .. Len(msgs'[r])
      <3>1. CASE r = p
        <4>1. Len(msgs'[r]) = Len(msgs[p]) + 1
          BY <1>4, <1>6, <3>1
        <4> QED
          BY <1>4, <3>1, <4>1
      <3>2. CASE r # p
        BY <1>6, <3>2
      <3> QED
        BY <3>1, <3>2
    <2> QED
      BY <2>1
  <1>8. \A r \in Peers : msgs'[r] \in Seq({"me", r})
    BY <1>2, <1>4, <1>6 DEF GatewayOK
  <1>9. due' \in SUBSET Dues /\ \A e \in due' : e.n \in 1 .. Len(msgs'[e.of])
    <2>1. due' \in SUBSET Dues
      BY <1>1, <1>2, <1>5 DEF GatewayOK
    <2>2. ASSUME NEW e \in due PROVE e.n \in 1 .. Len(msgs'[e.of])
      <3>1. e.of \in Peers /\ e.n \in 1 .. Len(msgs[e.of])
        BY <1>2 DEF GatewayOK, Dues
      <3> QED
        BY <1>7, <3>1
    <2>3. d.n \in 1 .. Len(msgs'[d.of])
      BY <1>4, <1>5, <1>6
    <2> QED
      BY <1>1, <2>1, <2>2, <2>3
  <1>10. \A r \in Peers : \A i \in 1 .. Len(stream'[r]) :
             stream'[r][i] \in 1 .. Len(msgs'[r])
    BY <1>1, <1>2, <1>7 DEF GatewayOK
  <1>11. GatewayOK'
    BY <1>1, <1>2, <1>6, <1>8, <1>9, <1>10 DEF GatewayOK
  <1> QED
    BY <1>1, <1>11, WriterStep

LEMMA AddStep ==
    ASSUME ChatOK, NEW d \in due, C!Add(d)
    PROVE  ChatOK' /\ panel'.mounted = panel.mounted /\ Targeted
  <1> DEFINE a == Append(stream[d.of], d.n)
             e == [d EXCEPT !.added = TRUE]
  <1>1. stream' = [stream EXCEPT ![d.of] = a] /\ due' = (due \ {d}) \cup {e}
        /\ UNCHANGED <<msgs, notices, asked, panel>>
    BY DEF C!Add
  <1>2. GatewayOK
    BY DEF ChatOK
  <1>3. d \in Dues /\ d.of \in Peers /\ d.n \in Nat /\ d.n \in 1 .. Len(msgs[d.of])
        /\ stream[d.of] \in Seq(Nat)
    BY <1>2 DEF GatewayOK, Dues
  <1>4. e \in Dues /\ e.of = d.of /\ e.n = d.n
    BY <1>3 DEF Dues
  <1>5. a \in Seq(Nat) /\ \A i \in 1 .. Len(a) : a[i] \in 1 .. Len(msgs[d.of])
    <2>1. Len(a) = Len(stream[d.of]) + 1 /\ a[Len(stream[d.of]) + 1] = d.n
          /\ \A i \in 1 .. Len(stream[d.of]) : a[i] = stream[d.of][i]
      BY <1>3
    <2>2. a \in Seq(Nat)
      BY <1>3
    <2> HIDE DEF a
    <2>3. \A i \in 1 .. Len(a) : i \in 1 .. Len(stream[d.of]) \/ i = Len(stream[d.of]) + 1
      BY <1>3, <2>1
    <2> QED
      BY <1>2, <1>3, <2>1, <2>2, <2>3 DEF GatewayOK
  <1> HIDE DEF a, e
  <1>6. stream' \in [Peers -> Seq(Nat)]
        /\ \A r \in Peers : stream'[r] = IF r = d.of THEN a ELSE stream[r]
    BY <1>1, <1>2, <1>5 DEF GatewayOK
  <1>7. \A r \in Peers : \A i \in 1 .. Len(stream'[r]) : stream'[r][i] \in 1 .. Len(msgs[r])
    BY <1>2, <1>5, <1>6 DEF GatewayOK
  <1>8. due' \in SUBSET Dues /\ \A x \in due' : x.n \in 1 .. Len(msgs[x.of])
    BY <1>1, <1>2, <1>3, <1>4 DEF GatewayOK
  <1>9. GatewayOK'
    BY <1>1, <1>2, <1>6, <1>7, <1>8 DEF GatewayOK
  <1> QED
    BY <1>1, <1>9, WriterStep

LEMMA NotifyStep ==
    ASSUME ChatOK, NEW d \in due, C!Notify(d)
    PROVE  ChatOK' /\ panel'.mounted = panel.mounted /\ Targeted
  <1>1. GatewayOK /\ d.of \in Peers
    BY DEF ChatOK, GatewayOK, Dues
  <1>2. notices' \in Seq(Peers)
    BY <1>1 DEF C!Notify, GatewayOK
  <1>3. GatewayOK'
    BY <1>1, <1>2 DEF C!Notify, GatewayOK
  <1> QED
    BY <1>3, WriterStep DEF C!Notify

LEMMA StaysStep ==
    ASSUME ChatOK, C!Stays
    PROVE  ChatOK' /\ panel'.mounted = panel.mounted /\ Targeted
  <1>1. CASE C!Back \/ C!Poll \/ C!Deliver \/ C!Drop \/ C!Receive
    BY <1>1, BackStep, PollStep, ChatDeliverStep, ChatDropStep, NoticeStep
  <1>2. CASE C!Say
    <2>1. panel.room \in Peers /\ C!Save(panel.room, "me")
      BY <1>2 DEF C!Say, C!Me, ChatOK, RoomOK, Panels, SomePeer
    <2> QED
      BY <2>1, SaveStep
  <1>3. ASSUME NEW p \in Peers, C!Pick(p) \/ C!OpenListed(p) \/ C!PeerSays(p)
        PROVE  ChatOK' /\ panel'.mounted = panel.mounted /\ Targeted
    BY <1>3, PickPeerStep, OpenListedStep, SaveStep DEF C!PeerSays
  <1>4. ASSUME NEW c \in asked, C!RoomAnswer(c)
        PROVE  ChatOK' /\ panel'.mounted = panel.mounted /\ Targeted
    BY <1>4, RoomAnswerStep
  <1>5. ASSUME NEW d \in due, C!Add(d) \/ C!Notify(d)
        PROVE  ChatOK' /\ panel'.mounted = panel.mounted /\ Targeted
    BY <1>5, AddStep, NotifyStep
  <1> QED
    BY <1>1, <1>2, <1>3, <1>4, <1>5 DEF C!Stays

-----------------------------------------------------------------------------
(* The sidebar *)

LEMMA SidebarStep ==
    ASSUME SidebarOK, [SidebarNext]_sidebarVars PROVE SidebarOK' /\ [Targeted]_chat
  <1> USE DEF SidebarOK
  <1>1. CASE V!Next /\ MovesPanel
    <2>1. ViewerOK'
      BY <1>1, ViewerStep
    <2>2. CASE There /\ ~There' /\ C!Unmount
      BY <2>1, <2>2, UnmountStep DEF There
    <2>3. CASE ~There /\ There' /\ C!Mount
      BY <2>1, <2>3, MountStep DEF There
    <2>4. CASE There' = There /\ UNCHANGED chat
      <3>1. GatewayOK' /\ RoomOK(panel)' /\ AskingOK'
        BY <2>4 DEF chat, ChatOK, GatewayOK, RoomOK, AskingOK
      <3> QED
        BY <2>1, <2>4, <3>1 DEF ChatOK, chat
    <2> QED
      BY <1>1, <2>2, <2>3, <2>4 DEF MovesPanel
  <1>2. CASE C!Stays /\ UNCHANGED viewer
    <2>1. ChatOK' /\ panel'.mounted = panel.mounted /\ Targeted
      BY <1>2, StaysStep
    <2>2. ViewerOK' /\ There' = There
      BY <1>2 DEF viewer, ViewerOK, SessionsOK, OwnView, ConnOK, ReplayOK, RequestsOK, There
    <2> QED
      BY <2>1, <2>2
  <1>3. CASE UNCHANGED sidebarVars
    <2>1. ViewerOK' /\ There' = There
      BY <1>3 DEF sidebarVars, viewer, ViewerOK, SessionsOK, OwnView, ConnOK, ReplayOK,
         RequestsOK, There
    <2>2. GatewayOK' /\ RoomOK(panel)' /\ AskingOK'
      BY <1>3 DEF sidebarVars, chat, ChatOK, GatewayOK, RoomOK, AskingOK
    <2> QED
      BY <1>3, <2>1, <2>2 DEF ChatOK, sidebarVars, chat
  <1> QED
    BY <1>1, <1>2, <1>3 DEF SidebarNext

LEMMA SidebarStarts == SidebarInit => SidebarOK
  <1> SUFFICES ASSUME SidebarInit PROVE SidebarOK
    OBVIOUS
  <1>2. ViewerOK
    <2>1. PICK scene \in Scenes : session = scene.life.session
      BY DEF SidebarInit
    <2>2. session \in [Sessions -> [phase : V!Phases, stored : Nat, stream : {<<>>},
                                    coming : Seq(V!Types), votes : {{}}]]
      BY <2>1, ScenesAssumption
    <2>3. \A s \in Sessions : session[s] \in Records /\ session[s].votes # V!Owners
                              /\ session[s].phase \in V!Phases
      <3>1. <<>> \in Seq(EventsOfStream) /\ {} # V!Owners
        BY DEF V!Owners
      <3> QED
        BY <2>2, <3>1 DEF Records
    <2>4. SessionsOK /\ listed \in [Sessions -> V!Phases]
      BY <2>2, <2>3 DEF SessionsOK, RecordOK, SidebarInit, V!Init
    <2>5. OwnView(view) /\ view.active = "none"
      BY DEF SidebarInit, V!Init, V!NoSession, V!NoCard, OwnView, Views, Cards, SomeSession,
         V!Statuses
    <2>6. conn \in Conns /\ conn.sock = "none" /\ shown = TRUE
      BY DEF SidebarInit, V!Init, V!NoConn, Conns, V!MaxReconnectAttempts
    <2>7. match \in Matches /\ calls = {}
      BY DEF SidebarInit, V!Init, V!NoMatch, Matches
    <2> QED
      BY <2>4, <2>5, <2>6, <2>7 DEF ViewerOK, ConnOK, ReplayOK, RequestsOK
  <1>3. ChatOK /\ panel.mounted = TRUE
    <2>1. panel = [target |-> "none", room |-> "none", open |-> "none", mounted |-> TRUE,
                   unread |-> [p \in Peers |-> 0], base |-> <<>>, polled |-> FALSE,
                   live |-> <<>>, seen |-> {}, sock |-> "none", at |-> 0]
      BY Zenon DEF SidebarInit, C!Init, C!NoRoom
    <2>2. panel \in Panels
      <3> DEFINE zero == [p \in Peers |-> 0]
      <3>1. zero \in [Peers -> Nat] /\ "none" \in SomePeer /\ <<>> \in Seq(Msgs)
        BY DEF SomePeer
      <3>2. panel = [target |-> "none", room |-> "none", open |-> "none", mounted |-> TRUE,
                     unread |-> zero, base |-> <<>>, polled |-> FALSE,
                     live |-> <<>>, seen |-> {}, sock |-> "none", at |-> 0]
        BY <2>1
      <3> HIDE DEF zero
      <3> QED
        BY <3>1, <3>2 DEF Panels
    <2>3. RoomOK(panel)
      BY <2>1, <2>2 DEF RoomOK
    <2>4. GatewayOK
      <3>1. msgs = [p \in Peers |-> <<>>] /\ stream = [p \in Peers |-> <<>>] /\ due = {}
            /\ notices = <<>>
        BY DEF SidebarInit, C!Init
      <3> QED
        BY <3>1 DEF GatewayOK
    <2>5. AskingOK
      BY DEF SidebarInit, C!Init, AskingOK
    <2> QED
      BY <2>1, <2>3, <2>4, <2>5 DEF ChatOK
  <1>4. There
    BY DEF SidebarInit, V!Init, V!NoSession, There
  <1> QED
    BY <1>2, <1>3, <1>4 DEF SidebarOK

\* What the steps keep is enough.
LEMMA SidebarShows == SidebarOK => SidebarInv
  <1> SUFFICES ASSUME SidebarOK PROVE SidebarInv
    OBVIOUS
  <1> USE DEF SidebarOK
  <1>2. V!TypeOK
    BY DEF ViewerOK, SessionsOK, RecordOK, Records, OwnView, Views, SomeSession, ConnOK, Conns,
       V!TypeOK
  <1>3. C!TypeOK
    <2>1. \A p \in Peers : /\ msgs[p] \in Seq({C!Me, p})
                           /\ C!ToSet(stream[p]) \subseteq 1 .. Len(msgs[p])
      <3>1. \A p \in Peers : DOMAIN stream[p] = 1 .. Len(stream[p])
        BY DEF ChatOK, GatewayOK
      <3> QED
        BY <3>1 DEF ChatOK, GatewayOK, C!Me, C!ToSet
    <2>2. \A p \in Peers : panel.unread[p] \in Nat
      BY DEF ChatOK, RoomOK, Panels
    <2>3. {panel.target, panel.room} \subseteq Peers \cup {C!None}
      BY DEF ChatOK, RoomOK, Panels, SomePeer
    <2>4. (panel.sock = "none") = (panel.room = C!None)
          /\ (panel.room # C!None => panel.mounted)
          /\ \A c \in asked : c.to \in Peers
      BY DEF ChatOK, RoomOK, AskingOK
    <2> QED
      BY <2>1, <2>2, <2>3, <2>4 DEF C!TypeOK
  <1>4. SidebarTypeOK
    BY <1>2, <1>3 DEF SidebarTypeOK, There
  <1>5. V!ShowsItsSession
    BY DEF ViewerOK, OwnView, V!ShowsItsSession
  <1>6. V!ReplayIsComplete
    <2> DEFINE events == session[view.active].stream
    <2>1. SUFFICES ASSUME conn.sock = "open", conn.at = Len(events)
                   PROVE  V!Follows(events)
      BY DEF V!ReplayIsComplete
    <2>2. events \in Seq(EventsOfStream) /\ Replayed(view, events, Len(events))
      BY <2>1, OnView DEF ViewerOK, ReplayOK
    <2> HIDE DEF events
    <2>3. DOMAIN events = 1 .. Len(events)
      BY <2>2
    <2> QED
      BY <2>2, <2>3 DEF Replayed, V!Follows
  <1>7. C!ShownOnce
    BY ShowsOnce DEF ChatOK, C!ShownOnce
  <1>8. C!OpenRoomIsRead
    BY DEF ChatOK, RoomOK, C!OpenRoomIsRead
  <1> QED
    BY <1>4, <1>5, <1>6, <1>7, <1>8 DEF SidebarInv

\* What the sidebar shows is of the session on view or of the open room, whole,
\* and each message once: for any sessions, scripts, peers and page of messages.
THEOREM SidebarInvHolds == SidebarSpec => []SidebarInv
  <1>1. SidebarSpec => []SidebarOK
    <2>1. SidebarOK /\ [SidebarNext]_sidebarVars => SidebarOK'
      BY SidebarStep
    <2> QED
      BY SidebarStarts, <2>1, PTL DEF SidebarSpec
  <1> QED
    BY <1>1, SidebarShows, PTL

\* Whatever order the answers come in, a room that opens for a target is its room.
THEOREM OpensTheTargetHolds == SidebarSpec => OpensTheTarget
  <1> DEFINE Opens == panel'.room \notin {panel.room, C!None} /\ panel'.target # C!None
                          => panel'.room = panel'.target
  <1>1. SidebarOK /\ [SidebarNext]_sidebarVars => [Opens]_C!vars
    <2>1. SUFFICES ASSUME SidebarOK, [SidebarNext]_sidebarVars PROVE [Opens]_C!vars
      OBVIOUS
    <2>2. [Targeted]_chat
      BY <2>1, SidebarStep
    <2> QED
      BY <2>2 DEF Targeted, chat, C!vars, C!gateway
  <1>2. SidebarOK /\ [SidebarNext]_sidebarVars => SidebarOK'
    BY SidebarStep
  <1> QED
    BY SidebarStarts, <1>1, <1>2, PTL DEF SidebarSpec, OpensTheTarget, C!OpensTheTarget
=============================================================================
