------------------------------- MODULE Viewer -------------------------------
(***************************************************************************)
(* The browser of one owner: the conversation viewer with its socket, the  *)
(* list of sessions, the cards that ask the owner, and the search for      *)
(* partners that starts sessions.                                          *)
(*                                                                         *)
(* The gateway replays a session's whole stream on every connection, the   *)
(* database keeps the turns, and requests are answered while the owner has *)
(* gone on to another session.                                             *)
(*                                                                         *)
(* A session at the services is a script of events that pauses for its     *)
(* owners (Session.tla has the workers); the other owner is a vote.        *)
(***************************************************************************)
EXTENDS Integers, Sequences, FiniteSets, SequencesExt

CONSTANTS
    Sessions,     \* sessions that there are, or may be started
    Lives         \* bound: what one behaviour starts with, as Init chooses: the
                  \* sessions and what is to come in them, the searches for
                  \* partners and the requests of the owner, and the faults
                  \* (lost connections, failed requests)

None == "none"
Owners == {"me", "partner"}
Phases == {"none", "active", "review", "confirm", "over"}
ToolEvents == {"pending", "user_confirmed", "user_rejected"}
Types == {"turn", "check", "final", "ended"} \cup ToolEvents

VARIABLES
    session,   \* each session at the services
    listed,    \* the phases as the list of sessions last fetched them
    view,      \* the store's part of the page, and the viewer's history
    conn,      \* the socket of the session on view
    calls,     \* requests that are not answered
    match,     \* the search for partners
    shown,     \* whether the sidebar, which holds the viewer, is on screen
    budget

vars == <<session, listed, view, conn, calls, match, shown, budget>>

NoCard == [of |-> None, state |-> "none"]
NoConn == [sock |-> "none", at |-> 0, tries |-> 0]

\* clearSession, but for the notices.  turns holds what addConversationTurn
\* appends: the viewer keeps one turn of a number.  history: the turns fetched
\* from the database.
NoSession == [active |-> None, status |-> "none", turns |-> {}, card |-> NoCard,
              check |-> None, final |-> None, history |-> {}, asking |-> FALSE,
              toasts |-> {}]
NoMatch == [status |-> "idle", pending |-> FALSE, found |-> {}, chosen |-> {},
            queue |-> <<>>]

Init ==
    /\ \E life \in Lives :
        /\ session = life.session
        /\ budget = [searches |-> life.searches, calls |-> life.calls,
                      faults |-> life.faults]
    /\ listed = [s \in Sessions |-> session[s].phase]
    /\ view = NoSession
    /\ conn = NoConn
    /\ calls = {}
    /\ match = NoMatch
    /\ shown = TRUE

Fails == /\ budget.faults > 0
         /\ budget' = [budget EXCEPT !.faults = @ - 1]

Turns(s) == {[of |-> s, n |-> n] : n \in 1 .. session[s].stored}

-----------------------------------------------------------------------------
(* The services *)

PhaseAfter(type) ==
    CASE type \in {"check", "final"} -> "review"
      [] type = "pending" -> "confirm"
      [] type = "ended" -> "over"
      [] OTHER -> "active"

\* A session after an event of a type is published on its stream.
Published(r, type) ==
    LET n == IF type = "turn" THEN r.stored + 1 ELSE r.stored IN
    [r EXCEPT !.phase = PhaseAfter(type), !.stored = n, !.votes = {},
              !.stream = Append(@, [type |-> type, n |-> n]),
              !.coming = IF type = "ended" THEN <<>> ELSE @]

Advance(s) ==
    LET r == session[s]
        type == Head(r.coming) IN
    /\ r.phase = "active" /\ r.coming # <<>>
    /\ session' = [session EXCEPT ![s] =
                     Published([r EXCEPT !.coming = Tail(@)], type)]
    /\ view' = IF type = "pending" THEN [view EXCEPT !.toasts = @ \cup {s}] ELSE view
    /\ UNCHANGED <<listed, conn, calls, match, budget, shown>>

\* A session after an owner agrees to go on: both must.
Agreed(r, owner) ==
    IF r.votes \cup {owner} = Owners
    THEN [r EXCEPT !.phase = "active", !.votes = {}]
    ELSE [r EXCEPT !.votes = @ \cup {owner}]

PartnerVotes(s) ==
    /\ session[s].phase = "review"
    /\ \/ session' = [session EXCEPT ![s] = Agreed(@, "partner")]
       \/ session' = [session EXCEPT ![s] = Published(@, "ended")]
    /\ UNCHANGED <<listed, view, conn, calls, match, budget, shown>>

-----------------------------------------------------------------------------
(* The stream of the session on view *)

\* setActiveSession, with the viewer's history and socket.
SetActive(v, s) ==
    IF v.active = s THEN v
    ELSE [v EXCEPT !.active = s, !.status = "active", !.turns = {},
                   !.card = NoCard, !.final = None,
                   !.history = {}, !.asking = TRUE]
Connecting == [NoConn EXCEPT !.sock = "connecting"]
Conn(s) == IF view.active = s THEN conn ELSE Connecting

MutantUpsert(card, s, state) ==
    IF card.of = s THEN card ELSE [of |-> s, state |-> state]
Upsert(card, s, state) == [of |-> s, state |-> state]

\* useSessionStream's handler of an event.
Heard(v, e) ==
    LET s == v.active IN
    CASE e.type = "turn" ->
           [v EXCEPT !.turns = @ \cup {[of |-> s, n |-> e.n]}]
      [] e.type = "pending" ->
           [v EXCEPT !.card = Upsert(@, s, e.type),
                     !.status = "awaiting_owner_confirmation"]
      [] e.type = "user_confirmed" ->
           [v EXCEPT !.card = Upsert(@, s, e.type), !.status = "active"]
      [] e.type = "user_rejected" -> [v EXCEPT !.card = Upsert(@, s, e.type)]
      [] e.type = "check" -> [v EXCEPT !.check = s, !.status = "awaiting_review"]
      [] e.type = "final" -> [v EXCEPT !.final = s, !.status = "awaiting_review"]
      [] e.type = "ended" -> [v EXCEPT !.status = "ended"]

\* "connected"
Connect ==
    /\ conn.sock = "connecting"
    /\ conn' = [sock |-> "open", at |-> 0, tries |-> 0]
    /\ view' = [view EXCEPT !.status = "active"]
    /\ UNCHANGED <<session, listed, calls, match, budget, shown>>

\* onclose and scheduleReconnect.
MaxReconnectAttempts == 3
MutantLost(c) == [c EXCEPT !.sock = "closed"]
Lost(c) == IF c.tries < MaxReconnectAttempts
           THEN [c EXCEPT !.sock = "waiting", !.tries = @ + 1]
           ELSE [c EXCEPT !.sock = "closed"]
Drop ==
    /\ conn.sock \in {"connecting", "open"}
    /\ Fails
    /\ conn' = Lost(conn)
    /\ UNCHANGED <<session, listed, view, calls, match, shown>>

Reconnect ==
    /\ conn.sock = "waiting"
    /\ conn' = [conn EXCEPT !.sock = "connecting"]
    /\ UNCHANGED <<session, listed, view, calls, match, budget, shown>>

Deliver ==
    LET stream == session[view.active].stream
        e == stream[conn.at + 1] IN
    /\ conn.sock = "open" /\ conn.at < Len(stream)
    /\ view' = Heard(view, e)
    /\ conn' = [conn EXCEPT !.at = @ + 1,
                            !.sock = IF e.type = "ended" THEN "closed" ELSE @]
    /\ UNCHANGED <<session, listed, calls, match, budget, shown>>

\* useSessionTurns
FetchTurns ==
    /\ view.asking /\ shown
    /\ view' = [view EXCEPT !.asking = FALSE, !.history = Turns(view.active)]
    /\ UNCHANGED <<session, listed, conn, calls, match, budget, shown>>

-----------------------------------------------------------------------------
(* The list, the inbox, and the buttons of the viewer *)

PollSessions ==
    /\ listed' = [s \in Sessions |-> session[s].phase]
    /\ UNCHANGED <<session, view, conn, calls, match, budget, shown>>

\* handleSelect: the list may be stale.
Listed(v, s) ==
    CASE listed[s] = "review" -> [v EXCEPT !.status = "awaiting_review"]
      [] listed[s] = "over" -> [v EXCEPT !.status = "ended"]
      [] OTHER -> v
Select(s) ==
    /\ shown /\ listed[s] # "none"
    /\ view' = Listed(SetActive(view, s), s)
    /\ conn' = Conn(s)
    /\ UNCHANGED <<session, listed, calls, match, budget, shown>>

\* A notification of a session opens it.
OpenNotified(s) ==
    /\ shown
    /\ \E i \in DOMAIN session[s].stream :
        session[s].stream[i].type \in {"pending", "final"}
    /\ view' = SetActive(view, s)
    /\ conn' = Conn(s)
    /\ UNCHANGED <<session, listed, calls, match, budget, shown>>

\* clearSession
Close ==
    /\ shown /\ view.active # None /\ view.status = "ended"
    /\ view' = [NoSession EXCEPT !.toasts = view.toasts]
    /\ conn' = NoConn
    /\ match' = [NoMatch EXCEPT !.queue = match.queue, !.pending = match.pending]
    /\ UNCHANGED <<session, listed, calls, budget, shown>>

Running == {"active", "awaiting_review", "awaiting_owner_confirmation"}

\* What the owner may ask for: a call of a kind, for a session.
MayAsk(kind, s) ==
    CASE kind = "cancel" -> view.active = s /\ view.status \in Running
      [] kind = "listCancel" -> listed[s] \in {"active", "review", "confirm"}
      [] kind \in {"checkContinue", "checkEnd"} ->
           /\ view.active = s /\ view.status = "awaiting_review"
           /\ view.check # None /\ view.final = None
      [] kind \in {"finalContinue", "finalEnd"} ->
           /\ view.active = s /\ view.status = "awaiting_review"
           /\ view.final # None
      [] kind \in {"approve", "reject"} -> s \in view.toasts

Kinds == {"cancel", "listCancel", "checkContinue", "checkEnd", "finalContinue",
          "finalEnd", "approve", "reject"}
\* Kinds whose buttons are disabled together while one is pending.
Button(kind) == CHOOSE b \in {{"cancel"}, {"listCancel"},
    {"checkContinue", "checkEnd"}, {"finalContinue", "finalEnd"},
    {"approve", "reject"}} : kind \in b

Ask(kind, s) ==
    /\ budget.calls > 0
    /\ shown \/ kind \in {"approve", "reject"}
    /\ MayAsk(kind, s)
    /\ ~\E c \in calls : c.kind \in Button(kind)
    /\ calls' = calls \cup {[kind |-> kind, of |-> s, res |-> "sent"]}
    /\ budget' = [budget EXCEPT !.calls = @ - 1]
    /\ UNCHANGED <<session, listed, view, conn, match, shown>>

\* The session after the service takes a call, and the answer.
Ended(r) == IF r.phase = "over" THEN r ELSE Published(r, "ended")
Taken(c, r) ==
    CASE c.kind = "create" -> <<[r EXCEPT !.phase = "active"], "created">>
      [] c.kind \in {"cancel", "listCancel"} -> <<Ended(r), "ended">>
      [] c.kind \in {"checkEnd", "finalEnd"} /\ r.phase = "review" ->
           <<Ended(r), "ended">>
      [] c.kind \in {"checkContinue", "finalContinue"} /\ r.phase = "review" ->
           <<Agreed(r, "me"),
             IF Agreed(r, "me").phase = "active" THEN "resumed" ELSE "waiting">>
      [] c.kind = "approve" /\ r.phase = "confirm" ->
           <<Published(r, "user_confirmed"), "done">>
      [] c.kind = "reject" /\ r.phase = "confirm" ->
           <<Published(r, "user_rejected"), "done">>
      [] OTHER -> <<r, "failed">>

Serve(c) ==
    /\ c.res = "sent"
    /\ \/ /\ session' = [session EXCEPT ![c.of] = Taken(c, @)[1]]
          /\ calls' = (calls \ {c}) \cup {[c EXCEPT !.res = Taken(c, session[c.of])[2]]}
          /\ UNCHANGED budget
       \/ /\ calls' = (calls \ {c}) \cup {[c EXCEPT !.res = "failed"]}
          /\ Fails
          /\ UNCHANGED session
    /\ UNCHANGED <<listed, view, conn, match, shown>>

\* The page after an answer.  It changes the status of the session on view,
\* whichever the call was for; only the list compares them.
Answered(v, c) ==
    CASE c.kind \in {"approve", "reject"} -> [v EXCEPT !.toasts = @ \ {c.of}]
      [] c.kind = "listCancel" /\ c.res = "ended" ->
           IF v.active = c.of THEN [v EXCEPT !.status = "ended"] ELSE v
      [] c.kind \in {"cancel", "checkEnd"} /\ c.res = "ended" ->
           [v EXCEPT !.status = "ended", !.check = None]
      [] c.kind = "checkContinue" /\ c.res = "resumed" ->
           [v EXCEPT !.status = "active", !.check = None]
      [] c.kind = "finalEnd" /\ c.res = "ended" ->
           [v EXCEPT !.status = "ended", !.final = None]
      [] c.kind = "finalContinue" /\ c.res = "resumed" ->
           [v EXCEPT !.status = "active", !.final = None]
      [] OTHER -> v

Return(c) ==
    /\ c.kind # "create" /\ c.res # "sent"
    /\ view' = Answered(view, c)
    /\ calls' = calls \ {c}
    /\ UNCHANGED <<session, listed, conn, match, budget, shown>>

-----------------------------------------------------------------------------
(* The search for partners, and the sessions it starts *)

FindMatch ==
    /\ shown /\ ~match.pending /\ view.status # "active"
    /\ budget.searches > 0
    /\ budget' = [budget EXCEPT !.searches = @ - 1]
    /\ match' = [match EXCEPT !.status = "searching", !.pending = TRUE]
    /\ UNCHANGED <<session, listed, view, conn, calls, shown>>

\* Partners that no session of this instance is with yet.
Candidates == {s \in Sessions : session[s].phase = "none"}
MatchAnswer ==
    /\ match.pending
    /\ \/ /\ match' = [match EXCEPT !.found = Candidates, !.chosen = {},
                         !.status = IF Candidates = {} THEN "no_match" ELSE "found",
                         !.pending = FALSE]
          /\ UNCHANGED budget
       \/ /\ match' = [match EXCEPT !.status = "idle", !.pending = FALSE]
          /\ Fails
    /\ UNCHANGED <<session, listed, view, conn, calls, shown>>

ToggleMatch(s) ==
    /\ shown /\ match.status = "found" /\ s \in match.found
    /\ match' = [match EXCEPT !.chosen =
                   IF s \in @ THEN @ \ {s} ELSE @ \cup {s}]
    /\ UNCHANGED <<session, listed, view, conn, calls, budget, shown>>

\* handleStartSession creates the sessions one after the other.
Create(s) == calls \cup {[kind |-> "create", of |-> s, res |-> "sent"]}
Start ==
    /\ shown /\ match.queue = <<>> /\ match.chosen \cap Candidates # {}
    /\ view.status # "active"
    /\ \E q \in SetToSeqs(match.chosen \cap Candidates) :
        /\ match' = [match EXCEPT !.queue = q]
        /\ calls' = Create(Head(q))
    /\ view' = [view EXCEPT !.status = "creating"]
    /\ UNCHANGED <<session, listed, conn, budget, shown>>

CreateAnswer(c) ==
    LET rest == Tail(match.queue) IN
    /\ c.kind = "create" /\ c.res # "sent"
    /\ IF c.res = "failed"
       THEN /\ match' = [match EXCEPT !.queue = <<>>]
            /\ calls' = calls \ {c}
            /\ view' = [view EXCEPT !.status = "none"]
            /\ UNCHANGED conn
       ELSE /\ match' = [match EXCEPT !.queue = rest]
            /\ calls' = IF rest = <<>> THEN calls \ {c}
                        ELSE Create(Head(rest)) \ {c}
            /\ view' = IF rest = <<>> THEN SetActive(view, c.of)
                       ELSE [SetActive(view, c.of) EXCEPT !.status = "creating"]
            /\ conn' = IF shown THEN Conn(c.of) ELSE conn
    /\ UNCHANGED <<session, listed, budget, shown>>

-----------------------------------------------------------------------------
\* The sidebar is collapsed, or gives way to an island, and comes back: the store
\* keeps the session, and the socket begins again.
Hide ==
    /\ shown
    /\ shown' = FALSE
    /\ conn' = NoConn
    /\ UNCHANGED <<session, listed, view, calls, match, budget>>

Show ==
    /\ ~shown
    /\ shown' = TRUE
    /\ conn' = IF view.active = None THEN NoConn ELSE Connecting
    /\ view' = [view EXCEPT !.asking = @ \/ view.active # None]
    /\ UNCHANGED <<session, listed, calls, match, budget>>

Next ==
    \/ Hide \/ Show
    \/ Connect \/ Drop \/ Reconnect \/ Deliver \/ FetchTurns
    \/ PollSessions \/ Close
    \/ FindMatch \/ MatchAnswer \/ Start
    \/ \E s \in Sessions :
        \/ Advance(s) \/ PartnerVotes(s) \/ Select(s) \/ OpenNotified(s)
        \/ ToggleMatch(s)
        \/ \E kind \in Kinds : Ask(kind, s)
    \/ \E c \in calls : Serve(c) \/ Return(c) \/ CreateAnswer(c)

Spec == Init /\ [][Next]_vars

\* The connection goes on: a timer fires, a socket opens, the gateway delivers,
\* the database answers.  The owner need not do anything.
Behind == \/ conn.sock \in {"connecting", "waiting"}
          \/ conn.sock = "open" /\ conn.at < Len(session[view.active].stream)
Moves == conn' # conn
Fairness ==
    /\ <>[]Behind => []<><<Moves>>_vars
    /\ <>[](view.asking /\ shown) => []<><<~view'.asking>>_vars

FairSpec == Spec /\ Fairness

-----------------------------------------------------------------------------
(* Properties *)

Statuses == {"none", "creating", "ended"} \cup Running

\* Every variable holds values of its kind; there is a socket exactly while a
\* session is on view, in a sidebar that is.
TypeOK ==
    /\ \A s \in Sessions : session[s].phase \in Phases /\ session[s].votes # Owners
    /\ listed \in [Sessions -> Phases]
    /\ view.status \in Statuses
    /\ {view.active, view.check, view.final} \subseteq Sessions \cup {None}
    /\ conn.at \in Nat /\ conn.tries \in 0 .. MaxReconnectAttempts
    /\ (conn.sock = "none") = (view.active = None \/ ~shown)

\* Whatever the owner selected, closed or started meanwhile, the turns and the
\* cards on view are of the session on view.
ShowsItsSession ==
    /\ \A t \in view.turns \cup view.history : t.of = view.active
    /\ view.card # NoCard => view.card.of = view.active
    /\ view.final # None => view.final = view.active

\* A replay comes to the same end: once the socket has delivered the stream, all
\* of its turns are on view, and the card shows the tool call's last status.
Follows(events) ==
    \A i \in DOMAIN events :
        /\ events[i].type = "turn" =>
             [of |-> view.active, n |-> events[i].n] \in view.turns
        /\ (/\ events[i].type \in ToolEvents
            /\ \A j \in DOMAIN events : j > i => events[j].type \notin ToolEvents)
             => view.card.state = events[i].type
ReplayIsComplete ==
    conn.sock = "open" /\ conn.at = Len(session[view.active].stream) =>
        Follows(session[view.active].stream)

\* "Re-selecting the session already being viewed must NOT wipe its loaded
\* turns" (appStore.ts), nor does a finished session whose stream is gone, or a
\* connection lost: every turn that there is comes to be on view, or the owner
\* turns to another session.
CatchesUp ==
    \A s \in Sessions : \A n \in 1 .. 2 :
        view.active = s /\ session[s].stored >= n
            ~> view.active # s \/ ~shown \/ [of |-> s, n |-> n] \in view.turns \cup view.history

=============================================================================
