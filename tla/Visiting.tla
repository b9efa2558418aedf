------------------------------ MODULE Visiting ------------------------------
(***************************************************************************)
(* The browsers of a visit: the visitors, each on the host's island with a *)
(* chat that unlocks on arrival, and the host, whose page shows the chat   *)
(* of the visit that arrived last.                                         *)
(*                                                                         *)
(* A chat hears of its messages twice: the visit's socket replays them all *)
(* and goes on, and a request fetches those that the database holds.  The  *)
(* host's page hears of arrivals and ends from the user channel, in the    *)
(* order of their publication, which is not the one of their commits.      *)
(*                                                                         *)
(* Left out: moves, blocks, the typing mark, the toasts, the game itself   *)
(* (Platformer.tla) and the rounds played in a visit (Duel.tla).           *)
(***************************************************************************)
EXTENDS Integers, Sequences, FiniteSets, SequencesExt, Lists

CONSTANTS
    Visitors,      \* users who visit the host
    MaxVisits,     \* bound: visits ever created
    MaxMessages,   \* bound: chat messages ever sent
    Budgets        \* bound: what one behaviour may spend, as Init chooses: who
                   \* visits, visits, messages, and faults (failed calls, lost
                   \* sockets, reloads)

Host == "host"
Users == Visitors \cup {Host}
Visits == 1 .. MaxVisits
Messages == 1 .. MaxMessages
NoVisit == 0

ASSUME VisitorsAssumption == Host \notin Visitors
ASSUME BoundsAssumption ==
    /\ MaxVisits \in Nat /\ MaxMessages \in Nat
    /\ Budgets \subseteq [who : SUBSET Visitors, visits : 0 .. MaxVisits,
                          messages : 0 .. MaxMessages, faults : Nat]

VARIABLES
    visit,     \* the visits as the database keeps them
    dm,        \* the messages of each visit in the database
    stream,    \* the messages of each visit in its Redis stream
    arrivals,  \* visits whose stream says that the visitor arrived
    sent,      \* frames on their way from a visit socket to the gateway
    due,       \* what is committed and not yet published
    inbox,     \* events of the user channel on their way to the host
    tab,       \* each user's page
    budget     \* what the behaviour has left

service == <<visit, dm, stream, arrivals, sent, due, inbox>>
vars == <<service, tab, budget>>

\* The chat of a page: its socket, how much of the stream the socket has
\* delivered, what is shown, what is known, and the fetches not yet answered.
NoChat == [sock |-> "none", at |-> 0, shown |-> <<>>, seen |-> {}, fetch |-> {}]
Fetch(v) == [visit |-> v, served |-> FALSE, res |-> <<>>]

\* visit is activeVisitId or hostActiveVisit, status is visitStatus; cleared:
\* the final stage is; fresh: the host never reloaded the page.
Page == [view |-> "world", visit |-> NoVisit, status |-> "none",
         cleared |-> FALSE, chat |-> NoChat, fresh |-> TRUE]

Init ==
    /\ visit = [v \in Visits |-> [visitor |-> Host, status |-> "none"]]
    /\ dm = [v \in Visits |-> <<>>]
    /\ stream = [v \in Visits |-> <<>>]
    /\ arrivals = {}
    /\ sent = {}
    /\ due = {}
    /\ inbox = <<>>
    /\ tab = [u \in Users |-> Page]
    /\ budget \in Budgets

\* What fails, fails with it.
Fails == /\ budget.faults > 0
         /\ budget' = [budget EXCEPT !.faults = @ - 1]

-----------------------------------------------------------------------------
(* The chat of a page *)

\* useVisitSocket opens a socket for the visit, and closes it with the visit.
Connecting == [NoChat EXCEPT !.sock = "connecting"]

\* onMessage
Live(c, m) ==
    IF m \in c.seen THEN c
    ELSE [c EXCEPT !.shown = Append(@, m), !.seen = @ \cup {m}]

\* What the merge keeps of the messages it showed: those that are not known.
Kept(shown, known) == Without(shown, known)

\* merged.sort
Orders(n) == {p \in [1 .. n -> 1 .. n] : IsInjective(p)}
Sorted(s) ==
    LET p == CHOOSE p \in Orders(Len(s)) :
                \A i, j \in 1 .. Len(s) : i < j => s[p[i]] <= s[p[j]]
    IN [i \in 1 .. Len(s) |-> s[p[i]]]

\* The history takes the place of what is shown.  The host's chat adds what it
\* showed and does not know yet.
VisitorHistory(c, res) ==
    [c EXCEPT !.shown = res, !.seen = @ \cup ToSet(res), !.fetch = {}]
HostHistory(c, res) ==
    LET known == c.seen \cup ToSet(res) IN
    [c EXCEPT !.shown = Sorted(res \o Kept(@, known)), !.seen = known, !.fetch = {}]
History(u, c, res) ==
    IF u = Host THEN HostHistory(c, res) ELSE VisitorHistory(c, res)

\* What becomes of the fetches when their effect is cleaned up.
MutantCancelled(fetches) == fetches
Cancelled(fetches) == {}

\* The host's chat starts over with the visit that the page is at.
Restarted(c, v) ==
    IF v = NoVisit THEN NoChat
    ELSE [Connecting EXCEPT !.fetch = Cancelled(c.fetch) \cup {Fetch(v)}]

Open(u) ==
    /\ tab[u].chat.sock = "connecting"
    /\ tab' = [tab EXCEPT ![u].chat.sock = "open"]
    /\ UNCHANGED <<service, budget>>

\* Nothing reconnects it.
Drop(u) ==
    /\ tab[u].chat.sock \in {"connecting", "open"}
    /\ Fails
    /\ tab' = [tab EXCEPT ![u].chat.sock = "closed"]
    /\ UNCHANGED service

\* The gateway's dm_reader reads the stream from its beginning.
Deliver(u) ==
    LET c == tab[u].chat
        s == stream[tab[u].visit] IN
    /\ c.sock = "open" /\ c.at < Len(s)
    /\ tab' = [tab EXCEPT ![u].chat =
                 Live([c EXCEPT !.at = @ + 1], s[c.at + 1])]
    /\ UNCHANGED <<service, budget>>

ServeFetch(u) ==
    \E f \in tab[u].chat.fetch :
        /\ ~f.served
        /\ tab' = [tab EXCEPT ![u].chat.fetch = (@ \ {f}) \cup
                     {[f EXCEPT !.served = TRUE, !.res = dm[f.visit]]}]
        /\ UNCHANGED <<service, budget>>

FetchAnswer(u) ==
    \E f \in tab[u].chat.fetch :
        \/ /\ f.served
           /\ tab' = [tab EXCEPT ![u].chat = History(u, @, f.res)]
           /\ UNCHANGED <<service, budget>>
        \/ /\ Fails
           /\ tab' = [tab EXCEPT ![u].chat.fetch = @ \ {f}]
           /\ UNCHANGED service

\* send: without an open socket, what is sent is dropped.
Sent(kind, u) ==
    IF tab[u].chat.sock = "open"
    THEN sent \cup {[kind |-> kind, visit |-> tab[u].visit, from |-> u]} ELSE sent

\* The visitor's panel is locked until the arrival, the host's never.
Locked(u) == u # Host /\ tab[u].status # "arrived"

\* Messages ever stored, and on their way to it.
Ever == UNION {ToSet(dm[v]) : v \in Visits}
Frames == {f \in sent : f.kind = "dm"}

\* handleSend.  Bounds: one frame of a user on its way, and messages in all.
Say(u) ==
    /\ tab[u].chat.sock # "none" /\ ~Locked(u)
    /\ Cardinality(Ever) + Cardinality(Frames) < budget.messages
    /\ sent' = Sent("dm", u)
    /\ UNCHANGED <<visit, dm, stream, arrivals, due, inbox, tab, budget>>

-----------------------------------------------------------------------------
(* The visitor *)

At(a, view) == tab' = [tab EXCEPT ![a].view = view]
OnIsland(a) == tab[a].view \in {"island", "leaving", "closing"}

\* A double click on the island, and the dialog that it opens.
RequestVisit(a) == /\ tab[a].view = "world"
                   /\ At(a, "asking")
                   /\ UNCHANGED <<service, budget>>
CancelRequest(a) == /\ tab[a].view = "asking"
                    /\ At(a, "world")
                    /\ UNCHANGED <<service, budget>>
StartVisit(a) == /\ tab[a].view = "asking"
                 /\ At(a, "entering")
                 /\ UNCHANGED <<service, budget>>

\* create_visit: the visit that is not over, or a new one.
Current(a) == {v \in Visits : visit[v].visitor = a /\ visit[v].status # "ended"}
New == {v \in 1 .. budget.visits : visit[v].status = "none"
                       /\ \A w \in Visits : w < v => visit[w].status # "none"}

Create(a, v) ==
    /\ v \in IF Current(a) # {} THEN Current(a) ELSE New
    /\ visit' = IF v \in New
                THEN [visit EXCEPT ![v] = [visitor |-> a, status |-> "active"]]
                ELSE visit
    /\ UNCHANGED <<dm, stream, arrivals, sent, due, inbox>>

\* beginVisit: an existing visit starts as "active" too, whatever its status.
Begun(a, v) == [tab[a] EXCEPT !.view = "island", !.visit = v,
                  !.status = "active", !.cleared = FALSE, !.chat = Connecting]

Enter(a) ==
    /\ tab[a].view = "entering"
    /\ \E v \in Visits : Create(a, v) /\ tab' = [tab EXCEPT ![a] = Begun(a, v)]
    /\ UNCHANGED budget

\* The call fails, before the service took it or after.
EnterFails(a) ==
    /\ tab[a].view = "entering"
    /\ \/ \E v \in Visits : Create(a, v)
       \/ UNCHANGED service
    /\ At(a, "world")
    /\ Fails

\* onCleared, on the final stage.  With no open socket nothing is sent.
Clear(a) ==
    /\ OnIsland(a) /\ ~tab[a].cleared
    /\ tab' = [tab EXCEPT ![a].cleared = TRUE]
    /\ sent' = Sent("arrive", a)
    /\ UNCHANGED <<visit, dm, stream, arrivals, due, inbox, budget>>

\* onArrive unlocks the chat, and fetches its history.
HearArrival(a) ==
    LET t == tab[a] IN
    /\ t.chat.sock = "open" /\ t.visit \in arrivals /\ t.status = "active"
    /\ tab' = [tab EXCEPT ![a].status = "arrived",
                          ![a].chat.fetch = Cancelled(@) \cup {Fetch(t.visit)}]
    /\ UNCHANGED <<service, budget>>

\* leaveVisit
Leave(a) == /\ tab[a].view = "island"
            /\ At(a, "leaving")
            /\ UNCHANGED <<service, budget>>

\* end_visit
EndVisit(a) ==
    LET v == tab[a].visit IN
    /\ tab[a].view = "leaving"
    /\ At(a, "closing")
    /\ IF visit[v].status = "ended" THEN UNCHANGED <<visit, due>>
       ELSE /\ visit' = [visit EXCEPT ![v].status = "ended"]
            /\ due' = due \cup {[kind |-> "ended", visit |-> v, from |-> a, msg |-> 0]}
    /\ UNCHANGED <<dm, stream, arrivals, sent, inbox, budget>>

\* onSettled: back to the world, even if the call failed.
Left(a) ==
    LET v == tab[a].visit IN
    /\ \/ /\ tab[a].view = "closing"
          /\ \A d \in due : d.visit = v => d.kind # "ended"
          /\ UNCHANGED budget
       \/ tab[a].view \in {"leaving", "closing"} /\ Fails
    /\ tab' = [tab EXCEPT ![a] = Page]
    /\ UNCHANGED service

-----------------------------------------------------------------------------
(* The gateway's writer, and what it and the visit service publish *)

\* The writer of a socket takes its next frame when it is done with the last.
Take(f) ==
    /\ \A d \in due : d.from = f.from => d.kind = "ended"
    /\ sent' = sent \ {f}

TakeArrive(f) ==
    /\ f.kind = "arrive"
    /\ Take(f)
    /\ IF visit[f.visit].status = "active"
       THEN /\ visit' = [visit EXCEPT ![f.visit].status = "arrived"]
            /\ due' = due \cup {[kind |-> "arrived", visit |-> f.visit,
                                 from |-> f.from, msg |-> 0]}
       ELSE UNCHANGED <<visit, due>>
    /\ UNCHANGED <<dm, stream, arrivals, inbox, tab, budget>>

TakeMessage(f) ==
    LET next == 1 + Cardinality(Ever) IN
    /\ f.kind = "dm"
    /\ Take(f)
    /\ IF visit[f.visit].status = "arrived"
       THEN /\ dm' = [dm EXCEPT ![f.visit] = Append(@, next)]
            /\ due' = due \cup {[kind |-> "dm", visit |-> f.visit,
                                 from |-> f.from, msg |-> next]}
       ELSE UNCHANGED <<dm, due>>
    /\ UNCHANGED <<visit, stream, arrivals, inbox, tab, budget>>

\* What the host's page is told.
MutantTold(d) == IF d.kind = "ended" THEN <<[type |-> d.kind, visit |-> d.visit]>>
                 ELSE <<>>
Told(d) == IF d.kind = "dm" THEN <<>>
           ELSE <<[type |-> d.kind, visit |-> d.visit]>>

Publish(d) ==
    /\ due' = due \ {d}
    /\ stream' = IF d.kind = "dm"
                 THEN [stream EXCEPT ![d.visit] = Append(@, d.msg)] ELSE stream
    /\ arrivals' = IF d.kind = "arrived" THEN arrivals \cup {d.visit} ELSE arrivals
    /\ inbox' = inbox \o Told(d)
    /\ UNCHANGED <<visit, dm, sent, tab, budget>>

-----------------------------------------------------------------------------
(* The host *)

\* setHostActiveVisit, clearHostActiveVisitIfMatches
MutantShownVisit(v, e) == IF e.type = "arrived" THEN e.visit ELSE NoVisit
ShownVisit(v, e) ==
    IF e.type = "arrived" THEN e.visit
    ELSE IF e.visit = v THEN NoVisit ELSE v

Receive ==
    LET t == tab[Host]
        v == ShownVisit(t.visit, Head(inbox)) IN
    /\ inbox # <<>>
    /\ inbox' = Tail(inbox)
    /\ tab' = [tab EXCEPT ![Host].visit = v,
                 ![Host].chat = IF v = t.visit \/ t.view = "away" THEN @
                                ELSE Restarted(@, v)]
    /\ UNCHANGED <<visit, dm, stream, arrivals, sent, due, budget>>

\* The chat is part of the world view only: it is not there while the host
\* is on another island, or in the editor, and starts over afterwards.
GoAway ==
    /\ tab[Host].view = "world"
    /\ tab' = [tab EXCEPT ![Host].view = "away", ![Host].chat = NoChat]
    /\ UNCHANGED <<service, budget>>
ComeBack ==
    /\ tab[Host].view = "away"
    /\ tab' = [tab EXCEPT ![Host].view = "world",
                          ![Host].chat = Restarted(NoChat, tab[Host].visit)]
    /\ UNCHANGED <<service, budget>>

\* The store keeps nothing of a visit, and the user channel does not replay.
Reload(u) ==
    /\ tab[u] # Page
    /\ Fails
    /\ tab' = [tab EXCEPT ![u] = [Page EXCEPT !.fresh = u # Host]]
    /\ inbox' = IF u = Host THEN <<>> ELSE inbox
    /\ UNCHANGED <<visit, dm, stream, arrivals, sent, due>>

-----------------------------------------------------------------------------
Gateway == \/ \E f \in sent : TakeArrive(f) \/ TakeMessage(f)
           \/ \E d \in due : Publish(d)

Next ==
    \/ Gateway \/ Receive \/ GoAway \/ ComeBack
    \/ \E u \in Users :
        \/ Open(u) \/ Drop(u) \/ Deliver(u) \/ Say(u) \/ Reload(u)
        \/ ServeFetch(u) \/ FetchAnswer(u)
    \/ \E a \in budget.who :
        \/ RequestVisit(a) \/ CancelRequest(a) \/ StartVisit(a)
        \/ Enter(a) \/ EnterFails(a) \/ Clear(a) \/ HearArrival(a)
        \/ Leave(a) \/ EndVisit(a) \/ Left(a)

Spec == Init /\ [][Next]_vars

\* The services finish what they have begun, and the host's channel delivers:
\* weak fairness of Publish and Receive.  Nobody need act.
Fairness ==
    /\ <>[](due # {}) => []<><<due \ due' # {}>>_vars
    /\ <>[](inbox # <<>>) => []<><<Len(inbox') < Len(inbox)>>_vars

FairSpec == Spec /\ Fairness

-----------------------------------------------------------------------------
(* Properties *)

\* Every variable holds values of its kind; a chat has a socket exactly while
\* it is on screen.
TypeOK ==
    /\ \A v \in Visits : visit[v].visitor \in Users
                         /\ visit[v].status \in {"none", "active", "arrived", "ended"}
    /\ \A v \in Visits : {dm[v], stream[v]} \subseteq Seq(Messages)
    /\ arrivals \subseteq Visits
    /\ \A a \in Visitors : (tab[a].chat.sock = "none") = ~OnIsland(a)
    /\ (tab[Host].chat.sock = "none")
         = (tab[Host].visit = NoVisit \/ tab[Host].view = "away")

\* The socket's replay, its live messages and the fetched history overlap: no
\* message is shown twice, whichever comes first.
ShownOnce == \A u \in Users : IsInjective(tab[u].chat.shown)

\* A chat shows messages of its own visit only: an answer for the visit that
\* the page has left is not heard.
ShowsItsVisit ==
    \A u \in Users : tab[u].chat.sock # "none" =>
        ToSet(tab[u].chat.shown) \subseteq ToSet(dm[tab[u].visit])

\* Whatever calls were lost or repeated, a visitor who is on an island, and
\* has not asked to leave it, is in a visit that is not over.
IslandIsOpen ==
    \A a \in Visitors : tab[a].view = "island" =>
        visit[tab[a].visit] \in [visitor : {a}, status : {"active", "arrived"}]

\* A chat on screen is the one of a visit that is not over, each message once.
VisitingInv ==
    /\ TypeOK /\ ShownOnce /\ ShowsItsVisit /\ IslandIsOpen

\* "Notify both sides' user-channels so the host chat panel tears down"
\* (gateway): it does for a visit that is over, and never for another one.
ClosesWhenOver ==
    [][tab[Host].visit # NoVisit /\ tab'[Host].visit = NoVisit /\ tab'[Host].fresh
         => visit[tab[Host].visit].status = "ended"]_vars

\* "Notify the host's personal user-channel so World view can mount the
\* host-side chat panel" (gateway): when an arrival is committed, the host's page
\* comes to the visit, unless it ends first, or the page was loaded anew and has
\* missed the event.
Arriving(v) == \E d \in due : d.kind = "arrived" /\ d.visit = v
ArrivedIsShown ==
    \A v \in Visits :
        Arriving(v) ~> \/ tab[Host].visit = v
                       \/ visit[v].status = "ended" \/ ~tab[Host].fresh
=============================================================================
