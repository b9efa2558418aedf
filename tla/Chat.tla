-------------------------------- MODULE Chat --------------------------------
(***************************************************************************)
(* Direct chat in the sidebar of one user.  A click on an island picks its *)
(* owner: the panel asks the gateway for their room, and opens it.  A room *)
(* shows what a poll of the database returns and what its socket says: the *)
(* gateway saves a message, adds it to the room's stream, and then tells   *)
(* the recipient's user channel.                                           *)
(*                                                                         *)
(* A room is named by the other user in it: the gateway finds the pair's   *)
(* room before it creates one.                                             *)
(***************************************************************************)
EXTENDS Lists, FiniteSets, SequencesExt

CONSTANTS
    Peers,      \* the other users
    Limit,      \* messages that a poll returns, the oldest of a room
    Outlays     \* bound: what one behaviour may spend, as Init chooses:
                \* picks, messages of each side, and faults

None == "none"
Me == "me"

VARIABLES
    msgs,     \* the senders of the messages of each room in the database
    stream,   \* the numbers of those that the room's Redis stream has
    due,      \* saved messages that the gateway has not done with
    notices,  \* notices on their way to the user
    asked,    \* requests for a room that are not answered
    panel,    \* the chat part of the page
    outlay    \* what the behaviour has left

gateway == <<msgs, stream, due, notices>>
vars == <<gateway, asked, panel, outlay>>

\* target is chatTarget, room is activeRoom, open is openRoomId.  Of the room on
\* screen: the messages last polled, those of the socket, and the socket's
\* place in the stream.  A socket is "open" from its creation.
NoRoom == [target |-> None, room |-> None, open |-> None, mounted |-> TRUE,
           unread |-> [p \in Peers |-> 0],
           base |-> <<>>, polled |-> FALSE, live |-> <<>>, seen |-> {},
           sock |-> "none", at |-> 0]

Init ==
    /\ msgs = [p \in Peers |-> <<>>]
    /\ stream = [p \in Peers |-> <<>>]
    /\ due = {}
    /\ notices = <<>>
    /\ asked = {}
    /\ panel = NoRoom
    /\ outlay \in Outlays

Fails == /\ outlay.faults > 0
         /\ outlay' = [outlay EXCEPT !.faults = @ - 1]

-----------------------------------------------------------------------------
(* The panel *)

\* A room comes to be on screen: its socket and its poll start over, and it is
\* read.  React keeps the messages of a ChatRoom that goes on to another room.
Entered(q, p) ==
    IF q.room = p THEN q
    ELSE [q EXCEPT !.room = p, !.open = p, !.sock = "open", !.at = 0,
                   !.base = <<>>, !.polled = FALSE, !.unread[p] = 0]
Exited(q) == [NoRoom EXCEPT !.target = q.target, !.mounted = q.mounted,
                            !.unread = q.unread]

\* createRoom.mutate: only the last one has its callback called.
Asked(p) == {[c EXCEPT !.last = FALSE] : c \in asked} \cup {[to |-> p, last |-> TRUE]}
MutantIsHeard(c) == TRUE
IsHeard(c) == c.last

\* openChatWith, and the effect of a panel that is there.
Pick(p) ==
    /\ outlay.picks > 0
    /\ outlay' = [outlay EXCEPT !.picks = @ - 1]
    /\ panel' = [panel EXCEPT !.target = p]
    /\ asked' = IF panel.mounted THEN Asked(p) ELSE asked
    /\ UNCHANGED gateway

RoomAnswer(c) ==
    /\ asked' = asked \ {c}
    /\ \/ /\ panel' = IF IsHeard(c) THEN Entered(panel, c.to) ELSE panel
          /\ UNCHANGED outlay
       \/ Fails /\ UNCHANGED panel
    /\ UNCHANGED gateway

\* A click on a room of the list: it is there once it has messages.
OpenListed(p) ==
    /\ panel.mounted /\ panel.room = None /\ panel.target = None
    /\ msgs[p] # <<>>
    /\ panel' = Entered(panel, p)
    /\ UNCHANGED <<gateway, asked, outlay>>

\* handleBack
Back ==
    /\ panel.room # None
    /\ panel' = [Exited(panel) EXCEPT !.target = None]
    /\ UNCHANGED <<gateway, asked, outlay>>

\* The panel leaves the page, and comes back: the store keeps the target.
Unmount ==
    /\ panel.mounted
    /\ panel' = [Exited(panel) EXCEPT !.mounted = FALSE]
    /\ asked' = {}
    /\ UNCHANGED <<gateway, outlay>>

Mount ==
    /\ ~panel.mounted
    /\ panel' = [panel EXCEPT !.mounted = TRUE]
    /\ asked' = IF panel.target = None THEN {} ELSE Asked(panel.target)
    /\ UNCHANGED <<gateway, outlay>>

-----------------------------------------------------------------------------
(* The room on screen *)

\* Every three seconds.
Page(p) == [n \in 1 .. Min({Len(msgs[p]), Limit}) |-> [of |-> p, n |-> n]]
MutantPolled(q) == IF q.polled THEN q.base ELSE Page(q.room)
Polled(q) == Page(q.room)

Poll ==
    /\ panel.room # None
    /\ panel' = [panel EXCEPT !.base = Polled(panel), !.polled = TRUE]
    /\ UNCHANGED <<gateway, asked, outlay>>

\* onmessage
Heard(q, m) ==
    IF m \in q.seen THEN q
    ELSE [q EXCEPT !.live = Append(@, m), !.seen = @ \cup {m}]

Deliver ==
    LET p == panel.room IN
    /\ panel.sock = "open" /\ panel.at < Len(stream[p])
    /\ panel' = Heard([panel EXCEPT !.at = @ + 1],
                      [of |-> p, n |-> stream[p][panel.at + 1]])
    /\ UNCHANGED <<gateway, asked, outlay>>

\* Nothing reconnects it.
Drop ==
    /\ panel.sock = "open"
    /\ Fails
    /\ panel' = [panel EXCEPT !.sock = "closed"]
    /\ UNCHANGED <<gateway, asked>>

\* What the room shows.
Shown(q) == q.base \o Without(q.live, ToSet(q.base))

-----------------------------------------------------------------------------
(* The gateway's writers, one of each socket: save, add, notify *)

Save(p, who) ==
    /\ \A d \in due : d.of = p => msgs[p][d.n] # who
    /\ msgs' = [msgs EXCEPT ![p] = Append(@, who)]
    /\ due' = due \cup {[of |-> p, n |-> Len(msgs[p]) + 1, added |-> FALSE]}
    /\ UNCHANGED <<stream, notices, asked, panel>>

\* handleSend: the message goes to the room on screen.
Say ==
    /\ panel.sock = "open" /\ outlay.mine > 0
    /\ outlay' = [outlay EXCEPT !.mine = @ - 1]
    /\ Save(panel.room, Me)

PeerSays(p) ==
    /\ outlay.theirs > 0
    /\ outlay' = [outlay EXCEPT !.theirs = @ - 1]
    /\ Save(p, p)

Add(d) ==
    /\ ~d.added
    /\ stream' = [stream EXCEPT ![d.of] = Append(@, d.n)]
    /\ due' = (due \ {d}) \cup {[d EXCEPT !.added = TRUE]}
    /\ UNCHANGED <<msgs, notices, asked, panel, outlay>>

Notify(d) ==
    /\ d.added
    /\ due' = due \ {d}
    /\ notices' = IF msgs[d.of][d.n] = Me THEN notices ELSE Append(notices, d.of)
    /\ UNCHANGED <<msgs, stream, asked, panel, outlay>>

\* onChatReceived: the user may have turned notifications or chats off.
Receive ==
    LET p == Head(notices) IN
    /\ notices # <<>>
    /\ notices' = Tail(notices)
    /\ \/ UNCHANGED panel
       \/ /\ p # panel.open
          /\ panel' = [panel EXCEPT !.unread[p] = @ + 1]
    /\ UNCHANGED <<msgs, stream, due, asked, outlay>>

-----------------------------------------------------------------------------
\* The steps on a page that keeps its layout.
Stays ==
    \/ Back \/ Poll \/ Deliver \/ Drop \/ Say \/ Receive
    \/ \E p \in Peers : Pick(p) \/ OpenListed(p) \/ PeerSays(p)
    \/ \E c \in asked : RoomAnswer(c)
    \/ \E d \in due : Add(d) \/ Notify(d)

Next == Stays \/ Unmount \/ Mount

Spec == Init /\ [][Next]_vars

\* The poll's timer fires: weak fairness of a Poll that changes what is shown.
Stale == panel.room # None /\ (panel.base # Polled(panel) \/ ~panel.polled)
Fairness == <>[]Stale => []<><<panel'.base # panel.base \/ panel'.polled # panel.polled>>_vars

FairSpec == Spec /\ Fairness

-----------------------------------------------------------------------------
(* Properties *)

\* Every variable holds values of its kind; a room has a socket, and there is
\* a room only in a panel that is there.
TypeOK ==
    /\ \A p \in Peers : /\ msgs[p] \in Seq({Me, p})
                        /\ ToSet(stream[p]) \subseteq 1 .. Len(msgs[p])
                        /\ panel.unread[p] \in Nat
    /\ {panel.target, panel.room} \subseteq Peers \cup {None}
    /\ (panel.sock = "none") = (panel.room = None)
    /\ panel.room # None => panel.mounted
    /\ \A c \in asked : c.to \in Peers

\* A message that is polled, and delivered, and delivered again when the panel
\* comes back to the room, is shown once.
ShownOnce == IsInjective(Shown(panel))

\* "Mark this room as open so incoming-message handlers skip its unread badge,
\* and clear any backlog the moment it's opened" (ChatPanel).
OpenRoomIsRead ==
    /\ panel.open = panel.room
    /\ panel.open # None => panel.unread[panel.open] = 0

\* Answers come in any order: a room that opens for a target is its room.
OpensTheTarget ==
    [][panel'.room \notin {panel.room, None} /\ panel'.target # None
         => panel'.room = panel'.target]_vars

\* "Poll every 3s as fallback to WS" (useChat): with or without its socket, a room
\* that stays on screen comes to show each of its first messages.
MessageIsShown ==
    \A p \in Peers : \A n \in 1 .. Limit :
        panel.room = p /\ Len(msgs[p]) >= n
            ~> panel.room # p \/ [of |-> p, n |-> n] \in ToSet(Shown(panel))

\* The same of every message.
FallbackShowsAll ==
    \A p \in Peers : \A n \in 1 .. 3 :
        panel.room = p /\ Len(msgs[p]) >= n
            ~> panel.room # p \/ [of |-> p, n |-> n] \in ToSet(Shown(panel))

=============================================================================
