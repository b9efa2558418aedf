------------------------------ MODULE Sidebar -------------------------------
(***************************************************************************)
(* The sidebar of the page: the conversation viewer takes the place of the *)
(* chat panel while a session is on view, and both go with the sidebar.    *)
(* The steps of the viewer are those of Viewer.tla; one that changes the   *)
(* layout mounts or unmounts the panel of Chat.tla with it.                *)
(***************************************************************************)
EXTENDS Integers, Sequences, FiniteSets

CONSTANTS
    Sessions,   \* sessions that there are, or may be started
    Peers,      \* users to chat with
    Limit,      \* messages that a poll of a room returns
    Scenes      \* bound: what one behaviour starts with: a life of Viewer.tla
                \* and an outlay of Chat.tla

VARIABLES session, listed, view, conn, calls, match, shown, budget
VARIABLES msgs, stream, due, notices, asked, panel, outlay

V == INSTANCE Viewer WITH Lives <- {scene.life : scene \in Scenes}
C == INSTANCE Chat WITH Outlays <- {scene.outlay : scene \in Scenes}

ASSUME NamesAssumption == /\ "none" \notin Sessions \cup Peers
                          /\ "me" \notin Peers
ASSUME SizesAssumption == IsFiniteSet(Sessions) /\ Limit \in Nat \ {0}

\* A life begins with sessions on whose streams nothing has been published.
ASSUME ScenesAssumption ==
    \A scene \in Scenes : scene.life.session \in
        [Sessions -> [phase : V!Phases, stored : Nat, stream : {<<>>},
                      coming : Seq(V!Types), votes : {{}}]]

viewer == <<session, listed, view, conn, calls, match, shown, budget>>
chat == <<msgs, stream, due, notices, asked, panel, outlay>>
sidebarVars == <<viewer, chat>>

SidebarInit ==
    /\ V!Init /\ C!Init
    /\ \E scene \in Scenes :
        /\ session = scene.life.session /\ outlay = scene.outlay
        /\ \A k \in DOMAIN budget : budget[k] = scene.life[k]

\* "selectedUserId && !activeSessionId" (page.tsx): whether the chat panel is there.
There == shown /\ view.active = "none"

MovesPanel ==
    \/ There /\ ~There' /\ C!Unmount
    \/ ~There /\ There' /\ C!Mount
    \/ There' = There /\ UNCHANGED chat

SidebarNext ==
    \/ V!Next /\ MovesPanel
    \/ C!Stays /\ UNCHANGED viewer

SidebarSpec == SidebarInit /\ [][SidebarNext]_sidebarVars
SidebarFairSpec == SidebarSpec /\ V!Fairness /\ C!Fairness

\* A room whose poll's timer fires, whose socket delivers, and whose gateway goes on.
RoomSpec ==
    /\ SidebarSpec
    /\ WF_chat(C!Poll) /\ WF_chat(C!Deliver) /\ WF_chat(\E d \in due : C!Add(d))

-----------------------------------------------------------------------------
(* Properties *)

\* Every variable holds values of its kind; the page has the viewer or the
\* chat panel, not both.
SidebarTypeOK == V!TypeOK /\ C!TypeOK /\ (panel.mounted => view.active = "none")

\* What the sidebar shows is of the session on view or of the open room, whole,
\* and each message once (the parts are stated in Viewer.tla and Chat.tla).
SidebarInv ==
    /\ SidebarTypeOK /\ V!ShowsItsSession /\ V!ReplayIsComplete
    /\ C!ShownOnce /\ C!OpenRoomIsRead

\* Stated in Viewer.tla: the turns that there are come to be on view.
CatchesUp == V!CatchesUp

\* Stated in Chat.tla: a room that opens is the target's, its messages come to
\* be shown, and those past the first page, too.
OpensTheTarget == C!OpensTheTarget
MessageIsShown == C!MessageIsShown
FallbackShowsAll == C!FallbackShowsAll
=============================================================================
