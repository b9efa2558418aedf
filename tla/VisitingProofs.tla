--------------------------- MODULE VisitingProofs ---------------------------
(***************************************************************************)
(* Theorems about Visiting, for any visitors, visits, messages and faults. *)
(*                                                                         *)
(* The argument: messages are numbered as they are stored, so what a fetch *)
(* answers ascends and shows nothing twice; a chat knows all it shows, so  *)
(* the host's merge keeps nothing; what a stream or an answer holds is     *)
(* stored in its visit, and a fetch is of the page's visit, for the effect *)
(* that made another one was cleaned up.  An event that ends a visit is    *)
(* published when the visit is over, and no visit begins again.            *)
(***************************************************************************)
EXTENDS Visiting, CommonLemmas, NaturalsInduction

-----------------------------------------------------------------------------
(* The invariant: what the services hold, and what each page shows *)

Fetches == [visit : Visits, served : BOOLEAN, res : Seq(Messages)]
Chats == [sock : {"none", "connecting", "open", "closed"}, at : Nat,
          shown : Seq(Messages), seen : SUBSET Messages, fetch : SUBSET Fetches]
Pages == [view : {"world", "asking", "entering", "island", "leaving", "closing",
                  "away"},
          visit : 0 .. MaxVisits, status : {"none", "active", "arrived"},
          cleared : BOOLEAN, chat : Chats, fresh : BOOLEAN]
SentFrames == [kind : {"arrive", "dm"}, visit : Visits, from : Users]
Dues == [kind : {"arrived", "dm", "ended"}, visit : Visits, from : Users,
         msg : 0 .. MaxMessages]
Events == [type : {"arrived", "ended"}, visit : Visits]
Purses == [who : SUBSET Visitors, visits : 0 .. MaxVisits,
           messages : 0 .. MaxMessages, faults : Nat]

ServiceShapes ==
    /\ visit \in [Visits -> [visitor : Users,
                             status : {"none", "active", "arrived", "ended"}]]
    /\ dm \in [Visits -> Seq(Messages)]
    /\ stream \in [Visits -> Seq(Messages)]
    /\ arrivals \subseteq Visits
    /\ sent \subseteq SentFrames
    /\ due \subseteq Dues
    /\ inbox \in Seq(Events)
    /\ budget \in Purses

\* Messages are numbered as they are stored, and each visit keeps their order.
Ascends(s) == \A i, j \in 1 .. Len(s) : i < j => s[i] < s[j]
Numbered ==
    /\ IsFiniteSet(sent)
    /\ Ever = 1 .. Cardinality(Ever)
    /\ Cardinality(Ever) + Cardinality(Frames) <= budget.messages
    /\ \A v \in Visits : Ascends(dm[v])

\* What is in a stream, or will be, is stored.
Stored ==
    /\ \A v \in Visits : ToSet(stream[v]) \subseteq ToSet(dm[v])
    /\ \A d \in due : d.kind = "dm" => d.msg \in Messages /\ d.msg \in ToSet(dm[d.visit])

\* The end of a visit is published after it; a number not given is nobody's.
EndsAreTrue ==
    /\ \A d \in due : d.kind = "ended" => visit[d.visit].status = "ended"
    /\ \A i \in 1 .. Len(inbox) :
          inbox[i].type = "ended" => visit[inbox[i].visit].status = "ended"
    /\ \A v \in Visits : visit[v].status = "none" => visit[v].visitor = Host

ServiceOk == ServiceShapes /\ Numbered /\ Stored /\ EndsAreTrue

\* The chat c of a page at visit v, when msgs is what the visits hold.
ChatOk(c, v, msgs) ==
    /\ c \in Chats
    /\ c.sock = "none" => c = NoChat
    /\ c.sock # "none" => v \in Visits /\ ToSet(c.shown) \subseteq ToSet(msgs[v])
    /\ IsInjective(c.shown)
    /\ ToSet(c.shown) \subseteq c.seen
    /\ \A f \in c.fetch :
          f.visit = v /\ Ascends(f.res) /\ ToSet(f.res) \subseteq ToSet(msgs[f.visit])

\* A visitor's page on an island is in a visit of theirs.
Island == {"island", "leaving", "closing"}
OwnerOk(u, pg, vis) ==
    /\ u = Host => pg.view \in {"world", "away"}
    /\ u # Host /\ pg.view \in Island =>
          /\ pg.visit \in Visits /\ vis[pg.visit].visitor = u
          /\ vis[pg.visit].status # "none"
    /\ u # Host /\ pg.view = "island" => vis[pg.visit].status \in {"active", "arrived"}

PageOk(u, pg, vis, msgs) ==
    /\ pg \in Pages
    /\ ChatOk(pg.chat, pg.visit, msgs)
    /\ (pg.chat.sock = "none") <=>
          IF u = Host THEN pg.visit = NoVisit \/ pg.view = "away"
          ELSE pg.view \notin Island
    /\ OwnerOk(u, pg, vis)

PagesOk ==
    /\ tab = [u \in Users |-> tab[u]]
    /\ \A u \in Users : PageOk(u, tab[u], visit, dm)

IInv == ServiceOk /\ PagesOk

USE VisitorsAssumption, BoundsAssumption

-----------------------------------------------------------------------------
(* Sequences *)

\* Nothing is kept of messages that are all known.
LEMMA KeptNone ==
    ASSUME NEW S, NEW s \in Seq(S), NEW known, ToSet(s) \subseteq known
    PROVE  Kept(s, known) = <<>>
  <1>1. \A i \in 1 .. Len(s) : s[i] \in known
    BY DEF ToSet
  <1> QED
    BY <1>1, WithoutAll DEF Kept

\* Sorting messages that ascend shows each of them once.
LEMMA SortedOf ==
    ASSUME NEW s \in Seq(Messages), Ascends(s)
    PROVE  /\ Sorted(s) \in Seq(Messages)
           /\ ToSet(Sorted(s)) \subseteq ToSet(s)
           /\ IsInjective(Sorted(s))
  <1> DEFINE n == Len(s)
             InOrder(p) == \A i, j \in 1 .. n : i < j => s[p[i]] <= s[p[j]]
             q == CHOOSE p \in Orders(n) : InOrder(p)
             id == [i \in 1 .. n |-> i]
  <1>0. n \in Nat /\ \A i \in 1 .. n : s[i] \in Messages /\ s[i] \in Int
    BY DEF Messages
  <1>1. id \in Orders(n) /\ InOrder(id)
    BY <1>0 DEF Orders, Ascends, IsInjective
  <1>2. q \in Orders(n)
    BY <1>1
  <1>3. Sorted(s) = [i \in 1 .. n |-> s[q[i]]]
    BY DEF Sorted
  <1> HIDE DEF q
  <1>4. \A i \in 1 .. n : q[i] \in 1 .. n
    BY <1>2 DEF Orders
  <1>5. \A i, j \in 1 .. n : q[i] = q[j] => i = j
    BY <1>2 DEF Orders, IsInjective
  <1>6. \A i, j \in 1 .. n : s[i] = s[j] => i = j
    BY <1>0 DEF Ascends
  <1>7. Sorted(s) \in [1 .. n -> Messages]
    BY <1>0, <1>3, <1>4
  <1>8. Sorted(s) \in Seq(Messages)
    BY <1>0, <1>7
  <1>9. ToSet(Sorted(s)) \subseteq ToSet(s)
    BY <1>0, <1>3, <1>4 DEF ToSet
  <1>10. IsInjective(Sorted(s))
    BY <1>3, <1>4, <1>5, <1>6, SMTT(30) DEF IsInjective
  <1> QED
    BY <1>8, <1>9, <1>10

\* A message more, after all the others.
LEMMA AppendAscends ==
    ASSUME NEW s \in Seq(Messages), Ascends(s), NEW m \in Messages,
           \A k \in ToSet(s) : k < m
    PROVE  Ascends(Append(s, m))
  <1>1. \A i \in 1 .. Len(s) : s[i] \in ToSet(s) /\ s[i] < m
    BY DEF ToSet
  <1>2. /\ Len(Append(s, m)) = Len(s) + 1 /\ Append(s, m)[Len(s) + 1] = m
        /\ \A i \in 1 .. Len(s) : Append(s, m)[i] = s[i]
    OBVIOUS
  <1> QED
    BY <1>1, <1>2 DEF Ascends

LEMMA AppendSet ==
    ASSUME NEW S, NEW s \in Seq(S), NEW m \in S
    PROVE  ToSet(Append(s, m)) = ToSet(s) \cup {m}
  <1>1. \A i \in 1 .. Len(s) : Append(s, m)[i] = s[i]
    OBVIOUS
  <1>2. Len(Append(s, m)) = Len(s) + 1 /\ Append(s, m)[Len(s) + 1] = m
    OBVIOUS
  <1>3. DOMAIN Append(s, m) = 1 .. Len(s) + 1 /\ DOMAIN s = 1 .. Len(s)
    OBVIOUS
  <1>4. \A x \in ToSet(s) : x \in ToSet(Append(s, m))
    BY <1>1, <1>3 DEF ToSet
  <1>5. m \in ToSet(Append(s, m))
    BY <1>2, <1>3 DEF ToSet
  <1>6. \A x \in ToSet(Append(s, m)) : x \in ToSet(s) \/ x = m
    BY <1>1, <1>2, <1>3 DEF ToSet
  <1> QED
    BY <1>4, <1>5, <1>6

-----------------------------------------------------------------------------
(* Chats *)

\* What the visits hold only grows, and a chat stays right.
LEMMA ChatGrows ==
    ASSUME NEW c, NEW v, NEW m1, NEW m2, ChatOk(c, v, m1),
           \A w \in Visits : ToSet(m1[w]) \subseteq ToSet(m2[w])
    PROVE  ChatOk(c, v, m2)
  <1>1. \A f \in c.fetch : f.visit \in Visits
    BY DEF ChatOk, Chats, Fetches
  <1> QED
    BY <1>1 DEF ChatOk

LEMMA NoChatOk ==
    ASSUME NEW v, NEW msgs
    PROVE  ChatOk(NoChat, v, msgs)
  BY DEF ChatOk, NoChat, Chats, Fetches, IsInjective, ToSet

\* A chat that starts for a visit, and may ask for its history.
LEMMA ConnectingOk ==
    ASSUME NEW v \in Visits, NEW msgs, NEW F \in {{}, {Fetch(v)}},
           NEW c \in {Connecting, [Connecting EXCEPT !.fetch = F]}
    PROVE  ChatOk(c, v, msgs) /\ c.sock = "connecting"
  <1>1. Fetch(v) \in Fetches /\ Fetch(v).visit = v /\ Fetch(v).res = <<>>
    BY DEF Fetch, Fetches
  <1>2. NoChat \in Chats
    BY DEF NoChat, Chats
  <1>3. /\ c \in Chats
        /\ c.sock = "connecting" /\ c.shown = <<>> /\ c.seen = {} /\ c.fetch \in {{}, F}
    BY <1>1, <1>2, ZenonT(40) DEF Connecting, NoChat, Chats
  <1>4. ToSet(<<>>) = {} /\ IsInjective(<<>>) /\ Ascends(<<>>)
    BY DEF ToSet, IsInjective, Ascends
  <1> QED
    BY <1>1, <1>3, <1>4 DEF ChatOk

\* A message that arrives live is shown unless it is known.
LEMMA LiveOk ==
    ASSUME NEW c, NEW v, NEW msgs, ChatOk(c, v, msgs), c.sock = "open",
           NEW m \in Messages, m \in ToSet(msgs[v])
    PROVE  ChatOk(Live([c EXCEPT !.at = @ + 1], m), v, msgs)
           /\ Live([c EXCEPT !.at = @ + 1], m).sock = "open"
  <1> DEFINE d == [c EXCEPT !.at = @ + 1]
             e == Live(d, m)
  <1>1. c \in Chats
    BY DEF ChatOk
  <1>2. d \in Chats /\ d.sock = "open" /\ d.shown = c.shown /\ d.seen = c.seen
        /\ d.fetch = c.fetch
    BY <1>1 DEF Chats
  <1>3. CASE m \in c.seen
    <2>1. e = d
      BY <1>2, <1>3 DEF Live
    <2> HIDE DEF d
    <2>2. ChatOk(d, v, msgs)
      BY <1>2 DEF ChatOk
    <2> QED
      BY <1>2, <2>1, <2>2 DEF d
  <1>4. CASE m \notin c.seen
    <2>1. e = [d EXCEPT !.shown = Append(@, m), !.seen = @ \cup {m}]
      BY <1>2, <1>4 DEF Live
    <2> HIDE DEF e, d
    <2>2. /\ e \in Chats /\ e.sock = "open" /\ e.fetch = c.fetch
          /\ e.shown = Append(c.shown, m) /\ e.seen = c.seen \cup {m}
      <3>1. d.shown \in Seq(Messages) /\ d.seen \in SUBSET Messages
        BY <1>2 DEF Chats
      <3>2. Append(d.shown, m) \in Seq(Messages) /\ d.seen \cup {m} \in SUBSET Messages
        BY <3>1
      <3> QED
        BY <1>2, <2>1, <3>2 DEF Chats
    <2>3. c.shown \in Seq(Messages) /\ ToSet(c.shown) \subseteq c.seen
      BY <1>1 DEF ChatOk, Chats
    <2>4. ToSet(e.shown) = ToSet(c.shown) \cup {m} /\ m \notin ToSet(c.shown)
      BY <1>4, <2>2, <2>3, AppendSet
    <2>5. IsInjective(e.shown)
      <3>1. /\ Len(e.shown) = Len(c.shown) + 1 /\ e.shown[Len(c.shown) + 1] = m
            /\ DOMAIN e.shown = 1 .. Len(c.shown) + 1 /\ DOMAIN c.shown = 1 .. Len(c.shown)
            /\ \A i \in 1 .. Len(c.shown) : e.shown[i] = c.shown[i] /\ c.shown[i] # m
            /\ Len(c.shown) \in Nat
        BY <2>2, <2>3, <2>4 DEF ToSet
      <3>2. \A i, j \in 1 .. Len(c.shown) : c.shown[i] = c.shown[j] => i = j
        BY <3>1 DEF ChatOk, IsInjective
      <3>3. \A i, j \in 1 .. Len(c.shown) + 1 : e.shown[i] = e.shown[j] => i = j
        <4>1. \A i \in 1 .. Len(c.shown) + 1 :
                  i \in 1 .. Len(c.shown) \/ i = Len(c.shown) + 1
          BY <3>1
        <4> QED BY <3>1, <3>2, <4>1
      <3> QED
        BY <3>1, <3>3 DEF IsInjective
    <2>6. ChatOk(e, v, msgs)
      BY <2>2, <2>4, <2>5 DEF ChatOk
    <2> QED
      BY <2>2, <2>6 DEF e, d
  <1> QED
    BY <1>3, <1>4

\* The answer of a fetch takes the place of what is shown.
LEMMA HistoryOk ==
    ASSUME NEW u, NEW c, NEW v, NEW msgs, ChatOk(c, v, msgs), NEW f \in c.fetch
    PROVE  ChatOk(History(u, c, f.res), v, msgs) /\ History(u, c, f.res).sock = c.sock
  <1> DEFINE e == History(u, c, f.res)
             known == c.seen \cup ToSet(f.res)
             sh == IF u = Host THEN Sorted(f.res) ELSE f.res
  <1>1. /\ c \in Chats /\ f.res \in Seq(Messages) /\ Ascends(f.res)
        /\ c.shown \in Seq(Messages) /\ c.seen \in SUBSET Messages
        /\ ToSet(f.res) \subseteq ToSet(msgs[v]) /\ c.sock # "none"
    <2>1. c \in Chats /\ f.visit = v /\ Ascends(f.res)
          /\ ToSet(f.res) \subseteq ToSet(msgs[f.visit])
      BY DEF ChatOk
    <2>2. f \in Fetches /\ c.shown \in Seq(Messages) /\ c.seen \in SUBSET Messages
      BY <2>1 DEF Chats
    <2>3. f.res \in Seq(Messages)
      BY <2>2 DEF Fetches
    <2>4. NoChat.fetch = {}
      BY DEF NoChat
    <2>5. c.sock # "none"
      BY <2>4 DEF ChatOk
    <2> QED
      BY <2>1, <2>2, <2>3, <2>5
  <1>2. ToSet(f.res) \subseteq Messages
    BY <1>1 DEF ToSet
  <1>3. Kept(c.shown, known) = <<>>
    BY <1>1, KeptNone DEF ChatOk
  <1>4. f.res \o <<>> = f.res
    BY <1>1
  <1>5. e = [c EXCEPT !.shown = sh, !.seen = known, !.fetch = {}]
    BY <1>3, <1>4 DEF History, HostHistory, VisitorHistory
  <1>6. sh \in Seq(Messages) /\ ToSet(sh) \subseteq ToSet(f.res) /\ IsInjective(sh)
    <2>1. CASE u = Host
      BY <1>1, <2>1, SortedOf
    <2>2. CASE u # Host
      <3>1. \A i \in 1 .. Len(f.res) : f.res[i] \in Nat
        BY <1>1 DEF Messages
      <3> QED
        BY <1>1, <2>2, <3>1, SMTT(30) DEF IsInjective, Ascends
    <2> QED BY <2>1, <2>2
  <1> HIDE DEF sh
  <1>7. /\ e \in Chats /\ e.sock = c.sock /\ e.shown = sh /\ e.seen = known /\ e.fetch = {}
    BY <1>1, <1>2, <1>5, <1>6 DEF Chats
  <1> HIDE DEF e
  <1>8. v \in Visits /\ ToSet(sh) \subseteq ToSet(msgs[v])
    BY <1>1, <1>6 DEF ChatOk
  <1>9. ToSet(e.shown) \subseteq e.seen /\ IsInjective(e.shown) /\ e.sock # "none"
    BY <1>1, <1>6, <1>7
  <1> QED
    BY <1>7, <1>8, <1>9 DEF ChatOk, e

-----------------------------------------------------------------------------
(* Pages *)

\* A page may get another chat of the same visit.
LEMMA ChatPage ==
    ASSUME NEW u, NEW pg, NEW vis, NEW msgs, PageOk(u, pg, vis, msgs),
           NEW c, ChatOk(c, pg.visit, msgs), (c.sock = "none") <=> (pg.chat.sock = "none")
    PROVE  PageOk(u, [pg EXCEPT !.chat = c], vis, msgs)
  <1> DEFINE q == [pg EXCEPT !.chat = c]
  <1>1. pg \in Pages /\ c \in Chats
    BY DEF PageOk, ChatOk
  <1>2. /\ q \in Pages /\ q.chat = c /\ q.visit = pg.visit /\ q.view = pg.view
    BY <1>1 DEF Pages
  <1> HIDE DEF q
  <1>3. PageOk(u, q, vis, msgs)
    BY <1>2 DEF PageOk, OwnerOk
  <1> QED
    BY <1>3 DEF q

\* A visitor's page may go to another view on the same side of the island's shore.
LEMMA ViewPage ==
    ASSUME NEW u, u # Host, NEW pg, NEW vis, NEW msgs, PageOk(u, pg, vis, msgs),
           NEW w \in {"world", "asking", "entering", "leaving", "closing"},
           w \in Island <=> pg.view \in Island
    PROVE  PageOk(u, [pg EXCEPT !.view = w], vis, msgs)
  <1> DEFINE q == [pg EXCEPT !.view = w]
  <1>1. pg \in Pages
    BY DEF PageOk
  <1>2. /\ q \in Pages /\ q.chat = pg.chat /\ q.visit = pg.visit /\ q.view = w
    BY <1>1 DEF Pages
  <1> HIDE DEF q
  <1>3. PageOk(u, q, vis, msgs)
    BY <1>2 DEF PageOk, OwnerOk
  <1> QED
    BY <1>3 DEF q

\* A page that was just loaded.
LEMMA LoadedPage ==
    ASSUME NEW u, NEW vis, NEW msgs, NEW b \in BOOLEAN
    PROVE  PageOk(u, [Page EXCEPT !.fresh = b], vis, msgs) /\ PageOk(u, Page, vis, msgs)
  <1> DEFINE q == [Page EXCEPT !.fresh = b]
  <1>1. NoChat \in Chats /\ NoChat.sock = "none"
    BY DEF NoChat, Chats
  <1>2. /\ Page \in Pages /\ Page.chat = NoChat /\ Page.visit = NoVisit /\ Page.view = "world"
    BY <1>1 DEF Page, Pages, NoVisit
  <1>3. /\ q \in Pages /\ q.chat = NoChat /\ q.visit = NoVisit /\ q.view = "world"
    BY <1>2 DEF Pages
  <1> HIDE DEF q
  <1>4. PageOk(u, q, vis, msgs) /\ PageOk(u, Page, vis, msgs)
    BY <1>1, <1>2, <1>3, NoChatOk DEF PageOk, OwnerOk, Island
  <1> QED
    BY <1>4 DEF q

\* Visits may begin, be arrived at and, when nobody's page plays in them, end.
VisitsKeep(u, pg, vis, vis2) ==
    pg.visit \in Visits /\ vis[pg.visit].visitor = u /\ vis[pg.visit].status # "none" =>
        /\ vis2[pg.visit].visitor = u /\ vis2[pg.visit].status # "none"
        /\ vis[pg.visit].status \in {"active", "arrived"} /\ pg.view = "island" =>
              vis2[pg.visit].status \in {"active", "arrived"}

LEMMA PageKeeps ==
    ASSUME NEW u, NEW pg, NEW vis, NEW msgs, PageOk(u, pg, vis, msgs),
           NEW vis2, VisitsKeep(u, pg, vis, vis2), NEW msgs2,
           \A w \in Visits : ToSet(msgs[w]) \subseteq ToSet(msgs2[w])
    PROVE  PageOk(u, pg, vis2, msgs2)
  <1>1. ChatOk(pg.chat, pg.visit, msgs2)
    BY ChatGrows DEF PageOk
  <1>2. OwnerOk(u, pg, vis2)
    BY DEF PageOk, OwnerOk, VisitsKeep, Island
  <1> QED
    BY <1>1, <1>2 DEF PageOk

\* One page changes, and the services hold what they held.
LEMMA OnePage ==
    ASSUME PagesOk, UNCHANGED <<visit, dm>>, NEW u \in Users, NEW pg,
           tab' = [tab EXCEPT ![u] = pg], PageOk(u, pg, visit, dm)
    PROVE  PagesOk'
  <1>1. tab = [w \in Users |-> tab[w]]
    BY DEF PagesOk
  <1>2. \A w \in Users : PageOk(w, tab'[w], visit, dm)
    BY <1>1 DEF PagesOk
  <1>3. tab' = [w \in Users |-> tab'[w]]
    BY <1>1
  <1> QED
    BY <1>2, <1>3 DEF PagesOk

\* A fault costs no messages.
LEMMA BudgetKeeps ==
    ASSUME ServiceShapes, UNCHANGED budget \/ Fails
    PROVE  budget' \in Purses /\ budget'.messages = budget.messages
  <1>1. budget \in Purses
    BY DEF ServiceShapes
  <1>2. CASE Fails
    <2>1. budget.faults \in Nat /\ budget.faults > 0
      BY <1>1, <1>2 DEF Fails, Purses
    <2>2. budget.faults - 1 \in Nat /\ budget' = [budget EXCEPT !.faults = budget.faults - 1]
      BY <1>2, <2>1 DEF Fails
    <2> QED
      BY <1>1, <2>2 DEF Purses
  <1> QED
    BY <1>1, <1>2

\* A step that leaves the services as they are, but for the host's channel.
LEMMA ServiceKeeps ==
    ASSUME ServiceOk, UNCHANGED <<visit, dm, stream, arrivals, sent, due>>,
           inbox' \in {inbox, <<>>}, UNCHANGED budget \/ Fails
    PROVE  ServiceOk'
  <1>1. budget' \in Purses /\ budget'.messages = budget.messages
    BY BudgetKeeps DEF ServiceOk
  <1>2. inbox' \in Seq(Events)
    <2>1. inbox \in Seq(Events) /\ <<>> \in Seq(Events)
      BY DEF ServiceOk, ServiceShapes
    <2> QED BY <2>1
  <1>3. ServiceShapes'
    BY <1>1, <1>2 DEF ServiceOk, ServiceShapes
  <1>4. Numbered'
    BY <1>1 DEF ServiceOk, Numbered, Ever, Frames
  <1>5. Stored'
    BY DEF ServiceOk, Stored
  <1>6. EndsAreTrue'
    BY DEF ServiceOk, EndsAreTrue
  <1> QED
    BY <1>3, <1>4, <1>5, <1>6 DEF ServiceOk

-----------------------------------------------------------------------------
(* Steps of one page *)

\* A page gets another chat of its visit.
LEMMA ChatStep ==
    ASSUME IInv, NEW u \in Users, UNCHANGED service, UNCHANGED budget \/ Fails,
           NEW c, ChatOk(c, tab[u].visit, dm), (c.sock = "none") <=> (tab[u].chat.sock = "none"),
           tab' = [tab EXCEPT ![u] = [tab[u] EXCEPT !.chat = c]]
    PROVE  IInv'
  <1>1. PageOk(u, [tab[u] EXCEPT !.chat = c], visit, dm)
    BY ChatPage DEF IInv, PagesOk
  <1>2. PagesOk'
    BY <1>1, OnePage DEF IInv, service
  <1>3. ServiceOk'
    BY ServiceKeeps DEF IInv, service
  <1> QED
    BY <1>2, <1>3 DEF IInv

\* The chat of a page, and that there is one.
LEMMA PageChat ==
    ASSUME IInv, NEW u \in Users
    PROVE  /\ tab[u] \in Pages /\ tab[u].chat \in Chats
           /\ ChatOk(tab[u].chat, tab[u].visit, dm)
           /\ tab[u].chat.sock # "none" => tab[u].visit \in Visits
  <1>1. tab[u] \in Pages /\ ChatOk(tab[u].chat, tab[u].visit, dm)
    BY DEF IInv, PagesOk, PageOk
  <1> QED
    BY <1>1 DEF ChatOk

\* The socket's end does not change what the chat shows.
LEMMA SocketStep ==
    ASSUME IInv, NEW u \in Users, Open(u) \/ Drop(u)
    PROVE  IInv'
  <1> DEFINE c == tab[u].chat
  <1>1. PICK s \in {"open", "closed"} :
          /\ tab' = [tab EXCEPT ![u].chat.sock = s]
          /\ c.sock # "none" /\ UNCHANGED service /\ (UNCHANGED budget \/ Fails)
    BY DEF Open, Drop
  <1> DEFINE d == [c EXCEPT !.sock = s]
  <1>2. c \in Chats /\ ChatOk(c, tab[u].visit, dm)
    BY PageChat
  <1>3. /\ d \in Chats /\ d.sock = s /\ d.shown = c.shown /\ d.seen = c.seen
        /\ d.fetch = c.fetch
    BY <1>2 DEF Chats
  <1>4. tab' = [tab EXCEPT ![u] = [tab[u] EXCEPT !.chat = d]]
    BY <1>1
  <1> HIDE DEF d
  <1>5. ChatOk(d, tab[u].visit, dm)
    BY <1>1, <1>2, <1>3 DEF ChatOk
  <1> QED
    BY <1>1, <1>3, <1>4, <1>5, ChatStep

LEMMA DeliverStep ==
    ASSUME IInv, NEW u \in Users, Deliver(u)
    PROVE  IInv'
  <1> DEFINE c == tab[u].chat
             v == tab[u].visit
             m == stream[v][c.at + 1]
             d == Live([c EXCEPT !.at = @ + 1], m)
  <1>1. c \in Chats /\ ChatOk(c, v, dm) /\ c.sock = "open" /\ v \in Visits
    BY PageChat DEF Deliver
  <1>2. c.at + 1 \in 1 .. Len(stream[v]) /\ stream[v] \in Seq(Messages)
    BY <1>1, SMTT(30) DEF Deliver, Chats, IInv, ServiceOk, ServiceShapes
  <1>3. m \in Messages /\ m \in ToSet(dm[v])
    <2>1. m \in ToSet(stream[v]) /\ m \in Messages
      BY <1>2 DEF ToSet
    <2>2. ToSet(stream[v]) \subseteq ToSet(dm[v])
      BY <1>1 DEF IInv, ServiceOk, Stored
    <2> QED
      BY <2>1, <2>2
  <1>4. tab' = [tab EXCEPT ![u] = [tab[u] EXCEPT !.chat = d]] /\ UNCHANGED <<service, budget>>
    BY DEF Deliver
  <1>5. ChatOk(d, v, dm) /\ d.sock = "open"
    BY <1>1, <1>3, LiveOk
  <1> QED
    BY <1>1, <1>4, <1>5, ChatStep

\* The messages that a fetch answers with are those the visit holds then.
LEMMA FetchStep ==
    ASSUME IInv, NEW u \in Users, ServeFetch(u) \/ FetchAnswer(u)
    PROVE  IInv'
  <1> DEFINE c == tab[u].chat
             v == tab[u].visit
  <1>1. c \in Chats /\ ChatOk(c, v, dm)
    BY PageChat
  <1>2. ASSUME NEW F \in SUBSET Fetches, c.fetch # {},
               \A f \in F : f.visit = v /\ Ascends(f.res) /\ ToSet(f.res) \subseteq ToSet(dm[v]),
               tab' = [tab EXCEPT ![u].chat.fetch = F],
               UNCHANGED service, UNCHANGED budget \/ Fails
        PROVE  IInv'
    <2> DEFINE d == [c EXCEPT !.fetch = F]
    <2>1. c.sock # "none"
      BY <1>1, <1>2 DEF ChatOk, NoChat
    <2>2. /\ d \in Chats /\ d.sock = c.sock /\ d.shown = c.shown /\ d.seen = c.seen
          /\ d.fetch = F
      BY <1>1, <1>2 DEF Chats
    <2>3. tab' = [tab EXCEPT ![u] = [tab[u] EXCEPT !.chat = d]]
      BY <1>2
    <2> HIDE DEF d
    <2>4. ChatOk(d, v, dm)
      BY <1>1, <1>2, <2>1, <2>2 DEF ChatOk
    <2> QED
      BY <1>2, <2>2, <2>3, <2>4, ChatStep
  <1>3. CASE ServeFetch(u)
    <2>1. PICK f \in c.fetch :
            /\ tab' = [tab EXCEPT ![u].chat.fetch = (c.fetch \ {f}) \cup
                         {[f EXCEPT !.served = TRUE, !.res = dm[f.visit]]}]
            /\ UNCHANGED <<service, budget>>
      BY <1>3 DEF ServeFetch
    <2> DEFINE g == [f EXCEPT !.served = TRUE, !.res = dm[f.visit]]
               F == (c.fetch \ {f}) \cup {g}
    <2>2. f \in Fetches /\ f.visit = v /\ v \in Visits
      BY <1>1 DEF ChatOk, Chats, Fetches
    <2>3. dm[v] \in Seq(Messages) /\ Ascends(dm[v])
      BY <2>2 DEF IInv, ServiceOk, ServiceShapes, Numbered
    <2>4. g \in Fetches /\ g.visit = v /\ g.res = dm[v]
      BY <2>2, <2>3 DEF Fetches
    <2> HIDE DEF g
    <2>5. F \in SUBSET Fetches
      BY <1>1, <2>4 DEF Chats
    <2>6. \A h \in F : h.visit = v /\ Ascends(h.res) /\ ToSet(h.res) \subseteq ToSet(dm[v])
      BY <1>1, <2>3, <2>4 DEF ChatOk
    <2>7. tab' = [tab EXCEPT ![u].chat.fetch = F]
      BY <2>1 DEF g
    <2> HIDE DEF F
    <2> QED
      BY <1>2, <2>1, <2>5, <2>6, <2>7
  <1>4. CASE FetchAnswer(u)
    <2>1. PICK f \in c.fetch :
            \/ /\ tab' = [tab EXCEPT ![u].chat = History(u, c, f.res)]
               /\ UNCHANGED <<service, budget>>
            \/ /\ Fails
               /\ tab' = [tab EXCEPT ![u].chat.fetch = c.fetch \ {f}]
               /\ UNCHANGED service
      BY <1>4 DEF FetchAnswer
    <2>2. CASE tab' = [tab EXCEPT ![u].chat = History(u, c, f.res)] /\ UNCHANGED <<service, budget>>
      <3>1. ChatOk(History(u, c, f.res), v, dm) /\ History(u, c, f.res).sock = c.sock
        <4> HIDE DEF c, v
        <4> QED BY <1>1, HistoryOk, Zenon
      <3>2. tab' = [tab EXCEPT ![u] = [tab[u] EXCEPT !.chat = History(u, c, f.res)]]
        BY <2>2
      <3> QED
        BY <2>2, <3>1, <3>2, ChatStep
    <2>3. CASE /\ Fails
               /\ tab' = [tab EXCEPT ![u].chat.fetch = c.fetch \ {f}]
               /\ UNCHANGED service
      <3>1. c.fetch \ {f} \in SUBSET Fetches
        BY <1>1 DEF Chats
      <3>2. \A h \in c.fetch \ {f} :
               h.visit = v /\ Ascends(h.res) /\ ToSet(h.res) \subseteq ToSet(dm[v])
        BY <1>1 DEF ChatOk
      <3> QED
        BY <1>2, <2>3, <3>1, <3>2
    <2> QED
      BY <2>1, <2>2, <2>3
  <1> QED
    BY <1>3, <1>4

-----------------------------------------------------------------------------
(* Steps of the visitor *)

\* A step that changes one page, and of the services the host's channel at most.
LEMMA PageStep ==
    ASSUME IInv, NEW u \in Users, NEW pg, PageOk(u, pg, visit, dm),
           tab' = [tab EXCEPT ![u] = pg],
           UNCHANGED <<visit, dm, stream, arrivals, sent, due>>,
           inbox' \in {inbox, <<>>}, UNCHANGED budget \/ Fails
    PROVE  IInv'
  <1>1. PagesOk'
    BY OnePage DEF IInv
  <1>2. ServiceOk'
    BY ServiceKeeps DEF IInv
  <1> QED
    BY <1>1, <1>2 DEF IInv

LEMMA ReloadStep ==
    ASSUME IInv, NEW u \in Users, Reload(u)
    PROVE  IInv'
  <1>1. (u # Host) \in BOOLEAN
    OBVIOUS
  <1>2. PageOk(u, [Page EXCEPT !.fresh = u # Host], visit, dm)
    BY <1>1, LoadedPage
  <1> QED
    BY <1>2, PageStep DEF Reload

LEMMA VisitorIsUser ==
    ASSUME IInv, NEW a \in budget.who
    PROVE  a \in Visitors /\ a \in Users /\ a # Host
  BY DEF IInv, ServiceOk, ServiceShapes, Purses, Users

LEMMA ViewStep ==
    ASSUME IInv, NEW a \in budget.who,
           RequestVisit(a) \/ CancelRequest(a) \/ StartVisit(a) \/ Leave(a)
    PROVE  IInv'
  <1>1. PICK w \in {"world", "asking", "entering", "leaving"} :
          /\ w \in Island <=> tab[a].view \in Island
          /\ At(a, w) /\ UNCHANGED <<service, budget>>
    BY DEF RequestVisit, CancelRequest, StartVisit, Leave, Island
  <1>2. a \in Users /\ a # Host
    BY VisitorIsUser
  <1>3. PageOk(a, tab[a], visit, dm)
    BY <1>2 DEF IInv, PagesOk
  <1>4. PageOk(a, [tab[a] EXCEPT !.view = w], visit, dm)
    BY <1>1, <1>2, <1>3, ViewPage
  <1>5. tab' = [tab EXCEPT ![a] = [tab[a] EXCEPT !.view = w]]
    BY <1>1 DEF At
  <1> QED
    BY <1>1, <1>2, <1>4, <1>5, PageStep DEF service

LEMMA LeftStep ==
    ASSUME IInv, NEW a \in budget.who, Left(a)
    PROVE  IInv'
  <1>1. a \in Users
    BY VisitorIsUser
  <1>2. PageOk(a, Page, visit, dm)
    BY LoadedPage
  <1>3. /\ tab' = [tab EXCEPT ![a] = Page]
        /\ UNCHANGED service /\ (UNCHANGED budget \/ Fails)
    BY DEF Left
  <1> QED
    BY <1>1, <1>2, <1>3, PageStep DEF service

LEMMA HearArrivalStep ==
    ASSUME IInv, NEW a \in budget.who, HearArrival(a)
    PROVE  IInv'
  <1> DEFINE t == tab[a]
             F == {Fetch(t.visit)}
             d == [t.chat EXCEPT !.fetch = F]
             q == [t EXCEPT !.status = "arrived", !.chat = d]
  <1>1. a \in Users /\ a # Host
    BY VisitorIsUser
  <1>2. /\ t \in Pages /\ t.chat \in Chats /\ ChatOk(t.chat, t.visit, dm)
        /\ t.chat.sock = "open" /\ t.visit \in Visits
    BY <1>1, PageChat DEF HearArrival
  <1>3. /\ tab' = [tab EXCEPT ![a] = q] /\ UNCHANGED <<service, budget>>
    BY <1>1 DEF HearArrival, Cancelled
  <1>4. /\ Fetch(t.visit) \in Fetches /\ Fetch(t.visit).visit = t.visit
        /\ Fetch(t.visit).res = <<>>
    BY <1>2 DEF Fetch, Fetches
  <1> HIDE DEF t
  <1>5. /\ d \in Chats /\ d.sock = "open" /\ d.shown = t.chat.shown
        /\ d.seen = t.chat.seen /\ d.fetch = F
    BY <1>2, <1>4 DEF Chats
  <1>6. ToSet(<<>>) = {} /\ Ascends(<<>>)
    BY DEF ToSet, Ascends
  <1> HIDE DEF d
  <1>7. ChatOk(d, t.visit, dm)
    BY <1>2, <1>4, <1>5, <1>6 DEF ChatOk
  <1>8. /\ q \in Pages /\ q.chat = d /\ q.visit = t.visit /\ q.view = t.view
    BY <1>2, <1>5 DEF Pages
  <1>9. PageOk(a, t, visit, dm)
    BY <1>1 DEF IInv, PagesOk, t
  <1> HIDE DEF q
  <1>10. PageOk(a, q, visit, dm)
    BY <1>1, <1>2, <1>5, <1>7, <1>8, <1>9 DEF PageOk, OwnerOk
  <1> QED
    BY <1>1, <1>3, <1>10, PageStep DEF service, d, q, t

-----------------------------------------------------------------------------
(* Messages are numbered *)

\* The messages stored, and those on their way, can be counted.
LEMMA Counted ==
    ASSUME ServiceShapes, Numbered
    PROVE  /\ IsFiniteSet(Frames) /\ Cardinality(Frames) \in Nat
           /\ IsFiniteSet(Ever) /\ Cardinality(Ever) \in Nat
           /\ budget.messages \in 0 .. MaxMessages
           /\ \A v \in Visits : ToSet(dm[v]) \subseteq Ever
  <1>1. IsFiniteSet(Frames)
    BY FS_Subset DEF Numbered, Frames
  <1>2. \A v \in Visits : ToSet(dm[v]) \subseteq Messages
    BY DEF ServiceShapes, ToSet
  <1>3. Ever \subseteq Messages
    BY <1>2 DEF Ever
  <1>4. IsFiniteSet(Messages)
    BY FS_Interval DEF Messages
  <1>5. IsFiniteSet(Ever)
    BY <1>3, <1>4, FS_Subset
  <1>6. budget.messages \in 0 .. MaxMessages
    BY DEF ServiceShapes, Purses
  <1>7. \A v \in Visits : ToSet(dm[v]) \subseteq Ever
    BY DEF Ever
  <1> QED
    BY <1>1, <1>5, <1>6, <1>7, FS_CardinalityType

\* No message is stored or sent.
LEMMA NumberedKeeps ==
    ASSUME ServiceShapes, Numbered, dm' = dm, budget'.messages = budget.messages,
           IsFiniteSet(sent'), Frames' \subseteq Frames
    PROVE  Numbered'
  <1>1. Ever' = Ever
    BY DEF Ever
  <1>2. Cardinality(Frames') <= Cardinality(Frames) /\ Cardinality(Frames') \in Nat
    BY Counted, FS_Subset, FS_CardinalityType
  <1>3. Cardinality(Ever) + Cardinality(Frames') <= budget.messages
    BY <1>2, Counted DEF Numbered
  <1> QED
    BY <1>1, <1>3 DEF Numbered

\* A frame that leaves the way to the gateway.
LEMMA FrameTaken ==
    ASSUME ServiceShapes, Numbered, NEW f \in sent, sent' = sent \ {f}
    PROVE  /\ sent' \subseteq SentFrames /\ IsFiniteSet(sent')
           /\ Frames' \subseteq Frames
           /\ f.kind = "dm" => Cardinality(Frames') = Cardinality(Frames) - 1
                               /\ Cardinality(Frames) >= 1
  <1>1. sent' \subseteq SentFrames
    BY DEF ServiceShapes
  <1>2. IsFiniteSet(sent')
    BY FS_Subset DEF Numbered
  <1>3. Frames' \subseteq Frames
    BY DEF Frames
  <1>4. ASSUME f.kind = "dm"
        PROVE  Cardinality(Frames') = Cardinality(Frames) - 1 /\ Cardinality(Frames) >= 1
    <2>1. f \in Frames /\ Frames' = Frames \ {f}
      BY <1>4 DEF Frames
    <2>2. Cardinality(Frames') = Cardinality(Frames) - 1
      BY <2>1, Counted, FS_RemoveElement
    <2>3. Cardinality(Frames') \in Nat
      BY <1>3, Counted, FS_Subset, FS_CardinalityType
    <2> QED
      BY <2>2, <2>3, Counted
  <1> QED
    BY <1>1, <1>2, <1>3, <1>4

\* The next message gets the next number, in whatever visit it is.
LEMMA MessageNumbered ==
    ASSUME ServiceShapes, Numbered, budget' = budget,
           NEW f \in sent, f.kind = "dm", sent' = sent \ {f},
           NEW v \in Visits, NEW next, next = 1 + Cardinality(Ever),
           dm' = [dm EXCEPT ![v] = Append(@, next)]
    PROVE  /\ Numbered' /\ next \in Messages /\ dm' \in [Visits -> Seq(Messages)]
           /\ \A w \in Visits : ToSet(dm[w]) \subseteq ToSet(dm'[w])
           /\ next \in ToSet(dm'[v])
  <1>1. next \in Messages /\ next \in Nat
    BY FrameTaken, Counted DEF Numbered, Messages
  <1>2. \A w \in Visits : dm[w] \in Seq(Messages) /\ Ascends(dm[w])
    BY DEF ServiceShapes, Numbered
  <1>3. dm' \in [Visits -> Seq(Messages)]
    BY <1>1, <1>2 DEF ServiceShapes
  <1>4. dm'[v] = Append(dm[v], next) /\ \A w \in Visits \ {v} : dm'[w] = dm[w]
    BY DEF ServiceShapes
  <1>5. ToSet(dm'[v]) = ToSet(dm[v]) \cup {next}
    BY <1>1, <1>2, <1>4, AppendSet
  <1>6. \A w \in Visits : ToSet(dm[w]) \subseteq ToSet(dm'[w])
    BY <1>4, <1>5
  <1>7. Ever' = Ever \cup {next}
    <2>1. \A k : k \in Ever' <=> \E w \in Visits : k \in ToSet(dm'[w])
      BY Zenon DEF Ever
    <2>2. \A k : k \in Ever <=> \E w \in Visits : k \in ToSet(dm[w])
      BY Zenon DEF Ever
    <2>3. \A k \in Ever : k \in Ever'
      BY <1>6, <2>1, <2>2, Zenon
    <2>4. next \in Ever'
      BY <1>5, <2>1
    <2>5. ASSUME NEW k \in Ever', k # next
          PROVE  k \in Ever
      BY <1>4, <1>5, <2>1, <2>2, <2>5
    <2> QED
      BY <2>3, <2>4, <2>5
  <1>8. next \notin Ever /\ Ever \cup {next} = 1 .. next
    BY Counted DEF Numbered
  <1>9. Cardinality(Ever') = next
    <2>1. Cardinality(Ever \cup {next}) = Cardinality(Ever) + 1
      BY <1>8, Counted, FS_AddElement
    <2> QED
      BY <1>7, <2>1, Counted
  <1>10. Ever' = 1 .. Cardinality(Ever')
    BY <1>7, <1>8, <1>9
  <1>11. Cardinality(Ever') + Cardinality(Frames') <= budget'.messages
    BY <1>9, FrameTaken, Counted DEF Numbered
  <1>12. \A w \in Visits : Ascends(dm'[w])
    <2>1. \A k \in ToSet(dm[v]) : k < next
      <3>1. \A k \in ToSet(dm[v]) : k \in 1 .. Cardinality(Ever)
        BY Counted DEF Numbered
      <3> QED BY <3>1, Counted
    <2>2. Ascends(dm'[v])
      BY <1>1, <1>2, <1>4, <2>1, AppendAscends
    <2> QED
      BY <1>2, <1>4, <2>2
  <1>13. Numbered'
    BY <1>10, <1>11, <1>12, FrameTaken DEF Numbered
  <1> QED
    BY <1>1, <1>3, <1>5, <1>6, <1>13

-----------------------------------------------------------------------------
(* Steps of the services *)

\* What is published, and was, is of visits.
LEMMA EventShapes ==
    ASSUME ServiceShapes
    PROVE  /\ \A d \in due : d.visit \in Visits
           /\ \A i \in 1 .. Len(inbox) : inbox[i] \in Events /\ inbox[i].visit \in Visits
  <1>1. \A d \in due : d.visit \in Visits
    BY DEF ServiceShapes, Dues
  <1>2. \A i \in 1 .. Len(inbox) : inbox[i] \in Events
    BY DEF ServiceShapes
  <1>3. \A e \in Events : e.visit \in Visits
    BY DEF Events
  <1> QED
    BY <1>1, <1>2, <1>3

\* Pages when what the services hold changes.
LEMMA OtherPages ==
    ASSUME PagesOk, \A w \in Users : VisitsKeep(w, tab[w], visit, visit'),
           \A w \in Visits : ToSet(dm[w]) \subseteq ToSet(dm'[w]),
           tab' = tab \/ (\E u \in Users : \E pg :
                               /\ tab' = [tab EXCEPT ![u] = pg]
                               /\ PageOk(u, pg, visit', dm'))
    PROVE  PagesOk'
  <1>1. tab = [w \in Users |-> tab[w]]
    BY DEF PagesOk
  <1>2. \A w \in Users : PageOk(w, tab[w], visit', dm')
    <2>1. SUFFICES ASSUME NEW w \in Users PROVE PageOk(w, tab[w], visit', dm')
      OBVIOUS
    <2>2. PageOk(w, tab[w], visit, dm) /\ VisitsKeep(w, tab[w], visit, visit')
      BY DEF PagesOk
    <2> QED
      BY <2>2, PageKeeps, Zenon
  <1>3. CASE tab' = tab
    BY <1>1, <1>2, <1>3 DEF PagesOk
  <1>4. CASE \E u \in Users : \E pg : /\ tab' = [tab EXCEPT ![u] = pg]
                                      /\ PageOk(u, pg, visit', dm')
    <2>0. PICK u \in Users : \E pg : /\ tab' = [tab EXCEPT ![u] = pg]
                                    /\ PageOk(u, pg, visit', dm')
      BY <1>4
    <2>1. PICK pg : tab' = [tab EXCEPT ![u] = pg] /\ PageOk(u, pg, visit', dm')
      BY <2>0
    <2>2. tab' = [w \in Users |-> tab'[w]]
      BY <1>1, <2>1
    <2>3. \A w \in Users : PageOk(w, tab'[w], visit', dm')
      BY <1>1, <1>2, <2>1
    <2> QED
      BY <2>2, <2>3 DEF PagesOk
  <1> QED
    BY <1>3, <1>4

\* A visit that was created, or that was there: nobody else's changes.
LEMMA CreateStep ==
    ASSUME IInv, NEW a \in budget.who, NEW v \in Visits, Create(a, v),
           UNCHANGED budget \/ Fails
    PROVE  /\ ServiceOk' /\ visit'[v].visitor = a
           /\ visit'[v].status \in {"active", "arrived"}
           /\ \A w \in Users : VisitsKeep(w, tab[w], visit, visit')
  <1>1. a \in Users /\ a # Host
    BY VisitorIsUser
  <1>2. visit \in [Visits -> [visitor : Users, status : {"none", "active", "arrived", "ended"}]]
    BY DEF IInv, ServiceOk, ServiceShapes
  <1>3. \/ /\ visit' = visit /\ visit[v].visitor = a
           /\ visit[v].status \in {"active", "arrived"}
        \/ /\ visit[v].status = "none"
           /\ visit' = [visit EXCEPT ![v] = [visitor |-> a, status |-> "active"]]
    <2>1. CASE v \in Current(a)
      <3>1. visit[v].visitor = a /\ visit[v].status # "ended" /\ visit[v].status # "none"
        BY <1>1, <2>1 DEF Current, IInv, ServiceOk, EndsAreTrue
      <3>2. v \notin New
        BY <3>1 DEF New
      <3>3. visit[v].status \in {"none", "active", "arrived", "ended"}
        BY <1>2
      <3> QED
        BY <3>1, <3>2, <3>3 DEF Create
    <2>2. CASE v \in New
      BY <2>2 DEF Create, New
    <2> QED
      BY <2>1, <2>2 DEF Create
  <1>4. \A w \in Visits : visit[w].status # "none" => visit'[w] = visit[w]
    BY <1>2, <1>3
  <1>5. /\ visit' \in [Visits -> [visitor : Users, status : {"none", "active", "arrived", "ended"}]]
        /\ visit'[v].visitor = a /\ visit'[v].status \in {"active", "arrived"}
        /\ \A w \in Visits : visit'[w].status = "none" => visit'[w].visitor = Host
    <2>1. [visitor |-> a, status |-> "active"]
             \in [visitor : Users, status : {"none", "active", "arrived", "ended"}]
      BY <1>1
    <2>2. \A w \in Visits : visit[w].status = "none" => visit[w].visitor = Host
      BY DEF IInv, ServiceOk, EndsAreTrue
    <2> QED
      BY <1>2, <1>3, <2>1, <2>2
  <1>6. \A w \in Users : VisitsKeep(w, tab[w], visit, visit')
    BY <1>4 DEF VisitsKeep
  <1>7. UNCHANGED <<dm, stream, arrivals, sent, due, inbox>>
    BY DEF Create
  <1>8. ServiceShapes' /\ Numbered'
    <2>1. budget' \in Purses /\ budget'.messages = budget.messages
      BY BudgetKeeps DEF IInv, ServiceOk
    <2>2. ServiceShapes'
      BY <1>5, <1>7, <2>1 DEF IInv, ServiceOk, ServiceShapes
    <2>3. Frames' = Frames
      BY <1>7 DEF Frames
    <2>4. Numbered'
      BY <1>7, <2>1, <2>3, NumberedKeeps DEF IInv, ServiceOk, Numbered
    <2> QED
      BY <2>2, <2>4
  <1>9. Stored'
    BY <1>7 DEF IInv, ServiceOk, Stored
  <1>10. EndsAreTrue'
    <2>1. /\ \A d \in due : d.visit \in Visits
          /\ \A i \in 1 .. Len(inbox) : inbox[i].visit \in Visits
      BY EventShapes DEF IInv, ServiceOk
    <2> QED
      BY <1>4, <1>5, <1>7, <2>1 DEF IInv, ServiceOk, EndsAreTrue
  <1> QED
    BY <1>5, <1>6, <1>8, <1>9, <1>10 DEF ServiceOk

LEMMA EnterStep ==
    ASSUME IInv, NEW a \in budget.who, Enter(a)
    PROVE  IInv'
  <1>1. PICK v \in Visits : Create(a, v) /\ tab' = [tab EXCEPT ![a] = Begun(a, v)]
    BY DEF Enter
  <1>2. /\ ServiceOk' /\ visit'[v].visitor = a
        /\ visit'[v].status \in {"active", "arrived"}
        /\ \A w \in Users : VisitsKeep(w, tab[w], visit, visit')
    BY <1>1, CreateStep DEF Enter
  <1>3. a \in Users /\ a # Host /\ tab[a] \in Pages /\ dm' = dm
    BY <1>1, VisitorIsUser, PageChat DEF Create
  <1>4. ChatOk(Connecting, v, dm') /\ Connecting.sock = "connecting"
    BY ConnectingOk
  <1> DEFINE q == Begun(a, v)
  <1>5. q \in Pages /\ q.chat = Connecting /\ q.visit = v /\ q.view = "island"
    <2>1. Connecting \in Chats
      BY <1>4 DEF ChatOk
    <2>2. v \in 0 .. MaxVisits
      BY DEF Visits
    <2> DEFINE t == tab[a]
    <2>3. t \in Pages
      BY <1>3
    <2>4. q = [t EXCEPT !.view = "island", !.visit = v, !.status = "active",
                         !.cleared = FALSE, !.chat = Connecting]
      BY DEF Begun
    <2> HIDE DEF t, q
    <2> QED
      BY <2>1, <2>2, <2>3, <2>4 DEF Pages
  <1> HIDE DEF q
  <1>6. PageOk(a, q, visit', dm')
    BY <1>2, <1>3, <1>4, <1>5 DEF PageOk, OwnerOk, Island
  <1>7. PagesOk'
    <2>1. tab' = [tab EXCEPT ![a] = q]
      BY <1>1 DEF q
    <2> QED
      BY <1>2, <1>3, <1>6, <2>1, OtherPages DEF IInv
  <1> QED
    BY <1>2, <1>7 DEF IInv

LEMMA EnterFailsStep ==
    ASSUME IInv, NEW a \in budget.who, EnterFails(a)
    PROVE  IInv'
  <1>1. a \in Users /\ a # Host /\ PageOk(a, tab[a], visit, dm)
    BY VisitorIsUser DEF IInv, PagesOk
  <1>2. "world" \in Island <=> tab[a].view \in Island
    BY DEF EnterFails, Island
  <1>3. PageOk(a, [tab[a] EXCEPT !.view = "world"], visit, dm)
    BY <1>1, <1>2, ViewPage
  <1>4. tab' = [tab EXCEPT ![a] = [tab[a] EXCEPT !.view = "world"]]
    BY DEF EnterFails, At
  <1>5. CASE UNCHANGED service
    BY <1>1, <1>3, <1>4, <1>5, PageStep DEF service, EnterFails
  <1>6. CASE \E v \in Visits : Create(a, v)
    <2>1. PICK v \in Visits : Create(a, v)
      BY <1>6
    <2>2. ServiceOk' /\ dm' = dm /\ \A w \in Users : VisitsKeep(w, tab[w], visit, visit')
      BY <2>1, CreateStep DEF EnterFails, Create
    <2> DEFINE q == [tab[a] EXCEPT !.view = "world"]
    <2>3. q.visit = tab[a].visit /\ q.view = "world"
      BY <1>1 DEF PageOk, Pages
    <2>4. VisitsKeep(a, q, visit, visit')
      BY <1>1, <2>2, <2>3 DEF VisitsKeep
    <2>5. PageOk(a, q, visit', dm')
      <3> HIDE DEF q
      <3>1. PageOk(a, q, visit, dm)
        BY <1>3 DEF q
      <3>2. \A w \in Visits : ToSet(dm[w]) \subseteq ToSet(dm'[w])
        BY <2>2
      <3> QED
        BY <2>4, <3>1, <3>2, PageKeeps, Zenon
    <2> HIDE DEF q
    <2>6. PagesOk'
      BY <1>1, <1>4, <2>2, <2>5, OtherPages DEF IInv, q
    <2> QED
      BY <2>2, <2>6 DEF IInv
  <1> QED
    BY <1>5, <1>6 DEF EnterFails

\* A frame more on its way: a message when one may still be sent.
LEMMA SendStep ==
    ASSUME IInv, NEW u \in Users, Say(u) \/ (u \in budget.who /\ Clear(u))
    PROVE  ServiceOk'
  <1>1. PICK k \in {"dm", "arrive"} :
          /\ sent' = Sent(k, u)
          /\ k = "dm" => Cardinality(Ever) + Cardinality(Frames) < budget.messages
          /\ UNCHANGED <<visit, dm, stream, arrivals, due, inbox, budget>>
    BY DEF Say, Clear
  <1> DEFINE fr == [kind |-> k, visit |-> tab[u].visit, from |-> u]
  <1>2. CASE sent' = sent
    <2>1. Frames' = Frames
      BY <1>2 DEF Frames
    <2>2. Numbered'
      BY <1>1, <1>2, <2>1, NumberedKeeps DEF IInv, ServiceOk, Numbered
    <2> QED
      BY <1>1, <1>2, <2>2 DEF IInv, ServiceOk, ServiceShapes, Stored, EndsAreTrue
  <1>3. CASE sent' # sent
    <2>1. sent' = sent \cup {fr} /\ tab[u].chat.sock = "open"
      BY <1>1, <1>3 DEF Sent
    <2>2. fr \in SentFrames /\ fr.kind = k
      BY <2>1, PageChat DEF SentFrames
    <2> HIDE DEF fr
    <2>3. sent' \subseteq SentFrames /\ IsFiniteSet(sent')
      BY <2>1, <2>2, FS_AddElement DEF IInv, ServiceOk, ServiceShapes, Numbered
    <2>4. Numbered'
      <3>1. CASE k = "arrive"
        <4>1. Frames' = Frames
          BY <2>1, <2>2, <3>1 DEF Frames
        <4> QED
          BY <1>1, <2>3, <4>1, NumberedKeeps DEF IInv, ServiceOk
      <3>2. CASE k = "dm"
        <4>1. Frames' = Frames \cup {fr} /\ Ever' = Ever
          BY <1>1, <2>1, <2>2, <3>2 DEF Frames, Ever
        <4>2. Cardinality(Frames') <= Cardinality(Frames) + 1 /\ Cardinality(Frames') \in Nat
          <5>1. Cardinality(Frames \cup {fr}) <= Cardinality(Frames) + 1
            <6>1. IsFiniteSet(Frames) /\ Cardinality(Frames) \in Nat
              BY Counted DEF IInv, ServiceOk
            <6>2. Cardinality(Frames \cup {fr}) =
                     IF fr \in Frames THEN Cardinality(Frames) ELSE Cardinality(Frames) + 1
              BY <6>1, FS_AddElement, Zenon
            <6> QED
              BY <6>1, <6>2
          <5>2. IsFiniteSet(Frames \cup {fr})
            BY Counted, FS_AddElement DEF IInv, ServiceOk
          <5> QED
            BY <4>1, <5>1, <5>2, FS_CardinalityType
        <4>3. Cardinality(Ever') + Cardinality(Frames') <= budget'.messages
          BY <1>1, <3>2, <4>1, <4>2, Counted DEF IInv, ServiceOk
        <4> QED
          BY <1>1, <2>3, <4>1, <4>3 DEF IInv, ServiceOk, Numbered
      <3> QED
        BY <3>1, <3>2
    <2> QED
      BY <1>1, <2>3, <2>4 DEF IInv, ServiceOk, ServiceShapes, Stored, EndsAreTrue
  <1> QED
    BY <1>2, <1>3

LEMMA SayStep ==
    ASSUME IInv, NEW u \in Users, Say(u)
    PROVE  IInv'
  <1>1. tab' = tab /\ UNCHANGED <<visit, dm>>
    BY DEF Say
  <1>2. PagesOk'
    BY <1>1 DEF IInv, PagesOk
  <1> QED
    BY <1>2, SendStep DEF IInv

LEMMA ClearStep ==
    ASSUME IInv, NEW a \in budget.who, Clear(a)
    PROVE  IInv'
  <1> DEFINE t == tab[a]
             q == [t EXCEPT !.cleared = TRUE]
  <1>1. a \in Users /\ t \in Pages /\ PageOk(a, t, visit, dm)
    BY VisitorIsUser DEF IInv, PagesOk, PageOk
  <1>2. tab' = [tab EXCEPT ![a] = q] /\ UNCHANGED <<visit, dm>>
    BY DEF Clear
  <1> HIDE DEF t
  <1>3. q \in Pages /\ q.chat = t.chat /\ q.visit = t.visit /\ q.view = t.view
    BY <1>1 DEF Pages
  <1> HIDE DEF q
  <1>4. PageOk(a, q, visit, dm)
    BY <1>1, <1>3 DEF PageOk, OwnerOk
  <1>5. PagesOk'
    BY <1>1, <1>2, <1>4, OnePage DEF IInv
  <1> QED
    BY <1>1, <1>5, SendStep DEF IInv

\* The visits' status goes on, never back, and a visit that ends is not played in.
LEMMA EndVisitStep ==
    ASSUME IInv, NEW a \in budget.who, EndVisit(a)
    PROVE  IInv'
  <1> DEFINE t == tab[a]
             v == t.visit
             q == [t EXCEPT !.view = "closing"]
             e == [kind |-> "ended", visit |-> v, from |-> a, msg |-> 0]
  <1>1. a \in Users /\ a # Host /\ t \in Pages /\ PageOk(a, t, visit, dm)
    BY VisitorIsUser DEF IInv, PagesOk, PageOk
  <1>2. /\ tab' = [tab EXCEPT ![a] = q] /\ t.view = "leaving"
        /\ UNCHANGED <<dm, stream, arrivals, sent, inbox, budget>>
        /\ \/ UNCHANGED <<visit, due>>
           \/ /\ visit[v].status # "ended"
              /\ visit' = [visit EXCEPT ![v].status = "ended"]
              /\ due' = due \cup {e}
    BY DEF EndVisit, At
  <1>3. v \in Visits /\ visit[v].visitor = a /\ visit[v].status # "none"
    BY <1>1, <1>2 DEF PageOk, OwnerOk, Island
  <1>4. PageOk(a, q, visit, dm)
    BY <1>1, <1>2, ViewPage DEF Island
  <1>5. q.visit = v /\ q.view = "closing"
    BY <1>1 DEF Pages
  <1>6. CASE UNCHANGED <<visit, due>>
    BY <1>1, <1>2, <1>4, <1>6, PageStep
  <1>7. CASE /\ visit' = [visit EXCEPT ![v].status = "ended"]
             /\ due' = due \cup {e}
    <2> HIDE DEF v, q
    <2>1. visit \in [Visits -> [visitor : Users, status : {"none", "active", "arrived", "ended"}]]
      BY DEF IInv, ServiceOk, ServiceShapes
    <2>2. /\ visit' \in [Visits -> [visitor : Users, status : {"none", "active", "arrived", "ended"}]]
          /\ visit'[v].visitor = a /\ visit'[v].status = "ended"
          /\ \A w \in Visits \ {v} : visit'[w] = visit[w]
      BY <1>3, <1>7, <2>1
    <2>3. e \in Dues /\ e.kind = "ended" /\ e.visit = v
      BY <1>1, <1>3 DEF Dues
    <2> HIDE DEF e
    <2>4. ServiceShapes'
      BY <1>2, <1>7, <2>2, <2>3 DEF IInv, ServiceOk, ServiceShapes
    <2>5. Numbered'
      <3>1. Frames' = Frames
        BY <1>2 DEF Frames
      <3> QED
        BY <1>2, <3>1, NumberedKeeps DEF IInv, ServiceOk, Numbered
    <2>6. Stored'
      BY <1>2, <1>7, <2>3 DEF IInv, ServiceOk, Stored
    <2>7. EndsAreTrue'
      <3>1. EndsAreTrue /\ \A d \in due : d.visit \in Visits
        BY EventShapes DEF IInv, ServiceOk
      <3>2. \A i \in 1 .. Len(inbox) : inbox[i].visit \in Visits
        BY EventShapes DEF IInv, ServiceOk
      <3> QED
        BY <1>2, <1>7, <2>2, <2>3, <3>1, <3>2 DEF EndsAreTrue
    <2>8. \A w \in Users \ {a} : VisitsKeep(w, tab[w], visit, visit')
      BY <1>3, <2>2 DEF VisitsKeep
    <2>9. VisitsKeep(a, tab[a], visit, visit') /\ VisitsKeep(a, q, visit, visit')
      BY <1>2, <1>3, <1>5, <2>2 DEF VisitsKeep
    <2>10. PageOk(a, q, visit', dm')
      <3>1. \A w \in Visits : ToSet(dm[w]) \subseteq ToSet(dm'[w])
        BY <1>2
      <3> QED
        BY <1>4, <2>9, <3>1, PageKeeps, Zenon
    <2>11. PagesOk'
      BY <1>1, <1>2, <2>8, <2>9, <2>10, OtherPages DEF IInv
    <2> QED
      BY <2>4, <2>5, <2>6, <2>7, <2>11 DEF IInv, ServiceOk
  <1> QED
    BY <1>2, <1>6, <1>7

LEMMA TakeArriveStep ==
    ASSUME IInv, NEW f \in sent, TakeArrive(f)
    PROVE  IInv'
  <1> DEFINE v == f.visit
             e == [kind |-> "arrived", visit |-> v, from |-> f.from, msg |-> 0]
  <1>1. f \in SentFrames /\ v \in Visits /\ f.from \in Users
    BY DEF IInv, ServiceOk, ServiceShapes, SentFrames
  <1>2. /\ sent' = sent \ {f}
        /\ UNCHANGED <<dm, stream, arrivals, inbox, tab, budget>>
        /\ \/ UNCHANGED <<visit, due>>
           \/ /\ visit[v].status = "active"
              /\ visit' = [visit EXCEPT ![v].status = "arrived"]
              /\ due' = due \cup {e}
    BY DEF TakeArrive, Take
  <1> HIDE DEF v
  <1>3. visit \in [Visits -> [visitor : Users, status : {"none", "active", "arrived", "ended"}]]
    BY DEF IInv, ServiceOk, ServiceShapes
  <1>4. /\ visit' \in [Visits -> [visitor : Users, status : {"none", "active", "arrived", "ended"}]]
        /\ visit'[v].visitor = visit[v].visitor
        /\ \/ visit'[v].status = visit[v].status
           \/ visit[v].status = "active" /\ visit'[v].status = "arrived"
        /\ \A w \in Visits \ {v} : visit'[w] = visit[w]
    <2>1. visit[v] \in [visitor : Users, status : {"none", "active", "arrived", "ended"}]
      BY <1>1, <1>3
    <2>2. CASE visit' = visit
      BY <1>3, <2>1, <2>2
    <2>3. CASE visit[v].status = "active" /\ visit' = [visit EXCEPT ![v].status = "arrived"]
      <3> DEFINE r == [visit[v] EXCEPT !.status = "arrived"]
      <3>1. /\ r \in [visitor : Users, status : {"none", "active", "arrived", "ended"}]
            /\ r.visitor = visit[v].visitor /\ r.status = "arrived"
        BY <2>1
      <3>2. visit' = [visit EXCEPT ![v] = r]
        BY <2>3
      <3> HIDE DEF r
      <3> QED
        BY <1>1, <1>3, <2>3, <3>1, <3>2
    <2> QED
      BY <1>2, <2>2, <2>3
  <1>5. e \in Dues /\ e.kind = "arrived"
    BY <1>1 DEF Dues
  <1> HIDE DEF e
  <1>6. ServiceShapes' /\ Numbered'
    <2>1. sent' \subseteq SentFrames /\ IsFiniteSet(sent') /\ Frames' \subseteq Frames
      BY <1>2, FrameTaken DEF IInv, ServiceOk
    <2>2. Numbered'
      BY <1>2, <2>1, NumberedKeeps DEF IInv, ServiceOk
    <2>3. due' \subseteq Dues
      BY <1>2, <1>5 DEF IInv, ServiceOk, ServiceShapes
    <2> QED
      BY <1>2, <1>4, <2>1, <2>2, <2>3 DEF IInv, ServiceOk, ServiceShapes
  <1>7. Stored'
    BY <1>2, <1>5 DEF IInv, ServiceOk, Stored
  <1>8. EndsAreTrue'
    <2>1. EndsAreTrue /\ \A d \in due : d.visit \in Visits
      BY EventShapes DEF IInv, ServiceOk
    <2>2. \A i \in 1 .. Len(inbox) : inbox[i].visit \in Visits
      BY EventShapes DEF IInv, ServiceOk
    <2> QED
      BY <1>1, <1>2, <1>4, <1>5, <2>1, <2>2 DEF EndsAreTrue
  <1>9. \A w \in Users : VisitsKeep(w, tab[w], visit, visit')
    BY <1>4 DEF VisitsKeep
  <1>10. PagesOk'
    BY <1>2, <1>9, OtherPages DEF IInv
  <1> QED
    BY <1>6, <1>7, <1>8, <1>10 DEF IInv, ServiceOk

LEMMA TakeMessageStep ==
    ASSUME IInv, NEW f \in sent, TakeMessage(f)
    PROVE  IInv'
  <1> DEFINE v == f.visit
             next == 1 + Cardinality(Ever)
             e == [kind |-> "dm", visit |-> v, from |-> f.from, msg |-> next]
  <1>1. f \in SentFrames /\ v \in Visits /\ f.from \in Users /\ f.kind = "dm"
    BY DEF IInv, ServiceOk, ServiceShapes, SentFrames, TakeMessage
  <1>2. /\ sent' = sent \ {f}
        /\ UNCHANGED <<visit, stream, arrivals, inbox, tab, budget>>
        /\ \/ UNCHANGED <<dm, due>>
           \/ /\ dm' = [dm EXCEPT ![v] = Append(@, next)]
              /\ due' = due \cup {e}
    BY DEF TakeMessage, Take
  <1> HIDE DEF v, next
  <1>3. /\ Numbered' /\ sent' \subseteq SentFrames /\ dm' \in [Visits -> Seq(Messages)]
        /\ \A w \in Visits : ToSet(dm[w]) \subseteq ToSet(dm'[w])
        /\ \/ UNCHANGED <<dm, due>>
           \/ next \in Messages /\ next \in ToSet(dm'[v]) /\ due' = due \cup {e}
    <2>1. sent' \subseteq SentFrames /\ IsFiniteSet(sent') /\ Frames' \subseteq Frames
      BY <1>2, FrameTaken DEF IInv, ServiceOk
    <2>2. CASE UNCHANGED <<dm, due>>
      <3>1. Numbered'
        BY <1>2, <2>1, <2>2, NumberedKeeps DEF IInv, ServiceOk
      <3> QED
        BY <2>1, <2>2, <3>1 DEF IInv, ServiceOk, ServiceShapes
    <2>3. CASE dm' = [dm EXCEPT ![v] = Append(@, next)] /\ due' = due \cup {e}
      <3>1. ServiceShapes /\ Numbered
        BY DEF IInv, ServiceOk
      <3>2. next = 1 + Cardinality(Ever)
        BY DEF next
      <3> QED
        BY <1>1, <1>2, <2>1, <2>3, <3>1, <3>2, MessageNumbered
    <2> QED
      BY <1>2, <2>2, <2>3
  <1>4. next \in Messages => e \in Dues
    BY <1>1 DEF Dues, Messages
  <1>5. e.kind = "dm" /\ e.visit = v /\ e.msg = next
    OBVIOUS
  <1> HIDE DEF e
  <1>6. ServiceShapes'
    <2>1. due' \subseteq Dues
      BY <1>3, <1>4 DEF IInv, ServiceOk, ServiceShapes
    <2> QED
      BY <1>2, <1>3, <2>1 DEF IInv, ServiceOk, ServiceShapes
  <1>7. Stored'
    <2>1. \A d \in due : d.visit \in Visits
      BY EventShapes DEF IInv, ServiceOk
    <2> QED
      BY <1>2, <1>3, <1>5, <2>1 DEF IInv, ServiceOk, Stored
  <1>8. EndsAreTrue'
    BY <1>2, <1>3, <1>5 DEF IInv, ServiceOk, EndsAreTrue
  <1>9. \A w \in Users : VisitsKeep(w, tab[w], visit, visit')
    BY <1>2 DEF VisitsKeep
  <1>10. PagesOk'
    BY <1>2, <1>3, <1>9, OtherPages DEF IInv
  <1> QED
    BY <1>3, <1>6, <1>7, <1>8, <1>10 DEF IInv, ServiceOk

\* What is published is what was committed, and the host's channel keeps it.
LEMMA PublishStep ==
    ASSUME IInv, NEW d \in due, Publish(d)
    PROVE  IInv'
  <1> DEFINE v == d.visit
             e == [type |-> d.kind, visit |-> v]
  <1>1. d \in Dues /\ v \in Visits
    BY DEF IInv, ServiceOk, ServiceShapes, Dues
  <1>2. /\ due' = due \ {d}
        /\ UNCHANGED <<visit, dm, sent, tab, budget>>
        /\ stream' = IF d.kind = "dm" THEN [stream EXCEPT ![v] = Append(@, d.msg)] ELSE stream
        /\ arrivals' \in {arrivals, arrivals \cup {v}}
        /\ inbox' = inbox \/ (d.kind # "dm" /\ inbox' = Append(inbox, e))
    <2>1. inbox \in Seq(Events)
      BY DEF IInv, ServiceOk, ServiceShapes
    <2>2. inbox \o <<>> = inbox /\ inbox \o <<e>> = Append(inbox, e)
      BY <2>1
    <2> QED
      BY <2>2 DEF Publish, Told
  <1>3. d.kind # "dm" => /\ e \in Events
                         /\ e.type = "ended" => visit[e.visit].status = "ended"
    BY <1>1 DEF Dues, Events, IInv, ServiceOk, EndsAreTrue
  <1>4. d.kind = "dm" => d.msg \in Messages /\ d.msg \in ToSet(dm[v])
    BY DEF IInv, ServiceOk, Stored
  <1> HIDE DEF v, e
  <1>5. /\ stream' \in [Visits -> Seq(Messages)]
        /\ \A w \in Visits : ToSet(stream'[w]) \subseteq ToSet(dm[w])
    <2>1. /\ stream \in [Visits -> Seq(Messages)]
          /\ \A w \in Visits : ToSet(stream[w]) \subseteq ToSet(dm[w])
      BY DEF IInv, ServiceOk, ServiceShapes, Stored
    <2>2. CASE d.kind = "dm"
      <3>1. ToSet(Append(stream[v], d.msg)) = ToSet(stream[v]) \cup {d.msg}
        BY <1>1, <1>4, <2>1, <2>2, AppendSet
      <3>2. stream' = [stream EXCEPT ![v] = Append(stream[v], d.msg)]
        BY <1>2, <2>2
      <3>3. Append(stream[v], d.msg) \in Seq(Messages)
        BY <1>1, <1>4, <2>1, <2>2
      <3> QED
        BY <1>1, <1>4, <2>1, <2>2, <3>1, <3>2, <3>3
    <2> QED
      BY <1>2, <2>1, <2>2
  <1>6. /\ inbox' \in Seq(Events)
        /\ \A i \in 1 .. Len(inbox') :
              inbox'[i].type = "ended" => visit[inbox'[i].visit].status = "ended"
    <2>1. /\ inbox \in Seq(Events)
          /\ \A i \in 1 .. Len(inbox) :
                inbox[i].type = "ended" => visit[inbox[i].visit].status = "ended"
      BY DEF IInv, ServiceOk, ServiceShapes, EndsAreTrue
    <2>2. CASE d.kind # "dm" /\ inbox' = Append(inbox, e)
      <3>1. /\ Len(inbox') = Len(inbox) + 1 /\ inbox'[Len(inbox) + 1] = e
            /\ \A i \in 1 .. Len(inbox) : inbox'[i] = inbox[i]
            /\ inbox' \in Seq(Events) /\ Len(inbox) \in Nat
        BY <1>3, <2>1, <2>2
      <3>2. \A i \in 1 .. Len(inbox') : i \in 1 .. Len(inbox) \/ i = Len(inbox) + 1
        BY <3>1
      <3> QED
        BY <1>3, <2>1, <2>2, <3>1, <3>2
    <2> QED
      BY <1>2, <2>1, <2>2
  <1>7. ServiceShapes'
    BY <1>1, <1>2, <1>5, <1>6 DEF IInv, ServiceOk, ServiceShapes
  <1>8. Numbered'
    <2>1. Frames' = Frames
      BY <1>2 DEF Frames
    <2> QED
      BY <1>2, <2>1, NumberedKeeps DEF IInv, ServiceOk, Numbered
  <1>9. Stored'
    BY <1>2, <1>5 DEF IInv, ServiceOk, Stored
  <1>10. EndsAreTrue'
    BY <1>2, <1>6 DEF IInv, ServiceOk, EndsAreTrue
  <1>11. PagesOk'
    BY <1>2 DEF IInv, PagesOk
  <1> QED
    BY <1>7, <1>8, <1>9, <1>10, <1>11 DEF IInv, ServiceOk

-----------------------------------------------------------------------------
(* Steps of the host *)

\* The host's chat is the one of its page's visit, or starts over with it.
LEMMA RestartedOk ==
    ASSUME NEW c, NEW v \in 0 .. MaxVisits, NEW msgs
    PROVE  /\ ChatOk(Restarted(c, v), v, msgs)
           /\ (Restarted(c, v).sock = "none") <=> (v = NoVisit)
  <1>1. CASE v = NoVisit
    BY <1>1, NoChatOk DEF Restarted, NoChat
  <1>2. CASE v # NoVisit
    <2>1. v \in Visits
      BY <1>2 DEF Visits, NoVisit
    <2>2. Restarted(c, v) = [Connecting EXCEPT !.fetch = {Fetch(v)}]
      BY <1>2 DEF Restarted, Cancelled
    <2> QED
      BY <1>2, <2>1, <2>2, ConnectingOk
  <1> QED
    BY <1>1, <1>2

\* The host's page at a visit and in a view, with the chat that goes with them.
LEMMA HostPage ==
    ASSUME NEW pg \in Pages, NEW vis, NEW msgs,
           NEW v \in 0 .. MaxVisits, NEW w \in {"world", "away"}, NEW c,
           ChatOk(c, v, msgs), (c.sock = "none") <=> (v = NoVisit \/ w = "away")
    PROVE  PageOk(Host, [pg EXCEPT !.view = w, !.visit = v, !.chat = c], vis, msgs)
  <1> DEFINE q == [pg EXCEPT !.view = w, !.visit = v, !.chat = c]
  <1>1. c \in Chats
    BY DEF ChatOk
  <1>2. q \in Pages /\ q.view = w /\ q.visit = v /\ q.chat = c
    BY <1>1 DEF Pages
  <1> HIDE DEF q
  <1>3. PageOk(Host, q, vis, msgs)
    BY <1>2 DEF PageOk, OwnerOk
  <1> QED
    BY <1>3 DEF q

\* The events of the host's channel, one by one.
LEMMA InboxTail ==
    ASSUME ServiceShapes, inbox # <<>>
    PROVE  /\ Head(inbox) = inbox[1] /\ 1 \in 1 .. Len(inbox)
           /\ Head(inbox) \in Events /\ Tail(inbox) \in Seq(Events)
           /\ \A i \in 1 .. Len(Tail(inbox)) :
                 i + 1 \in 1 .. Len(inbox) /\ Tail(inbox)[i] = inbox[i + 1]
  BY DEF ServiceShapes

LEMMA ReceiveStep ==
    ASSUME IInv, Receive
    PROVE  IInv'
  <1> DEFINE t == tab[Host]
             v == ShownVisit(t.visit, Head(inbox))
             c == IF v = t.visit \/ t.view = "away" THEN t.chat ELSE Restarted(t.chat, v)
             q == [t EXCEPT !.view = t.view, !.visit = v, !.chat = c]
  <1>1. Host \in Users /\ t \in Pages /\ PageOk(Host, t, visit, dm)
    BY DEF IInv, PagesOk, PageOk, Users
  <1>2. /\ tab' = [tab EXCEPT ![Host].visit = v, ![Host].chat = c]
        /\ inbox # <<>> /\ inbox' = Tail(inbox)
        /\ UNCHANGED <<visit, dm, stream, arrivals, sent, due, budget>>
    BY DEF Receive
  <1>3. Head(inbox).visit \in Visits
    BY <1>2, InboxTail DEF IInv, ServiceOk, Events
  <1>4. v \in 0 .. MaxVisits /\ t.view \in {"world", "away"} /\ t.visit \in 0 .. MaxVisits
    BY <1>1, <1>3 DEF ShownVisit, Visits, NoVisit, PageOk, OwnerOk, Pages
  <1>5. tab' = [tab EXCEPT ![Host] = q]
    <2>1. [t EXCEPT !.visit = v, !.chat = c] = q
      <3> HIDE DEF v, c
      <3>1. t.view = t.view
        OBVIOUS
      <3> QED
        BY <1>1 DEF Pages
    <2>2. tab' = [tab EXCEPT ![Host] = [t EXCEPT !.visit = v, !.chat = c]]
      BY <1>2
    <2> QED
      BY <2>1, <2>2
  <1>6. ChatOk(c, v, dm) /\ ((c.sock = "none") <=> (v = NoVisit \/ t.view = "away"))
    <2>1. CASE v = t.visit
      BY <1>1, <2>1 DEF PageOk
    <2>2. CASE v # t.visit /\ t.view = "away"
      <3>1. c.sock = "none" /\ c = NoChat
        BY <1>1, <2>2 DEF PageOk, ChatOk
      <3> QED
        BY <2>2, <3>1, NoChatOk
    <2>3. CASE v # t.visit /\ t.view # "away"
      BY <1>4, <2>3, RestartedOk
    <2> QED
      BY <2>1, <2>2, <2>3
  <1>7. PageOk(Host, q, visit, dm)
    <2> HIDE DEF c, v, t
    <2> QED
      BY <1>1, <1>4, <1>6, HostPage
  <1>8. PagesOk'
    BY <1>1, <1>2, <1>5, <1>7, OnePage DEF IInv
  <1>9. EndsAreTrue'
    BY <1>2, InboxTail DEF IInv, ServiceOk, EndsAreTrue
  <1>10. ServiceShapes' /\ Numbered' /\ Stored'
    <2>1. ServiceShapes' /\ Stored'
      BY <1>2, InboxTail DEF IInv, ServiceOk, ServiceShapes, Stored
    <2>2. Frames' = Frames
      BY <1>2 DEF Frames
    <2>3. Numbered'
      BY <1>2, <2>2, NumberedKeeps DEF IInv, ServiceOk, Numbered
    <2> QED
      BY <2>1, <2>3
  <1> QED
    BY <1>8, <1>9, <1>10 DEF IInv, ServiceOk

LEMMA AwayStep ==
    ASSUME IInv, GoAway \/ ComeBack
    PROVE  IInv'
  <1> DEFINE t == tab[Host]
  <1>1. Host \in Users /\ t \in Pages /\ PageOk(Host, t, visit, dm) /\ t.visit \in 0 .. MaxVisits
    BY DEF IInv, PagesOk, PageOk, Users, Pages
  <1>2. PICK w \in {"world", "away"}, c \in {NoChat, Restarted(NoChat, t.visit)} :
          /\ tab' = [tab EXCEPT ![Host].view = w, ![Host].chat = c]
          /\ w = "away" => c = NoChat
          /\ w = "world" => c = Restarted(NoChat, t.visit)
          /\ UNCHANGED <<service, budget>>
    BY DEF GoAway, ComeBack
  <1>3. ChatOk(c, t.visit, dm) /\ ((c.sock = "none") <=> (t.visit = NoVisit \/ w = "away"))
    <2>1. ChatOk(NoChat, t.visit, dm) /\ NoChat.sock = "none"
      BY NoChatOk DEF NoChat
    <2>2. /\ ChatOk(Restarted(NoChat, t.visit), t.visit, dm)
          /\ (Restarted(NoChat, t.visit).sock = "none") <=> (t.visit = NoVisit)
      BY <1>1, RestartedOk
    <2>3. CASE w = "away"
      BY <1>2, <2>1, <2>3
    <2>4. CASE w = "world"
      BY <1>2, <2>2, <2>4
    <2> QED
      BY <2>3, <2>4
  <1> DEFINE q == [t EXCEPT !.view = w, !.visit = t.visit, !.chat = c]
  <1>4. tab' = [tab EXCEPT ![Host] = q]
    <2>1. [t EXCEPT !.view = w, !.chat = c] = q
      BY <1>1 DEF Pages
    <2>2. tab' = [tab EXCEPT ![Host] = [t EXCEPT !.view = w, !.chat = c]]
      BY <1>2
    <2> QED
      BY <2>1, <2>2
  <1>5. PageOk(Host, q, visit, dm)
    <2> HIDE DEF t
    <2> QED
      BY <1>1, <1>3, HostPage
  <1> QED
    BY <1>1, <1>2, <1>4, <1>5, PageStep DEF service

-----------------------------------------------------------------------------
(* The theorems *)

LEMMA InitIInv == Init => IInv
  <1> SUFFICES ASSUME Init PROVE IInv
    OBVIOUS
  <1>1. ToSet(<<>>) = {} /\ Ascends(<<>>) /\ <<>> \in Seq(Messages) /\ <<>> \in Seq(Events)
    BY DEF ToSet, Ascends
  <1>2. budget \in Purses /\ budget.messages \in Nat
    BY DEF Init, Purses
  <1>3. ServiceShapes
    BY <1>1, <1>2 DEF Init, ServiceShapes, Users
  <1>4. Numbered
    <2>1. Ever = {} /\ Frames = {}
      BY <1>1 DEF Init, Ever, Frames
    <2>2. Cardinality({}) = 0 /\ IsFiniteSet({})
      BY FS_EmptySet
    <2> QED
      BY <1>1, <1>2, <2>1, <2>2 DEF Init, Numbered
  <1>5. Stored
    BY <1>1 DEF Init, Stored
  <1>6. EndsAreTrue
    BY DEF Init, EndsAreTrue
  <1>7. PagesOk
    BY LoadedPage DEF Init, PagesOk
  <1> QED
    BY <1>3, <1>4, <1>5, <1>6, <1>7 DEF IInv, ServiceOk

LEMMA NextIInv ==
    ASSUME IInv, [Next]_vars
    PROVE  IInv'
  <1>1. CASE UNCHANGED vars
    <2>1. UNCHANGED <<visit, dm, stream, arrivals, sent, due, inbox, tab, budget>>
      BY <1>1 DEF vars, service
    <2>2. ServiceOk'
      BY <2>1, ServiceKeeps DEF IInv
    <2>3. PagesOk'
      BY <2>1 DEF IInv, PagesOk
    <2> QED
      BY <2>2, <2>3 DEF IInv
  <1>2. CASE Gateway
    BY <1>2, TakeArriveStep, TakeMessageStep, PublishStep DEF Gateway
  <1>3. CASE Receive \/ GoAway \/ ComeBack
    BY <1>3, ReceiveStep, AwayStep
  <1>4. ASSUME NEW u \in Users,
               \/ Open(u) \/ Drop(u) \/ Deliver(u) \/ Say(u) \/ Reload(u)
               \/ ServeFetch(u) \/ FetchAnswer(u)
        PROVE  IInv'
    BY <1>4, SocketStep, DeliverStep, SayStep, ReloadStep, FetchStep
  <1>5. ASSUME NEW a \in budget.who,
               \/ RequestVisit(a) \/ CancelRequest(a) \/ StartVisit(a)
               \/ Enter(a) \/ EnterFails(a) \/ Clear(a) \/ HearArrival(a)
               \/ Leave(a) \/ EndVisit(a) \/ Left(a)
        PROVE  IInv'
    BY <1>5, ViewStep, EnterStep, EnterFailsStep, ClearStep, HearArrivalStep,
       EndVisitStep, LeftStep
  <1> QED
    BY <1>1, <1>2, <1>3, <1>4, <1>5 DEF Next

LEMMA SpecIInv == Spec => []IInv
  <1> QED
    BY InitIInv, NextIInv, PTL DEF Spec

LEMMA IInvImplies == IInv => VisitingInv
  <1> SUFFICES ASSUME IInv PROVE VisitingInv
    OBVIOUS
  <1>1. \A u \in Users : /\ tab[u] \in Pages /\ PageOk(u, tab[u], visit, dm)
                        /\ ChatOk(tab[u].chat, tab[u].visit, dm)
    BY DEF IInv, PagesOk, PageOk
  <1>2. TypeOK
    <2>1. \A v \in Visits : /\ visit[v].visitor \in Users
                            /\ visit[v].status \in {"none", "active", "arrived", "ended"}
                            /\ {dm[v], stream[v]} \subseteq Seq(Messages)
      BY DEF IInv, ServiceOk, ServiceShapes
    <2>2. arrivals \subseteq Visits
      BY DEF IInv, ServiceOk, ServiceShapes
    <2>3. \A a \in Visitors : (tab[a].chat.sock = "none") = ~OnIsland(a)
      BY <1>1 DEF PageOk, OnIsland, Island, Users
    <2>4. (tab[Host].chat.sock = "none")
             = (tab[Host].visit = NoVisit \/ tab[Host].view = "away")
      BY <1>1 DEF PageOk, Users
    <2> QED
      BY <2>1, <2>2, <2>3, <2>4 DEF TypeOK
  <1>3. ShownOnce
    BY <1>1 DEF ShownOnce, ChatOk
  <1>4. ShowsItsVisit
    BY <1>1 DEF ShowsItsVisit, ChatOk
  <1>5. IslandIsOpen
    <2>1. SUFFICES ASSUME NEW a \in Visitors, tab[a].view = "island"
                   PROVE  visit[tab[a].visit] \in [visitor : {a}, status : {"active", "arrived"}]
      BY DEF IslandIsOpen
    <2>2. a \in Users /\ a # Host
      BY DEF Users
    <2>3. /\ tab[a].visit \in Visits /\ visit[tab[a].visit].visitor = a
          /\ visit[tab[a].visit].status \in {"active", "arrived"}
      BY <1>1, <2>1, <2>2 DEF PageOk, OwnerOk, Island
    <2>4. visit[tab[a].visit] \in [visitor : Users, status : {"none", "active", "arrived", "ended"}]
      BY <2>3 DEF IInv, ServiceOk, ServiceShapes
    <2> QED
      BY <2>3, <2>4
  <1> QED
    BY <1>2, <1>3, <1>4, <1>5 DEF VisitingInv

\* A chat on screen is the one of a visit that is not over, and shows each of
\* its messages once: the socket's replay, the live messages and the fetched
\* history overlap in any way, and answers of visits left are not heard.
THEOREM VisitingInvHolds == Spec => []VisitingInv
  BY SpecIInv, IInvImplies, PTL

\* The host's page leaves its visit by an event of the visit's end.
LEMMA ClosesStep ==
    ASSUME IInv, [Next]_vars, tab[Host].visit # NoVisit, tab'[Host].visit = NoVisit,
           tab'[Host].fresh
    PROVE  visit[tab[Host].visit].status = "ended"
  <1>1. Host \in Users /\ tab[Host] \in Pages /\ tab = [u \in Users |-> tab[u]]
    BY DEF IInv, PagesOk, PageOk, Users
  <1> DEFINE Same == tab'[Host].visit = tab[Host].visit
  <1>2. CASE tab' = tab
    BY <1>2
  <1>3. CASE Gateway
    BY <1>3 DEF Gateway, TakeArrive, TakeMessage, Publish
  <1>4. CASE GoAway \/ ComeBack
    BY <1>1, <1>4 DEF GoAway, ComeBack, Pages
  <1>5. ASSUME NEW u \in Users, Open(u) \/ Drop(u) \/ Deliver(u) \/ Say(u)
                                \/ ServeFetch(u) \/ FetchAnswer(u)
        PROVE  FALSE
    <2>1. tab' = tab \/ \E c : tab' = [tab EXCEPT ![u].chat = c]
      BY <1>5 DEF Open, Drop, Deliver, Say, ServeFetch, FetchAnswer
    <2>2. Same
      BY <1>1, <2>1 DEF Pages
    <2> QED
      BY <2>2
  <1>6. ASSUME NEW u \in Users, Reload(u)
        PROVE  FALSE
    <2>1. CASE u = Host
      <3>1. tab'[Host] = [Page EXCEPT !.fresh = FALSE]
        BY <1>1, <1>6, <2>1 DEF Reload
      <3> QED
        BY <3>1 DEF Page
    <2>2. CASE u # Host
      BY <1>1, <1>6, <2>2 DEF Reload
    <2> QED
      BY <2>1, <2>2
  <1>7. ASSUME NEW a \in budget.who,
               \/ RequestVisit(a) \/ CancelRequest(a) \/ StartVisit(a)
               \/ Enter(a) \/ EnterFails(a) \/ Clear(a) \/ HearArrival(a)
               \/ Leave(a) \/ EndVisit(a) \/ Left(a)
        PROVE  FALSE
    <2>1. \E pg : tab' = [tab EXCEPT ![a] = pg]
      BY <1>7 DEF RequestVisit, CancelRequest, StartVisit, Enter, EnterFails, Clear,
                  HearArrival, Leave, EndVisit, Left, At
    <2>2. a # Host
      BY VisitorIsUser
    <2> QED
      BY <1>1, <2>1, <2>2
  <1>8. CASE Receive
    <2> DEFINE e == Head(inbox)
    <2>1. tab'[Host].visit = ShownVisit(tab[Host].visit, e) /\ inbox # <<>>
      BY <1>1, <1>8 DEF Receive, Pages
    <2>2. e = inbox[1] /\ 1 \in 1 .. Len(inbox) /\ e \in Events
      BY <2>1, InboxTail DEF IInv, ServiceOk
    <2> HIDE DEF e
    <2>3. e.type # "arrived" /\ e.visit = tab[Host].visit
      BY <2>1, <2>2 DEF ShownVisit, Events, Visits, NoVisit
    <2>4. e.type = "ended"
      BY <2>2, <2>3 DEF Events
    <2>5. visit[e.visit].status = "ended"
      BY <2>2, <2>4 DEF IInv, ServiceOk, EndsAreTrue
    <2> QED
      BY <2>3, <2>5
  <1> QED
    BY <1>2, <1>3, <1>4, <1>5, <1>6, <1>7, <1>8 DEF Next, vars

\* The host's page closes a visit only when it is over: the event of another
\* visit's end, published late or out of order, does not close this one.
THEOREM ClosesWhenOverHolds == Spec => ClosesWhenOver
  <1>1. IInv /\ [Next]_vars =>
          [tab[Host].visit # NoVisit /\ tab'[Host].visit = NoVisit /\ tab'[Host].fresh
             => visit[tab[Host].visit].status = "ended"]_vars
    BY ClosesStep
  <1> QED
    BY <1>1, SpecIInv, PTL DEF Spec, ClosesWhenOver
=============================================================================
