# Islume: specifications, model checking and proofs

Islume is a network of agents that talk, match and play on behalf of their
owners. Its backend is a set of Python services that share one PostgreSQL
database and one Redis, plus workers fed by Redis streams; its frontend is a
Next.js application with an editor of game stages, two games, and a page that
follows sessions, visits and chats over sockets.

The services scale by running more copies, keep no state in memory that
matters, and coordinate only through rows, row locks, unique constraints, Redis
keys and streams. The pages hold state that answers, sockets and timers change
in any order. What can go wrong is therefore almost always an interleaving of
two handlers, a stale read, a late or lost answer, or a crash between two steps.
That is what this project specifies.

The specifications are translated from the source. `PROJECT.json` maps each
definition to the lines it stands for, lists every run, every hazard we found
in the code with the properties that guard it, and the theorems. To run them:

    tlc -workers 2 -config MCWallet_ledger.cfg MCWallet      (any run)
    tlapm WalletProofs.tla                                   (any proofs)

Paths below are under `src/`; `fe/` stands for `frontend/`.

## 1. The system

| Component | State | Operations | Modelled by |
|---|---|---|---|
| Wallet service (`services/wallet`) | `wallets`, `ledger_entries`, `withdrawals`; a balance cache | open a wallet, transfer, admin adjustment, withdrawal; balance, audit, supply | `Ledger`, `Wallet` (partly) |
| Solana mint worker (`services/worker/solana_mint.py`) | `withdrawals.status`, `signature`, `attempts`; `stream:solana_mints` and its group; the chain | take a task, reconcile, claim, submit, persist the signature, confirm, acknowledge | `Mint` |
| Conversation (`services/worker/main.py`, `services/orchestrator`) | `match_sessions`, turns, `tool_call_events`; `stream:llm_tasks` | create, take a turn, pause, answer a review, cancel, answer a tool call, sweep | `Session` (partly) |
| Rock-paper-scissors (`services/visit/rps.py`) | `rps:round:*` and `visit:rps:active:*` keys with TTLs | create, pick, settle, decline | `Rps` |
| Visits, maps, island stages (`services/visit/api.py`) | `visits`, `island_stages`, `house_maps`; active-visit keys; user events | create, arrive, leave; save, clear, publish, delete a stage | `Visiting`, `Stages` (partly) |
| Gateway (`services/gateway`) | chat rooms and messages; sockets; per-user channels | relay a visit, a chat and a session's stream; notify | `Visiting`, `Chat`, `Viewer` (partly) |
| Stage editor (`fe/components/stage-editor`, `fe/hooks/useIslandStages.ts`) | the level, undo and redo stacks, drag; slots, cached list, mutations under way, test play | draw, undo, redo, resize; save, test, clear, publish, unpublish, delete | `Editor`, `History`, `Stages` |
| Island platformer (`fe/components/island-platformer`) | runs with their asynchronous init; player, actors, HUD; view status | frame, death, goal, next stage, retry, leave | `Platformer` (partly) |
| Island puzzle (`fe/lib/puzzle/board.ts`, `fe/components/island-puzzle`) | board, sprites, score, moves, awaited animations | tap, swap, cascade, reshuffle, retry, next stage, leave | `PuzzleBoard`, `Puzzle` |
| Rock-paper-scissors dialogs (`fe/components/visit`, `fe/components/notifications`) | dialog phase, store slots, invitation, requests under way | ask, accept, decline, pick, hear, close, reload | `Duel` |
| Visit client (`fe/components/visit`, `fe/components/island`, `fe/hooks/useVisit*.ts`) | view, visit, chat, socket, fetches, host panel | start, enter, arrive, say, leave, hear, reload | `Visiting` |
| Session viewer (`fe/components/session`, `fe/hooks/useSessionStream.ts`, `fe/lib/ws.ts`) | session on view, history, cards, socket, list, matches | select, cancel, answer, search, start, reconnect | `Viewer`, `Sidebar` |
| Direct chat (`fe/components/chat`, `fe/hooks/useChat.ts`) | room on view, polled and live messages, unread counts | pick, open, poll, say, hear, leave | `Chat`, `Sidebar` |
| Store (`fe/stores/appStore.ts`) | slots shared by the page's components | set, clear, append | within the modules that use the slots (partly) |
| Matching and agents | agents, candidates, markdown mirror | create, rename, activate, score | no |
| Intent plugins | proposals, agreements, contacts | propose, accept, withdraw | no |
| Panels, map, languages | forms, drawing, texts | one request each | no |
| LLM providers, telemetry, crypto, scripts | none | calls to external services, set-up | no |

How the parts meet:

* The wallet service debits a withdrawal and then, after the commit, adds a
  task to `stream:solana_mints`. The mint worker reads the stream; only the
  `withdrawals` row connects the two.
* The orchestrator creates a session and enqueues turn 1. There is no
  coordinator after that: the worker that commits a turn enqueues the next one,
  and whoever ends a pause (the second owner, the answer to a tool call, the
  sweeper) enqueues the turn after it.
* A round of rock-paper-scissors belongs to a visit, and settles by a transfer
  of the wallet service under an idempotency key made of the round's id.
* Services tell users what happened over per-user streams and sockets, always
  after the commit, and never wait for it to be seen. A page therefore hears of
  the same thing twice, by an answer and by an event, in either order.
* The page's components share the store: a handler of the user channel sets a
  slot, and an effect of whichever component is mounted consumes it.

What is hard in each part, and what makes it correct:

* **Wallet.** Handlers read rows before they lock them, write balances as values
  that they computed, and meet retries of requests that are still running.
  Correct: the balance of every account is the sum of its ledger rows, every
  transaction is one debit and one credit, no user is overdrawn, the supply cap
  holds, a key is spent once, an answer is true, nobody waits in a cycle.
* **Mint.** A transaction on a chain cannot be rolled back, and a confirmation
  can be lost. Correct: confirmed means minted, a second mint needs a lost
  signature, a settled withdrawal stays so, an acknowledged task is settled.
* **Conversation.** A turn takes seconds, during which users cancel, answer and
  time out; each process writes what it decided on a row it read before.
  Correct: one turn at a time, no gap or duplicate, no turn past the ceiling or
  without consent, a pause that ends.
* **Rock-paper-scissors.** Nothing is locked and keys expire. Correct: a shown
  win was paid, and a visit can always play again; on the pages, a result is
  the one of its round, and a hand that was locked in is answered.
* **Stages.** Every mutation refetches the stages while the author goes on.
  Correct: what is cleared or published was played to its flag as it is, no
  refetch replaces the level in the editor, undo and redo walk one timeline.
* **Games.** A run outlives its view by the promises that it awaits. Correct: a
  run that was left touches nothing of the next one, a frame applies its
  contacts once, a cascade settles with a move to make, input is given back.
* **Visits, sessions, chats.** Sockets replay, fetches overtake each other, the
  user moves on while requests are out. Correct: what is shown belongs to what
  is on view, is whole, and shows each message once.

## 2. The modules

Every variable and action below is commented in its module, and `PROJECT.json`
names the source lines of each definition. A `Mutant...` operator beside a
definition is a plausible slip of it; the mutants of `PROJECT.json` use them to
show that each property can fail.

### `Ledger` and `Wallet`

`Ledger` is what the wallet service promises: a set of accounts, their balances
and the rows of the ledger, with one atomic posting at a time (`Open` a wallet
with its genesis grant, or `Move` an amount). It knows no handlers or locks.

`Wallet` is what `services/wallet/main.py` does. Each handler is a process that
walks `lookup -> locking -> check -> (relookup |) publish -> idle`; a step is
what happens between two awaits that another process can observe.

| State | Code |
|---|---|
| `wallets`, `balance`, `ledger`, `withdrawals` | committed rows of the tables |
| `lock` | the holder of each wallet row's `FOR UPDATE` lock |
| `pc`, `req`, `tx` | where each handler is, its request, its transaction id |
| `snap` | the balances in the ORM objects of the handler's session |
| `mintStream`, `answers` | tasks published, responses sent |

| Action | Code |
|---|---|
| `Receive` | a request arrives; `uuid5` of the key, or a fresh `uuid4` |
| `Refuse`, `Replay`, `Proceed` | 400/404/409, the replay lookup, the reads before the lock |
| `Acquire` | one `with_for_update`, in the order of the wallet ids, refreshing the object |
| `Reject` | balance, cap, or a wallet that was opened meanwhile |
| `Commit`, `Collide` | the commit, or `IntegrityError` on `(tx_id, account_id)` |
| `Relookup` | after the rollback: replay, conflict or 500 |
| `Publish` | the mint task, which may be lost, and the response |
| `Crash` | the process dies anywhere; PostgreSQL rolls back |

Requests are drawn from a constant set, so that a client's retry is the same
request again. Amounts are numbers of smallest units. Signatures and wording are
left out, and so are the balance cache and the event streams: nothing that
moves money reads them. One assumption is about callers: a *transfer* names
users only. The code would accept the ids of the two reserved wallets.

### `Mint`

One step of the worker per await of `process_withdrawal`. `row` is the
withdrawal, `stream`/`unacked`/`acked` the consumer group, `step`, `task`, `mem` and
`sent` the workers, and `chain` the transactions that were submitted, each in
flight until it lands, lands with an error, or is dropped. Every withdrawal is
of one unit. `recorded` is a history variable: the signatures ever committed.
Workers read only new entries, so a second delivery (`Redeliver`) is an
operator's claim or re-enqueue, which the code's docstring provides for.
`Prompt = FALSE` restricts it to entries whose worker is gone and whose
transactions have settled.

### `Session`

The row of one session, its turns and tool calls, the task stream, the workers
and the orchestrator's handlers and sweeper. A process reads the row in one
step and commits in another. A commit writes only the columns that differ from
what it read (`Flush`), as SQLAlchemy does, which is what makes a lost update
possible and which one. `affinity_response` alone is one step: it holds a row
lock from its read to its commit. Enqueueing is a step after the commit. What
the LLM answers is nondeterministic: how many tool calls wait for the owner,
whether a tool that ran ended the session, what the evaluation recommends. The
two reads of a tool call and of its session are one step, for the handler and
for the sweeper. One assumption is about callers (`CallerAssumption`): a session
is asked for with at most `MAX_TOTAL_TURNS` turns.

### `Rps` and `Duel`

`Rps` is the service: one step per Redis or HTTP call of `create_round`,
`submit_pick` and `decline_round`. A hash that is written again after it expired
has no status and no TTL, which the model keeps. The wallet is used by its
promise, the one `Ledger` states and `Wallet` implements: a transfer is atomic
and takes effect at most once per payer and key. A call may be lost before or
after it took effect, or take effect later; there are three attempts. That the
service reads balances through a cache is left out.

`Duel` is the two browsers of a round. `tab` is a page: the store slot that
mounts the dialog (`current`), the round and phase in the dialog's own state,
the invitation, and the store's slots for a reveal or a cancellation that no
dialog consumed. `call` holds the requests that are out, with whether the
dialog that made them is still mounted (`live`, the `cancelled` flags of the
effects); `inbox` the user channel. `Watched` is what the effects do after any
change of the store; it is part of every step that sets a slot. The service
takes effect in one step per request (`ServeCreate`, `ServePick`,
`ServeDecline`, `Expire`), since `Rps` has its steps.

### `Editor` and `History`

`Editor` is the document of the stage editor: `EditorModel` with its undo and redo
stacks, the pointer handlers that drive it, the palette's background and width,
the validator that gates saving, and the format that a level is stored in.
`level`, `undoStack`, `redoStack`, `painting` and `dirty` are the fields of the
code; `stored` is the level as the server holds it. A drag is `StartStroke`,
`DragStroke` and `EndStroke`, between which the keyboard may undo. A save is one
step: its races are those of `Stages`.

`History` is what an undo history promises, without stacks: one timeline of
versions and a position on it. The refinement maps the timeline to the undo
stack, the level and the reversed redo stack, and the position to the length of
the undo stack plus one.

### `Stages`

The slots of an island as their author sees them, over the endpoints of the
visit service. A mutation is sent, applied by the server (`ServerSave`, `ServerClear`,
`ServerCheck` and `ServerPublish`, ...), and settled once its refetch has come
back (`Settle`): only then do its callbacks run and `isPending` falls. Requests
travel on connections of their own and may be applied in any order. `server` is
the rows, `cache` the query's data, `test` the level under test, and `won` a history
variable: the levels that a test play has cleared. Three constants choose the
author and the network: `Patient` (touches nothing while a request is out),
`LostAnswers`, and `MaxInFlight`. What a level holds is a value here.

### `Platformer`

A visit of a platformer island: the view, the runs that it builds one after the
other, and the state of the run on screen (`game`). Each run passes two awaits
(`AppReady`, `TexturesReady`), after each of which the code asks whether it was
cancelled: `cur` is the run on screen, and every other one is cancelled for good. A frame (`Tick`) is one step, in the code's order: timers, player,
actors in the order of the list, drops that are born in the frame, the mirror of
the HUD, checkpoint, goal, hazard and death. Positions and speeds are left out:
which timers run out, which actors the player touches, which of them it falls
upon and where it stands are chosen.

### `PuzzleBoard` and `Puzzle`

`PuzzleBoard` defines the board as operators: runs of three or more
(`FindMatches`), their score, gravity with the list of falls, refills, and
whether there is a move. `Puzzle` is the run: a swap, its animations wave by
wave, the reshuffle, and the view's dialogs. The run keeps two boards, `cells`
and `sprites`, since the code keeps two, and moves the sprites one at a time by the
list of falls, which goes column by column and from the bottom up (`BottomUp`). What an
abandoned run was waiting for stays in `stale`, and resumes after the teardown.

### `Visiting`

The browsers of a visit: visitors on the host's island, and the host, whose page
shows the chat of the visit that arrived last. `tab` is a page: its view, its
visit, its chat with the socket's position in the replay, the messages shown, and
the fetches of the history that are out. `visit`, `dm` and `stream` are the
rows and the streams; `due` what a handler committed and has not published yet;
`inbox` the host's user channel. The gateway's read of a visit and its commit are
one step.

### `Viewer`, `Chat` and `Sidebar`

`Viewer` is the conversation viewer of one owner: the store's part of the page,
the viewer's history, the socket with its three attempts to reconnect
(`lib/ws.ts`), the list of sessions and its poll, the cards, and the search for
partners with the sessions that it starts. A session at the services is a script of
events that pauses for its owners; the other owner is a vote. The gateway replays
the whole stream on every connection.

`Chat` is the direct chat: a click on an island picks a target, the panel asks for
the room, and the room shows what the poll returns (`Limit` messages, the oldest)
and what its socket says. The gateway saves, adds to the stream and notifies in
three steps.

`Sidebar` composes them: the viewer takes the place of the chat panel while a
session is on view, so that a step of the viewer that changes the layout mounts or
unmounts the panel in the same step (`MovesPanel`).

### MC modules

`MC...` modules define the request sets, budgets, scenes and symmetries of the
runs. Modules ending in `Proofs` extend the module that they are about; `Lists` and
`CommonLemmas` hold operators on sequences and facts that several of them use.

## 3. The runs

| Run | Question | Bounds |
|---|---|---|
| `MCWallet_ledger` | Do racing genesis grants, opposite and duplicate transfers, adjustments and withdrawals keep the books, tell the truth, never lock in a cycle, implement `Ledger`, and end? | 2 handlers, 4 requests out of 8, 2 users, cap 2 |
| `MCMint_reclaim` | Does a second delivery after a crash or failure ever settle wrongly? | 2 workers, 2 withdrawals, 2 attempts, 3 redeliveries, 1 crash |
| `MCSession_talk` | Is there one turn at a time, numbered, capped, consented, and does the conversation go on? | 2 workers, 2 handlers and the sweeper, ceiling 4; (tool calls, requests, faults) one of (0,6,1), (1,2,1), (2,1,0) |
| `MCRps_race` | Is a shown win paid, and the visit never locked out? | 1 round, 2 handlers, 3 lost calls, 1 crash |
| `MCEditor_document` | Do the two stacks make one timeline, and can an author mend what was drawn? | height 3, width 1 or 2, cap 2, 4 operations |
| `MCStages_patient` | Was what is cleared or published played as it is? | 2 slots, 4 levels, one request at a time |
| `MCPlatformer_visit` | Do screen, music, arrival and HUD follow the run on screen? | 2 stages, 7 actors, 2 touched per frame, 2 runs |
| `MCPuzzle_cascade` | Does the board settle with a move to make, on screen as in memory? | 4x4 cells, 3 pieces, 2 stages of 2 moves, 2 waves, 1 stale run |
| `MCDuel_rematch` | Is the result on screen the one of the round, and a locked-in hand answered? | 2 rounds, 1 fault, 1 request for a round at a time |
| `MCVisiting_chat` | Is the chat on screen the one of an open visit, each message once, and does the host follow? | 2 visitors, 2 visits, 2 messages, three budgets of faults |
| `MCSidebar_views` | Is what is shown of the session or room on view, whole and once? | 2 sessions, 2 peers, ten scenes |
| `MCSidebar_fallback` | Does the poll replace a lost socket? It does not (violation). | a room of 3 messages, a page of 2 |

**Why the bounds are enough to be interesting.**

* *Wallet*: two users and the treasury, whose id lies between theirs, give every
  order of locks; a transfer, an adjustment in each direction and a withdrawal share one
  key; one grant of 2 and a cap of 2 make the balance and the cap each the binding
  limit in some behaviour. A cycle among more handlers is excluded by proof only for
  two or three of them.
* *Mint*: three redeliveries exceed two attempts, so that withdrawals are settled,
  given up and delivered once more.
* *Session*: the first window ends at 2, a grant of 3 is cut by the ceiling of 4,
  and turn 3 is a check at which one of the two users approves automatically; so
  each kind of pause and each resume happens, and turns without a pause. Six
  requests answer both reviews with two to spare.
* *Rps*: three lost calls exhaust the three attempts, and the transfer may take
  effect after each; players own one wager, so that spending it elsewhere leaves
  them unable to pay.
* *Editor*: four operations are an edit, an undo, another edit or redo and one
  more, past the cap of 2; height 3 is the least that holds the flag; one actor type
  is unique, one is not, and one actor more than the cap can be placed.
* *Stages*: three playable levels are the stored one, the edited one and a third; the
  invalid one is refused by the server's check.
* *Platformer*: one frame may meet two actors of any two kinds; one life and two shells per
  life reach the game-over, the bought life and the retry; the second run starts while
  the first one's init is still under way.
* *Puzzle*: 4x4 is the least board that the stages' validator admits; its
  moves cascade, and lead to boards that need a reshuffle.
* *Duel*: the second round starts while the first one's answers, events and dialogs
  are still there; the hands differ so that sides and outcomes cannot be confused.
* *Visiting*: two visitors of one host at once without faults, and one visitor who comes
  back, or chats, with one.
* *Sidebar*: each scene isolates one hazard (a request of the owner in each
  kind of session, two that overlap, three lost connections, searches and starts of which one
  fails, chats with targets picked in a row); together they fire every action.

**Deadlock** is checked where the system never stops (`Stages`, `Platformer`,
`Puzzle`). Elsewhere requests, faults, rounds and operations are bounded, and a
system with nothing left to do stops. The liveness properties say what must not
stop before.

**Fairness.** Where weak fairness of an action would make TLC evaluate the whole
action at every state, it is spelled as "if something stays to be done, it is done
again and again".

* *Wallet*: a handler that has a request goes on, and PostgreSQL grants a lock
  that is free; a crash is an end too.
* *Session*: workers and the sweeper loop for ever, and a request that is served is
  finished. Users owe nothing. The liveness properties speak of behaviours without
  a fault, because nothing in the code takes up a task that a dead worker held.
* *Rps*: handlers go on, and Redis expires what has a TTL.
* *Duel*: requests are served and answered, the channel delivers, and a round that
  nobody plays expires (its TTL). The players owe nothing.
* *Visiting*: what a handler has committed it publishes, and the host's channel
  delivers.
* *Viewer*, *Chat*: the reconnect timer fires, a socket opens, the gateway
  delivers, the database answers, the poll's timer fires. `RoomSpec` of the
  violation asks even more: the socket delivers and the gateway adds.
* *Platformer*, *Puzzle*: Pixi's ticker runs as long as the application lives.

No fairness is assumed of users, failures, lost calls or the chain.

### Where the code departs from what it says

`MCSidebar_fallback` ends in a violation of what a comment states: the poll is a
"fallback to WS" (`fe/hooks/useChat.ts:40`), but it asks for the first 50 messages of a
room, oldest first. Nothing reconnects a room's socket, so in a longer room a message that
comes after its loss is never shown.

Other disagreements were met while modelling. The hazards of `PROJECT.json` name
most of them; the properties are stated so as not to claim what they break:

* A retry that waits for its original's locks is told "Insufficient balance" of a
  transfer that is committed (`wallet/main.py:302`).
* A transaction still in flight is taken for dropped and submitted again
  (`solana_mint.py:78`): with `Prompt = TRUE`, `OnlyLostSignaturesDoubleMint` is
  violated. A withdrawal that fails for good keeps its debit (`solana_mint.py:91`).
* A worker that read an active session commits its pause over a cancellation
  (`worker/main.py:782`, `orchestrator/main.py:495`). A second tool call of one turn,
  answered after the first one's resume led to a review, ends the review without the
  owners (`orchestrator/main.py:713`); a tool call can be resolved twice, by two answers or an
  answer and the sweeper, and then two turns carry one number and the ceiling can be passed.
  This is why the turn properties are stated for sessions in which no tool call has waited
  for an owner (`Plain`).
* The ceiling of turns is not applied to the turns that a new session asks for
  (`orchestrator/main.py:375`). A task that a dead worker held, and a mint that failed and
  went back to pending, are never taken up again.
* Two simultaneous picks each miss the other in the handler's copy of the hash, and
  nobody resolves the round (`rps.py:264`). A round can be declined while its wager
  moves, or given up after it moved; two rounds of a visit can be pending at once.
* An author who goes on editing while a save is out may get an older level
  cleared (`StageEditorView.tsx:140`): with `Patient = FALSE`, `ClearedWasPlayed` is
  violated.
* A Pixi application whose run was cancelled between its two awaits is destroyed by
  nobody (`PlatformerGameRuntime.ts:132`).
* A host who accepts a rematch with the last result on screen stays at the old round
  (`RPSGameDialog.tsx:45`), and a player who waits for the other's hand when the round
  expires hears nothing more (`rps.py:212`).
* Messages that the socket delivered before the history's answer, and that the history
  lacks, are dropped. On the visitor's page the history replaces them
  (`IslandPlatformerView.tsx:173`); on the host's the comment is "Merge with anything
  live-received during the fetch" (`HostChatContainer.tsx:48`), but whatever was received
  live is in `seenIds` already, so that the merge keeps none of it (`KeptNone` in
  `VisitingProofs`). Also, the arrive frame is
  dropped when the socket is not open (`useVisitSocket.ts:132`); when the second of two
  visits ends, the host's panel of the first is not restored (`app/page.tsx:129`).
* The answer to a cancel or a review sets the status of whichever session is on view by then
  (`ConversationViewer.tsx:72`); a partner's "continue" publishes no event, so the other
  owner's page goes on showing the review, and an owner who goes on to another session
  takes the card of the review along (`appStore.ts:315`); after four closes in a row the
  session's socket is given up (`lib/ws.ts:45`).
* A room whose request fails leaves the panel at "opening" until another target is picked
  (`ChatPanel.tsx:47`).

## 4. What is proved

TLAPS checks these for every value of the constants that satisfies the named
assumptions of the module, and the extra assumption of the last column.

| Theorem | Statement | Assuming |
|---|---|---|
| `WalletProofs!Invariance` | `Spec => []IInv` | |
| `WalletProofs!DoubleEntryHolds` | `Spec => []DoubleEntry` | |
| `WalletProofs!SupplyCapHolds` | `Spec => []SupplyWithinCap` | |
| `WalletProofs!NoWaitCycleHolds` | `Spec => []NoWaitCycle` | |
| `WalletProofs!LedgerImplemented` | `Spec => ImplementsLedger` | |
| `WalletProofs!AnswersTruthfulHolds` | `Spec => []AnswersTruthful` | |
| `WalletProofs!AuditPassesHolds` | `Spec => []AuditPasses` | |
| `WalletProofs!MintInvHolds` | `MintSpec => []MintInv` | `~Prompt` |
| `WalletProofs!OnlyLostSignaturesDoubleMintHolds` | `MintSpec => []OnlyLostSignaturesDoubleMint` | `~Prompt` |
| `WalletProofs!TerminalIsFinalHolds` | `MintSpec => TerminalIsFinal` | `~Prompt` |
| `SessionProofs!SessionInvHolds` | `Spec => []SessionInv` | |
| `SessionProofs!ReviewNeedsBothHolds` | `Spec => ReviewNeedsBoth` | |
| `SessionProofs!FreshReviewHolds` | `Spec => FreshReview` | |
| `VisitServiceProofs!TypeCorrect` | `Spec => []TypeOK` | |
| `VisitServiceProofs!RevealedIsPaidHolds` | `Spec => []RevealedIsPaid` | |
| `IslandProofs!EditorInvHolds` | `Spec => []EditorInv` | |
| `IslandProofs!TimelineHolds` | `Spec => Timeline` | |
| `IslandProofs!CleanMeansStoredHolds` | `Spec => []CleanMeansStored` | |
| `IslandProofs!HistoryBoundedHolds` | `Spec => []HistoryBounded` | |
| `IslandProofs!PlatformerInvHolds` | `PlatformerSpec => []PlatformerInv` | |
| `IslandProofs!FrameSettlesHolds` | `PlatformerSpec => FrameSettles` | |
| `VisitServiceProofs!ClearedWasPlayedHolds` | `StagesSpec => []ClearedWasPlayed` | `Careful` |
| `VisitServiceProofs!StagesInvHolds` | `StagesSpec => []StagesInv` | `Careful` |
| `VisitServiceProofs!EditsSurviveHolds` | `StagesSpec => EditsSurvive` | |
| `PageProofs!DuelInvHolds` | `Spec => []DuelInv` | |
| `PageProofs!SidebarInvHolds` | `SidebarSpec => []SidebarInv` | |
| `PageProofs!OpensTheTargetHolds` | `SidebarSpec => OpensTheTarget` | |
| `VisitingProofs!VisitingInvHolds` | `Spec => []VisitingInv` | |
| `VisitingProofs!ClosesWhenOverHolds` | `Spec => ClosesWhenOver` | |
| `PuzzleProofs!PuzzleInvHolds` | `Spec => []PuzzleInv` | |
| `PuzzleProofs!MovesPayHolds` | `Spec => []MovesPay` | |

`WalletProofs` is about the wallet service and about the worker that mints its
withdrawals (`Mint`); `VisitServiceProofs` about two things that the visit service
keeps, the rounds (`Rps`) and the stages of an island (`Stages`); `IslandProofs` about the
platformer island's editor and its runs (`Editor`, `Platformer`); `PageProofs` about
what a page shows, in its dialogs and in its sidebar (`Duel`, `Sidebar`). They extend
both modules, which is why one of each pair names its formulas `MintSpec`, `StagesSpec`,
`PlatformerSpec`, `SidebarSpec`.
`CommonLemmas` holds what several of the proofs need of the operators they share: least
numbers, sums over finite sets, quotients and remainders, and what a filter leaves of a
sequence (`Without`, in `Lists`).

An invariant is seldom inductive as it stands. What each proof adds, and why:

**Wallet.** `DoubleEntry` alone does not exclude a state in which a handler is
about to post to rows it never locked, or a transaction of which one row exists
already. `IInv`, which the run checks too, adds what the code relies on:

* `LocksFollowControl`, `LocksAscend`: a handler holds exactly the rows that its
  control state says, the lower ids first;
* `LockedRowIsFresh`: who holds a row's lock has that row's balance in memory.
  It is kept because a row is written only by the holder of its lock and
  refreshed when the lock is taken, so that a commit moves an amount
  (`CommitMovesAmount`) and checks the money and the cap that are there
  (`CommitIsCovered`, `CapStep`);
* `ScopeIsParty`: the user whom a transaction id is scoped to is a party of the
  request. The database's constraint speaks of one account's row; this is why
  it makes the whole transaction unique (`CommitIsNew`);
* `Busy`, `WalletsExist`, `BalancesSound`: what a handler past its lookup knows.

`LedgerImplemented` maps `wallets`, `balance` and `ledger` to themselves: `Commit` is
an `Open` or a `Move`, and every other action a stutter. `NoWaitCycle` follows from
`LocksAscend` and the injective `Rank`: each wait points to a row of a higher rank.
`TransferAssumption` is needed for the cap: a transfer into the escrow is not
compared with it. `AnswersTruthful` needs in addition that rows are only ever
added by whole postings (`RowsWhole`) and that the withdrawal rows are those of the
withdrawal postings: a replay lookup reads one row and answers for all of it.

`AuditPasses` compares each balance with the sum of its account's rows, and the escrow with
the sum of the withdrawals. That one more element adds its own amount to such a
sum (`EntrySumAdd`, `WithdrawalSumAdd`) is proved by taking a smallest finite set for which
it fails, since proper inclusion is well-founded on finite sets: a theorem of
induction could not be instantiated. The invariant is `AuditInv`; that only finitely
many rows are ever inserted (`RowsFinite`) is part of it. A commit adds one row to each of
two accounts (`CommitRows`), a withdrawal the same amount to the escrow and to the sum.

**Mint.** `Exclusive`: an entry is in the stream, or with one worker, or with
neither. Hence `Fresh`: a worker's copy of the row is the row. Hence `Chains`: a
worker that mints again has looked at the fate of the recorded signature, and of
the recorded ones only the row's own may still land. All of it needs `~Prompt`; with an
entry that is delivered while a transaction is in flight the second theorem is false.

**Conversation.** `OneTurnAtATime` is not inductive: who may take the next turn is
spread over the stream, the workers, and the requests that have committed and not
enqueued. `IInv` is `Typing /\ Going /\ Guarded /\ (Plain => OneByOne)`: at most one of
them is at the next turn (`Single`), it is the turn after those taken (`Numbered`), a
session that is under review or not created has none (`Rests`), an active one has
one unless something failed (`Going`), and a pause for an owner has a tool call that
nobody is resolving who read the session outside a pause (`Guarded`). The lemmas on
`Written` and `Flush` say what an ORM commit leaves of a row that others have
written since it was read. `Plain` excludes sessions in which a tool call has waited
for an owner: there the properties do not hold, as section 3 says.

**Rock-paper-scissors.** A round is shown one step after the wallet answered, so
`RevealedIsPaid` needs `SettledIsPaid`: a handler about to show that somebody won
has seen the transfer committed. It lasts because the wallet never takes a
transfer back (`PaidGrows`), whatever expires, is lost or dies. On the pages
(`PageProofs`), a reveal on the channel or in the store says what the service holds
(`Truth`), which lasts because a revealed round is never written again (`Lasts`);
a dialog takes the reveal of its own round only (`PageOK`), and the answer to a request
whose dialog is gone changes no page (`CallOK`).

**Editor.** `Line` is the timeline as a sequence; `LineAt` says what is at each place of
it. An undo point is a `Commit` (`CommitStep`: the redo stack is empty and the cap cuts
the oldest version), a drag an `Amend`, and undo and redo leave the line as it is
(`MoveStep`). `HistoryBounded` is the invariant under it: redo does not check the cap,
and need not, because the two stacks together never grow by it.

`EditorInv` rests on `DocInv`: whatever can come back on screen is `Good`, the level,
every snapshot of both stacks and the stored level. A good level is well formed,
its actors are inside and have different numbers, no unique type occurs twice, and each
flag tile is at the goal. `Without` and `NextActorId` carry the actors' part: what a
filter leaves is of the old ones, in their order (`WithoutIs`, `WithoutGood`), and the next
number is above all that are there (`NextIdIs`). The width carries the other: a resize to a smaller
width cuts a flag at the right end whole, since its tiles are in one column, and the goal
that is clamped then has no flag; one to a larger width brings no tile back.

**Platformer.** A frame folds over the contacts that it happens to have, in the order
of the list. What one contact may do is a relation (`Settles`): it costs at most one health
point and only a player who was not protected, who is protected then; no shell comes
back; the shells that go are worth what lives and shells gain. The relation is
transitive (`SettlesAll`), each contact satisfies it (`MeetSettles`, `RideSettles`), and so
does the whole frame (`ContactsSettle`, by the least contact that would break it), in which
the timers take no shell (`UpdateIdle`). `FrameSettles` follows, with the death at the end
(`DeathEnds`). `PlatformerIInv` adds to `PlatformerInv` that only the run on screen can be
live, that a view with an error shows a run that failed or none, and that the game of a run
whose init has not ended is as new (`OneRun`): this is why a late init finds the screen
as it expects it.

**Stages.** `Careful` is `Patient /\ ~LostAnswers`, as in the run: one request is out at a
time and it is of the slot on screen (`Alone`, `Awaited`); an editor without the
unsaved mark shows what the server holds (`Clean`), the cached list is the server's
(`Cached`), so that the level under test is the stored one (`Tested`). `EditsSurvive`
needs none of it: whatever is out, a refetch writes the level only when there is
none yet.

**Visits.** `IInv` is `ServiceOk /\ PagesOk`. The messages of a visit are numbered in the
order in which they are stored, so that a fetched history ascends; the stream of a
visit, an answer that is out and a chat on screen hold only messages that are stored in
that visit; the answer that a page waits for is of the page's visit, since the effect's
cleanup forgets the others; an event of an end is published only of a visit that is
over, and no visit begins again. A chat has seen all that it shows, so that the host's
merge keeps nothing of what was shown before the history came (`KeptNone`): what the
merge shows is the history, each message once and in order. `ClosesWhenOver` follows
from the events' part.

**Puzzle.** `IInv` says what a run holds while each of its animations plays (`RunOK`)
and what the view says of it (`ViewOK`). Its core is what the player sees when a wave
has been shown. The board is changed at once, by a gravity that maps each cell to the piece that
lands there; the sprites are moved one at a time along a list of falls, and each
move overwrites the cell it goes to. The two agree (`SpritesFollow`) because pieces of
one column land in their order (`LandingOrder`), never two on one cell
(`LandingInjective`), and because the list goes from the bottom up, so that the cell where a sprite
lands is empty or was left before (`LandsNext`, by recursion along `BottomUpIs`): in
the other order sprites are lost, which is the mutant of `PuzzleInv`. While a wave is
cleared, the sprites show what gravity starts from (`WaveOf`), and after its fall they
show the board. A run comes to rest only on a board that has a move and no match,
settled or dealt (`DealtIsSettled`). For `MovesPay`, the score of a wave counts from the moment
its animation starts (`Pending`), and a wave is worth 30 or more, since its first
line is a run of three or more (`MatchesScore`).

**Sidebar.** `SidebarOK` is `ViewerOK /\ ChatOK`, and that the chat panel is on the page
exactly while no session is (`There`). The viewer's steps keep `ViewerOK` whatever the
chat does, and the chat's keep `ChatOK`; only `There` ties them, by `MovesPanel`.

* A session comes on view empty, or was on view (`SetActiveIsOwn`), so that turns, history
  and cards are its own (`OwnView`), although the answers to requests change the view
  whichever session they were for (`AnsweredIsOwn`).
* `Replayed` generalises `ReplayIsComplete` from the whole stream to what an open socket
  has read of it: each event carries it on (`HeardIsReplayed`), and it lasts while
  sessions go on, since a stream is only added to (`Grows`, `ReplayLasts`). A socket that
  begins again has read nothing.
* Sessions are created one after the other: at most one such request is out, and while it
  is the queue is not empty (`RequestsOK`), else its answer would take the head of nothing.
* Of a room (`RoomOK`), the list and the socket's messages have each message once, and the
  socket's are remembered, which outlasts a way back to the room; `Without` drops
  those that are in the list, so that what is shown has each once (`ShowsOnce`, by
  `WithoutIs`).
* For `OpensTheTarget`, the one request whose answer is heard is for the target, if there is
  one (`AskingOK`): a pick while requests are out makes them all unheard.

**Only model-checked:** the liveness properties. Liveness under fairness is out of the
prover's reach; every invariant and every action property of the passing runs is a
theorem. Induction over data is done, where a proof needs it, by taking a least
counterexample (`WFMin` on the natural numbers or on finite sets). That a dealt board
has no match is proved; that `FilledInOrder` is what the fill with its hundred attempts
computes is not.

## 5. What is not modelled

* *Matching and agents*: slug allocation, activation and the markdown mirror are single
  requests; the similarity and geographic scores are floating-point arithmetic.
* *Intent plugins*: the proposals, agreements and contacts of a session. `Session`
  keeps of a handler only whether its tool call resolves or waits for the owner.
* *Panels, map, languages*: forms over one request each, drawing, and texts.
* *LLM providers, telemetry, crypto, scripts*: calls to external services and set-up;
  the models keep what their callers do with a failed call.
* In the wallet: the balance cache, the event streams, the audit and supply reports,
  signatures. In the conversation: prompts and completions, the history that a turn is
  given, the reads that change nothing. In the visit service: houses, maps and
  blocks. In the gateway: health checks, the wallet's socket, and two direct rooms
  created for one pair at once. In the games: physics, drawing and sound.
* Steps that are one step here although the code awaits within them: the gateway's read
  and commit of a visit (`Visiting`; the hazard at `gateway/main.py:641`), the visit
  service's endpoints (`Stages`, `Duel`), a tool call's read and its session's
  (`Session`).

## 6. Plan

What would add most, in this order:

1. `Deals`: bartering proposals, contact exchange and interviews, run by the tool
   calls of `Session`: an abstract negotiation (open, superseded, accepted or
   withdrawn; accepted is final) which the handlers implement.
2. The gateway's read and commit of a visit as two steps in `Visiting`, and a
   property of visits that end once, stated so as to hold beside the hazard.
3. The visits' and rooms' creation over two handlers (no unique constraint).
4. The balance cache of the wallet with its TTL, and the audit's three statements at
   READ COMMITTED.
