------------------------------- MODULE Puzzle --------------------------------
(***************************************************************************)
(* A visitor's puzzle island: the view (IslandPuzzleView.tsx), the run     *)
(* (PuzzleGameRuntime.ts) and the sprites (PuzzleRenderer.ts).             *)
(*                                                                         *)
(* trySwap resolves the whole cascade before its first animation.  Nobody  *)
(* reads the board until the last one has ended, so the model resolves     *)
(* each wave where its animation starts.  Of the sprites the model keeps   *)
(* what each cell shows; a tween is an animation that ends later.          *)
(***************************************************************************)
EXTENDS PuzzleBoard

CONSTANTS
    Stages,     \* of the puzzle, in order: target and moves
    Deals,      \* bound: the boards that generateBoard may give
    Draws,      \* bound: the pieces that a refill may draw, cyclically
    Tappable,   \* bound: the cells that may be tapped
    MaxDepth,   \* bound: waves of a cascade
    MaxStale    \* bound: abandoned runs that have not yet noticed

ASSUME PuzzleAssumption ==
    /\ Deals # {} /\ \A b \in Deals : Dealt(b)
    /\ Draws \subseteq Seq(Pieces) \ {<<>>} /\ Tappable \subseteq Cells
    /\ Stages \in Seq([target : Nat \ {0}, moves : Nat \ {0}]) \ {<<>>}
    /\ MaxDepth \in Nat /\ MaxStale \in Nat

VARIABLES
    mounted, stageIndex, status, failed, arrived,
    hud,        \* the score and the moves that the screen shows
    phase,      \* of the run: none, init or live
    run,        \* the state that the run keeps
    stale       \* what abandoned runs were waiting for

view == <<mounted, stageIndex, status, failed, arrived, hud>>
vars == <<view, phase, run, stale>>

IsFinalStage == stageIndex >= Len(Stages)
Target == Stages[stageIndex].target

\* At rest there is no wave; otherwise the animation that the run awaits.
Idle == "idle"
NoWave == [cleared |-> {}, falls |-> <<>>, spawns |-> <<>>, score |-> 0, next |-> <<>>]

NewRun(b, s) ==
    [cells |-> b, sprites |-> b, score |-> 0, moves |-> Stages[s].moves,
     ended |-> FALSE, awaits |-> Idle, wave |-> NoWave, depth |-> 0, selected |-> None]

NoRun == NewRun(CHOOSE b \in Deals : TRUE, 1)

Busy == run.awaits # Idle
Mirror(r) == [score |-> r.score, moves |-> r.moves]

---------------------------------------------------------------------------
(* One swap: its animations, wave by wave                                  *)

\* requestSwap: a swap without a match is shown and taken back.
Requested(r, a, c) ==
    IF Matching(Swapped(r.cells, a, c))
    THEN [r EXCEPT !.selected = None, !.awaits = "swap", !.depth = 0,
                   !.cells = Swapped(@, a, c), !.sprites = Swapped(@, a, c)]
    ELSE [r EXCEPT !.selected = None, !.awaits = "invalid"]

\* The pieces drawn for the empty cells, column by column from the top.
Drawn(b, draw) ==
    LET empty == EmptyCells(b)
        before(c) == {d \in empty : d[1] < c[1] \/ (d[1] = c[1] /\ d[2] < c[2])}
    IN  [c \in empty |-> draw[1 + (Cardinality(before(c)) % Len(draw))]]

\* The last wave allowed settles, if it can.
Refills(b, depth) ==
    LET settles(f) == ~Matching(Refill(b, f))
        any == [EmptyCells(b) -> Pieces]
    IN  IF depth < MaxDepth THEN {Drawn(b, draw) : draw \in Draws}
        ELSE IF \E f \in any : settles(f) THEN {CHOOSE f \in any : settles(f)} ELSE {}

\* Clear, gravity, refill: what the next wave will show.
Waves(b, depth) ==
    LET matches == FindMatches(b)
        cleared == UNION matches
        hollow == Emptied(b, cleared)
        fallen == ApplyGravity(hollow)
    IN  {[cleared |-> cleared, falls |-> Falls(hollow), spawns |-> f,
          score |-> ScoreOf(matches) * depth, next |-> Refill(fallen, f)] :
            f \in Refills(fallen, depth)}

\* animateClear hides the sprites of the wave.
StartWaves(r) ==
    {[r EXCEPT !.cells = w.next, !.wave = w, !.depth = @ + 1, !.awaits = "clear",
               !.sprites = Emptied(@, w.cleared)] : w \in Waves(r.cells, r.depth + 1)}

\* animateFalls moves the sprites in the order of the falls, then adds the new.
Fallen(sprites, falls) ==
    LET Fall(c, s) == IF c \notin DOMAIN falls \/ s[c] = None THEN s
                      ELSE [s EXCEPT ![falls[c]] = s[c], ![c] = None]
        moved[i \in 0..Width * Height] ==
            IF i = 0 THEN sprites ELSE Fall(BottomUp[i], moved[i - 1])
    IN  moved[Width * Height]

StartFalls(r) ==
    [r EXCEPT !.score = @ + r.wave.score, !.awaits = "fall",
              !.sprites = Refill(Fallen(@, r.wave.falls), r.wave.spawns)]

\* A board without a move is dealt anew and shown at once.
Settle(r) ==
    IF HasValidMove(r.cells) THEN {r}
    ELSE {[r EXCEPT !.cells = b, !.sprites = b] : b \in Deals}

Ended(r) ==
    [r EXCEPT !.awaits = Idle, !.wave = NoWave, !.depth = 0,
              !.ended = r.score >= Target \/ r.moves <= 0]

Continue(r) == IF Matching(r.cells) THEN StartWaves(r) ELSE {Ended(s) : s \in Settle(r)}

Spend(r) == [r EXCEPT !.moves = @ - 1]

MutantResumed(r) ==
    CASE r.awaits = "invalid" -> {r}
      [] r.awaits = "swap" -> Continue(Spend(r))
      [] r.awaits = "clear" -> {StartFalls(r)}
      [] OTHER -> Continue(r)

\* What a run does when the animation that it awaits has ended.
Resumed(r) ==
    CASE r.awaits = "invalid" -> {[r EXCEPT !.awaits = Idle]}
      [] r.awaits = "swap" -> Continue(Spend(r))
      [] r.awaits = "clear" -> {StartFalls(r)}
      [] OTHER -> Continue(r)

Outcome(r) ==
    CASE ~r.ended -> "playing"
      [] r.score >= Target -> "cleared"
      [] OTHER -> "failed"

\* Only the last stage's clear tells the host of the arrival.
Announces(r) == r.ended /\ r.score >= Target /\ IsFinalStage

\* The ticker ends the animation; the screen hears of what has changed.
Animate ==
    /\ phase = "live" /\ Busy
    /\ \E r \in Resumed(run) :
        /\ run' = r
        /\ hud' = Mirror(r)
        /\ status' = IF r.ended THEN Outcome(r) ELSE status
        /\ arrived' = (arrived \/ Announces(r))
    /\ UNCHANGED <<mounted, stageIndex, failed, phase, stale>>

---------------------------------------------------------------------------
(* The pointer                                                             *)

Listens == phase = "live" /\ ~Busy /\ ~run.ended

\* A drag past the threshold swaps with the neighbour in its direction.
Drag(a, c) ==
    /\ Listens /\ AreAdjacent(a, c)
    /\ run' = Requested(run, a, c)
    /\ UNCHANGED <<view, phase, stale>>

\* A tap selects, deselects, or swaps with the selected neighbour.
Tap(c) ==
    /\ Listens
    /\ run' = IF run.selected = c THEN [run EXCEPT !.selected = None]
              ELSE IF run.selected # None /\ AreAdjacent(run.selected, c)
              THEN Requested(run, run.selected, c)
              ELSE [run EXCEPT !.selected = c]
    /\ UNCHANGED <<view, phase, stale>>

---------------------------------------------------------------------------
(* The life of a run                                                       *)

\* The application is ready: the board is dealt and the screen told.
AppReady ==
    /\ phase = "init"
    /\ \E b \in Deals : run' = NewRun(b, stageIndex)
    /\ phase' = "live"
    /\ status' = "playing"
    /\ hud' = Mirror(run')
    /\ UNCHANGED <<mounted, stageIndex, failed, arrived, stale>>

InitFails ==
    /\ phase = "init"
    /\ phase' = "none" /\ failed' = TRUE
    /\ UNCHANGED <<mounted, stageIndex, status, arrived, hud, run, stale>>

\* destroy() ends every tween; the run that awaits one resumes after it.  The
\* way back of an invalid swap is a new tween, though, which nothing ends.
Hung == [awaits |-> "invalid", run |-> NoRun]

Abandoned ==
    CASE phase = "init" -> {[awaits |-> "init", run |-> NoRun]}
      [] phase = "live" /\ run.awaits = "invalid" -> {Hung}
      [] phase = "live" /\ Busy -> {[awaits |-> run.awaits, run |-> run]}
      [] OTHER -> {}

Destroy ==
    /\ stale' = stale \cup Abandoned
    /\ Cardinality(stale' \ {Hung}) <= MaxStale
    /\ run' = NoRun

\* An abandoned run notices, after whatever it awaited, and returns.
Resume(s) ==
    /\ s # Hung
    /\ stale' = stale \ {s}
    /\ UNCHANGED <<view, phase, run>>

HandleNextStage ==
    /\ mounted /\ ~failed /\ status = "cleared" /\ ~IsFinalStage
    /\ Destroy
    /\ phase' = "init"
    /\ stageIndex' = stageIndex + 1 /\ status' = "loading"
    /\ UNCHANGED <<mounted, failed, arrived, hud>>

HandleStartChat ==
    /\ mounted /\ ~failed /\ status = "cleared" /\ IsFinalStage
    /\ status' = "playing"
    /\ UNCHANGED <<mounted, stageIndex, failed, arrived, hud, phase, run, stale>>

\* A fresh board under the same run.
HandleRetry ==
    /\ mounted /\ ~failed /\ status = "failed" /\ phase = "live"
    /\ \E b \in Deals : run' = NewRun(b, stageIndex)
    /\ status' = "playing"
    /\ hud' = Mirror(run')
    /\ UNCHANGED <<mounted, stageIndex, failed, arrived, phase, stale>>

\* The visit is ended and the view goes, whatever it was showing.
Leave ==
    /\ mounted
    /\ mounted' = FALSE
    /\ Destroy
    /\ phase' = "none"
    /\ stageIndex' = 1 /\ status' = "loading" /\ failed' = FALSE
    /\ arrived' = FALSE /\ hud' = [score |-> 0, moves |-> 0]

Visit ==
    /\ ~mounted
    /\ mounted' = TRUE /\ phase' = "init"
    /\ UNCHANGED <<stageIndex, status, failed, arrived, hud, run, stale>>

Init ==
    /\ mounted = FALSE /\ stageIndex = 1 /\ status = "loading" /\ failed = FALSE
    /\ arrived = FALSE /\ hud = [score |-> 0, moves |-> 0]
    /\ phase = "none" /\ run = NoRun /\ stale = {}

Next ==
    \/ Animate
    \/ \E a, c \in Cells : Drag(a, c)
    \/ \E c \in Tappable : Tap(c)
    \/ AppReady \/ InitFails
    \/ \E s \in stale : Resume(s)
    \/ HandleNextStage \/ HandleStartChat \/ HandleRetry \/ Leave \/ Visit

Spec == Init /\ [][Next]_vars

\* Pixi's ticker runs as long as the application does: what a live run awaits
\* ends, so this is WF_vars(Animate), in a form that TLC checks fast.
Animatable == phase = "live" /\ Busy /\ \E r \in Resumed(run) : r # run
Animated == run'.awaits # run.awaits
FairSpec == Spec /\ (<>[]Animatable => []<><<Animated>>_vars)

---------------------------------------------------------------------------
(* Properties                                                              *)

TypeOK ==
    /\ status \in {"loading", "playing", "cleared", "failed"}
    /\ phase \in {"none", "init", "live"} /\ stageIndex \in DOMAIN Stages
    /\ run.cells \in Boards /\ run.sprites \in Boards
    /\ run.moves \in 0..Stages[stageIndex].moves \/ phase # "live"
    /\ run.selected \in Cells \cup {None}
    /\ Cardinality(stale \ {Hung}) <= MaxStale

\* Whenever the player may move, the screen shows the board, no run of three
\* is left on it, and there is a move to make: after cascades and reshuffles.
SettledBoard ==
    (phase = "live" /\ ~Busy) =>
        /\ run.sprites = run.cells
        /\ EmptyCells(run.cells) = {} /\ ~Matching(run.cells)
        /\ HasValidMove(run.cells)

\* A run ends once, for the right reason: cleared by its score even with its
\* last move, failed only without moves; until then it can be played on.
EndsForAReason ==
    (phase = "live" /\ ~Busy) =>
        /\ run.ended <=> run.score >= Target \/ run.moves = 0
        /\ status = "cleared" => run.score >= Target
        /\ status = "failed" => run.score < Target /\ run.moves = 0
        /\ (status = "playing" /\ run.ended) => IsFinalStage /\ arrived

\* A move is spent by a swap that pays, and by nothing else: whenever the
\* board rests, each spent move has earned the 30 points of a run, at least.
MovesPay ==
    (phase = "live" /\ ~Busy) =>
        LET spent == Stages[stageIndex].moves - run.moves
        IN  /\ run.score >= spent * 30
            /\ run.score > 0 => spent > 0

\* The screen shows the numbers of the run on screen, never those of a run
\* that was torn down in the middle of a cascade.
HudIsRuns == phase = "live" => hud = Mirror(run)

\* The host hears of the arrival only after the last stage was cleared.
ArrivedByClearing ==
    arrived => IsFinalStage /\ phase = "live" /\ run.score >= Target

\* The board, the numbers and the outcome on screen are those of the run.
PuzzleInv ==
    /\ TypeOK /\ SettledBoard /\ EndsForAReason /\ HudIsRuns
    /\ ArrivedByClearing

\* The input never stays locked: a swap, valid or not, comes to its end.
SwapEnds == (phase = "live" /\ Busy) ~> (phase # "live" \/ ~Busy)
=============================================================================
