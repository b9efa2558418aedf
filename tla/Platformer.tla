----------------------------- MODULE Platformer -----------------------------
(***************************************************************************)
(* A visitor's way across a platformer island: the view                    *)
(* (IslandPlatformerView.tsx), the runs it builds one after the other      *)
(* (PlatformerGameRuntime.ts), the player (Player.ts) and the actors of a  *)
(* stage (ActorManager.ts).                                                *)
(*                                                                         *)
(* Time and space are abstract.  A frame picks what the physics may        *)
(* produce: the actors whose timer runs out, the actors that the player    *)
(* overlaps, those of them that it falls upon, and where it stands.  What  *)
(* the code then does, in its order, is one step.                          *)
(***************************************************************************)
EXTENDS Integers, FiniteSets, Sequences, SequencesExt, FiniteSetsExt

CONSTANTS
    Order,          \* the actors of all stages, in the order of the list
    Kind,           \* the class of an actor
    Stage,          \* the actors that a stage starts with
    Checkpoints,    \* the stages with a checkpoint
    MaxHp, StartLives, ShellsPerLife,
    MirrorEvery,    \* frames between two looks at the player's hp
    MaxTouched,     \* bound: actors that the player meets in one frame
    MaxRuns         \* bound: runs in one behaviour

Actors == Range(Order)
Stages == DOMAIN Stage
Runs == 1..MaxRuns

ASSUME PlatformerAssumption ==
    /\ Order \in Seq(Actors) /\ Kind \in [Actors -> STRING]
    /\ Stage \in Seq(SUBSET Actors) \ {<<>>}
    /\ Checkpoints \subseteq Stages
    /\ {MaxHp, StartLives, ShellsPerLife, MirrorEvery} \subseteq Nat \ {0}
    /\ MaxRuns \in Nat

VARIABLES
    mounted,    \* the view is on screen
    list,       \* stages of the island, 0 while they are fetched
    stageIndex,
    status,     \* GameStatus
    failed,     \* the view's error
    arrived,    \* the arrival has been announced on the visit's socket
    cur,        \* the run on screen, 0 for none
    phase,      \* how far each run's asynchronous init has come
    apps,       \* runs whose Pixi application exists
    listening,  \* runs with listeners on the window
    bgm,        \* the run whose music plays, 0 for none
    game        \* the state of the run on screen

host == <<mounted, list, stageIndex, status, failed, arrived>>
engine == <<cur, phase, apps, listening, bgm>>
platformerVars == <<host, engine, game>>

Enemies == {"crab", "starfish", "frog"}
Platforms == {"log", "lily", "whale", "block"}
Stompable == Enemies \cup {"lily"}
Harmless == {"log", "tani", "coconut"}
Clocked == {"frog", "drop", "bear", "coconut", "whale"}
Gone == {"fading", "absent"}

\* What an actor is when its stage is built.
Fresh(a) ==
    CASE Kind[a] = "bear" -> "sleeping"
      [] Kind[a] = "whale" -> "rest"
      [] Kind[a] = "block" -> "fresh"
      [] OTHER -> "alive"

World(s) == [a \in Actors |-> IF a \in Stage[s] THEN Fresh(a) ELSE "absent"]

\* A run starts with full health and the score of the run before.
NewGame(s, shells, lives) ==
    [hp |-> MaxHp, iframe |-> FALSE, smash |-> FALSE, locked |-> FALSE,
     world |-> World(s), shells |-> shells, lives |-> lives,
     hud |-> MaxHp, goal |-> FALSE, checkpoint |-> FALSE,
     frame |-> 0, stage |-> s]

---------------------------------------------------------------------------
(* The player                                                              *)

\* The health that the screen shows follows the player's.
NotifyHp(b) == [b EXCEPT !.hud = b.hp]

Damage(b) ==
    IF b.iframe THEN b
    ELSE NotifyHp([b EXCEPT !.hp = IF @ > 0 THEN @ - 1 ELSE 0, !.iframe = TRUE])

Heal(b) == NotifyHp([b EXCEPT !.hp = IF @ < MaxHp THEN @ + 1 ELSE MaxHp])
Kill(b) == [b EXCEPT !.hp = 0, !.iframe = FALSE]

\* A pineapple: for a while, enemies fall on contact.
Smash(b) == [b EXCEPT !.smash = TRUE]

Respawn(b) == NotifyHp([b EXCEPT !.iframe = TRUE, !.locked = FALSE, !.hp = MaxHp])

\* At most one of the two protections runs out in a frame.
PlayerUpdate(b, expired) ==
    [b EXCEPT !.iframe = @ /\ expired # "iframe", !.smash = @ /\ expired # "smash"]

---------------------------------------------------------------------------
(* The actors: what their timers do                                        *)

Become(w, a, state) == [w EXCEPT ![a] = state]

\* A frog fires a drop, a block a coconut, if there is room for one more.
Spawn(w, kind) ==
    LET room == {a \in Actors : Kind[a] = kind /\ w[a] = "absent"}
    IN  IF room = {} THEN w ELSE Become(w, CHOOSE a \in room : TRUE, "alive")

\* A frog fires when its interval is over.
Frog(w) == Spawn(w, "drop")

\* Groggy, then aside, then cleared.
Bear(w, a) ==
    Become(w, a, CASE w[a] = "groggy" -> "moving"
                   [] w[a] = "moving" -> "cleared"
                   [] OTHER -> w[a])

Sleeping(w) == {b \in Actors : w[b] = "sleeping"}

\* A coconut hits the head of a sleeping bear, or the ground.
Coconut(w, a, hit) ==
    IF hit /\ Sleeping(w) # {}
    THEN [w EXCEPT ![a] = "fading", ![CHOOSE b \in Sleeping(w) : TRUE] = "groggy"]
    ELSE Become(w, a, "fading")

Whale(w, a) == Become(w, a, IF w[a] = "rest" THEN "rising" ELSE "rest")

\* A drop is spent by its lifetime or by a wall.
Projectile(w, a) == Become(w, a, "fading")

\* The crab turns, the starfish hops, the log drifts: positions only.
Walk(w, a) == w

Update(w, a, hit) ==
    IF w[a] = "fading" THEN Become(w, a, "absent") ELSE
    CASE Kind[a] = "bear" -> Bear(w, a)
      [] Kind[a] = "coconut" -> Coconut(w, a, hit)
      [] Kind[a] = "frog" -> Frog(w)
      [] Kind[a] = "drop" -> Projectile(w, a)
      [] Kind[a] = "whale" -> Whale(w, a)
      [] OTHER -> Walk(w, a)

---------------------------------------------------------------------------
(* The actors: what meeting the player does                                *)

Take(b, a) == [b EXCEPT !.world[a] = "fading"]

MutantShell(b) == [b EXCEPT !.shells = (@ + 1) % ShellsPerLife]

\* So many shells make a life.
Shell(b) ==
    IF b.shells + 1 >= ShellsPerLife
    THEN [b EXCEPT !.shells = @ + 1 - ShellsPerLife, !.lives = @ + 1]
    ELSE [b EXCEPT !.shells = @ + 1]

\* Smashed, stomped, or harmful.
MeetEnemy(b, a, stomped) == IF b.smash \/ stomped THEN Take(b, a) ELSE Damage(b)

\* A boss can be neither stomped nor smashed.
MeetBear(b, a) ==
    IF b.world[a] = "cleared" \/ b.smash THEN b ELSE Damage(b)

Meet(b, a, stomped) ==
    IF b.world[a] \in Gone THEN b ELSE
    CASE Kind[a] \in Enemies -> MeetEnemy(b, a, stomped)
      [] Kind[a] = "bear" -> MeetBear(b, a)
      [] Kind[a] = "drop" -> Take(Damage(b), a)
      [] Kind[a] = "shell" -> Take(Shell(b), a)
      [] Kind[a] = "heart" -> Take(Heal(b), a)
      [] Kind[a] = "pineapple" -> Take(Smash(b), a)
      [] Kind[a] = "banana" -> Take(b, a)
      [] OTHER -> b

\* Standing on a pad, which sinks at last, or on a whale that rises, or under
\* a block.
Ride(b, a, sinks) ==
    CASE Kind[a] = "lily" /\ sinks -> Take(b, a)
      [] Kind[a] = "whale" /\ b.world[a] = "rising" -> [b EXCEPT !.world[a] = "spent"]
      [] Kind[a] = "block" /\ b.world[a] = "fresh" ->
            [b EXCEPT !.world = Spawn(Become(@, a, "bumped"), "coconut")]
      [] OTHER -> b

\* One contact, p.stomp being the actor that the player falls upon.
Contact(p, a) ==
    LET c == IF Kind[a] \in Platforms THEN Ride(p.game, a, a = p.stomp)
             ELSE Meet(p.game, a, a = p.stomp)
    IN  [game |-> c, stomp |-> IF c.hp < p.game.hp THEN "none" ELSE p.stomp]

\* The contacts in the order of the list, in which a hit throws the player up
\* as a stomp does: nothing is stomped after one.
Contacts(b, touched, stomp) ==
    LET met[i \in 0..Len(Order)] ==
            IF i = 0 THEN [game |-> b, stomp |-> stomp]
            ELSE IF Order[i] \notin touched THEN met[i - 1]
            ELSE Contact(met[i - 1], Order[i])
    IN  met[Len(Order)].game

\* Timers first, then what the player touches.
ManagerUpdate(b, due, hit, touched, stomp) ==
    Contacts([b EXCEPT !.world = IF due = "none" THEN @ ELSE Update(@, due, hit)],
             touched, stomp)

---------------------------------------------------------------------------
(* The frame of a run                                                      *)

Places == {"free", "checkpoint", "flag", "water", "pit"}
IsFinalStage == stageIndex >= list

MutantMirrorHp(b) ==
    LET c == [b EXCEPT !.frame = (@ + 1) % MirrorEvery]
    IN  IF c.frame = 0 /\ ~c.locked THEN NotifyHp(c) ELSE c

MirrorHp(b) ==
    LET c == [b EXCEPT !.frame = (@ + 1) % MirrorEvery]
    IN  IF c.frame = 0 THEN NotifyHp(c) ELSE c

Checkpoint(b, place) ==
    [b EXCEPT !.checkpoint = @ \/ (place = "checkpoint" /\ b.stage \in Checkpoints)]

\* The flag is looked for even when the controls are locked.
ReachesGoal(b, place) == place = "flag" /\ ~b.goal
TriggerGoal(b) == [b EXCEPT !.goal = TRUE, !.locked = TRUE]

Hazard(b, place) ==
    IF place = "water" /\ ~b.goal /\ ~b.locked THEN Kill(b) ELSE b

Dies(b, place) == ~b.goal /\ ~b.locked /\ (b.hp = 0 \/ place = "pit")

HandleDeath(b) ==
    IF b.lives <= 1
    THEN [b EXCEPT !.locked = TRUE, !.lives = 0]
    ELSE [Respawn(b) EXCEPT !.lives = @ - 1]

AfterDeath(b, place) == IF Dies(b, place) THEN HandleDeath(b) ELSE b

\* Only the last stage's flag tells the host of the arrival.
Announces(goal) == goal /\ IsFinalStage

Live == cur # 0 /\ phase[cur] = "live"

\* What the physics may bring about: a few contacts, one timer, the end of one
\* protection, and a place.
Present == {a \in Actors : game.world[a] \notin Gone}
Touchable == LET met == {a \in Present : Kind[a] \notin Harmless}
             IN  UNION {kSubset(k, met) : k \in 0..MaxTouched}
Timed == {a \in Actors : \/ game.world[a] = "fading"
                         \/ a \in Present /\ Kind[a] \in Clocked}
Expiring == {"none"} \cup {e \in {"iframe", "smash"} : game[e]}
Reachable == {p \in Places :
    p = "checkpoint" => game.stage \in Checkpoints /\ ~game.checkpoint}

\* What a frame tells the view, and the music.
Shown(after, end) ==
    LET goal == end.goal /\ ~game.goal IN
    /\ game' = end
    /\ status' = CASE goal -> "cleared"
                   [] end.locked /\ ~after.locked -> "gameover"
                   [] OTHER -> status
    /\ arrived' = (arrived \/ Announces(goal))
    /\ bgm' = IF goal THEN 0 ELSE bgm
    /\ UNCHANGED <<mounted, list, stageIndex, failed, cur, phase, apps, listening>>

Frame(due, hit, touched, stomp, expired, place) ==
    \E moved \in {PlayerUpdate(game, expired)} :
    \E played \in {IF game.locked THEN moved
                   ELSE ManagerUpdate(moved, due, hit, touched, stomp)} :
    \E seen \in {Checkpoint(MirrorHp(played), place)} :
    \E after \in {IF ReachesGoal(seen, place) THEN TriggerGoal(seen) ELSE seen} :
    \E end \in {AfterDeath(Hazard(after, place), place)} : Shown(after, end)

Tick ==
    /\ Live
    /\ \E expired \in Expiring, place \in Reachable :
         \/ game.locked /\ Frame("none", FALSE, {}, "none", expired, place)
         \/ /\ ~game.locked
            /\ \E due \in {"none"} \cup Timed, touched \in Touchable :
               \E stomp \in {"none"} \cup {a \in touched : Kind[a] \in Stompable} :
               \E hit \in {FALSE} \cup {due # "none" /\ Kind[due] = "coconut"} :
                  Frame(due, hit, touched, stomp, expired, place)

---------------------------------------------------------------------------
(* A run's asynchronous init, and the view that starts and ends runs       *)

\* Whose run it was has destroyed it: for good, even if the view comes back.
Cancelled(r) == r # cur

\* The Pixi application is ready: a run cancelled by now destroys it.
AppReady(r) ==
    /\ phase[r] = "init"
    /\ IF Cancelled(r)
       THEN phase' = [phase EXCEPT ![r] = "gone"] /\ apps' = apps \ {r}
       ELSE phase' = [phase EXCEPT ![r] = "textures"] /\ UNCHANGED apps
    /\ UNCHANGED <<host, cur, listening, bgm, game>>

MutantTexturesReady(r) ==
    /\ phase[r] = "textures"
    /\ phase' = [phase EXCEPT ![r] = "live"]
    /\ listening' = listening \cup {r}
    /\ bgm' \in {0, r}
    /\ status' = "playing"
    /\ UNCHANGED <<mounted, list, stageIndex, failed, arrived, cur, apps, game>>

\* The atlas is loaded or has failed: the run goes live, with music once a
\* gesture has unlocked the audio.  A run cancelled by now just stops.
TexturesReady(r) ==
    /\ phase[r] = "textures"
    /\ IF Cancelled(r)
       THEN /\ phase' = [phase EXCEPT ![r] = "gone"]
            /\ UNCHANGED <<listening, bgm, status>>
       ELSE /\ phase' = [phase EXCEPT ![r] = "live"]
            /\ listening' = listening \cup {r}
            /\ bgm' \in {0, r}
            /\ status' = "playing"
    /\ UNCHANGED <<mounted, list, stageIndex, failed, arrived, cur, apps, game>>

\* A level that cannot be loaded, before there is an application, or Pixi
\* that cannot start, after.
InitFails(r) ==
    /\ phase[r] \in {"init", "textures"}
    /\ phase' = [phase EXCEPT ![r] = "failed"]
    /\ failed' = (failed \/ ~Cancelled(r))
    /\ apps' \in {apps, apps \ {r}}
    /\ UNCHANGED <<mounted, list, stageIndex, status, arrived, cur, listening, bgm, game>>

\* destroy(): listeners and music first; the rest only of a run that is live.
Ended(ph) == IF cur # 0 /\ ph[cur] = "live" THEN [ph EXCEPT ![cur] = "gone"] ELSE ph
Freed == IF cur # 0 /\ phase[cur] = "live" THEN apps \ {cur} ELSE apps

Destroy ==
    /\ phase' = Ended(phase) /\ apps' = Freed
    /\ listening' = listening \ {cur} /\ bgm' = 0

\* Runs are numbered as they are created.
NextRun == Cardinality({r \in Runs : phase[r] # "unborn"}) + 1

StageAt(index, length) == IF index < length THEN index ELSE length

\* The effect's cleanup and its next run, on another stage or another list;
\* the error screen has no canvas to run on.
Rerun(index, length) ==
    /\ listening' = listening \ {cur} /\ bgm' = 0
    /\ IF failed
       THEN cur' = 0 /\ phase' = Ended(phase) /\ apps' = Freed /\ UNCHANGED game
       ELSE /\ NextRun \in Runs
            /\ cur' = NextRun
            /\ phase' = [Ended(phase) EXCEPT ![NextRun] = "init"]
            /\ apps' = Freed \cup {NextRun}
            /\ game' = NewGame(StageAt(index, length), game.shells, game.lives)

\* The list of published stages arrives, or changes after a reconnection.
\* The status stays what it is.
ListArrives(n) ==
    /\ mounted /\ n \in Stages /\ n # list
    /\ list' = n
    /\ Rerun(stageIndex, n)
    /\ UNCHANGED <<mounted, stageIndex, status, failed, arrived>>

HandleNextStage ==
    /\ mounted /\ status = "cleared" /\ ~failed /\ ~IsFinalStage
    /\ stageIndex' = stageIndex + 1
    /\ status' = "loading"
    /\ Rerun(stageIndex + 1, list)
    /\ UNCHANGED <<mounted, list, failed, arrived>>

HandleStartChat ==
    /\ mounted /\ status = "cleared" /\ ~failed /\ IsFinalStage
    /\ status' = "playing"
    /\ UNCHANGED <<mounted, list, stageIndex, failed, arrived, engine, game>>

\* The same run from the spawn point; what it took from the stage stays taken.
HandleRetry ==
    /\ Live /\ status = "gameover" /\ ~failed
    /\ status' = "playing"
    /\ game' = [Respawn(game) EXCEPT !.lives = StartLives, !.shells = 0,
                               !.goal = FALSE, !.checkpoint = FALSE]
    /\ UNCHANGED <<mounted, list, stageIndex, failed, arrived, engine>>

\* The visit is ended and the view goes, whatever it was showing.
Leave ==
    /\ mounted
    /\ mounted' = FALSE
    /\ Destroy
    /\ list' = 0 /\ stageIndex' = 1 /\ status' = "loading"
    /\ failed' = FALSE /\ arrived' = FALSE
    /\ game' = NewGame(1, 0, StartLives)
    /\ cur' = 0

\* The next visit starts from its first stage.
Visit ==
    /\ ~mounted
    /\ mounted' = TRUE
    /\ UNCHANGED <<list, stageIndex, status, failed, arrived, engine, game>>

PlatformerInit ==
    /\ mounted = FALSE /\ list = 0 /\ stageIndex = 1 /\ status = "loading"
    /\ failed = FALSE /\ arrived = FALSE
    /\ cur = 0 /\ phase = [r \in Runs |-> "unborn"]
    /\ apps = {} /\ listening = {} /\ bgm = 0
    /\ game = NewGame(1, 0, StartLives)

PlatformerNext ==
    \/ Tick
    \/ \E r \in Runs : AppReady(r) \/ TexturesReady(r) \/ InitFails(r)
    \/ \E n \in Stages : ListArrives(n)
    \/ HandleNextStage \/ HandleStartChat \/ HandleRetry \/ Leave \/ Visit

PlatformerSpec == PlatformerInit /\ [][PlatformerNext]_platformerVars

\* The step was a frame of the run.
Ticked == Live /\ cur' = cur /\ phase' = phase /\ game'.frame # game.frame

\* Pixi's ticker runs as long as the application does: a frame is due exactly
\* while a run is live, so this is WF_platformerVars(Tick), in a form that TLC
\* checks fast.
FairSpec == PlatformerSpec /\ (<>[]Live => []<><<Ticked>>_platformerVars)

---------------------------------------------------------------------------
(* Properties                                                              *)

PlatformerTypeOK ==
    /\ status \in {"loading", "playing", "cleared", "gameover"}
    /\ list \in {0} \cup Stages /\ stageIndex \in Stages
    /\ {mounted, failed, arrived} \subseteq BOOLEAN
    /\ cur \in 0..MaxRuns /\ bgm \in 0..MaxRuns
    /\ phase \in [Runs -> {"unborn", "init", "textures", "live", "gone", "failed"}]
    /\ apps \subseteq Runs /\ listening \subseteq Runs
    /\ {game.hp, game.hud} \subseteq 0..MaxHp
    /\ game.lives \in Nat /\ game.shells \in 0..ShellsPerLife - 1

Died == game'.hp = MaxHp \/ game'.locked

\* However many enemies and drops the player meets in one frame, it costs at
\* most one health point; only water kills at once.
OneHit == game'.hp < game.hp - 1 => Died

\* A life is worth its price in shells: a frame adds exactly the shells that
\* it takes from the stage, and a death costs exactly one life.
Worth(b) == b.lives * ShellsPerLife + b.shells
Taken(a) == Kind[a] = "shell" /\ game.world[a] = "alive" /\ game'.world[a] # "alive"

ShellsPay ==
    LET earned == Worth(game) + Cardinality({a \in Actors : Taken(a)})
    IN  \/ Worth(game') = earned
        \/ Died /\ Worth(game') = earned - ShellsPerLife

\* A frame settles its contacts once, in hits and in shells.
FrameSettles == [][Ticked => OneHit /\ ShellsPay]_platformerVars

\* The player is never left pinned without a dialog to go on with: a live run
\* is locked exactly under the dialog that belongs to it, or in the chat
\* after its flag, and its controls are free on the screen that shows it.
ScreenMatchesRun ==
    (Live /\ ~failed) =>
        /\ status # "loading"
        /\ status = "cleared" => game.goal /\ game.locked
        /\ status = "gameover" => game.locked /\ game.lives = 0
        /\ (status = "playing" /\ game.locked) => game.goal /\ IsFinalStage

\* The chat is offered, and opened, only after the arrival was announced.
ChatMeansArrived ==
    (Live /\ game.goal /\ IsFinalStage) => arrived

\* An init that outlives its run changes nothing that the next run shares:
\* music and key listeners are those of the run on screen.
StaleRunsAreSilent ==
    /\ listening \subseteq IF Live THEN {cur} ELSE {}
    /\ bgm # 0 => Live /\ bgm = cur /\ ~game.goal

\* The screen, the music and the arrival are those of the run on screen.
PlatformerInv ==
    /\ PlatformerTypeOK /\ ScreenMatchesRun /\ ChatMeansArrived /\ StaleRunsAreSilent

\* A change of health reaches the mirror, a lethal one too.
HudCatchesUp == (Live /\ game.hud # game.hp) ~> (~Live \/ game.hud = game.hp)
=============================================================================
