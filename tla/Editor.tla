------------------------------- MODULE Editor -------------------------------
(***************************************************************************)
(* The stage editor's document: EditorModel (editorState.ts), the pointer  *)
(* handlers of EditorCanvas.tsx that drive it, the palette, the validator  *)
(* that gates Save and Test (levelValidation.ts) and the rows format a     *)
(* level is stored in (platformer/types.ts).  Requests to the server and   *)
(* their races are Stages.tla; here a save is one step.                    *)
(*                                                                         *)
(* A tile is "empty", "pole" or "top" (the goal's flag) or a member of     *)
(* Palette.  Actor ids "a<n>" are the numbers n.                           *)
(***************************************************************************)
EXTENDS Integers, Sequences, SequencesExt, Lists

CONSTANTS
    Height,         \* EDITOR_HEIGHT
    MinWidth,       \* EDITOR_MIN_WIDTH
    MaxWidth,       \* EDITOR_MAX_WIDTH
    DefaultWidth,   \* width of the starter level
    ResizeStep,     \* what the - and + buttons add
    UndoCap,        \* UNDO_CAP
    MaxActors,      \* MAX_ACTORS of the validator
    Palette,        \* tiles the palette offers
    SolidTiles,     \* SOLID_CHARS of the validator
    ActorTypes,     \* actors the palette offers
    UniqueTypes,    \* UNIQUE_ACTOR_TYPES
    Backgrounds,
    MaxOps          \* bound: handlers that run in one behaviour

ASSUME EditorAssumption ==
    /\ Height \in Nat /\ Height >= 3
    /\ {MinWidth, MaxWidth, DefaultWidth} \subseteq Nat \ {0}
    /\ MinWidth <= DefaultWidth /\ DefaultWidth <= MaxWidth
    /\ UndoCap \in Nat \ {0} /\ ResizeStep \in Nat /\ MaxActors \in Nat
    /\ {"empty", "pole", "top"} \cap Palette = {}
    /\ SolidTiles \subseteq Palette
    /\ "beach" \in Backgrounds
    /\ MaxOps \in Nat

VARIABLES
    level,      \* the EditorLevel on screen
    undoStack,  \* snapshots, the newest last
    redoStack,
    painting,   \* a drag is under way
    dirty,      \* the view's "unsaved" flag
    stored,     \* the level as the server holds it, or NoLevel
    ops

vars == <<level, undoStack, redoStack, painting, dirty, stored, ops>>

Flag == {"pole", "top"}
Tiles == Palette \cup Flag \cup {"empty"}
Cells(w) == (0..w - 1) \X (0..Height - 1)
NoLevel == [background |-> "none", width |-> 0, tiles |-> <<>>,
            actors |-> <<>>, spawn |-> <<0, 0>>, goal |-> <<0, 0>>]

InLevel(p, w) == p \in Cells(w)
MaxOf(a, b) == IF a > b THEN a ELSE b
MinOf(a, b) == IF a < b THEN a ELSE b

---------------------------------------------------------------------------
(* The level and the operations on it                                      *)

\* The structure the goal tool stamps: the top over two poles, ending at g.
FlagOf(g) == << <<g[1], g[2] - 2>>, <<g[1], g[2] - 1>>, g >>

Stamp(tiles, g) ==
    [c \in DOMAIN tiles |-> CASE c = FlagOf(g)[1] -> "top"
                              [] c \in {FlagOf(g)[2], g} -> "pole"
                              [] OTHER -> tiles[c]]

\* newDefaultLevel: flat ground below a spawn on the left, the goal near the
\* right end (the depth of the ground and the distances are shape only).
DefaultLevel ==
    LET g == <<DefaultWidth - 1, Height - 1>> IN
    [background |-> "beach", width |-> DefaultWidth,
     tiles |-> Stamp([c \in Cells(DefaultWidth) |-> "empty"], g),
     actors |-> <<>>, spawn |-> <<0, Height - 1>>, goal |-> g]

SetTile(l, p, t) ==
    IF InLevel(p, l.width) THEN [l EXCEPT !.tiles[p] = t] ELSE l

EraseAt(l, p) ==
    [SetTile(l, p, "empty") EXCEPT
        !.actors = Without(@, {a \in Range(@) : a.at = p})]

MutantNextActorId(actors) == Len(actors) + 1

NextActorId(actors) ==
    LET ids == {0} \cup {actors[i].id : i \in DOMAIN actors} IN
    1 + CHOOSE top \in ids : \A id \in ids : id <= top

\* What stays when an actor of the type is placed: unique types are replaced.
Others(actors, type) ==
    IF type \in UniqueTypes
    THEN Without(actors, {a \in Range(actors) : a.type = type}) ELSE actors

PlaceActor(l, p, type) ==
    LET rest == Others(l.actors, type) IN
    [l EXCEPT !.actors =
        Append(rest, [id |-> NextActorId(rest), type |-> type, at |-> p])]

PlaceSpawn(l, p) == [l EXCEPT !.spawn = p]

WithoutFlag(tiles) ==
    [c \in DOMAIN tiles |-> IF tiles[c] \in Flag THEN "empty" ELSE tiles[c]]

PlaceGoal(l, p) ==
    LET g == <<p[1], MaxOf(2, MinOf(p[2], Height - 1))>> IN
    [l EXCEPT !.tiles = Stamp(WithoutFlag(@), g), !.goal = g]

ClampX(p, w) == <<MinOf(p[1], w - 1), p[2]>>

ClampActors(actors, w) ==
    [i \in DOMAIN actors |-> [actors[i] EXCEPT !.at = ClampX(@, w)]]

WidthFor(w) == MaxOf(MinWidth, MinOf(w, MaxWidth))

\* The left part is kept, new columns are empty.
ResizeWidth(l, w) ==
    [l EXCEPT !.width = w,
              !.tiles = [c \in Cells(w) |-> IF InLevel(c, l.width)
                                            THEN l.tiles[c] ELSE "empty"],
              !.spawn = ClampX(@, w),
              !.goal = ClampX(@, w),
              !.actors = ClampActors(@, w)]

---------------------------------------------------------------------------
(* The validator                                                           *)

\* Two actors of one type.
Several(l, type) ==
    \E i, j \in DOMAIN l.actors :
        i # j /\ l.actors[i].type = type /\ l.actors[j].type = type

\* The two tiles above the spawn hold the player's body.
SpawnBlocked(l) ==
    \E dy \in 1..2 : LET c == <<l.spawn[1], l.spawn[2] - dy>> IN
        c[2] >= 0 /\ l.tiles[c] \in SolidTiles

\* The keys validateLevel pushes for the level.
Errors(l) ==
    {e \in {"width", "spawnOob", "goalOob", "spawnHeadroom", "noFlag",
            "tooManyActors", "dupActorIds", "actorOob", "tooManyUnique"} :
        CASE e = "width" -> l.width \notin MinWidth..MaxWidth
          [] e = "spawnOob" -> ~InLevel(l.spawn, l.width)
          [] e = "goalOob" -> ~InLevel(l.goal, l.width)
          [] e = "spawnHeadroom" -> InLevel(l.spawn, l.width) /\ SpawnBlocked(l)
          [] e = "noFlag" -> \A c \in DOMAIN l.tiles : l.tiles[c] # "pole"
          [] e = "tooManyActors" -> Len(l.actors) > MaxActors
          [] e = "dupActorIds" -> ~IsInjective([i \in DOMAIN l.actors |-> l.actors[i].id])
          [] e = "actorOob" ->
                \E i \in DOMAIN l.actors : ~InLevel(l.actors[i].at, l.width)
          [] e = "tooManyUnique" -> \E type \in UniqueTypes : Several(l, type)}

---------------------------------------------------------------------------
(* The undo history                                                        *)

\* The oldest snapshot is dropped beyond the cap.
Capped(stack) == IF Len(stack) > UndoCap THEN Tail(stack) ELSE stack

\* beginStroke: an undo point, and what was undone can no longer be redone.
BeginStroke ==
    /\ undoStack' = Capped(Append(undoStack, level))
    /\ redoStack' = <<>>

\* The single-shot operations: an undo point and the new level.
Edit(l) == BeginStroke /\ level' = l /\ dirty' = TRUE

Step == ops < MaxOps /\ ops' = ops + 1

MutantUndoClean ==
    /\ Step
    /\ undoStack # <<>>
    /\ undoStack' = Front(undoStack)
    /\ redoStack' = Append(redoStack, level)
    /\ level' = Last(undoStack)
    /\ UNCHANGED <<painting, dirty, stored>>

\* Ctrl+Z or the button, also in the middle of a drag.
Undo ==
    /\ Step
    /\ undoStack # <<>>
    /\ undoStack' = Front(undoStack)
    /\ redoStack' = Append(redoStack, level)
    /\ level' = Last(undoStack)
    /\ dirty' = TRUE
    /\ UNCHANGED <<painting, stored>>

MutantRedo ==
    /\ Step
    /\ redoStack # <<>>
    /\ redoStack' = Front(redoStack)
    /\ level' = Last(redoStack)
    /\ dirty' = TRUE
    /\ UNCHANGED <<undoStack, painting, stored>>

\* Redo pushes an undo point without looking at the cap.
Redo ==
    /\ Step
    /\ redoStack # <<>>
    /\ redoStack' = Front(redoStack)
    /\ undoStack' = Append(undoStack, level)
    /\ level' = Last(redoStack)
    /\ dirty' = TRUE
    /\ UNCHANGED <<painting, stored>>

---------------------------------------------------------------------------
(* The handlers.  The tool is whatever the palette shows when the event    *)
(* arrives (toolRef), so every event takes any tool.                       *)

StrokeTools == Palette \cup {"eraser"}

Stroke(l, p, tool) ==
    IF tool = "eraser" THEN EraseAt(l, p) ELSE SetTile(l, p, tool)

\* Pointer down with a tile or the eraser: an undo point even when the first
\* cell already shows the tile.
StartStroke(p, tool) ==
    /\ Step
    /\ InLevel(p, level.width)
    /\ BeginStroke
    /\ level' = Stroke(level, p, tool)
    /\ painting' = TRUE
    /\ dirty' = (dirty \/ level' # level)
    /\ UNCHANGED stored

\* Pointer move: the drag paints without an undo point of its own.
DragStroke(p, tool) ==
    /\ Step
    /\ painting
    /\ InLevel(p, level.width)
    /\ level' = Stroke(level, p, tool)
    /\ dirty' = (dirty \/ level' # level)
    /\ UNCHANGED <<undoStack, redoStack, painting, stored>>

\* Pointer up, or the pointer leaves the canvas.
EndStroke ==
    /\ painting
    /\ painting' = FALSE
    /\ UNCHANGED <<level, undoStack, redoStack, dirty, stored, ops>>

\* Pointer down with an actor, the spawn or the goal.
Place(p) ==
    /\ Step
    /\ InLevel(p, level.width)
    /\ \/ \E type \in ActorTypes : Edit(PlaceActor(level, p, type))
       \/ Edit(PlaceSpawn(level, p))
       \/ Edit(PlaceGoal(level, p))
    /\ UNCHANGED <<painting, stored>>

Resize(by) ==
    LET w == WidthFor(level.width + by) IN
    /\ Step
    /\ w # level.width
    /\ Edit(ResizeWidth(level, w))
    /\ UNCHANGED <<painting, stored>>

SetBackground(bg) ==
    /\ Step
    /\ bg # level.background
    /\ Edit([level EXCEPT !.background = bg])
    /\ UNCHANGED <<painting, stored>>

---------------------------------------------------------------------------
(* Saving and loading                                                      *)

\* encodeRows and loadLevel are inverse on the legend's tiles; what is stored
\* is a copy, and what is loaded is a copy of that.
Save ==
    /\ Step
    /\ Errors(level) = {}
    /\ stored' = level
    /\ dirty' = FALSE
    /\ UNCHANGED <<level, undoStack, redoStack, painting>>

Loaded == IF stored = NoLevel THEN DefaultLevel ELSE stored

\* The slot is opened again: a new EditorModel, and a new canvas with it.
Load ==
    /\ Step
    /\ level' = Loaded
    /\ undoStack' = <<>> /\ redoStack' = <<>>
    /\ painting' = FALSE /\ dirty' = FALSE
    /\ UNCHANGED stored

Init ==
    /\ level = DefaultLevel
    /\ undoStack = <<>> /\ redoStack = <<>>
    /\ painting = FALSE /\ dirty = FALSE
    /\ stored = NoLevel
    /\ ops = 0

Pointer ==
    \E p \in Cells(MaxWidth) :
        \/ \E tool \in StrokeTools : StartStroke(p, tool) \/ DragStroke(p, tool)
        \/ Place(p)

Next ==
    \/ Pointer
    \/ EndStroke
    \/ \E by \in {-ResizeStep, ResizeStep} : Resize(by)
    \/ \E bg \in Backgrounds : SetBackground(bg)
    \/ Undo \/ Redo
    \/ Save \/ Load

Spec == Init /\ [][Next]_vars

---------------------------------------------------------------------------
(* Properties                                                              *)

LevelOK(l) ==
    /\ l.background \in Backgrounds
    /\ l.width \in MinWidth..MaxWidth
    /\ l.tiles \in [Cells(l.width) -> Tiles]
    /\ l.actors \in Seq([id : Nat, type : ActorTypes, at : Cells(MaxWidth)])
    /\ l.spawn \in Cells(l.width) /\ l.goal \in Cells(l.width)

\* The level and every snapshot are well formed.
TypeOK ==
    /\ LevelOK(level)
    /\ \A i \in DOMAIN undoStack : LevelOK(undoStack[i])
    /\ \A i \in DOMAIN redoStack : LevelOK(redoStack[i])
    /\ stored = NoLevel \/ LevelOK(stored)
    /\ painting \in BOOLEAN /\ dirty \in BOOLEAN
    /\ ops \in 0..MaxOps

\* Whatever is drawn, undone, resized, stored and loaded, the only errors the
\* validator can show are ones the user can see and mend: a blocked spawn, a
\* level without a flag, too many actors.  Duplicate ids, a second boss or
\* something out of bounds never comes out of the editor itself.
OnlyFixableErrors ==
    Errors(level) \subseteq {"spawnHeadroom", "noFlag", "tooManyActors"}

\* The goal stays unique: every flag tile belongs to the structure at the
\* level's goal, through resizes that cut it and undos that bring it back.
FlagsAtGoal ==
    \A c \in DOMAIN level.tiles :
        level.tiles[c] \in Flag => c \in Range(FlagOf(level.goal))

\* Both stacks together never hold more than the cap, although redo pushes
\* onto the undo stack without a check.
HistoryBounded == Len(undoStack) + Len(redoStack) <= UndoCap

\* No sequence of edits builds a document that its author cannot mend.
EditorInv ==
    /\ TypeOK /\ OnlyFixableErrors /\ FlagsAtGoal /\ HistoryBounded

\* An editor without the unsaved mark shows the stored level (or the starter
\* level of an empty slot).
CleanMeansStored == ~dirty => level = Loaded

\* The two stacks implement one timeline with a position on it.
Hist == INSTANCE History WITH
            timeline <- undoStack \o <<level>> \o Reverse(redoStack),
            pos <- Len(undoStack) + 1,
            Cap <- UndoCap

Timeline == Hist!Spec
=============================================================================
