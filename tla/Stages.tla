------------------------------- MODULE Stages -------------------------------
(***************************************************************************)
(* The three stage slots of an island as the author sees them: the view    *)
(* (StageEditorView.tsx) with its mutations (useIslandStages.ts, api.ts),  *)
(* the test play (StageTestPlay.tsx) and the endpoints of the visit        *)
(* service.  What a level holds is Editor.tla; here it is a value.         *)
(*                                                                         *)
(* A mutation is sent, applied by the server, and settled when its refetch *)
(* has come back: only then do its callbacks run and isPending falls.      *)
(* Requests travel on connections of their own, so they may be applied in  *)
(* any order, and any of them may fail, before or after it was applied.    *)
(***************************************************************************)
EXTENDS Naturals, FiniteSets

CONSTANTS
    Slots,
    Levels,     \* what a level may hold
    Valid,      \* the levels validateLevel accepts
    Blank,      \* the starter level of an empty slot
    Patient,    \* TRUE: the author touches nothing while a request is out
    LostAnswers,\* TRUE: an answer may be lost after the request was applied
    MaxInFlight \* bound: requests in flight

ASSUME StagesAssumption ==
    /\ Blank \in Valid /\ Valid \subseteq Levels
    /\ Patient \in BOOLEAN /\ LostAnswers \in BOOLEAN
    /\ MaxInFlight \in Nat

VARIABLES
    server,     \* the rows of island_stages
    cache,      \* the query's data, or NotLoaded
    reqs,       \* mutations under way
    view,       \* "edit", "test" or "away"
    slot,
    level,      \* the level in the editor, or NoLevel before the first data
    dirty,
    test,       \* the run of the level under test
    won         \* levels that a test play has cleared

stagesVars == <<server, cache, reqs, view, slot, level, dirty, test, won>>

NoStage == [level |-> "none", cleared |-> FALSE, status |-> "none"]
NoLevel == "none"
NotLoaded == [s \in Slots |-> [NoStage EXCEPT !.status = "loading"]]
NoTest == [level |-> NoLevel, status |-> "none", told |-> FALSE]
Kinds == {"save", "clear", "publish", "unpublish", "delete"}
Requests == [kind : Kinds, slot : Slots, level : Levels \cup {NoLevel},
             thenTest : BOOLEAN, phase : {"sent", "checked", "applied"},
             mine : BOOLEAN]

---------------------------------------------------------------------------
(* The view                                                                *)

HasStage(s) == cache # NotLoaded /\ cache[s] # NoStage
LevelOf(s) == IF cache[s] = NoStage THEN Blank ELSE cache[s].level

\* isPending of a mutation: one that this mount of the view has sent.
IsPending(kind) == \E r \in reqs : r.kind = kind /\ r.mine

\* The author acts: at any time, or only when nothing is out.
MayAct == Patient => reqs = {}

Ready == view = "edit" /\ level # NoLevel /\ MayAct

Send(kind, s, l, thenTest) ==
    /\ Cardinality(reqs) < MaxInFlight
    /\ reqs' = reqs \cup {[kind |-> kind, slot |-> s, level |-> l,
                           thenTest |-> thenTest, phase |-> "sent",
                           mine |-> TRUE]}

\* Any change to the level or its name, undo and redo included; the undo keys
\* work on during a test play.
Edit(l) ==
    /\ view \in {"edit", "test"} /\ level # NoLevel /\ MayAct
    /\ l # level
    /\ level' = l
    /\ dirty' = TRUE
    /\ UNCHANGED <<server, cache, reqs, view, slot, test, won>>

\* Another slot, the changes to this one confirmed as discarded if there are
\* any; its level is built from the cached row.
SelectSlot(s) ==
    /\ Ready
    /\ s # slot
    /\ slot' = s
    /\ level' = LevelOf(s)
    /\ dirty' = FALSE
    /\ UNCHANGED <<server, cache, reqs, view, test, won>>

HandleSave ==
    /\ Ready
    /\ level \in Valid /\ ~IsPending("save")
    /\ Send("save", slot, level, FALSE)
    /\ UNCHANGED <<server, cache, view, slot, level, dirty, test, won>>

\* A snapshot of the level is played.
TestOf(l) == [level |-> l, status |-> "playing", told |-> FALSE]

MutantNeedsSave == ~HasStage(slot)

\* The save before a test is skipped when the server seems to hold the level.
NeedsSave == dirty \/ ~HasStage(slot)

HandleTest ==
    /\ Ready
    /\ level \in Valid /\ ~IsPending("save")
    /\ \/ /\ NeedsSave
          /\ Send("save", slot, level, TRUE)
          /\ UNCHANGED <<view, test>>
       \/ /\ ~NeedsSave
          /\ view' = "test"
          /\ test' = TestOf(level)
          /\ UNCHANGED reqs
    /\ UNCHANGED <<server, cache, slot, level, dirty, won>>

CanPublish ==
    /\ HasStage(slot) /\ cache[slot].cleared /\ ~dirty
    /\ cache[slot].status # "published"

HandlePublish ==
    /\ Ready
    /\ CanPublish /\ ~IsPending("publish")
    /\ Send("publish", slot, NoLevel, FALSE)
    /\ UNCHANGED <<server, cache, view, slot, level, dirty, test, won>>

HandleUnpublish ==
    /\ Ready
    /\ HasStage(slot) /\ cache[slot].status = "published"
    /\ ~IsPending("unpublish")
    /\ Send("unpublish", slot, NoLevel, FALSE)
    /\ UNCHANGED <<server, cache, view, slot, level, dirty, test, won>>

HandleDelete ==
    /\ Ready
    /\ HasStage(slot) /\ ~IsPending("delete")
    /\ Send("delete", slot, NoLevel, FALSE)
    /\ UNCHANGED <<server, cache, view, slot, level, dirty, test, won>>

\* The view unmounts: requests go on, but their callbacks are gone.
HandleExit ==
    /\ Ready
    /\ view' = "away"
    /\ reqs' = {[r EXCEPT !.mine = FALSE] : r \in reqs}
    /\ level' = NoLevel /\ dirty' = FALSE
    /\ UNCHANGED <<server, cache, slot, test, won>>

\* A new mount shows the first slot; the level is built as soon as there is
\* data, which may be what the cache still holds.
Open ==
    /\ view = "away" /\ MayAct
    /\ view' = "edit"
    /\ \E s \in Slots : slot' = s /\ \A other \in Slots : s <= other
    /\ level' = IF cache = NotLoaded THEN NoLevel ELSE LevelOf(slot')
    /\ UNCHANGED <<server, cache, reqs, dirty, test, won>>

LevelOnServer == IF server[slot] = NoStage THEN Blank ELSE server[slot].level

MutantBuilt == IF dirty THEN level ELSE LevelOnServer

\* Only a slot that has not been loaded gets its level from the fetched list
\* (loadedSlotRef).
Built == IF level = NoLevel THEN LevelOnServer ELSE level

\* The list is fetched: on mount, after a mutation, or on reconnection.
Fetch ==
    /\ view # "away"
    /\ cache' = server
    /\ level' = Built
    /\ UNCHANGED <<server, reqs, view, slot, dirty, test, won>>

---------------------------------------------------------------------------
(* The test play                                                           *)

\* The first clear of a test play marks the slot that is open now.
OnClear(s) ==
    IF test.told THEN UNCHANGED reqs ELSE Send("clear", s, NoLevel, FALSE)

Cleared ==
    /\ view = "test" /\ test.status = "playing"
    /\ OnClear(slot)
    /\ test' = [test EXCEPT !.status = "cleared", !.told = TRUE]
    /\ won' = won \cup {test.level}
    /\ UNCHANGED <<server, cache, view, slot, level, dirty>>

GameOver ==
    /\ view = "test" /\ test.status = "playing"
    /\ test' = [test EXCEPT !.status = "gameover"]
    /\ UNCHANGED <<server, cache, reqs, view, slot, level, dirty, won>>

Retry ==
    /\ view = "test" /\ test.status = "gameover"
    /\ test' = [test EXCEPT !.status = "playing"]
    /\ UNCHANGED <<server, cache, reqs, view, slot, level, dirty, won>>

BackToEditor ==
    /\ view = "test"
    /\ view' = "edit"
    /\ test' = NoTest
    /\ UNCHANGED <<server, cache, reqs, slot, level, dirty, won>>

---------------------------------------------------------------------------
(* The server                                                              *)

MutantSaved(r) ==
    [level |-> r.level, cleared |-> FALSE,
     status |-> IF server[r.slot] = NoStage THEN "draft" ELSE server[r.slot].status]

\* A save starts over: neither cleared nor published.
Saved(r) == [level |-> r.level, cleared |-> FALSE, status |-> "draft"]

Becomes(r, stage) ==
    /\ server' = [server EXCEPT ![r.slot] = stage]
    /\ reqs' = (reqs \ {r}) \cup {[r EXCEPT !.phase = "applied"]}
    /\ UNCHANGED <<cache, view, slot, level, dirty, test, won>>

Found(r) == server[r.slot] # NoStage

ServerSave(r) == r.kind = "save" /\ r.phase = "sent" /\ Becomes(r, Saved(r))

ServerClear(r) ==
    /\ r.kind = "clear" /\ r.phase = "sent" /\ Found(r)
    /\ Becomes(r, [server[r.slot] EXCEPT !.cleared = TRUE])

\* The row is read and checked, and the status written, in two statements.
ServerCheck(r) ==
    /\ r.kind = "publish" /\ r.phase = "sent" /\ Found(r)
    /\ server[r.slot].cleared
    /\ reqs' = (reqs \ {r}) \cup {[r EXCEPT !.phase = "checked"]}
    /\ UNCHANGED <<server, cache, view, slot, level, dirty, test, won>>

ServerPublish(r) ==
    /\ r.phase = "checked" /\ Found(r)
    /\ Becomes(r, [server[r.slot] EXCEPT !.status = "published"])

ServerUnpublish(r) ==
    /\ r.kind = "unpublish" /\ r.phase = "sent" /\ Found(r)
    /\ Becomes(r, [server[r.slot] EXCEPT !.status = "draft"])

ServerDelete(r) ==
    /\ r.kind = "delete" /\ r.phase = "sent" /\ Found(r)
    /\ Becomes(r, NoStage)

---------------------------------------------------------------------------
(* The answers                                                             *)

\* What the callbacks of a settled mutation do, if the view that sent it is
\* still there: a save clears the unsaved mark and may enter the test with
\* the snapshot it was sent with, a delete starts the open slot over.
Callback(r) ==
    /\ dirty' = IF r.mine /\ r.kind \in {"save", "delete"} THEN FALSE ELSE dirty
    /\ level' = IF r.mine /\ r.kind = "delete" THEN Blank ELSE level
    /\ IF r.mine /\ r.thenTest
       THEN view' = "test" /\ test' = TestOf(r.level)
       ELSE UNCHANGED <<view, test>>

\* The list is refetched if a view shows it, then the callbacks run.
Settle(r) ==
    /\ r.phase = "applied"
    /\ reqs' = reqs \ {r}
    /\ cache' = IF view = "away" THEN cache ELSE server
    /\ Callback(r)
    /\ UNCHANGED <<server, slot, won>>

\* An error answer, or none: the mutation shows its error and that is all.
Fail(r) ==
    /\ LostAnswers \/ r.phase = "sent"
    /\ reqs' = reqs \ {r}
    /\ UNCHANGED <<server, cache, view, slot, level, dirty, test, won>>

StagesInit ==
    /\ server = [s \in Slots |-> NoStage]
    /\ cache = NotLoaded
    /\ reqs = {} /\ view = "away"
    /\ slot \in Slots /\ level = NoLevel /\ dirty = FALSE
    /\ test = NoTest /\ won = {}

Author ==
    \/ \E l \in Levels : Edit(l)
    \/ \E s \in Slots : SelectSlot(s)
    \/ HandleSave \/ HandleTest \/ HandlePublish \/ HandleUnpublish
    \/ HandleDelete \/ HandleExit \/ Open
    \/ Cleared \/ GameOver \/ Retry \/ BackToEditor

Server ==
    \E r \in reqs :
        \/ ServerSave(r) \/ ServerClear(r) \/ ServerCheck(r) \/ ServerPublish(r)
        \/ ServerUnpublish(r) \/ ServerDelete(r)

StagesNext == Author \/ Server \/ Fetch \/ \E r \in reqs : Settle(r) \/ Fail(r)

StagesSpec == StagesInit /\ [][StagesNext]_stagesVars

---------------------------------------------------------------------------
(* Properties                                                              *)

StageOf == [level : Valid, cleared : BOOLEAN, status : {"draft", "published"}]

StagesTypeOK ==
    /\ server \in [Slots -> StageOf \cup {NoStage}]
    /\ cache = NotLoaded \/ cache \in [Slots -> StageOf \cup {NoStage}]
    /\ reqs \subseteq Requests
    /\ view \in {"edit", "test", "away"}
    /\ slot \in Slots /\ level \in Levels \cup {NoLevel} /\ dirty \in BOOLEAN
    /\ test.status \in {"none", "playing", "cleared", "gameover"}
    /\ won \subseteq Valid

\* A stage marked as cleared has been cleared as it is: its author reached the
\* flag of this very level in a test play.
ClearedWasPlayed ==
    \A s \in Slots : server[s].cleared => server[s].level \in won

\* What visitors find published is a level that its author has cleared.
PublishedWasPlayed ==
    \A s \in Slots :
        server[s].status = "published" =>
            server[s].cleared /\ server[s].level \in won

\* A refetch never overwrites the level that is being edited: while the same
\* slot stays open, only the author's edit or a delete's answer changes it.
EditsSurvive ==
    [][ (view # "away" /\ view' # "away" /\ slot' = slot /\ level # NoLevel
           /\ level' # level) =>
        \/ \E l \in Levels : Edit(l)
        \/ \E r \in reqs : r.kind = "delete" /\ Settle(r) ]_stagesVars

\* An editor without the unsaved mark shows what the server holds for its slot
\* (nothing stored counts as the starter level), unless a request is out.
CleanMeansSaved ==
    (view = "edit" /\ level # NoLevel /\ ~dirty /\ reqs = {}) =>
        level = LevelOnServer

\* The page, and what visitors find, agree with what the server holds.
StagesInv ==
    /\ StagesTypeOK /\ CleanMeansSaved /\ PublishedWasPlayed
=============================================================================
