--------------------------- MODULE VisitServiceProofs ---------------------------
(***************************************************************************)
(* Two things that the visit service keeps and nothing else writes: the    *)
(* stages of an island (Stages), and the rounds of rock-paper-scissors     *)
(* (Rps).                                                                  *)
(***************************************************************************)
EXTENDS Stages, Rps, TLAPS

-----------------------------------------------------------------------------
(***************************************************************************)
(* The stages of an island, proved for any slots, levels and bound on the  *)
(* requests: an author who waits for each answer, and whose answers are    *)
(* not lost, never has a level marked as cleared, or published, that was   *)
(* not played to its flag.                                                 *)
(*                                                                         *)
(* What makes it so: one request is out at a time, and it is of the slot   *)
(* on screen (Alone, Awaited); an editor without the unsaved mark shows    *)
(* what the server holds (Clean), and the cached list is the server's      *)
(* (Cached), so that the level a test play plays is the stored one         *)
(* (Tested), and the clear that follows marks the level that was played.   *)
(***************************************************************************)

\* The level under test, and how far its play has got.
TestOK ==
    test \in [level : Levels \cup {NoLevel},
              status : {"none", "playing", "cleared", "gameover"},
              told : BOOLEAN]

\* At most one request is out.
Alone == \A r1, r2 \in reqs : r1 = r2

\* What a request means: it is of this mount and of the open slot, and once it
\* is applied the row is as it says.
Means(r) ==
    /\ r.mine /\ r.slot = slot
    /\ view # "away"
    /\ r.kind # "clear" => level # NoLevel
    /\ r.thenTest => r.kind = "save"
    /\ view = "test" => r.kind = "clear" /\ test.told
    /\ r.kind = "save" => r.level = level /\ r.level \in Valid
    /\ r.kind = "save" /\ r.phase = "applied" =>
           server[slot] # NoStage /\ server[slot].level = r.level
    /\ r.kind = "clear" =>
           server[slot] # NoStage /\ server[slot].level \in won
    /\ r.phase = "checked" =>
           r.kind = "publish" /\ server[slot] # NoStage /\ server[slot].cleared
    /\ r.kind = "delete" /\ r.phase = "applied" => server[slot] = NoStage

\* All that is out means what it says.
Awaited == \A r \in reqs : Means(r)

\* The cached list is the server's, unless an answer is yet to come.
Cached ==
    \/ cache = NotLoaded \/ cache = server
    \/ \E r \in reqs : r.phase = "applied"

\* An editor without the unsaved mark shows what the server holds, unless the
\* answer to a delete is yet to come.
Clean ==
    (level # NoLevel /\ ~dirty) =>
        \/ level = LevelOnServer
        \/ \E r \in reqs : r.kind = "delete" /\ r.phase = "applied"

\* The level under test is the one the server holds.
Tested ==
    view = "test" =>
        /\ server[slot] # NoStage /\ server[slot].level = test.level
        /\ test.told => test.status = "cleared"

\* A view that is away edits nothing.
Away == view = "away" => level = NoLevel /\ ~dirty

\* The inductive invariant of a careful author.
StagesIInv ==
    /\ StagesTypeOK /\ TestOK /\ Alone /\ Awaited /\ Cached /\ Clean /\ Tested /\ Away
    /\ ClearedWasPlayed /\ PublishedWasPlayed

\* The author waits for every answer, and none is lost.
Careful == Patient /\ ~LostAnswers

---------------------------------------------------------------------------
(* The author's actions                                                    *)

LEMMA InitHolds == StagesInit => StagesIInv
<1> USE StagesAssumption
<1> SUFFICES ASSUME StagesInit PROVE StagesIInv
  OBVIOUS
<1>1. StagesTypeOK
  BY DEF StagesInit, StagesTypeOK, NotLoaded, NoTest, NoStage
<1>2. TestOK
  BY DEF StagesInit, TestOK, NoTest
<1>3. Alone /\ Awaited /\ Cached /\ Clean /\ Tested /\ Away
  BY DEF StagesInit, Alone, Awaited, Cached, Clean, Tested, Away
<1>4. ClearedWasPlayed /\ PublishedWasPlayed
  BY DEF StagesInit, ClearedWasPlayed, PublishedWasPlayed, NoStage
<1> QED
  BY <1>1, <1>2, <1>3, <1>4 DEF StagesIInv

\* What the author does when nothing is out sends nothing, and the rows stay.
LEMMA QuietAuthor ==
    ASSUME StagesIInv, Careful,
           \/ \E l \in Levels : Edit(l)
           \/ \E s \in Slots : SelectSlot(s)
           \/ HandleExit \/ Open
    PROVE  StagesIInv'
<1> USE StagesAssumption DEF StagesIInv, Careful
<1>1. CASE \E l \in Levels : Edit(l)
  <2> PICK l \in Levels : Edit(l)
    BY <1>1
  <2> USE DEF Edit, MayAct
  <2>1. StagesTypeOK' /\ TestOK'
    BY DEF StagesTypeOK, TestOK
  <2>2. Alone' /\ Awaited' /\ Cached' /\ Clean' /\ Tested' /\ Away'
    BY DEF Alone, Awaited, Cached, Clean, Tested, Away
  <2>3. ClearedWasPlayed' /\ PublishedWasPlayed'
    BY DEF ClearedWasPlayed, PublishedWasPlayed
  <2> QED
    BY <2>1, <2>2, <2>3
<1>2. CASE \E s \in Slots : SelectSlot(s)
  <2> PICK s \in Slots : SelectSlot(s)
    BY <1>2
  <2> USE DEF SelectSlot, MayAct, Ready
  <2>0. level' \in Levels \cup {NoLevel}
    BY DEF LevelOf, StagesTypeOK, StageOf, NoStage, NotLoaded, NoLevel
  <2>1. StagesTypeOK' /\ TestOK'
    BY <2>0 DEF StagesTypeOK, TestOK
  <2>2. Alone' /\ Awaited' /\ Cached' /\ Tested' /\ Away'
    BY DEF Alone, Awaited, Cached, Tested, Away
  <2>3. Clean'
    BY DEF Cached, Clean, LevelOf, LevelOnServer, NotLoaded, StagesTypeOK, NoStage, NoLevel
  <2>4. ClearedWasPlayed' /\ PublishedWasPlayed'
    BY DEF ClearedWasPlayed, PublishedWasPlayed
  <2> QED
    BY <2>1, <2>2, <2>3, <2>4
<1>3. CASE HandleExit
  <2> USE <1>3 DEF HandleExit, MayAct, Ready
  <2>0. reqs = {} /\ reqs' = {}
    OBVIOUS
  <2>1. StagesTypeOK' /\ TestOK'
    BY <2>0 DEF StagesTypeOK, TestOK
  <2>2. Alone' /\ Awaited' /\ Cached' /\ Clean' /\ Tested' /\ Away'
    BY <2>0 DEF Alone, Awaited, Cached, Clean, Tested, Away
  <2>3. ClearedWasPlayed' /\ PublishedWasPlayed'
    BY DEF ClearedWasPlayed, PublishedWasPlayed
  <2> QED
    BY <2>1, <2>2, <2>3
<1>4. CASE Open
  <2> USE <1>4 DEF Open, MayAct
  <2>0. slot' \in Slots /\ level' \in Levels \cup {NoLevel}
    BY DEF LevelOf, StagesTypeOK, StageOf, NoStage, NotLoaded, NoLevel
  <2>1. StagesTypeOK' /\ TestOK'
    BY <2>0 DEF StagesTypeOK, TestOK
  <2>2. Alone' /\ Awaited' /\ Cached' /\ Tested' /\ Away'
    BY DEF Alone, Awaited, Cached, Tested, Away
  <2>3. Clean'
    BY <2>0 DEF Cached, Clean, LevelOf, LevelOnServer, StagesTypeOK
  <2>4. ClearedWasPlayed' /\ PublishedWasPlayed'
    BY DEF ClearedWasPlayed, PublishedWasPlayed
  <2> QED
    BY <2>1, <2>2, <2>3, <2>4
<1> QED
  BY <1>1, <1>2, <1>3, <1>4
\* A request of the open slot, sent when nothing else is out.
LEMMA SendsOne ==
    ASSUME StagesIInv, Careful, reqs = {},
           NEW kind \in Kinds, NEW l, NEW thenTest \in BOOLEAN,
           Send(kind, slot, l, thenTest),
           l \in Levels \cup {NoLevel},
           kind = "save" => l = level /\ l \in Valid,
           thenTest => kind = "save",
           view # "away", kind # "clear" => level # NoLevel,
           kind = "clear" =>
               server[slot] # NoStage /\ server[slot].level \in won',
           (view = "test")' => kind = "clear" /\ test'.told,
           UNCHANGED <<server, slot, level>>, view' # "away"
    PROVE  reqs' \subseteq Requests /\ Alone' /\ Awaited'
<1> DEFINE r == [kind |-> kind, slot |-> slot, level |-> l,
                 thenTest |-> thenTest, phase |-> "sent", mine |-> TRUE]
<1>1. reqs' = {r}
  BY DEF Send
<1>2. r \in Requests
  BY DEF Requests, StagesIInv, StagesTypeOK
<1>3. Means(r)'
  BY DEF Means
<1> QED
  BY <1>1, <1>2, <1>3 DEF Alone, Awaited

LEMMA SendingAuthor ==
    ASSUME StagesIInv, Careful,
           \/ HandleSave \/ HandleTest \/ HandlePublish
           \/ HandleUnpublish \/ HandleDelete
    PROVE  StagesIInv'
<1> USE StagesAssumption DEF StagesIInv, Careful
<1>0. reqs = {} /\ view = "edit" /\ level # NoLevel
  BY DEF HandleSave, HandleTest, HandlePublish, HandleUnpublish, HandleDelete,
         Ready, MayAct
<1>1. CASE
        /\ \E kind \in Kinds, l \in Levels \cup {NoLevel}, thenTest \in BOOLEAN :
              /\ Send(kind, slot, l, thenTest)
              /\ kind = "save" => l = level /\ l \in Valid
              /\ thenTest => kind = "save"
              /\ kind # "clear"
        /\ UNCHANGED <<server, cache, view, slot, level, dirty, test, won>>
  <2>1. reqs' \subseteq Requests /\ Alone' /\ Awaited'
    BY <1>0, <1>1, SendsOne
  <2>2. StagesTypeOK' /\ TestOK'
    BY <1>1, <2>1 DEF StagesTypeOK, TestOK, StageOf
  <2>3. Cached' /\ Clean' /\ Tested' /\ Away'
    BY <1>0, <1>1 DEF Cached, Clean, Tested, Away, LevelOnServer
  <2>4. ClearedWasPlayed' /\ PublishedWasPlayed'
    BY <1>1 DEF ClearedWasPlayed, PublishedWasPlayed
  <2> QED
    BY <2>1, <2>2, <2>3, <2>4
<1>2. CASE
        /\ ~NeedsSave /\ level \in Valid
        /\ view' = "test" /\ test' = TestOf(level)
        /\ UNCHANGED <<reqs, server, cache, slot, level, dirty, won>>
  <2>1. StagesTypeOK' /\ TestOK'
    BY <1>2 DEF StagesTypeOK, TestOK, TestOf, StageOf
  <2>2. Alone' /\ Awaited' /\ Cached' /\ Clean' /\ Away'
    BY <1>0, <1>2 DEF Alone, Awaited, Cached, Clean, Away, LevelOnServer
  <2>3. server[slot] # NoStage /\ server[slot].level = level
    BY <1>0, <1>2 DEF NeedsSave, HasStage, Cached, Clean, LevelOnServer
  <2>4. Tested'
    BY <1>2, <2>3 DEF Tested, TestOf
  <2>5. ClearedWasPlayed' /\ PublishedWasPlayed'
    BY <1>2 DEF ClearedWasPlayed, PublishedWasPlayed
  <2> QED
    BY <2>1, <2>2, <2>4, <2>5
<1>3. CASE HandleSave
  BY <1>1, <1>3 DEF HandleSave, Kinds
<1>4. CASE HandleTest
  BY <1>1, <1>2, <1>4 DEF HandleTest, Kinds
<1>5. CASE HandlePublish
  BY <1>1, <1>5 DEF HandlePublish, Kinds
<1>6. CASE HandleUnpublish
  BY <1>1, <1>6 DEF HandleUnpublish, Kinds
<1>7. CASE HandleDelete
  BY <1>1, <1>7 DEF HandleDelete, Kinds
<1> QED
  BY <1>3, <1>4, <1>5, <1>6, <1>7

\* The test play: its first clear is sent while nothing is out, for the slot
\* whose row holds the level that was played.
LEMMA TestPlay ==
    ASSUME StagesIInv, Careful, Cleared \/ GameOver \/ Retry \/ BackToEditor
    PROVE  StagesIInv'
<1> USE StagesAssumption DEF StagesIInv, Careful
<1>1. CASE Cleared
  <2> USE <1>1 DEF Cleared
  <2>1. ~test.told /\ reqs = {}
    BY DEF Tested, Awaited, Means
  <2>2. Send("clear", slot, NoLevel, FALSE)
    BY <2>1 DEF OnClear
  <2>3. /\ server[slot] # NoStage /\ server[slot].level = test.level
        /\ server[slot].level \in won' /\ test.level \in Valid
    BY DEF Tested, StagesTypeOK, StageOf, NoStage
  <2>4. test' = [test EXCEPT !.status = "cleared", !.told = TRUE] /\ TestOK'
    BY DEF TestOK
  <2>5. test'.told /\ test'.status = "cleared" /\ test'.level = test.level
    BY <2>4 DEF TestOK
  <2>6. reqs' \subseteq Requests /\ Alone' /\ Awaited'
    BY <2>1, <2>2, <2>3, <2>5, SendsOne DEF Kinds
  <2>7. StagesTypeOK'
    BY <2>3, <2>4, <2>5, <2>6 DEF StagesTypeOK
  <2>8. Cached' /\ Clean' /\ Tested' /\ Away'
    BY <2>1, <2>3, <2>5 DEF Cached, Clean, Tested, Away, LevelOnServer
  <2>9. ClearedWasPlayed' /\ PublishedWasPlayed'
    BY DEF ClearedWasPlayed, PublishedWasPlayed
  <2> QED
    BY <2>4, <2>6, <2>7, <2>8, <2>9
<1>2. CASE GameOver \/ Retry
  <2>1. UNCHANGED <<server, cache, reqs, view, slot, level, dirty, won>>
    BY <1>2 DEF GameOver, Retry
  <2>2. view = "test" /\ ~test.told
    BY <1>2 DEF GameOver, Retry, Tested
  <2>3. /\ test'.level = test.level /\ test'.told = test.told
        /\ TestOK'
    BY <1>2 DEF GameOver, Retry, TestOK
  <2>4. StagesTypeOK' /\ TestOK'
    BY <2>1, <2>3 DEF StagesTypeOK, TestOK
  <2>5. Alone' /\ Awaited' /\ Cached' /\ Clean' /\ Tested' /\ Away'
    BY <2>1, <2>2, <2>3 DEF Alone, Awaited, Means, Cached, Clean, Tested, Away, LevelOnServer
  <2>6. ClearedWasPlayed' /\ PublishedWasPlayed'
    BY <2>1 DEF ClearedWasPlayed, PublishedWasPlayed
  <2> QED
    BY <2>4, <2>5, <2>6
<1>3. CASE BackToEditor
  <2> USE <1>3 DEF BackToEditor
  <2>1. StagesTypeOK' /\ TestOK'
    BY DEF StagesTypeOK, TestOK, NoTest
  <2>2. Alone' /\ Awaited' /\ Cached' /\ Clean' /\ Tested' /\ Away'
    BY DEF Alone, Awaited, Means, Cached, Clean, Tested, Away, LevelOnServer
  <2>3. ClearedWasPlayed' /\ PublishedWasPlayed'
    BY DEF ClearedWasPlayed, PublishedWasPlayed
  <2> QED
    BY <2>1, <2>2, <2>3
<1> QED
  BY <1>1, <1>2, <1>3
---------------------------------------------------------------------------
(* The server, and its answers                                             *)

\* A step of the server on the one request that is out.
LEMMA Serves ==
    ASSUME StagesIInv, Careful, NEW r \in reqs, NEW phase \in {"checked", "applied"},
           r.phase # "applied",
           reqs' = (reqs \ {r}) \cup {[r EXCEPT !.phase = phase]},
           UNCHANGED <<cache, view, slot, level, dirty, test, won>>,
           server' \in [Slots -> StageOf \cup {NoStage}],
           \A s \in Slots \ {slot} : server'[s] = server[s],
           server'[slot].cleared => server'[slot].level \in won,
           server'[slot].status = "published" =>
               server'[slot].cleared /\ server'[slot].level \in won,
           phase = "checked" => UNCHANGED server,
           Means([r EXCEPT !.phase = phase])',
           view = "test" =>
               server'[slot] # NoStage /\ server'[slot].level = server[slot].level,
           r.kind \in {"save", "delete"} \/ LevelOnServer' = LevelOnServer
    PROVE  StagesIInv'
<1> USE StagesAssumption DEF StagesIInv, Careful
<1> DEFINE q == [r EXCEPT !.phase = phase]
<1>1. reqs' = {q} /\ reqs = {r}
  BY DEF Alone
<1>2. r \in Requests
  BY DEF StagesTypeOK
<1>3. q \in Requests /\ q.kind = r.kind /\ q.phase = phase
  BY <1>2 DEF Requests
<1>4. StagesTypeOK' /\ TestOK'
  BY <1>1, <1>3 DEF StagesTypeOK, TestOK
<1>5. Alone' /\ Awaited'
  BY <1>1 DEF Alone, Awaited
<1>6. Cached'
  BY <1>1, <1>3 DEF Cached
<1>7. Clean'
  <2>1. Means(q)'
    OBVIOUS
  <2>2. CASE r.kind = "save"
    <3>1. level = q.level /\ phase = "applied"
      BY <1>3, <2>1, <2>2 DEF Means
    <3>2. server'[slot] # NoStage /\ server'[slot].level = level
      BY <1>3, <2>1, <2>2, <3>1 DEF Means
    <3> QED
      BY <3>2 DEF Clean, LevelOnServer
  <2>3. CASE r.kind = "delete"
    BY <1>1, <1>3, <2>1, <2>3 DEF Clean, Means
  <2>4. CASE r.kind \notin {"save", "delete"}
    BY <1>1, <2>4 DEF Clean
  <2> QED
    BY <2>2, <2>3, <2>4
<1>8. Tested' /\ Away'
  BY DEF Tested, Away
<1>9. ClearedWasPlayed' /\ PublishedWasPlayed'
  BY DEF ClearedWasPlayed, PublishedWasPlayed
<1> QED
  BY <1>4, <1>5, <1>6, <1>7, <1>8, <1>9
LEMMA ServerStep ==
    ASSUME StagesIInv, Careful, Server
    PROVE  StagesIInv'
<1> USE StagesAssumption
<1>0. PICK r \in reqs :
        \/ ServerSave(r) \/ ServerClear(r) \/ ServerCheck(r) \/ ServerPublish(r)
        \/ ServerUnpublish(r) \/ ServerDelete(r)
  BY DEF Server
<1>1. /\ r \in Requests /\ Means(r) /\ slot \in Slots
      /\ server \in [Slots -> StageOf \cup {NoStage}]
      /\ server[slot].cleared => server[slot].level \in won
      /\ server[slot].status = "published" =>
             server[slot].cleared /\ server[slot].level \in won
      /\ view = "test" => server[slot] # NoStage
  BY DEF StagesIInv, StagesTypeOK, Awaited, ClearedWasPlayed, PublishedWasPlayed, Tested
<1>2. /\ r.slot = slot /\ r.mine /\ view # "away"
      /\ r.kind # "clear" => level # NoLevel
      /\ r.thenTest => r.kind = "save"
      /\ view = "test" => r.kind = "clear" /\ test.told
      /\ r.kind = "save" => r.level = level /\ r.level \in Valid
  BY <1>1 DEF Means
<1> DEFINE At(p) == [r EXCEPT !.phase = p]
<1>3. ASSUME NEW p \in {"checked", "applied"}
      PROVE  /\ At(p).phase = p /\ At(p).kind = r.kind /\ At(p).slot = r.slot
             /\ At(p).mine = r.mine /\ At(p).level = r.level
             /\ At(p).thenTest = r.thenTest
  BY <1>1 DEF Requests
<1>4. CASE ServerCheck(r)
  <2>1. Means(At("checked"))'
    BY <1>2, <1>3, <1>4 DEF Means, ServerCheck, Found
  <2> QED
    BY <1>1, <1>2, <1>4, <2>1, Serves DEF ServerCheck, LevelOnServer
<1>5. ASSUME NEW stage \in StageOf \cup {NoStage}, Becomes(r, stage),
             r.phase # "applied",
             stage.cleared => stage.level \in won,
             stage.status = "published" => stage.cleared /\ stage.level \in won,
             view = "test" => stage # NoStage /\ stage.level = server[slot].level,
             Means(At("applied"))',
             \/ r.kind \in {"save", "delete"}
             \/ server[slot] # NoStage /\ stage # NoStage
                   /\ stage.level = server[slot].level
      PROVE  StagesIInv'
  <2>1. /\ server' \in [Slots -> StageOf \cup {NoStage}]
        /\ server'[slot] = stage
        /\ \A s \in Slots \ {slot} : server'[s] = server[s]
    BY <1>1, <1>2, <1>5 DEF Becomes
  <2>2. r.kind \in {"save", "delete"} \/ LevelOnServer' = LevelOnServer
    BY <1>5, <2>1 DEF LevelOnServer, Becomes
  <2> QED
    BY <1>5, <2>1, <2>2, Serves DEF Becomes
<1>6. CASE ServerSave(r)
  <2>1. Saved(r) \in StageOf /\ Saved(r) # NoStage /\ Saved(r).level = r.level
    BY <1>2, <1>6 DEF ServerSave, Saved, StageOf, NoStage
  <2>2. server'[slot] = Saved(r)
    BY <1>1, <1>2, <1>6 DEF ServerSave, Becomes
  <2>3. Means(At("applied"))'
    BY <1>2, <1>3, <1>6, <2>1, <2>2 DEF Means, ServerSave, Becomes
  <2> QED
    BY <1>2, <1>5, <1>6, <2>1, <2>3 DEF ServerSave, Saved
<1>7. ASSUME NEW stage, Found(r), Becomes(r, stage), r.phase # "applied",
             stage \in {[server[slot] EXCEPT !.cleared = TRUE],
                        [server[slot] EXCEPT !.status = "published"],
                        [server[slot] EXCEPT !.status = "draft"]},
             stage.cleared => stage.level \in won,
             stage.status = "published" => stage.cleared,
             r.kind \notin {"save", "delete"}
      PROVE  StagesIInv'
  <2>1. server[slot] \in StageOf
    BY <1>1, <1>2, <1>7 DEF Found
  <2>2. stage \in StageOf /\ stage # NoStage /\ stage.level = server[slot].level
    <3>1. CASE stage = [server[slot] EXCEPT !.cleared = TRUE]
      BY <2>1, <3>1 DEF StageOf, NoStage
    <3>2. CASE stage = [server[slot] EXCEPT !.status = "published"]
      BY <2>1, <3>2 DEF StageOf, NoStage
    <3>3. CASE stage = [server[slot] EXCEPT !.status = "draft"]
      BY <2>1, <3>3 DEF StageOf, NoStage
    <3> QED
      BY <1>7, <3>1, <3>2, <3>3
  <2>3. server'[slot] = stage
    BY <1>1, <1>2, <1>7 DEF Becomes
  <2>4. Means(At("applied"))'
    BY <1>1, <1>2, <1>3, <1>7, <2>2, <2>3 DEF Means, Becomes
  <2> QED
    BY <1>2, <1>5, <1>7, <2>2, <2>4 DEF Found
<1>8. CASE ServerClear(r)
  <2>1. server[slot] \in StageOf /\ server[slot].level \in won
    BY <1>1, <1>2, <1>8 DEF ServerClear, Found, Means
  <2> DEFINE stage == [server[slot] EXCEPT !.cleared = TRUE]
  <2>2. stage.cleared /\ stage.level = server[slot].level
    BY <2>1 DEF StageOf
  <2>3. Becomes(r, stage) /\ Found(r) /\ r.phase # "applied" /\ r.kind = "clear"
    BY <1>2, <1>8 DEF ServerClear
  <2> HIDE DEF stage
  <2> QED
    BY <1>7, <2>1, <2>2, <2>3 DEF stage
<1>9. CASE ServerPublish(r)
  <2>1. /\ server[slot] \in StageOf /\ server[slot].cleared
        /\ server[slot].level \in won /\ r.kind = "publish"
    BY <1>1, <1>2, <1>9 DEF ServerPublish, Found, Means
  <2> DEFINE stage == [server[slot] EXCEPT !.status = "published"]
  <2>2. stage.cleared /\ stage.level = server[slot].level
    BY <2>1 DEF StageOf
  <2>3. Becomes(r, stage) /\ Found(r) /\ r.phase # "applied"
    BY <1>2, <1>9 DEF ServerPublish
  <2> HIDE DEF stage
  <2> QED
    BY <1>7, <2>1, <2>2, <2>3 DEF stage
<1>10. CASE ServerUnpublish(r)
  <2>1. server[slot] \in StageOf
    BY <1>1, <1>2, <1>10 DEF ServerUnpublish, Found
  <2> DEFINE stage == [server[slot] EXCEPT !.status = "draft"]
  <2>2. /\ stage.cleared = server[slot].cleared
        /\ stage.level = server[slot].level /\ stage.status = "draft"
    BY <2>1 DEF StageOf
  <2>3. Becomes(r, stage) /\ Found(r) /\ r.phase # "applied" /\ r.kind = "unpublish"
    BY <1>2, <1>10 DEF ServerUnpublish
  <2> HIDE DEF stage
  <2> QED
    BY <1>1, <1>7, <2>2, <2>3 DEF stage
<1>11. CASE ServerDelete(r)
  <2>1. server'[slot] = NoStage
    BY <1>1, <1>2, <1>11 DEF ServerDelete, Becomes
  <2>2. Means(At("applied"))'
    BY <1>2, <1>3, <1>11, <2>1 DEF Means, ServerDelete, Becomes
  <2> QED
    BY <1>2, <1>5, <1>11, <2>2 DEF ServerDelete, NoStage
<1> QED
  BY <1>0, <1>4, <1>6, <1>8, <1>9, <1>10, <1>11

\* The answer, its refetch and its callbacks; an error; a refetch.
LEMMA AnswerStep ==
    ASSUME StagesIInv, Careful, Fetch \/ \E r \in reqs : Settle(r) \/ Fail(r)
    PROVE  StagesIInv'
<1> USE StagesAssumption DEF StagesIInv, Careful
<1>1. CASE Fetch
  <2> USE <1>1 DEF Fetch
  <2>1. level' \in Levels \cup {NoLevel} /\ (level # NoLevel => level' = level)
    BY DEF Built, LevelOnServer, StagesTypeOK, StageOf, NoStage, NoLevel
  <2>2. StagesTypeOK' /\ TestOK'
    BY <2>1 DEF StagesTypeOK, TestOK
  <2>3. Alone' /\ Cached' /\ Tested' /\ Away'
    BY DEF Alone, Cached, Tested, Away
  <2>4. Awaited'
    BY <2>1 DEF Awaited, Means, Alone
  <2>5. Clean'
    BY <2>1 DEF Clean, Built, LevelOnServer
  <2>6. ClearedWasPlayed' /\ PublishedWasPlayed'
    BY DEF ClearedWasPlayed, PublishedWasPlayed
  <2> QED
    BY <2>2, <2>3, <2>4, <2>5, <2>6
<1>2. ASSUME NEW r \in reqs, Fail(r)
      PROVE  StagesIInv'
  <2> USE <1>2 DEF Fail
  <2>1. reqs = {r} /\ reqs' = {} /\ r.phase = "sent"
    BY DEF Alone
  <2>2. StagesTypeOK' /\ TestOK'
    BY <2>1 DEF StagesTypeOK, TestOK
  <2>3. Alone' /\ Awaited' /\ Cached' /\ Clean' /\ Tested' /\ Away'
    BY <2>1 DEF Alone, Awaited, Cached, Clean, Tested, Away, LevelOnServer
  <2>4. ClearedWasPlayed' /\ PublishedWasPlayed'
    BY DEF ClearedWasPlayed, PublishedWasPlayed
  <2> QED
    BY <2>2, <2>3, <2>4
<1>3. ASSUME NEW r \in reqs, Settle(r)
      PROVE  StagesIInv'
  <2> USE <1>3 DEF Settle
  <2>1. reqs = {r} /\ reqs' = {} /\ Means(r) /\ r \in Requests
    BY DEF Alone, Awaited, StagesTypeOK
  <2>2. view # "away" /\ cache' = server /\ r.mine /\ r.slot = slot
    BY <2>1 DEF Means
  <2>3. /\ r.thenTest => r.kind = "save"
        /\ r.kind = "save" =>
              r.level \in Valid /\ r.level = level /\ server[slot] # NoStage
                /\ server[slot].level = r.level
        /\ r.kind = "delete" => server[slot] = NoStage
        /\ view = "test" => r.kind = "clear"
    BY <2>1 DEF Means
  <2>4. level' \in Levels \cup {NoLevel} /\ dirty' \in BOOLEAN
    BY DEF Callback, StagesTypeOK
  <2>5. /\ view' \in {"edit", "test"}
        /\ view' = "test" =>
              \/ view = "test" /\ test' = test
              \/ r.thenTest /\ test' = TestOf(r.level)
        /\ TestOK'
    <3>1. CASE r.thenTest
      <4>1. view' = "test" /\ test' = TestOf(r.level) /\ r.level \in Levels
        BY <2>2, <2>3, <3>1 DEF Callback
      <4>2. TestOK'
        BY <4>1 DEF TestOK, TestOf
      <4> QED
        BY <3>1, <4>1, <4>2
    <3>2. CASE ~r.thenTest
      BY <2>2, <3>2 DEF Callback, StagesTypeOK, TestOK
    <3> QED
      BY <3>1, <3>2
  <2>6. StagesTypeOK'
    <3>1. test'.status \in {"none", "playing", "cleared", "gameover"}
      BY <2>5 DEF TestOK
    <3> QED
      BY <2>1, <2>2, <2>4, <2>5, <3>1 DEF StagesTypeOK
  <2>7. Alone' /\ Awaited' /\ Cached' /\ Away'
    BY <2>1, <2>2, <2>5 DEF Alone, Awaited, Cached, Away
  <2>8. Clean'
    BY <2>1, <2>2, <2>3 DEF Clean, Callback, LevelOnServer
  <2>9. Tested'
    BY <2>2, <2>3, <2>5 DEF Tested, TestOf
  <2>10. ClearedWasPlayed' /\ PublishedWasPlayed'
    BY DEF ClearedWasPlayed, PublishedWasPlayed
  <2> QED
    BY <2>5, <2>6, <2>7, <2>8, <2>9, <2>10
<1> QED
  BY <1>1, <1>2, <1>3

---------------------------------------------------------------------------
(* The theorems                                                            *)

LEMMA Step ==
    ASSUME StagesIInv, Careful, [StagesNext]_stagesVars
    PROVE  StagesIInv'
<1>1. CASE Author
  BY <1>1, QuietAuthor, SendingAuthor, TestPlay DEF Author
<1>2. CASE Server
  BY <1>2, ServerStep
<1>3. CASE Fetch \/ \E r \in reqs : Settle(r) \/ Fail(r)
  BY <1>3, AnswerStep
<1>4. CASE UNCHANGED stagesVars
  <2> USE <1>4 DEF stagesVars, StagesIInv
  <2>1. StagesTypeOK' /\ TestOK'
    BY DEF StagesTypeOK, TestOK
  <2>2. Alone' /\ Awaited' /\ Cached' /\ Clean' /\ Tested' /\ Away'
    BY DEF Alone, Awaited, Means, Cached, Clean, Tested, Away, LevelOnServer
  <2>3. ClearedWasPlayed' /\ PublishedWasPlayed'
    BY DEF ClearedWasPlayed, PublishedWasPlayed
  <2> QED
    BY <2>1, <2>2, <2>3
<1> QED
  BY <1>1, <1>2, <1>3, <1>4 DEF StagesNext

\* What the proof relies on holds throughout for an author who waits for every
\* answer and loses none: the row, the cached list, the editor and the test play
\* agree as far as the requests that are out allow.
THEOREM StagesInvariantHolds ==
    ASSUME Careful
    PROVE  StagesSpec => []StagesIInv
  BY InitHolds, Step, PTL DEF StagesSpec

\* A stage marked as cleared holds a level that its author has played to the
\* flag, for any slots and levels (StageEditorView.tsx, api.py).
THEOREM ClearedWasPlayedHolds ==
    ASSUME Careful
    PROVE  StagesSpec => []ClearedWasPlayed
  <1>1. StagesIInv => ClearedWasPlayed
    BY DEF StagesIInv
  <1> QED
    BY <1>1, StagesInvariantHolds, PTL

\* A clean editor shows what is stored, and visitors find only what was cleared.
THEOREM StagesInvHolds ==
    ASSUME Careful
    PROVE  StagesSpec => []StagesInv
  <1>1. StagesIInv => StagesInv
    BY DEF StagesIInv, StagesInv, CleanMeansSaved, Clean
  <1> QED
    BY <1>1, StagesInvariantHolds, PTL

\* Whatever the author does while requests are out, and whatever is lost, no
\* refetch replaces a level that is being edited (Built, loadedSlotRef).
THEOREM EditsSurviveHolds == StagesSpec => EditsSurvive
  <1>1. ASSUME StagesNext, view # "away", view' # "away", slot' = slot,
               level # NoLevel, level' # level
        PROVE  \/ \E l \in Levels : Edit(l)
               \/ \E r \in reqs : r.kind = "delete" /\ Settle(r)
    <2>1. CASE Author
      BY <1>1, <2>1 DEF Author, SelectSlot, HandleSave, HandleTest, HandlePublish,
                        HandleUnpublish, HandleDelete, HandleExit, Open, Cleared,
                        GameOver, Retry, BackToEditor
    <2>2. ASSUME NEW r \in reqs, Settle(r) \/ Fail(r)
          PROVE  r.kind = "delete" /\ Settle(r)
      BY <1>1, <2>2 DEF Settle, Fail, Callback
    <2>3. ~Server
      BY <1>1 DEF Server, ServerSave, ServerClear, ServerCheck, ServerPublish,
                  ServerUnpublish, ServerDelete, Becomes
    <2>4. ~Fetch
      BY <1>1 DEF Fetch, Built
    <2> QED
      BY <1>1, <2>1, <2>2, <2>3, <2>4 DEF StagesNext
  <1>2. ASSUME UNCHANGED stagesVars PROVE level' = level
    BY <1>2 DEF stagesVars
  <1>3. [StagesNext]_stagesVars =>
          [ (view # "away" /\ view' # "away" /\ slot' = slot /\ level # NoLevel
               /\ level' # level) =>
              \/ \E l \in Levels : Edit(l)
              \/ \E r \in reqs : r.kind = "delete" /\ Settle(r) ]_stagesVars
    BY <1>1, <1>2
  <1> QED
    BY <1>3, PTL DEF StagesSpec, EditsSurvive

-----------------------------------------------------------------------------
(***************************************************************************)
(* Theorems about Rps, for any rounds, handlers, hands, funds and bounds.  *)
(* RevealedIsPaid is not inductive: a result is shown one step after the   *)
(* wallet answered.  SettledIsPaid carries the answer over that step, and  *)
(* what makes it last is that the wallet never takes a transfer back.      *)
(***************************************************************************)

USE HandsAssumption, WagerAssumption, BoundsAssumption

\* A handler about to show that somebody won has seen the wager paid.
SettledIsPaid ==
    \A p \in Procs :
        handler[p].at = "reveal" /\ Resolve(handler[p].pick) \in {"win", "lose"}
            => Transfer(handler[p].round, Resolve(handler[p].pick)) \in paid

\* The inductive invariant.
Inv == TypeOK /\ SettledIsPaid /\ RevealedIsPaid

-----------------------------------------------------------------------------
(* Operators *)

\* The opponent of a player is a player, and so is the payer of a transfer.
LEMMA TransferType ==
    ASSUME NEW r \in Rounds, NEW o
    PROVE  Transfer(r, o) \in [round : Rounds, from : Players]
  BY DEF Transfer, Opponent, Winner, Players

\* What a handler works on, and the hash of no round, are of their kind.
LEMMA ConstantTypes ==
    /\ NoHash \in HashType
    /\ NoHash.pick \in Picks
    /\ Idle \in HandlerType
  BY DEF NoHash, HashType, Picks, Idle, HandlerType, Players, AtRound

\* A round ends as a win, a loss or a draw.
LEMMA ResolveType ==
    ASSUME NEW pick
    PROVE  Resolve(pick) \in {"win", "lose", "draw"}
  BY DEF Resolve

\* A transfer that the wallet takes up is committed if the payer can pay, and
\* no other transfer, and no money, disappears.
LEMMA CommittedStep ==
    ASSUME TypeOK, NEW t \in [round : Rounds, from : Players], Committed(t)
    PROVE  /\ paid \subseteq paid'
           /\ paid' \subseteq [round : Rounds, from : Players]
           /\ balance' \in [Players -> Nat]
           /\ t \in paid \/ Funded(t.from) => t \in paid'
  <1>1. CASE t \in paid \/ ~Funded(t.from)
    BY <1>1 DEF Committed, TypeOK
  <1>2. CASE t \notin paid /\ Funded(t.from)
    <2>1. /\ paid' = paid \cup {t}
          /\ balance' = [balance EXCEPT ![t.from] = @ - Wager,
                                        ![Opponent(t.from)] = @ + Wager]
      BY <1>2 DEF Committed
    <2>2. /\ t.from \in Players /\ Opponent(t.from) \in Players
          /\ t.from # Opponent(t.from)
      BY DEF Players, Opponent
    <2>3. balance[t.from] \in Nat /\ balance[t.from] >= Wager
      BY <1>2, <2>2 DEF Funded, TypeOK
    <2> QED
      BY <2>1, <2>2, <2>3 DEF TypeOK
  <1> QED
    BY <1>1, <1>2

-----------------------------------------------------------------------------
(* Type correctness *)

LEMMA TypeInit == Init => TypeOK
  BY ConstantTypes DEF Init, TypeOK, NoActive, Idle, AtRound

\* A handler that takes a step has a state of its kind, and so has every other.
LEMMA HandlerStep ==
    ASSUME TypeOK, NEW p \in Procs, NEW s \in HandlerType,
           handler' = [handler EXCEPT ![p] = s],
           s.at \in AtRound => s.round \in Rounds
    PROVE  /\ handler' \in [Procs -> HandlerType]
           /\ \A q \in Procs :
                handler'[q].at \in AtRound => handler'[q].round \in Rounds
  BY DEF TypeOK

\* A hash that is written keeps its kind, and so does every other.
LEMMA HashStep ==
    ASSUME TypeOK, NEW r \in Rounds, NEW h \in HashType,
           hash' = [hash EXCEPT ![r] = h]
    PROVE  hash' \in [Rounds -> HashType]
  BY DEF TypeOK

\* Every step of Rps keeps the types.
LEMMA TypeStep == TypeOK /\ [Next]_vars => TypeOK'
  <1> SUFFICES ASSUME TypeOK, [Next]_vars PROVE TypeOK'
    OBVIOUS
  <1> USE ConstantTypes
  <1>1. ASSUME NEW p \in Procs, CreateRead(p) PROVE TypeOK'
    <2>1. handler' = [handler EXCEPT ![p] = [handler[p] EXCEPT !.at = "store"]]
      BY <1>1 DEF CreateRead, Goes, TypeOK
    <2>2. [handler[p] EXCEPT !.at = "store"] \in HandlerType
      BY DEF TypeOK, HandlerType
    <2> QED
      BY <1>1, <2>1, <2>2 DEF CreateRead, Goes, TypeOK, walletVars, AtRound, HandlerType
  <1>2. ASSUME NEW p \in Procs, Store(p) PROVE TypeOK'
    <2>1. PICK r \in Rounds \ used :
            /\ hash' = [hash EXCEPT ![r] = [NoHash EXCEPT !.status = "pending"]]
            /\ handler' = [handler EXCEPT ![p].at = "expire", ![p].round = r]
      BY <1>2 DEF Store
    <2>2. [NoHash EXCEPT !.status = "pending"] \in HashType
      BY DEF HashType
    <2> DEFINE s == [handler[p] EXCEPT !.at = "expire", !.round = r]
    <2>3. handler[p] \in HandlerType
      BY DEF TypeOK
    <2>4. s \in HandlerType /\ s.round \in Rounds
      BY <2>3 DEF HandlerType, AtRound
    <2>5. handler' = [handler EXCEPT ![p] = s]
      BY <2>1 DEF TypeOK
    <2>6. /\ handler' \in [Procs -> HandlerType]
          /\ \A q \in Procs :
                handler'[q].at \in AtRound => handler'[q].round \in Rounds
      <3> HIDE DEF s
      <3> QED
        BY <2>4, <2>5, HandlerStep
    <2> QED
      BY <1>2, <2>1, <2>2, <2>6 DEF Store, TypeOK, walletVars
  <1>3. ASSUME NEW p \in Procs, Refuse(p) \/ Crash(p) PROVE TypeOK'
    BY <1>3 DEF Refuse, Crash, Ends, TypeOK, walletVars, Idle, AtRound
  <1>4. ASSUME NEW p \in Procs, Expire(p) PROVE TypeOK'
    <2> DEFINE r == handler[p].round
               h == [hash[r] EXCEPT !.ttl = TRUE]
               s == [handler[p] EXCEPT !.at = "activate"]
    <2>1. handler[p] \in HandlerType /\ r \in Rounds
      BY <1>4 DEF Expire, TypeOK, AtRound
    <2>2. hash[r] \in HashType
      BY <2>1 DEF TypeOK
    <2>3. h \in HashType
      BY <2>2 DEF HashType
    <2>4. s \in HandlerType /\ s.round \in Rounds
      BY <2>1 DEF HandlerType, AtRound
    <2>5. hash' = [hash EXCEPT ![r] = h] /\ handler' = [handler EXCEPT ![p] = s]
      BY <1>4, <2>1, <2>2 DEF Expire, Goes, TypeOK
    <2> HIDE DEF r, h, s
    <2>6. hash' \in [Rounds -> HashType]
      BY <2>1, <2>3, <2>5, HashStep
    <2>7. /\ handler' \in [Procs -> HandlerType]
          /\ \A q \in Procs :
                handler'[q].at \in AtRound => handler'[q].round \in Rounds
      BY <2>4, <2>5, HandlerStep
    <2> QED
      BY <1>4, <2>6, <2>7 DEF Expire, TypeOK, walletVars
  <1>5. ASSUME NEW p \in Procs, Activate(p) PROVE TypeOK'
    <2>1. handler[p].round \in Rounds
      BY <1>5 DEF Activate, TypeOK, AtRound
    <2>2. active' \in [round : Rounds \cup {NoRound}, ttl : BOOLEAN]
      BY <1>5, <2>1 DEF Activate, Activated
    <2> QED
      BY <1>5, <2>2 DEF Activate, Ends, TypeOK, walletVars, Idle, AtRound
  <1>6. ASSUME NEW p \in Procs, NEW r \in Rounds, NEW q \in Players,
               NEW hand \in Hands, PickRead(p, r, q, hand)
        PROVE  TypeOK'
    <2> DEFINE s == [Idle EXCEPT !.at = "write", !.round = r, !.player = q,
                                 !.hand = hand, !.pick = hash[r].pick]
    <2>1. s \in HandlerType /\ s.round \in Rounds
      BY ZenonT(40) DEF TypeOK, HashType, HandlerType, AtRound, Idle
    <2>2. handler' = [handler EXCEPT ![p] = s]
      BY <1>6 DEF PickRead
    <2> QED
      BY <1>6, <2>1, <2>2, HandlerStep DEF PickRead, TypeOK, walletVars
  <1>7. ASSUME NEW p \in Procs, PickWrite(p) PROVE TypeOK'
    <2> DEFINE r == handler[p].round
               pick == Seen(handler[p].pick, handler[p].player, handler[p].hand)
               s == IF \E o \in Players : pick[o] = "none" THEN Idle
                    ELSE [Idle EXCEPT !.round = r, !.pick = pick,
                            !.at = IF Resolve(pick) = "draw"
                                   THEN "reveal" ELSE "pay"]
    <2>1. handler[p] \in HandlerType /\ r \in Rounds
      BY <1>7 DEF PickWrite, TypeOK, AtRound
    <2>2. pick \in Picks
      BY <2>1 DEF Seen, Picks, HandlerType
    <2>3. s \in HandlerType
      BY <2>1, <2>2 DEF HandlerType, AtRound, Idle
    <2>4. s.at \in AtRound => s.round \in Rounds
      BY <2>1 DEF Idle, AtRound
    <2>5. handler' = [handler EXCEPT ![p] = s]
      BY <1>7 DEF PickWrite
    <2>6. hash' = [hash EXCEPT ![r].pick[handler[p].player] = handler[p].hand]
      BY <1>7 DEF PickWrite
    <2> DEFINE h == [hash[r] EXCEPT !.pick[handler[p].player] = handler[p].hand]
    <2>7. hash' \in [Rounds -> HashType]
      <3>1. hash[r] \in HashType /\ hash[r].pick \in Picks
        BY <2>1 DEF TypeOK, HashType
      <3>2. /\ handler[p].player \in Players
            /\ handler[p].hand \in Hands \cup {"none"}
        BY <2>1 DEF HandlerType
      <3>3. [hash[r].pick EXCEPT ![handler[p].player] = handler[p].hand] \in Picks
        BY <3>1, <3>2 DEF Picks
      <3>4. h \in HashType
        BY <3>1, <3>3 DEF HashType
      <3>5. hash' = [hash EXCEPT ![r] = h]
        BY <2>1, <2>6 DEF TypeOK
      <3> HIDE DEF h, r
      <3> QED
        BY <2>1, <3>4, <3>5, HashStep
    <2>8. /\ handler' \in [Procs -> HandlerType]
          /\ \A q \in Procs :
                handler'[q].at \in AtRound => handler'[q].round \in Rounds
      <3> HIDE DEF s
      <3> QED
        BY <2>3, <2>4, <2>5, HandlerStep
    <2> QED
      BY <1>7, <2>7, <2>8 DEF PickWrite, TypeOK, walletVars
  <1>8. ASSUME NEW p \in Procs, Pay(p) PROVE TypeOK'
    <2> DEFINE t == Transfer(handler[p].round, Resolve(handler[p].pick))
    <2>1. handler[p] \in HandlerType /\ handler[p].round \in Rounds
      BY <1>8 DEF Pay, TypeOK, AtRound
    <2>2. t \in [round : Rounds, from : Players]
      BY <2>1, TransferType
    <2>3. Committed(t) /\ handler' = [handler EXCEPT ![p].at = AfterAnswer(t)]
      BY <1>8 DEF Pay, Goes
    <2>4. /\ handler' \in [Procs -> HandlerType]
          /\ \A q \in Procs :
                handler'[q].at \in AtRound => handler'[q].round \in Rounds
      BY <2>1, <2>3 DEF TypeOK, HandlerType, AfterAnswer, AtRound
    <2> HIDE DEF t
    <2>5. /\ paid' \subseteq [round : Rounds, from : Players]
          /\ balance' \in [Players -> Nat]
      BY <2>2, <2>3, CommittedStep
    <2> QED
      BY <1>8, <2>4, <2>5 DEF Pay, TypeOK
  <1>9. ASSUME NEW p \in Procs, Unanswered(p) PROVE TypeOK'
    <2> DEFINE t == Transfer(handler[p].round, Resolve(handler[p].pick))
    <2>1. handler[p] \in HandlerType /\ handler[p].round \in Rounds
      BY <1>9 DEF Unanswered, TypeOK, AtRound
    <2>2. t \in [round : Rounds, from : Players]
      BY <2>1, TransferType
    <2>3. inflight' = inflight \cup {t} \/ inflight' = inflight
      BY <1>9 DEF Unanswered
    <2>4. handler' = [handler EXCEPT ![p].tries = @ + 1,
              ![p].at = IF handler[p].tries + 1 >= Attempts
                        THEN "cancel" ELSE "pay"]
      BY <1>9 DEF Unanswered
    <2>5. /\ handler' \in [Procs -> HandlerType]
          /\ \A q \in Procs :
                handler'[q].at \in AtRound => handler'[q].round \in Rounds
      <3> DEFINE s == [handler[p] EXCEPT !.tries = @ + 1,
                         !.at = IF handler[p].tries + 1 >= Attempts
                                THEN "cancel" ELSE "pay"]
      <3>1. handler[p].tries + 1 \in Nat
        BY <2>1 DEF HandlerType
      <3>2. (IF handler[p].tries + 1 >= Attempts THEN "cancel" ELSE "pay")
              \in AtRound
        BY DEF AtRound
      <3>3. s \in HandlerType /\ s.round \in Rounds
        BY <2>1, <3>1, <3>2 DEF HandlerType
      <3>4. handler' = [handler EXCEPT ![p] = s]
        BY <2>1, <2>4 DEF TypeOK
      <3> HIDE DEF s
      <3> QED
        BY <3>3, <3>4, HandlerStep
    <2> HIDE DEF t
    <2> QED
      BY <1>9, <2>2, <2>3, <2>5 DEF Unanswered, TypeOK
  <1>10. ASSUME NEW p \in Procs, Reveal(p) PROVE TypeOK'
    <2>1. handler[p] \in HandlerType /\ handler[p].round \in Rounds
      BY <1>10 DEF Reveal, TypeOK, AtRound
    <2>2. hash' \in [Rounds -> HashType]
      BY <1>10, <2>1, ResolveType DEF Reveal, TypeOK, HashType
    <2> QED
      BY <1>10, <2>2 DEF Reveal, TypeOK, walletVars, HandlerType, Idle, AtRound
  <1>11. ASSUME NEW p \in Procs, NEW r \in Rounds, DeclineRead(p, r)
         PROVE  TypeOK'
    BY <1>11 DEF DeclineRead, TypeOK, walletVars, HandlerType, Idle, AtRound
  <1>12. ASSUME NEW p \in Procs, Cancel(p) PROVE TypeOK'
    BY <1>12, SMTT(30) DEF Cancel, TypeOK, walletVars, HashType, HandlerType, Idle, AtRound
  <1>13. ASSUME NEW p \in Procs, Release(p) PROVE TypeOK'
    BY <1>13 DEF Release, Ends, NoActive, TypeOK, walletVars, Idle, AtRound
  <1>14. ASSUME NEW t \in inflight, Land(t) PROVE TypeOK'
    <2>1. t \in [round : Rounds, from : Players]
      BY DEF TypeOK
    <2>2. /\ paid' \subseteq [round : Rounds, from : Players]
          /\ balance' \in [Players -> Nat]
      BY <1>14, <2>1, CommittedStep DEF Land
    <2> QED
      BY <1>14, <2>2 DEF Land, TypeOK
  <1>15. ASSUME NEW q \in Players, Spend(q) PROVE TypeOK'
    BY <1>15 DEF Spend, Funded, TypeOK
  <1>16. ASSUME NEW r \in Rounds, HashExpires(r) PROVE TypeOK'
    BY <1>16 DEF HashExpires, TypeOK, walletVars
  <1>17. CASE ActiveExpires
    BY <1>17 DEF ActiveExpires, NoActive, TypeOK, walletVars
  <1>18. CASE UNCHANGED vars
    BY <1>18 DEF vars, TypeOK
  <1> QED
    BY <1>1, <1>2, <1>3, <1>4, <1>5, <1>6, <1>7, <1>8, <1>9, <1>10, <1>11,
       <1>12, <1>13, <1>14, <1>15, <1>16, <1>17, <1>18 DEF Next, Continue

-----------------------------------------------------------------------------
(* What is shown as won was paid *)

\* A committed transfer is never taken back.
LEMMA PaidGrows == TypeOK /\ [Next]_vars => paid \subseteq paid'
  <1> SUFFICES ASSUME TypeOK, [Next]_vars PROVE paid \subseteq paid'
    OBVIOUS
  <1>1. ASSUME NEW p \in Procs, Pay(p) PROVE paid \subseteq paid'
    <2>1. handler[p].round \in Rounds
      BY <1>1 DEF Pay, TypeOK, AtRound
    <2> QED
      BY <1>1, <2>1, TransferType, CommittedStep DEF Pay
  <1>2. ASSUME NEW t \in inflight, Land(t) PROVE paid \subseteq paid'
    BY <1>2, CommittedStep DEF Land, TypeOK
  <1>3. ASSUME ~\E p \in Procs : Pay(p), ~\E t \in inflight : Land(t)
        PROVE  paid' = paid
    BY <1>3 DEF Next, Continue, CreateRead, Store, Refuse, Expire, Activate,
       PickRead, PickWrite, Unanswered, Reveal, DeclineRead, Cancel, Release,
       Spend, HashExpires, ActiveExpires, Crash, walletVars, vars
  <1> QED
    BY <1>1, <1>2, <1>3

\* A handler goes to show a result after the wallet's answer, or shows a draw.
LEMMA SettledStep == Inv /\ [Next]_vars => SettledIsPaid'
  <1> SUFFICES ASSUME Inv, [Next]_vars, NEW p \in Procs,
                      handler'[p].at = "reveal",
                      Resolve(handler'[p].pick) \in {"win", "lose"}
               PROVE  Transfer(handler'[p].round, Resolve(handler'[p].pick))
                        \in paid'
    BY DEF SettledIsPaid
  <1>1. TypeOK /\ paid \subseteq paid'
    BY PaidGrows DEF Inv
  <1>2. CASE handler'[p] = handler[p]
    BY <1>1, <1>2 DEF Inv, SettledIsPaid
  <1>3. CASE Pay(p)
    <2> DEFINE t == Transfer(handler[p].round, Resolve(handler[p].pick))
    <2>1. handler[p] \in HandlerType /\ handler[p].round \in Rounds
      BY <1>1, <1>3 DEF Pay, TypeOK, AtRound
    <2>2. Committed(t) /\ handler' = [handler EXCEPT ![p].at = AfterAnswer(t)]
      BY <1>3 DEF Pay, Goes
    <2>3. /\ handler'[p].round = handler[p].round
          /\ handler'[p].pick = handler[p].pick
          /\ handler'[p].at = AfterAnswer(t)
      BY <1>1, <2>1, <2>2 DEF TypeOK, HandlerType
    <2>4. t \in [round : Rounds, from : Players]
      BY <2>1, TransferType
    <2> HIDE DEF t
    <2>5. t \in paid \/ Funded(t.from)
      BY <2>3 DEF AfterAnswer
    <2>6. t \in paid'
      BY <1>1, <2>2, <2>4, <2>5, CommittedStep
    <2> QED
      BY <2>3, <2>6 DEF t
  <1>4. CASE PickWrite(p)
    <2> DEFINE pick == Seen(handler[p].pick, handler[p].player, handler[p].hand)
               s == IF \E o \in Players : pick[o] = "none" THEN Idle
                    ELSE [Idle EXCEPT !.round = handler[p].round, !.pick = pick,
                            !.at = IF Resolve(pick) = "draw"
                                   THEN "reveal" ELSE "pay"]
    <2>1. handler'[p] = s
      BY <1>1, <1>4 DEF PickWrite, TypeOK
    <2>2. s.at = "reveal" => s.pick = pick /\ Resolve(pick) = "draw"
      BY DEF Idle
    <2> HIDE DEF s, pick
    <2> QED
      BY <2>1, <2>2
  <1>5. CASE ~Pay(p) /\ ~PickWrite(p) /\ handler'[p] # handler[p]
    <2>1. ASSUME NEW q \in Procs, q # p,
                 \/ CreateRead(q) \/ Continue(q) \/ Unanswered(q) \/ Crash(q)
                 \/ \E r \in Rounds :
                     \/ DeclineRead(q, r)
                     \/ \E u \in Players, hand \in Hands : PickRead(q, r, u, hand)
          PROVE  FALSE
      BY <1>1, <1>5, <2>1 DEF TypeOK, CreateRead, Continue, Store, Refuse,
         Expire, Activate, PickRead, PickWrite, Pay, Unanswered, Reveal,
         DeclineRead, Cancel, Release, Crash, Goes, Ends
    <2>2. ASSUME \/ CreateRead(p) \/ Continue(p) \/ Unanswered(p) \/ Crash(p)
                 \/ \E r \in Rounds :
                     \/ DeclineRead(p, r)
                     \/ \E u \in Players, hand \in Hands : PickRead(p, r, u, hand)
          PROVE  handler'[p].at # "reveal"
      <3>1. handler[p] \in HandlerType
        BY <1>1 DEF TypeOK
      <3>2. CASE CreateRead(p) \/ Expire(p) \/ Store(p) \/ Unanswered(p)
        BY <1>1, <3>1, <3>2 DEF TypeOK, HandlerType, CreateRead, Expire, Store,
           Unanswered, Goes
      <3>3. CASE Refuse(p) \/ Activate(p) \/ Release(p) \/ Crash(p)
        BY <1>1, <3>3 DEF TypeOK, Refuse, Activate, Release, Crash, Ends, Idle
      <3>4. CASE Reveal(p) \/ Cancel(p)
        BY <1>1, <3>4 DEF TypeOK, Reveal, Cancel, Idle
      <3>5. ASSUME NEW r \in Rounds, DeclineRead(p, r)
            PROVE  handler'[p].at # "reveal"
        BY <1>1, <3>5 DEF TypeOK, DeclineRead, Idle
      <3>6. ASSUME NEW r \in Rounds, NEW u \in Players, NEW hand \in Hands,
                   PickRead(p, r, u, hand)
            PROVE  handler'[p].at # "reveal"
        <4> DEFINE s == [Idle EXCEPT !.at = "write", !.round = r, !.player = u,
                                     !.hand = hand, !.pick = hash[r].pick]
        <4>1. handler' = [handler EXCEPT ![p] = s]
          BY <3>6 DEF PickRead
        <4>2. s.at = "write"
          BY DEF Idle
        <4> HIDE DEF s
        <4> QED
          BY <1>1, <4>1, <4>2 DEF TypeOK
      <3> QED
        BY <1>5, <2>2, <3>2, <3>3, <3>4, <3>5, <3>6 DEF Continue
    <2>3. ASSUME \/ \E t \in inflight : Land(t)
                 \/ \E q \in Players : Spend(q)
                 \/ \E r \in Rounds : HashExpires(r)
                 \/ ActiveExpires
                 \/ UNCHANGED vars
          PROVE  FALSE
      BY <1>5, <2>3 DEF Land, Spend, HashExpires, ActiveExpires, vars
    <2> QED
      BY <2>1, <2>2, <2>3 DEF Next
  <1> QED
    BY <1>2, <1>3, <1>4, <1>5

\* A hash is shown as won by a handler that had settled it, and the other
\* writes of a hash show nothing.
LEMMA RevealedStep == Inv /\ [Next]_vars => RevealedIsPaid'
  <1> SUFFICES ASSUME Inv, [Next]_vars, NEW r \in Rounds,
                      hash'[r].status = "revealed",
                      hash'[r].outcome \in {"win", "lose"}
               PROVE  Transfer(r, hash'[r].outcome) \in paid'
    BY DEF RevealedIsPaid
  <1>1. TypeOK /\ paid \subseteq paid'
    BY PaidGrows DEF Inv
  <1>2. CASE /\ hash'[r].status = hash[r].status
             /\ hash'[r].outcome = hash[r].outcome
    BY <1>1, <1>2 DEF Inv, RevealedIsPaid
  <1>3. ASSUME NEW p \in Procs, Reveal(p), handler[p].round = r
        PROVE  Transfer(r, hash'[r].outcome) \in paid'
    <2>1. hash'[r].outcome = Resolve(handler[p].pick)
      BY <1>1, <1>3 DEF Reveal, TypeOK, HashType
    <2> QED
      BY <1>1, <1>3, <2>1 DEF Reveal, Inv, SettledIsPaid
  <1>4. ASSUME hash'[r].status # hash[r].status \/ hash'[r].outcome # hash[r].outcome,
               ~\E p \in Procs : Reveal(p) /\ handler[p].round = r
        PROVE  FALSE
    <2>0. hash[r] \in HashType /\ r \in DOMAIN hash
      BY <1>1 DEF TypeOK
    <2>1. ASSUME NEW p \in Procs, Continue(p) PROVE FALSE
      <3>1. CASE Store(p)
        <4>1. PICK o \in Rounds :
                hash' = [hash EXCEPT ![o] = [NoHash EXCEPT !.status = "pending"]]
          BY <3>1 DEF Store
        <4> QED
          BY <1>4, <2>0, <4>1 DEF NoHash
      <3>2. CASE Expire(p) \/ Cancel(p)
        BY <1>4, <2>0, <3>2 DEF Expire, Cancel, HashType
      <3>3. CASE PickWrite(p)
        <4>1. hash' = [hash EXCEPT ![handler[p].round].pick[handler[p].player]
                                     = handler[p].hand]
          BY <3>3 DEF PickWrite
        <4> QED
          BY <1>4, <2>0, <4>1 DEF HashType
      <3>4. CASE Reveal(p)
        BY <1>4, <2>0, <3>4 DEF Reveal
      <3>5. CASE Refuse(p) \/ Activate(p) \/ Pay(p) \/ Release(p)
        BY <1>4, <3>5 DEF Refuse, Activate, Pay, Release
      <3> QED
        BY <2>1, <3>1, <3>2, <3>3, <3>4, <3>5 DEF Continue
    <2>2. ASSUME NEW o \in Rounds, HashExpires(o) PROVE FALSE
      BY <1>4, <2>0, <2>2 DEF HashExpires, NoHash
    <2>3. ASSUME ~\E p \in Procs : Continue(p), ~\E o \in Rounds : HashExpires(o)
          PROVE  hash' = hash
      BY <2>3 DEF Next, CreateRead, PickRead, Unanswered, DeclineRead, Land,
         Spend, ActiveExpires, Crash, vars
    <2> QED
      BY <1>4, <2>1, <2>2, <2>3
  <1> QED
    BY <1>2, <1>3, <1>4

-----------------------------------------------------------------------------
(* Theorems *)

\* The inductive invariant holds in every reachable state.
LEMMA Invariance == Spec => []Inv
  <1>1. Init => Inv
    BY TypeInit DEF Init, Inv, SettledIsPaid, RevealedIsPaid, Idle, NoHash
  <1>2. Inv /\ [Next]_vars => Inv'
    BY TypeStep, SettledStep, RevealedStep DEF Inv
  <1> QED
    BY <1>1, <1>2, PTL DEF Spec

\* Whatever expires, is lost or dies, the keys and the wallets keep their
\* types: no player is overdrawn, and a handler at work knows its round.
THEOREM TypeCorrect == Spec => []TypeOK
  <1>1. Inv => TypeOK
    BY DEF Inv
  <1> QED
    BY <1>1, Invariance, PTL

\* A round that submit_pick shows as won had its wager paid, for any number of
\* rounds, handlers, lost calls and crashes.
THEOREM RevealedIsPaidHolds == Spec => []RevealedIsPaid
  <1>1. Inv => RevealedIsPaid
    BY DEF Inv
  <1> QED
    BY <1>1, Invariance, PTL
=============================================================================
