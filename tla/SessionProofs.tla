---------------------------- MODULE SessionProofs ----------------------------
(***************************************************************************)
(* Proofs about Session: the invariant of a conversation and what a review *)
(* starts with and ends in, for any workers, handlers, tool calls, faults  *)
(* and requests.                                                           *)
(*                                                                         *)
(* OneTurnAtATime is not inductive: who may take the next turn is spread   *)
(* over the stream, the workers and the requests that have not enqueued.   *)
(* IInv says what ties them together: at most one of them is at it         *)
(* (Single), it is the turn after those taken (Numbered), a session under  *)
(* review has none (Rests), and a pause for an owner has a tool call that  *)
(* whoever is resolving it read during a pause (Guarded).                  *)
(***************************************************************************)
EXTENDS Session, SequenceTheorems, FiniteSetTheorems, TLAPS

Responses == {"none", "continue", "end"}
RowShape == [status : Statuses, count : Nat, max : Nat, resp : [Agents -> Responses]]
TurnShape == [turn : Nat \ {0}, speaker : Agents]
ToolShape == [turn : Nat \ {0}, agent : Agents,
              status : {"pending", "user_confirmed", "user_rejected",
                        "auto_rejected", "expired"}]
WorkerShape == [at : {"idle", "load", "commit", "enqueue"},
                task : TurnShape \cup {NoTask}, mem : RowShape,
                next : TurnShape \cup {NoTask}]
CallShape == [at : {"idle", "commit", "enqueue"},
              op : {"none", "create", "respond", "cancel", "tool", "sweep"},
              ids : SUBSET Nat, mem : RowShape, next : TurnShape \cup {NoTask}]

\* Every variable has its shape.
Shapes ==
    /\ row \in RowShape
    /\ turns \in Seq(TurnShape)
    /\ tools \in Seq(ToolShape)
    /\ stream \in Seq(TurnShape)
    /\ worker \in [Workers -> WorkerShape]
    /\ call \in [Procs -> CallShape]
    /\ budget \in [tools : Nat, requests : Nat, faults : Nat]
    /\ faults \in Nat

\* What a process holds fits where it is.
WorkerFits(w) ==
    /\ worker[w].at # "idle" => worker[w].task \in TurnShape
    /\ worker[w].next # NoTask => worker[w].at = "enqueue"
    /\ worker[w].at = "commit" => worker[w].mem.status = "active"
    /\ worker[w].mem.max <= MaxTotalTurns
CallFits(p) ==
    /\ call[p].ids \subseteq DOMAIN tools
    /\ call[p].at = "enqueue" => call[p].next \in TurnShape

Typing ==
    /\ Shapes
    /\ \A w \in Workers : WorkerFits(w)
    /\ \A p \in Procs : CallFits(p)
    /\ row.max <= MaxTotalTurns

\* Who is at the next turn.
AtTurn(w) == worker[w].at \in {"load", "commit"} \/ worker[w].next # NoTask
Resumes(p) == call[p].at = "enqueue"
SomeTurn ==
    \/ stream # <<>>
    \/ \E w \in Workers : AtTurn(w)
    \/ \E p \in Procs : Resumes(p)

Going == faults = 0 /\ row.status = "active" => SomeTurn

\* The tool call that a pause waits for is one that nobody resolves who read the
\* session outside a pause.
Awaited(i) ==
    /\ tools[i].status = "pending"
    /\ \A p \in Procs : call[p].at = "commit" /\ i \in call[p].ids
                          => call[p].mem.status = "awaiting_owner_confirmation"
Guarded ==
    row.status = "awaiting_owner_confirmation" => \E i \in DOMAIN tools : Awaited(i)

Single ==
    /\ Len(stream) <= 1
    /\ \A w, v \in Workers : AtTurn(w) /\ AtTurn(v) => w = v
    /\ \A p, q \in Procs : Resumes(p) /\ Resumes(q) => p = q
    /\ \A w \in Workers : AtTurn(w) => stream = <<>>
    /\ \A p \in Procs : Resumes(p) => stream = <<>> /\ \A w \in Workers : ~AtTurn(w)

Rests ==
    row.status \in {"none", "awaiting_review"} => ~SomeTurn

Due(n) ==
    /\ \A i \in DOMAIN stream : stream[i].turn = n
    /\ \A w \in Workers :
        /\ worker[w].at \in {"load", "commit"} => worker[w].task.turn = n
        /\ worker[w].next # NoTask => worker[w].next.turn = n
        /\ worker[w].at = "commit" => /\ worker[w].mem.count + 1 = n
                                      /\ worker[w].mem.resp = row.resp
    /\ \A p \in Procs : Resumes(p) => call[p].next.turn = n

Numbered ==
    /\ \A i \in DOMAIN turns : turns[i].turn = i
    /\ Len(turns) <= MaxTotalTurns
    /\ row.count = Len(turns)
    /\ row.status = "none" => turns = <<>>
    /\ row.status = "awaiting_review" => Len(turns) < MaxTotalTurns
    /\ SomeTurn => Len(turns) < MaxTotalTurns
    /\ Due(Len(turns) + 1)

OneByOne == Single /\ Rests /\ Numbered

IInv ==
    /\ Typing /\ Going /\ Guarded
    /\ Plain => OneByOne

-----------------------------------------------------------------------------
(* What an ORM commit writes *)

LEMMA WrittenResp ==
    ASSUME NEW old \in [Agents -> Responses], NEW read \in [Agents -> Responses],
           NEW new \in [Agents -> Responses]
    PROVE  /\ Written(old, read, new) \in [Agents -> Responses]
           /\ read = old => Written(old, read, new) = new
           /\ new = read => Written(old, read, new) = old
  BY DEF Written

\* The row after a commit: each column that was changed, and the others as they are.
LEMMA FlushWrites ==
    ASSUME row \in RowShape, NEW mem \in RowShape, NEW new \in RowShape
    PROVE  /\ Flush(mem, new) \in RowShape
           /\ Flush(mem, new).status =
                IF new.status = mem.status THEN row.status ELSE new.status
           /\ Flush(mem, new).count =
                IF new.count = mem.count THEN row.count ELSE new.count
           /\ Flush(mem, new).max = IF new.max = mem.max THEN row.max ELSE new.max
           /\ mem.resp = row.resp => Flush(mem, new).resp = new.resp
           /\ new.resp = mem.resp => Flush(mem, new).resp = row.resp
<1> DEFINE W == Written(row, mem, new)
           R == Written(row.resp, mem.resp, new.resp)
<1>1. /\ R \in [Agents -> Responses]
      /\ mem.resp = row.resp => R = new.resp
      /\ new.resp = mem.resp => R = row.resp
  BY WrittenResp DEF RowShape
<1>2. DOMAIN row = {"status", "count", "max", "resp"}
  BY DEF RowShape
<1>3. W = [f \in {"status", "count", "max", "resp"} |->
              IF new[f] = mem[f] THEN row[f] ELSE new[f]]
  BY <1>2 DEF Written
<1>4. /\ W.status = IF new.status = mem.status THEN row.status ELSE new.status
      /\ W.count = IF new.count = mem.count THEN row.count ELSE new.count
      /\ W.max = IF new.max = mem.max THEN row.max ELSE new.max
  BY <1>3
<1> DEFINE F == [W EXCEPT !.resp = R]
<1>5. F = [status |-> W.status, count |-> W.count, max |-> W.max, resp |-> R]
  <2>1. DOMAIN W = {"status", "count", "max", "resp"}
    BY <1>3
  <2>2. DOMAIN F = {"status", "count", "max", "resp"}
    BY <2>1
  <2>3. F.status = W.status /\ F.count = W.count /\ F.max = W.max /\ F.resp = R
    BY <2>1
  <2> HIDE DEF F
  <2>4. F = [f \in {"status", "count", "max", "resp"} |-> F[f]]
    BY <2>2 DEF F
  <2> QED
    BY <2>3, <2>4
<1>6. F.status = W.status /\ F.count = W.count /\ F.max = W.max /\ F.resp = R
  BY <1>5
<1>7. Flush(mem, new) = F
  BY DEF Flush
<1> HIDE DEF F, W, R
<1>8. F \in RowShape
  BY <1>1, <1>4, <1>5 DEF RowShape
<1> QED
  BY <1>1, <1>4, <1>6, <1>7, <1>8

-----------------------------------------------------------------------------
(* Typing *)

\* The states after a turn, and the responses.
LEMMA AfterTurn ==
    ASSUME NEW mem \in RowShape, NEW n \in Nat, NEW reply \in Replies,
           NEW recommended \in {"continue", "end"}, Typing, mem.status = "active"
    PROVE  /\ StatusAfter(mem, n, reply, recommended) \in
                {"active", "completed", "awaiting_review", "awaiting_owner_confirmation"}
           /\ StatusAfter(mem, n, reply, recommended) = "active"
                <=> GoesOn(mem, n, reply, recommended)
           /\ StatusAfter(mem, n, reply, recommended) = "awaiting_owner_confirmation"
                => reply.pending > 0
           /\ StatusAfter(mem, n, reply, recommended) = "awaiting_review"
                => n < mem.max \/ n < MaxTotalTurns
           /\ GoesOn(mem, n, reply, recommended) => n < mem.max
           /\ ResponsesAfter(mem, n, reply, recommended) \in [Agents -> Responses]
           /\ reply.pending \in Nat
<1>1. reply.pending \in Nat /\ reply.ends \in BOOLEAN
  BY DEF Replies, Typing, Shapes
<1>2. mem.max \in Nat /\ mem.resp \in [Agents -> Responses] /\ MaxTotalTurns \in Nat
  BY TurnsAssumption DEF RowShape
<1> QED
  BY <1>1, <1>2 DEF StatusAfter, ResponsesAfter, GoesOn, Responses

LEMMA MinOfTwo ==
    ASSUME NEW a \in Nat, NEW b \in Nat
    PROVE  Min({a, b}) \in Nat /\ Min({a, b}) <= b
<1>1. \E x \in {a, b} : \A y \in {a, b} : x <= y
  BY (a <= b) \/ (b <= a)
<1> QED
  BY <1>1 DEF Min

LEMMA Exclusive ==
    /\ Sweeper \in Procs /\ Handlers \subseteq Procs
    /\ NoTask \notin TurnShape
    /\ IdleWorker \in WorkerShape /\ NoCall \in CallShape /\ NoRow \in RowShape
  BY DEF Procs, NoTask, TurnShape, IdleWorker, WorkerShape, NoCall, CallShape, NoRow,
         RowShape, Statuses, Terminal, Responses

LEMMA TypingInit == Init => Typing
<1> SUFFICES ASSUME Init PROVE Typing
  OBVIOUS
<1>1. Shapes
  BY Exclusive, BoundsAssumption DEF Init, Shapes
<1> QED
  BY <1>1, Exclusive, TurnsAssumption
     DEF Init, Typing, WorkerFits, CallFits, IdleWorker, NoCall, NoRow, NoTask

\* Of the worker's steps only a commit writes the row.
LEMMA TypingWork ==
    ASSUME Typing, NEW w \in Workers, Deliver(w) \/ Load(w) \/ Enqueue(w) \/ WorkerFails(w)
    PROVE  Typing'
<1> USE DEF Typing, Shapes, WorkerFits, CallFits, dbVars
<1>1. CASE Deliver(w)
  <2>1. Head(stream) \in TurnShape /\ Tail(stream) \in Seq(TurnShape)
    BY <1>1 DEF Deliver
  <2> QED
    BY <1>1, <2>1, Exclusive, ZenonT(40) DEF Deliver, WorkerShape
<1>2. CASE Load(w)
  <2>1. CASE row.status = "active"
    <3>1. worker' = [worker EXCEPT ![w] = [worker[w] EXCEPT !.at = "commit", !.mem = row]]
      BY <1>2, <2>1 DEF Load
    <3> DEFINE loaded == [worker[w] EXCEPT !.at = "commit", !.mem = row]
    <3>2. /\ loaded \in WorkerShape /\ loaded.at = "commit" /\ loaded.mem = row
          /\ loaded.task = worker[w].task /\ loaded.next = worker[w].next
      BY DEF WorkerShape
    <3> HIDE DEF loaded
    <3>3. /\ worker' \in [Workers -> WorkerShape]
          /\ worker' = [worker EXCEPT ![w] = loaded] /\ worker[w].at = "load"
          /\ UNCHANGED <<row, turns, tools, stream, call, budget, faults>>
      BY <1>2, <3>1, <3>2 DEF Load, loaded
    <3>4. WorkerFits(w)'
      BY <2>1, <3>2, <3>3
    <3> QED
      BY <3>3, <3>4
  <2>2. CASE row.status # "active"
    BY <1>2, <2>2, Exclusive, TurnsAssumption
       DEF Load, IdleWorker, NoRow, RowShape
  <2> QED
    BY <2>1, <2>2
<1>3. CASE Enqueue(w)
  <2>1. Enqueued(worker[w].next) \in Seq(TurnShape)
    BY <1>3 DEF Enqueued, WorkerShape
  <2> QED
    BY <1>3, <2>1, Exclusive, TurnsAssumption
       DEF Enqueue, WorkerShape, IdleWorker, NoRow, RowShape
<1>4. CASE WorkerFails(w)
  BY <1>4, Exclusive, TurnsAssumption
     DEF WorkerFails, Fails, WorkerShape, IdleWorker, NoRow, RowShape
<1> QED
  BY <1>1, <1>2, <1>3, <1>4

\* What a commit of a turn writes, and what it leaves.
TurnWritten(w, reply, recommended) ==
    LET n == worker[w].task.turn
        g == worker[w].task.speaker
        mem == worker[w].mem
        on == GoesOn(mem, n, reply, recommended) IN
    /\ row' \in RowShape
    /\ row'.status = IF on THEN row.status ELSE StatusAfter(mem, n, reply, recommended)
    /\ row'.count = IF n = mem.count THEN row.count ELSE n
    /\ row'.max = row.max
    /\ mem.resp = row.resp => row'.resp = ResponsesAfter(mem, n, reply, recommended)
    /\ turns' = Append(turns, Task(n, g))
    /\ tools' = tools \o [i \in 1 .. reply.pending |->
                     [turn |-> n, agent |-> g, status |-> "pending"]]
    /\ worker' = [worker EXCEPT ![w].at = "enqueue",
                    ![w].next = IF on THEN NextTask(n, g) ELSE NoTask]

LEMMA CommitWrites ==
    ASSUME Typing, NEW w \in Workers, Commit(w)
    PROVE  \E reply \in Replies, recommended \in {"continue", "end"} :
             TurnWritten(w, reply, recommended)
<1> DEFINE n == worker[w].task.turn
           mem == worker[w].mem
           after(reply, recommended) ==
             [mem EXCEPT !.count = n,
                         !.status = StatusAfter(mem, n, reply, recommended),
                         !.resp = ResponsesAfter(mem, n, reply, recommended)]
<1>1. PICK reply \in Replies, recommended \in {"continue", "end"} :
        /\ row' = Flush(mem, after(reply, recommended))
        /\ turns' = Append(turns, Task(n, worker[w].task.speaker))
        /\ tools' = tools \o [i \in 1 .. reply.pending |->
                         [turn |-> n, agent |-> worker[w].task.speaker,
                          status |-> "pending"]]
        /\ worker' = [worker EXCEPT ![w].at = "enqueue",
                        ![w].next = IF GoesOn(mem, n, reply, recommended)
                                    THEN NextTask(n, worker[w].task.speaker) ELSE NoTask]
  BY DEF Commit
<1>2. worker[w].at = "commit" /\ n \in Nat /\ mem \in RowShape /\ mem.status = "active"
  BY DEF Commit, Typing, Shapes, WorkerFits, WorkerShape, TurnShape
<1> HIDE DEF n, mem
<1> DEFINE new == after(reply, recommended)
<1>3. /\ StatusAfter(mem, n, reply, recommended) \in Statuses
      /\ ResponsesAfter(mem, n, reply, recommended) \in [Agents -> Responses]
      /\ (StatusAfter(mem, n, reply, recommended) = mem.status)
           <=> GoesOn(mem, n, reply, recommended)
  BY <1>2, AfterTurn DEF Statuses, Terminal
<1>4. /\ new \in RowShape /\ new.count = n /\ new.max = mem.max
      /\ new.status = StatusAfter(mem, n, reply, recommended)
      /\ new.resp = ResponsesAfter(mem, n, reply, recommended)
  BY <1>2, <1>3 DEF RowShape
<1> HIDE DEF new
<1>5. row \in RowShape
  BY DEF Typing, Shapes
<1>6. row' = Flush(mem, new)
  BY <1>1 DEF new
<1>7. /\ row' \in RowShape
      /\ row'.status = IF GoesOn(mem, n, reply, recommended) THEN row.status
                       ELSE StatusAfter(mem, n, reply, recommended)
      /\ row'.count = IF n = mem.count THEN row.count ELSE n
      /\ row'.max = row.max
      /\ mem.resp = row.resp => row'.resp = ResponsesAfter(mem, n, reply, recommended)
  BY <1>2, <1>3, <1>4, <1>5, <1>6, FlushWrites
<1> QED
  BY <1>1, <1>7 DEF n, mem, TurnWritten

LEMMA TypingCommit ==
    ASSUME Typing, NEW w \in Workers, Commit(w)
    PROVE  Typing'
<1> DEFINE n == worker[w].task.turn
           g == worker[w].task.speaker
<1>1. PICK reply \in Replies, on \in BOOLEAN :
        /\ row' \in RowShape /\ row'.max = row.max
        /\ turns' = Append(turns, Task(n, g))
        /\ tools' = tools \o [i \in 1 .. reply.pending |->
                         [turn |-> n, agent |-> g, status |-> "pending"]]
        /\ worker' = [worker EXCEPT ![w].at = "enqueue",
                        ![w].next = IF on THEN NextTask(n, g) ELSE NoTask]
  <2>1. \A mem, reply, recommended : GoesOn(mem, n, reply, recommended) \in BOOLEAN
    BY DEF GoesOn
  <2>2. PICK reply \in Replies, recommended \in {"continue", "end"} :
          TurnWritten(w, reply, recommended)
    BY CommitWrites
  <2> QED
    BY <2>1, <2>2 DEF TurnWritten
<1>2. n \in Nat \ {0} /\ g \in Agents
  BY DEF Commit, Typing, Shapes, WorkerFits, TurnShape
<1>3. Task(n, g) \in TurnShape /\ NextTask(n, g) \in TurnShape
  BY <1>2 DEF Task, NextTask, TurnShape, Other, Agents
<1>4. /\ UNCHANGED <<stream, call, budget, faults>> /\ worker[w].at = "commit"
      /\ reply.pending \in Nat
  BY DEF Commit, Replies, Typing, Shapes
<1> DEFINE new == [i \in 1 .. reply.pending |->
                     [turn |-> n, agent |-> g, status |-> "pending"]]
<1> HIDE DEF n, g
<1>5. new \in Seq(ToolShape) /\ Len(new) = reply.pending
  <2>1. [turn |-> n, agent |-> g, status |-> "pending"] \in ToolShape
    BY <1>2 DEF ToolShape
  <2> QED
    BY <1>4, <2>1
<1> HIDE DEF new
<1>6. tools' \in Seq(ToolShape) /\ DOMAIN tools \subseteq DOMAIN tools'
  <2>1. tools' = tools \o new
    BY <1>1 DEF new
  <2>2. tools \in Seq(ToolShape)
    BY DEF Typing, Shapes
  <2>3. tools' \in Seq(ToolShape) /\ Len(tools') = Len(tools) + Len(new)
    BY <1>5, <2>1, <2>2, ConcatProperties
  <2> QED
    BY <1>5, <2>2, <2>3
<1>7. turns' \in Seq(TurnShape)
  BY <1>1, <1>3 DEF Typing, Shapes
<1>8. worker' \in [Workers -> WorkerShape] /\ \A v \in Workers : WorkerFits(v)'
  BY <1>1, <1>3, <1>4, ZenonT(40) DEF Typing, Shapes, WorkerFits, WorkerShape
<1> QED
  BY <1>1, <1>4, <1>6, <1>7, <1>8 DEF Typing, Shapes, CallFits

\* What the other commits write: a status, unless it is the one that was read.
StatusWritten(p, status) ==
    /\ row' \in RowShape
    /\ row'.status = IF status = call[p].mem.status THEN row.status ELSE status
    /\ row'.count = row.count /\ row'.max = row.max /\ row'.resp = row.resp

LEMMA StatusIsWritten ==
    ASSUME Typing, NEW p \in Procs, NEW status \in Statuses,
           row' = Flush(call[p].mem, [call[p].mem EXCEPT !.status = status])
    PROVE  StatusWritten(p, status)
<1> DEFINE mem == call[p].mem
           new == [mem EXCEPT !.status = status]
<1>1. mem \in RowShape /\ row \in RowShape
  BY DEF Typing, Shapes, CallShape
<1>2. /\ new \in RowShape /\ new.status = status /\ new.count = mem.count
      /\ new.max = mem.max /\ new.resp = mem.resp
  BY <1>1 DEF RowShape
<1>3. row' = Flush(mem, new)
  OBVIOUS
<1> HIDE DEF new, mem
<1>4. /\ row' \in RowShape
      /\ row'.status = IF status = mem.status THEN row.status ELSE status
      /\ row'.count = row.count /\ row'.max = row.max /\ row'.resp = row.resp
  BY <1>1, <1>2, <1>3, FlushWrites
<1> QED
  BY <1>4 DEF StatusWritten, mem

LEMMA CancelWrites ==
    ASSUME Typing, NEW p \in Procs, CancelCommit(p)
    PROVE  StatusWritten(p, "cancelled")
  BY StatusIsWritten DEF CancelCommit, Statuses, Terminal

\* The call that a tool call's answer leaves.
AfterAnswer(i, ends) ==
    IF ends THEN NoCall
    ELSE [NoCall EXCEPT !.at = "enqueue", !.op = "tool",
                        !.next = NextTask(tools[i].turn, tools[i].agent)]

LEMMA ToolWrites ==
    ASSUME Typing, NEW p \in Procs, ToolCommit(p)
    PROVE  \E i \in call[p].ids, ends \in BOOLEAN :
             /\ StatusWritten(p, IF ends THEN "completed" ELSE "active")
             /\ \E outcome \in {"user_confirmed", "user_rejected", "auto_rejected"} :
                  tools' = [tools EXCEPT ![i].status = outcome]
             /\ call' = [call EXCEPT ![p] = AfterAnswer(i, ends)]
<1>1. PICK i \in call[p].ids, ends \in BOOLEAN,
           outcome \in {"user_confirmed", "user_rejected", "auto_rejected"} :
        /\ tools' = [tools EXCEPT ![i].status = outcome]
        /\ row' = Flush(call[p].mem, [call[p].mem EXCEPT
                          !.status = IF ends THEN "completed" ELSE "active"])
        /\ call' = [call EXCEPT ![p] = AfterAnswer(i, ends)]
  BY DEF ToolCommit, AfterAnswer
<1> DEFINE status == IF ends THEN "completed" ELSE "active"
<1>2. status \in Statuses
  BY DEF Statuses, Terminal
<1>3. row' = Flush(call[p].mem, [call[p].mem EXCEPT !.status = status])
  BY <1>1
<1> HIDE DEF status
<1>4. StatusWritten(p, status)
  BY <1>2, <1>3, StatusIsWritten
<1> QED
  BY <1>1, <1>4 DEF status

\* The call that the sweeper is left with.
AfterSweep(first, last) ==
    IF ~ResumesAfterSweep(call[Sweeper].mem) THEN NoCall
    ELSE [NoCall EXCEPT !.at = "enqueue", !.op = "sweep",
                        !.next = NextTask(tools[last].turn, tools[first].agent)]

LEMMA SweepWrites ==
    ASSUME Typing, SweepCommit
    PROVE  /\ StatusWritten(Sweeper, Reopened(call[Sweeper].mem.status))
           /\ tools' = [i \in DOMAIN tools |->
                          IF i \in call[Sweeper].ids
                          THEN [tools[i] EXCEPT !.status = "expired"] ELSE tools[i]]
           /\ \E first, last \in call[Sweeper].ids :
                call' = [call EXCEPT ![Sweeper] = AfterSweep(first, last)]
<1>1. call[Sweeper].mem \in RowShape
  BY Exclusive DEF Typing, Shapes, CallShape
<1> DEFINE status == Reopened(call[Sweeper].mem.status)
<1>2. status \in Statuses
  BY <1>1 DEF Reopened, RowShape, Statuses
<1>3. row' = Flush(call[Sweeper].mem, [call[Sweeper].mem EXCEPT !.status = status])
  BY DEF SweepCommit
<1> HIDE DEF status
<1>4. StatusWritten(Sweeper, status)
  BY <1>2, <1>3, Exclusive, StatusIsWritten
<1> QED
  BY <1>4 DEF SweepCommit, AfterSweep, status

LEMMA ToolChanges ==
    ASSUME Typing, NEW i \in DOMAIN tools,
           NEW status \in {"user_confirmed", "user_rejected", "auto_rejected", "expired"}
    PROVE  [tools[i] EXCEPT !.status = status] \in ToolShape
<1>1. tools[i] \in ToolShape
  BY DEF Typing, Shapes
<1> QED
  BY <1>1 DEF ToolShape

LEMMA ToolIsTurn ==
    ASSUME Typing, NEW i \in DOMAIN tools, NEW j \in DOMAIN tools
    PROVE  NextTask(tools[i].turn, tools[j].agent) \in TurnShape
<1>1. tools[i] \in ToolShape /\ tools[j] \in ToolShape
  BY DEF Typing, Shapes
<1> QED
  BY <1>1 DEF NextTask, Task, TurnShape, ToolShape, Other, Agents

LEMMA TypingAnswer ==
    ASSUME Typing, NEW p \in Procs, CancelCommit(p) \/ ToolCommit(p)
    PROVE  Typing'
<1>1. CASE CancelCommit(p)
  BY <1>1, CancelWrites, Exclusive
     DEF CancelCommit, StatusWritten, Typing, Shapes, WorkerFits, CallFits, NoCall
<1>2. CASE ToolCommit(p)
  <2>1. PICK i \in call[p].ids, ends \in BOOLEAN :
          /\ StatusWritten(p, IF ends THEN "completed" ELSE "active")
          /\ \E outcome \in {"user_confirmed", "user_rejected", "auto_rejected"} :
               tools' = [tools EXCEPT ![i].status = outcome]
          /\ call' = [call EXCEPT ![p] = AfterAnswer(i, ends)]
    BY <1>2, ToolWrites
  <2>2. i \in DOMAIN tools
    BY DEF Typing, CallFits
  <2>3. tools' \in Seq(ToolShape) /\ DOMAIN tools' = DOMAIN tools
    <3>1. PICK outcome \in {"user_confirmed", "user_rejected", "auto_rejected"} :
            tools' = [tools EXCEPT ![i].status = outcome]
      BY <2>1
    <3> DEFINE t == [tools[i] EXCEPT !.status = outcome]
    <3>2. t \in ToolShape
      BY <2>2, ToolChanges
    <3>3. tools' = [tools EXCEPT ![i] = t]
      BY <3>1
    <3> HIDE DEF t
    <3> QED
      BY <2>2, <3>2, <3>3, ExceptSeq DEF Typing, Shapes
  <2>4. /\ AfterAnswer(i, ends) \in CallShape
        /\ AfterAnswer(i, ends).ids = {}
        /\ AfterAnswer(i, ends).at = "enqueue" => AfterAnswer(i, ends).next \in TurnShape
    BY <2>2, Exclusive, ToolIsTurn DEF AfterAnswer, CallShape, NoCall
  <2>5. UNCHANGED <<turns, stream, worker, budget, faults>>
    BY <1>2 DEF ToolCommit
  <2> QED
    BY <2>1, <2>3, <2>4, <2>5
       DEF StatusWritten, Typing, Shapes, WorkerFits, CallFits
<1> QED
  BY <1>1, <1>2

LEMMA TypingSweep ==
    ASSUME Typing, SweepRead \/ SweepCommit
    PROVE  Typing'
<1>1. CASE SweepRead
  <2>1. PICK k \in DOMAIN tools :
          call' = [call EXCEPT ![Sweeper] = [NoCall EXCEPT !.at = "commit",
                     !.op = "sweep", !.mem = row,
                     !.ids = {i \in 1 .. k : tools[i].status = "pending"}]]
    BY <1>1 DEF SweepRead
  <2> DEFINE ids == {i \in 1 .. k : tools[i].status = "pending"}
             new == [NoCall EXCEPT !.at = "commit", !.op = "sweep", !.mem = row, !.ids = ids]
  <2>2. ids \subseteq DOMAIN tools /\ ids \subseteq Nat
    BY DEF Typing, Shapes
  <2> HIDE DEF ids
  <2>3. new \in CallShape /\ new.ids = ids /\ new.at = "commit"
    BY <2>2, Exclusive DEF Typing, Shapes, CallShape, NoCall
  <2>4. call' = [call EXCEPT ![Sweeper] = new]
    BY <2>1 DEF ids
  <2> HIDE DEF new
  <2>5. UNCHANGED <<row, turns, tools, stream, worker, budget, faults>>
    BY <1>1 DEF SweepRead, dbVars
  <2> QED
    BY <2>2, <2>3, <2>4, <2>5, Exclusive DEF Typing, Shapes, WorkerFits, CallFits
<1>2. CASE SweepCommit
  <2>1. PICK first, last \in call[Sweeper].ids :
          call' = [call EXCEPT ![Sweeper] = AfterSweep(first, last)]
    BY <1>2, SweepWrites
  <2>2. first \in DOMAIN tools /\ last \in DOMAIN tools
    BY Exclusive DEF Typing, CallFits
  <2> DEFINE expired(i) == IF i \in call[Sweeper].ids
                           THEN [tools[i] EXCEPT !.status = "expired"] ELSE tools[i]
  <2>3. \A i \in DOMAIN tools : expired(i) \in ToolShape
    <3>1. \A i \in DOMAIN tools : tools[i] \in ToolShape
      BY DEF Typing, Shapes
    <3>2. \A i \in DOMAIN tools : [tools[i] EXCEPT !.status = "expired"] \in ToolShape
      BY ToolChanges
    <3> QED
      BY <3>1, <3>2
  <2>4. tools' = [i \in DOMAIN tools |-> expired(i)]
    BY <1>2, SweepWrites
  <2>5. tools' \in Seq(ToolShape) /\ DOMAIN tools' = DOMAIN tools
    <3> HIDE DEF expired
    <3>1. DOMAIN tools = 1 .. Len(tools) /\ Len(tools) \in Nat
      BY DEF Typing, Shapes
    <3>2. tools' \in [1 .. Len(tools) -> ToolShape]
      BY <2>3, <2>4, <3>1
    <3> QED
      BY <2>4, <3>1, <3>2
  <2>6. /\ AfterSweep(first, last) \in CallShape
        /\ AfterSweep(first, last).ids = {}
        /\ AfterSweep(first, last).at = "enqueue"
             => AfterSweep(first, last).next \in TurnShape
    BY <2>2, Exclusive, ToolIsTurn DEF AfterSweep, CallShape, NoCall
  <2>7. UNCHANGED <<turns, stream, worker, budget, faults>>
    BY <1>2 DEF SweepCommit
  <2>8. StatusWritten(Sweeper, Reopened(call[Sweeper].mem.status))
    BY <1>2, SweepWrites
  <2> QED
    BY <2>1, <2>5, <2>6, <2>7, <2>8, Exclusive
       DEF StatusWritten, Typing, Shapes, WorkerFits, CallFits
<1> QED
  BY <1>1, <1>2

\* A call that starts: what it holds is typed.
LEMMA CallStarts ==
    ASSUME Typing, NEW ids \in SUBSET (DOMAIN tools), NEW op \in {"cancel", "tool", "sweep"}
    PROVE  LET new == [NoCall EXCEPT !.at = "commit", !.op = op, !.ids = ids, !.mem = row]
           IN  new \in CallShape /\ new.ids = ids /\ new.at = "commit" /\ new.mem = row
<1>1. ids \subseteq Nat
  BY DEF Typing, Shapes
<1> QED
  BY <1>1, Exclusive DEF Typing, Shapes, CallShape, NoCall

LEMMA BudgetSpent ==
    ASSUME Typing, NEW p, Arrives(p)
    PROVE  budget' \in [tools : Nat, requests : Nat, faults : Nat]
<1>1. /\ budget \in [tools : Nat, requests : Nat, faults : Nat]
      /\ budget.requests > 0
      /\ budget' = [budget EXCEPT !.requests = budget.requests - 1]
  BY DEF Typing, Shapes, Arrives
<1>2. budget.requests - 1 \in Nat
  BY <1>1
<1> QED
  BY <1>1, <1>2

\* The call that resumes a review, and the row with it.
ResumingCall == [NoCall EXCEPT !.at = "enqueue", !.op = "respond",
                               !.next = Task(row.count + 1, "a")]
RespondsTo(resp, p) ==
    /\ row' \in RowShape /\ row'.count = row.count /\ row'.resp = resp
    /\ row'.max <= MaxTotalTurns
    /\ \/ /\ Declined(resp)
          /\ row'.status = "ended_by_user"
          /\ UNCHANGED call
       \/ /\ Agreed(resp)
          /\ row'.status = "active"
          /\ call' = [call EXCEPT ![p] = ResumingCall]
       \/ row'.status = row.status /\ UNCHANGED call

\* What an answer to a review does.
LEMMA RespondWrites ==
    ASSUME Typing, NEW p, NEW u \in Agents, NEW action \in {"continue", "end"},
           Respond(p, u, action)
    PROVE  RespondsTo([row.resp EXCEPT ![u] = action], p)
<1> DEFINE resp == [row.resp EXCEPT ![u] = action]
<1>1. row \in RowShape /\ row.max <= MaxTotalTurns
  BY DEF Typing, Shapes
<1>2. resp \in [Agents -> Responses]
  BY <1>1 DEF RowShape, Responses
<1>3. Extended(row) \in Nat /\ Extended(row) <= MaxTotalTurns
  BY <1>1, MinOfTwo, TurnsAssumption DEF Extended, RowShape
<1> HIDE DEF resp
<1>4. CASE Declined(resp)
  <2>1. row' = [row EXCEPT !.resp = resp, !.status = "ended_by_user"] /\ UNCHANGED call
    BY <1>4 DEF Respond, resp
  <2> QED
    BY <1>1, <1>2, <1>4, <2>1 DEF RowShape, Statuses, Terminal, RespondsTo, resp
<1>5. CASE Agreed(resp) /\ ~Declined(resp)
  <2>1. /\ row' = [row EXCEPT !.resp = resp, !.status = "active", !.max = Extended(row)]
        /\ call' = [call EXCEPT ![p] = ResumingCall]
    BY <1>5 DEF Respond, resp, ResumingCall
  <2> QED
    BY <1>1, <1>2, <1>3, <1>5, <2>1 DEF RowShape, Statuses, Terminal, RespondsTo, resp
<1>6. CASE ~Agreed(resp) /\ ~Declined(resp)
  <2>1. row' = [row EXCEPT !.resp = resp] /\ UNCHANGED call
    BY <1>6 DEF Respond, resp
  <2> QED
    BY <1>1, <1>2, <2>1 DEF RowShape, Statuses, RespondsTo, resp
<1> QED
  BY <1>4, <1>5, <1>6

LEMMA ResumingIsTyped ==
    ASSUME Typing
    PROVE  /\ ResumingCall \in CallShape /\ ResumingCall.at = "enqueue"
           /\ ResumingCall.ids = {} /\ ResumingCall.next = Task(row.count + 1, "a")
           /\ ResumingCall.next \in TurnShape
<1>1. Task(row.count + 1, "a") \in TurnShape
  BY DEF Typing, Shapes, RowShape, Task, TurnShape, Agents
<1> QED
  BY <1>1, Exclusive DEF ResumingCall, CallShape, NoCall

LEMMA TypingRequest ==
    ASSUME Typing, NEW p \in Procs
    PROVE  /\ Create(p) \/ CancelRead(p) => Typing'
           /\ \A u \in Agents, action \in {"continue", "end"} : Respond(p, u, action) => Typing'
           /\ \A i \in DOMAIN tools : ToolRead(p, i) => Typing'
           /\ Resume(p) \/ CallFails(p) => Typing'
<1>1. ASSUME Create(p) PROVE Typing'
  <2> DEFINE new == [NoCall EXCEPT !.at = "enqueue", !.op = "create", !.next = Task(1, "a")]
             born == [NoRow EXCEPT !.status = "active", !.max = FirstTurns]
  <2>1. Task(1, "a") \in TurnShape
    BY DEF Task, TurnShape, Agents
  <2>2. new \in CallShape /\ new.ids = {} /\ new.next \in TurnShape
    BY <2>1, Exclusive DEF CallShape, NoCall
  <2>3. born \in RowShape /\ born.max <= MaxTotalTurns
    BY Exclusive, TurnsAssumption, CallerAssumption DEF RowShape, NoRow, Statuses
  <2>4. /\ row' = born /\ call' = [call EXCEPT ![p] = new]
        /\ UNCHANGED <<turns, tools, stream, worker, budget, faults>>
    BY <1>1 DEF Create
  <2> HIDE DEF new, born
  <2> QED
    BY <2>2, <2>3, <2>4 DEF Typing, Shapes, WorkerFits, CallFits
<1>2. ASSUME NEW new \in CallShape, new.ids \subseteq DOMAIN tools, new.at = "commit",
             call' = [call EXCEPT ![p] = new],
             Arrives(p), UNCHANGED <<row, turns, tools, stream, worker, faults>>
      PROVE Typing'
  BY <1>2, BudgetSpent DEF Typing, Shapes, WorkerFits, CallFits
<1>3. ASSUME CancelRead(p) PROVE Typing'
  <2> DEFINE new == [NoCall EXCEPT !.at = "commit", !.op = "cancel", !.mem = row]
  <2>1. new \in CallShape /\ new.ids = {} /\ new.at = "commit"
    BY Exclusive DEF Typing, Shapes, CallShape, NoCall
  <2>2. /\ call' = [call EXCEPT ![p] = new] /\ Arrives(p)
        /\ UNCHANGED <<row, turns, tools, stream, worker, faults>>
    BY <1>3 DEF CancelRead, dbVars
  <2> HIDE DEF new
  <2>3. new.ids \subseteq DOMAIN tools
    BY <2>1
  <2> QED
    BY <1>2, <2>1, <2>2, <2>3
<1>4. ASSUME NEW i \in DOMAIN tools, ToolRead(p, i) PROVE Typing'
  <2> DEFINE new == [NoCall EXCEPT !.at = "commit", !.op = "tool", !.ids = {i}, !.mem = row]
  <2>1. new \in CallShape /\ new.ids = {i} /\ new.at = "commit"
    BY CallStarts
  <2>2. /\ call' = [call EXCEPT ![p] = new] /\ Arrives(p)
        /\ UNCHANGED <<row, turns, tools, stream, worker, faults>>
    BY <1>4 DEF ToolRead, dbVars
  <2> HIDE DEF new
  <2>3. new.ids \subseteq DOMAIN tools
    BY <2>1
  <2> QED
    BY <1>2, <2>1, <2>2, <2>3
<1>5. ASSUME NEW u \in Agents, NEW action \in {"continue", "end"}, Respond(p, u, action)
      PROVE Typing'
  <2> DEFINE resp == [row.resp EXCEPT ![u] = action]
  <2>0. RespondsTo(resp, p)
    BY <1>5, RespondWrites
  <2> HIDE DEF resp
  <2>1. row' \in RowShape /\ row'.max <= MaxTotalTurns
        /\ (UNCHANGED call \/ call' = [call EXCEPT ![p] = ResumingCall])
    BY <2>0 DEF RespondsTo
  <2>2. budget' \in [tools : Nat, requests : Nat, faults : Nat]
    BY <1>5, BudgetSpent DEF Respond
  <2>3. UNCHANGED <<turns, tools, stream, worker, faults>>
    BY <1>5 DEF Respond
  <2>4. CASE UNCHANGED call
    BY <2>1, <2>2, <2>3, <2>4 DEF Typing, Shapes, WorkerFits, CallFits
  <2>5. CASE call' = [call EXCEPT ![p] = ResumingCall]
    BY <2>1, <2>2, <2>3, <2>5, ResumingIsTyped DEF Typing, Shapes, WorkerFits, CallFits
  <2> QED
    BY <2>1, <2>4, <2>5
<1>6. ASSUME Resume(p) PROVE Typing'
  <2>1. Append(stream, call[p].next) \in Seq(TurnShape)
    BY <1>6 DEF Resume, Typing, Shapes, CallFits
  <2> QED
    BY <1>6, <2>1, Exclusive
       DEF Resume, dbVars, Typing, Shapes, WorkerFits, CallFits, NoCall
<1>7. ASSUME CallFails(p) PROVE Typing'
  BY <1>7, Exclusive
     DEF CallFails, Fails, dbVars, Typing, Shapes, WorkerFits, CallFits, NoCall
<1> QED
  BY <1>1, <1>3, <1>4, <1>5, <1>6, <1>7

LEMMA TypingStep ==
    ASSUME Typing, [Next]_vars
    PROVE  Typing'
<1>1. CASE UNCHANGED vars
  BY <1>1 DEF vars, Typing, Shapes, WorkerFits, CallFits
<1>2. CASE \E w \in Workers : Work(w) \/ WorkerFails(w)
  BY <1>2, TypingWork, TypingCommit DEF Work
<1>3. CASE \E p \in Procs :
             \/ Create(p) \/ CancelRead(p) \/ Finish(p) \/ CallFails(p)
             \/ \E u \in Agents, action \in {"continue", "end"} : Respond(p, u, action)
             \/ \E i \in DOMAIN tools : ToolRead(p, i)
  BY <1>3, TypingRequest, TypingAnswer DEF Finish
<1>4. CASE SweepRead \/ SweepCommit
  BY <1>4, TypingSweep
<1> QED
  BY <1>1, <1>2, <1>3, <1>4 DEF Next

-----------------------------------------------------------------------------
(* An active session has a turn under way *)

\* A step of one call that was not resuming, or of none, leaves the turn that is.
LEMMA TurnRemains ==
    ASSUME SomeTurn, NEW p \in Procs, ~Resumes(p), UNCHANGED <<stream, worker>>,
           \A q \in Procs \ {p} : call'[q] = call[q]
    PROVE  SomeTurn'
  BY DEF SomeTurn, AtTurn, Resumes

LEMMA GoingWork ==
    ASSUME Typing, Going, NEW w \in Workers, Work(w) \/ WorkerFails(w)
    PROVE  Going'
<1>1. CASE Deliver(w)
  BY <1>1 DEF Deliver, Going, SomeTurn, AtTurn, Typing, Shapes
<1>2. CASE Load(w)
  <2>1. CASE row.status = "active"
    <3>1. worker' = [worker EXCEPT ![w] = [worker[w] EXCEPT !.at = "commit", !.mem = row]]
      BY <1>2, <2>1 DEF Load
    <3>2. worker'[w].at = "commit"
      BY <3>1 DEF Typing, Shapes, WorkerShape
    <3> QED
      BY <3>2 DEF Going, SomeTurn, AtTurn
  <2>2. CASE row.status # "active"
    BY <1>2, <2>2 DEF Load, dbVars, Going
  <2> QED
    BY <2>1, <2>2
<1>3. CASE Commit(w)
  <2>1. worker[w].mem \in RowShape /\ worker[w].mem.status = "active"
        /\ worker[w].task \in TurnShape
    BY <1>3 DEF Commit, Typing, Shapes, WorkerFits, WorkerShape
  <2> DEFINE n == worker[w].task.turn
             mem == worker[w].mem
  <2>0. PICK reply \in Replies, recommended \in {"continue", "end"} :
          TurnWritten(w, reply, recommended)
    BY <1>3, CommitWrites
  <2>2. /\ row'.status = IF GoesOn(mem, n, reply, recommended) THEN row.status
                         ELSE StatusAfter(mem, n, reply, recommended)
        /\ worker' = [worker EXCEPT ![w].at = "enqueue",
                        ![w].next = IF GoesOn(mem, n, reply, recommended)
                                    THEN NextTask(n, worker[w].task.speaker)
                                    ELSE NoTask]
    BY <2>0 DEF TurnWritten
  <2>3. CASE GoesOn(mem, n, reply, recommended)
    <3>1. worker'[w].next = NextTask(n, worker[w].task.speaker)
      BY <2>2, <2>3 DEF Typing, Shapes, WorkerShape
    <3>2. NextTask(n, worker[w].task.speaker) # NoTask
      BY <2>1 DEF NextTask, Task, NoTask, TurnShape
    <3> QED
      BY <3>1, <3>2 DEF Going, SomeTurn, AtTurn
  <2>4. CASE ~GoesOn(mem, n, reply, recommended)
    <3>1. StatusAfter(mem, n, reply, recommended) # "active"
      BY <2>1, <2>4, AfterTurn DEF TurnShape
    <3> QED
      BY <2>2, <2>4, <3>1 DEF Going
  <2> QED
    BY <2>3, <2>4
<1>4. CASE Enqueue(w)
  <2>1. CASE worker[w].next = NoTask
    <3>1. ~AtTurn(w) /\ stream' = stream /\ UNCHANGED <<row, call, faults>>
      BY <1>4, <2>1 DEF Enqueue, AtTurn, Enqueued, dbVars
    <3>2. \A v \in Workers \ {w} : worker'[v] = worker[v]
      BY <1>4 DEF Enqueue, Typing, Shapes
    <3> QED
      BY <3>1, <3>2 DEF Going, SomeTurn, AtTurn, Resumes
  <2>2. CASE worker[w].next # NoTask
    <3>1. stream' # <<>>
      BY <1>4, <2>2 DEF Enqueue, Enqueued, Typing, Shapes, WorkerShape
    <3> QED
      BY <3>1 DEF Going, SomeTurn
  <2> QED
    BY <2>1, <2>2
<1>5. CASE WorkerFails(w)
  BY <1>5 DEF WorkerFails, Fails, Going, Typing, Shapes
<1> QED
  BY <1>1, <1>2, <1>3, <1>4, <1>5 DEF Work

LEMMA GoingAnswer ==
    ASSUME Typing, Going, NEW p \in Procs, Finish(p) \/ CallFails(p) \/ SweepCommit
    PROVE  Going'
<1>1. CASE CancelCommit(p)
  <2>1. StatusWritten(p, "cancelled")
    BY <1>1, CancelWrites
  <2>2. ~Resumes(p) /\ UNCHANGED <<stream, worker, faults>>
        /\ \A q \in Procs \ {p} : call'[q] = call[q]
    BY <1>1 DEF CancelCommit, Resumes, Typing, Shapes
  <2> QED
    BY <2>1, <2>2, TurnRemains DEF Going, StatusWritten
<1>2. CASE ToolCommit(p)
  <2>1. PICK i \in call[p].ids, ends \in BOOLEAN :
          /\ StatusWritten(p, IF ends THEN "completed" ELSE "active")
          /\ call' = [call EXCEPT ![p] = AfterAnswer(i, ends)]
    BY <1>2, ToolWrites
  <2>2. ~Resumes(p) /\ UNCHANGED <<stream, worker, faults>>
        /\ \A q \in Procs \ {p} : call'[q] = call[q]
    BY <1>2, <2>1 DEF ToolCommit, Resumes, Typing, Shapes
  <2>3. CASE ends
    BY <2>1, <2>2, <2>3, TurnRemains DEF Going, StatusWritten
  <2>4. CASE ~ends
    <3>1. call'[p].at = "enqueue"
      BY <2>1, <2>4 DEF AfterAnswer, NoCall, Typing, Shapes
    <3> QED
      BY <3>1 DEF Going, SomeTurn, Resumes
  <2> QED
    BY <2>3, <2>4
<1>3. CASE SweepCommit
  <2> DEFINE mem == call[Sweeper].mem
  <2>1. PICK first, last \in call[Sweeper].ids :
          call' = [call EXCEPT ![Sweeper] = AfterSweep(first, last)]
    BY <1>3, SweepWrites
  <2>2. ~Resumes(Sweeper) /\ UNCHANGED <<stream, worker, faults>>
        /\ \A q \in Procs \ {Sweeper} : call'[q] = call[q]
    BY <1>3, <2>1 DEF SweepCommit, Resumes, Typing, Shapes
  <2>3. StatusWritten(Sweeper, Reopened(mem.status))
    BY <1>3, SweepWrites
  <2>4. CASE ResumesAfterSweep(mem)
    <3>1. call'[Sweeper].at = "enqueue"
      BY <2>1, <2>4, Exclusive DEF AfterSweep, NoCall, Typing, Shapes
    <3> QED
      BY <3>1, Exclusive DEF Going, SomeTurn, Resumes
  <2>5. CASE ~ResumesAfterSweep(mem)
    <3>1. Reopened(mem.status) = mem.status
      BY <2>5 DEF ResumesAfterSweep, Reopened
    <3> QED
      BY <2>2, <2>3, <3>1, Exclusive, TurnRemains DEF Going, StatusWritten
  <2> QED
    BY <2>4, <2>5
<1>4. CASE Resume(p)
  BY <1>4 DEF Resume, Going, SomeTurn, Typing, Shapes, CallFits
<1>5. CASE CallFails(p)
  BY <1>5 DEF CallFails, Fails, Going, Typing, Shapes
<1> QED
  BY <1>1, <1>2, <1>3, <1>4, <1>5 DEF Finish

LEMMA GoingRequest ==
    ASSUME Typing, Going, NEW p \in Procs
    PROVE  /\ Create(p) \/ CancelRead(p) \/ SweepRead => Going'
           /\ \A u \in Agents, action \in {"continue", "end"} : Respond(p, u, action) => Going'
           /\ \A i \in DOMAIN tools : ToolRead(p, i) => Going'
<1>1. ASSUME Create(p) PROVE Going'
  <2>1. call'[p].at = "enqueue"
    BY <1>1 DEF Create, NoCall, Typing, Shapes
  <2> QED
    BY <2>1 DEF Going, SomeTurn, Resumes
<1>2. ASSUME NEW q \in Procs, call[q].at = "idle", NEW new,
             call' = [call EXCEPT ![q] = new],
             UNCHANGED <<row, stream, worker, faults>>
      PROVE  Going'
  <2>1. ~Resumes(q) /\ \A r \in Procs \ {q} : call'[r] = call[r]
    BY <1>2 DEF Resumes, Typing, Shapes
  <2> QED
    BY <1>2, <2>1, TurnRemains DEF Going
<1>3. ASSUME CancelRead(p) PROVE Going'
  BY <1>2, <1>3 DEF CancelRead, Arrives, dbVars
<1>4. ASSUME NEW i \in DOMAIN tools, ToolRead(p, i) PROVE Going'
  BY <1>2, <1>4 DEF ToolRead, Arrives, dbVars
<1>5. ASSUME SweepRead PROVE Going'
  BY <1>2, <1>5, Exclusive DEF SweepRead, dbVars
<1>6. ASSUME NEW u \in Agents, NEW action \in {"continue", "end"}, Respond(p, u, action)
      PROVE Going'
  <2> DEFINE resp == [row.resp EXCEPT ![u] = action]
  <2>1. RespondsTo(resp, p)
    BY <1>6, RespondWrites
  <2> HIDE DEF resp
  <2>2. UNCHANGED <<stream, worker, faults>>
    BY <1>6 DEF Respond
  <2>3. CASE row'.status = "ended_by_user"
    BY <2>3 DEF Going
  <2>4. CASE call' = [call EXCEPT ![p] = ResumingCall]
    <3>1. call'[p].at = "enqueue"
      BY <2>4, ResumingIsTyped DEF Typing, Shapes
    <3> QED
      BY <3>1 DEF Going, SomeTurn, Resumes
  <2>5. CASE row'.status = row.status /\ UNCHANGED call
    BY <2>2, <2>5 DEF Going, SomeTurn, AtTurn, Resumes
  <2> QED
    BY <2>1, <2>3, <2>4, <2>5 DEF RespondsTo
<1> QED
  BY <1>1, <1>3, <1>4, <1>5, <1>6

LEMMA GoingStep ==
    ASSUME Typing, Going, [Next]_vars
    PROVE  Going'
<1>1. CASE UNCHANGED vars
  BY <1>1 DEF vars, Going, SomeTurn, AtTurn, Resumes
<1>2. CASE \E w \in Workers : Work(w) \/ WorkerFails(w)
  BY <1>2, GoingWork
<1>3. CASE \E p \in Procs :
             \/ Create(p) \/ CancelRead(p) \/ Finish(p) \/ CallFails(p)
             \/ \E u \in Agents, action \in {"continue", "end"} : Respond(p, u, action)
             \/ \E i \in DOMAIN tools : ToolRead(p, i)
  BY <1>3, GoingRequest, GoingAnswer
<1>4. CASE SweepRead \/ SweepCommit
  BY <1>4, Exclusive, GoingRequest, GoingAnswer
<1> QED
  BY <1>1, <1>2, <1>3, <1>4 DEF Next

-----------------------------------------------------------------------------
(* A pause for an owner has a tool call that is resolved with the pause *)

\* A step of at most one call that reads nothing, or reads the pause.
LEMMA AwaitedRemains ==
    ASSUME NEW i \in DOMAIN tools, Awaited(i), NEW p \in Procs,
           i \in DOMAIN tools', tools'[i] = tools[i],
           \A q \in Procs \ {p} : call'[q] = call[q],
           \/ call'[p] = call[p]
           \/ call'[p].at # "commit"
           \/ call'[p].mem.status = "awaiting_owner_confirmation"
    PROVE  Awaited(i)'
  BY DEF Awaited

LEMMA GuardedWork ==
    ASSUME Typing, Guarded, NEW w \in Workers, Work(w) \/ WorkerFails(w)
    PROVE  Guarded'
<1>1. CASE Deliver(w) \/ Load(w) \/ Enqueue(w) \/ WorkerFails(w)
  <2>1. UNCHANGED <<row, tools, call>>
    BY <1>1 DEF Deliver, Load, Enqueue, WorkerFails, dbVars
  <2> QED
    BY <2>1 DEF Guarded, Awaited
<1>2. CASE Commit(w)
  <2>1. /\ worker[w].mem \in RowShape /\ worker[w].mem.status = "active"
        /\ worker[w].task \in TurnShape /\ UNCHANGED call
    BY <1>2 DEF Commit, Typing, Shapes, WorkerFits, WorkerShape
  <2> DEFINE n == worker[w].task.turn
             mem == worker[w].mem
  <2>2. PICK reply \in Replies, recommended \in {"continue", "end"} :
          TurnWritten(w, reply, recommended)
    BY <1>2, CommitWrites
  <2> DEFINE new == [i \in 1 .. reply.pending |->
                       [turn |-> n, agent |-> worker[w].task.speaker,
                        status |-> "pending"]]
  <2>3. /\ row'.status = IF GoesOn(mem, n, reply, recommended) THEN row.status
                         ELSE StatusAfter(mem, n, reply, recommended)
        /\ tools' = tools \o new
    BY <2>2 DEF TurnWritten
  <2>4. reply.pending \in Nat /\ n \in Nat
    BY <2>1 DEF Replies, Typing, Shapes, TurnShape
  <2>5. /\ \A i \in DOMAIN tools : i \in DOMAIN tools' /\ tools'[i] = tools[i]
        /\ reply.pending > 0 =>
             /\ Len(tools) + 1 \in DOMAIN tools'
             /\ tools'[Len(tools) + 1].status = "pending"
    <3> DEFINE t == [turn |-> n, agent |-> worker[w].task.speaker, status |-> "pending"]
    <3>1. t \in ToolShape /\ t.status = "pending"
      BY <2>1 DEF ToolShape, TurnShape
    <3>2. new = [i \in 1 .. reply.pending |-> t]
      OBVIOUS
    <3> HIDE DEF t, new
    <3>3. new \in Seq(ToolShape) /\ Len(new) = reply.pending
          /\ (reply.pending > 0 => new[1] = t)
      BY <2>4, <3>1, <3>2
    <3>4. tools \in Seq(ToolShape)
      BY DEF Typing, Shapes
    <3> QED
      BY <2>3, <2>4, <3>1, <3>3, <3>4
  <2>6. CASE row'.status = row.status
    BY <2>1, <2>5, <2>6 DEF Guarded, Awaited
  <2>7. CASE reply.pending > 0
    <3>1. \A p \in Procs : Len(tools) + 1 \notin call[p].ids
      BY DEF Typing, Shapes, CallFits
    <3> QED
      BY <2>1, <2>5, <2>7, <3>1 DEF Guarded, Awaited
  <2>8. CASE row'.status # row.status /\ ~(reply.pending > 0)
    <3>1. StatusAfter(mem, n, reply, recommended) # "awaiting_owner_confirmation"
      BY <2>1, <2>4, <2>8, AfterTurn
    <3> QED
      BY <2>3, <2>8, <3>1 DEF Guarded
  <2> QED
    BY <2>6, <2>7, <2>8
<1> QED
  BY <1>1, <1>2 DEF Work

LEMMA GuardedAnswer ==
    ASSUME Typing, Guarded, NEW p \in Procs, Finish(p) \/ CallFails(p)
    PROVE  Guarded'
<1>0. \A q \in Procs : NoCall.at # "commit"
  BY DEF NoCall
<1>1. CASE CancelCommit(p)
  <2>1. /\ StatusWritten(p, "cancelled") /\ UNCHANGED tools
        /\ call'[p].at # "commit" /\ \A q \in Procs \ {p} : call'[q] = call[q]
    BY <1>1, CancelWrites DEF CancelCommit, NoCall, Typing, Shapes
  <2> QED
    BY <2>1, AwaitedRemains DEF Guarded, StatusWritten
<1>2. CASE ToolCommit(p)
  <2>1. PICK i \in call[p].ids, ends \in BOOLEAN :
          /\ StatusWritten(p, IF ends THEN "completed" ELSE "active")
          /\ \E outcome \in {"user_confirmed", "user_rejected", "auto_rejected"} :
               tools' = [tools EXCEPT ![i].status = outcome]
          /\ call' = [call EXCEPT ![p] = AfterAnswer(i, ends)]
    BY <1>2, ToolWrites
  <2>2. /\ call'[p].at # "commit" /\ \A q \in Procs \ {p} : call'[q] = call[q]
        /\ call[p].at = "commit"
    BY <1>2, <2>1 DEF ToolCommit, AfterAnswer, NoCall, Typing, Shapes
  <2>3. DOMAIN tools' = DOMAIN tools /\ \A k \in DOMAIN tools \ {i} : tools'[k] = tools[k]
    BY <2>1
  <2>4. SUFFICES ASSUME row'.status = "awaiting_owner_confirmation"
                 PROVE  \E k \in DOMAIN tools' : Awaited(k)'
    BY DEF Guarded
  <2>5. row.status = "awaiting_owner_confirmation"
        /\ call[p].mem.status # "awaiting_owner_confirmation"
    BY <2>1, <2>4 DEF StatusWritten
  <2>6. PICK k \in DOMAIN tools : Awaited(k)
    BY <2>5 DEF Guarded
  <2>7. k # i
    BY <2>2, <2>5, <2>6 DEF Awaited
  <2> QED
    BY <2>2, <2>3, <2>6, <2>7, AwaitedRemains
<1>3. CASE Resume(p) \/ CallFails(p)
  <2>1. /\ UNCHANGED <<row, tools>> /\ call'[p].at # "commit"
        /\ \A q \in Procs \ {p} : call'[q] = call[q]
    BY <1>3 DEF Resume, CallFails, dbVars, NoCall, Typing, Shapes
  <2> QED
    BY <2>1, AwaitedRemains DEF Guarded
<1> QED
  BY <1>1, <1>2, <1>3 DEF Finish

LEMMA GuardedSweep ==
    ASSUME Typing, Guarded, SweepCommit
    PROVE  Guarded'
<1> DEFINE mem == call[Sweeper].mem
           ids == call[Sweeper].ids
<1>1. PICK first, last \in ids : call' = [call EXCEPT ![Sweeper] = AfterSweep(first, last)]
  BY SweepWrites
<1>2. /\ call'[Sweeper].at # "commit" /\ \A q \in Procs \ {Sweeper} : call'[q] = call[q]
      /\ call[Sweeper].at = "commit"
  BY <1>1, Exclusive DEF SweepCommit, AfterSweep, NoCall, Typing, Shapes
<1>3. StatusWritten(Sweeper, Reopened(mem.status))
  BY SweepWrites
<1>4. tools' = [i \in DOMAIN tools |->
                  IF i \in ids THEN [tools[i] EXCEPT !.status = "expired"] ELSE tools[i]]
  BY SweepWrites
<1>5. SUFFICES ASSUME row'.status = "awaiting_owner_confirmation"
               PROVE  \E k \in DOMAIN tools' : Awaited(k)'
  BY DEF Guarded
<1>6. mem.status # "awaiting_owner_confirmation" /\ row.status = row'.status
  BY <1>3, <1>5 DEF StatusWritten, Reopened
<1>7. PICK k \in DOMAIN tools : Awaited(k)
  BY <1>5, <1>6 DEF Guarded
<1>8. k \notin ids
  BY <1>2, <1>6, <1>7, Exclusive DEF Awaited
<1>9. k \in DOMAIN tools' /\ tools'[k] = tools[k]
  BY <1>4, <1>8
<1> QED
  BY <1>2, <1>7, <1>9, Exclusive, AwaitedRemains

LEMMA GuardedRequest ==
    ASSUME Typing, Guarded, NEW p \in Procs
    PROVE  /\ Create(p) \/ CancelRead(p) \/ SweepRead => Guarded'
           /\ \A u \in Agents, action \in {"continue", "end"} : Respond(p, u, action) => Guarded'
           /\ \A i \in DOMAIN tools : ToolRead(p, i) => Guarded'
<1>1. ASSUME Create(p) PROVE Guarded'
  BY <1>1 DEF Create, NoRow, Guarded
<1>2. ASSUME NEW q \in Procs, NEW new, new.mem = row, call' = [call EXCEPT ![q] = new],
             UNCHANGED <<row, tools>>
      PROVE  Guarded'
  <2>1. call'[q].mem = row /\ \A r \in Procs \ {q} : call'[r] = call[r]
    BY <1>2 DEF Typing, Shapes
  <2> QED
    BY <1>2, <2>1, AwaitedRemains DEF Guarded
<1>3. ASSUME CancelRead(p) PROVE Guarded'
  BY <1>2, <1>3 DEF CancelRead, dbVars, NoCall
<1>4. ASSUME NEW i \in DOMAIN tools, ToolRead(p, i) PROVE Guarded'
  BY <1>2, <1>4 DEF ToolRead, dbVars, NoCall
<1>5. ASSUME SweepRead PROVE Guarded'
  <2>1. PICK k \in DOMAIN tools :
          call' = [call EXCEPT ![Sweeper] = [NoCall EXCEPT !.at = "commit",
                     !.op = "sweep", !.mem = row,
                     !.ids = {i \in 1 .. k : tools[i].status = "pending"}]]
    BY <1>5 DEF SweepRead
  <2> DEFINE new == [NoCall EXCEPT !.at = "commit", !.op = "sweep", !.mem = row,
                       !.ids = {i \in 1 .. k : tools[i].status = "pending"}]
  <2>2. new.mem = row
    BY DEF NoCall
  <2> HIDE DEF new
  <2> QED
    BY <1>2, <1>5, <2>1, <2>2, Exclusive DEF SweepRead, dbVars, new
<1>6. ASSUME NEW u \in Agents, NEW action \in {"continue", "end"}, Respond(p, u, action)
      PROVE Guarded'
  <2> DEFINE resp == [row.resp EXCEPT ![u] = action]
  <2>1. RespondsTo(resp, p)
    BY <1>6, RespondWrites
  <2>2. row.status = "awaiting_review"
    BY <1>6 DEF Respond, CanRespond
  <2> HIDE DEF resp
  <2> QED
    BY <2>1, <2>2 DEF RespondsTo, Guarded
<1> QED
  BY <1>1, <1>3, <1>4, <1>5, <1>6

LEMMA GuardedStep ==
    ASSUME Typing, Guarded, [Next]_vars
    PROVE  Guarded'
<1>1. CASE UNCHANGED vars
  BY <1>1 DEF vars, Guarded, Awaited
<1>2. CASE \E w \in Workers : Work(w) \/ WorkerFails(w)
  BY <1>2, GuardedWork
<1>3. CASE \E p \in Procs :
             \/ Create(p) \/ CancelRead(p) \/ Finish(p) \/ CallFails(p)
             \/ \E u \in Agents, action \in {"continue", "end"} : Respond(p, u, action)
             \/ \E i \in DOMAIN tools : ToolRead(p, i)
  BY <1>3, GuardedRequest, GuardedAnswer
<1>4. CASE SweepRead \/ SweepCommit
  BY <1>4, Exclusive, GuardedRequest, GuardedSweep
<1> QED
  BY <1>1, <1>2, <1>3, <1>4 DEF Next

-----------------------------------------------------------------------------
(* Without tool calls there is one turn at a time *)

\* The step of one worker that is idle after it: nobody else comes to a turn.
LEMMA TurnIsDropped ==
    ASSUME Typing, OneByOne, NEW w \in Workers,
           worker' = [worker EXCEPT ![w] = IdleWorker],
           UNCHANGED <<row, turns, stream, call>>
    PROVE  OneByOne'
<1>1. /\ worker'[w].at = "idle" /\ worker'[w].next = NoTask
      /\ \A v \in Workers \ {w} : worker'[v] = worker[v]
  BY DEF Typing, Shapes, IdleWorker
<1>2. ~AtTurn(w)' /\ (\A v \in Workers \ {w} : AtTurn(v)' <=> AtTurn(v))
      /\ (\A p \in Procs : Resumes(p)' <=> Resumes(p))
  BY <1>1 DEF AtTurn, Resumes
<1>3. SomeTurn' => SomeTurn
  BY <1>2 DEF SomeTurn
<1>4. Single' /\ Rests'
  BY <1>2, <1>3 DEF OneByOne, Single, Rests
<1>5. Numbered'
  BY <1>1, <1>2, <1>3 DEF OneByOne, Numbered, Due
<1> QED
  BY <1>4, <1>5 DEF OneByOne

LEMMA OneByOneTakes ==
    ASSUME Typing, OneByOne, NEW w \in Workers,
           Deliver(w) \/ Load(w) \/ Enqueue(w) \/ WorkerFails(w)
    PROVE  OneByOne'
<1>0. \A v \in Workers : worker[v].next \in TurnShape \cup {NoTask}
  BY DEF Typing, Shapes, WorkerShape
<1>1. CASE Deliver(w)
  <2>1. /\ worker[w].at = "idle" /\ worker[w].next = NoTask /\ stream # <<>>
        /\ stream \in Seq(TurnShape)
        /\ UNCHANGED <<row, turns, call>>
    BY <1>1 DEF Deliver, dbVars, Typing, Shapes, WorkerFits
  <2>2. Len(stream) = 1 /\ stream' = <<>> /\ Head(stream) = stream[1]
    <3>1. Len(stream) = 1
      <4>1. Len(stream) \in Nat \ {0}
        BY <2>1, EmptySeq
      <4>2. Len(stream) <= 1
        BY DEF OneByOne, Single
      <4>3. \A k \in Nat \ {0} : k <= 1 => k = 1
        OBVIOUS
      <4> QED
        BY <4>1, <4>2, <4>3
    <3>2. Tail(stream) \in Seq(TurnShape) /\ Len(Tail(stream)) = 0
      BY <2>1, <3>1
    <3>3. stream' = Tail(stream)
      BY <1>1 DEF Deliver
    <3> QED
      BY <2>1, <3>1, <3>2, <3>3, EmptySeq
  <2>3. /\ worker'[w].at = "load" /\ worker'[w].next = NoTask
        /\ worker'[w].task = stream[1]
        /\ \A v \in Workers \ {w} : worker'[v] = worker[v]
    BY <1>1, <2>1, <2>2 DEF Deliver, Typing, Shapes, WorkerShape
  <2>4. (\A v \in Workers : ~AtTurn(v)) /\ (\A p \in Procs : ~Resumes(p)) /\ SomeTurn
    BY <2>1 DEF OneByOne, Single, SomeTurn
  <2>5. /\ \A v \in Workers : AtTurn(v)' => v = w
        /\ \A p \in Procs : ~Resumes(p)'
    BY <2>1, <2>3, <2>4 DEF AtTurn, Resumes
  <2>6. Single'
    BY <2>2, <2>5 DEF Single
  <2>7. Rests'
    BY <2>1, <2>4 DEF OneByOne, Rests
  <2>8. stream[1].turn = Len(turns) + 1
    BY <2>2 DEF OneByOne, Numbered, Due
  <2>9. Numbered'
    <3>1. Due(Len(turns) + 1)'
      BY <2>1, <2>2, <2>3, <2>4, <2>5, <2>8 DEF Due, AtTurn
    <3> QED
      BY <2>1, <2>4, <3>1 DEF OneByOne, Numbered
  <2> QED
    BY <2>6, <2>7, <2>9 DEF OneByOne
<1>2. CASE Load(w)
  <2>1. CASE row.status = "active"
    <3>1. worker' = [worker EXCEPT ![w] = [worker[w] EXCEPT !.at = "commit", !.mem = row]]
      BY <1>2, <2>1 DEF Load
    <3>2. /\ worker'[w].at = "commit" /\ worker'[w].next = worker[w].next
          /\ worker'[w].task = worker[w].task /\ worker'[w].mem = row
          /\ worker[w].at = "load"
          /\ \A v \in Workers \ {w} : worker'[v] = worker[v]
      BY <1>2, <3>1, ZenonT(40) DEF Load, Typing, Shapes, WorkerShape
    <3>3. UNCHANGED <<row, turns, stream, call>>
      BY <1>2 DEF Load, dbVars
    <3>4. /\ \A v \in Workers : AtTurn(v)' <=> AtTurn(v)
          /\ \A p \in Procs : Resumes(p)' <=> Resumes(p)
      BY <3>2, <3>3 DEF AtTurn, Resumes
    <3>5. Single' /\ Rests' /\ (SomeTurn' <=> SomeTurn)
      BY <3>3, <3>4 DEF OneByOne, Single, Rests, SomeTurn
    <3>6. row.count = Len(turns)
      BY DEF OneByOne, Numbered
    <3>7. Due(Len(turns) + 1)'
      BY <3>2, <3>3, <3>4, <3>6 DEF OneByOne, Numbered, Due
    <3> QED
      BY <3>3, <3>5, <3>7 DEF OneByOne, Numbered
  <2>2. CASE row.status # "active"
    BY <1>2, <2>2, TurnIsDropped DEF Load, dbVars
  <2> QED
    BY <2>1, <2>2
<1>3. CASE Enqueue(w)
  <2>1. CASE worker[w].next = NoTask
    BY <1>3, <2>1, TurnIsDropped DEF Enqueue, Enqueued, dbVars
  <2>2. CASE worker[w].next # NoTask
    <3>1. AtTurn(w) /\ worker[w].next \in TurnShape
      BY <1>0, <2>2 DEF AtTurn
    <3>2. /\ stream = <<>> /\ (\A v \in Workers \ {w} : ~AtTurn(v))
          /\ (\A p \in Procs : ~Resumes(p)) /\ SomeTurn
      BY <3>1 DEF OneByOne, Single, SomeTurn
    <3>3. stream' = <<worker[w].next>>
      BY <1>3, <2>2, <3>2 DEF Enqueue, Enqueued
    <3>4. /\ worker'[w].at = "idle" /\ worker'[w].next = NoTask
          /\ \A v \in Workers \ {w} : worker'[v] = worker[v]
      BY <1>3 DEF Enqueue, Typing, Shapes, IdleWorker
    <3>5. UNCHANGED <<row, turns, call>>
      BY <1>3 DEF Enqueue, dbVars
    <3>6. (\A v \in Workers : ~AtTurn(v)') /\ (\A p \in Procs : ~Resumes(p)')
      BY <3>2, <3>4, <3>5 DEF AtTurn, Resumes
    <3>7. Single'
      BY <3>3, <3>6 DEF Single
    <3>8. Rests'
      BY <3>2, <3>5 DEF OneByOne, Rests
    <3>9. worker[w].next.turn = Len(turns) + 1
      BY <2>2 DEF OneByOne, Numbered, Due
    <3>10. Due(Len(turns) + 1)'
      BY <3>3, <3>4, <3>5, <3>6, <3>9 DEF Due, AtTurn
    <3> QED
      BY <3>2, <3>5, <3>7, <3>8, <3>10 DEF OneByOne, Numbered
  <2> QED
    BY <2>1, <2>2
<1>4. CASE WorkerFails(w)
  BY <1>4, TurnIsDropped DEF WorkerFails, dbVars
<1> QED
  BY <1>1, <1>2, <1>3, <1>4

LEMMA OneByOneCommits ==
    ASSUME Typing, OneByOne, NEW w \in Workers, Commit(w), Plain'
    PROVE  OneByOne'
<1> DEFINE n == worker[w].task.turn
           g == worker[w].task.speaker
           mem == worker[w].mem
<1>1. /\ mem \in RowShape /\ mem.status = "active" /\ mem.max <= MaxTotalTurns
      /\ worker[w].task \in TurnShape /\ worker[w].at = "commit"
      /\ UNCHANGED <<stream, call>>
  BY DEF Commit, Typing, Shapes, WorkerFits, WorkerShape
<1>2. AtTurn(w) /\ SomeTurn
  BY <1>1 DEF AtTurn, SomeTurn
<1>3. /\ stream = <<>> /\ (\A v \in Workers \ {w} : ~AtTurn(v))
      /\ \A p \in Procs : ~Resumes(p)
  BY <1>2 DEF OneByOne, Single
<1>4. row.status \notin {"none", "awaiting_review"}
  BY <1>2 DEF OneByOne, Rests
<1>5. n = Len(turns) + 1 /\ mem.count + 1 = n /\ mem.resp = row.resp
  BY <1>1 DEF OneByOne, Numbered, Due
<1>6. /\ Len(turns) < MaxTotalTurns /\ MaxTotalTurns \in Nat /\ Len(turns) \in Nat
      /\ n \in Nat /\ mem.max \in Nat /\ mem.count \in Nat
  BY <1>1, <1>2, TurnsAssumption DEF OneByOne, Numbered, Typing, Shapes, TurnShape, RowShape
<1>7. PICK reply \in Replies, recommended \in {"continue", "end"} :
        TurnWritten(w, reply, recommended)
  BY CommitWrites
<1> DEFINE on == GoesOn(mem, n, reply, recommended)
           status == StatusAfter(mem, n, reply, recommended)
<1>8. /\ row'.status = IF on THEN row.status ELSE status
      /\ row'.count = IF n = mem.count THEN row.count ELSE n
      /\ turns' = Append(turns, Task(n, g))
      /\ worker' = [worker EXCEPT ![w].at = "enqueue",
                      ![w].next = IF on THEN NextTask(n, g) ELSE NoTask]
  BY <1>7 DEF TurnWritten
<1>9. /\ on => n < mem.max
      /\ status # "none"
      /\ status = "awaiting_review" => n < mem.max \/ n < MaxTotalTurns
  BY <1>1, <1>6, AfterTurn
<1>10. Task(n, g).turn = n /\ NextTask(n, g).turn = n + 1 /\ Task(n, g) \in TurnShape
  BY <1>1 DEF Task, NextTask, TurnShape
<1> HIDE DEF on, status
<1>11. /\ worker'[w].at = "enqueue"
       /\ worker'[w].next = IF on THEN NextTask(n, g) ELSE NoTask
       /\ \A v \in Workers \ {w} : worker'[v] = worker[v]
  BY <1>8 DEF Typing, Shapes, WorkerShape
<1> HIDE DEF n, g, mem
<1>12. /\ \A v \in Workers : AtTurn(v)' => v = w /\ on
       /\ \A p \in Procs : ~Resumes(p)'
  BY <1>1, <1>3, <1>11 DEF AtTurn, Resumes
<1>13. stream' = <<>> /\ (SomeTurn' => on)
  BY <1>1, <1>3, <1>12 DEF SomeTurn
<1>14. Single'
  BY <1>12, <1>13 DEF Single
<1>15. Rests'
  BY <1>4, <1>8, <1>9, <1>13 DEF Rests
<1>16. /\ Len(turns') = n /\ row'.count = n
       /\ \A i \in DOMAIN turns' : turns'[i].turn = i
  <2>1. turns \in Seq(TurnShape) /\ \A i \in DOMAIN turns : turns[i].turn = i
    BY DEF OneByOne, Numbered, Typing, Shapes
  <2>2. Len(turns') = Len(turns) + 1
        /\ \A i \in 1 .. Len(turns) + 1 :
             turns'[i] = IF i <= Len(turns) THEN turns[i] ELSE Task(n, g)
    BY <1>8, <1>10, <2>1
  <2> QED
    BY <1>5, <1>6, <1>8, <1>10, <2>1, <2>2
<1>17. Due(Len(turns) + 1)'
  BY <1>10, <1>11, <1>12, <1>13, <1>16 DEF Due, AtTurn
<1>18. Numbered'
  <2>1. row'.status # "none" /\ (row'.status = "awaiting_review" => n < MaxTotalTurns)
    BY <1>1, <1>4, <1>6, <1>8, <1>9 DEF mem
  <2>2. n <= MaxTotalTurns /\ (SomeTurn' => n < MaxTotalTurns)
    BY <1>1, <1>5, <1>6, <1>9, <1>13 DEF mem
  <2> QED
    BY <1>16, <1>17, <2>1, <2>2 DEF Numbered
<1> QED
  BY <1>14, <1>15, <1>18 DEF OneByOne

\* A step of one call by which nobody comes to a turn.
LEMMA NobodyResumes ==
    ASSUME Typing, OneByOne, NEW p \in Procs, call'[p].at # "enqueue",
           \A q \in Procs \ {p} : call'[q] = call[q],
           UNCHANGED <<turns, stream, worker>>,
           row'.count = row.count, row'.resp = row.resp,
           row'.status \in {row.status, "cancelled"}
    PROVE  OneByOne'
<1>1. /\ \A v \in Workers : AtTurn(v)' <=> AtTurn(v)
      /\ \A q \in Procs : Resumes(q)' => Resumes(q) /\ call'[q] = call[q]
  BY DEF AtTurn, Resumes
<1>2. SomeTurn' => SomeTurn
  BY <1>1 DEF SomeTurn
<1>3. Single' /\ Rests'
  BY <1>1, <1>2 DEF OneByOne, Single, Rests
<1>4. Due(Len(turns) + 1)'
  BY <1>1 DEF OneByOne, Numbered, Due
<1> QED
  BY <1>2, <1>3, <1>4 DEF OneByOne, Numbered

\* A step by which one call comes to the only turn that there is.
LEMMA OneResumes ==
    ASSUME Typing, OneByOne, ~SomeTurn, NEW p \in Procs,
           call'[p].at = "enqueue", call'[p].next.turn = Len(turns) + 1,
           \A q \in Procs \ {p} : call'[q] = call[q],
           UNCHANGED <<turns, stream, worker>>,
           row'.count = row.count, row'.status = "active",
           Len(turns) < MaxTotalTurns
    PROVE  OneByOne'
<1>1. /\ \A v \in Workers : ~AtTurn(v)'
      /\ \A q \in Procs : Resumes(q)' => q = p
      /\ stream' = <<>>
  BY DEF SomeTurn, AtTurn, Resumes
<1>2. Single' /\ Rests'
  BY <1>1 DEF Single, Rests
<1>3. Due(Len(turns) + 1)'
  BY <1>1 DEF Due, AtTurn
<1> QED
  BY <1>2, <1>3 DEF OneByOne, Numbered

LEMMA OneByOneAnswers ==
    ASSUME Typing, OneByOne, NEW p \in Procs,
           Create(p) \/ CancelRead(p) \/ CancelCommit(p) \/ Resume(p) \/ CallFails(p)
    PROVE  OneByOne'
<1>1. CASE Create(p)
  <2>1. /\ call'[p].at = "enqueue" /\ call'[p].next = Task(1, "a")
        /\ \A q \in Procs \ {p} : call'[q] = call[q]
        /\ UNCHANGED <<turns, stream, worker>>
        /\ row'.count = 0 /\ row'.status = "active" /\ row.status = "none"
    BY <1>1 DEF Create, NoCall, NoRow, Typing, Shapes
  <2>2. ~SomeTurn /\ turns = <<>> /\ row.count = 0
    BY <2>1 DEF OneByOne, Rests, Numbered
  <2> QED
    BY <2>1, <2>2, OneResumes, TurnsAssumption DEF Task
<1>2. CASE CancelRead(p)
  <2>1. /\ call'[p].at = "commit" /\ \A q \in Procs \ {p} : call'[q] = call[q]
        /\ UNCHANGED <<row, turns, stream, worker>>
    BY <1>2 DEF CancelRead, dbVars, NoCall, Typing, Shapes
  <2> QED
    BY <2>1, NobodyResumes
<1>3. CASE CancelCommit(p)
  <2>1. /\ call'[p].at = "idle" /\ \A q \in Procs \ {p} : call'[q] = call[q]
        /\ UNCHANGED <<turns, stream, worker>>
    BY <1>3 DEF CancelCommit, NoCall, Typing, Shapes
  <2> QED
    BY <1>3, <2>1, CancelWrites, NobodyResumes DEF StatusWritten
<1>4. CASE Resume(p)
  <2>1. Resumes(p) /\ SomeTurn /\ call[p].next \in TurnShape
    BY <1>4 DEF Resume, Resumes, SomeTurn, Typing, CallFits
  <2>2. /\ stream = <<>> /\ (\A v \in Workers : ~AtTurn(v))
        /\ \A q \in Procs \ {p} : ~Resumes(q)
    BY <2>1 DEF OneByOne, Single
  <2>3. /\ stream' = <<call[p].next>> /\ call'[p].at = "idle"
        /\ (\A q \in Procs \ {p} : call'[q] = call[q])
        /\ UNCHANGED <<row, turns, worker>>
    BY <1>4, <2>2 DEF Resume, dbVars, NoCall, Typing, Shapes
  <2>4. (\A v \in Workers : ~AtTurn(v)') /\ (\A q \in Procs : ~Resumes(q)')
    BY <2>2, <2>3 DEF AtTurn, Resumes
  <2>5. Single' /\ Rests'
    BY <2>1, <2>3, <2>4 DEF OneByOne, Single, Rests
  <2>6. call[p].next.turn = Len(turns) + 1
    BY <2>1 DEF OneByOne, Numbered, Due
  <2>7. Due(Len(turns) + 1)'
    BY <2>3, <2>4, <2>6 DEF Due, AtTurn
  <2> QED
    BY <2>1, <2>3, <2>5, <2>7 DEF OneByOne, Numbered
<1>5. CASE CallFails(p)
  <2>1. /\ call'[p].at = "idle" /\ \A q \in Procs \ {p} : call'[q] = call[q]
        /\ UNCHANGED <<row, turns, stream, worker>>
    BY <1>5 DEF CallFails, dbVars, NoCall, Typing, Shapes
  <2> QED
    BY <2>1, NobodyResumes
<1> QED
  BY <1>1, <1>2, <1>3, <1>4, <1>5

LEMMA OneByOneResponds ==
    ASSUME Typing, OneByOne, NEW p \in Procs, NEW u \in Agents,
           NEW action \in {"continue", "end"}, Respond(p, u, action)
    PROVE  OneByOne'
<1> DEFINE resp == [row.resp EXCEPT ![u] = action]
<1>1. /\ RespondsTo(resp, p)
      /\ row.status = "awaiting_review"
      /\ UNCHANGED <<turns, stream, worker>>
  BY RespondWrites DEF Respond, CanRespond
<1>2. ~SomeTurn /\ Len(turns) < MaxTotalTurns /\ row.count = Len(turns)
  BY <1>1 DEF OneByOne, Rests, Numbered
<1> HIDE DEF resp
<1>3. CASE call' = [call EXCEPT ![p] = ResumingCall] /\ row'.status = "active"
  <2>1. /\ call'[p].at = "enqueue" /\ call'[p].next.turn = Len(turns) + 1
        /\ \A q \in Procs \ {p} : call'[q] = call[q]
    BY <1>2, <1>3, ResumingIsTyped DEF Task, Typing, Shapes
  <2> QED
    BY <1>1, <1>2, <1>3, <2>1, OneResumes DEF RespondsTo
<1>4. CASE UNCHANGED call /\ row'.status \in {"ended_by_user", "awaiting_review"}
  <2>1. ~SomeTurn'
    BY <1>1, <1>2, <1>4 DEF SomeTurn, AtTurn, Resumes
  <2>2. Single' /\ Rests'
    BY <2>1 DEF SomeTurn, Single, Rests
  <2>3. Due(Len(turns) + 1)'
    BY <2>1 DEF SomeTurn, AtTurn, Resumes, Due
  <2> QED
    BY <1>1, <1>2, <1>4, <2>1, <2>2, <2>3 DEF OneByOne, Numbered, RespondsTo
<1> QED
  BY <1>1, <1>3, <1>4 DEF RespondsTo

\* Tool calls are never taken away, and need one to be answered.
LEMMA PlainStays ==
    ASSUME Typing, [Next]_vars, Plain'
    PROVE  /\ Plain
           /\ ~SweepRead /\ ~SweepCommit
           /\ \A p \in Procs : ~ToolCommit(p) /\ \A i \in DOMAIN tools : ~ToolRead(p, i)
<1>1. tools \in Seq(ToolShape)
  BY DEF Typing, Shapes
<1>2. Plain
  <2>1. CASE UNCHANGED tools
    BY <2>1 DEF Plain
  <2>2. ASSUME NEW w \in Workers, Commit(w) PROVE Plain
    <3>1. PICK reply \in Replies, recommended \in {"continue", "end"} :
            TurnWritten(w, reply, recommended)
      BY <2>2, CommitWrites
    <3>2. reply.pending \in Nat
      BY DEF Replies, Typing, Shapes
    <3> DEFINE t == [turn |-> worker[w].task.turn, agent |-> worker[w].task.speaker,
                     status |-> "pending"]
               new == [i \in 1 .. reply.pending |-> t]
    <3>3. tools' = tools \o new
      BY <3>1 DEF TurnWritten
    <3>4. new \in Seq(ToolShape) /\ Len(new) = reply.pending
      <4>1. t \in ToolShape
        BY <2>2 DEF Commit, Typing, WorkerFits, ToolShape, TurnShape
      <4> HIDE DEF t
      <4> QED
        BY <3>2, <4>1
    <3> HIDE DEF new
    <3>5. tools' = <<>>
      BY DEF Plain
    <3>6. Len(tools') = Len(tools) + reply.pending /\ Len(tools') = 0
      <4>1. Len(tools \o new) = Len(tools) + Len(new)
        BY <1>1, <3>4, ConcatProperties
      <4>2. Len(tools') = 0
        BY <3>5
      <4> QED
        BY <3>3, <3>4, <4>1, <4>2
    <3> QED
      BY <1>1, <3>2, <3>6, EmptySeq DEF Plain
  <2>3. ASSUME NEW p \in Procs, ToolCommit(p) PROVE Plain
    <3>1. \E i \in call[p].ids : \E outcome \in {"user_confirmed", "user_rejected", "auto_rejected"} :
            tools' = [tools EXCEPT ![i].status = outcome]
      BY <2>3, ToolWrites
    <3>2. DOMAIN tools' = DOMAIN tools
      BY <3>1
    <3> QED
      BY <1>1, <3>2, EmptySeq DEF Plain
  <2>4. ASSUME SweepCommit PROVE Plain
    <3>1. DOMAIN tools' = DOMAIN tools
      BY <2>4, SweepWrites
    <3> QED
      BY <1>1, <3>1, EmptySeq DEF Plain
  <2>5. CASE Next
    <3>1. ASSUME NEW w \in Workers, Deliver(w) \/ Load(w) \/ Enqueue(w) \/ WorkerFails(w)
          PROVE  UNCHANGED tools
      BY <3>1 DEF Deliver, Load, Enqueue, WorkerFails, dbVars
    <3>2. ASSUME NEW p \in Procs, Create(p) \/ CancelRead(p) \/ CancelCommit(p) \/ Resume(p)
                                  \/ CallFails(p)
          PROVE  UNCHANGED tools
      BY <3>2 DEF Create, CancelRead, CancelCommit, Resume, CallFails, dbVars
    <3>3. ASSUME NEW p \in Procs, NEW u \in Agents, NEW action \in {"continue", "end"},
                 Respond(p, u, action)
          PROVE  UNCHANGED tools
      BY <3>3 DEF Respond
    <3>4. ASSUME NEW p \in Procs, NEW i \in DOMAIN tools, ToolRead(p, i) PROVE UNCHANGED tools
      BY <3>4 DEF ToolRead, dbVars
    <3>5. ASSUME SweepRead PROVE UNCHANGED tools
      BY <3>5 DEF SweepRead, dbVars
    <3> QED
      BY <2>1, <2>2, <2>3, <2>4, <2>5, <3>1, <3>2, <3>3, <3>4, <3>5 DEF Next, Work, Finish
  <2> QED
    BY <2>1, <2>5 DEF vars
<1>3. DOMAIN tools = {}
  BY <1>2 DEF Plain
<1>4. \A p \in Procs : call[p].ids = {}
  BY <1>3 DEF Typing, CallFits
<1> QED
  BY <1>2, <1>3, <1>4, Exclusive DEF SweepRead, SweepCommit, ToolCommit

LEMMA OneByOneStep ==
    ASSUME Typing, OneByOne, [Next]_vars, Plain'
    PROVE  OneByOne'
<1>1. CASE UNCHANGED vars
  BY <1>1 DEF vars, OneByOne, Single, Rests, Numbered, Due, SomeTurn, AtTurn, Resumes
<1>2. CASE \E w \in Workers : Work(w) \/ WorkerFails(w)
  BY <1>2, OneByOneTakes, OneByOneCommits DEF Work
<1>3. CASE \E p \in Procs :
             \/ Create(p) \/ CancelRead(p) \/ Finish(p) \/ CallFails(p)
             \/ \E u \in Agents, action \in {"continue", "end"} : Respond(p, u, action)
             \/ \E i \in DOMAIN tools : ToolRead(p, i)
  BY <1>3, PlainStays, OneByOneAnswers, OneByOneResponds DEF Finish
<1>4. CASE SweepRead \/ SweepCommit
  BY <1>4, PlainStays
<1> QED
  BY <1>1, <1>2, <1>3, <1>4 DEF Next

-----------------------------------------------------------------------------
(* The theorems *)

LEMMA InductionBase == Init => IInv
<1> SUFFICES ASSUME Init PROVE IInv
  OBVIOUS
<1>1. Typing
  BY TypingInit
<1>2. /\ row.status = "none" /\ row.count = 0 /\ turns = <<>> /\ stream = <<>>
      /\ \A w \in Workers : worker[w].at = "idle" /\ worker[w].next = NoTask
      /\ \A p \in Procs : call[p].at = "idle"
  BY DEF Init, NoRow, IdleWorker, NoCall
<1>3. ~SomeTurn
  BY <1>2 DEF SomeTurn, AtTurn, Resumes
<1>4. Going /\ Guarded
  BY <1>2 DEF Going, Guarded
<1>5. Single /\ Rests
  BY <1>2, <1>3 DEF Single, Rests, SomeTurn
<1>6. Due(Len(turns) + 1)
  BY <1>2 DEF Due, Resumes
<1>7. Numbered
  BY <1>2, <1>3, <1>6, TurnsAssumption DEF Numbered
<1> QED
  BY <1>1, <1>4, <1>5, <1>7 DEF IInv, OneByOne

\* What is true of a conversation in every state: the typing and the parts above
\* are inductive together (services/worker/main.py, services/orchestrator/main.py).
THEOREM InvariantHolds == Spec => []IInv
<1>1. Init => IInv
  BY InductionBase
<1>2. IInv /\ [Next]_vars => IInv'
  <2> SUFFICES ASSUME IInv, [Next]_vars PROVE IInv'
    OBVIOUS
  <2>1. Plain' => Plain
    BY PlainStays DEF IInv
  <2> QED
    BY <2>1, TypingStep, GoingStep, GuardedStep, OneByOneStep DEF IInv
<1> QED
  BY <1>1, <1>2, PTL DEF Spec

LEMMA AtMostOne ==
    ASSUME NEW S, IsFiniteSet(S), \A x, y \in S : x = y
    PROVE  Cardinality(S) \in Nat /\ Cardinality(S) <= 1 /\ (S = {} => Cardinality(S) = 0)
<1>1. CASE S = {}
  BY <1>1, FS_EmptySet
<1>2. CASE S # {}
  <2>1. PICK x \in S : TRUE
    BY <1>2
  <2>2. S = {x}
    BY <2>1
  <2>3. Cardinality({x}) = 1
    BY FS_Singleton
  <2> QED
    BY <1>2, <2>2, <2>3
<1> QED
  BY <1>1, <1>2

\* The workers and the calls that are at a turn, as Outstanding counts them.
Takers == {w \in Workers : worker[w].at \in {"load", "commit"} \/ worker[w].next # NoTask}
Resumers == {p \in Procs : call[p].at = "enqueue"}

LEMMA TakersAreFinite == IsFiniteSet(Takers) /\ IsFiniteSet(Resumers)
<1>1. IsFiniteSet(Procs)
  BY ProcsAssumption, FS_Singleton, FS_Union DEF Procs
<1> QED
  BY <1>1, ProcsAssumption, FS_Subset DEF Takers, Resumers

LEMMA SingleIsOne ==
    ASSUME Typing, Single
    PROVE  Outstanding <= 1
<1>1. /\ \A w, v \in Takers : w = v
      /\ \A p, q \in Resumers : p = q
      /\ Takers # {} => stream = <<>>
      /\ Resumers # {} => stream = <<>> /\ Takers = {}
  BY DEF Single, Takers, Resumers, AtTurn, Resumes
<1>2. /\ Cardinality(Takers) \in Nat /\ Cardinality(Takers) <= 1
      /\ Takers = {} => Cardinality(Takers) = 0
      /\ Cardinality(Resumers) \in Nat /\ Cardinality(Resumers) <= 1
      /\ Resumers = {} => Cardinality(Resumers) = 0
  BY <1>1, TakersAreFinite, AtMostOne
<1>3. Len(stream) \in Nat /\ Len(stream) <= 1 /\ (stream = <<>> => Len(stream) = 0)
  BY DEF Typing, Shapes, Single
<1>4. Outstanding = Len(stream) + Cardinality(Takers) + Cardinality(Resumers)
  BY DEF Outstanding, Takers, Resumers
<1> QED
  BY <1>1, <1>2, <1>3, <1>4

LEMMA SomeIsPositive ==
    ASSUME Typing, SomeTurn
    PROVE  Outstanding > 0
<1>1. stream # <<>> \/ Takers # {} \/ Resumers # {}
  BY DEF SomeTurn, AtTurn, Resumes, Takers, Resumers
<1>2. /\ Cardinality(Takers) \in Nat /\ (Takers # {} => Cardinality(Takers) # 0)
      /\ Cardinality(Resumers) \in Nat /\ (Resumers # {} => Cardinality(Resumers) # 0)
  BY TakersAreFinite, FS_CardinalityType, FS_EmptySet
<1>3. Len(stream) \in Nat /\ (stream # <<>> => Len(stream) # 0)
  BY EmptySeq DEF Typing, Shapes
<1>4. Outstanding = Len(stream) + Cardinality(Takers) + Cardinality(Resumers)
  BY DEF Outstanding, Takers, Resumers
<1> QED
  BY <1>1, <1>2, <1>3, <1>4

LEMMA TypingSuffices ==
    ASSUME Typing
    PROVE  TypeOK
<1>1. /\ row.status \in Statuses /\ row.count \in Nat /\ row.max \in Nat
      /\ \A u \in Agents : row.resp[u] \in {"none", "continue", "end"}
  BY DEF Typing, Shapes, RowShape, Responses
<1>2. \A i \in DOMAIN turns : turns[i] \in [turn : Nat \ {0}, speaker : Agents]
  <2>1. \A i \in DOMAIN turns : turns[i] \in TurnShape
    BY DEF Typing, Shapes
  <2> QED
    BY <2>1 DEF TurnShape
<1>3. \A i \in DOMAIN tools : tools[i].status \in
        {"pending", "user_confirmed", "user_rejected", "auto_rejected", "expired"}
  <2>1. \A i \in DOMAIN tools : tools[i] \in ToolShape
    BY DEF Typing, Shapes
  <2> QED
    BY <2>1 DEF ToolShape
<1>4. \A i \in DOMAIN stream : stream[i].turn > 0 /\ stream[i].speaker \in Agents
  <2>1. \A i \in DOMAIN stream : stream[i] \in TurnShape
    BY DEF Typing, Shapes
  <2> QED
    BY <2>1 DEF TurnShape
<1>5. \A w \in Workers : worker[w].at \in {"idle", "load", "commit", "enqueue"}
  BY DEF Typing, Shapes, WorkerShape
<1>6. \A p \in Procs : /\ call[p].at \in {"idle", "commit", "enqueue"}
                       /\ call[p].ids \subseteq DOMAIN tools
  BY DEF Typing, Shapes, CallShape, CallFits
<1> QED
  BY <1>1, <1>2, <1>3, <1>4, <1>5, <1>6 DEF TypeOK

\* One turn at a time, in order, within the ceiling, and one under way or an
\* owner to wait for as long as the session goes on (_run_turn, affinity_response,
\* tool_call_respond and the sweeper).
THEOREM SessionInvHolds == Spec => []SessionInv
<1>1. IInv => SessionInv
  <2> SUFFICES ASSUME IInv PROVE SessionInv
    OBVIOUS
  <2>1. TypeOK
    BY TypingSuffices DEF IInv
  <2>2. OneTurnAtATime
    BY SingleIsOne DEF IInv, OneByOne, OneTurnAtATime
  <2>3. TurnsAreConsecutive
    BY DEF IInv, OneByOne, Numbered, TurnsAreConsecutive
  <2>4. TurnsCapped
    <3>1. Plain => /\ \A i \in DOMAIN turns : turns[i].turn = i
                   /\ Len(turns) <= MaxTotalTurns
      BY DEF IInv, OneByOne, Numbered
    <3>2. DOMAIN turns = 1 .. Len(turns) /\ Len(turns) \in Nat /\ MaxTotalTurns \in Nat
      BY TurnsAssumption DEF IInv, Typing, Shapes
    <3> QED
      BY <3>1, <3>2 DEF TurnsCapped
  <2>5. PauseHasToolCall
    BY DEF IInv, Guarded, Awaited, PauseHasToolCall
  <2>6. ActiveHasTurn
    BY SomeIsPositive DEF IInv, Going, ActiveHasTurn
  <2> QED
    BY <2>1, <2>2, <2>3, <2>4, <2>5, <2>6 DEF SessionInv
<1> QED
  BY <1>1, InvariantHolds, PTL

\* A review ends in another turn only when both owners, or their auto-approval,
\* said continue (affinity_response).
THEOREM ReviewNeedsBothHolds == Spec => ReviewNeedsBoth
<1> DEFINE Both == Plain' /\ row.status = "awaiting_review" /\ row'.status = "active"
                     => \A u \in Agents : row'.resp[u] = "continue"
<1>1. IInv /\ [Next]_vars => [Both]_vars
  <2> SUFFICES ASSUME IInv, Next, Plain', row.status = "awaiting_review",
                      row'.status = "active"
               PROVE  \A u \in Agents : row'.resp[u] = "continue"
    BY DEF Both
  <2>1. Plain /\ ~SweepRead /\ ~SweepCommit
        /\ \A p \in Procs : ~ToolCommit(p) /\ \A i \in DOMAIN tools : ~ToolRead(p, i)
    BY PlainStays DEF IInv
  <2>2. ~SomeTurn
    BY <2>1 DEF IInv, OneByOne, Rests
  <2>3. ASSUME NEW w \in Workers, Work(w) \/ WorkerFails(w) PROVE FALSE
    <3>1. CASE Commit(w)
      BY <2>2, <3>1 DEF Commit, SomeTurn, AtTurn
    <3>2. CASE Deliver(w) \/ Load(w) \/ Enqueue(w) \/ WorkerFails(w)
      BY <3>2 DEF Deliver, Load, Enqueue, WorkerFails, dbVars
    <3> QED
      BY <2>3, <3>1, <3>2 DEF Work
  <2>4. ASSUME NEW p \in Procs, Create(p) \/ CancelRead(p) \/ Finish(p) \/ CallFails(p)
        PROVE FALSE
    <3>1. CASE Create(p)
      BY <3>1 DEF Create
    <3>2. CASE CancelRead(p) \/ Resume(p) \/ CallFails(p)
      BY <3>2 DEF CancelRead, Resume, CallFails, dbVars
    <3>3. CASE CancelCommit(p)
      BY <3>3, CancelWrites DEF IInv, StatusWritten
    <3> QED
      BY <2>1, <2>4, <3>1, <3>2, <3>3 DEF Finish
  <2>5. ASSUME NEW p \in Procs, NEW u \in Agents, NEW action \in {"continue", "end"},
               Respond(p, u, action)
        PROVE  \A v \in Agents : row'.resp[v] = "continue"
    <3> DEFINE resp == [row.resp EXCEPT ![u] = action]
    <3>0. Typing
      BY DEF IInv
    <3>1. RespondsTo(resp, p)
      BY <2>5, <3>0, RespondWrites
    <3> HIDE DEF resp
    <3> QED
      BY <3>1 DEF RespondsTo, Agreed
  <2> QED
    BY <2>1, <2>3, <2>4, <2>5 DEF Next
<1> QED
  BY <1>1, InvariantHolds, PTL DEF Spec, ReviewNeedsBoth

\* A review starts with the answers of those who approve automatically, and no
\* other: no consent is carried over from an earlier one (_run_turn).
THEOREM FreshReviewHolds == Spec => FreshReview
<1> DEFINE Fresh == Plain' /\ row.status # "awaiting_review" /\ row'.status = "awaiting_review"
                      => \A u \in Agents \ AutoApprove : row'.resp[u] = "none"
<1>1. IInv /\ [Next]_vars => [Fresh]_vars
  <2> SUFFICES ASSUME IInv, Next, Plain', row.status # "awaiting_review",
                      row'.status = "awaiting_review"
               PROVE  \A u \in Agents \ AutoApprove : row'.resp[u] = "none"
    BY DEF Fresh
  <2>1. Plain /\ ~SweepRead /\ ~SweepCommit
        /\ \A p \in Procs : ~ToolCommit(p) /\ \A i \in DOMAIN tools : ~ToolRead(p, i)
    BY PlainStays DEF IInv
  <2>2. ASSUME NEW w \in Workers, Commit(w)
        PROVE  \A u \in Agents \ AutoApprove : row'.resp[u] = "none"
    <3> DEFINE n == worker[w].task.turn
               mem == worker[w].mem
    <3>1. /\ mem \in RowShape /\ mem.status = "active" /\ n \in Nat
          /\ worker[w].at = "commit"
      BY <2>2 DEF Commit, IInv, Typing, Shapes, WorkerFits, WorkerShape, TurnShape
    <3>2. mem.resp = row.resp
      BY <2>1, <3>1 DEF IInv, OneByOne, Numbered, Due
    <3>3. PICK reply \in Replies, recommended \in {"continue", "end"} :
            TurnWritten(w, reply, recommended)
      BY <2>2, CommitWrites DEF IInv
    <3>4. /\ row'.status = IF GoesOn(mem, n, reply, recommended) THEN row.status
                           ELSE StatusAfter(mem, n, reply, recommended)
          /\ row'.resp = ResponsesAfter(mem, n, reply, recommended)
      BY <3>2, <3>3 DEF TurnWritten
    <3>5. /\ ~GoesOn(mem, n, reply, recommended)
          /\ StatusAfter(mem, n, reply, recommended) = "awaiting_review"
      BY <3>4
    <3>6. reply.pending \in Nat /\ reply.ends \in BOOLEAN
      BY DEF Replies, IInv, Typing, Shapes
    <3>7. ~reply.ends /\ ~(reply.pending > 0) /\ (n >= mem.max => ~(n >= MaxTotalTurns))
      BY <3>1, <3>5, <3>6 DEF StatusAfter
    <3>8. n < mem.max => n \in CheckTurns
      BY <3>5, <3>6, <3>7 DEF GoesOn
    <3>9. mem.max \in Nat
      BY <3>1 DEF RowShape
    <3> HIDE DEF mem, n
    <3>10. \A u \in Agents \ AutoApprove :
             ResponsesAfter(mem, n, reply, recommended)[u] = "none"
      BY <3>1, <3>6, <3>7, <3>8, <3>9 DEF ResponsesAfter
    <3> QED
      BY <3>4, <3>10
  <2>3. ASSUME NEW w \in Workers, Deliver(w) \/ Load(w) \/ Enqueue(w) \/ WorkerFails(w)
        PROVE FALSE
    BY <2>3 DEF Deliver, Load, Enqueue, WorkerFails, dbVars
  <2>4. ASSUME NEW p \in Procs, Create(p) \/ CancelRead(p) \/ Finish(p) \/ CallFails(p)
        PROVE FALSE
    <3>1. CASE Create(p)
      BY <3>1 DEF Create, NoRow
    <3>2. CASE CancelRead(p) \/ Resume(p) \/ CallFails(p)
      BY <3>2 DEF CancelRead, Resume, CallFails, dbVars
    <3>3. CASE CancelCommit(p)
      BY <3>3, CancelWrites DEF IInv, StatusWritten
    <3> QED
      BY <2>1, <2>4, <3>1, <3>2, <3>3 DEF Finish
  <2>5. ASSUME NEW p \in Procs, NEW u \in Agents, NEW action \in {"continue", "end"},
               Respond(p, u, action)
        PROVE  FALSE
    BY <2>5 DEF Respond, CanRespond
  <2> QED
    BY <2>1, <2>2, <2>3, <2>4, <2>5 DEF Next, Work
<1> QED
  BY <1>1, InvariantHolds, PTL DEF Spec, FreshReview
=============================================================================
