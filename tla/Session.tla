------------------------------- MODULE Session -------------------------------
(***************************************************************************)
(* One conversation between two agents: the match_sessions row, its turns, *)
(* the tool calls that wait for an owner, the stream of turn tasks, the    *)
(* LLM workers (services/worker/main.py) and the orchestrator's handlers   *)
(* and sweeper (services/orchestrator/main.py).                            *)
(*                                                                         *)
(* There is no coordinator: a worker that commits a turn enqueues the next *)
(* one, and whoever ends a pause enqueues the turn after it.  Each process *)
(* reads the row in one transaction and writes it when it commits, without *)
(* a lock except in affinity_response; an ORM commit writes only the       *)
(* columns that differ from what was read.  Enqueueing is a step after the *)
(* commit.  A step that dies, or whose Redis or LLM call raises, is a      *)
(* fault: nothing reads the pending list of the stream again.              *)
(***************************************************************************)
EXTENDS Integers, Sequences, FiniteSetsExt

CONSTANTS
    Workers,        \* worker processes
    Handlers,       \* requests that the orchestrator serves at a time
    Sweeper,        \* its _pending_confirmation_sweeper task
    FirstTurns,     \* max_turns of the new session
    Window,         \* turns granted by a continue at max_turns (30)
    MaxTotalTurns,  \* MAX_TOTAL_TURNS
    CheckTurns,     \* turns at which an affinity check is due
    AutoApprove,    \* users with auto_approve_affinity
    Budgets         \* bound: what one behaviour may have, as Init chooses: tool
                    \* calls that need the owner, requests of users, and
                    \* faults (crashes, failed calls)

Agents == {"a", "b"}     \* and the user who owns each
Other(g) == IF g = "a" THEN "b" ELSE "a"
Procs == Handlers \cup {Sweeper}
Terminal == {"completed", "ended_by_user", "cancelled"}
Statuses == Terminal \cup
    {"none", "active", "awaiting_review", "awaiting_owner_confirmation"}

ASSUME ProcsAssumption ==
    /\ Sweeper \notin Handlers
    /\ IsFiniteSet(Workers) /\ IsFiniteSet(Handlers)
ASSUME TurnsAssumption ==
    /\ FirstTurns \in Nat \ {0} /\ Window \in Nat \ {0}
    /\ MaxTotalTurns \in Nat \ {0} /\ CheckTurns \subseteq Nat
\* The app asks for 30 turns (DEFAULT_MAX_TURNS); the endpoint takes any number.
ASSUME CallerAssumption == FirstTurns <= MaxTotalTurns
ASSUME BoundsAssumption ==
    Budgets \subseteq [tools : Nat, requests : Nat, faults : Nat]
ASSUME UsersAssumption == AutoApprove \subseteq Agents

VARIABLES
    row,       \* the match_sessions row
    turns,     \* rows of conversation_turns, in the order of their commits
    tools,     \* rows of tool_call_events that were pending once
    stream,    \* stream:llm_tasks, the entries not yet delivered
    worker,    \* what each worker does
    call,      \* what each handler, and the sweeper, does
    budget,    \* what the behaviour has left
    faults     \* crashes and failed calls so far

vars == <<row, turns, tools, stream, worker, call, budget, faults>>
dbVars == <<row, turns, tools>>

NoTask == [turn |-> 0, speaker |-> "none"]
NoRow == [status |-> "none", count |-> 0, max |-> 0,
          resp |-> [u \in Agents |-> "none"]]
IdleWorker == [at |-> "idle", task |-> NoTask, mem |-> NoRow, next |-> NoTask]
NoCall == [at |-> "idle", op |-> "none", ids |-> {}, mem |-> NoRow,
           next |-> NoTask]

Task(n, g) == [turn |-> n, speaker |-> g]

\* An ORM commit: the columns that differ from those read are written.
Written(old, read, new) ==
    [f \in DOMAIN old |-> IF new[f] = read[f] THEN old[f] ELSE new[f]]
Flush(mem, new) ==
    [Written(row, mem, new) EXCEPT !.resp = Written(row.resp, mem.resp, new.resp)]

Init ==
    /\ row = NoRow
    /\ turns = <<>>
    /\ tools = <<>>
    /\ stream = <<>>
    /\ worker = [w \in Workers |-> IdleWorker]
    /\ call = [p \in Procs |-> NoCall]
    /\ budget \in Budgets
    /\ faults = 0

-----------------------------------------------------------------------------
(* The worker *)

\* XREADGROUP ">".
Deliver(w) ==
    /\ worker[w].at = "idle"
    /\ stream # <<>>
    /\ stream' = Tail(stream)
    /\ worker' = [worker EXCEPT ![w].at = "load", ![w].task = Head(stream)]
    /\ UNCHANGED <<dbVars, call, budget, faults>>

\* A session that is not active is skipped, and its task acknowledged.
Load(w) ==
    /\ worker[w].at = "load"
    /\ worker' = [worker EXCEPT
                    ![w] = IF row.status = "active"
                           THEN [@ EXCEPT !.at = "commit", !.mem = row]
                           ELSE IdleWorker]
    /\ UNCHANGED <<dbVars, stream, call, budget, faults>>

\* The tool calls of a turn: how many wait for the owner, and whether a
\* handler that ran ended the session.
Replies == [pending : 0 .. budget.tools - Len(tools), ends : BOOLEAN]

\* The turn after turn n, which g took: the other agent's.
NextTask(n, g) == Task(n + 1, Other(g))

\* The reply continues the conversation, and the next speaker is due.
GoesOn(mem, n, reply, recommended) ==
    /\ ~reply.ends /\ reply.pending = 0 /\ n < mem.max
    /\ n \in CheckTurns => AutoApprove = Agents /\ recommended = "continue"

\* The status after turn n; the affinity analysis recommended this.
StatusAfter(mem, n, reply, recommended) ==
    CASE reply.ends -> "completed"
      [] ~reply.ends /\ reply.pending > 0 -> "awaiting_owner_confirmation"
      [] ~reply.ends /\ reply.pending = 0 /\ n >= mem.max ->
            IF n >= MaxTotalTurns THEN "completed" ELSE "awaiting_review"
      [] OTHER -> IF GoesOn(mem, n, reply, recommended) THEN mem.status
                  ELSE "awaiting_review"

MutantResponsesAfter(mem, n, reply, recommended) == mem.resp

\* The responses that a pause starts with: cleared, and at an affinity check
\* filled in for the users who approve automatically.
ResponsesAfter(mem, n, reply, recommended) ==
    IF reply.ends \/ reply.pending > 0 THEN mem.resp
    ELSE IF n >= mem.max
    THEN IF n >= MaxTotalTurns THEN mem.resp ELSE [u \in Agents |-> "none"]
    ELSE IF n \in CheckTurns
    THEN [u \in Agents |-> IF u \in AutoApprove /\ recommended = "continue"
                           THEN "continue" ELSE "none"]
    ELSE mem.resp

\* The turn, its tool calls, the counter and the status, in one commit.
Commit(w) ==
    /\ worker[w].at = "commit"
    /\ \E reply \in Replies, recommended \in {"continue", "end"} :
        LET n == worker[w].task.turn
            g == worker[w].task.speaker
            mem == worker[w].mem IN
        /\ row' = Flush(mem, [mem EXCEPT
                      !.count = n,
                      !.status = StatusAfter(mem, n, reply, recommended),
                      !.resp = ResponsesAfter(mem, n, reply, recommended)])
        /\ turns' = Append(turns, Task(n, g))
        /\ tools' = tools \o [i \in 1 .. reply.pending |->
                       [turn |-> n, agent |-> g, status |-> "pending"]]
        /\ worker' = [worker EXCEPT
                        ![w].at = "enqueue",
                        ![w].next = IF GoesOn(mem, n, reply, recommended)
                                    THEN NextTask(n, g) ELSE NoTask]
    /\ UNCHANGED <<stream, call, budget, faults>>

Enqueued(next) == IF next = NoTask THEN stream ELSE Append(stream, next)

\* The events are published, the next turn enqueued, the entry acknowledged.
Enqueue(w) ==
    /\ worker[w].at = "enqueue"
    /\ stream' = Enqueued(worker[w].next)
    /\ worker' = [worker EXCEPT ![w] = IdleWorker]
    /\ UNCHANGED <<dbVars, call, budget, faults>>

Fails == /\ faults < budget.faults
         /\ faults' = faults + 1

\* The worker dies, the LLM fails or answers twice with nothing, or Redis
\* fails after the commit: the entry stays in the pending list.
WorkerFails(w) ==
    /\ worker[w].at # "idle"
    /\ Fails
    /\ worker' = [worker EXCEPT ![w] = IdleWorker]
    /\ UNCHANGED <<dbVars, stream, call, budget>>

Work(w) == Deliver(w) \/ Load(w) \/ Commit(w) \/ Enqueue(w)

-----------------------------------------------------------------------------
(* The orchestrator *)

Arrives(p) ==
    /\ p \in Handlers
    /\ call[p].at = "idle"
    /\ budget.requests > 0
    /\ budget' = [budget EXCEPT !.requests = @ - 1]

\* The session is committed; its opening turn is the agent a's.
Create(p) ==
    /\ p \in Handlers
    /\ call[p].at = "idle"
    /\ row.status = "none"
    /\ row' = [NoRow EXCEPT !.status = "active", !.max = FirstTurns]
    /\ call' = [call EXCEPT ![p] = [NoCall EXCEPT !.at = "enqueue",
                                        !.op = "create", !.next = Task(1, "a")]]
    /\ UNCHANGED <<turns, tools, stream, worker, budget, faults>>

\* A continue at max_turns grants another window, up to the ceiling.
Extended(r) == IF r.count >= r.max
               THEN Min({r.count + Window, MaxTotalTurns}) ELSE r.max

MutantCanRespond(r) == r.status \notin Terminal \cup {"none"}
CanRespond(r) == r.status = "awaiting_review"
Declined(resp) == \E v \in Agents : resp[v] = "end"
MutantAgreed(resp) == \E v \in Agents : resp[v] = "continue"
Agreed(resp) == \A v \in Agents : resp[v] = "continue"

\* affinity_response: read and written under a row lock.
Respond(p, u, action) ==
    /\ Arrives(p)
    /\ CanRespond(row)
    /\ LET resp == [row.resp EXCEPT ![u] = action] IN
       \/ /\ Declined(resp)
          /\ row' = [row EXCEPT !.resp = resp, !.status = "ended_by_user"]
          /\ UNCHANGED call
       \/ /\ Agreed(resp) /\ ~Declined(resp)
          /\ row' = [row EXCEPT !.resp = resp, !.status = "active",
                                !.max = Extended(row)]
          /\ call' = [call EXCEPT ![p] = [NoCall EXCEPT !.at = "enqueue",
                        !.op = "respond", !.next = Task(row.count + 1, "a")]]
       \/ /\ ~Agreed(resp) /\ ~Declined(resp)
          /\ row' = [row EXCEPT !.resp = resp]
          /\ UNCHANGED call
    /\ UNCHANGED <<turns, tools, stream, worker, faults>>

\* cancel_session reads the row, and answers if the session has ended.
CancelRead(p) ==
    /\ Arrives(p)
    /\ row.status \notin Terminal \cup {"none"}
    /\ call' = [call EXCEPT ![p] = [NoCall EXCEPT !.at = "commit",
                                        !.op = "cancel", !.mem = row]]
    /\ UNCHANGED <<dbVars, stream, worker, faults>>

CancelCommit(p) ==
    /\ call[p].at = "commit" /\ call[p].op = "cancel"
    /\ row' = Flush(call[p].mem, [call[p].mem EXCEPT !.status = "cancelled"])
    /\ call' = [call EXCEPT ![p] = NoCall]
    /\ UNCHANGED <<turns, tools, stream, worker, budget, faults>>

\* tool_call_respond reads a tool call that is pending, and the session.
ToolRead(p, i) ==
    /\ Arrives(p)
    /\ tools[i].status = "pending"
    /\ call' = [call EXCEPT ![p] = [NoCall EXCEPT !.at = "commit",
                            !.op = "tool", !.ids = {i}, !.mem = row]]
    /\ UNCHANGED <<dbVars, stream, worker, faults>>

\* Approved (and run, perhaps ending the session, or failing), or rejected.
ToolCommit(p) ==
    /\ call[p].at = "commit" /\ call[p].op = "tool"
    /\ \E i \in call[p].ids, ends \in BOOLEAN,
          outcome \in {"user_confirmed", "user_rejected", "auto_rejected"} :
        /\ ends => outcome = "user_confirmed"
        /\ tools' = [tools EXCEPT ![i].status = outcome]
        /\ row' = Flush(call[p].mem, [call[p].mem EXCEPT
                          !.status = IF ends THEN "completed" ELSE "active"])
        /\ call' = [call EXCEPT ![p] =
                      IF ends THEN NoCall
                      ELSE [NoCall EXCEPT !.at = "enqueue", !.op = "tool",
                              !.next = NextTask(tools[i].turn, tools[i].agent)]]
    /\ UNCHANGED <<turns, stream, worker, budget, faults>>

\* The status of a session whose tool calls expire, and whether it resumes.
MutantReopened(status) == status
Reopened(status) ==
    IF status = "awaiting_owner_confirmation" THEN "active" ELSE status
MutantResumesAfterSweep(mem) == mem.status = "active"
ResumesAfterSweep(mem) == Reopened(mem.status) = "active"

\* The sweeper finds the pending tool calls older than the TTL, and their
\* session: the oldest first.
SweepRead ==
    /\ call[Sweeper].at = "idle"
    /\ \E k \in DOMAIN tools :
        LET ids == {i \in 1 .. k : tools[i].status = "pending"} IN
        /\ ids # {}
        /\ call' = [call EXCEPT ![Sweeper] = [NoCall EXCEPT !.at = "commit",
                                  !.op = "sweep", !.ids = ids, !.mem = row]]
    /\ UNCHANGED <<dbVars, stream, worker, budget, faults>>

\* They expire, and the session goes on if it was waiting for them.
SweepCommit ==
    /\ call[Sweeper].at = "commit"
    /\ \E first, last \in call[Sweeper].ids :
        LET ids == call[Sweeper].ids
            mem == call[Sweeper].mem IN
        /\ \A i \in ids : first <= i /\ i <= last
        /\ tools' = [i \in DOMAIN tools |->
                       IF i \in ids THEN [tools[i] EXCEPT !.status = "expired"]
                       ELSE tools[i]]
        /\ row' = Flush(mem, [mem EXCEPT !.status = Reopened(mem.status)])
        /\ call' = [call EXCEPT ![Sweeper] =
                      IF ~ResumesAfterSweep(mem) THEN NoCall
                      ELSE [NoCall EXCEPT !.at = "enqueue", !.op = "sweep",
                              !.next = NextTask(tools[last].turn,
                                                tools[first].agent)]]
    /\ UNCHANGED <<turns, stream, worker, budget, faults>>

\* After the commit: the turn that a handler or the sweeper resumes with.
Resume(p) ==
    /\ call[p].at = "enqueue"
    /\ stream' = Append(stream, call[p].next)
    /\ call' = [call EXCEPT ![p] = NoCall]
    /\ UNCHANGED <<dbVars, worker, budget, faults>>

\* The handler dies, or the XADD raises.
CallFails(p) ==
    /\ call[p].at # "idle"
    /\ Fails
    /\ call' = [call EXCEPT ![p] = NoCall]
    /\ UNCHANGED <<dbVars, stream, worker, budget>>

Finish(p) == CancelCommit(p) \/ ToolCommit(p) \/ Resume(p)

Next ==
    \/ \E w \in Workers : Work(w) \/ WorkerFails(w)
    \/ \E p \in Procs :
        \/ Create(p) \/ CancelRead(p) \/ Finish(p) \/ CallFails(p)
        \/ \E u \in Agents, action \in {"continue", "end"} : Respond(p, u, action)
        \/ \E i \in DOMAIN tools : ToolRead(p, i)
    \/ SweepRead \/ SweepCommit

Spec == Init /\ [][Next]_vars

\* Workers and the sweeper keep running and a request that is being served is
\* finished: while there is such work, some of it is done.  Users need not do
\* anything, and nothing has to fail.
HasWork == \/ stream # <<>>
           \/ \E w \in Workers : worker[w].at # "idle"
           \/ \E p \in Procs : call[p].at # "idle"
           \/ \E i \in DOMAIN tools : tools[i].status = "pending"
Works == worker' # worker \/ call' # call
Fairness == <>[]HasWork => []<><<Works>>_vars

FairSpec == Spec /\ Fairness

-----------------------------------------------------------------------------
(* Properties *)

\* Every variable holds values of its kind.
TypeOK ==
    /\ row.status \in Statuses /\ row.count \in Nat /\ row.max \in Nat
    /\ \A u \in Agents : row.resp[u] \in {"none", "continue", "end"}
    /\ \A i \in DOMAIN turns : turns[i] \in [turn : Nat \ {0}, speaker : Agents]
    /\ \A i \in DOMAIN tools :
        tools[i].status \in {"pending", "user_confirmed", "user_rejected",
                             "auto_rejected", "expired"}
    /\ \A i \in DOMAIN stream : stream[i].turn > 0 /\ stream[i].speaker \in Agents
    /\ \A w \in Workers : worker[w].at \in {"idle", "load", "commit", "enqueue"}
    /\ \A p \in Procs : /\ call[p].at \in {"idle", "commit", "enqueue"}
                        /\ call[p].ids \subseteq DOMAIN tools

\* No tool call has waited for an owner: two answers to such calls, or an answer
\* and the sweeper, may both resume the session, even a session under review.
Plain == tools = <<>>

\* Turns that will still be taken, unless the session pauses or ends.
Outstanding ==
    Len(stream)
    + Cardinality({w \in Workers : worker[w].at \in {"load", "commit"}
                                   \/ worker[w].next # NoTask})
    + Cardinality({p \in Procs : call[p].at = "enqueue"})

\* "two near-simultaneous "continue" responses can't both observe the other as
\* missing and double-enqueue the resume turn" (affinity_response), whatever
\* cancels and faults come in between.
OneTurnAtATime == Plain => Outstanding <= 1

\* The conversation has no gap and no duplicate turn, and the counter that a
\* resume counts from is the number of turns.
TurnsAreConsecutive == Plain =>
    /\ \A i \in DOMAIN turns : turns[i].turn = i
    /\ row.count = Len(turns)

\* An active session has a turn under way: whoever ends a pause starts one.
ActiveHasTurn == faults = 0 /\ row.status = "active" => Outstanding > 0

\* A session that waits for an owner has a tool call for the owner to resolve
\* (else it would wait forever: nothing but a tool call ends that pause).
PauseHasToolCall ==
    row.status = "awaiting_owner_confirmation" =>
        \E i \in DOMAIN tools : tools[i].status = "pending"

\* A pause for an owner ends without the owner: the sweeper expires it.
OwnerPauseEnds ==
    row.status = "awaiting_owner_confirmation"
        ~> row.status # "awaiting_owner_confirmation"

\* An active session gets its next turn, or pauses, or ends.
ActiveAdvances ==
    \A n \in 0 .. MaxTotalTurns :
        row.status = "active" /\ Len(turns) = n
            ~> row.status # "active" \/ Len(turns) # n \/ faults > 0

\* "Hard ceiling on a session's total turns across max_turns extensions"
\* (MAX_TOTAL_TURNS in shared/config.py).
TurnsCapped == Plain => \A i \in DOMAIN turns : turns[i].turn <= MaxTotalTurns

\* "Pause for owner review; the evaluation drives the continue(+extend)/end
\* decision via affinity-response" (_run_turn): a review ends in another turn
\* only when both owners, or their auto-approval, said continue.
ReviewNeedsBoth ==
    [][Plain' /\ row.status = "awaiting_review" /\ row'.status = "active"
          => \A u \in Agents : row'.resp[u] = "continue"]_vars

\* No consent is carried over: a review starts with the answers of those who
\* approve automatically, and no other.
FreshReview ==
    [][Plain' /\ row.status # "awaiting_review" /\ row'.status = "awaiting_review"
          => \A u \in Agents \ AutoApprove : row'.resp[u] = "none"]_vars

\* The turns of a session: one at a time, in order, as many as allowed, and one
\* under way, or an owner to wait for, as long as the session goes on.
SessionInv ==
    /\ TypeOK /\ OneTurnAtATime /\ TurnsAreConsecutive /\ TurnsCapped
    /\ PauseHasToolCall /\ ActiveHasTurn
=============================================================================
