------------------------------- MODULE Agents -------------------------------
(***************************************************************************)
(* Distributed probe agents: the prober of the controller that hands tasks *)
(* out and takes results (internal/plugins/prober/agent), and the agents   *)
(* that poll it (internal/agent).                                          *)
(*                                                                         *)
(* A task is one Probe call.  Time is left out: an agent's last call can   *)
(* be too long ago at any moment, a timer can fire at any moment, and a    *)
(* caller's deadline can pass at any moment.  The rate limiter's delay is  *)
(* a free choice, and with it the agent that the sort puts first.  A poll  *)
(* lives in the controller until it is answered, also after its agent gave *)
(* it up: an agent can have several there, and hears one.  Certificates    *)
(* are only "revoked" or not, looked at in the same step as what follows;  *)
(* the order of a queue and what is measured are left out.  Stop is its    *)
(* section under the lock: calls that came in before the server is shut    *)
(* down may be served after it.                                            *)
(***************************************************************************)
EXTENDS Integers, FiniteSets

CONSTANTS
  Agent, Task,
  Poll,      \* identities of polls, bound on those at once
  Slots,     \* an agent's max_concurrent
  PollMax,   \* agentwire.MaxTasksPerPoll
  Serves,    \* Serves[t]: the agents at the task's site that declare its provider
  MaxTrouble \* bound on crashes, lost calls and revocations

ASSUME AgentsAssumption ==
  /\ Slots \in Nat \ {0} /\ PollMax \in Nat \ {0} /\ MaxTrouble \in Nat
  /\ Serves \in [Task -> SUBSET Agent]

VARIABLES
  call,      \* call[t]: where the Probe call is
  given,     \* given[t]: the agent it was given to, as a set of one
  done,      \* done[t]: outcomes put into its channel, which holds one
  queue, inflight, wake,   \* agentState
  fresh,     \* called within max_age
  up,        \* agentState.up
  revoked,   \* the agents on the revocation list
  polls,     \* servePoll calls
  probing, posting,   \* the tasks in the slots of an agent
  posted,    \* results on their way
  stopped,   \* Stop was called
  trouble

proberVars == <<queue, inflight, wake, fresh, up, revoked>>
callVars == <<call, given, done>>
slotVars == <<probing, posting>>
agentsVars == <<callVars, proberVars, polls, slotVars, posted, stopped, trouble>>

Gone == [at |-> "none", free |-> 0, tasks |-> {}, live |-> FALSE]

AgentsInit ==
  /\ call = [t \in Task |-> "new"] /\ given = [t \in Task |-> {}] /\ done = [t \in Task |-> 0]
  /\ queue = [a \in Agent |-> {}] /\ inflight = [a \in Agent |-> {}]
  /\ wake = [a \in Agent |-> FALSE]
  /\ fresh = [a \in Agent |-> FALSE] /\ up = [a \in Agent |-> FALSE] /\ revoked = {}
  /\ polls = [a \in Agent |-> [p \in Poll |-> Gone]]
  /\ probing = [a \in Agent |-> {}] /\ posting = [a \in Agent |-> {}]
  /\ posted = [a \in Agent |-> {}]
  /\ stopped = FALSE /\ trouble = 0

Trouble == trouble < MaxTrouble /\ trouble' = trouble + 1

\* freshLocked
Usable(a) == fresh[a] /\ a \notin revoked

-----------------------------------------------------------------------------
(* Probe *)

Go(t, where) == call' = [call EXCEPT ![t] = where]

\* enqueueLocked
Enqueue(t, a) ==
  /\ queue' = [queue EXCEPT ![a] = @ \cup {t}]
  /\ wake' = [wake EXCEPT ![a] = TRUE]
  /\ Go(t, "waiting")

\* reserve: no usable agent fails the provider closed, and so does a best one
\* at its rate limit for longer than the caller waits; otherwise it has a slot
\* later, or now.
Reserve(t) ==
  /\ call[t] = "new"
  /\ LET cands == {a \in Serves[t] : Usable(a)} IN
     \/ Go(t, "over") /\ UNCHANGED <<given, queue, wake>>
     \/ \E a \in cands :
          /\ given' = [given EXCEPT ![t] = {a}]
          /\ \/ Go(t, "delayed") /\ UNCHANGED <<queue, wake>>
             \/ Enqueue(t, a)
  /\ UNCHANGED <<done, inflight, fresh, up, revoked, polls, slotVars, posted, stopped, trouble>>

\* The slot has come; the agent may have gone meanwhile.
Delayed(t) ==
  /\ call[t] = "delayed"
  /\ \E a \in given[t] :
       IF Usable(a) THEN Enqueue(t, a) ELSE Go(t, "over") /\ UNCHANGED <<queue, wake>>
  /\ UNCHANGED <<given, done, inflight, fresh, up, revoked, polls, slotVars, posted, stopped, trouble>>

Answered(t) ==
  /\ call[t] = "waiting" /\ done[t] > 0
  /\ done' = [done EXCEPT ![t] = @ - 1] /\ Go(t, "over")
  /\ UNCHANGED <<given, proberVars, polls, slotVars, posted, stopped, trouble>>

\* The caller's deadline: dropLocked forgets a task that waits.
GiveUp(t) ==
  /\ call[t] \in {"delayed", "waiting"} /\ Go(t, "over")
  /\ queue' = [a \in Agent |-> queue[a] \ {t}]
  /\ inflight' = [a \in Agent |-> inflight[a] \ {t}]
  /\ UNCHANGED <<given, done, wake, fresh, up, revoked, polls, slotVars, posted, stopped, trouble>>

-----------------------------------------------------------------------------
(* Polls.  The agent has at most one that it listens to. *)

Listening(a) == \E p \in Poll : polls[a][p].live

Set(a, p, poll) == polls' = [polls EXCEPT ![a][p] = poll]

Least(m, n) == IF m < n THEN m ELSE n

\* Agent.Run polls for its free slots, and servePoll declares the agent.  A
\* revoked certificate is refused.
PollStart(a, p) ==
  LET free == Least(Slots - Cardinality(probing[a] \cup posting[a]), PollMax) IN
  /\ ~Listening(a) /\ polls[a][p].at = "none" /\ a \notin revoked /\ free > 0
  /\ Set(a, p, [at |-> "take", free |-> free, tasks |-> {}, live |-> TRUE])
  /\ up' = [up EXCEPT ![a] = TRUE] /\ fresh' = [fresh EXCEPT ![a] = TRUE]
  /\ UNCHANGED <<callVars, queue, inflight, wake, revoked, slotVars, posted, stopped, trouble>>

\* Mutant: the tasks that are handed out stay in the queue.
TakeCopies(a, p) ==
  /\ polls[a][p].at = "take"
  /\ \E ts \in SUBSET queue[a] :
       /\ Cardinality(ts) = Least(polls[a][p].free, Cardinality(queue[a]))
       /\ inflight' = [inflight EXCEPT ![a] = @ \cup ts]
       /\ Set(a, p, [polls[a][p] EXCEPT !.at = IF ts = {} THEN "wait" ELSE "respond", !.tasks = ts])
  /\ UNCHANGED <<callVars, queue, wake, fresh, up, revoked, slotVars, posted, stopped, trouble>>

\* take
Take(a, p) ==
  /\ polls[a][p].at = "take"
  /\ \E ts \in SUBSET queue[a] :
       /\ Cardinality(ts) = Least(polls[a][p].free, Cardinality(queue[a]))
       /\ queue' = [queue EXCEPT ![a] = @ \ ts]
       /\ inflight' = [inflight EXCEPT ![a] = @ \cup ts]
       /\ Set(a, p, [polls[a][p] EXCEPT !.at = IF ts = {} THEN "wait" ELSE "respond", !.tasks = ts])
  /\ UNCHANGED <<callVars, wake, fresh, up, revoked, slotVars, posted, stopped, trouble>>

\* The wait of servePoll: woken, over, or at an end because the agent hung up.
Woken(a, p) ==
  /\ polls[a][p].at = "wait" /\ wake[a]
  /\ wake' = [wake EXCEPT ![a] = FALSE] /\ Set(a, p, [polls[a][p] EXCEPT !.at = "take"])
  /\ UNCHANGED <<callVars, queue, inflight, fresh, up, revoked, slotVars, posted, stopped, trouble>>

PollWaitOver(a, p) ==
  /\ polls[a][p].at = "wait"
  /\ Set(a, p, [polls[a][p] EXCEPT !.at = "respond"])
  /\ UNCHANGED <<callVars, proberVars, slotVars, posted, stopped, trouble>>

HungUp(a, p) ==
  /\ polls[a][p].at = "wait" /\ ~polls[a][p].live
  /\ Set(a, p, Gone) /\ fresh' = [fresh EXCEPT ![a] = FALSE]
  /\ UNCHANGED <<callVars, queue, inflight, wake, up, revoked, slotVars, posted, stopped, trouble>>

\* respond: the agent, if it listens still, starts what it was given.
Respond(a, p) ==
  /\ polls[a][p].at = "respond"
  /\ Set(a, p, Gone) /\ fresh' = [fresh EXCEPT ![a] = TRUE]
  /\ probing' = [probing EXCEPT ![a] = IF polls[a][p].live THEN @ \cup polls[a][p].tasks ELSE @]
  /\ UNCHANGED <<posting, callVars, queue, inflight, wake, up, revoked, posted, stopped, trouble>>

-----------------------------------------------------------------------------
(* Results *)

\* Agent.run: the probe is over and its result is posted.
Post(a, t) ==
  /\ t \in probing[a] /\ probing' = [probing EXCEPT ![a] = @ \ {t}]
  /\ posting' = [posting EXCEPT ![a] = @ \cup {t}]
  /\ posted' = [posted EXCEPT ![a] = @ \cup {t}]
  /\ UNCHANGED <<callVars, proberVars, polls, stopped, trouble>>

\* post returns, answered or not, and the slot is free.
PostReturns(a, t) ==
  /\ t \in posting[a] /\ posting' = [posting EXCEPT ![a] = @ \ {t}]
  /\ UNCHANGED <<callVars, proberVars, polls, probing, posted, stopped, trouble>>

Fails(ts) == done' = [t \in Task |-> IF t \in ts THEN done[t] + 1 ELSE done[t]]

\* serveResults: what the agent was not given, or is dropped, is ignored.
ServeResults(a, t) ==
  /\ t \in posted[a] /\ posted' = [posted EXCEPT ![a] = @ \ {t}]
  /\ IF a \in revoked THEN UNCHANGED <<done, inflight, fresh>>
     ELSE /\ fresh' = [fresh EXCEPT ![a] = TRUE]
          /\ Fails({t} \cap inflight[a])
          /\ inflight' = [inflight EXCEPT ![a] = @ \ {t}]
  /\ UNCHANGED <<call, given, queue, wake, up, revoked, polls, slotVars, stopped, trouble>>

-----------------------------------------------------------------------------
(* Reaping, stop and troubles *)

Once(b) == IF b THEN 1 ELSE 0

\* failLocked: one outcome for each task in the queue, one for each in flight.
FailAll(as) ==
  /\ done' = [t \in Task |-> done[t] + Once(\E a \in as : t \in queue[a])
                                     + Once(\E a \in as : t \in inflight[a])]
  /\ queue' = [a \in Agent |-> IF a \in as THEN {} ELSE queue[a]]
  /\ inflight' = [a \in Agent |-> IF a \in as THEN {} ELSE inflight[a]]

\* reap
Reap(a) ==
  /\ up[a] /\ ~Usable(a)
  /\ up' = [up EXCEPT ![a] = FALSE] /\ FailAll({a})
  /\ UNCHANGED <<call, given, wake, fresh, revoked, polls, slotVars, posted, stopped, trouble>>

\* Stop fails every task and ends the polls that wait, unanswered.
Stop ==
  /\ ~stopped /\ stopped' = TRUE /\ FailAll(Agent)
  /\ UNCHANGED <<call, given, wake, fresh, up, revoked, polls, slotVars, posted, trouble>>

PollStopped(a, p) ==
  /\ polls[a][p].at = "wait" /\ stopped /\ Set(a, p, Gone)
  /\ UNCHANGED <<callVars, proberVars, slotVars, posted, stopped, trouble>>

\* max_age has passed since the agent called.
Ages(a) ==
  /\ fresh[a] /\ fresh' = [fresh EXCEPT ![a] = FALSE] /\ Trouble
  /\ UNCHANGED <<callVars, queue, inflight, wake, up, revoked, polls, slotVars, posted, stopped>>

\* reloadCRL
Revoke(a) ==
  /\ a \notin revoked /\ Trouble /\ revoked' = revoked \cup {a}
  /\ UNCHANGED <<callVars, queue, inflight, wake, fresh, up, polls, slotVars, posted, stopped>>

\* The agent gives its poll up, and the controller may not notice.
PollLost(a, p) ==
  /\ polls[a][p].live /\ Trouble /\ Set(a, p, [polls[a][p] EXCEPT !.live = FALSE])
  /\ UNCHANGED <<callVars, proberVars, slotVars, posted, stopped>>

PostLost(a, t) ==
  /\ t \in posted[a] /\ Trouble /\ posted' = [posted EXCEPT ![a] = @ \ {t}]
  /\ UNCHANGED <<callVars, proberVars, polls, slotVars, stopped>>

Crash(a) ==
  /\ Trouble /\ probing' = [probing EXCEPT ![a] = {}] /\ posting' = [posting EXCEPT ![a] = {}]
  /\ polls' = [polls EXCEPT ![a] = [p \in Poll |-> [polls[a][p] EXCEPT !.live = FALSE]]]
  /\ UNCHANGED <<callVars, proberVars, posted, stopped>>

-----------------------------------------------------------------------------

AgentsNext ==
  \/ \E t \in Task : Reserve(t) \/ Delayed(t) \/ Answered(t) \/ GiveUp(t)
  \/ \E a \in Agent :
       \/ Reap(a) \/ Ages(a) \/ Revoke(a) \/ Crash(a)
       \/ \E p \in Poll : \/ PollStart(a, p) \/ Take(a, p) \/ Woken(a, p) \/ PollWaitOver(a, p)
                          \/ HungUp(a, p) \/ Respond(a, p) \/ PollLost(a, p) \/ PollStopped(a, p)
       \/ \E t \in Task : Post(a, t) \/ PostReturns(a, t) \/ ServeResults(a, t) \/ PostLost(a, t)
  \/ Stop

AgentsSpec == AgentsInit /\ [][AgentsNext]_agentsVars

-----------------------------------------------------------------------------

\* A Probe call that waits has its one outcome in the channel, or its task is
\* with its agent, queued or in flight, where a result, reap, Stop or its own
\* deadline finds it; never both, and never a second outcome, which would block
\* whoever sends it while it holds the prober's lock (failLocked, serveResults).
OneAnswer ==
  \A t \in Task :
    /\ done[t] <= 1
    /\ call[t] = "waiting" =>
         (done[t] = 0 <=> \E a \in given[t] : t \in queue[a] \cup inflight[a])

\* The inductive form: a task that an agent holds is one that its call waits
\* for, given to this agent and to no other, either queued or in flight, and
\* without an outcome.
Work(a) == queue[a] \cup inflight[a]
HeldOnce ==
  /\ call \in [Task -> {"new", "delayed", "waiting", "over"}]
  /\ given \in [Task -> SUBSET Agent] /\ done \in [Task -> {0, 1}]
  /\ queue \in [Agent -> SUBSET Task] /\ inflight \in [Agent -> SUBSET Task]
  /\ \A a \in Agent : queue[a] \cap inflight[a] = {}
  /\ \A a \in Agent : \A t \in Work(a) : given[t] = {a} /\ call[t] = "waiting" /\ done[t] = 0
  /\ \A t \in Task :
       /\ call[t] \in {"new", "delayed"} => done[t] = 0
       /\ call[t] = "delayed" => \E a \in Agent : given[t] = {a}
       /\ call[t] = "waiting" /\ done[t] = 0 => \E a \in given[t] : t \in Work(a)
=============================================================================
