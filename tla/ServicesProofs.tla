--------------------------- MODULE ServicesProofs ---------------------------
(***************************************************************************)
(* The services around the core: the remote agents, the plugins, and the   *)
(* RIB view with its snapshot and its sessions.                            *)
(*                                                                         *)
(* Every Probe call gets at most one outcome, for every number of agents,  *)
(* tasks, polls and slots and any amount of trouble.  The inductive        *)
(* invariant is HeldOnce; most actions change nothing it mentions.         *)
(*                                                                         *)
(* No process of a plugin is ever without an owner, and none outlives the  *)
(* loop, for any number of processes, callers and mishaps.  Owned, the     *)
(* inductive invariant, says where the loop can be with which processes.   *)
(*                                                                         *)
(* The snapshot of the RIB view is current whenever it is used, for every  *)
(* set of prefixes, every limit of the dirty set and every interleaving of *)
(* writers with a refresh.                                                 *)
(*                                                                         *)
(* A session that the view dropped stays down, for every set of neighbors, *)
(* of calls and of their interleavings.  LinkInv, the inductive invariant, *)
(* relates the sessions, their queued events and the calls under way.      *)
(***************************************************************************)
EXTENDS Agents, Supervisor, Rib, TLAPS

-----------------------------------------------------------------------------
(* Agents. *)

\* What HeldOnce is about.
heldVars == <<call, given, done, queue, inflight>>

\* Steps of the agents, the polls and the network do not touch the tasks.
LEMMA QuietKeeps == ASSUME HeldOnce, UNCHANGED heldVars PROVE HeldOnce'
  BY DEF HeldOnce, Work, heldVars

\* reserve and the end of its delay: a task is queued once, with the agent it
\* was given to.
LEMMA EnqueueKeeps ==
  ASSUME HeldOnce, NEW t \in Task, NEW a \in Agent, call[t] \in {"new", "delayed"},
         Enqueue(t, a), given' = [given EXCEPT ![t] = {a}], UNCHANGED <<done, inflight>>
  PROVE  HeldOnce'
<1>1. /\ call' \in [Task -> {"new", "delayed", "waiting", "over"}]
      /\ given' \in [Task -> SUBSET Agent] /\ done' \in [Task -> {0, 1}]
      /\ queue' \in [Agent -> SUBSET Task] /\ inflight' \in [Agent -> SUBSET Task]
  BY DEF HeldOnce, Enqueue, Go
<1>2. \A b \in Agent : t \notin Work(b)
  BY Zenon DEF HeldOnce
<1>3. \A b \in Agent : Work(b)' = IF b = a THEN Work(b) \cup {t} ELSE Work(b)
  BY DEF HeldOnce, Enqueue, Work
<1>4. /\ \A u \in Task \ {t} : call'[u] = call[u] /\ given'[u] = given[u] /\ done'[u] = done[u]
      /\ call'[t] = "waiting" /\ given'[t] = {a} /\ done'[t] = 0
  BY DEF HeldOnce, Enqueue, Go
<1>apart. \A b \in Agent : queue'[b] \cap inflight'[b] = {}
  BY <1>2 DEF HeldOnce, Enqueue, Work
<1>5. \A b \in Agent : \A u \in Work(b)' : given'[u] = {b} /\ call'[u] = "waiting" /\ done'[u] = 0
  <2> TAKE b \in Agent
  <2> TAKE u \in Work(b)'
  <2>1. CASE u = t
    BY <2>1, <1>2, <1>3, <1>4, Zenon
  <2>2. CASE u # t
    BY <2>2, <1>3, <1>4 DEF HeldOnce, Work
  <2> QED BY <2>1, <2>2, Zenon
<1>6. ASSUME NEW u \in Task
      PROVE  /\ call'[u] \in {"new", "delayed"} => done'[u] = 0
             /\ call'[u] = "delayed" => \E b \in Agent : given'[u] = {b}
             /\ call'[u] = "waiting" /\ done'[u] = 0 => \E b \in given'[u] : u \in Work(b)'
  <2>1. CASE u = t
    BY <2>1, <1>3, <1>4, Zenon
  <2>2. CASE u # t
    BY <2>2, <1>3, <1>4 DEF HeldOnce
  <2> QED BY <2>1, <2>2, Zenon
<1> QED
  BY <1>apart, <1>1, <1>5, <1>6, Zenon DEF HeldOnce, Work

\* A call that ends without having been queued, is answered or gives up leaves
\* no task behind.
LEMMA EndKeeps ==
  ASSUME HeldOnce, NEW t \in Task, Go(t, "over"), UNCHANGED given,
         done' \in [Task -> {0, 1}], \A u \in Task \ {t} : done'[u] = done[u],
         queue' = [a \in Agent |-> queue[a] \ {t}], inflight' = [a \in Agent |-> inflight[a] \ {t}]
  PROVE  HeldOnce'
<1>1. /\ call' \in [Task -> {"new", "delayed", "waiting", "over"}]
      /\ given' \in [Task -> SUBSET Agent]
      /\ queue' \in [Agent -> SUBSET Task] /\ inflight' \in [Agent -> SUBSET Task]
  BY Zenon DEF HeldOnce, Go
<1>apart. \A b \in Agent : queue'[b] \cap inflight'[b] = {}
  BY Zenon DEF HeldOnce
<1>2. \A b \in Agent : Work(b)' = Work(b) \ {t}
  BY Zenon DEF HeldOnce, Work
<1>3. call'[t] = "over" /\ \A u \in Task \ {t} : call'[u] = call[u] /\ given'[u] = given[u]
  BY DEF HeldOnce, Go
<1>4. \A b \in Agent : \A u \in Work(b)' : given'[u] = {b} /\ call'[u] = "waiting" /\ done'[u] = 0
  BY <1>2, <1>3 DEF HeldOnce, Work
<1>5. ASSUME NEW u \in Task
      PROVE  /\ call'[u] \in {"new", "delayed"} => done'[u] = 0
             /\ call'[u] = "delayed" => \E b \in Agent : given'[u] = {b}
             /\ call'[u] = "waiting" /\ done'[u] = 0 => \E b \in given'[u] : u \in Work(b)'
  <2>1. CASE u = t
    BY <2>1, <1>3, Zenon
  <2>2. CASE u # t
    BY <2>2, <1>2, <1>3 DEF HeldOnce
  <2> QED BY <2>1, <2>2, Zenon
<1> QED
  BY <1>apart, <1>1, <1>4, <1>5, Zenon DEF HeldOnce, Work

\* Outcomes are sent for tasks that some agent holds, and those are taken from
\* it in the same step (failLocked, serveResults).
LEMMA FailKeeps ==
  ASSUME HeldOnce, NEW S \in [Agent -> SUBSET Task], UNCHANGED <<call, given>>,
         \A a \in Agent : S[a] \subseteq Work(a),
         done' = [t \in Task |-> IF \E a \in Agent : t \in S[a] THEN done[t] + 1 ELSE done[t]],
         queue' = [a \in Agent |-> queue[a] \ S[a]],
         inflight' = [a \in Agent |-> inflight[a] \ S[a]]
  PROVE  HeldOnce'
<1>1. \A a \in Agent : Work(a)' = Work(a) \ S[a]
  BY Zenon DEF HeldOnce, Work
<1>2. \A t \in Task : done'[t] = IF \E a \in Agent : t \in S[a] THEN 1 ELSE done[t]
  <2> TAKE t \in Task
  <2>1. CASE \E a \in Agent : t \in S[a]
    <3>1. done[t] = 0
      BY <2>1, Zenon DEF HeldOnce
    <3> QED BY <2>1, <3>1
  <2>2. CASE ~\E a \in Agent : t \in S[a]
    BY <2>2, Zenon
  <2> QED BY <2>1, <2>2, Zenon
<1>3. /\ done' \in [Task -> {0, 1}]
      /\ queue' \in [Agent -> SUBSET Task] /\ inflight' \in [Agent -> SUBSET Task]
      /\ \A a \in Agent : queue'[a] \cap inflight'[a] = {}
  BY <1>2, Zenon DEF HeldOnce
<1>4. ASSUME NEW a \in Agent, NEW b \in Agent, NEW t \in Work(a), t \in Work(b)
      PROVE  a = b
  <2>1. given[t] = {a} /\ given[t] = {b}
    BY <1>4, Zenon DEF HeldOnce
  <2> QED BY <2>1, Zenon
<1>5. \A a \in Agent : \A t \in Work(a)' : given'[t] = {a} /\ call'[t] = "waiting" /\ done'[t] = 0
  <2> TAKE a \in Agent
  <2> TAKE t \in Work(a)'
  <2>1. t \in Work(a) /\ t \notin S[a] /\ t \in Task
    BY <1>1, Zenon DEF HeldOnce, Work
  <2>2. ~\E b \in Agent : t \in S[b]
    BY <2>1, <1>4, Zenon
  <2> QED BY <2>1, <2>2, <1>2, Zenon DEF HeldOnce
<1>6. ASSUME NEW t \in Task
      PROVE  /\ call'[t] \in {"new", "delayed"} => done'[t] = 0
             /\ call'[t] = "delayed" => \E b \in Agent : given'[t] = {b}
             /\ call'[t] = "waiting" /\ done'[t] = 0 => \E b \in given'[t] : t \in Work(b)'
  <2>1. CASE \E a \in Agent : t \in S[a]
    <3>1. call[t] = "waiting" /\ done'[t] = 1
      BY <2>1, <1>2, Zenon DEF HeldOnce
    <3> QED BY <3>1
  <2>2. CASE ~\E a \in Agent : t \in S[a]
    <3>1. done'[t] = done[t] /\ \A b \in Agent : t \in Work(b) => t \in Work(b)'
      BY <2>2, <1>1, <1>2, Zenon
    <3>2. given[t] \subseteq Agent
      BY Zenon DEF HeldOnce
    <3> QED BY <3>1, <3>2, Zenon DEF HeldOnce
  <2> QED BY <2>1, <2>2, Zenon
<1> QED
  BY <1>3, <1>5, <1>6, Zenon DEF HeldOnce, Work

LEMMA AgentsNextKeeps == ASSUME HeldOnce, AgentsNext PROVE HeldOnce'
<1>1. ASSUME NEW t \in Task, Reserve(t) PROVE HeldOnce'
  <2>1. CASE Go(t, "over") /\ UNCHANGED <<given, queue, wake>>
    <3>1. \A a \in Agent : t \notin queue[a] /\ t \notin inflight[a]
      BY <1>1, Zenon DEF Reserve, HeldOnce, Work
    <3>2. /\ queue' = [a \in Agent |-> queue[a] \ {t}]
          /\ inflight' = [a \in Agent |-> inflight[a] \ {t}]
      BY <1>1, <2>1, <3>1 DEF Reserve, HeldOnce
    <3> QED BY <1>1, <2>1, <3>2, EndKeeps, Zenon DEF Reserve, HeldOnce
  <2>2. ASSUME NEW a \in Agent, given' = [given EXCEPT ![t] = {a}],
               Go(t, "delayed"), UNCHANGED <<queue, wake>>
        PROVE  HeldOnce'
    <3>1. call[t] = "new" /\ UNCHANGED <<done, inflight>>
      BY <1>1, Zenon DEF Reserve
    <3>2. \A b \in Agent : t \notin Work(b) /\ Work(b)' = Work(b)
      BY <2>2, <3>1, Zenon DEF HeldOnce, Work
    <3>3. /\ call' \in [Task -> {"new", "delayed", "waiting", "over"}]
          /\ given' \in [Task -> SUBSET Agent] /\ done' \in [Task -> {0, 1}]
          /\ queue' \in [Agent -> SUBSET Task] /\ inflight' \in [Agent -> SUBSET Task]
          /\ \A b \in Agent : queue'[b] \cap inflight'[b] = {}
      BY <2>2, <3>1 DEF HeldOnce, Go
    <3>4. /\ \A u \in Task \ {t} : call'[u] = call[u] /\ given'[u] = given[u]
          /\ call'[t] = "delayed" /\ given'[t] = {a} /\ done' = done /\ done[t] = 0
      BY <2>2, <3>1 DEF HeldOnce, Go
    <3>5. \A b \in Agent : \A u \in Work(b)' : given'[u] = {b} /\ call'[u] = "waiting" /\ done'[u] = 0
      BY <3>2, <3>4 DEF HeldOnce, Work
    <3>6. ASSUME NEW u \in Task
          PROVE  /\ call'[u] \in {"new", "delayed"} => done'[u] = 0
                 /\ call'[u] = "delayed" => \E b \in Agent : given'[u] = {b}
                 /\ call'[u] = "waiting" /\ done'[u] = 0 => \E b \in given'[u] : u \in Work(b)'
      <4>1. CASE u = t
        BY <4>1, <3>4, Zenon
      <4>2. CASE u # t
        BY <4>2, <3>2, <3>4 DEF HeldOnce
      <4> QED BY <4>1, <4>2, Zenon
    <3> QED BY <3>3, <3>5, <3>6, Zenon DEF HeldOnce, Work
  <2>3. ASSUME NEW a \in Agent, given' = [given EXCEPT ![t] = {a}], Enqueue(t, a) PROVE HeldOnce'
    BY <1>1, <2>3, EnqueueKeeps, Zenon DEF Reserve
  <2> QED BY <1>1, <2>1, <2>2, <2>3, AgentsAssumption, Zenon DEF Reserve
<1>2. ASSUME NEW t \in Task, Delayed(t) PROVE HeldOnce'
  <2>1. PICK a \in given[t] :
          IF Usable(a) THEN Enqueue(t, a) ELSE Go(t, "over") /\ UNCHANGED <<queue, wake>>
    BY <1>2, Zenon DEF Delayed
  <2>2. call[t] = "delayed" /\ UNCHANGED <<given, done, inflight>>
    BY <1>2, Zenon DEF Delayed
  <2>3. a \in Agent /\ given[t] = {a} /\ given = [given EXCEPT ![t] = {a}]
    BY <2>2 DEF HeldOnce
  <2>4. CASE Usable(a)
    BY <2>1, <2>2, <2>3, <2>4, EnqueueKeeps, Zenon
  <2>5. CASE ~Usable(a)
    <3>1. \A b \in Agent : t \notin queue[b] /\ t \notin inflight[b]
      BY <2>2, Zenon DEF HeldOnce, Work
    <3>2. /\ queue' = [b \in Agent |-> queue[b] \ {t}]
          /\ inflight' = [b \in Agent |-> inflight[b] \ {t}]
      BY <2>1, <2>2, <2>5, <3>1 DEF HeldOnce
    <3> QED BY <2>1, <2>2, <2>5, <3>2, EndKeeps, Zenon DEF HeldOnce
  <2> QED BY <2>4, <2>5, Zenon
<1>3. ASSUME NEW t \in Task, Answered(t) PROVE HeldOnce'
  <2>1. \A a \in Agent : t \notin queue[a] /\ t \notin inflight[a]
    BY <1>3 DEF Answered, HeldOnce, Work
  <2>2. /\ queue' = [a \in Agent |-> queue[a] \ {t}]
        /\ inflight' = [a \in Agent |-> inflight[a] \ {t}]
    BY <1>3, <2>1 DEF Answered, proberVars, HeldOnce
  <2>3. done' \in [Task -> {0, 1}] /\ \A u \in Task \ {t} : done'[u] = done[u]
    BY <1>3 DEF Answered, HeldOnce
  <2> QED BY <1>3, <2>2, <2>3, EndKeeps, Zenon DEF Answered
<1>4. ASSUME NEW t \in Task, GiveUp(t) PROVE HeldOnce'
  BY <1>4, EndKeeps, Zenon DEF GiveUp, HeldOnce
<1>5. ASSUME NEW a \in Agent, NEW p \in Poll, Take(a, p) PROVE HeldOnce'
  <2>1. PICK ts \in SUBSET queue[a] :
          /\ queue' = [queue EXCEPT ![a] = @ \ ts]
          /\ inflight' = [inflight EXCEPT ![a] = @ \cup ts]
    BY <1>5, Zenon DEF Take
  <2>2. \A b \in Agent : Work(b)' = Work(b)
    BY <2>1 DEF HeldOnce, Work
  <2>3. /\ queue' \in [Agent -> SUBSET Task] /\ inflight' \in [Agent -> SUBSET Task]
        /\ \A b \in Agent : queue'[b] \cap inflight'[b] = {}
    BY <2>1 DEF HeldOnce
  <2>4. UNCHANGED <<call, given, done>>
    BY <1>5, Zenon DEF Take, callVars
  <2>5. ASSUME NEW t \in Task, call[t] = "waiting", done[t] = 0
        PROVE  \E b \in given[t] : t \in Work(b)'
    BY <2>2, <2>5 DEF HeldOnce
  <2> QED BY <2>2, <2>3, <2>4, <2>5 DEF HeldOnce, Work
<1>6. ASSUME NEW a \in Agent, NEW t \in Task, ServeResults(a, t) PROVE HeldOnce'
  <2>1. CASE a \in revoked
    BY <1>6, <2>1, QuietKeeps, Zenon DEF ServeResults, heldVars
  <2>2. CASE a \notin revoked
    <3> DEFINE S == [b \in Agent |-> IF b = a THEN {t} \cap inflight[a] ELSE {}]
    <3>1. S \in [Agent -> SUBSET Task] /\ \A b \in Agent : S[b] \subseteq Work(b)
      BY Zenon DEF HeldOnce, Work
    <3>2. \A u \in Task : u \in {t} \cap inflight[a] <=> \E b \in Agent : u \in S[b]
      BY Zenon
    <3>3. done' = [u \in Task |-> IF \E b \in Agent : u \in S[b] THEN done[u] + 1 ELSE done[u]]
      <4>1. done' = [u \in Task |-> IF u \in {t} \cap inflight[a] THEN done[u] + 1 ELSE done[u]]
        BY <1>6, <2>2, Zenon DEF ServeResults, Fails
      <4> HIDE DEF S
      <4> QED BY <4>1, <3>2, Zenon
    <3>4. /\ queue' = [b \in Agent |-> queue[b] \ S[b]]
          /\ inflight' = [b \in Agent |-> inflight[b] \ S[b]]
      BY <1>6, <2>2 DEF ServeResults, HeldOnce
    <3>5. UNCHANGED <<call, given>>
      BY <1>6, Zenon DEF ServeResults
    <3> HIDE DEF S
    <3> QED BY <3>1, <3>3, <3>4, <3>5, FailKeeps, Zenon
  <2> QED BY <2>1, <2>2, Zenon
<1>7. ASSUME NEW as \in SUBSET Agent, FailAll(as), UNCHANGED <<call, given>> PROVE HeldOnce'
  <2> DEFINE S == [b \in Agent |-> IF b \in as THEN Work(b) ELSE {}]
  <2>1. S \in [Agent -> SUBSET Task] /\ \A b \in Agent : S[b] \subseteq Work(b)
    BY Zenon DEF HeldOnce, Work
  <2> DEFINE Q(u) == \E a \in as : u \in queue[a]
             F(u) == \E a \in as : u \in inflight[a]
  <2>2. ASSUME NEW u \in Task
        PROVE  done[u] + Once(Q(u)) + Once(F(u))
                 = IF \E b \in Agent : u \in S[b] THEN done[u] + 1 ELSE done[u]
    <3>1. done[u] \in {0, 1}
      BY Zenon DEF HeldOnce
    <3>2. CASE \E b \in Agent : u \in S[b]
      <4>1. PICK b \in as : u \in Work(b)
        BY <3>2, Zenon
      <4>2. ASSUME NEW a \in as, u \in Work(a) PROVE a = b
        <5>1. given[u] = {a} /\ given[u] = {b}
          BY <1>7, <4>1, <4>2, Zenon DEF HeldOnce
        <5> QED BY <5>1
      <4>3. (Q(u) /\ ~F(u)) \/ (~Q(u) /\ F(u))
        BY <4>1, <4>2, Zenon DEF HeldOnce, Work
      <4>4. (Once(Q(u)) = 1 /\ Once(F(u)) = 0) \/ (Once(Q(u)) = 0 /\ Once(F(u)) = 1)
        BY <4>3, Zenon DEF Once
      <4> HIDE DEF Q, F, S
      <4> QED BY <3>1, <3>2, <4>4
    <3>3. CASE ~\E b \in Agent : u \in S[b]
      <4>1. ~Q(u) /\ ~F(u)
        BY <3>3, Zenon DEF Work
      <4>2. Once(Q(u)) = 0 /\ Once(F(u)) = 0
        BY <4>1, Zenon DEF Once
      <4> HIDE DEF Q, F, S
      <4> QED BY <3>1, <3>3, <4>2
    <3> QED BY <3>2, <3>3, Zenon
  <2>3. done' = [u \in Task |-> IF \E b \in Agent : u \in S[b] THEN done[u] + 1 ELSE done[u]]
    <3>1. done' = [u \in Task |-> done[u] + Once(Q(u)) + Once(F(u))]
      BY <1>7, Zenon DEF FailAll
    <3> HIDE DEF Q, F, S
    <3> QED BY <2>2, <3>1, Zenon
  <2>4. /\ queue' = [b \in Agent |-> queue[b] \ S[b]]
        /\ inflight' = [b \in Agent |-> inflight[b] \ S[b]]
    <3>1. \A b \in Agent : /\ (IF b \in as THEN {} ELSE queue[b]) = queue[b] \ S[b]
                           /\ (IF b \in as THEN {} ELSE inflight[b]) = inflight[b] \ S[b]
      BY Zenon DEF Work
    <3> HIDE DEF S
    <3> QED BY <1>7, <3>1, Zenon DEF FailAll
  <2> HIDE DEF S
  <2> QED BY <1>7, <2>1, <2>3, <2>4, FailKeeps, Zenon
<1>8. ASSUME NEW a \in Agent, Reap(a) PROVE HeldOnce'
  BY <1>7, <1>8, Zenon DEF Reap
<1>9. CASE Stop
  BY <1>7, <1>9, Zenon DEF Stop
<1>10. ASSUME NEW a \in Agent, NEW p \in Poll,
              \/ PollStart(a, p) \/ Woken(a, p) \/ PollWaitOver(a, p) \/ HungUp(a, p)
              \/ Respond(a, p) \/ PollLost(a, p) \/ PollStopped(a, p)
       PROVE  HeldOnce'
  <2>1. UNCHANGED heldVars
    BY <1>10, Zenon DEF PollStart, Woken, PollWaitOver, HungUp, Respond, PollLost, PollStopped,
                 heldVars, callVars, proberVars
  <2> QED BY <2>1, QuietKeeps, Zenon
<1>11. ASSUME NEW a \in Agent, NEW t \in Task,
              Post(a, t) \/ PostReturns(a, t) \/ PostLost(a, t)
       PROVE  HeldOnce'
  <2>1. UNCHANGED heldVars
    BY <1>11, Zenon DEF Post, PostReturns, PostLost, heldVars, callVars, proberVars
  <2> QED BY <2>1, QuietKeeps, Zenon
<1>12. ASSUME NEW a \in Agent, Ages(a) \/ Revoke(a) \/ Crash(a) PROVE HeldOnce'
  <2>1. UNCHANGED heldVars
    BY <1>12, Zenon DEF Ages, Revoke, Crash, heldVars, callVars, proberVars
  <2> QED BY <2>1, QuietKeeps, Zenon
<1> QED
  BY <1>1, <1>2, <1>3, <1>4, <1>5, <1>6, <1>8, <1>9, <1>10, <1>11, <1>12, Zenon DEF AgentsNext

\* Whatever agents crash, polls are given up, results are late or lost and
\* calls time out, a task is held by its agent until it has its outcome.
THEOREM HeldOnceInvariant == AgentsSpec => []HeldOnce
<1>1. AgentsInit => HeldOnce
  BY Zenon DEF AgentsInit, HeldOnce, Work
<1>2. HeldOnce /\ [AgentsNext]_agentsVars => HeldOnce'
  <2> SUFFICES ASSUME HeldOnce, [AgentsNext]_agentsVars PROVE HeldOnce'
    BY Zenon
  <2>1. CASE AgentsNext
    BY <2>1, AgentsNextKeeps, Zenon
  <2>2. CASE UNCHANGED agentsVars
    <3>1. UNCHANGED heldVars
      BY <2>2, Zenon DEF agentsVars, callVars, proberVars, heldVars
    <3> QED BY <3>1, QuietKeeps, Zenon
  <2> QED BY <2>1, <2>2, Zenon
<1> QED
  BY <1>1, <1>2, PTL DEF AgentsSpec

\* A Probe call never gets a second outcome, and one that waits has either its
\* outcome or its task with its agent: no answer is lost for ever and no sender
\* blocks under the prober's lock.
THEOREM EveryCallOneAnswer == AgentsSpec => []OneAnswer
<1>1. HeldOnce => OneAnswer
  <2> SUFFICES ASSUME HeldOnce, NEW t \in Task
               PROVE  /\ done[t] <= 1
                      /\ call[t] = "waiting" =>
                           (done[t] = 0 <=> \E a \in given[t] : t \in queue[a] \cup inflight[a])
    BY Zenon DEF OneAnswer
  <2>1. done[t] \in {0, 1} /\ given[t] \subseteq Agent
    BY Zenon DEF HeldOnce
  <2> QED BY <2>1 DEF HeldOnce, Work
<1> QED
  BY <1>1, HeldOnceInvariant, PTL

-----------------------------------------------------------------------------
(* Supervisor. *)

\* A call does not touch what the loop and the host hold.
LEMMA CallKeeps ==
  ASSUME Owned, NEW c \in Caller, CallBegins(c) \/ CallReturns(c)
  PROVE  Owned'
  BY DEF Owned, Held, CallBegins, CallReturns

\* markDown moves the process in service to the dead ones, or does nothing.
LEMMA MarkDownKeeps ==
  ASSUME Owned, NEW l \in Proc, markDown(l), inCall' \in [Caller -> Proc \cup {None}],
         UNCHANGED <<proc, sup, host, loop>>
  PROVE  Owned'
<1>1. CASE cur = l
  <2>1. loop.at \notin {"none", "restart", "launch", "ending"} /\ ~(loop.at = "wait" /\ loop.down)
    BY <1>1, NoneAssumption, Zenon DEF Owned
  <2>2. Held \subseteq Held'
    BY <1>1, Zenon DEF markDown, Held
  <2>3. cur' = None /\ dead' = dead \cup {l}
    BY <1>1, Zenon DEF markDown
  <2>4. loop.at = "health" => loop.p \in {cur'} \cup dead'
    BY <1>1, <2>3, Zenon DEF Owned
  <2> QED BY <2>1, <2>2, <2>3, <2>4, ZenonT(60) DEF Owned
<1>2. CASE cur # l
  BY <1>2, SMTT(60) DEF markDown, Owned, Held
<1> QED BY <1>1, <1>2, Zenon

LEMMA HostKeeps ==
  ASSUME Owned,
         \/ Started \/ StartFails \/ StopPlugin \/ StopReturns
         \/ \E p \in Proc : StartPlugin(p)
  PROVE  Owned'
<1>1. ASSUME NEW p \in Proc, StartPlugin(p) PROVE Owned'
  BY <1>1, SMTT(60) DEF Owned, Held, StartPlugin, Launch
<1>2. CASE Started
  <2>1. /\ cur = None /\ dead = {} /\ loop.p = None /\ loop.stops = {} /\ loop.at = "none"
        /\ host.p \in Proc \cup {None}
    BY <1>2, Zenon DEF Owned, Started
  <2>2. /\ loop'.at = "top" /\ loop'.p = None /\ loop'.stops = {}
        /\ loop' \in [at : {"none", "top", "reap", "wait", "check", "health", "restart", "launch",
                             "end", "ending"},
                       down : BOOLEAN, p : Proc \cup {None}, stops : SUBSET Proc]
    BY <1>2, Zenon DEF Owned, Started, Looping
  <2>3. cur' = host.p /\ dead' = {} /\ host'.p = None /\ host'.at = "idle" /\ UNCHANGED inCall
    BY <1>2, <2>1, Zenon DEF Started
  <2>4. \A p \in Proc : proc[p] # "gone" => p = host.p
    BY <2>1, NoneAssumption, Zenon DEF Owned, Held
  <2>5. proc' \in [Proc -> {"starting", "ok", "hung", "exited", "gone"}] /\ \A p \in Proc : p # host.p => proc'[p] = proc[p]
    BY <1>2 DEF Owned, Started, Is
  <2>6. \A p \in Proc : proc'[p] # "gone" => p \in Held'
    BY <2>3, <2>4, <2>5, Zenon DEF Held
  <2>7. sup' = [on |-> TRUE, cancelled |-> FALSE, done |-> "open"] /\ host' = [at |-> "idle", p |-> None]
    BY <1>2, Zenon DEF Started
  <2> QED BY <2>1, <2>2, <2>3, <2>5, <2>6, <2>7, Zenon DEF Owned
<1>3. CASE StartFails
  <2>1. host' = [at |-> "idle", p |-> None] /\ UNCHANGED <<cur, dead, sup, loop, inCall>>
    BY <1>3, Zenon DEF StartFails
  <2>2. /\ proc' \in [Proc -> {"starting", "ok", "hung", "exited", "gone"}]
        /\ \A p \in Proc : proc'[p] = IF p = host.p THEN "gone" ELSE proc[p]
    BY <1>3 DEF Owned, StartFails, Is
  <2>3. \A p \in Proc : proc'[p] # "gone" => p \in Held'
    BY <2>1, <2>2, Zenon DEF Owned, Held
  <2> QED BY <1>3, <2>1, <2>2, <2>3, SMTT(60) DEF Owned, StartFails
<1>4. CASE StopPlugin
  BY <1>4, ZenonT(60) DEF Owned, Held, StopPlugin
<1>5. CASE StopReturns
  BY <1>5 DEF Owned, Held, StopReturns
<1> QED BY <1>1, <1>2, <1>3, <1>4, <1>5, Zenon

LEMMA LoopKeeps == ASSUME Owned, LoopStep PROVE Owned'
<1>1. CASE Top
  BY <1>1, Zenon DEF Owned, Held, Top
<1>2. CASE Reaped
  BY <1>2, Zenon DEF Owned, Held, Reaped
<1>3. CASE Wait
  BY <1>3, Zenon DEF Owned, Held, Wait
<1>4. CASE Check
  <2>1. /\ proc' \in [Proc -> {"starting", "ok", "hung", "exited", "gone"}]
        /\ \A p \in Proc : proc'[p] # "gone" => p \in Held'
    BY <1>4 DEF Owned, Held, Check, Looping
  <2> QED BY <1>4, <2>1, Zenon DEF Owned, Check, Looping
<1>5. CASE Health
  <2>2. /\ loop'.at = "top" /\ loop'.p = None /\ loop'.stops = {}
        /\ loop' \in [at : {"none", "top", "reap", "wait", "check", "health", "restart", "launch",
                             "end", "ending"},
                       down : BOOLEAN, p : Proc \cup {None}, stops : SUBSET Proc]
    BY <1>5, Zenon DEF Health, Looping
  <2>1. loop.at = "health" /\ loop.p \in {cur} \cup dead /\ loop.stops = {} /\ UNCHANGED <<proc, sup, host, inCall>>
    BY <1>5, Zenon DEF Owned, Health
  <2>3. \/ UNCHANGED <<cur, dead>>
        \/ cur = loop.p /\ cur' = None /\ dead' = dead \cup {loop.p}
    BY <1>5, Zenon DEF Health, markDown
  <2>4. \A p \in Proc : proc'[p] # "gone" => p \in Held'
    <3>1. Held \subseteq Held' \cup {None}
      BY <2>1, <2>2, <2>3, Zenon DEF Held
    <3> QED BY <3>1, <2>1, NoneAssumption DEF Owned
  <2>5. cur' \in Proc \cup {None} /\ dead' \subseteq Proc
    BY <2>1, <2>3, NoneAssumption, Zenon DEF Owned
  <2> QED BY <2>1, <2>2, <2>4, <2>5, Zenon DEF Owned
<1>6. CASE RestartEarly
  BY <1>6, Zenon DEF Owned, Held, RestartEarly, Looping
<1>7. CASE Restarted
  <2>2. /\ loop'.at = "top" /\ loop'.p = None /\ loop'.stops = {}
        /\ loop' \in [at : {"none", "top", "reap", "wait", "check", "health", "restart", "launch",
                             "end", "ending"},
                       down : BOOLEAN, p : Proc \cup {None}, stops : SUBSET Proc]
    BY <1>7, Zenon DEF Restarted, Looping
  <2>1. loop.at = "launch" /\ cur = None /\ loop.stops = {} /\ UNCHANGED <<sup, host, inCall>>
    BY <1>7, Zenon DEF Owned, Restarted
  <2>3. /\ proc' \in [Proc -> {"starting", "ok", "hung", "exited", "gone"}]
        /\ \A p \in Proc : p # loop.p => proc'[p] = proc[p]
    BY <1>7 DEF Owned, Restarted, Is
  <2>4. \/ dead' = dead \cup {loop.p} /\ cur' = cur
        \/ cur' = loop.p /\ dead' = dead
    BY <1>7, Zenon DEF Restarted
  <2>5. \A p \in Proc : proc'[p] # "gone" => p \in Held'
    BY <2>1, <2>2, <2>3, <2>4, NoneAssumption DEF Owned, Held
  <2> QED BY <2>1, <2>2, <2>3, <2>4, <2>5, Zenon DEF Owned
<1>8. CASE RestartFails
  <2>2. /\ loop'.at = "top" /\ loop'.p = None /\ loop'.stops = {}
        /\ loop' \in [at : {"none", "top", "reap", "wait", "check", "health", "restart", "launch",
                             "end", "ending"},
                       down : BOOLEAN, p : Proc \cup {None}, stops : SUBSET Proc]
    BY <1>8, Zenon DEF RestartFails, Looping
  <2>1. loop.at = "launch" /\ loop.stops = {} /\ UNCHANGED <<cur, dead, sup, host, inCall>>
    BY <1>8, Zenon DEF Owned, RestartFails
  <2>3. /\ proc' \in [Proc -> {"starting", "ok", "hung", "exited", "gone"}]
        /\ \A p \in Proc : proc'[p] = IF p = loop.p THEN "gone" ELSE proc[p]
    BY <1>8 DEF Owned, RestartFails, Is
  <2>4. \A p \in Proc : proc'[p] # "gone" => p \in Held'
    BY <2>1, <2>2, <2>3, Zenon DEF Owned, Held
  <2> QED BY <2>1, <2>2, <2>3, <2>4, Zenon DEF Owned
<1>9. CASE ReapAll
  <2>1. /\ proc' \in [Proc -> {"starting", "ok", "hung", "exited", "gone"}]
        /\ \A p \in Proc : proc'[p] # "gone" => p \in Held'
    BY <1>9, Zenon DEF Owned, Held, ReapAll, Looping
  <2> QED BY <1>9, <2>1, Zenon DEF Owned, ReapAll, Looping
<1>10. CASE Ended
  <2>2. /\ loop'.at = "none" /\ loop'.p = None /\ loop'.stops = {}
        /\ loop' \in [at : {"none", "top", "reap", "wait", "check", "health", "restart", "launch",
                             "end", "ending"},
                       down : BOOLEAN, p : Proc \cup {None}, stops : SUBSET Proc]
    BY <1>10, Zenon DEF Ended, Looping
  <2>1. /\ loop.at = "ending" /\ loop.stops = {} /\ loop.p = None
        /\ UNCHANGED <<proc, cur, dead, host, inCall>>
    BY <1>10, Zenon DEF Owned, Ended
  <2>3. Held' = Held
    BY <2>1, <2>2, Zenon DEF Held
  <2>4. sup' \in [on : BOOLEAN, cancelled : BOOLEAN, done : {"none", "open", "closed"}] /\ sup'.done = "closed"
    BY <1>10, Zenon DEF Owned, Ended
  <2>5. ~sup'.on
    BY <1>10, Zenon DEF Owned, Ended
  <2> QED BY <2>1, <2>2, <2>3, <2>4, <2>5, Zenon DEF Owned
<1>11. ASSUME NEW p \in Proc, StopOne(p) PROVE Owned'
  BY <1>11 DEF Owned, Held, StopOne, Is
<1>12. ASSUME NEW p \in Proc, Restart(p) PROVE Owned'
  <2>2. /\ loop'.at = "launch" /\ loop'.p = p /\ loop'.stops = {}
        /\ loop' \in [at : {"none", "top", "reap", "wait", "check", "health", "restart", "launch",
                             "end", "ending"},
                       down : BOOLEAN, p : Proc \cup {None}, stops : SUBSET Proc]
    BY <1>12, Zenon DEF Restart, Looping
  <2>1. loop.at = "restart" /\ loop.stops = {} /\ loop.p = None /\ UNCHANGED <<cur, dead, sup, host, inCall>>
    BY <1>12, Zenon DEF Owned, Restart
  <2>3. /\ proc' \in [Proc -> {"starting", "ok", "hung", "exited", "gone"}]
        /\ \A q \in Proc : q # p => proc'[q] = proc[q]
    BY <1>12 DEF Owned, Restart, Launch
  <2>4. \A q \in Proc : proc'[q] # "gone" => q \in Held'
    BY <2>1, <2>2, <2>3, NoneAssumption DEF Owned, Held
  <2> QED BY <2>1, <2>2, <2>3, <2>4, Zenon DEF Owned
<1> QED
  BY <1>1, <1>2, <1>3, <1>4, <1>5, <1>6, <1>7, <1>8, <1>9, <1>10, <1>11, <1>12, Zenon DEF LoopStep

LEMMA SupervisorNextKeeps == ASSUME Owned, SupervisorNext PROVE Owned'
<1>1. ASSUME NEW p \in Proc, ProcessFails(p) PROVE Owned'
  BY <1>1 DEF Owned, Held, ProcessFails, Is
<1>2. CASE Due
  BY <1>2 DEF Owned, Held, Due
<1>3. ASSUME NEW c \in Caller, CallUnavailable(c) PROVE Owned'
  <2>1. inCall[c] \in Proc /\ inCall' \in [Caller -> Proc \cup {None}]
    BY <1>3, Zenon DEF CallUnavailable, Owned
  <2> QED BY <1>3, <2>1, MarkDownKeeps, Zenon DEF CallUnavailable
<1> QED
  BY <1>1, <1>2, <1>3, CallKeeps, HostKeeps, LoopKeeps, Zenon DEF SupervisorNext

\* Every process that is there has an owner that will stop it, and none is left
\* once the loop has ended, whatever fails in whatever order.
THEOREM NoProcessLost == SupervisorSpec => []ProcessesOwned
<1>1. SupervisorInit => Owned
  BY DEF SupervisorInit, Owned, Held, Looping
<1>2. Owned /\ [SupervisorNext]_supervisorVars => Owned'
  <2> SUFFICES ASSUME Owned, [SupervisorNext]_supervisorVars PROVE Owned'
    BY Zenon
  <2>1. CASE SupervisorNext
    BY <2>1, SupervisorNextKeeps, Zenon
  <2>2. CASE UNCHANGED supervisorVars
    BY <2>2 DEF supervisorVars, Owned, Held
  <2> QED BY <2>1, <2>2, Zenon
<1>3. Owned => ProcessesOwned
  BY NoneAssumption DEF Owned, Held, ProcessesOwned
<1> QED
  BY <1>1, <1>2, <1>3, PTL DEF SupervisorSpec

-----------------------------------------------------------------------------
(* Snapshot. *)

\* Initially there is no snapshot, no dirty set and no refresh.
LEMMA SnapInitInv == SnapInit => SnapInv
  BY DEF SnapInit, SnapInv, SnapTypeOK, Empty, RouteTable, NoSnap, NoDirty

\* markDirtyLocked, called with the prefixes that a writer changed, keeps
\* the snapshot and the table under construction right outside the dirty set.
LEMMA PublishInv ==
  ASSUME SnapInv, NEW new \in RouteTable, Publish(new)
  PROVE  SnapInv'
<1> DEFINE C == {p \in RPrefix : new[p] # routes[p]}
<1>1. SnapTypeOK'
  <2>1. routes' \in RouteTable /\ reader' = reader
    BY Zenon DEF Publish
  <2>2. CASE UNCHANGED <<snap, dirty>>
    BY <2>1, <2>2, Zenon DEF SnapInv, SnapTypeOK
  <2>3. CASE dirty' = [dirty EXCEPT !.set = @ \cup C] /\ UNCHANGED snap
    BY <2>1, <2>3, Zenon DEF SnapInv, SnapTypeOK
  <2>4. CASE dirty' = NoDirty /\ snap' = NoSnap
    BY <2>1, <2>4, Zenon DEF SnapInv, SnapTypeOK, NoDirty, NoSnap, Empty, RouteTable
  <2> QED
    BY <2>2, <2>3, <2>4, Zenon DEF Publish, MarkDirty
<1>2. CASE C = {} \/ ~dirty.have
  <2>1. ~dirty.have \/ \A p \in RPrefix : new[p] = routes[p]
    BY <1>2, Zenon
  <2>2. UNCHANGED <<snap, dirty, reader>> /\ routes' = new
    BY <1>2, Zenon DEF Publish, MarkDirty
  <2> QED
    BY <1>1, <2>1, <2>2, Zenon DEF SnapInv
<1>3. CASE dirty.have /\ dirty' = [dirty EXCEPT !.set = @ \cup C] /\ UNCHANGED snap
  <2>1. /\ dirty'.have /\ dirty'.set = dirty.set \cup C
        /\ routes' = new /\ UNCHANGED <<snap, reader>>
    BY <1>3, Zenon DEF SnapInv, SnapTypeOK, Publish
  <2>2. \A p \in RPrefix \ dirty'.set : p \in RPrefix \ dirty.set /\ routes'[p] = routes[p]
    BY <2>1, Zenon
  <2> QED
    BY <1>1, <1>3, <2>1, <2>2, Zenon DEF SnapInv
<1>4. CASE dirty' = NoDirty /\ snap' = NoSnap
  BY <1>1, <1>4, Zenon DEF SnapInv, NoDirty, NoSnap
<1> QED
  BY <1>2, <1>3, <1>4, Zenon DEF Publish, MarkDirty

\* Every step of a writer or of a refresh keeps the invariant.
LEMMA SnapStep == SnapInv /\ [SnapNext]_snapVars => SnapInv'
<1> SUFFICES ASSUME SnapInv, [SnapNext]_snapVars PROVE SnapInv'
  BY Zenon
<1>1. ASSUME NEW new \in RouteTable, Publish(new) PROVE SnapInv'
  BY <1>1, PublishInv, Zenon
<1>2. CASE Clear
  BY <1>2, Zenon DEF Clear, SnapInv, SnapTypeOK, NoSnap, NoDirty, Empty, RouteTable
<1>3. CASE Collect
  <2> DEFINE built == [p \in RPrefix |-> IF p \in dirty.set THEN routes[p] ELSE snap.tab[p]]
  <2>1. /\ ~reader.busy
        /\ reader' = [busy |-> TRUE, tab |-> IF snap.have /\ dirty.have THEN built ELSE routes]
        /\ dirty' = [have |-> TRUE, set |-> {}]
        /\ UNCHANGED <<routes, snap>>
    BY <1>3, Zenon DEF Collect, Current
  <2>2. snap.have => \A p \in RPrefix : built[p] = routes[p]
    BY <2>1, Zenon DEF SnapInv
  <2>3. built \in RouteTable
    BY Zenon DEF SnapInv, SnapTypeOK, RouteTable
  <2>4. SnapTypeOK'
    BY <2>1, <2>3, Zenon DEF SnapInv, SnapTypeOK
  <2>5. \A p \in RPrefix : reader'.tab[p] = routes[p]
    BY <2>1, <2>2, Zenon
  <2> QED
    BY <2>1, <2>4, <2>5, Zenon DEF SnapInv
<1>4. CASE Store
  <2>1. SnapTypeOK'
    BY <1>4, Zenon DEF Store, SnapInv, SnapTypeOK
  <2>2. CASE dirty.have
    BY <1>4, <2>1, <2>2, Zenon DEF Store, SnapInv, SnapTypeOK
  <2>3. CASE ~dirty.have
    BY <1>4, <2>1, <2>3, Zenon DEF Store, SnapInv, SnapTypeOK
  <2> QED
    BY <2>2, <2>3, Zenon
<1>5. CASE UNCHANGED snapVars
  BY <1>5, Zenon DEF snapVars, SnapInv, SnapTypeOK, RouteTable
<1> QED
  BY <1>1, <1>2, <1>3, <1>4, <1>5, Zenon DEF SnapNext

\* A snapshot that differs from the published routes only in dirty prefixes
\* is the published table when no prefix is dirty.
LEMMA SnapInvCurrent == SnapInv => SnapshotCurrent
<1> SUFFICES ASSUME SnapInv, Current PROVE snap.tab = routes
  BY Zenon DEF SnapshotCurrent
<1>1. \A p \in RPrefix : snap.tab[p] = routes[p]
  BY Zenon DEF SnapInv, Current
<1>2. snap.tab \in RouteTable /\ routes \in RouteTable
  BY Zenon DEF SnapInv, SnapTypeOK
<1> QED
  BY <1>1, <1>2 DEF RouteTable

\* However writers and refreshes interleave, a reader that takes the
\* snapshot without the view's lock sees the published routes (snapshot()).
THEOREM SnapshotIsCurrent == SnapSpec => []SnapshotCurrent
  BY SnapInitInv, SnapStep, SnapInvCurrent, PTL DEF SnapSpec

-----------------------------------------------------------------------------
(* Sessions and their events. *)

\* What the sessions, their events and the calls under way are kept in.
linkState == <<nbr, sess, evq, op, drop, dropped>>

\* The steps of the BMP station, of a reader of the snapshot and of a reader
\* of capabilities leave it alone.
OtherStep ==
  \/ \E r \in reads : ReadCapability(r)
  \/ Accept \/ Monitor \/ Hangup
  \/ \E i \in DOMAIN conns : Serve(i) \/ ReadMessage(i) \/ EndSession(i) \/ FinishSession(i)
  \/ Refresh

LEMMA OtherUnchanged == ASSUME OtherStep PROVE UNCHANGED linkState
<1>1. CASE \E r \in reads : ReadCapability(r)
  BY <1>1, Zenon DEF ReadCapability, linkState, linkVars
<1>2. CASE Accept
  BY <1>2, Zenon DEF Accept, linkState, linkVars, learnedVars
<1>3. CASE Monitor
  BY <1>3, Zenon DEF Monitor, linkState, linkVars, learnedVars
<1>4. CASE Hangup
  BY <1>4, Zenon DEF Hangup, linkState, linkVars, learnedVars
<1>5. CASE \E i \in DOMAIN conns : Serve(i)
  BY <1>5, Zenon DEF Serve, linkState, linkVars, learnedVars
<1>6. CASE \E i \in DOMAIN conns : ReadMessage(i)
  BY <1>6, Zenon DEF ReadMessage, linkState, linkVars
<1>7. CASE \E i \in DOMAIN conns : EndSession(i)
  BY <1>7, Zenon DEF EndSession, linkState, linkVars
<1>8. CASE \E i \in DOMAIN conns : FinishSession(i)
  BY <1>8, Zenon DEF FinishSession, linkState, linkVars, learnedVars
<1>9. CASE Refresh
  BY <1>9, Zenon DEF Refresh, linkState, linkVars, learnedVars
<1> QED BY <1>1, <1>2, <1>3, <1>4, <1>5, <1>6, <1>7, <1>8, <1>9, Zenon DEF OtherStep

LEMMA NoPathsType == NoPaths \in PathTable
  BY DEF NoPaths, PathTable

\* What becomes of a session, or of a neighbor in the view, has its type.
LEMMA SessTypes ==
  ASSUME NEW s \in SessState, NEW b \in BOOLEAN, NEW t \in PathTable
  PROVE  /\ Down(s) \in SessState
         /\ [Down(s) EXCEPT !.enabled = FALSE] \in SessState
         /\ [s EXCEPT !.st = "conn", !.tried = TRUE] \in SessState
         /\ [s EXCEPT !.st = "up", !.ap = b, !.paths = NoPaths] \in SessState
         /\ [s EXCEPT !.paths = t] \in SessState
         /\ [s EXCEPT !.kept = TRUE] \in SessState
  BY NoPathsType DEF SessState, Down

LEMMA NewTypes ==
  ASSUME NEW since \in Nat, NEW b \in BOOLEAN
  PROVE  /\ NewSess("none") \in SessState /\ NewSess("new") \in SessState
         /\ NewNbr(b, since) \in NbrState
  BY NoPathsType DEF SessState, NewSess, NewNbr, NbrState

LEMMA NbrTypes ==
  ASSUME NEW x \in NbrState, NEW b \in BOOLEAN, NEW st \in {"conn", "up", "IDLE"}
  PROVE  /\ x.since \in Nat
         /\ [x EXCEPT !.ap = b] \in NbrState
         /\ [x EXCEPT !.state = st, !.since = @ + 1, !.ap = FALSE] \in NbrState
<1>1. x.since \in Nat /\ x.since + 1 \in Nat
  BY DEF NbrState
<1>2. [x EXCEPT !.ap = b] \in NbrState
  BY DEF NbrState
<1>3. \A i \in Nat : [x EXCEPT !.state = st, !.since = i, !.ap = FALSE] \in NbrState
  BY DEF NbrState
<1>4. [x EXCEPT !.state = st, !.since = @ + 1, !.ap = FALSE]
        = [x EXCEPT !.state = st, !.since = x.since + 1, !.ap = FALSE]
  OBVIOUS
<1> QED BY <1>1, <1>2, <1>3, <1>4, Zenon

LEMMA EventTypes ==
  /\ \A n \in Neighbor, st \in {"conn", "up", "IDLE"} : PeerEvent(n, st) \in Events
  /\ \A n \in Neighbor, p \in RPrefix, k \in PathId, a \in NbrPaths \cup {NoPath} :
       [kind |-> "path", n |-> n, p |-> p, k |-> k, path |-> a] \in Events
  /\ \A e \in Events : /\ e.n \in Neighbor /\ e.kind \in {"peer", "path"}
                       /\ e.kind = "peer" => e.st \in {"conn", "up", "IDLE"}
  BY DEF PeerEvent, Events

LEMMA ReportTypes ==
  ASSUME evq \in Seq(Events), NEW e \in Events, Report(e)
  PROVE  evq' \in Seq(Events)
  BY DEF Report

\* DisablePeer keeps the types.
LEMMA DisableTypes ==
  ASSUME LinkTypeOK, NEW n \in Neighbor, Disable(n)
  PROVE  sess' \in [Neighbor -> SessState] /\ evq' \in Seq(Events) /\ drop' \in DropState
<1>1. CASE /\ sess' = [sess EXCEPT ![n] = [Down(@) EXCEPT !.enabled = FALSE]]
           /\ IF sess[n].st = "new" THEN UNCHANGED evq ELSE Report(PeerEvent(n, "IDLE"))
           /\ drop' = [drop EXCEPT !.todo = @ \ {n}]
  <2>0. sess[n] \in SessState
    BY Zenon DEF LinkTypeOK
  <2>1. [Down(sess[n]) EXCEPT !.enabled = FALSE] \in SessState
    BY <2>0, SessTypes, NoPathsType, Zenon
  <2>2. sess' \in [Neighbor -> SessState]
    BY <1>1, <2>1 DEF LinkTypeOK
  <2>3. evq' \in Seq(Events)
    BY <1>1, EventTypes, ReportTypes, Zenon DEF LinkTypeOK
  <2>4. drop' \in DropState
    BY <1>1 DEF LinkTypeOK, DropState
  <2> QED BY <2>2, <2>3, <2>4, Zenon
<1>2. CASE /\ drop' = [drop EXCEPT !.todo = @ \ {n}, !.failed = @ \cup {n}]
           /\ UNCHANGED <<sess, evq>>
  BY <1>2 DEF LinkTypeOK, DropState
<1> QED BY <1>1, <1>2, Zenon DEF Disable

LEMMA LinkTypeStep == ASSUME LinkTypeOK, RibNext PROVE LinkTypeOK'
<1>1. ASSUME NEW n \in Neighbor, Connect(n) PROVE LinkTypeOK'
  <2>1. evq' \in Seq(Events) /\ UNCHANGED <<nbr, op, drop, dropped>>
    BY EventTypes, ReportTypes, <1>1, Zenon DEF Connect, LinkTypeOK
  <2>2. sess' \in [Neighbor -> SessState]
    <3>1. [sess[n] EXCEPT !.st = "conn", !.tried = TRUE] \in SessState
      BY SessTypes, NoPathsType, Zenon DEF LinkTypeOK
    <3>2. sess' = [sess EXCEPT ![n] = [sess[n] EXCEPT !.st = "conn", !.tried = TRUE]]
      BY <1>1 DEF Connect
    <3> QED BY <3>1, <3>2 DEF LinkTypeOK
  <2> QED BY <2>1, <2>2, Zenon DEF LinkTypeOK
<1>2. ASSUME NEW n \in Neighbor, Establish(n) PROVE LinkTypeOK'
  <2>1. evq' \in Seq(Events) /\ UNCHANGED <<nbr, op, drop, dropped>>
    BY EventTypes, ReportTypes, <1>2, Zenon DEF Establish, LinkTypeOK
  <2>2. PICK ap \in BOOLEAN : sess' = [sess EXCEPT ![n].st = "up", ![n].ap = ap, ![n].paths = NoPaths]
    BY <1>2, Zenon DEF Establish
  <2>3. sess' \in [Neighbor -> SessState]
    <3>1. [sess[n] EXCEPT !.st = "up", !.ap = ap, !.paths = NoPaths] \in SessState
      BY SessTypes, NoPathsType, Zenon DEF LinkTypeOK
    <3>2. sess' = [sess EXCEPT ![n] = [sess[n] EXCEPT !.st = "up", !.ap = ap, !.paths = NoPaths]]
      BY <2>2
    <3> QED BY <3>1, <3>2 DEF LinkTypeOK
  <2> QED BY <2>1, <2>3, Zenon DEF LinkTypeOK
<1>3. ASSUME NEW n \in Neighbor, Lose(n) PROVE LinkTypeOK'
  <2>1. evq' \in Seq(Events) /\ UNCHANGED <<nbr, op, drop, dropped>>
    BY EventTypes, ReportTypes, <1>3, Zenon DEF Lose, LinkTypeOK
  <2>2. sess' \in [Neighbor -> SessState]
    <3>1. Down(sess[n]) \in SessState
      BY SessTypes, NoPathsType, Zenon DEF LinkTypeOK
    <3> QED BY <1>3, <3>1 DEF Lose, LinkTypeOK
  <2> QED BY <2>1, <2>2, Zenon DEF LinkTypeOK
<1>4. ASSUME NEW n \in Neighbor, Send(n) PROVE LinkTypeOK'
  <2>1. PICK p \in RPrefix, k \in PathId, a \in NbrPaths \cup {NoPath} :
          /\ sess' = [sess EXCEPT ![n].paths[p][k] = a]
          /\ Report([kind |-> "path", n |-> n, p |-> p, k |-> k, path |-> a])
          /\ UNCHANGED <<nbr, op, drop, dropped>>
    BY <1>4, Zenon DEF Send
  <2>2. sess' \in [Neighbor -> SessState]
    <3>1. sess[n].paths \in PathTable
      BY DEF LinkTypeOK, SessState
    <3>2. [sess[n].paths EXCEPT ![p][k] = a] \in PathTable
      BY <3>1 DEF PathTable
    <3>3. [sess[n] EXCEPT !.paths = [sess[n].paths EXCEPT ![p][k] = a]] \in SessState
      BY <3>2, SessTypes, Zenon DEF LinkTypeOK
    <3>4. sess' = [sess EXCEPT ![n] = [sess[n] EXCEPT !.paths = [sess[n].paths EXCEPT ![p][k] = a]]]
      BY SessTypes, <2>1
    <3> QED BY <3>3, <3>4 DEF LinkTypeOK
  <2>3. evq' \in Seq(Events)
    BY EventTypes, ReportTypes, <2>1, Zenon DEF LinkTypeOK
  <2> QED BY <2>1, <2>2, <2>3, Zenon DEF LinkTypeOK
<1>5. ASSUME NEW n \in Neighbor, RemoveNeighbor(n) PROVE LinkTypeOK'
  <2>1. NewNbr(FALSE, nbr[n].since) \in NbrState
    BY NbrTypes, NewTypes, Zenon DEF LinkTypeOK
  <2>2. nbr' \in [Neighbor -> NbrState]
    BY <1>5, <2>1 DEF RemoveNeighbor, LinkTypeOK
  <2>3. op' \in OpState
    BY <1>5 DEF RemoveNeighbor, OpState
  <2> QED BY <1>5, <2>2, <2>3, Zenon DEF LinkTypeOK, RemoveNeighbor
<1>6. ASSUME NEW n \in Neighbor, AddNeighbor(n) PROVE LinkTypeOK'
  <2>1. NewNbr(TRUE, nbr[n].since) \in NbrState
    BY NbrTypes, NewTypes, Zenon DEF LinkTypeOK
  <2>2. nbr' \in [Neighbor -> NbrState]
    BY <1>6, <2>1 DEF AddNeighbor, LinkTypeOK
  <2>3. op' = op \/ op' \in OpState
    <3>1. [kind |-> "add", n |-> n, step |-> 1] \in OpState
      BY DEF OpState
    <3> QED BY <1>6, <3>1, Zenon DEF AddNeighbor
  <2> QED BY <1>6, <2>2, <2>3, Zenon DEF LinkTypeOK, AddNeighbor
<1>7. ASSUME NEW n \in Neighbor, DropOne(n) PROVE LinkTypeOK'
  BY <1>7, DisableTypes, Zenon DEF LinkTypeOK, DropOne
<1>8. ASSUME NEW r \in reads, SetCapability(r) PROVE LinkTypeOK'
  <2>1. nbr' = nbr \/ \E b \in BOOLEAN : nbr' = [nbr EXCEPT ![r.n].ap = b]
    BY <1>8, Zenon DEF SetCapability
  <2>2. nbr' \in [Neighbor -> NbrState]
    <3>1. ASSUME r.n \in Neighbor, NEW b \in BOOLEAN
          PROVE  [nbr EXCEPT ![r.n].ap = b] \in [Neighbor -> NbrState]
      <4>1. [nbr[r.n] EXCEPT !.ap = b] \in NbrState
        BY <3>1, NbrTypes, Zenon DEF LinkTypeOK
      <4> QED BY <4>1 DEF LinkTypeOK
    <3>2. ASSUME r.n \notin Neighbor, NEW b \in BOOLEAN
          PROVE  [nbr EXCEPT ![r.n].ap = b] = nbr
      BY <3>2 DEF LinkTypeOK
    <3> QED BY <2>1, <3>1, <3>2, Zenon DEF LinkTypeOK
  <2> QED BY <1>8, <2>2, Zenon DEF LinkTypeOK, SetCapability, linkVars
<1>9. ASSUME HandleEvent PROVE LinkTypeOK'
  <2>1. evq' \in Seq(Events) /\ Head(evq) \in Events
    BY EventTypes, ReportTypes, <1>9 DEF LinkTypeOK, HandleEvent
  <2>2. nbr' = nbr \/ \E e \in Events : e.kind = "peer"
          /\ nbr' = [nbr EXCEPT ![e.n].state = e.st, ![e.n].since = @ + 1, ![e.n].ap = FALSE]
    BY <1>9, <2>1, Zenon DEF HandleEvent, ApplyState
  <2>3. nbr' \in [Neighbor -> NbrState]
    <3>1. CASE nbr' = nbr
      BY <3>1, NewTypes DEF LinkTypeOK
    <3>2. ASSUME NEW e \in Events, e.kind = "peer",
                 nbr' = [nbr EXCEPT ![e.n].state = e.st, ![e.n].since = @ + 1, ![e.n].ap = FALSE]
          PROVE  nbr' \in [Neighbor -> NbrState]
      <4>1. e.n \in Neighbor /\ e.st \in {"conn", "up", "IDLE"}
        BY <3>2, EventTypes, Zenon
      <4>2. [nbr[e.n] EXCEPT !.state = e.st, !.since = @ + 1, !.ap = FALSE] \in NbrState
        BY <4>1, NbrTypes, Zenon DEF LinkTypeOK
      <4> QED BY <3>2, <4>1, <4>2 DEF LinkTypeOK
    <3> QED BY <2>2, <3>1, <3>2, Zenon
  <2> QED BY <1>9, <2>1, <2>3, Zenon DEF LinkTypeOK, HandleEvent, linkVars
<1>10. ASSUME DeletePeer PROVE LinkTypeOK'
  <2>1. op.n \in Neighbor
    BY <1>10 DEF DeletePeer, LinkTypeOK, NoOp, OpState
  <2>2. evq' \in Seq(Events)
    BY EventTypes, ReportTypes, <1>10, <2>1, Zenon DEF DeletePeer, LinkTypeOK
  <2>3. sess' \in [Neighbor -> SessState]
    <3>1. CASE sess' = [sess EXCEPT ![op.n] = NewSess("none")]
      BY <3>1, NewTypes DEF LinkTypeOK
    <3>2. CASE sess' = [sess EXCEPT ![op.n].kept = TRUE]
      <4>1. [sess[op.n] EXCEPT !.kept = TRUE] \in SessState
        BY <2>1, SessTypes, NoPathsType, Zenon DEF LinkTypeOK
      <4> QED BY <2>1, <3>2, <4>1 DEF LinkTypeOK
    <3> QED BY <1>10, <3>1, <3>2, Zenon DEF DeletePeer
  <2> QED BY <1>10, <2>2, <2>3, Zenon DEF LinkTypeOK, DeletePeer
<1>11. ASSUME AddPeer PROVE LinkTypeOK'
  <2>1. op' \in OpState
    <3>1. op \in OpState /\ op' = [op EXCEPT !.step = 2]
      BY <1>11 DEF AddPeer, LinkTypeOK, NoOp
    <3> QED BY <3>1 DEF OpState
  <2>2. sess' \in [Neighbor -> SessState]
    BY NewTypes, <1>11, Zenon DEF AddPeer, LinkTypeOK
  <2> QED BY <1>11, <2>1, <2>2, Zenon DEF LinkTypeOK, AddPeer, learnedVars
<1>12. ASSUME Recheck PROVE LinkTypeOK'
  <2>1. op.n \in Neighbor
    BY <1>12 DEF Recheck, LinkTypeOK, NoOp, OpState
  <2> QED BY <1>12, <2>1, DisableTypes, Zenon DEF LinkTypeOK, Recheck
<1>13. ASSUME DropMark PROVE LinkTypeOK'
  <2>1. drop' \in DropState
    BY <1>13 DEF DropMark, LinkTypeOK, DropState
  <2> QED BY <1>13, <2>1, Zenon DEF LinkTypeOK, DropMark, learnedVars
<1>14. ASSUME DropList PROVE LinkTypeOK'
  <2>1. drop' \in DropState
    <3>1. {n \in Neighbor : sess[n].st # "none"} \in SUBSET Neighbor
      BY Zenon
    <3>0. drop \in DropState
      BY Zenon DEF LinkTypeOK
    <3>2. ASSUME NEW T \in SUBSET Neighbor
          PROVE  [drop EXCEPT !.step = 2, !.todo = T] \in DropState
      <4>1. [drop EXCEPT !.step = 2] \in DropState
        BY <3>0 DEF DropState
      <4>2. ASSUME NEW d \in DropState PROVE [d EXCEPT !.todo = T] \in DropState
        BY DEF DropState
      <4> QED BY <4>1, <4>2
    <3>3. [drop EXCEPT !.step = 2, !.failed = Neighbor] \in DropState
      <4>1. [drop EXCEPT !.step = 2] \in DropState
        BY <3>0 DEF DropState
      <4>2. ASSUME NEW d \in DropState PROVE [d EXCEPT !.failed = Neighbor] \in DropState
        BY DEF DropState
      <4> QED BY <4>1, <4>2
    <3> QED BY <1>14, <3>1, <3>2, <3>3, Zenon DEF DropList
  <2> QED BY <1>14, <2>1, Zenon DEF LinkTypeOK, DropList, learnedVars
<1>15. ASSUME OtherStep PROVE LinkTypeOK'
  BY <1>15, OtherUnchanged, Zenon DEF LinkTypeOK, linkState
<1> QED
  BY <1>1, <1>2, <1>3, <1>4, <1>5, <1>6, <1>7, <1>8, <1>9, <1>10, <1>11, <1>12, <1>13, <1>14,
     <1>15, Zenon DEF RibNext, OtherStep

\* An event of another kind or another neighbor is no report on n.
LEMMA PendingOther ==
  ASSUME evq \in Seq(Events), NEW e \in Events, NEW n, Report(e), ~(e.kind = "peer" /\ e.n = n)
  PROVE  Pending(n)' = Pending(n) /\ \A i \in Pending(n) : evq'[i] = evq[i]
  BY DEF Report, Pending

\* A report on n is the last one.
LEMMA PendingHere ==
  ASSUME evq \in Seq(Events), NEW n \in Neighbor, NEW st \in {"conn", "up", "IDLE"},
         Report(PeerEvent(n, st))
  PROVE  /\ Len(evq) + 1 \in Pending(n)'
         /\ \A i \in Pending(n)' : (\A j \in Pending(n)' : j <= i) => evq'[i] = PeerEvent(n, st)
<1>1. PeerEvent(n, st) \in Events /\ PeerEvent(n, st).kind = "peer" /\ PeerEvent(n, st).n = n
  BY DEF PeerEvent, Events
<1>2. Len(evq) \in Nat /\ Len(evq') = Len(evq) + 1 /\ evq'[Len(evq) + 1] = PeerEvent(n, st)
  BY <1>1 DEF Report
<1>3. Len(evq) + 1 \in Pending(n)'
  BY <1>1, <1>2 DEF Pending
<1>4. ASSUME NEW i \in Pending(n)', \A j \in Pending(n)' : j <= i PROVE i = Len(evq) + 1
  <2>1. i \in 1 .. Len(evq') /\ Len(evq) + 1 <= i
    BY <1>3, <1>4, Zenon DEF Pending
  <2> QED BY <1>2, <2>1
<1> QED BY <1>2, <1>3, <1>4, Zenon

\* Reading the first event shifts the others.
LEMMA PendingTail ==
  ASSUME evq \in Seq(Events), evq # <<>>, evq' = Tail(evq), NEW n
  PROVE  /\ \A i \in Nat : i \in Pending(n)' <=> i + 1 \in Pending(n) /\ i > 0
         /\ \A i \in Pending(n)' : evq'[i] = evq[i + 1]
         /\ 1 \in Pending(n) <=> evq[1].kind = "peer" /\ evq[1].n = n
         /\ Pending(n) \subseteq Nat \ {0} /\ Pending(n)' \subseteq Nat \ {0}
<1>1. /\ Len(evq) \in Nat /\ Len(evq) > 0 /\ Len(evq') = Len(evq) - 1
      /\ \A i \in 1 .. Len(evq') : evq'[i] = evq[i + 1]
  OBVIOUS
<1> QED BY <1>1 DEF Pending

\* What does not say up does so until the next report: reports on others,
\* and events read in order, leave it so.
LEMMA NotUpOther ==
  ASSUME evq \in Seq(Events), NEW n, NotUp(n), nbr'[n].state = nbr[n].state,
         \/ UNCHANGED evq
         \/ \E e \in Events : Report(e) /\ ~(e.kind = "peer" /\ e.n = n)
  PROVE  NotUp(n)'
<1>1. Pending(n)' = Pending(n) /\ \A i \in Pending(n) : evq'[i] = evq[i]
  BY PendingOther, Zenon DEF Pending
<1> QED BY <1>1, Zenon DEF NotUp

LEMMA NotUpHere ==
  ASSUME evq \in Seq(Events), NEW n \in Neighbor, NEW st \in {"conn", "IDLE"}, Report(PeerEvent(n, st))
  PROVE  NotUp(n)'
<1>1. /\ Pending(n)' # {}
      /\ \A i \in Pending(n)' : (\A j \in Pending(n)' : j <= i) => evq'[i] = PeerEvent(n, st)
  BY PendingHere, Zenon
<1>2. PeerEvent(n, st).st # "up"
  BY DEF PeerEvent
<1> QED BY <1>1, <1>2, Zenon DEF NotUp

LEMMA NotUpTail ==
  ASSUME LinkTypeOK, NEW n \in Neighbor, NotUp(n), HandleEvent,
         ~nbr[n].conf => nbr[n].state = "idle"
  PROVE  NotUp(n)'
<1> DEFINE e == Head(evq)
<1>0. evq \in Seq(Events) /\ evq # <<>> /\ evq' = Tail(evq) /\ e = evq[1] /\ e \in Events
  BY DEF HandleEvent, LinkTypeOK
<1> HIDE DEF e
<1>1. ASSUME NEW i \in Pending(n)', \A j \in Pending(n)' : j <= i PROVE evq'[i].st # "up"
  <2>1. i \in Nat /\ i + 1 \in Pending(n) /\ evq'[i] = evq[i + 1]
    BY <1>0, <1>1, PendingTail
  <2>2. ASSUME NEW j \in Pending(n) PROVE j <= i + 1
    <3>1. j \in Nat \ {0} /\ (j # 1 => j - 1 \in Pending(n)')
      BY <1>0, PendingTail
    <3>2. CASE j = 1
      BY <3>2, <2>1
    <3>3. CASE j # 1
      <4>1. j - 1 <= i
        BY <3>1, <3>3, <1>1, Zenon
      <4> QED BY <4>1, <3>1, <2>1
    <3> QED BY <3>2, <3>3, Zenon
  <2> QED BY <2>1, <2>2, Zenon DEF NotUp
<1>2. ASSUME Pending(n)' = {} PROVE nbr'[n].state # "up"
  <2>1. \A j \in Pending(n) : j = 1
    <3> TAKE j \in Pending(n)
    <3>1. j \in Nat \ {0} /\ (j # 1 => j - 1 \in Pending(n)')
      BY <1>0, PendingTail
    <3> QED BY <3>1, <1>2, Zenon
  <2>2. CASE e.kind = "peer" /\ e.n = n
    <3>1. 1 \in Pending(n)
      BY <1>0, <2>2, PendingTail, Zenon
    <3>2. 1 <= 1
      OBVIOUS
    <3>3. e.st # "up"
      BY <1>0, <2>1, <3>1, <3>2, Zenon DEF NotUp
    <3>4. nbr' = nbr \/ nbr' = [nbr EXCEPT ![e.n].state = e.st, ![e.n].since = @ + 1, ![e.n].ap = FALSE]
      BY <2>2, Zenon DEF HandleEvent, ApplyState, e
    <3>5. CASE nbr[n].conf /\ nbr[n].state # e.st
      <4>1. nbr' = [nbr EXCEPT ![e.n].state = e.st, ![e.n].since = @ + 1, ![e.n].ap = FALSE]
        BY <2>2, <3>5, Zenon DEF HandleEvent, ApplyState, e
      <4>2. nbr'[n].state = e.st
        BY <2>2, <4>1 DEF LinkTypeOK, NbrState
      <4> QED BY <4>2, <3>3, Zenon
    <3>6. CASE ~(nbr[n].conf /\ nbr[n].state # e.st)
      <4>1. nbr' = nbr
        BY <2>2, <3>6, Zenon DEF HandleEvent, ApplyState, e
      <4>2. nbr[n].state # "up"
        BY <3>3, <3>6, Zenon
      <4> QED BY <4>1, <4>2, Zenon
    <3> QED BY <3>5, <3>6, Zenon
  <2>3. CASE ~(e.kind = "peer" /\ e.n = n)
    <3>1. 1 \notin Pending(n)
      BY <1>0, <2>3, PendingTail, Zenon
    <3>2. nbr[n].state # "up"
      BY <2>1, <3>1, Zenon DEF NotUp
    <3>3. nbr'[n] = nbr[n]
      <4>1. CASE e.kind = "peer"
        <5>1. e.n # n
          BY <2>3, <4>1, Zenon
        <5>2. nbr' = nbr \/ nbr' = [nbr EXCEPT ![e.n].state = e.st, ![e.n].since = @ + 1, ![e.n].ap = FALSE]
          BY <4>1, Zenon DEF HandleEvent, ApplyState, e
        <5> QED BY <5>1, <5>2 DEF LinkTypeOK
      <4>2. CASE e.kind # "peer"
        BY <4>2, Zenon DEF HandleEvent, e
      <4> QED BY <4>1, <4>2, Zenon
    <3> QED BY <3>2, <3>3, Zenon
  <2> QED BY <2>2, <2>3, Zenon
<1> QED BY <1>1, <1>2, Zenon DEF NotUp

\* What becomes of the other sessions, and of the fields of one.
LEMMA SessAt ==
  ASSUME LinkTypeOK, NEW n \in Neighbor, NEW v, sess' = [sess EXCEPT ![n] = v]
  PROVE  sess'[n] = v /\ \A m \in Neighbor \ {n} : sess'[m] = sess[m]
  BY DEF LinkTypeOK

LEMMA NbrAt ==
  ASSUME LinkTypeOK, NEW n \in Neighbor, NEW v, nbr' = [nbr EXCEPT ![n] = v]
  PROVE  nbr'[n] = v /\ \A m \in Neighbor \ {n} : nbr'[m] = nbr[m]
  BY DEF LinkTypeOK

LEMMA SessFields ==
  ASSUME NEW s \in SessState
  PROVE  /\ Down(s).st = "new" /\ Down(s).enabled = s.enabled /\ Down(s).tried = s.tried
         /\ [Down(s) EXCEPT !.enabled = FALSE].st = "new"
         /\ ~[Down(s) EXCEPT !.enabled = FALSE].enabled
         /\ [Down(s) EXCEPT !.enabled = FALSE].tried = s.tried
         /\ [s EXCEPT !.kept = TRUE].st = s.st /\ [s EXCEPT !.kept = TRUE].enabled = s.enabled
         /\ [s EXCEPT !.kept = TRUE].tried = s.tried
         /\ \A t : /\ [s EXCEPT !.paths = t].st = s.st /\ [s EXCEPT !.paths = t].enabled = s.enabled
                   /\ [s EXCEPT !.paths = t].tried = s.tried
  BY DEF SessState, Down

LEMMA NewFields ==
  /\ NewSess("none").st = "none" /\ ~NewSess("none").enabled /\ ~NewSess("none").tried
  /\ NewSess("new").st = "new" /\ NewSess("new").enabled /\ ~NewSess("new").tried
  /\ \A b, i : NewNbr(b, i).conf = b /\ NewNbr(b, i).state = "idle"
  BY DEF NewSess, NewNbr

\* An event about n changes no word on the others.
LEMMA WordOthers ==
  ASSUME LinkTypeOK, WordInv, NEW n \in Neighbor, NEW m \in Neighbor \ {n},
         nbr'[m].state = nbr[m].state, sess'[m] = sess[m],
         UNCHANGED evq \/ \E e \in Events : Report(e) /\ e.n = n
  PROVE  sess'[m].tried /\ sess'[m].st # "up" => NotUp(m)'
<1>1. evq \in Seq(Events)
  BY Zenon DEF LinkTypeOK
<1>2. UNCHANGED evq \/ \E e \in Events : Report(e) /\ ~(e.kind = "peer" /\ e.n = m)
  BY Zenon
<1> QED BY <1>1, <1>2, NotUpOther, Zenon DEF WordInv

\* A session that was shut leaves the list, or is reported as not shut.
LEMMA DisableKeeps ==
  ASSUME LinkTypeOK, WordInv, NEW n \in Neighbor, Disable(n), UNCHANGED nbr
  PROVE  /\ WordInv'
         /\ drop'.step = drop.step /\ drop'.todo = drop.todo \ {n}
         /\ \/ /\ drop'.failed = drop.failed /\ ~sess'[n].enabled /\ sess'[n].st = "new"
               /\ sess[n].st # "none" /\ \A m \in Neighbor \ {n} : sess'[m] = sess[m]
            \/ drop'.failed = drop.failed \cup {n} /\ UNCHANGED sess
<1>0. evq \in Seq(Events) /\ sess[n] \in SessState /\ PeerEvent(n, "IDLE") \in Events
      /\ PeerEvent(n, "IDLE").n = n
  BY DEF LinkTypeOK, PeerEvent, Events
<1>1. CASE /\ sess[n].st # "none"
           /\ sess' = [sess EXCEPT ![n] = [Down(@) EXCEPT !.enabled = FALSE]]
           /\ IF sess[n].st = "new" THEN UNCHANGED evq ELSE Report(PeerEvent(n, "IDLE"))
           /\ drop' = [drop EXCEPT !.todo = @ \ {n}]
  <2>1. /\ sess'[n] = [Down(sess[n]) EXCEPT !.enabled = FALSE]
        /\ \A m \in Neighbor \ {n} : sess'[m] = sess[m]
    BY <1>1, Zenon DEF LinkTypeOK
  <2>2. sess'[n].st = "new" /\ ~sess'[n].enabled /\ sess'[n].tried = sess[n].tried
    <3>1. /\ [Down(sess[n]) EXCEPT !.enabled = FALSE].st = "new"
          /\ ~[Down(sess[n]) EXCEPT !.enabled = FALSE].enabled
          /\ [Down(sess[n]) EXCEPT !.enabled = FALSE].tried = sess[n].tried
      BY <1>0, SessFields
    <3> QED BY <2>1, <3>1, Zenon
  <2>3. drop'.step = drop.step /\ drop'.todo = drop.todo \ {n} /\ drop'.failed = drop.failed
    BY <1>1 DEF LinkTypeOK, DropState
  <2>4. ASSUME sess'[n].tried PROVE NotUp(n)'
    <3>1. CASE sess[n].st = "new"
      <4>1. NotUp(n) /\ UNCHANGED evq
        BY <2>2, <2>4, <3>1, <1>1, Zenon DEF WordInv
      <4> QED BY <4>1, <1>0, NotUpOther, Zenon
    <3>2. CASE sess[n].st # "new"
      BY <3>2, <1>0, <1>1, NotUpHere, Zenon
    <3> QED BY <3>1, <3>2, Zenon
  <2>5. ASSUME NEW m \in Neighbor \ {n} PROVE sess'[m].tried /\ sess'[m].st # "up" => NotUp(m)'
    BY <1>0, <1>1, <2>1, WordOthers, Zenon
  <2> QED BY <1>1, <2>1, <2>2, <2>3, <2>4, <2>5, Zenon DEF WordInv
<1>2. CASE /\ drop' = [drop EXCEPT !.todo = @ \ {n}, !.failed = @ \cup {n}]
           /\ UNCHANGED <<sess, evq>>
  <2>1. /\ drop'.step = drop.step /\ drop'.todo = drop.todo \ {n}
        /\ drop'.failed = drop.failed \cup {n}
    BY <1>2 DEF LinkTypeOK, DropState
  <2>2. ASSUME NEW m \in Neighbor, sess'[m].tried, sess'[m].st # "up" PROVE NotUp(m)'
    BY <1>0, <1>2, <2>2, NotUpOther, Zenon DEF WordInv
  <2> QED BY <1>2, <2>1, <2>2, Zenon DEF WordInv
<1> QED BY <1>1, <1>2, Zenon DEF Disable

\* A session that moves on with an event of its own, and nothing else.
LEMMA SessionStep ==
  ASSUME LinkInv, NEW n \in Neighbor, UNCHANGED <<nbr, op, drop, dropped>>,
         \A m \in Neighbor \ {n} : sess'[m] = sess[m],
         sess[n].st # "none", sess'[n].st # "none", sess'[n].enabled = sess[n].enabled,
         sess[n].enabled \/ sess[n].st \notin {"none", "new"},
         \E e \in Events : Report(e) /\ e.n = n,
         sess'[n].tried /\ sess'[n].st # "up" => NotUp(n)'
  PROVE  DropInv' /\ ConfInv' /\ WordInv'
<1>1. DropInv'
  BY Zenon DEF LinkInv, DropInv
<1>op. op.kind \in {"add", "remove"} => op.n \in Neighbor
  BY DEF LinkInv, LinkTypeOK, NoOp, OpState
<1>2. ConfInv'
  BY <1>op, Zenon DEF LinkInv, ConfInv
<1>3. ASSUME NEW m \in Neighbor \ {n} PROVE sess'[m].tried /\ sess'[m].st # "up" => NotUp(m)'
  BY WordOthers, Zenon DEF LinkInv
<1> QED BY <1>1, <1>2, <1>3, Zenon DEF WordInv

LEMMA SessionSteps ==
  ASSUME LinkInv, NEW n \in Neighbor, Connect(n) \/ Establish(n) \/ Lose(n) \/ Send(n)
  PROVE  DropInv' /\ ConfInv' /\ WordInv'
<1>0. /\ evq \in Seq(Events) /\ sess[n] \in SessState
      /\ \A st \in {"conn", "up", "IDLE"} : PeerEvent(n, st) \in Events /\ PeerEvent(n, st).n = n
  BY DEF LinkInv, LinkTypeOK, PeerEvent, Events
<1>1. CASE Connect(n)
  <2>1. /\ sess'[n].st = "conn" /\ sess'[n].enabled = sess[n].enabled /\ sess[n].enabled
        /\ \A m \in Neighbor \ {n} : sess'[m] = sess[m]
    BY <1>1, <1>0 DEF LinkInv, LinkTypeOK, Connect, SessState
  <2>2. NotUp(n)'
    BY <1>0, <1>1, NotUpHere, Zenon DEF Connect
  <2>3. sess[n].st # "none" /\ UNCHANGED <<nbr, op, drop, dropped>>
        /\ \E e \in Events : Report(e) /\ e.n = n
    BY <1>0, <1>1, Zenon DEF Connect
  <2> QED BY <2>1, <2>2, <2>3, SessionStep, Zenon
<1>2. CASE Establish(n)
  <2>1. PICK ap : sess' = [sess EXCEPT ![n].st = "up", ![n].ap = ap, ![n].paths = NoPaths]
    BY <1>2, Zenon DEF Establish
  <2>2. /\ sess'[n].st = "up" /\ sess'[n].enabled = sess[n].enabled
        /\ \A m \in Neighbor \ {n} : sess'[m] = sess[m]
    BY <2>1, <1>0 DEF LinkInv, LinkTypeOK, SessState
  <2>3. sess[n].st # "none" /\ sess[n].enabled /\ UNCHANGED <<nbr, op, drop, dropped>>
        /\ \E e \in Events : Report(e) /\ e.n = n
    BY <1>0, <1>2, Zenon DEF Establish
  <2> QED BY <2>2, <2>3, SessionStep, Zenon
<1>3. CASE Lose(n)
  <2>1. sess'[n] = Down(sess[n]) /\ \A m \in Neighbor \ {n} : sess'[m] = sess[m]
    BY <1>3, Zenon DEF LinkInv, LinkTypeOK, Lose
  <2>2. sess'[n].st = "new" /\ sess'[n].enabled = sess[n].enabled
    BY <2>1, <1>0, SessFields, Zenon
  <2>3. NotUp(n)'
    BY <1>0, <1>3, NotUpHere, Zenon DEF Lose
  <2>4. sess[n].st = "up" /\ UNCHANGED <<nbr, op, drop, dropped>>
        /\ \E e \in Events : Report(e) /\ e.n = n
    BY <1>0, <1>3, Zenon DEF Lose
  <2>5. sess[n].st # "none" /\ sess[n].st \notin {"none", "new"}
    BY <2>4
  <2> QED BY <2>1, <2>2, <2>3, <2>4, <2>5, SessionStep, Zenon
<1>4. CASE Send(n)
  <2>1. PICK p \in RPrefix, k \in PathId, a \in NbrPaths \cup {NoPath} :
          /\ sess[n].st = "up"
          /\ sess' = [sess EXCEPT ![n].paths[p][k] = a]
          /\ Report([kind |-> "path", n |-> n, p |-> p, k |-> k, path |-> a])
          /\ UNCHANGED <<nbr, op, drop, dropped>>
    BY <1>4, Zenon DEF Send
  <2>2. sess' = [sess EXCEPT ![n] = [sess[n] EXCEPT !.paths = [sess[n].paths EXCEPT ![p][k] = a]]]
    BY <2>1
  <2>3. /\ sess'[n] = [sess[n] EXCEPT !.paths = [sess[n].paths EXCEPT ![p][k] = a]]
        /\ \A m \in Neighbor \ {n} : sess'[m] = sess[m]
    BY <2>2, Zenon DEF LinkInv, LinkTypeOK
  <2>4. sess'[n].st = sess[n].st /\ sess'[n].enabled = sess[n].enabled
    <3>1. ASSUME NEW t PROVE [sess[n] EXCEPT !.paths = t].st = sess[n].st
                             /\ [sess[n] EXCEPT !.paths = t].enabled = sess[n].enabled
      BY <1>0, SessFields
    <3> QED BY <2>3, <3>1, Zenon
  <2>5. [kind |-> "path", n |-> n, p |-> p, k |-> k, path |-> a] \in Events
        /\ [kind |-> "path", n |-> n, p |-> p, k |-> k, path |-> a].n = n
    BY DEF Events
  <2>6. sess[n].st # "none" /\ sess[n].st \notin {"none", "new"}
    BY <2>1
  <2>7. \E e \in Events : Report(e) /\ e.n = n
    BY <2>1, <2>5, Zenon
  <2> QED BY <2>1, <2>3, <2>4, <2>6, <2>7, SessionStep, Zenon
<1> QED BY <1>1, <1>2, <1>3, <1>4, Zenon

\* HandleEvent: the view's word follows the reports in order.
LEMMA EventStep == ASSUME LinkInv, HandleEvent PROVE DropInv' /\ ConfInv' /\ WordInv'
<1>1. UNCHANGED <<sess, op, drop, dropped>>
  BY Zenon DEF HandleEvent, linkVars
<1>2. DropInv'
  BY <1>1, Zenon DEF DropInv, LinkInv
<1>3. \A n \in Neighbor : nbr'[n].conf = nbr[n].conf /\ (~nbr[n].conf => nbr'[n] = nbr[n])
  <2> DEFINE e == Head(evq)
  <2>1. nbr' = nbr \/ (nbr[e.n].conf /\ nbr' = [nbr EXCEPT ![e.n].state = e.st,
                                                           ![e.n].since = @ + 1, ![e.n].ap = FALSE])
    BY Zenon DEF HandleEvent, ApplyState
  <2> QED BY <2>1 DEF LinkInv, LinkTypeOK, NbrState
<1>4. op.kind = "remove" => op.n \in Neighbor
  BY DEF LinkInv, LinkTypeOK, NoOp, OpState
<1>5. ConfInv'
  <2>1. ConfInv
    BY Zenon DEF LinkInv
  <2>2. op'.kind = "remove" => ~nbr'[op'.n].conf
    BY <1>1, <1>3, <1>4, <2>1, Zenon DEF ConfInv
  <2>3. \A n \in Neighbor : ~nbr'[n].conf => nbr'[n].state = "idle"
    BY <1>3, <2>1, Zenon DEF ConfInv
  <2> QED
    BY <2>2, <2>3, Zenon DEF ConfInv
<1>6. WordInv'
  BY <1>1, NotUpTail, Zenon DEF WordInv, LinkInv, ConfInv
<1> QED BY <1>2, <1>5, <1>6, Zenon

\* The words are kept by a step that leaves the events alone, and with each
\* session that was tried its state and what the view says of it.
LEMMA WordQuiet ==
  ASSUME LinkInv, UNCHANGED evq,
         \A n \in Neighbor : sess'[n].tried /\ sess'[n].st # "up" =>
           /\ sess[n].tried /\ sess[n].st # "up"
           /\ nbr'[n].state = nbr[n].state \/ nbr'[n].state = "idle"
  PROVE  WordInv'
<1> SUFFICES ASSUME NEW n \in Neighbor, sess'[n].tried, sess'[n].st # "up" PROVE NotUp(n)'
  BY Zenon DEF WordInv
<1>1. NotUp(n) /\ (nbr'[n].state = nbr[n].state \/ nbr'[n].state = "idle")
  BY Zenon DEF LinkInv, WordInv
<1>2. CASE nbr'[n].state = nbr[n].state
  BY <1>1, <1>2, NotUpOther, Zenon DEF LinkInv, LinkTypeOK
<1>3. CASE nbr'[n].state = "idle"
  <2>1. "idle" # "up" /\ Pending(n)' = Pending(n)
    BY DEF Pending
  <2> QED BY <1>1, <1>3, <2>1, Zenon DEF NotUp
<1> QED BY <1>1, <1>2, <1>3, Zenon

LEMMA ReloadSteps ==
  ASSUME LinkInv
  PROVE  /\ \A n \in Neighbor : RemoveNeighbor(n) \/ AddNeighbor(n) => DropInv' /\ ConfInv' /\ WordInv'
         /\ DeletePeer \/ AddPeer \/ Recheck => DropInv' /\ ConfInv' /\ WordInv'
<1>0. /\ op.kind \in {"add", "remove"} => op.n \in Neighbor
      /\ NoOp.kind \notin {"add", "remove"} /\ evq \in Seq(Events)
  BY DEF LinkInv, LinkTypeOK, NoOp, OpState
<1>1. ASSUME NEW n \in Neighbor, RemoveNeighbor(n) PROVE DropInv' /\ ConfInv' /\ WordInv'
  <2>1. op = NoOp /\ UNCHANGED <<sess, drop, dropped, evq>>
        /\ nbr' = [nbr EXCEPT ![n] = NewNbr(FALSE, @.since)]
    BY <1>1, Zenon DEF RemoveNeighbor
  <2>2. /\ nbr'[n] = NewNbr(FALSE, nbr[n].since) /\ \A m \in Neighbor \ {n} : nbr'[m] = nbr[m]
    BY <2>1, Zenon DEF LinkInv, LinkTypeOK
  <2>3. ~nbr'[n].conf /\ nbr'[n].state = "idle"
    BY <2>2 DEF NewNbr
  <2>4. op'.kind = "remove" /\ op'.n = n /\ op.kind # "add" /\ op'.kind # "add"
    BY <1>1, <2>1 DEF RemoveNeighbor, NoOp
  <2>5. DropInv'
    BY <2>1, <2>4, Zenon DEF LinkInv, DropInv
  <2>6. ConfInv'
    BY <2>1, <2>2, <2>3, <2>4, Zenon DEF LinkInv, ConfInv
  <2>7. WordInv'
    BY <2>1, <2>2, <2>3, WordQuiet, Zenon
  <2> QED BY <2>5, <2>6, <2>7, Zenon
<1>2. ASSUME NEW n \in Neighbor, AddNeighbor(n) PROVE DropInv' /\ ConfInv' /\ WordInv'
  <2>1. op = NoOp /\ UNCHANGED <<sess, drop, dropped, evq>> /\ op.kind # "add"
    BY <1>2 DEF AddNeighbor, NoOp
  <2>2. CASE dropped
    <3>1. UNCHANGED <<op, nbr>>
      BY <1>2, <2>2, Zenon DEF AddNeighbor
    <3>2. DropInv' /\ ConfInv'
      BY <2>1, <3>1, Zenon DEF LinkInv, DropInv, ConfInv
    <3> QED BY <2>1, <3>1, <3>2, WordQuiet, Zenon
  <2>3. CASE ~dropped
    <3>1. nbr' = [nbr EXCEPT ![n] = NewNbr(TRUE, @.since)]
      BY <1>2, <2>3, Zenon DEF AddNeighbor
    <3>2. /\ nbr'[n] = NewNbr(TRUE, nbr[n].since) /\ \A m \in Neighbor \ {n} : nbr'[m] = nbr[m]
      BY <3>1, Zenon DEF LinkInv, LinkTypeOK
    <3>3. nbr'[n].conf /\ nbr'[n].state = "idle"
      BY <3>2 DEF NewNbr
    <3>4. op'.kind = "add" /\ op'.n = n /\ op'.kind # "remove" /\ op'.step # 2
      BY <1>2, <2>3 DEF AddNeighbor
    <3>5. DropInv'
      BY <2>1, <2>3, <3>4, Zenon DEF LinkInv, DropInv
    <3>6. ConfInv'
      BY <2>1, <3>2, <3>3, <3>4, Zenon DEF LinkInv, ConfInv
    <3>7. WordInv'
      BY <2>1, <3>2, <3>3, WordQuiet, Zenon
    <3> QED BY <3>5, <3>6, <3>7, Zenon
  <2> QED BY <2>2, <2>3, Zenon
<1>3. ASSUME DeletePeer PROVE DropInv' /\ ConfInv' /\ WordInv'
  <2>1. op.kind = "remove" /\ op' = NoOp /\ op.n \in Neighbor /\ UNCHANGED <<nbr, drop, dropped>>
        /\ op.kind # "add"
    BY <1>3, <1>0 DEF DeletePeer
  <2>2. CASE /\ sess' = [sess EXCEPT ![op.n] = NewSess("none")]
             /\ UNCHANGED evq \/ Report(PeerEvent(op.n, "IDLE"))
    <3>1. sess'[op.n] = NewSess("none") /\ \A m \in Neighbor \ {op.n} : sess'[m] = sess[m]
      BY <2>1, <2>2, Zenon DEF LinkInv, LinkTypeOK
    <3>2. sess'[op.n].st = "none" /\ ~sess'[op.n].enabled /\ ~sess'[op.n].tried
      BY <3>1, NewFields, Zenon
    <3>3. DropInv'
      BY <2>1, <3>1, <3>2, Zenon DEF LinkInv, DropInv
    <3>4. ConfInv'
      BY <1>0, <2>1, <3>1, <3>2, Zenon DEF LinkInv, ConfInv
    <3>5. PeerEvent(op.n, "IDLE") \in Events /\ PeerEvent(op.n, "IDLE").n = op.n
      BY <2>1 DEF PeerEvent, Events
    <3>6. ASSUME NEW m \in Neighbor \ {op.n} PROVE sess'[m].tried /\ sess'[m].st # "up" => NotUp(m)'
      BY <2>1, <2>2, <3>1, <3>5, WordOthers, Zenon DEF LinkInv
    <3> QED BY <3>2, <3>3, <3>4, <3>6, Zenon DEF WordInv
  <2>3. CASE sess' = [sess EXCEPT ![op.n].kept = TRUE] /\ UNCHANGED evq
    <3>0. sess[op.n] \in SessState
      BY <2>1, Zenon DEF LinkInv, LinkTypeOK
    <3>1. /\ sess'[op.n] = [sess[op.n] EXCEPT !.kept = TRUE]
          /\ \A m \in Neighbor \ {op.n} : sess'[m] = sess[m]
      BY <2>1, <2>3, Zenon DEF LinkInv, LinkTypeOK
    <3>2. \A m \in Neighbor : /\ sess'[m].st = sess[m].st /\ sess'[m].enabled = sess[m].enabled
                              /\ sess'[m].tried = sess[m].tried
      <4>1. /\ sess'[op.n].st = sess[op.n].st /\ sess'[op.n].enabled = sess[op.n].enabled
            /\ sess'[op.n].tried = sess[op.n].tried
        BY <3>0, <3>1, SessFields
      <4> QED BY <3>1, <4>1, Zenon
    <3>3. DropInv'
      BY <2>1, <3>2, Zenon DEF LinkInv, DropInv
    <3>4. ConfInv'
      BY <1>0, <2>1, <3>2, Zenon DEF LinkInv, ConfInv
    <3>5. WordInv'
      BY <2>1, <2>3, <3>2, WordQuiet, Zenon
    <3> QED BY <3>3, <3>4, <3>5, Zenon
  <2> QED BY <1>3, <2>2, <2>3, Zenon DEF DeletePeer
<1>4. ASSUME AddPeer PROVE DropInv' /\ ConfInv' /\ WordInv'
  <2>1. /\ op.kind = "add" /\ op.n \in Neighbor /\ op'.kind = "add" /\ op'.n = op.n
        /\ op'.kind # "remove"
    BY <1>4, <1>0 DEF AddPeer, LinkInv, LinkTypeOK, NoOp, OpState
  <2>2. UNCHANGED <<nbr, evq, drop, dropped>>
    BY <1>4, Zenon DEF AddPeer, learnedVars
  <2>5. ConfInv'
    BY <2>1, <2>2, Zenon DEF LinkInv, ConfInv
  <2>3. CASE /\ sess' = [sess EXCEPT ![op.n] = IF @.st = "none" THEN NewSess("new") ELSE @]
             /\ sess[op.n].st = "none"
    <3>1. sess'[op.n] = NewSess("new") /\ \A m \in Neighbor \ {op.n} : sess'[m] = sess[m]
      BY <2>1, <2>3, Zenon DEF LinkInv, LinkTypeOK
    <3>2. sess'[op.n].st = "new" /\ ~sess'[op.n].tried /\ sess'[op.n].st # "none"
      BY <3>1, NewFields
    <3>3. DropInv'
      BY <2>1, <2>2, <3>1, <3>2, Zenon DEF LinkInv, DropInv
    <3>4. WordInv'
      BY <2>2, <3>1, <3>2, WordQuiet, Zenon
    <3> QED BY <2>5, <3>3, <3>4, Zenon
  <2>4. CASE sess' = sess
    <3>1. DropInv'
      BY <2>1, <2>2, <2>4, Zenon DEF LinkInv, DropInv
    <3>2. WordInv'
      BY <2>2, <2>4, WordQuiet, Zenon
    <3> QED BY <2>5, <3>1, <3>2, Zenon
  <2>6. sess[op.n].st # "none" =>
          [sess EXCEPT ![op.n] = IF @.st = "none" THEN NewSess("new") ELSE @] = sess
    BY <2>1, Zenon DEF LinkInv, LinkTypeOK
  <2> QED BY <1>4, <2>3, <2>4, <2>6, Zenon DEF AddPeer
<1>5. ASSUME Recheck PROVE DropInv' /\ ConfInv' /\ WordInv'
  <2>1. op.kind = "add" /\ op.n \in Neighbor /\ op' = NoOp /\ UNCHANGED <<nbr, dropped>>
    BY <1>5, <1>0, Zenon DEF Recheck
  <2>2. CASE dropped
    <3>1. /\ WordInv' /\ drop'.step = drop.step /\ drop'.todo = drop.todo \ {op.n}
          /\ \/ /\ drop'.failed = drop.failed /\ ~sess'[op.n].enabled /\ sess'[op.n].st = "new"
                /\ sess[op.n].st # "none" /\ \A m \in Neighbor \ {op.n} : sess'[m] = sess[m]
             \/ drop'.failed = drop.failed \cup {op.n} /\ UNCHANGED sess
      BY <1>5, <2>1, <2>2, DisableKeeps, Zenon DEF Recheck, LinkInv
    <3>2. DropInv'
      <4>1. sess'[op.n].st = "new" => sess'[op.n].st # "none"
        OBVIOUS
      <4>2. \A m \in Neighbor \ {op.n} : sess'[m] = sess[m]
        BY <3>1, Zenon
      <4>3. ASSUME drop'.step = 2, NEW m \in Neighbor \ drop'.failed
            PROVE  m \in drop'.todo \/ (~sess'[m].enabled /\ sess'[m].st \in {"none", "new"})
        <5>1. CASE m = op.n
          BY <3>1, <4>3, <5>1, Zenon
        <5>2. CASE m # op.n
          BY <3>1, <4>2, <4>3, <5>2, Zenon DEF LinkInv, DropInv
        <5> QED BY <5>1, <5>2, Zenon
      <4>4. \A m \in Neighbor : sess'[m].st = "none" => ~sess'[m].enabled
        BY <3>1, <4>1, Zenon DEF LinkInv, DropInv
      <4> QED BY <2>1, <2>2, <4>3, <4>4, Zenon DEF DropInv
    <3>3. ConfInv'
      BY <1>0, <2>1, Zenon DEF LinkInv, ConfInv
    <3> QED BY <3>1, <3>2, <3>3, Zenon
  <2>3. CASE ~dropped
    <3>1. UNCHANGED <<sess, evq, drop>>
      BY <1>5, <2>3, Zenon DEF Recheck
    <3>two. 2 # 0
      OBVIOUS
    <3>2. DropInv'
      BY <2>1, <2>3, <3>1, <3>two, Zenon DEF LinkInv, DropInv
    <3>4. ConfInv'
      BY <1>0, <2>1, Zenon DEF LinkInv, ConfInv
    <3>5. WordInv'
      BY <2>1, <3>1, WordQuiet, Zenon
    <3> QED BY <3>2, <3>4, <3>5, Zenon
  <2> QED BY <2>2, <2>3, Zenon
<1> QED BY <1>1, <1>2, <1>3, <1>4, <1>5, Zenon

\* DropSessions: the mark comes before the list, and a listed peer is shut.
LEMMA DropSteps ==
  ASSUME LinkInv
  PROVE  /\ DropMark \/ DropList => DropInv' /\ ConfInv' /\ WordInv'
         /\ \A n \in Neighbor : DropOne(n) => DropInv' /\ ConfInv' /\ WordInv'
<1>1. ASSUME DropMark PROVE DropInv' /\ ConfInv' /\ WordInv'
  <2>1. UNCHANGED <<nbr, sess, evq, op>> /\ dropped'
    BY <1>1, Zenon DEF DropMark, learnedVars
  <2>2. drop'.step # 2
    BY <1>1 DEF DropMark, LinkInv, LinkTypeOK, DropState
  <2>3. DropInv' /\ ConfInv'
    BY <2>1, <2>2, Zenon DEF LinkInv, DropInv, ConfInv
  <2> QED BY <2>1, <2>3, WordQuiet, Zenon
<1>2. ASSUME DropList PROVE DropInv' /\ ConfInv' /\ WordInv'
  <2>1. UNCHANGED <<nbr, sess, evq, op, dropped>>
    BY <1>2, Zenon DEF DropList, learnedVars
  <2>2. /\ drop.step # 0
        /\ drop'.todo = {n \in Neighbor : sess[n].st # "none"} \/ drop'.failed = Neighbor
    <3>1. drop.step # 0
      BY <1>2 DEF DropList
    <3>2. DOMAIN drop = {"step", "todo", "failed"}
      BY DEF LinkInv, LinkTypeOK, DropState
    <3> QED BY <1>2, <3>1, <3>2, Zenon DEF DropList
  <2>3. DropInv'
    BY <2>1, <2>2, Zenon DEF LinkInv, DropInv
  <2>4. ConfInv'
    BY <2>1, Zenon DEF LinkInv, ConfInv
  <2> QED BY <2>1, <2>3, <2>4, WordQuiet, Zenon
<1>3. ASSUME NEW n \in Neighbor, DropOne(n) PROVE DropInv' /\ ConfInv' /\ WordInv'
  <2>1. UNCHANGED <<nbr, op, dropped>> /\ drop.step = 2
    BY <1>3, Zenon DEF DropOne
  <2>2. /\ WordInv' /\ drop'.step = drop.step /\ drop'.todo = drop.todo \ {n}
        /\ \/ /\ drop'.failed = drop.failed /\ ~sess'[n].enabled /\ sess'[n].st = "new"
              /\ sess[n].st # "none" /\ \A m \in Neighbor \ {n} : sess'[m] = sess[m]
           \/ drop'.failed = drop.failed \cup {n} /\ UNCHANGED sess
    BY <1>3, <2>1, DisableKeeps, Zenon DEF DropOne, LinkInv
  <2>3. \A m \in Neighbor \ {n} : sess'[m] = sess[m]
    BY <2>2, Zenon
  <2>4. sess'[n].st = "none" => sess[n].st = "none" /\ sess' = sess
    BY <2>2
  <2>5. sess[n].st = "none" => sess'[n].st = "none"
    BY <2>2, Zenon
  <2>6. DropInv'
    <3>1. ASSUME NEW m \in Neighbor \ drop'.failed
          PROVE  \/ m \in drop'.todo \/ (op'.kind = "add" /\ op'.n = m)
                 \/ ~sess'[m].enabled /\ sess'[m].st \in {"none", "new"}
      <4>1. CASE m = n
        BY <2>2, <4>1, Zenon
      <4>2. CASE m # n
        BY <2>1, <2>2, <2>3, <4>2, Zenon DEF LinkInv, DropInv
      <4> QED BY <4>1, <4>2, Zenon
    <3>2. \A m \in Neighbor : sess'[m].st = "none" => ~sess'[m].enabled
      BY <2>3, <2>4, Zenon DEF LinkInv, DropInv
    <3> QED BY <2>1, <2>2, <3>1, <3>2, Zenon DEF LinkInv, DropInv
  <2>7. ConfInv'
    BY <2>1, Zenon DEF LinkInv, ConfInv
  <2> QED BY <2>2, <2>6, <2>7, Zenon
<1> QED BY <1>1, <1>2, <1>3, Zenon

\* A read of the capabilities changes only the view's add-path mark.
LEMMA CapabilityStep ==
  ASSUME LinkInv, NEW r \in reads, SetCapability(r) PROVE DropInv' /\ ConfInv' /\ WordInv'
<1>1. UNCHANGED <<sess, evq, op, drop, dropped>>
  BY Zenon DEF SetCapability, linkVars
<1>2. \A n \in Neighbor : nbr'[n].conf = nbr[n].conf /\ nbr'[n].state = nbr[n].state
  BY DEF SetCapability, LinkInv, LinkTypeOK, NbrState
<1>3. op.kind \in {"add", "remove"} => op.n \in Neighbor
  BY DEF LinkInv, LinkTypeOK, NoOp, OpState
<1>4. DropInv' /\ ConfInv'
  BY <1>1, <1>2, <1>3, Zenon DEF LinkInv, DropInv, ConfInv
<1> QED BY <1>1, <1>2, <1>4, WordQuiet, Zenon

LEMMA LinkInit == ASSUME RibInit PROVE LinkInv
<1>1. PICK s \in RibStarts :
        /\ nbr = [n \in Neighbor |-> NewNbr(n \in s.nbrs, 0)]
        /\ sess = [n \in Neighbor |-> NewSess(IF n \in s.nbrs THEN "new" ELSE "none")]
        /\ evq = <<>> /\ dropped = FALSE
        /\ op = NoOp /\ drop = [step |-> 0, todo |-> {}, failed |-> {}]
  BY Zenon DEF RibInit
<1>2. nbr \in [Neighbor -> NbrState]
  BY <1>1 DEF NewNbr, NbrState
<1>3. sess \in [Neighbor -> SessState]
  BY <1>1, NewTypes DEF NbrState
<1>4. evq \in Seq(Events) /\ drop \in DropState
  BY <1>1 DEF DropState
<1>5. LinkTypeOK
  BY <1>1, <1>2, <1>3, <1>4, Zenon DEF LinkTypeOK
<1>6. DropInv
  <2>1. drop.step = 0
    BY <1>1
  <2>2. \A n \in Neighbor : sess[n].st = "none" => ~sess[n].enabled
    BY <1>1 DEF NewSess
  <2> QED BY <2>1, <2>2 DEF DropInv
<1>7. ConfInv
  BY <1>1 DEF ConfInv, NewSess, NewNbr, NoOp
<1>8. WordInv
  BY <1>1 DEF WordInv, NewSess
<1> QED BY <1>5, <1>6, <1>7, <1>8, Zenon DEF LinkInv

LEMMA LinkStep == ASSUME LinkInv, [RibNext]_ribVars PROVE LinkInv'
<1>1. CASE RibNext
  <2>1. LinkTypeOK'
    BY <1>1, LinkTypeStep, Zenon DEF LinkInv
  <2>2. ASSUME OtherStep \/ UNCHANGED linkState PROVE DropInv' /\ ConfInv' /\ WordInv'
    <3>1. UNCHANGED linkState
      BY <2>2, OtherUnchanged, Zenon
    <3>2. DropInv' /\ ConfInv'
      BY <3>1, Zenon DEF LinkInv, DropInv, ConfInv, linkState
    <3> QED BY <3>1, <3>2, WordQuiet, Zenon DEF linkState
  <2>3. DropInv' /\ ConfInv' /\ WordInv'
    BY <1>1, <2>2, SessionSteps, EventStep, ReloadSteps, DropSteps, CapabilityStep, Zenon
       DEF RibNext, OtherStep
  <2> QED BY <2>1, <2>3, Zenon DEF LinkInv
<1>2. CASE UNCHANGED ribVars
  <2>1. UNCHANGED linkState
    BY <1>2, Zenon DEF ribVars, linkState, learnedVars, linkVars
  <2>2. LinkTypeOK' /\ DropInv' /\ ConfInv'
    BY <2>1, Zenon DEF LinkInv, LinkTypeOK, DropInv, ConfInv, linkState
  <2> QED BY <2>1, <2>2, WordQuiet, Zenon DEF LinkInv, linkState
<1> QED BY <1>1, <1>2, Zenon

\* The sessions, the events under way and the calls of a reload and of a
\* shutdown always fit together, whatever routers and calls do.
THEOREM LinksHold == RibSpec => []LinkInv
<1>1. RibInit => LinkInv
  BY LinkInit
<1>2. LinkInv /\ [RibNext]_ribVars => LinkInv'
  BY LinkStep
<1> QED BY <1>1, <1>2, PTL DEF RibSpec

\* DropSessions: once it has gone through the peers, every session it could
\* shut is down, a peer that a reload added meanwhile included, and a view
\* that has read its events is not ready; for any number of neighbors,
\* failures, reloads and session events.
THEOREM DroppedIsDown == RibSpec => []DroppedStaysDown
<1>1. ASSUME LinkInv PROVE DroppedStaysDown
  <2> SUFFICES ASSUME drop.step = 2, drop.todo = {}, op = NoOp
               PROVE  /\ \A n \in Neighbor \ drop.failed : ~sess[n].enabled /\ sess[n].st \in {"none", "new"}
                      /\ (evq = <<>> /\ drop.failed = {} /\ Settled = Neighbor) => ~Ready
    BY Zenon DEF DroppedStaysDown
  <2>1. op.kind # "add"
    BY DEF NoOp
  <2>2. \A n \in Neighbor \ drop.failed : ~sess[n].enabled /\ sess[n].st \in {"none", "new"}
    BY <1>1, <2>1, Zenon DEF LinkInv, DropInv
  <2>3. ASSUME evq = <<>>, drop.failed = {}, Settled = Neighbor, NEW n \in Neighbor, nbr[n].state = "up"
        PROVE  FALSE
    <3>1. Pending(n) = {}
      BY <2>3 DEF Pending
    <3>2. "idle" # "up" /\ "none" # "up" /\ "new" # "up"
      OBVIOUS
    <3>3. nbr[n].conf
      BY <1>1, <2>1, <2>3, <3>2, Zenon DEF LinkInv, ConfInv
    <3>4. sess[n].tried
      BY <2>3, <3>3, Zenon DEF Settled
    <3>5. sess[n].st # "up"
      BY <2>2, <2>3, <3>2, Zenon
    <3> QED BY <1>1, <2>3, <3>1, <3>4, <3>5, Zenon DEF LinkInv, WordInv, NotUp
  <2> QED BY <2>2, <2>3, Zenon DEF Ready
<1> QED BY <1>1, LinksHold, PTL
=============================================================================
