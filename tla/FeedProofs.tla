----------------------------- MODULE FeedProofs -----------------------------
(***************************************************************************)
(* The fail-safe of the external policy feed for every ttl, interval,      *)
(* delay and set of prefixes: routes are off the daemon in time, the feed  *)
(* lists what is on the wire, and a stopped consumer leaves nothing.       *)
(***************************************************************************)
EXTENDS Feed, TLAPS

\* The longest ttl, and the ages and times built from it, are natural numbers.
LEMMA Constants ==
  /\ MaxTTL \in Nat /\ \A t \in TTLs : t \in Nat /\ t <= MaxTTL
  /\ Cap \in Nat /\ Interval \in 0..Cap /\ Deadline \in Nat
  /\ Cap = Deadline + 2 * ApplyTime
  /\ ApplyTime \in Nat \ {0} /\ Transit \in Nat /\ Slack \in Nat
  /\ StartPoll \in Nat \ {0} /\ Retry \in Nat \ {0} /\ MaxEvents \in Nat
<1>1. PICK t \in TTLs : \A u \in TTLs : u <= t
  BY FeedAssumption, Zenon
<1>2. MaxTTL \in TTLs /\ \A u \in TTLs : u <= MaxTTL
  BY <1>1, Zenon DEF MaxTTL
<1> QED
  BY <1>2, FeedAssumption DEF Cap, Deadline

\* A heartbeat is at least one unit of time.
LEMMA HeartbeatType == \A t \in TTLs : HeartbeatOf(t) \in Nat \ {0}
<1> SUFFICES ASSUME NEW t \in TTLs PROVE HeartbeatOf(t) \in Nat \ {0}
  BY Zenon
<1>1. t \in Nat
  BY Constants, Zenon
<1>2. t \div 3 \in Int
  BY <1>1
<1> QED
  BY <1>2 DEF HeartbeatOf

\* What Document returns; the routes of a document with time left expire with
\* the round that published them.
LEMMA DocumentType ==
  ASSUME TypeOK
  PROVE  /\ Document \in Doc
         /\ Document.left > 0 =>
              feed.age # Never /\ feed.age + Document.left <= MaxTTL
<1> DEFINE live == feed.age # Never /\ feed.enabled /\ ~feed.closed
                   /\ feed.age < feed.ttl
<1>1. /\ feed.rev \in Nat /\ feed.ttl \in TTLs /\ feed.routes \subseteq Prefix
      /\ feed.age \in {Never} \cup 0..Cap
  BY Zenon DEF TypeOK, FeedState
<1>2. /\ feed.ttl \in Nat /\ feed.ttl <= MaxTTL /\ MaxTTL \in Nat
      /\ HeartbeatOf(feed.ttl) \in Nat \ {0}
  BY <1>1, Constants, HeartbeatType, Zenon
<1>3. live => feed.age \in Nat /\ feed.ttl - feed.age \in Nat
              /\ feed.age + (feed.ttl - feed.age) <= MaxTTL
  BY <1>1, <1>2, Constants DEF Never
<1>4. Document = [rev |-> feed.rev, poll |-> HeartbeatOf(feed.ttl),
                  left |-> IF live THEN feed.ttl - feed.age ELSE 0,
                  routes |-> IF live THEN feed.routes ELSE {}]
  BY Zenon DEF Document
<1> HIDE DEF live
<1>5. CASE live
  BY <1>1, <1>2, <1>3, <1>4, <1>5, Zenon DEF Doc, live
<1>6. CASE ~live
  BY <1>1, <1>2, <1>4, <1>6 DEF Doc
<1> QED
  BY <1>5, <1>6, Zenon

\* How long a fetch or a pause lasts: a time, and never past the deadline.
LEMMA LimitType ==
  ASSUME NEW c \in Consumer
  PROVE  Limit(c) \in Nat /\ (c.left > 0 => Limit(c) <= c.left)
<1>1. c.left \in Nat /\ c.poll \in Nat
  BY Zenon DEF Consumer
<1> QED
  BY <1>1, Constants DEF Limit, PollEvery, Lower

\* The consumer that has read a document.
LEMMA GotType ==
  ASSUME NEW c \in Consumer, NEW d \in Doc
  PROVE  [c EXCEPT !.left = d.left, !.rev = d.rev, !.haveRev = TRUE,
                   !.poll = d.poll] \in Consumer
<1>1. d.left \in Nat /\ d.rev \in Nat /\ d.poll \in Nat
  BY Zenon DEF Doc
<1> QED
  BY ZenonT(60), <1>1 DEF Consumer

\* What put makes of a consumer.
LEMMA PutType ==
  ASSUME NEW c \in Consumer, NEW want \in SUBSET Prefix,
         NEW next \in {"top", "ask", "failed", "final", "stopped"}
  PROVE  Put(c, want, next) \in Consumer
<1> QED
  BY ZenonT(60), Constants DEF Put, Consumer

\* Changing fields of a feed within their types gives a feed.
LEMMA FeedUpdate ==
  ASSUME NEW f \in FeedState
  PROVE  /\ \A w \in SUBSET Prefix : [f EXCEPT !.wire = w] \in FeedState
         /\ \A r \in SUBSET Prefix, n \in Nat :
              [f EXCEPT !.routes = r, !.rev = n] \in FeedState
         /\ \A a \in {Never} \cup 0..Cap, r \in SUBSET Prefix, n \in Nat :
              [f EXCEPT !.age = a, !.routes = r, !.rev = n] \in FeedState
         /\ \A n \in Nat, e \in BOOLEAN, t \in TTLs :
              [f EXCEPT !.rev = n, !.enabled = e, !.ttl = t] \in FeedState
         /\ \A n \in Nat : [f EXCEPT !.closed = TRUE, !.rev = n] \in FeedState
<1>1. \A w \in SUBSET Prefix : [f EXCEPT !.wire = w] \in FeedState
  BY Zenon DEF FeedState
<1>2. \A r \in SUBSET Prefix, n \in Nat :
        [f EXCEPT !.routes = r, !.rev = n] \in FeedState
  BY ZenonT(60) DEF FeedState
<1>3. \A a \in {Never} \cup 0..Cap, r \in SUBSET Prefix, n \in Nat :
        [f EXCEPT !.age = a, !.routes = r, !.rev = n] \in FeedState
  BY ZenonT(60) DEF FeedState
<1>4. \A n \in Nat, e \in BOOLEAN, t \in TTLs :
        [f EXCEPT !.rev = n, !.enabled = e, !.ttl = t] \in FeedState
  BY ZenonT(60) DEF FeedState
<1>5. \A n \in Nat : [f EXCEPT !.closed = TRUE, !.rev = n] \in FeedState
  BY ZenonT(60) DEF FeedState
<1> QED
  BY ZenonT(60), <1>1, <1>2, <1>3, <1>4, <1>5

\* What is published after a withdraw is part of what was.
LEMMA UnpublishType ==
  ASSUME NEW f \in FeedState, NEW gone \in SUBSET Prefix
  PROVE  /\ Unpublish(f, gone) \in FeedState
         /\ Unpublish(f, gone).wire = f.wire
         /\ Unpublish(f, gone).closed = f.closed
         /\ Unpublish(f, gone).age = f.age
         /\ ~f.closed => Unpublish(f, gone).routes = f.routes \ gone
<1>1. f.rev + 1 \in Nat /\ f.routes \ gone \in SUBSET Prefix
  BY DEF FeedState
<1>2. [f EXCEPT !.routes = @ \ gone, !.rev = @ + 1] \in FeedState
  BY ZenonT(60), <1>1, FeedUpdate
<1>3. CASE f.closed \/ f.routes \cap gone = {}
  BY <1>3, Zenon DEF Unpublish
<1>4. CASE ~(f.closed \/ f.routes \cap gone = {})
  BY <1>2, <1>4, Zenon DEF Unpublish, FeedState
<1> QED
  BY <1>3, <1>4, Zenon

\* The empty request is a request.
LEMMA NoReqType == NoReq \in Request
BY DEF NoReq, Request, NoDoc, Doc

\* What the two history variables become: only MirrorFails adds to torn and
\* only ApplyFails sets half.
LEMMA GhostStep ==
  ASSUME [Next]_vars
  PROVE  /\ torn' \in {torn, torn \cup (inner \ inner'), torn \ call.on, {}}
         /\ half' \in {half, FALSE, half \/ daemon' # daemon}
<1>1. torn' \in {torn, torn \cup (inner \ inner'), torn \ call.on, {}}
  BY Zenon DEF Next, vars, feedSide, MirrorCall, MirrorFails, MirrorRecord,
     RoundStart, Touch, SetRuntime, Close, ServerArm, ServerCheck, ServerTimer,
     ServerAnswer, StepTop, StepFetch, StepDocument, StepError, Lose, Pause,
     Wake, ApplyDone, ApplyFails, Stop, StopFinal, ConsumerCrash,
     ConsumerStart, Freeze, Thaw, Exit, Crash, Gone, Restart, Tick
<1>2. half' \in {half, FALSE, half \/ daemon' # daemon}
  BY Zenon DEF Next, vars, conSide, MirrorCall, MirrorFails, MirrorRecord,
     RoundStart, Touch, SetRuntime, Close, ServerArm, ServerCheck, ServerTimer,
     ServerAnswer, StepTop, StepFetch, StepDocument, StepError, Lose, Pause,
     Wake, ApplyDone, ApplyFails, Stop, StopFinal, ConsumerCrash,
     ConsumerStart, Freeze, Thaw, Exit, Crash, Gone, Restart, Tick
<1> QED
  BY <1>1, <1>2, Zenon

\* Every action keeps the types.
LEMMA TypeStep == TypeOK /\ [Next]_vars => TypeOK'
<1> SUFFICES ASSUME TypeOK, [Next]_vars PROVE TypeOK'
  BY Zenon
<1>0. torn' \subseteq Prefix /\ half' \in BOOLEAN
  BY GhostStep, Zenon DEF TypeOK
<1>1. CASE MirrorCall
  <2>1. inner' \subseteq Prefix
    BY <1>1, Zenon DEF MirrorCall, TypeOK
  <2>2. call' \in Call
    BY <1>1 DEF MirrorCall, TypeOK, Call, FeedState
  <2>3. events' \in 0..MaxEvents
    BY <1>1, Constants DEF MirrorCall, Event, TypeOK
  <2>4. healthy' \in BOOLEAN
    BY <1>1, Zenon DEF MirrorCall, TypeOK
  <2>5. /\ ctl' \in {"up", "frozen", "down"}
        /\ feed' \in FeedState
        /\ round' \in [open : BOOLEAN, age : 0..Cap]
        /\ req' \in Request
        /\ con' \in Consumer
        /\ daemon' \subseteq Prefix
        /\ renewed' \in {Never} \cup 0..Cap
        /\ lag' \in [Prefix -> 0..Cap]
    BY <1>1, Zenon DEF MirrorCall, TypeOK
  <2> QED
    BY <1>0, <2>1, <2>2, <2>3, <2>4, <2>5, Zenon DEF TypeOK
<1>2. CASE MirrorRecord
  <2>1. feed' \in FeedState
    <3>1. feed \in FeedState /\ call.on \in SUBSET Prefix
      BY Zenon DEF TypeOK, Call
    <3>2. /\ feed.wire \cup call.on \in SUBSET Prefix
          /\ feed.wire \ call.on \in SUBSET Prefix
      BY <3>1, Zenon DEF FeedState
    <3>3. /\ [feed EXCEPT !.wire = feed.wire \cup call.on] \in FeedState
          /\ [feed EXCEPT !.wire = feed.wire \ call.on] \in FeedState
      BY ZenonT(60), <3>1, <3>2, FeedUpdate
    <3> QED
      BY <1>2, <3>1, <3>3, UnpublishType, Zenon DEF MirrorRecord
  <2>2. call' \in Call
    BY <1>2, Zenon DEF MirrorRecord, TypeOK, NoCall, Call
  <2>3. /\ ctl' \in {"up", "frozen", "down"}
        /\ inner' \subseteq Prefix
        /\ round' \in [open : BOOLEAN, age : 0..Cap]
        /\ req' \in Request
        /\ con' \in Consumer
        /\ daemon' \subseteq Prefix
        /\ renewed' \in {Never} \cup 0..Cap
        /\ lag' \in [Prefix -> 0..Cap]
        /\ healthy' \in BOOLEAN /\ events' \in 0..MaxEvents
    BY <1>2, Zenon DEF MirrorRecord, TypeOK, NoEvent
  <2> QED
    BY <1>0, <2>1, <2>2, <2>3, Zenon DEF TypeOK
<1>3. CASE RoundStart
  <2>1. round' \in [open : BOOLEAN, age : 0..Cap]
    BY <1>3, Constants DEF RoundStart, TypeOK
  <2>2. /\ ctl' \in {"up", "frozen", "down"}
        /\ feed' \in FeedState
        /\ inner' \subseteq Prefix
        /\ call' \in Call
        /\ req' \in Request
        /\ con' \in Consumer
        /\ daemon' \subseteq Prefix
        /\ renewed' \in {Never} \cup 0..Cap
        /\ lag' \in [Prefix -> 0..Cap]
        /\ healthy' \in BOOLEAN /\ events' \in 0..MaxEvents
    BY <1>3, Zenon DEF RoundStart, TypeOK, NoEvent
  <2> QED
    BY <1>0, <2>1, <2>2, Zenon DEF TypeOK
<1>4. CASE Touch
  <2>1. feed' \in FeedState
    <3>1. /\ feed \in FeedState /\ feed.wire \in SUBSET Prefix
          /\ round.age \in {Never} \cup 0..Cap
          /\ feed.rev \in Nat /\ feed.rev + 1 \in Nat
      BY DEF TypeOK, FeedState
    <3> QED
      BY ZenonT(60), <1>4, <3>1, FeedUpdate DEF Touch
  <2>2. round' \in [open : BOOLEAN, age : 0..Cap]
    BY ZenonT(60), <1>4 DEF Touch, TypeOK
  <2>3. renewed' \in {Never} \cup 0..Cap
    BY <1>4, Zenon DEF Touch, TypeOK
  <2>4. lag' \in [Prefix -> 0..Cap]
    BY <1>4, Constants DEF Touch, TypeOK
  <2>5. /\ ctl' \in {"up", "frozen", "down"}
        /\ inner' \subseteq Prefix
        /\ call' \in Call
        /\ req' \in Request
        /\ con' \in Consumer
        /\ daemon' \subseteq Prefix
        /\ healthy' \in BOOLEAN /\ events' \in 0..MaxEvents
    BY <1>4, Zenon DEF Touch, TypeOK, NoEvent
  <2> QED
    BY <1>0, <2>1, <2>2, <2>3, <2>4, <2>5, Zenon DEF TypeOK
<1>5. CASE SetRuntime
  <2>1. feed' \in FeedState
    <3>1. feed \in FeedState /\ feed.rev + 1 \in Nat
      BY DEF TypeOK, FeedState
    <3> QED
      <4>1. PICK t \in TTLs, e \in BOOLEAN :
              feed' = [feed EXCEPT !.rev = @ + 1, !.enabled = e, !.ttl = t]
        BY ZenonT(60), <1>5 DEF SetRuntime
      <4> QED
        BY ZenonT(60), <3>1, <4>1, FeedUpdate
  <2>2. events' \in 0..MaxEvents
    BY <1>5, Constants DEF SetRuntime, Event, TypeOK
  <2>3. healthy' \in BOOLEAN
    BY ZenonT(60), <1>5 DEF SetRuntime, TypeOK
  <2>4. /\ ctl' \in {"up", "frozen", "down"}
        /\ inner' \subseteq Prefix
        /\ call' \in Call
        /\ round' \in [open : BOOLEAN, age : 0..Cap]
        /\ req' \in Request
        /\ con' \in Consumer
        /\ daemon' \subseteq Prefix
        /\ renewed' \in {Never} \cup 0..Cap
        /\ lag' \in [Prefix -> 0..Cap]
    BY <1>5, Zenon DEF SetRuntime, TypeOK
  <2> QED
    BY <1>0, <2>1, <2>2, <2>3, <2>4, Zenon DEF TypeOK
<1>6. CASE Close
  <2>1. feed' \in FeedState
    <3>1. feed \in FeedState /\ feed.rev + 1 \in Nat
      BY DEF TypeOK, FeedState
    <3> QED
      BY ZenonT(60), <1>6, <3>1, FeedUpdate DEF Close
  <2>2. events' \in 0..MaxEvents
    BY <1>6, Constants DEF Close, Event, TypeOK
  <2>3. healthy' \in BOOLEAN
    BY ZenonT(60), <1>6 DEF Close, TypeOK
  <2>4. /\ ctl' \in {"up", "frozen", "down"}
        /\ inner' \subseteq Prefix
        /\ call' \in Call
        /\ round' \in [open : BOOLEAN, age : 0..Cap]
        /\ req' \in Request
        /\ con' \in Consumer
        /\ daemon' \subseteq Prefix
        /\ renewed' \in {Never} \cup 0..Cap
        /\ lag' \in [Prefix -> 0..Cap]
    BY <1>6, Zenon DEF Close, TypeOK
  <2> QED
    BY <1>0, <2>1, <2>2, <2>3, <2>4, Zenon DEF TypeOK
<1>7. CASE ServerArm
  <2>1. req' \in Request
    BY ZenonT(60), <1>7, HeartbeatType
       DEF ServerArm, TypeOK, Request, FeedState
  <2>2. /\ ctl' \in {"up", "frozen", "down"}
        /\ feed' \in FeedState
        /\ inner' \subseteq Prefix
        /\ call' \in Call
        /\ round' \in [open : BOOLEAN, age : 0..Cap]
        /\ con' \in Consumer
        /\ daemon' \subseteq Prefix
        /\ renewed' \in {Never} \cup 0..Cap
        /\ lag' \in [Prefix -> 0..Cap]
        /\ healthy' \in BOOLEAN /\ events' \in 0..MaxEvents
    BY <1>7, Zenon DEF ServerArm, TypeOK, NoEvent, feedSide, conSide
  <2> QED
    BY <1>0, <2>1, <2>2, Zenon DEF TypeOK
<1>8. CASE ServerCheck
  <2>1. req' \in Request
    BY <1>8, Zenon DEF ServerCheck, TypeOK, Request
  <2>2. /\ ctl' \in {"up", "frozen", "down"}
        /\ feed' \in FeedState
        /\ inner' \subseteq Prefix
        /\ call' \in Call
        /\ round' \in [open : BOOLEAN, age : 0..Cap]
        /\ con' \in Consumer
        /\ daemon' \subseteq Prefix
        /\ renewed' \in {Never} \cup 0..Cap
        /\ lag' \in [Prefix -> 0..Cap]
        /\ healthy' \in BOOLEAN /\ events' \in 0..MaxEvents
    BY <1>8, Zenon DEF ServerCheck, TypeOK, NoEvent, feedSide, conSide
  <2> QED
    BY <1>0, <2>1, <2>2, Zenon DEF TypeOK
<1>9. CASE ServerTimer
  <2>1. req' \in Request
    BY <1>9, Zenon DEF ServerTimer, TypeOK, Request
  <2>2. /\ ctl' \in {"up", "frozen", "down"}
        /\ feed' \in FeedState
        /\ inner' \subseteq Prefix
        /\ call' \in Call
        /\ round' \in [open : BOOLEAN, age : 0..Cap]
        /\ con' \in Consumer
        /\ daemon' \subseteq Prefix
        /\ renewed' \in {Never} \cup 0..Cap
        /\ lag' \in [Prefix -> 0..Cap]
        /\ healthy' \in BOOLEAN /\ events' \in 0..MaxEvents
    BY <1>9, Zenon DEF ServerTimer, TypeOK, NoEvent, feedSide, conSide
  <2> QED
    BY <1>0, <2>1, <2>2, Zenon DEF TypeOK
<1>10. CASE ServerAnswer
  <2>1. req' \in Request
    BY ZenonT(60), <1>10, Constants, DocumentType
       DEF ServerAnswer, TypeOK, Request
  <2>2. /\ ctl' \in {"up", "frozen", "down"}
        /\ feed' \in FeedState
        /\ inner' \subseteq Prefix
        /\ call' \in Call
        /\ round' \in [open : BOOLEAN, age : 0..Cap]
        /\ con' \in Consumer
        /\ daemon' \subseteq Prefix
        /\ renewed' \in {Never} \cup 0..Cap
        /\ lag' \in [Prefix -> 0..Cap]
        /\ healthy' \in BOOLEAN /\ events' \in 0..MaxEvents
    BY <1>10, Zenon DEF ServerAnswer, TypeOK, NoEvent, feedSide, conSide
  <2> QED
    BY <1>0, <2>1, <2>2, Zenon DEF TypeOK
<1>11. CASE StepTop
  <2>1. con' \in Consumer
    BY <1>11, PutType DEF StepTop, TypeOK, Consumer
  <2>2. /\ ctl' \in {"up", "frozen", "down"}
        /\ feed' \in FeedState
        /\ inner' \subseteq Prefix
        /\ call' \in Call
        /\ round' \in [open : BOOLEAN, age : 0..Cap]
        /\ req' \in Request
        /\ daemon' \subseteq Prefix
        /\ renewed' \in {Never} \cup 0..Cap
        /\ lag' \in [Prefix -> 0..Cap]
        /\ healthy' \in BOOLEAN /\ events' \in 0..MaxEvents
    BY <1>11, Zenon DEF StepTop, TypeOK, NoEvent, feedSide
  <2> QED
    BY <1>0, <2>1, <2>2, Zenon DEF TypeOK
<1>12. CASE StepFetch
  <2>1. req' \in Request
    BY ZenonT(60), <1>12, NoReqType DEF StepFetch, TypeOK, Request, Consumer
  <2>2. con' \in Consumer
    BY ZenonT(60), <1>12, LimitType DEF StepFetch, TypeOK, Consumer
  <2>3. /\ ctl' \in {"up", "frozen", "down"}
        /\ feed' \in FeedState
        /\ inner' \subseteq Prefix
        /\ call' \in Call
        /\ round' \in [open : BOOLEAN, age : 0..Cap]
        /\ daemon' \subseteq Prefix
        /\ renewed' \in {Never} \cup 0..Cap
        /\ lag' \in [Prefix -> 0..Cap]
        /\ healthy' \in BOOLEAN /\ events' \in 0..MaxEvents
    BY <1>12, Zenon DEF StepFetch, TypeOK, NoEvent, feedSide
  <2> QED
    BY <1>0, <2>1, <2>2, <2>3, Zenon DEF TypeOK
<1>13. CASE StepDocument
  <2>1. req' \in Request
    BY <1>13, NoReqType, Zenon DEF StepDocument, TypeOK
  <2>2. con' \in Consumer
    <3> DEFINE got == [con EXCEPT !.left = req.doc.left, !.rev = req.doc.rev,
                                  !.haveRev = TRUE, !.poll = req.doc.poll]
    <3>1. con \in Consumer /\ req.doc \in Doc /\ req.doc.routes \in SUBSET Prefix
      BY Zenon DEF TypeOK, Request, Doc
    <3>2. got \in Consumer
      BY ZenonT(60), <3>1, GotType
    <3>3. con' = Put(got, IF got.left = 0 THEN {} ELSE req.doc.routes, "top")
      BY <1>13, Zenon DEF StepDocument
    <3> HIDE DEF got
    <3> QED
      BY <3>1, <3>2, <3>3, PutType, Zenon
  <2>3. /\ ctl' \in {"up", "frozen", "down"}
        /\ feed' \in FeedState
        /\ inner' \subseteq Prefix
        /\ call' \in Call
        /\ round' \in [open : BOOLEAN, age : 0..Cap]
        /\ daemon' \subseteq Prefix
        /\ renewed' \in {Never} \cup 0..Cap
        /\ lag' \in [Prefix -> 0..Cap]
        /\ healthy' \in BOOLEAN /\ events' \in 0..MaxEvents
    BY <1>13, Zenon DEF StepDocument, TypeOK, NoEvent, feedSide
  <2> QED
    BY <1>0, <2>1, <2>2, <2>3, Zenon DEF TypeOK
<1>14. CASE StepError
  <2>1. req' \in Request
    BY <1>14, NoReqType, Zenon DEF StepError, TypeOK
  <2>2. con' \in Consumer
    BY <1>14, PutType, Zenon DEF StepError, TypeOK, Consumer, FetchFails
  <2>3. /\ ctl' \in {"up", "frozen", "down"}
        /\ feed' \in FeedState
        /\ inner' \subseteq Prefix
        /\ call' \in Call
        /\ round' \in [open : BOOLEAN, age : 0..Cap]
        /\ daemon' \subseteq Prefix
        /\ renewed' \in {Never} \cup 0..Cap
        /\ lag' \in [Prefix -> 0..Cap]
        /\ healthy' \in BOOLEAN /\ events' \in 0..MaxEvents
    BY <1>14, Zenon DEF StepError, TypeOK, NoEvent, feedSide
  <2> QED
    BY <1>0, <2>1, <2>2, <2>3, Zenon DEF TypeOK
<1>15. CASE Lose
  <2>1. req' \in Request
    BY <1>15, NoReqType, Zenon DEF Lose, TypeOK
  <2>2. events' \in 0..MaxEvents
    BY <1>15, Constants DEF Lose, Event, TypeOK
  <2>3. healthy' \in BOOLEAN
    BY ZenonT(60), <1>15 DEF Lose, TypeOK
  <2>4. /\ ctl' \in {"up", "frozen", "down"}
        /\ feed' \in FeedState
        /\ inner' \subseteq Prefix
        /\ call' \in Call
        /\ round' \in [open : BOOLEAN, age : 0..Cap]
        /\ con' \in Consumer
        /\ daemon' \subseteq Prefix
        /\ renewed' \in {Never} \cup 0..Cap
        /\ lag' \in [Prefix -> 0..Cap]
    BY <1>15, Zenon DEF Lose, TypeOK, feedSide, conSide
  <2> QED
    BY <1>0, <2>1, <2>2, <2>3, <2>4, Zenon DEF TypeOK
<1>16. CASE Pause
  <2>1. con' \in Consumer
    BY ZenonT(60), <1>16, Constants DEF Pause, TypeOK, Consumer, Lower
  <2>2. /\ ctl' \in {"up", "frozen", "down"}
        /\ feed' \in FeedState
        /\ inner' \subseteq Prefix
        /\ call' \in Call
        /\ round' \in [open : BOOLEAN, age : 0..Cap]
        /\ req' \in Request
        /\ daemon' \subseteq Prefix
        /\ renewed' \in {Never} \cup 0..Cap
        /\ lag' \in [Prefix -> 0..Cap]
        /\ healthy' \in BOOLEAN /\ events' \in 0..MaxEvents
    BY <1>16, Zenon DEF Pause, TypeOK, NoEvent, feedSide
  <2> QED
    BY <1>0, <2>1, <2>2, Zenon DEF TypeOK
<1>17. CASE Wake
  <2>1. con' \in Consumer
    BY <1>17, Zenon DEF Wake, TypeOK, Consumer
  <2>2. /\ ctl' \in {"up", "frozen", "down"}
        /\ feed' \in FeedState
        /\ inner' \subseteq Prefix
        /\ call' \in Call
        /\ round' \in [open : BOOLEAN, age : 0..Cap]
        /\ req' \in Request
        /\ daemon' \subseteq Prefix
        /\ renewed' \in {Never} \cup 0..Cap
        /\ lag' \in [Prefix -> 0..Cap]
        /\ healthy' \in BOOLEAN /\ events' \in 0..MaxEvents
    BY <1>17, Zenon DEF Wake, TypeOK, NoEvent, feedSide
  <2> QED
    BY <1>0, <2>1, <2>2, Zenon DEF TypeOK
<1>18. CASE ApplyDone
  <2>1. con' \in Consumer
    BY ZenonT(60), <1>18 DEF ApplyDone, TypeOK, Consumer
  <2>2. daemon' \subseteq Prefix
    BY <1>18, Zenon DEF ApplyDone, TypeOK, Consumer
  <2>3. /\ ctl' \in {"up", "frozen", "down"}
        /\ feed' \in FeedState
        /\ inner' \subseteq Prefix
        /\ call' \in Call
        /\ round' \in [open : BOOLEAN, age : 0..Cap]
        /\ req' \in Request
        /\ renewed' \in {Never} \cup 0..Cap
        /\ lag' \in [Prefix -> 0..Cap]
        /\ healthy' \in BOOLEAN /\ events' \in 0..MaxEvents
    BY <1>18, Zenon DEF ApplyDone, TypeOK, NoEvent, feedSide
  <2> QED
    BY <1>0, <2>1, <2>2, <2>3, Zenon DEF TypeOK
<1>19. CASE ApplyFails
  <2>1. con' \in Consumer
    BY ZenonT(60), <1>19 DEF ApplyFails, TypeOK, Consumer
  <2>2. daemon' \subseteq Prefix
    BY <1>19, Zenon DEF ApplyFails, TypeOK, Consumer
  <2>3. events' \in 0..MaxEvents
    BY <1>19, Constants DEF ApplyFails, Event, TypeOK
  <2>4. healthy' \in BOOLEAN
    BY ZenonT(60), <1>19 DEF ApplyFails, TypeOK
  <2>5. /\ ctl' \in {"up", "frozen", "down"}
        /\ feed' \in FeedState
        /\ inner' \subseteq Prefix
        /\ call' \in Call
        /\ round' \in [open : BOOLEAN, age : 0..Cap]
        /\ req' \in Request
        /\ renewed' \in {Never} \cup 0..Cap
        /\ lag' \in [Prefix -> 0..Cap]
    BY <1>19, Zenon DEF ApplyFails, TypeOK, feedSide
  <2> QED
    BY <1>0, <2>1, <2>2, <2>3, <2>4, <2>5, Zenon DEF TypeOK
<1>20. CASE Stop
  <2>1. req' \in Request
    BY <1>20, NoReqType, Zenon DEF Stop, TypeOK
  <2>2. con' \in Consumer
    BY <1>20, Zenon DEF Stop, TypeOK, Consumer
  <2>3. events' \in 0..MaxEvents
    BY <1>20, Constants DEF Stop, Event, TypeOK
  <2>4. healthy' \in BOOLEAN
    BY ZenonT(60), <1>20 DEF Stop, TypeOK
  <2>5. /\ ctl' \in {"up", "frozen", "down"}
        /\ feed' \in FeedState
        /\ inner' \subseteq Prefix
        /\ call' \in Call
        /\ round' \in [open : BOOLEAN, age : 0..Cap]
        /\ daemon' \subseteq Prefix
        /\ renewed' \in {Never} \cup 0..Cap
        /\ lag' \in [Prefix -> 0..Cap]
    BY <1>20, Zenon DEF Stop, TypeOK, feedSide
  <2> QED
    BY <1>0, <2>1, <2>2, <2>3, <2>4, <2>5, Zenon DEF TypeOK
<1>21. CASE StopFinal
  <2>1. con' \in Consumer
    BY <1>21, PutType, Zenon DEF StopFinal, TypeOK, Consumer
  <2>2. /\ ctl' \in {"up", "frozen", "down"}
        /\ feed' \in FeedState
        /\ inner' \subseteq Prefix
        /\ call' \in Call
        /\ round' \in [open : BOOLEAN, age : 0..Cap]
        /\ req' \in Request
        /\ daemon' \subseteq Prefix
        /\ renewed' \in {Never} \cup 0..Cap
        /\ lag' \in [Prefix -> 0..Cap]
        /\ healthy' \in BOOLEAN /\ events' \in 0..MaxEvents
    BY <1>21, Zenon DEF StopFinal, TypeOK, NoEvent, feedSide
  <2> QED
    BY <1>0, <2>1, <2>2, Zenon DEF TypeOK
<1>22. CASE ConsumerCrash
  <2>1. req' \in Request
    BY <1>22, NoReqType, Zenon DEF ConsumerCrash, TypeOK
  <2>2. con' \in Consumer
    BY ZenonT(60), <1>22 DEF ConsumerCrash, TypeOK, Consumer, NewConsumer
  <2>3. daemon' \subseteq Prefix
    BY <1>22, Zenon DEF ConsumerCrash, TypeOK, Consumer
  <2>4. events' \in 0..MaxEvents
    BY <1>22, Constants DEF ConsumerCrash, Event, TypeOK
  <2>5. healthy' \in BOOLEAN
    BY ZenonT(60), <1>22 DEF ConsumerCrash, TypeOK
  <2>6. /\ ctl' \in {"up", "frozen", "down"}
        /\ feed' \in FeedState
        /\ inner' \subseteq Prefix
        /\ call' \in Call
        /\ round' \in [open : BOOLEAN, age : 0..Cap]
        /\ renewed' \in {Never} \cup 0..Cap
        /\ lag' \in [Prefix -> 0..Cap]
    BY <1>22, Zenon DEF ConsumerCrash, TypeOK, feedSide
  <2> QED
    BY <1>0, <2>1, <2>2, <2>3, <2>4, <2>5, <2>6, Zenon DEF TypeOK
<1>23. CASE ConsumerStart
  <2>1. con' \in Consumer
    BY <1>23, Zenon DEF ConsumerStart, TypeOK, Consumer, NewConsumer
  <2>2. /\ ctl' \in {"up", "frozen", "down"}
        /\ feed' \in FeedState
        /\ inner' \subseteq Prefix
        /\ call' \in Call
        /\ round' \in [open : BOOLEAN, age : 0..Cap]
        /\ req' \in Request
        /\ daemon' \subseteq Prefix
        /\ renewed' \in {Never} \cup 0..Cap
        /\ lag' \in [Prefix -> 0..Cap]
        /\ healthy' \in BOOLEAN /\ events' \in 0..MaxEvents
    BY <1>23, Zenon DEF ConsumerStart, TypeOK, NoEvent, feedSide
  <2> QED
    BY <1>0, <2>1, <2>2, Zenon DEF TypeOK
<1>24. CASE Freeze
  <2>1. ctl' \in {"up", "frozen", "down"}
    BY <1>24, Zenon DEF Freeze, TypeOK
  <2>2. events' \in 0..MaxEvents
    BY <1>24, Constants DEF Freeze, Event, TypeOK
  <2>3. healthy' \in BOOLEAN
    BY ZenonT(60), <1>24 DEF Freeze, TypeOK
  <2>4. /\ feed' \in FeedState
        /\ inner' \subseteq Prefix
        /\ call' \in Call
        /\ round' \in [open : BOOLEAN, age : 0..Cap]
        /\ req' \in Request
        /\ con' \in Consumer
        /\ daemon' \subseteq Prefix
        /\ renewed' \in {Never} \cup 0..Cap
        /\ lag' \in [Prefix -> 0..Cap]
    BY <1>24, Zenon DEF Freeze, TypeOK
  <2> QED
    BY <1>0, <2>1, <2>2, <2>3, <2>4, Zenon DEF TypeOK
<1>25. CASE Thaw
  <2>1. ctl' \in {"up", "frozen", "down"}
    BY <1>25, Zenon DEF Thaw, TypeOK
  <2>2. /\ feed' \in FeedState
        /\ inner' \subseteq Prefix
        /\ call' \in Call
        /\ round' \in [open : BOOLEAN, age : 0..Cap]
        /\ req' \in Request
        /\ con' \in Consumer
        /\ daemon' \subseteq Prefix
        /\ renewed' \in {Never} \cup 0..Cap
        /\ lag' \in [Prefix -> 0..Cap]
        /\ healthy' \in BOOLEAN /\ events' \in 0..MaxEvents
    BY <1>25, Zenon DEF Thaw, TypeOK, NoEvent
  <2> QED
    BY <1>0, <2>1, <2>2, Zenon DEF TypeOK
<1>26. CASE Exit
  <2>1. ctl' \in {"up", "frozen", "down"}
    BY <1>26, Zenon DEF Exit, TypeOK, Gone
  <2>2. feed' \in FeedState
    BY <1>26, Zenon DEF Exit, TypeOK, Gone, NewFeed, FeedState, Never
  <2>3. inner' \subseteq Prefix
    BY <1>26, Zenon DEF Exit, TypeOK, Gone
  <2>4. call' \in Call
    BY <1>26, Zenon DEF Exit, TypeOK, Gone, NoCall, Call
  <2>5. round' \in [open : BOOLEAN, age : 0..Cap]
    BY <1>26, Constants, Zenon DEF Exit, TypeOK, Gone
  <2>6. req' \in Request
    BY <1>26, NoReqType, Zenon DEF Exit, TypeOK, Gone
  <2>7. /\ con' \in Consumer
        /\ daemon' \subseteq Prefix
        /\ renewed' \in {Never} \cup 0..Cap
        /\ lag' \in [Prefix -> 0..Cap]
        /\ healthy' \in BOOLEAN /\ events' \in 0..MaxEvents
    BY <1>26, Zenon DEF Exit, TypeOK, NoEvent, Gone
  <2> QED
    BY <1>0, <2>1, <2>2, <2>3, <2>4, <2>5, <2>6, <2>7, Zenon DEF TypeOK
<1>27. CASE Crash
  <2>1. ctl' \in {"up", "frozen", "down"}
    BY <1>27, Zenon DEF Crash, TypeOK, Gone
  <2>2. feed' \in FeedState
    BY <1>27, Zenon DEF Crash, TypeOK, Gone, NewFeed, FeedState, Never
  <2>3. inner' \subseteq Prefix
    BY <1>27, Zenon DEF Crash, TypeOK, Gone
  <2>4. call' \in Call
    BY <1>27, Zenon DEF Crash, TypeOK, Gone, NoCall, Call
  <2>5. round' \in [open : BOOLEAN, age : 0..Cap]
    BY <1>27, Constants, Zenon DEF Crash, TypeOK, Gone
  <2>6. req' \in Request
    BY <1>27, NoReqType, Zenon DEF Crash, TypeOK, Gone
  <2>7. events' \in 0..MaxEvents
    BY <1>27, Constants DEF Crash, Event, TypeOK
  <2>8. healthy' \in BOOLEAN
    BY ZenonT(60), <1>27 DEF Crash, TypeOK
  <2>9. /\ con' \in Consumer
        /\ daemon' \subseteq Prefix
        /\ renewed' \in {Never} \cup 0..Cap
        /\ lag' \in [Prefix -> 0..Cap]
    BY <1>27, Zenon DEF Crash, TypeOK, Gone
  <2> QED
    BY <1>0, <2>1, <2>2, <2>3, <2>4, <2>5, <2>6, <2>7, <2>8, <2>9, Zenon DEF TypeOK
<1>28. CASE Restart
  <2>1. ctl' \in {"up", "frozen", "down"}
    BY <1>28, Zenon DEF Restart, TypeOK
  <2>2. /\ feed' \in FeedState
        /\ inner' \subseteq Prefix
        /\ call' \in Call
        /\ round' \in [open : BOOLEAN, age : 0..Cap]
        /\ req' \in Request
        /\ con' \in Consumer
        /\ daemon' \subseteq Prefix
        /\ renewed' \in {Never} \cup 0..Cap
        /\ lag' \in [Prefix -> 0..Cap]
        /\ healthy' \in BOOLEAN /\ events' \in 0..MaxEvents
    BY <1>28, Zenon DEF Restart, TypeOK, NoEvent
  <2> QED
    BY <1>0, <2>1, <2>2, Zenon DEF TypeOK
<1>29. CASE Tick
  <2>1. feed' \in FeedState
    BY <1>29, Constants DEF Tick, TypeOK, FeedState, Older, Lower, Never
  <2>2. round' \in [open : BOOLEAN, age : 0..Cap]
    BY <1>29, Constants DEF Tick, TypeOK, Lower
  <2>3. req' \in Request
    BY <1>29 DEF Tick, TypeOK, Request, Down
  <2>4. con' \in Consumer
    <3>1. con \in Consumer /\ Down(con.left) \in Nat /\ Down(con.timer) \in Nat
      BY DEF TypeOK, Consumer, Down
    <3>2. con' = [con EXCEPT !.left = Down(con.left), !.timer = Down(con.timer)]
      BY <1>29, Zenon DEF Tick
    <3> QED
      BY ZenonT(60), <3>1, <3>2 DEF Consumer
  <2>5. renewed' \in {Never} \cup 0..Cap
    BY <1>29, Constants DEF Tick, TypeOK, Older, Lower, Never
  <2>6. lag' \in [Prefix -> 0..Cap]
    BY <1>29, Constants DEF Tick, TypeOK, Lower
  <2>7. healthy' \in BOOLEAN /\ events' \in 0..MaxEvents
    BY <1>29, Zenon DEF Tick, TypeOK
  <2>8. /\ ctl' \in {"up", "frozen", "down"}
        /\ inner' \subseteq Prefix
        /\ call' \in Call
        /\ daemon' \subseteq Prefix
    BY <1>29, Zenon DEF Tick, TypeOK
  <2> QED
    BY <1>0, <2>1, <2>2, <2>3, <2>4, <2>5, <2>6, <2>7, <2>8, Zenon DEF TypeOK
<1>30. CASE MirrorFails
  <2>1. inner' \subseteq Prefix
    BY <1>30, Zenon DEF MirrorFails, TypeOK
  <2>2. events' \in 0..MaxEvents
    BY <1>30, Constants DEF MirrorFails, Event, TypeOK
  <2>3. /\ ctl' \in {"up", "frozen", "down"}
        /\ feed' \in FeedState
        /\ call' \in Call
        /\ round' \in [open : BOOLEAN, age : 0..Cap]
        /\ req' \in Request
        /\ con' \in Consumer
        /\ daemon' \subseteq Prefix
        /\ renewed' \in {Never} \cup 0..Cap
        /\ lag' \in [Prefix -> 0..Cap]
        /\ healthy' \in BOOLEAN
    BY <1>30, Zenon DEF MirrorFails, TypeOK
  <2> QED
    BY <1>0, <2>1, <2>2, <2>3, Zenon DEF TypeOK
<1>31. CASE UNCHANGED vars
  BY <1>31, Zenon DEF vars, TypeOK
<1> QED
    BY <1>1, <1>2, <1>3, <1>4, <1>5, <1>6, <1>7, <1>8, <1>9, <1>10, <1>11,
     <1>12, <1>13, <1>14, <1>15, <1>16, <1>17, <1>18, <1>19, <1>20, <1>21,
     <1>22, <1>23, <1>24, <1>25, <1>26, <1>27, <1>28, <1>29, <1>30, <1>31,
     Zenon DEF Next

\* Mirror calls, rounds and reloads keep the feed within what is on the wire.
LEMMA CallStep ==
  ASSUME TypeOK, CallInv, [Next]_vars
  PROVE  CallInv'
<1>1. CASE MirrorCall
  <2>1. call.on = {} /\ feed.wire \subseteq Prefix /\ feed.routes \subseteq Prefix
    BY <1>1, Zenon DEF MirrorCall, NoCall, TypeOK, FeedState
  <2>2. feed' = feed /\ ~feed.closed /\ torn' = torn
    BY <1>1, Zenon DEF MirrorCall, Running
  <2>3. CASE \E p \in Prefix : /\ inner' = inner \cup {p}
                               /\ call' = [op |-> "set", on |-> {p}]
    BY <2>1, <2>2, <2>3 DEF CallInv, FeedOnWire
  <2>4. CASE \E p \in feed.wire : /\ inner' = inner \ {p}
                                  /\ call' = [op |-> "del", on |-> {p}]
    BY <2>1, <2>2, <2>4 DEF CallInv, FeedOnWire
  <2>5. CASE /\ inner' \in SUBSET inner
             /\ call' = [op |-> "clear", on |-> Prefix]
    BY <2>1, <2>2, <2>5, Zenon DEF CallInv, FeedOnWire
  <2> QED
    BY <1>1, <2>3, <2>4, <2>5, Zenon DEF MirrorCall
<1>2. CASE MirrorRecord
  <2>1. /\ call' = NoCall /\ inner' = inner /\ feed \in FeedState
        /\ torn' = torn \ call.on
        /\ call.on \in SUBSET Prefix
    BY <1>2, Zenon DEF MirrorRecord, TypeOK, Call
  <2>2. call.op # "none"
    BY <1>2, Zenon DEF MirrorRecord, NoCall, CallInv, TypeOK, Call
  <2>3. CASE call.op = "set"
    <3>1. feed' = [feed EXCEPT !.wire = @ \cup call.on]
      BY <1>2, <2>3, Zenon DEF MirrorRecord
    <3>2. /\ feed'.wire = feed.wire \cup call.on /\ feed'.routes = feed.routes
      BY <2>1, <3>1, Zenon DEF FeedState
    <3> QED
      BY <2>1, <2>3, <3>2, Zenon DEF CallInv, FeedOnWire, NoCall
  <2>4. CASE call.op # "set"
    <3> DEFINE f == [feed EXCEPT !.wire = @ \ call.on]
    <3>1. feed' = Unpublish(f, call.on)
      BY <1>2, <2>4, Zenon DEF MirrorRecord
    <3>2. f \in FeedState /\ f.wire = feed.wire \ call.on
          /\ f.routes = feed.routes /\ f.closed = feed.closed
      BY <2>1, Zenon DEF FeedState
    <3>3. ~f.closed
      BY <2>2, <3>2, Zenon DEF CallInv
    <3> HIDE DEF f
    <3>4. /\ feed'.wire = feed.wire \ call.on
          /\ feed'.routes = feed.routes \ call.on
      BY <2>1, <3>1, <3>2, <3>3, UnpublishType
    <3> QED
      BY <2>1, <3>4, Zenon DEF CallInv, FeedOnWire, NoCall
  <2> QED
    BY <2>3, <2>4, Zenon
<1>3. CASE RoundStart
  BY <1>3, Zenon DEF RoundStart, CallInv, FeedOnWire
<1>4. CASE Touch
  <2>1. /\ inner' = inner /\ call' = call /\ torn' = torn /\ feed \in FeedState
    BY <1>4, Zenon DEF Touch, TypeOK
  <2>2. /\ feed'.wire = feed.wire /\ feed'.closed = feed.closed
        /\ feed'.routes \in {feed.wire, feed.routes}
    BY <1>4, <2>1, Zenon DEF Touch, FeedState
  <2> QED
    BY <2>1, <2>2, Zenon DEF CallInv, FeedOnWire
<1>5. CASE SetRuntime
  <2>1. /\ inner' = inner /\ call' = call /\ torn' = torn /\ feed \in FeedState
    BY <1>5, Zenon DEF SetRuntime, TypeOK
  <2>2. /\ feed'.wire = feed.wire /\ feed'.closed = feed.closed
        /\ feed'.routes = feed.routes
    BY <1>5, <2>1, Zenon DEF SetRuntime, FeedState
  <2> QED
    BY <2>1, <2>2, Zenon DEF CallInv, FeedOnWire
<1>6. CASE Close
  <2>1. /\ inner' = inner /\ call' = call /\ torn' = torn /\ feed \in FeedState
        /\ call.op = "none"
    BY <1>6, Zenon DEF Close, TypeOK, NoCall
  <2>2. feed'.wire = feed.wire /\ feed'.routes = feed.routes
    BY <1>6, <2>1, Zenon DEF Close, FeedState
  <2> QED
    BY <2>1, <2>2, Zenon DEF CallInv, FeedOnWire
<1>7. CASE ServerArm
  BY <1>7, Zenon DEF ServerArm, feedSide, conSide, CallInv, FeedOnWire
<1>8. CASE ServerCheck
  BY <1>8, Zenon DEF ServerCheck, feedSide, conSide, CallInv, FeedOnWire
<1>9. CASE ServerTimer
  BY <1>9, Zenon DEF ServerTimer, feedSide, conSide, CallInv, FeedOnWire
<1>10. CASE ServerAnswer
  BY <1>10, Zenon DEF ServerAnswer, feedSide, conSide, CallInv, FeedOnWire
<1>11. CASE StepTop
  BY <1>11, Zenon DEF StepTop, feedSide, CallInv, FeedOnWire
<1>12. CASE StepFetch
  BY <1>12, Zenon DEF StepFetch, feedSide, CallInv, FeedOnWire
<1>13. CASE StepDocument
  BY <1>13, Zenon DEF StepDocument, feedSide, CallInv, FeedOnWire
<1>14. CASE StepError
  BY <1>14, Zenon DEF StepError, feedSide, CallInv, FeedOnWire
<1>15. CASE Lose
  BY <1>15, Zenon DEF Lose, feedSide, conSide, CallInv, FeedOnWire
<1>16. CASE Pause
  BY <1>16, Zenon DEF Pause, feedSide, CallInv, FeedOnWire
<1>17. CASE Wake
  BY <1>17, Zenon DEF Wake, feedSide, CallInv, FeedOnWire
<1>18. CASE ApplyDone
  BY <1>18, Zenon DEF ApplyDone, feedSide, CallInv, FeedOnWire
<1>19. CASE ApplyFails
  BY <1>19, Zenon DEF ApplyFails, feedSide, CallInv, FeedOnWire
<1>20. CASE Stop
  BY <1>20, Zenon DEF Stop, feedSide, CallInv, FeedOnWire
<1>21. CASE StopFinal
  BY <1>21, Zenon DEF StopFinal, feedSide, CallInv, FeedOnWire
<1>22. CASE ConsumerCrash
  BY <1>22, Zenon DEF ConsumerCrash, feedSide, CallInv, FeedOnWire
<1>23. CASE ConsumerStart
  BY <1>23, Zenon DEF ConsumerStart, feedSide, CallInv, FeedOnWire
<1>24. CASE Freeze
  BY <1>24, Zenon DEF Freeze, CallInv, FeedOnWire
<1>25. CASE Thaw
  BY <1>25, Zenon DEF Thaw, CallInv, FeedOnWire
<1>26. CASE Exit
  BY <1>26, Zenon DEF Exit, Gone, NewFeed, NoCall, CallInv, FeedOnWire
<1>27. CASE Crash
  BY <1>27, Zenon DEF Crash, Gone, NewFeed, NoCall, CallInv, FeedOnWire
<1>28. CASE Restart
  BY <1>28, Zenon DEF Restart, CallInv, FeedOnWire
<1>29. CASE Tick
  <2>1. /\ inner' = inner /\ call' = call /\ torn' = torn /\ feed \in FeedState
    BY <1>29, Zenon DEF Tick, TypeOK
  <2>2. /\ feed'.wire = feed.wire /\ feed'.closed = feed.closed
        /\ feed'.routes = feed.routes
    BY <1>29, <2>1, Zenon DEF Tick, FeedState
  <2> QED
    BY <2>1, <2>2, Zenon DEF CallInv, FeedOnWire
<1>30. CASE MirrorFails
  <2>1. /\ feed' = feed /\ call' = call /\ call = NoCall
        /\ torn' = torn \cup (inner \ inner')
    BY <1>30, Zenon DEF MirrorFails
  <2>2. FeedOnWire'
    BY <2>1, Zenon DEF CallInv, FeedOnWire
  <2> QED
    BY <2>1, <2>2, Zenon DEF CallInv, NoCall
<1>31. CASE UNCHANGED vars
  BY <1>31, Zenon DEF vars, CallInv, FeedOnWire
<1> QED
    BY <1>1, <1>2, <1>3, <1>4, <1>5, <1>6, <1>7, <1>8, <1>9, <1>10, <1>11,
     <1>12, <1>13, <1>14, <1>15, <1>16, <1>17, <1>18, <1>19, <1>20, <1>21,
     <1>22, <1>23, <1>24, <1>25, <1>26, <1>27, <1>28, <1>29, <1>30, <1>31,
     Zenon DEF Next

\* renewed stays the age of what the feed holds.
LEMMA RenewStep ==
  ASSUME TypeOK, RenewInv, [Next]_vars
  PROVE  RenewInv'
<1>1. CASE MirrorCall
  BY <1>1, Zenon DEF MirrorCall, RenewInv
<1>2. CASE MirrorRecord
  <2>1. /\ feed \in FeedState /\ call.on \in SUBSET Prefix
        /\ round' = round /\ renewed' = renewed
    BY <1>2, Zenon DEF MirrorRecord, TypeOK, Call
  <2>2. /\ [feed EXCEPT !.wire = @ \ call.on] \in FeedState
        /\ [feed EXCEPT !.wire = @ \ call.on].age = feed.age
        /\ [feed EXCEPT !.wire = @ \cup call.on].age = feed.age
    BY <2>1, Zenon DEF FeedState
  <2>3. feed'.age = feed.age
    BY ZenonT(60), <1>2, <2>1, <2>2, UnpublishType DEF MirrorRecord
  <2> QED
    BY <2>1, <2>3, Zenon DEF RenewInv
<1>3. CASE RoundStart
  <2>1. /\ feed' = feed /\ renewed' = renewed /\ round'.age = 0
        /\ renewed # Never => renewed >= 0
    BY <1>3, Constants DEF RoundStart, TypeOK, Never
  <2> QED
    BY <2>1, Zenon DEF RenewInv
<1>4. CASE Touch
  <2>1. /\ feed \in FeedState /\ round.age \in 0..Cap /\ ~round'.open
    BY <1>4, Zenon DEF Touch, TypeOK
  <2>2. CASE feed.closed
    BY <1>4, <2>1, <2>2, Zenon DEF Touch, RenewInv
  <2>3. CASE ~feed.closed
    <3>1. feed'.age = round.age /\ renewed' = round.age
      BY <1>4, <2>1, <2>3, Zenon DEF Touch, FeedState
    <3> QED
      BY <2>1, <3>1, Constants DEF RenewInv, Never
  <2> QED
    BY <2>2, <2>3, Zenon
<1>5. CASE SetRuntime
  <2>1. feed \in FeedState /\ feed'.age = feed.age
    BY <1>5, Zenon DEF SetRuntime, TypeOK, FeedState
  <2> QED
    BY <1>5, <2>1, Zenon DEF SetRuntime, RenewInv
<1>6. CASE Close
  <2>1. feed \in FeedState /\ feed'.age = feed.age
    BY <1>6, Zenon DEF Close, TypeOK, FeedState
  <2> QED
    BY <1>6, <2>1, Zenon DEF Close, RenewInv
<1>7. CASE ServerArm
  BY <1>7, Zenon DEF ServerArm, feedSide, conSide, RenewInv
<1>8. CASE ServerCheck
  BY <1>8, Zenon DEF ServerCheck, feedSide, conSide, RenewInv
<1>9. CASE ServerTimer
  BY <1>9, Zenon DEF ServerTimer, feedSide, conSide, RenewInv
<1>10. CASE ServerAnswer
  BY <1>10, Zenon DEF ServerAnswer, feedSide, conSide, RenewInv
<1>11. CASE StepTop
  BY <1>11, Zenon DEF StepTop, feedSide, RenewInv
<1>12. CASE StepFetch
  BY <1>12, Zenon DEF StepFetch, feedSide, RenewInv
<1>13. CASE StepDocument
  BY <1>13, Zenon DEF StepDocument, feedSide, RenewInv
<1>14. CASE StepError
  BY <1>14, Zenon DEF StepError, feedSide, RenewInv
<1>15. CASE Lose
  BY <1>15, Zenon DEF Lose, feedSide, conSide, RenewInv
<1>16. CASE Pause
  BY <1>16, Zenon DEF Pause, feedSide, RenewInv
<1>17. CASE Wake
  BY <1>17, Zenon DEF Wake, feedSide, RenewInv
<1>18. CASE ApplyDone
  BY <1>18, Zenon DEF ApplyDone, feedSide, RenewInv
<1>19. CASE ApplyFails
  BY <1>19, Zenon DEF ApplyFails, feedSide, RenewInv
<1>20. CASE Stop
  BY <1>20, Zenon DEF Stop, feedSide, RenewInv
<1>21. CASE StopFinal
  BY <1>21, Zenon DEF StopFinal, feedSide, RenewInv
<1>22. CASE ConsumerCrash
  BY <1>22, Zenon DEF ConsumerCrash, feedSide, RenewInv
<1>23. CASE ConsumerStart
  BY <1>23, Zenon DEF ConsumerStart, feedSide, RenewInv
<1>24. CASE Freeze
  BY <1>24, Zenon DEF Freeze, RenewInv
<1>25. CASE Thaw
  BY <1>25, Zenon DEF Thaw, RenewInv
<1>26. CASE Exit
  <2>1. feed'.age = Never /\ ~round'.open
    BY <1>26, Zenon DEF Exit, Gone, NewFeed
  <2> QED
    BY <2>1, Zenon DEF RenewInv
<1>27. CASE Crash
  <2>1. feed'.age = Never /\ ~round'.open
    BY <1>27, Zenon DEF Crash, Gone, NewFeed
  <2> QED
    BY <2>1, Zenon DEF RenewInv
<1>28. CASE Restart
  BY <1>28, Zenon DEF Restart, RenewInv
<1>29. CASE Tick
  <2>1. /\ feed \in FeedState /\ feed.age \in {Never} \cup 0..Cap
        /\ renewed \in {Never} \cup 0..Cap
        /\ round.age \in 0..Cap
    BY Zenon DEF TypeOK, FeedState
  <2>2. /\ feed'.age = Older(feed.age) /\ renewed' = Older(renewed)
        /\ round'.age = Lower(round.age + 1, Cap) /\ round'.open = round.open
    BY <1>29, <2>1, Zenon DEF Tick, FeedState, TypeOK
  <2> QED
    BY <2>1, <2>2, Constants DEF RenewInv, Older, Lower, Never
<1>30. CASE MirrorFails
  BY <1>30, Zenon DEF MirrorFails, RenewInv
<1>31. CASE UNCHANGED vars
  BY <1>31, Zenon DEF vars, RenewInv
<1> QED
    BY <1>1, <1>2, <1>3, <1>4, <1>5, <1>6, <1>7, <1>8, <1>9, <1>10, <1>11,
     <1>12, <1>13, <1>14, <1>15, <1>16, <1>17, <1>18, <1>19, <1>20, <1>21,
     <1>22, <1>23, <1>24, <1>25, <1>26, <1>27, <1>28, <1>29, <1>30, <1>31, Zenon DEF Next

\* Either put finds want applied, or an apply of want starts.
LEMMA PutFields ==
  ASSUME NEW c \in Consumer, NEW want \in SUBSET Prefix,
         NEW next \in {"top", "ask", "failed", "final", "stopped"}
  PROVE  /\ Put(c, want, next).applied = c.applied
         /\ Put(c, want, next).started = c.started
         /\ Put(c, want, next).left = c.left
         /\ \/ /\ c.started /\ want = c.applied
               /\ Put(c, want, next).at = next /\ ~Put(c, want, next).error
            \/ /\ Put(c, want, next).at = "put" /\ Put(c, want, next).want = want
               /\ Put(c, want, next).next = next
               /\ Put(c, want, next).timer = ApplyTime
               /\ Put(c, want, next).error = c.error
<1>1. CASE c.started /\ want = c.applied
  BY ZenonT(60), <1>1 DEF Put, Consumer
<1>2. CASE ~(c.started /\ want = c.applied)
  BY ZenonT(60), <1>2 DEF Put, Consumer
<1> QED
  BY <1>1, <1>2, Zenon

\* The fields of the consumer and of the request that the invariant reads.
LEMMA Fields ==
  ASSUME TypeOK
  PROVE  /\ con \in Consumer /\ con.left \in Nat /\ con.timer \in Nat
         /\ con.started \in BOOLEAN /\ con.error \in BOOLEAN
         /\ con.applied \in SUBSET Prefix /\ con.want \in SUBSET Prefix
         /\ con.at \in {"top", "ask", "fetch", "put", "failed", "pause",
                        "final", "stopped", "crashed"}
         /\ con.next \in {"top", "ask", "failed", "final", "stopped"}
         /\ req \in Request /\ req.timer \in Nat /\ req.doc \in Doc
         /\ req.doc.left \in Nat /\ req.doc.routes \in SUBSET Prefix
         /\ renewed = Never \/ renewed \in Nat
<1>1. con \in Consumer /\ req \in Request
  BY Zenon DEF TypeOK
<1>2. req.doc \in Doc /\ req.timer \in Nat
  BY <1>1, Zenon DEF Request
<1>3. req.doc.left \in Nat /\ req.doc.routes \in SUBSET Prefix
  BY <1>2, Zenon DEF Doc
<1>4. renewed = Never \/ renewed \in Nat
  BY Constants DEF TypeOK
<1> QED
  BY <1>1, <1>2, <1>3, <1>4, Zenon DEF Consumer

\* A Touch never makes the newest round older.
LEMMA TouchRenews ==
  ASSUME TypeOK, RenewInv, Touch
  PROVE  /\ renewed' = Never \/ renewed' \in Nat
         /\ renewed # Never => renewed' # Never /\ renewed' <= renewed
<1>1. round.open /\ round.age \in 0..Cap /\ renewed \in {Never} \cup 0..Cap
  BY Zenon DEF Touch, TypeOK
<1>2. renewed' \in {renewed, round.age}
  BY Zenon DEF Touch
<1> QED
  BY <1>1, <1>2, Constants DEF RenewInv, Never

\* The consumer keeps its part of the invariant.
LEMMA ConsumerStep ==
  ASSUME TypeOK, RenewInv, LeftInv, AppliedInv, KeepInv,
         StoppedInv, [Next]_vars
  PROVE  LeftInv' /\ AppliedInv' /\ KeepInv' /\ StoppedInv'
<1>1. CASE MirrorCall
  <2>1. con' = con /\ daemon' = daemon /\ half' = half /\ renewed' = renewed /\ req' = req
    BY <1>1, Zenon DEF MirrorCall
  <2>2. LeftInv'
    BY <2>1, Zenon DEF LeftInv
  <2>3. AppliedInv'
    BY <2>1, Zenon DEF AppliedInv
  <2>4. KeepInv'
    BY <2>1, Zenon DEF KeepInv
  <2>5. StoppedInv'
    BY <2>1, Zenon DEF StoppedInv
  <2> QED
    BY <2>2, <2>3, <2>4, <2>5, Zenon
<1>2. CASE MirrorRecord
  <2>1. con' = con /\ daemon' = daemon /\ half' = half /\ renewed' = renewed /\ req' = req
    BY <1>2, Zenon DEF MirrorRecord
  <2>2. LeftInv'
    BY <2>1, Zenon DEF LeftInv
  <2>3. AppliedInv'
    BY <2>1, Zenon DEF AppliedInv
  <2>4. KeepInv'
    BY <2>1, Zenon DEF KeepInv
  <2>5. StoppedInv'
    BY <2>1, Zenon DEF StoppedInv
  <2> QED
    BY <2>2, <2>3, <2>4, <2>5, Zenon
<1>3. CASE RoundStart
  <2>1. con' = con /\ daemon' = daemon /\ half' = half /\ renewed' = renewed /\ req' = req
    BY <1>3, Zenon DEF RoundStart
  <2>2. LeftInv'
    BY <2>1, Zenon DEF LeftInv
  <2>3. AppliedInv'
    BY <2>1, Zenon DEF AppliedInv
  <2>4. KeepInv'
    BY <2>1, Zenon DEF KeepInv
  <2>5. StoppedInv'
    BY <2>1, Zenon DEF StoppedInv
  <2> QED
    BY <2>2, <2>3, <2>4, <2>5, Zenon
<1>4. CASE Touch
  <2>1. con' = con /\ daemon' = daemon /\ half' = half /\ req' = req
    BY <1>4, Zenon DEF Touch
  <2>2. /\ renewed' = Never \/ renewed' \in Nat
        /\ renewed # Never => renewed' # Never /\ renewed' <= renewed
    BY <1>4, TouchRenews, Zenon
  <2>3. LeftInv'
    BY <2>1, <2>2, Fields, Constants DEF LeftInv
  <2>4. AppliedInv'
    <3>1. con.at = "put" /\ con.want # {} =>
            renewed' # Never /\ renewed' + con.timer < Deadline + ApplyTime
      BY <2>1, <2>2, Fields, Constants DEF AppliedInv
    <3> QED
      BY <2>1, <3>1, Zenon DEF AppliedInv
  <2>5. KeepInv'
    BY <2>1, <2>2, Fields, Constants DEF KeepInv
  <2>6. StoppedInv'
    BY <2>1, <2>2, Fields, Constants, Zenon DEF StoppedInv
  <2> QED
    BY <2>3, <2>4, <2>5, <2>6, Zenon
<1>5. CASE SetRuntime
  <2>1. con' = con /\ daemon' = daemon /\ half' = half /\ renewed' = renewed /\ req' = req
    BY <1>5, Zenon DEF SetRuntime
  <2>2. LeftInv'
    BY <2>1, Zenon DEF LeftInv
  <2>3. AppliedInv'
    BY <2>1, Zenon DEF AppliedInv
  <2>4. KeepInv'
    BY <2>1, Zenon DEF KeepInv
  <2>5. StoppedInv'
    BY <2>1, Zenon DEF StoppedInv
  <2> QED
    BY <2>2, <2>3, <2>4, <2>5, Zenon
<1>6. CASE Close
  <2>1. con' = con /\ daemon' = daemon /\ half' = half /\ renewed' = renewed /\ req' = req
    BY <1>6, Zenon DEF Close
  <2>2. LeftInv'
    BY <2>1, Zenon DEF LeftInv
  <2>3. AppliedInv'
    BY <2>1, Zenon DEF AppliedInv
  <2>4. KeepInv'
    BY <2>1, Zenon DEF KeepInv
  <2>5. StoppedInv'
    BY <2>1, Zenon DEF StoppedInv
  <2> QED
    BY <2>2, <2>3, <2>4, <2>5, Zenon
<1>7. CASE ServerArm
  <2>1. con' = con /\ daemon' = daemon /\ half' = half /\ renewed' = renewed
    BY <1>7, Zenon DEF ServerArm, feedSide, conSide
  <2>2. req'.at # "answer" \/ req' = req
    BY <1>7, Fields, Zenon DEF ServerArm, feedSide, conSide, Request
  <2>3. LeftInv'
    BY <2>1, <2>2, Zenon DEF LeftInv
  <2>4. AppliedInv'
    BY <2>1, <2>2, Zenon DEF AppliedInv
  <2>5. KeepInv'
    BY <2>1, <2>2, Zenon DEF KeepInv
  <2>6. StoppedInv'
    BY <2>1, <2>2, Zenon DEF StoppedInv
  <2> QED
    BY <2>3, <2>4, <2>5, <2>6, Zenon
<1>8. CASE ServerCheck
  <2>1. con' = con /\ daemon' = daemon /\ half' = half /\ renewed' = renewed
    BY <1>8, Zenon DEF ServerCheck, feedSide, conSide
  <2>2. req'.at # "answer" \/ req' = req
    BY <1>8, Fields, Zenon DEF ServerCheck, feedSide, conSide, Request
  <2>3. LeftInv'
    BY <2>1, <2>2, Zenon DEF LeftInv
  <2>4. AppliedInv'
    BY <2>1, <2>2, Zenon DEF AppliedInv
  <2>5. KeepInv'
    BY <2>1, <2>2, Zenon DEF KeepInv
  <2>6. StoppedInv'
    BY <2>1, <2>2, Zenon DEF StoppedInv
  <2> QED
    BY <2>3, <2>4, <2>5, <2>6, Zenon
<1>9. CASE ServerTimer
  <2>1. con' = con /\ daemon' = daemon /\ half' = half /\ renewed' = renewed
    BY <1>9, Zenon DEF ServerTimer, feedSide, conSide
  <2>2. req'.at # "answer" \/ req' = req
    BY <1>9, Fields, Zenon DEF ServerTimer, feedSide, conSide, Request
  <2>3. LeftInv'
    BY <2>1, <2>2, Zenon DEF LeftInv
  <2>4. AppliedInv'
    BY <2>1, <2>2, Zenon DEF AppliedInv
  <2>5. KeepInv'
    BY <2>1, <2>2, Zenon DEF KeepInv
  <2>6. StoppedInv'
    BY <2>1, <2>2, Zenon DEF StoppedInv
  <2> QED
    BY <2>3, <2>4, <2>5, <2>6, Zenon
<1>10. CASE ServerAnswer
  <2>1. con' = con /\ daemon' = daemon /\ half' = half /\ renewed' = renewed
    BY <1>10, Zenon DEF ServerAnswer, feedSide, conSide
  <2>2. req'.doc = Document /\ req'.timer = Transit
    BY <1>10, Fields, Zenon DEF ServerAnswer, Request
  <2>3. Document \in Doc /\ Document.left \in Nat
    BY DocumentType, Zenon DEF Doc
  <2>4. Document.left > 0 => renewed # Never /\ renewed <= feed.age
                             /\ feed.age + Document.left <= MaxTTL
    BY DocumentType, Zenon DEF RenewInv
  <2>5. Document.left > 0 => renewed + Document.left + Transit <= Deadline
    <3>1. feed.age = Never \/ feed.age \in Nat
      BY Constants DEF TypeOK, FeedState
    <3> QED
      BY <2>3, <2>4, <3>1, DocumentType, Constants, Fields DEF Deadline
  <2>6. LeftInv'
    BY <2>1, <2>2, <2>4, <2>5, Zenon DEF LeftInv
  <2>7. AppliedInv' /\ KeepInv' /\ StoppedInv'
    BY <2>1, Zenon DEF AppliedInv, KeepInv, StoppedInv
  <2> QED
    BY <2>6, <2>7, Zenon
<1>11. CASE StepTop
  <2>1. daemon' = daemon /\ half' = half /\ renewed' = renewed /\ req' = req
    BY <1>11, Zenon DEF StepTop, feedSide
  <2>2. CASE con.left = 0
    <3>1. con' = Put(con, {}, "ask") /\ con.at = "top"
      BY <1>11, <2>2, Zenon DEF StepTop
    <3>2. /\ con'.applied = con.applied /\ con'.started = con.started
          /\ con'.left = con.left
          /\ \/ con.started /\ con.applied = {} /\ con'.at = "ask" /\ ~con'.error
             \/ /\ con'.at = "put" /\ con'.want = {} /\ con'.next = "ask"
                /\ con'.timer = ApplyTime /\ con'.error = con.error
      BY <3>1, Fields, PutFields
    <3>3. LeftInv'
      BY <2>1, <2>2, <3>1, <3>2, Fields, Constants, Zenon DEF LeftInv
    <3>4. AppliedInv'
      BY <2>1, <2>2, <3>1, <3>2, Fields, Constants, Zenon DEF AppliedInv
    <3>5. KeepInv'
      BY <2>1, <2>2, <3>1, <3>2, Fields, Constants DEF KeepInv
    <3>6. StoppedInv'
      BY <2>1, <2>2, <3>1, <3>2, Fields, Constants, Zenon DEF StoppedInv
    <3> QED
      BY <3>3, <3>4, <3>5, <3>6, Zenon
  <2>3. CASE con.left > 0
    <3>1. con' = [con EXCEPT !.at = "ask"]
      BY <1>11, <2>3, Fields DEF StepTop
    <3>2. /\ con'.at = "ask" /\ con'.applied = con.applied
          /\ con'.started = con.started /\ con'.left = con.left
          /\ con'.error = con.error
      BY <3>1, Fields, Zenon DEF Consumer
    <3>3. LeftInv'
      BY <2>1, <2>3, <3>2, Fields, Constants, Zenon DEF LeftInv
    <3>4. AppliedInv'
      BY <2>1, <2>3, <3>2, Fields, Constants, Zenon DEF AppliedInv
    <3>5. KeepInv'
      BY <2>1, <2>3, <3>2, Fields, Constants, Zenon DEF KeepInv
    <3>6. StoppedInv'
      BY <2>1, <2>3, <3>2, Fields, Constants, Zenon DEF StoppedInv
    <3> QED
      BY <3>3, <3>4, <3>5, <3>6, Zenon
  <2> QED
    BY <2>2, <2>3, Fields
<1>12. CASE StepFetch
  <2>1. /\ daemon' = daemon /\ half' = half /\ renewed' = renewed /\ con.at = "ask"
        /\ con' = [con EXCEPT !.at = "fetch", !.timer = Limit(con)]
    BY <1>12, Zenon DEF StepFetch, feedSide
  <2>2. /\ con'.at = "fetch" /\ con'.applied = con.applied
        /\ con'.started = con.started /\ con'.left = con.left
        /\ con'.error = con.error /\ con'.timer = Limit(con)
    BY <2>1, Fields, Zenon DEF Consumer
  <2>3. Limit(con) \in Nat /\ (con.left > 0 => Limit(con) <= con.left)
    BY Fields, LimitType, Zenon
  <2>4. req'.at # "answer"
    BY <1>12, Zenon DEF StepFetch, NoReq
  <2>5. LeftInv'
    BY <2>1, <2>2, <2>3, <2>4, Fields, Constants, Zenon DEF LeftInv
  <2>6. AppliedInv'
    BY <2>1, <2>2, <2>3, <2>4, Fields, Constants, Zenon DEF AppliedInv
  <2>7. KeepInv'
    BY <2>1, <2>2, <2>3, <2>4, Fields, Constants, Zenon DEF KeepInv, LeftInv
  <2>8. StoppedInv'
    BY <2>1, <2>2, <2>3, <2>4, Fields, Constants, Zenon DEF StoppedInv
  <2> QED
    BY <2>5, <2>6, <2>7, <2>8, Zenon
<1>13. CASE StepDocument
  <2> DEFINE got == [con EXCEPT !.left = req.doc.left, !.rev = req.doc.rev,
                                !.haveRev = TRUE, !.poll = req.doc.poll]
             want == IF got.left = 0 THEN {} ELSE req.doc.routes
  <2>1. /\ daemon' = daemon /\ half' = half /\ renewed' = renewed /\ con.at = "fetch"
        /\ req.at = "answer" /\ con' = Put(got, want, "top")
    BY <1>13, Zenon DEF StepDocument, feedSide
  <2>2. got \in Consumer
    BY ZenonT(60), Fields, GotType
  <2>3. /\ got.left = req.doc.left /\ got.applied = con.applied
        /\ got.started = con.started /\ got.error = con.error
    BY Fields, Zenon DEF Consumer
  <2>4. want \in SUBSET Prefix /\ (want # {} => req.doc.left > 0)
    BY <2>3, Fields
  <2> HIDE DEF got, want
  <2>5. /\ con'.applied = con.applied /\ con'.started = con.started
        /\ con'.left = req.doc.left
        /\ \/ con.started /\ con.applied = want /\ con'.at = "top" /\ ~con'.error
           \/ /\ con'.at = "put" /\ con'.want = want /\ con'.next = "top"
              /\ con'.timer = ApplyTime /\ con'.error = con.error
    BY SMTT(60), <2>1, <2>2, <2>3, <2>4, PutFields
  <2>6. req.doc.left > 0 => renewed # Never /\ renewed + req.doc.left <= Deadline
    BY <2>1, Fields, Constants DEF LeftInv
  <2>7. req'.at # "answer"
    BY <1>13, Zenon DEF StepDocument, NoReq
  <2>8. LeftInv'
    BY <2>1, <2>4, <2>5, <2>6, <2>7, Fields, Constants, Zenon DEF LeftInv
  <2>9. AppliedInv'
    BY <2>1, <2>4, <2>5, <2>6, <2>7, Fields, Constants DEF AppliedInv
  <2>10. KeepInv'
    BY SMTT(60), <2>1, <2>4, <2>5, <2>6, <2>7, Fields, Constants DEF KeepInv
  <2>11. StoppedInv'
    BY <2>1, <2>4, <2>5, <2>6, <2>7, Fields, Constants, Zenon DEF StoppedInv
  <2> QED
    BY <2>8, <2>9, <2>10, <2>11, Zenon
<1>14. CASE StepError
  <2> DEFINE want == IF con.left = 0 THEN {} ELSE con.applied
  <2>1. /\ daemon' = daemon /\ half' = half /\ renewed' = renewed /\ con.at = "fetch"
        /\ con' = Put(con, want, "failed")
    BY <1>14, Zenon DEF StepError, FetchFails, feedSide
  <2>2. want \in SUBSET Prefix /\ (want # {} => con.left > 0 /\ want = con.applied)
    BY Fields
  <2> HIDE DEF want
  <2>3. /\ con'.applied = con.applied /\ con'.started = con.started
        /\ con'.left = con.left
        /\ \/ con.started /\ con.applied = want /\ con'.at = "failed" /\ ~con'.error
           \/ /\ con'.at = "put" /\ con'.want = want /\ con'.next = "failed"
              /\ con'.timer = ApplyTime /\ con'.error = con.error
              /\ ~(con.started /\ con.applied = want)
    <3>1. con.started /\ con.applied = want => con'.at = "failed"
      BY <2>1, Fields, Zenon DEF Put, Consumer
    <3> QED
      BY <2>1, <2>2, <3>1, Fields, PutFields
  <2>4. req'.at # "answer"
    BY <1>14, Zenon DEF StepError, NoReq
  <2>5. con.started /\ con.applied # {} /\ con'.at = "put" => con.left = 0
    BY <2>3, Fields, Zenon DEF want
  <2>6. LeftInv'
    BY <2>1, <2>2, <2>3, <2>4, <2>5, Fields, Constants, Zenon DEF LeftInv
  <2>7. AppliedInv'
    BY <2>1, <2>2, <2>3, <2>4, <2>5, Fields, Constants, Zenon DEF AppliedInv
  <2>8. KeepInv'
    BY SMTT(60), <2>1, <2>2, <2>3, <2>4, <2>5, Fields, Constants
       DEF KeepInv, LeftInv
  <2>9. StoppedInv'
    BY <2>1, <2>2, <2>3, <2>4, <2>5, Fields, Constants, Zenon DEF StoppedInv
  <2> QED
    BY <2>6, <2>7, <2>8, <2>9, Zenon
<1>15. CASE Lose
  <2>1. con' = con /\ daemon' = daemon /\ half' = half /\ renewed' = renewed
    BY <1>15, Zenon DEF Lose, feedSide, conSide
  <2>2. req'.at # "answer" \/ req' = req
    BY <1>15, Fields, Zenon DEF Lose, feedSide, conSide, NoReq
  <2>3. LeftInv'
    BY <2>1, <2>2, Zenon DEF LeftInv
  <2>4. AppliedInv'
    BY <2>1, <2>2, Zenon DEF AppliedInv
  <2>5. KeepInv'
    BY <2>1, <2>2, Zenon DEF KeepInv
  <2>6. StoppedInv'
    BY <2>1, <2>2, Zenon DEF StoppedInv
  <2> QED
    BY <2>3, <2>4, <2>5, <2>6, Zenon
<1>16. CASE Pause
  <2>1. /\ daemon' = daemon /\ half' = half /\ renewed' = renewed /\ req' = req
        /\ con.at = "failed"
    BY <1>16, Zenon DEF Pause, feedSide
  <2>2. /\ con'.at = "pause" /\ con'.applied = con.applied
        /\ con'.started = con.started /\ con'.left = con.left
        /\ con'.error = con.error
        /\ con'.timer = IF con.left > 0 THEN Lower(con.left, Retry) ELSE Retry
    BY <1>16, Fields, Zenon DEF Pause, Consumer
  <2>3. con.left > 0 => con'.timer <= con.left
    BY <2>2, Fields, Constants DEF Lower
  <2>4. LeftInv'
    BY <2>1, <2>2, <2>3, Fields, Constants, Zenon DEF LeftInv
  <2>5. AppliedInv'
    BY <2>1, <2>2, <2>3, Fields, Constants, Zenon DEF AppliedInv
  <2>6. KeepInv'
    BY <2>1, <2>2, <2>3, Fields, Constants, Zenon DEF KeepInv, LeftInv
  <2>7. StoppedInv'
    BY <2>1, <2>2, <2>3, Fields, Constants, Zenon DEF StoppedInv
  <2> QED
    BY <2>4, <2>5, <2>6, <2>7, Zenon
<1>17. CASE Wake
  <2>1. /\ daemon' = daemon /\ half' = half /\ renewed' = renewed /\ req' = req
        /\ con.at = "pause"
    BY <1>17, Zenon DEF Wake, feedSide
  <2>2. /\ con'.at = "top" /\ con'.applied = con.applied
        /\ con'.started = con.started /\ con'.left = con.left
        /\ con'.error = con.error
    BY <1>17, Fields, Zenon DEF Wake, Consumer
  <2>3. LeftInv'
    BY <2>1, <2>2, Fields, Constants, Zenon DEF LeftInv
  <2>4. AppliedInv'
    BY <2>1, <2>2, Fields, Constants, Zenon DEF AppliedInv
  <2>5. KeepInv'
    BY <2>1, <2>2, Fields, Constants DEF KeepInv
  <2>6. StoppedInv'
    BY <2>1, <2>2, Fields, Constants, Zenon DEF StoppedInv
  <2> QED
    BY <2>3, <2>4, <2>5, <2>6, Zenon
<1>18. CASE ApplyDone
  <2>1. /\ daemon' = con.want /\ ~half' /\ renewed' = renewed /\ req' = req
        /\ con.at = "put"
    BY <1>18, Zenon DEF ApplyDone, feedSide
  <2>2. /\ con'.at = con.next /\ con'.applied = con.want /\ con'.started = TRUE
        /\ con'.left = con.left /\ con'.error = FALSE
    BY <1>18, Fields, Zenon DEF ApplyDone, Consumer
  <2>3. LeftInv'
    BY <2>1, <2>2, Fields, Constants, Zenon DEF LeftInv
  <2>4. AppliedInv'
    BY <2>1, <2>2, Fields, Constants, Zenon DEF AppliedInv
  <2>5. KeepInv'
    BY SMTT(60), <2>1, <2>2, Fields, Constants DEF KeepInv, AppliedInv
  <2>6. StoppedInv'
    BY <2>1, <2>2, Fields, Constants, Zenon DEF StoppedInv
  <2> QED
    BY <2>3, <2>4, <2>5, <2>6, Zenon
<1>19. CASE ApplyFails
  <2>1. /\ ~half' => ~half /\ daemon' = daemon
        /\ renewed' = renewed /\ req' = req
        /\ con.at = "put"
    BY <1>19, Zenon DEF ApplyFails, feedSide
  <2>2. /\ con'.at = con.next /\ con'.applied = con.applied
        /\ con'.started = con.started /\ con'.left = con.left
        /\ con'.error = TRUE
    BY <1>19, Fields, Zenon DEF ApplyFails, Consumer
  <2>3. LeftInv'
    BY <2>1, <2>2, Fields, Constants, Zenon DEF LeftInv
  <2>4. AppliedInv'
    BY <2>1, <2>2, Fields, Constants, Zenon DEF AppliedInv
  <2>5. KeepInv'
    BY <2>1, <2>2, Fields, Constants, Zenon DEF KeepInv
  <2>6. StoppedInv'
    BY <2>1, <2>2, Fields, Constants, Zenon DEF StoppedInv
  <2> QED
    BY <2>3, <2>4, <2>5, <2>6, Zenon
<1>20. CASE Stop
  <2>1. daemon' = daemon /\ half' = half /\ renewed' = renewed
    BY <1>20, Zenon DEF Stop, feedSide
  <2>2. /\ con'.applied = con.applied /\ con'.started = con.started
        /\ con'.left = con.left /\ con'.error = con.error
        /\ con'.timer = con.timer /\ con'.want = con.want
        /\ \/ con.at = "put" /\ con'.at = "put" /\ con'.next = "final"
           \/ /\ con.at \in {"top", "ask", "fetch", "failed", "pause"}
              /\ con'.at = "final"
    BY <1>20, Fields, Zenon DEF Stop, Consumer
  <2>3. req'.at # "answer"
    BY <1>20, Zenon DEF Stop, NoReq
  <2>4. LeftInv'
    BY <2>1, <2>2, <2>3, Fields, Constants, Zenon DEF LeftInv
  <2>5. AppliedInv'
    BY <2>1, <2>2, <2>3, Fields, Constants, Zenon DEF AppliedInv
  <2>6. KeepInv'
    BY SMTT(60), <2>1, <2>2, <2>3, Fields, Constants DEF KeepInv, LeftInv
  <2>7. StoppedInv'
    BY <2>1, <2>2, <2>3, Fields, Constants, Zenon DEF StoppedInv
  <2> QED
    BY <2>4, <2>5, <2>6, <2>7, Zenon
<1>21. CASE StopFinal
  <2>1. /\ daemon' = daemon /\ half' = half /\ renewed' = renewed /\ req' = req
        /\ con.at = "final" /\ con' = Put(con, {}, "stopped")
    BY <1>21, Zenon DEF StopFinal, feedSide
  <2>2. /\ con'.applied = con.applied /\ con'.started = con.started
        /\ con'.left = con.left
        /\ \/ con.started /\ con.applied = {} /\ con'.at = "stopped" /\ ~con'.error
           \/ /\ con'.at = "put" /\ con'.want = {} /\ con'.next = "stopped"
              /\ con'.timer = ApplyTime /\ con'.error = con.error
    BY SMTT(60), <2>1, Fields, PutFields
  <2>3. LeftInv'
    BY <2>1, <2>2, Fields, Constants, Zenon DEF LeftInv
  <2>4. AppliedInv'
    BY <2>1, <2>2, Fields, Constants, Zenon DEF AppliedInv
  <2>5. KeepInv'
    <3>1. CASE con.applied = {}
      BY <2>2, <3>1, Zenon DEF KeepInv
    <3>2. CASE con.applied # {}
      <4>1. con'.at = "put" /\ con'.timer = ApplyTime /\ con'.error = con.error
        BY <2>2, <3>2, Zenon
      <4>2. con.started /\ ~con.error =>
              renewed # Never /\ renewed < Deadline + ApplyTime
        BY <2>1, <3>2, Zenon DEF KeepInv
      <4>3. renewed = Never \/ renewed \in Nat
        BY Fields, Zenon
      <4> QED
        BY <2>1, <2>2, <4>1, <4>2, <4>3, Constants DEF KeepInv
    <3> QED
      BY <3>1, <3>2, Zenon
  <2>6. StoppedInv'
    BY <2>1, <2>2, Fields, Constants, Zenon DEF StoppedInv
  <2> QED
    BY <2>3, <2>4, <2>5, <2>6, Zenon
<1>22. CASE ConsumerCrash
  <2>1. /\ renewed' = renewed /\ ~con'.started /\ con'.applied = {}
        /\ con'.left = 0 /\ con'.at \in {"crashed", "top"}
    BY <1>22, Zenon DEF ConsumerCrash, NewConsumer, feedSide
  <2>2. req'.at # "answer" \/ req' = req
    BY <1>22, Zenon DEF ConsumerCrash, NoReq
  <2>3. LeftInv'
    BY <2>1, <2>2 DEF LeftInv
  <2>4. AppliedInv'
    BY <2>1, <2>2, Zenon DEF AppliedInv
  <2>5. KeepInv'
    BY <2>1, <2>2, Zenon DEF KeepInv
  <2>6. StoppedInv'
    BY <2>1, <2>2, Zenon DEF StoppedInv
  <2> QED
    BY <2>3, <2>4, <2>5, <2>6, Zenon
<1>23. CASE ConsumerStart
  <2>1. /\ renewed' = renewed /\ ~con'.started /\ con'.applied = {}
        /\ con'.left = 0 /\ con'.at \in {"crashed", "top"}
    BY <1>23, Zenon DEF ConsumerStart, NewConsumer, feedSide
  <2>2. req'.at # "answer" \/ req' = req
    BY <1>23, Zenon DEF ConsumerStart, NoReq
  <2>3. LeftInv'
    BY <2>1, <2>2 DEF LeftInv
  <2>4. AppliedInv'
    BY <2>1, <2>2, Zenon DEF AppliedInv
  <2>5. KeepInv'
    BY <2>1, <2>2, Zenon DEF KeepInv
  <2>6. StoppedInv'
    BY <2>1, <2>2, Zenon DEF StoppedInv
  <2> QED
    BY <2>3, <2>4, <2>5, <2>6, Zenon
<1>24. CASE Freeze
  <2>1. con' = con /\ daemon' = daemon /\ half' = half /\ renewed' = renewed /\ req' = req
    BY <1>24, Zenon DEF Freeze
  <2>2. LeftInv'
    BY <2>1, Zenon DEF LeftInv
  <2>3. AppliedInv'
    BY <2>1, Zenon DEF AppliedInv
  <2>4. KeepInv'
    BY <2>1, Zenon DEF KeepInv
  <2>5. StoppedInv'
    BY <2>1, Zenon DEF StoppedInv
  <2> QED
    BY <2>2, <2>3, <2>4, <2>5, Zenon
<1>25. CASE Thaw
  <2>1. con' = con /\ daemon' = daemon /\ half' = half /\ renewed' = renewed /\ req' = req
    BY <1>25, Zenon DEF Thaw
  <2>2. LeftInv'
    BY <2>1, Zenon DEF LeftInv
  <2>3. AppliedInv'
    BY <2>1, Zenon DEF AppliedInv
  <2>4. KeepInv'
    BY <2>1, Zenon DEF KeepInv
  <2>5. StoppedInv'
    BY <2>1, Zenon DEF StoppedInv
  <2> QED
    BY <2>2, <2>3, <2>4, <2>5, Zenon
<1>26. CASE Exit
  <2>1. con' = con /\ daemon' = daemon /\ half' = half /\ renewed' = renewed
    BY <1>26, Zenon DEF Exit, Gone
  <2>2. req'.at # "answer" \/ req' = req
    BY ZenonT(60), <1>26, Fields DEF Exit, Gone, NoReq
  <2>3. LeftInv'
    BY <2>1, <2>2, Zenon DEF LeftInv
  <2>4. AppliedInv'
    BY <2>1, <2>2, Zenon DEF AppliedInv
  <2>5. KeepInv'
    BY <2>1, <2>2, Zenon DEF KeepInv
  <2>6. StoppedInv'
    BY <2>1, <2>2, Zenon DEF StoppedInv
  <2> QED
    BY <2>3, <2>4, <2>5, <2>6, Zenon
<1>27. CASE Crash
  <2>1. con' = con /\ daemon' = daemon /\ half' = half /\ renewed' = renewed
    BY <1>27, Zenon DEF Crash, Gone
  <2>2. req'.at # "answer" \/ req' = req
    BY <1>27, Fields, Zenon DEF Crash, Gone, NoReq
  <2>3. LeftInv'
    BY <2>1, <2>2, Zenon DEF LeftInv
  <2>4. AppliedInv'
    BY <2>1, <2>2, Zenon DEF AppliedInv
  <2>5. KeepInv'
    BY <2>1, <2>2, Zenon DEF KeepInv
  <2>6. StoppedInv'
    BY <2>1, <2>2, Zenon DEF StoppedInv
  <2> QED
    BY <2>3, <2>4, <2>5, <2>6, Zenon
<1>28. CASE Restart
  <2>1. con' = con /\ daemon' = daemon /\ half' = half /\ renewed' = renewed /\ req' = req
    BY <1>28, Zenon DEF Restart
  <2>2. LeftInv'
    BY <2>1, Zenon DEF LeftInv
  <2>3. AppliedInv'
    BY <2>1, Zenon DEF AppliedInv
  <2>4. KeepInv'
    BY <2>1, Zenon DEF KeepInv
  <2>5. StoppedInv'
    BY <2>1, Zenon DEF StoppedInv
  <2> QED
    BY <2>2, <2>3, <2>4, <2>5, Zenon
<1>29. CASE Tick
  <2>1. /\ daemon' = daemon /\ half' = half /\ renewed' = Older(renewed)
        /\ req.at = "answer" => req.timer > 0
        /\ con.at \in {"fetch", "put", "pause", "stopped", "crashed"}
        /\ con.at \in {"fetch", "put", "pause"} => con.timer > 0
    BY <1>29, Zenon DEF Tick, Idle
  <2>2. /\ con'.at = con.at /\ con'.next = con.next /\ con'.want = con.want
        /\ con'.applied = con.applied /\ con'.started = con.started
        /\ con'.error = con.error
        /\ con'.left = Down(con.left) /\ con'.timer = Down(con.timer)
    BY <1>29, Fields, Zenon DEF Tick, Consumer
  <2>3. /\ req'.at = req.at /\ req'.doc = req.doc /\ req'.timer = Down(req.timer)
    BY <1>29, Fields, Zenon DEF Tick, Request
  <2>4. renewed # Never => renewed' # Never /\ renewed' <= renewed + 1
                           /\ renewed' \in Nat
    BY <2>1, Fields, Constants DEF Older, Lower, Never
  <2>5. renewed = Never => renewed' = Never
    BY <2>1, Zenon DEF Older
  <2>6. LeftInv'
    BY SMTT(60), <2>1, <2>2, <2>3, <2>4, Fields, Constants DEF LeftInv, Down
  <2>7. AppliedInv'
    BY <2>1, <2>2, <2>3, <2>4, Fields, Constants DEF AppliedInv, Down
  <2>8. KeepInv'
    BY SMTT(60), <2>1, <2>2, <2>3, <2>4, Fields, Constants DEF KeepInv, Down
  <2>9. StoppedInv'
    BY <2>1, <2>2, <2>3, <2>4, Fields, Constants, Zenon DEF StoppedInv, Down
  <2> QED
    BY <2>6, <2>7, <2>8, <2>9, Zenon
<1>30. CASE MirrorFails
  <2>1. con' = con /\ daemon' = daemon /\ half' = half /\ renewed' = renewed /\ req' = req
    BY <1>30, Zenon DEF MirrorFails
  <2>2. LeftInv'
    BY <2>1, Zenon DEF LeftInv
  <2>3. AppliedInv'
    BY <2>1, Zenon DEF AppliedInv
  <2>4. KeepInv'
    BY <2>1, Zenon DEF KeepInv
  <2>5. StoppedInv'
    BY <2>1, Zenon DEF StoppedInv
  <2> QED
    BY <2>2, <2>3, <2>4, <2>5, Zenon
<1>31. CASE UNCHANGED vars
  <2>1. con' = con /\ daemon' = daemon /\ half' = half /\ renewed' = renewed /\ req' = req
    BY <1>31, Zenon DEF vars
  <2>2. LeftInv'
    BY <2>1, Zenon DEF LeftInv
  <2>3. AppliedInv'
    BY <2>1, Zenon DEF AppliedInv
  <2>4. KeepInv'
    BY <2>1, Zenon DEF KeepInv
  <2>5. StoppedInv'
    BY <2>1, Zenon DEF StoppedInv
  <2> QED
    BY <2>2, <2>3, <2>4, <2>5, Zenon
<1> QED
    BY <1>1, <1>2, <1>3, <1>4, <1>5, <1>6, <1>7, <1>8, <1>9, <1>10, <1>11,
     <1>12, <1>13, <1>14, <1>15, <1>16, <1>17, <1>18, <1>19, <1>20, <1>21,
     <1>22, <1>23, <1>24, <1>25, <1>26, <1>27, <1>28, <1>29, <1>30, <1>31,
     Zenon DEF Next

\* The initial states satisfy the invariant.
LEMMA InitInv == Init => IInv
<1> SUFFICES ASSUME Init PROVE IInv
  BY Zenon
<1>1. TypeOK
  <2>1. PICK t \in TTLs : feed = NewFeed(t, TRUE)
    BY ZenonT(60) DEF Init
  <2>2. feed \in FeedState
    BY <2>1, Zenon DEF NewFeed, FeedState, Never
  <2>3. call \in Call /\ con \in Consumer
    BY ZenonT(60) DEF Init, NoCall, Call, NewConsumer, Consumer
  <2>4. NoDoc \in Doc
    BY DEF NoDoc, Doc
  <2>5. req \in Request
    BY <2>4, Zenon DEF Init, NoReq, Request
  <2>6. round \in [open : BOOLEAN, age : 0..Cap]
    BY Constants, Zenon DEF Init
  <2>7. /\ ctl \in {"up", "frozen", "down"} /\ inner \subseteq Prefix
        /\ daemon \subseteq Prefix /\ healthy \in BOOLEAN
        /\ torn \subseteq Prefix /\ half \in BOOLEAN
    BY Zenon DEF Init
  <2>8. renewed \in {Never} \cup 0..Cap /\ lag \in [Prefix -> 0..Cap]
        /\ events \in 0..MaxEvents
    BY Constants DEF Init
  <2> QED
    BY <2>2, <2>3, <2>5, <2>6, <2>7, <2>8, Zenon DEF TypeOK
<1>2. CallInv
  BY DEF Init, CallInv, FeedOnWire, NewFeed, NoCall
<1>3. RenewInv
  BY DEF Init, RenewInv, NewFeed
<1>4. /\ con.at = "top" /\ ~con.started /\ con.applied = {} /\ con.left = 0
      /\ req.at = "none"
  BY Zenon DEF Init, NewConsumer, NoReq
<1>5. LeftInv /\ AppliedInv /\ KeepInv /\ StoppedInv
  BY <1>4 DEF LeftInv, AppliedInv, KeepInv, StoppedInv
<1> QED
  BY <1>1, <1>2, <1>3, <1>5, Zenon DEF IInv

\* Every state reached satisfies the invariant.
LEMMA Invariance == Spec => []IInv
<1>1. Init => IInv
  BY InitInv, Zenon
<1>2. IInv /\ [Next]_vars => IInv'
  <2> SUFFICES ASSUME IInv, [Next]_vars PROVE IInv'
    BY Zenon
  <2>1. TypeOK /\ CallInv /\ RenewInv /\ LeftInv /\ AppliedInv /\ KeepInv
        /\ StoppedInv
    BY Zenon DEF IInv
  <2>2. TypeOK'
    BY <2>1, TypeStep, Zenon
  <2>3. CallInv' /\ RenewInv'
    BY <2>1, CallStep, RenewStep, Zenon
  <2>4. LeftInv' /\ AppliedInv' /\ KeepInv' /\ StoppedInv'
    BY <2>1, ConsumerStep, Zenon
  <2> QED
    BY <2>2, <2>3, <2>4, Zenon DEF IInv
<1> QED
  BY <1>1, <1>2, PTL DEF Spec

\* The feed, the mirror, the long poll and the consumer keep the types of
\* their states, for every set of prefixes, every lifetime and every bound.
THEOREM TypeCorrect == Spec => []TypeOK
<1>1. Init => TypeOK
  BY InitInv, Zenon DEF IInv
<1>2. TypeOK /\ [Next]_vars => TypeOK'
  BY TypeStep, Zenon
<1> QED
  BY <1>1, <1>2, PTL DEF Spec

\* Mirror order: the feed lists no prefix that the announcer behind the mirror
\* neither holds nor is just removing, but for those that a failed call took off
\* the wire and no later call has settled, for any mix of calls and failures
\* (Mirror.Announce, Mirror.Withdraw, Mirror.WithdrawAll, Mirror.SetRouters).
THEOREM FeedMatchesWire == Spec => []FeedOnWire
<1>1. Init => TypeOK /\ CallInv
  BY InitInv, Zenon DEF IInv
<1>2. TypeOK /\ CallInv /\ [Next]_vars => TypeOK' /\ CallInv'
  BY TypeStep, CallStep, Zenon
<1>3. CallInv => FeedOnWire
  BY Zenon DEF CallInv
<1> QED
  BY <1>1, <1>2, <1>3, PTL DEF Spec

\* Fail-safe expiry: for every lifetime, transit time and apply time, a running
\* consumer whose last put succeeded, and that no failed apply left with routes
\* it does not know of, has steering routes on its daemon only while a round of
\* the controller renewed them less than the longest lifetime, one transit and
\* two applies ago (consumer.step).
THEOREM FailSafe == Spec => []DropsOnTime
<1>1. Spec => []IInv
  BY Invariance, Zenon
<1>2. IInv => DropsOnTime
  <2> SUFFICES ASSUME IInv, con.started, ~con.error, ~half, daemon # {}
               PROVE  renewed # Never /\ renewed < Deadline + 2 * ApplyTime
    BY Zenon DEF DropsOnTime, Deadline
  <2>1. con.applied # {}
    BY Zenon DEF IInv, AppliedInv
  <2>2. TypeOK
    BY Zenon DEF IInv
  <2>3. renewed \in Nat /\ con.left \in Nat /\ con.timer \in Nat
    BY <2>1, <2>2, Fields, Zenon DEF IInv, KeepInv
  <2> QED
    BY <2>1, <2>3, Constants DEF IInv, LeftInv, KeepInv
<1> QED
  BY <1>1, <1>2, PTL

\* A consumer that was asked to stop and whose last put succeeded leaves no
\* steering route on the daemon (consumer.run's final apply of the empty set),
\* also when the stop met an apply and when applies failed before, unless one of
\* them changed the daemon as it failed and none has succeeded since.
THEOREM StopLeavesNothing == Spec => []StopDrops
<1>1. Spec => []IInv
  BY Invariance, Zenon
<1>2. IInv => StopDrops
  BY Zenon DEF IInv, StopDrops, AppliedInv, KeepInv, StoppedInv
<1> QED
  BY <1>1, <1>2, PTL

-----------------------------------------------------------------------------
(* What a healthy feed promises its consumer, for every set of prefixes,   *)
(* every refresh interval and every TTL whose heartbeat outruns it: the    *)
(* deadline never passes, and a route that left the feed leaves the daemon *)
(* within two transits.  The inductive invariant is HealthyInv.            *)

\* The fields that the invariant of a healthy feed reads.
LEMMA MoreFields ==
  ASSUME TypeOK
  PROVE  /\ feed \in FeedState /\ feed.rev \in Nat /\ feed.ttl \in TTLs
         /\ feed.routes \in SUBSET Prefix /\ feed.age \in {Never} \cup Nat
         /\ feed.closed \in BOOLEAN /\ feed.enabled \in BOOLEAN
         /\ round.open \in BOOLEAN /\ round.age \in Nat
         /\ req.rev \in Nat /\ req.changed \in Nat /\ req.wait \in BOOLEAN
         /\ req.at \in {"none", "sent", "armed", "parked", "doc", "answer"}
         /\ req.doc.rev \in Nat /\ req.doc.poll \in Nat
         /\ con.rev \in Nat /\ con.poll \in Nat /\ con.haveRev \in BOOLEAN
         /\ Beat \in Nat /\ \A p \in Prefix : lag[p] \in Nat
<1>1. feed \in FeedState /\ req \in Request /\ con \in Consumer
  BY Zenon DEF TypeOK
<1>2. feed.ttl \in TTLs /\ feed.age \in {Never} \cup Nat
  BY <1>1, Constants DEF FeedState
<1>3. req.doc \in Doc
  BY <1>1, Zenon DEF Request
<1>4. req.doc.rev \in Nat /\ req.doc.poll \in Nat
  BY <1>3, Zenon DEF Doc
<1>5. Beat \in Nat
  BY <1>2, HeartbeatType, Zenon DEF Beat
<1>6. /\ round.open \in BOOLEAN /\ round.age \in Nat
      /\ \A p \in Prefix : lag[p] \in Nat
  BY Constants DEF TypeOK
<1>7. /\ feed.rev \in Nat /\ feed.routes \in SUBSET Prefix
      /\ feed.closed \in BOOLEAN /\ feed.enabled \in BOOLEAN
  BY <1>1, Zenon DEF FeedState
<1>8. /\ req.rev \in Nat /\ req.changed \in Nat /\ req.wait \in BOOLEAN
      /\ req.at \in {"none", "sent", "armed", "parked", "doc", "answer"}
  BY <1>1, Zenon DEF Request
<1>9. con.rev \in Nat /\ con.poll \in Nat /\ con.haveRev \in BOOLEAN
  BY <1>1, Zenon DEF Consumer
<1> QED
  BY Zenon, <1>1, <1>2, <1>4, <1>5, <1>6, <1>7, <1>8, <1>9

\* A document of a healthy feed lists all its routes and outlasts the next
\* poll, unless no round has been published yet.
LEMMA HealthyDocument ==
  ASSUME PollsCover, TypeOK, SmoothInv
  PROVE  /\ Document.rev = feed.rev /\ Document.poll = Beat
         /\ Document.routes = feed.routes
         /\ feed.age = Never => Document.left = 0
         /\ feed.age # Never => Document.left > Beat + Transit
<1>1. /\ feed.enabled /\ ~feed.closed /\ feed.ttl \in TTLs /\ feed.ttl \in Nat
      /\ feed.age = Never \/ feed.age \in Nat
      /\ feed.age # Never => feed.age <= Interval
      /\ feed.age = Never => feed.routes = {}
  BY MoreFields, Constants, Zenon DEF SmoothInv
<1>2. Beat + Transit < feed.ttl - Interval /\ Beat \in Nat
  BY <1>1, MoreFields, Zenon DEF PollsCover, Beat
<1>3. /\ Document.rev = feed.rev /\ Document.poll = Beat
  BY Zenon DEF Document, Beat
<1>4. CASE feed.age = Never
  BY <1>1, <1>3, <1>4, Zenon DEF Document
<1>5. CASE feed.age # Never
  <2>1. feed.age < feed.ttl /\ feed.ttl - feed.age > Beat + Transit
    BY <1>1, <1>2, <1>5, Constants
  <2>2. Document.left = feed.ttl - feed.age /\ Document.routes = feed.routes
    BY <1>1, <1>5, <2>1, Zenon DEF Document
  <2> QED
    BY <1>3, <1>5, <2>1, <2>2, Zenon
<1> QED
  BY <1>4, <1>5, Zenon

\* The steps of a feed that stays healthy.
LEMMA HealthySteps ==
  ASSUME TypeOK, HealthyInv, [Next]_vars, healthy'
  PROVE  /\ healthy
         /\ \/ MirrorCall \/ MirrorFails \/ MirrorRecord \/ RoundStart \/ Touch
            \/ ServerArm \/ ServerCheck \/ ServerTimer \/ ServerAnswer
            \/ StepTop \/ StepFetch \/ StepDocument \/ ApplyDone
            \/ Tick /\ ~round.open /\ con.at # "put"
            \/ UNCHANGED vars
<1>1. ~(SetRuntime \/ Close \/ Lose \/ ApplyFails \/ Stop \/ ConsumerCrash
        \/ Freeze \/ Crash)
  BY Zenon DEF SetRuntime, Close, Lose, ApplyFails, Stop, ConsumerCrash, Freeze,
     Crash
<1>2. healthy
  BY <1>1, Zenon DEF Next, vars, NoEvent, MirrorCall, MirrorFails, MirrorRecord, RoundStart,
     Touch, ServerArm, ServerCheck, ServerTimer, ServerAnswer, StepTop,
     StepFetch, StepDocument, StepError, Pause, Wake, ApplyDone, StopFinal,
     ConsumerStart, Thaw, Exit, Restart, Tick
<1>3. SmoothInv /\ FreshInv
  BY <1>2, Zenon DEF HealthyInv
<1>4. ~(Pause \/ Wake \/ StopFinal \/ ConsumerStart \/ Thaw \/ Exit \/ Restart)
  BY <1>3, Zenon DEF SmoothInv, Pause, Wake, StopFinal, ConsumerStart, Thaw, Exit,
     Restart
<1>5. ~StepError
  <2>1. AnswerIn \in Nat
    <3>1. Beat + Transit \in Nat /\ 0 + Transit \in Nat
          /\ req.timer + Transit \in Nat /\ Transit \in Nat /\ req.timer \in Nat
      BY Fields, MoreFields, Constants
    <3> QED
      BY Zenon, <3>1 DEF AnswerIn
  <2>2. con.at = "fetch" => con.timer # 0
    <3>1. con.at = "fetch" => con.timer > AnswerIn
      BY Zenon, <1>3 DEF FreshInv
    <3> QED
      BY <2>1, <3>1, Fields
  <2>3. ctl # "down" /\ (con.at = "fetch" => req.at # "none")
    BY <1>3, Zenon DEF SmoothInv
  <2> QED
    BY Zenon, <2>2, <2>3 DEF StepError
<1>6. Tick => ~round.open /\ con.at # "put"
  BY Zenon DEF Tick
<1> QED
  BY Zenon, <1>1, <1>2, <1>4, <1>5, <1>6 DEF Next

\* Calls, rounds and answers of a healthy feed keep its invariant.
LEMMA HealthyServer ==
  ASSUME PollsCover, TypeOK, SmoothInv, FreshInv, RevInv, LagInv,
         \/ MirrorCall \/ MirrorFails \/ MirrorRecord \/ RoundStart \/ Touch
         \/ ServerArm \/ ServerCheck \/ ServerTimer \/ ServerAnswer
  PROVE  SmoothInv' /\ FreshInv' /\ RevInv' /\ LagInv'
<1> USE Fields, MoreFields
<1>1. CASE MirrorCall \/ MirrorFails \/ RoundStart
  <2>1. /\ UNCHANGED <<ctl, feed, req, con, daemon, lag>>
        /\ round' = round \/ (round'.open /\ round'.age = 0)
    BY <1>1, SMTT(30) DEF MirrorCall, MirrorFails, RoundStart
  <2>2. SmoothInv'
    BY <2>1, Constants DEF SmoothInv
  <2>3. FreshInv'
    <3>1. Beat' = Beat /\ AnswerIn' = AnswerIn
      BY <2>1, Zenon DEF Beat, AnswerIn
    <3> QED BY <2>1, <3>1, SMTT(30) DEF FreshInv
  <2>4. RevInv' /\ LagInv'
    BY <2>1, SMTT(30) DEF RevInv, LagInv, Shown
  <2> QED BY <2>2, <2>3, <2>4, Zenon
<1>2. CASE MirrorRecord
  <2>1. UNCHANGED <<ctl, round, req, con, daemon, lag>>
    BY <1>2, Zenon DEF MirrorRecord
  <2>2. /\ feed'.enabled = feed.enabled /\ feed'.closed = feed.closed
        /\ feed'.age = feed.age /\ feed'.ttl = feed.ttl
        /\ feed'.routes \subseteq feed.routes
        /\ \/ feed'.rev = feed.rev /\ feed'.routes = feed.routes
           \/ feed'.rev = feed.rev + 1
    BY <1>2, Zenon DEF MirrorRecord, Unpublish, FeedState
  <2>3. SmoothInv'
    BY <2>1, <2>2, Zenon DEF SmoothInv
  <2>4. FreshInv'
    <3>1. Beat' = Beat /\ AnswerIn' = AnswerIn
      BY <2>1, <2>2, Zenon DEF Beat, AnswerIn
    <3> QED BY <2>1, <2>2, <3>1, SMTT(30) DEF FreshInv
  <2>5. RevInv'
    BY <2>1, <2>2, SMTT(30) DEF RevInv, Shown
  <2>6. LagInv'
    BY <2>1, <2>2, Zenon DEF LagInv, Shown
  <2> QED BY <2>3, <2>4, <2>5, <2>6, Zenon
<1>3. CASE Touch
  <2>1. UNCHANGED <<ctl, req, con, daemon>>
    BY <1>3, Zenon DEF Touch
  <2>2. /\ round.open /\ round.age = 0 /\ ~feed.closed /\ feed.enabled
    BY <1>3, Zenon DEF Touch, SmoothInv
  <2>3. ~round'.open /\ round'.age = 0
    BY <1>3, <2>2, Zenon DEF Touch, TypeOK
  <2>4. /\ feed'.enabled = feed.enabled /\ feed'.closed = feed.closed
        /\ feed'.age = 0 /\ feed'.ttl = feed.ttl
        /\ \/ feed'.rev = feed.rev /\ feed'.routes = feed.routes
           \/ feed'.rev = feed.rev + 1
    BY <1>3, <2>2, Zenon DEF Touch, FeedState
  <2>5. \A p \in Prefix : lag'[p] = IF p \in feed'.routes THEN 0 ELSE lag[p]
    BY <1>3, Zenon DEF Touch
  <2>6. SmoothInv'
    BY <2>1, <2>2, <2>3, <2>4, Constants, SMTT(30) DEF SmoothInv, Never
  <2>7. FreshInv'
    <3>1. Beat' = Beat /\ AnswerIn' = AnswerIn
      BY <2>1, <2>4, Zenon DEF Beat, AnswerIn
    <3>2. feed'.age # Never
      BY <2>4 DEF Never
    <3> QED BY <2>1, <3>1, <3>2, ZenonT(60) DEF FreshInv
  <2>8. RevInv'
    BY <2>1, <2>4, SMTT(30) DEF RevInv, Shown
  <2>9. LagInv'
    <3> SUFFICES ASSUME NEW p \in Prefix
                 PROVE  /\ lag'[p] <= 2 * Transit
                        /\ p \in feed'.routes => lag'[p] = 0
                        /\ p \in Shown /\ req.at # "answer" => lag'[p] <= Transit
                        /\ req.at = "answer" =>
                             /\ p \in daemon => lag'[p] + req.timer <= 2 * Transit
                             /\ p \in req.doc.routes =>
                                  lag'[p] + req.timer <= Transit
      BY <2>1, Zenon DEF LagInv, Shown
    <3>1. lag'[p] = lag[p] \/ (lag'[p] = 0 /\ lag[p] >= 0)
      BY <2>5, SMTT(30)
    <3>2. lag'[p] \in Nat /\ lag'[p] <= lag[p] /\ (p \in feed'.routes => lag'[p] = 0)
      BY <2>5, SMTT(30)
    <3> QED
      BY <3>2, Constants, SMTT(30) DEF LagInv
  <2> QED BY <2>6, <2>7, <2>8, <2>9, Zenon
<1>4. CASE ServerArm \/ ServerCheck \/ ServerTimer
  <2>1. UNCHANGED <<ctl, feed, round, con, daemon, lag>>
    BY <1>4, Zenon DEF ServerArm, ServerCheck, ServerTimer, feedSide, conSide
  <2>2. req.at \in {"sent", "armed", "parked"}
    BY <1>4, Zenon DEF ServerArm, ServerCheck, ServerTimer
  <2>3. con.at = "fetch"
    BY <2>2, Zenon DEF SmoothInv
  <2>4. /\ req'.rev = req.rev /\ req'.wait = req.wait
        /\ req'.at \in {"armed", "parked", "doc"}
        /\ req'.at = "parked" => /\ req.at = "armed" /\ req'.changed = req.changed
                                 /\ feed.rev = req.rev
        /\ req'.at = "armed" => req.wait /\ req'.changed = feed.rev
        /\ req'.at \in {"armed", "parked"} =>
             req'.timer = IF req.at = "sent" THEN Beat ELSE req.timer
    BY <1>4, Zenon DEF ServerArm, ServerCheck, ServerTimer, Request, Beat
  <2>5. SmoothInv'
    BY <2>1, <2>3, <2>4, Zenon DEF SmoothInv
  <2>6. FreshInv'
    <3>1. Beat' = Beat
      BY <2>1, Zenon DEF Beat
    <3>2. AnswerIn' <= AnswerIn /\ AnswerIn \in Nat /\ AnswerIn' \in Nat
      BY <2>2, <2>4, Constants, SMTT(30) DEF AnswerIn
    <3> QED
      BY <2>1, <2>3, <2>4, <3>1, <3>2, SMTT(30) DEF FreshInv
  <2>7. RevInv'
    BY <2>1, <2>2, <2>3, <2>4 DEF RevInv, Shown
  <2>8. LagInv'
    BY <2>1, <2>2, <2>3, <2>4, Zenon DEF LagInv, Shown
  <2> QED BY <2>5, <2>6, <2>7, <2>8, Zenon
<1>5. CASE ServerAnswer
  <2>1. UNCHANGED <<ctl, feed, round, con, daemon, lag>>
    BY <1>5, Zenon DEF ServerAnswer, feedSide, conSide
  <2>2. req.at = "doc" /\ con.at = "fetch"
    BY <1>5, Zenon DEF ServerAnswer, SmoothInv
  <2>3. /\ req'.rev = req.rev /\ req'.wait = req.wait /\ req'.at = "answer"
        /\ req'.timer = Transit /\ req'.doc = Document
    BY <1>5, Zenon DEF ServerAnswer, Request
  <2>4. /\ Document.rev = feed.rev /\ Document.poll = Beat
        /\ Document.routes = feed.routes
        /\ feed.age = Never => Document.left = 0
        /\ feed.age # Never => Document.left > Beat + Transit
    BY HealthyDocument, Zenon
  <2>5. SmoothInv'
    BY <2>1, <2>2, <2>3, Zenon DEF SmoothInv
  <2>6. FreshInv'
    <3>1. Beat' = Beat /\ AnswerIn = Transit /\ AnswerIn' = Transit
      BY <2>1, <2>2, <2>3, Zenon DEF Beat, AnswerIn
    <3>2. Document.left \in Nat
      BY DocumentType, Zenon DEF Doc
    <3> QED
      BY <2>1, <2>2, <2>3, <2>4, <3>1, <3>2, Constants DEF FreshInv
  <2>7. RevInv'
    BY <2>1, <2>2, <2>3, <2>4, SMTT(30) DEF RevInv, Shown
  <2>8. LagInv'
    <3> SUFFICES ASSUME NEW p \in Prefix
                 PROVE  /\ lag[p] <= 2 * Transit
                        /\ p \in feed.routes => lag[p] = 0
                        /\ p \in daemon => lag[p] + Transit <= 2 * Transit
                        /\ p \in feed.routes => lag[p] + Transit <= Transit
      BY <2>1, <2>2, <2>3, <2>4, Zenon DEF LagInv, Shown
    <3>1. /\ lag[p] <= 2 * Transit
          /\ p \in feed.routes => lag[p] = 0
          /\ p \in daemon => lag[p] <= Transit
      BY <2>2, Zenon DEF LagInv, Shown
    <3>2. lag[p] \in Nat /\ Transit \in Nat
      BY Constants, Zenon DEF TypeOK
    <3> QED
      BY <3>1, <3>2
  <2> QED BY <2>5, <2>6, <2>7, <2>8, Zenon
<1> QED BY <1>1, <1>2, <1>3, <1>4, <1>5, Zenon

\* The consumer's steps on a healthy feed keep its invariant.
LEMMA HealthyConsumer ==
  ASSUME PollsCover, TypeOK, SmoothInv, FreshInv, RevInv, LagInv,
         StepTop \/ StepFetch \/ StepDocument \/ ApplyDone
  PROVE  SmoothInv' /\ FreshInv' /\ RevInv' /\ LagInv'
<1> USE Fields, MoreFields
<1>0. UNCHANGED <<ctl, feed, round, lag>>
  BY Zenon DEF StepTop, StepFetch, StepDocument, ApplyDone, feedSide
<1>1. Beat' = Beat
  BY <1>0, Zenon DEF Beat
<1>2. CASE StepTop
  <2>1. UNCHANGED <<req, daemon>> /\ con.at = "top" /\ req.at = "none"
    BY <1>2, Zenon DEF StepTop, SmoothInv
  <2>2. /\ con'.left = con.left /\ con'.applied = con.applied
        /\ con'.started = con.started
        /\ con'.rev = con.rev /\ con'.haveRev = con.haveRev /\ con'.poll = con.poll
        /\ \/ con'.at = "ask" /\ con.left > 0
           \/ con'.at = "ask" /\ con.started /\ con.applied = {}
           \/ con'.at = "put" /\ con'.want = {} /\ con'.next = "ask"
    <3>1. CASE con.left = 0
      BY <1>2, <3>1, Zenon DEF StepTop, Put, Consumer
    <3>2. CASE con.left # 0
      BY <1>2, <3>2 DEF StepTop, Consumer
    <3> QED BY <3>1, <3>2, Zenon
  <2>3. SmoothInv'
    BY <1>0, <2>1, <2>2 DEF SmoothInv
  <2>4. FreshInv'
    BY <1>0, <1>1, <2>1, <2>2, Zenon DEF FreshInv
  <2>5. Shown' \subseteq Shown
    BY <2>1, <2>2, Zenon DEF Shown
  <2>6. RevInv'
    BY <1>0, <2>1, <2>2, <2>5, Zenon DEF RevInv
  <2>7. LagInv'
    BY <1>0, <2>1, <2>5, Zenon DEF LagInv
  <2> QED BY <2>3, <2>4, <2>6, <2>7, Zenon
<1>3. CASE StepFetch
  <2>1. UNCHANGED daemon /\ con.at = "ask" /\ req.at = "none" /\ con.started
    BY <1>3, Zenon DEF StepFetch, SmoothInv
  <2>2. /\ con'.left = con.left /\ con'.applied = con.applied
        /\ con'.started = con.started /\ con'.want = con.want
        /\ con'.rev = con.rev /\ con'.haveRev = con.haveRev /\ con'.poll = con.poll
        /\ con'.at = "fetch" /\ con'.timer = Limit(con)
    BY <1>3, Zenon DEF StepFetch, Consumer
  <2>3. /\ req'.at = "sent" /\ req'.rev = con.rev /\ req'.wait = con.haveRev
    BY <1>3, Zenon DEF StepFetch, NoReq
  <2>4. SmoothInv'
    BY <1>0, <2>1, <2>2, <2>3, Zenon DEF SmoothInv
  <2>5. FreshInv'
    <3>1. AnswerIn' = (IF con.haveRev THEN Beat ELSE 0) + Transit
      BY <1>1, <2>3, Zenon DEF AnswerIn
    <3>2. /\ con.left > 0 => con.left > AnswerIn'
          /\ AnswerIn' \in Nat
      BY <2>1, <3>1, Constants, SMTT(30) DEF FreshInv
    <3>3. PollEvery(con) + Slack > AnswerIn'
      BY <3>1, Constants, HeartbeatType, SMTT(30)
         DEF FreshInv, PollEvery, PollsCover, Beat
    <3>4. con'.timer > AnswerIn'
      BY <2>2, <3>2, <3>3, Zenon DEF Limit, Lower
    <3> QED
      BY <1>0, <1>1, <2>1, <2>2, <2>3, <3>2, <3>4, Zenon DEF FreshInv
  <2>6. RevInv'
    BY <1>0, <2>1, <2>2, <2>3, Zenon DEF RevInv, Shown
  <2>7. LagInv'
    BY <1>0, <2>1, <2>2, <2>3, Zenon DEF LagInv, Shown
  <2> QED BY <2>4, <2>5, <2>6, <2>7, Zenon
<1>4. CASE StepDocument
  <2> DEFINE got == [con EXCEPT !.left = req.doc.left, !.rev = req.doc.rev,
                                !.haveRev = TRUE, !.poll = req.doc.poll]
             want == IF req.doc.left = 0 THEN {} ELSE req.doc.routes
  <2>1. /\ UNCHANGED daemon /\ con.at = "fetch" /\ con.started /\ req.at = "answer"
        /\ daemon = con.applied
    BY <1>4, Zenon DEF StepDocument, SmoothInv
  <2>2. req'.at = "none"
    BY <1>4, Zenon DEF StepDocument, NoReq
  <2>3. got \in Consumer
    BY GotType, Zenon
  <2>4. /\ got.left = req.doc.left /\ got.rev = req.doc.rev /\ got.haveRev
        /\ got.poll = req.doc.poll /\ got.started = con.started
        /\ got.applied = con.applied
    BY Zenon DEF Consumer
  <2>5. con' = Put(got, want, "top")
    BY <1>4, <2>4, Zenon DEF StepDocument
  <2>6. want \in SUBSET Prefix /\ want \subseteq req.doc.routes
        /\ (want # {} => req.doc.left > 0)
    BY SMTT(30)
  <2> HIDE DEF got, want
  <2>7. /\ con'.left = got.left /\ con'.applied = got.applied
        /\ con'.started = got.started
        /\ con'.rev = got.rev /\ con'.haveRev = got.haveRev /\ con'.poll = got.poll
        /\ \/ con'.at = "top" /\ want = con.applied
           \/ con'.at = "put" /\ con'.want = want /\ con'.next = "top"
    BY <2>3, <2>4, <2>5, Zenon DEF Put, Consumer
  <2>8. SmoothInv'
    BY <1>0, <2>1, <2>2, <2>4, <2>7, Zenon DEF SmoothInv
  <2>9. FreshInv'
    BY <1>0, <1>1, <2>1, <2>2, <2>4, <2>6, <2>7 DEF FreshInv
  <2>10. Shown' = want
    BY <2>1, <2>7, Zenon DEF Shown
  <2>11. RevInv'
    BY <1>0, <2>1, <2>2, <2>4, <2>6, <2>7, <2>10, Zenon DEF RevInv
  <2>12. LagInv'
    BY <1>0, <2>1, <2>2, <2>6, <2>10, Constants DEF LagInv
  <2> QED BY <2>8, <2>9, <2>11, <2>12, Zenon
<1>5. CASE ApplyDone
  <2>1. UNCHANGED req /\ con.at = "put" /\ req.at = "none" /\ daemon' = con.want
    BY <1>5, Zenon DEF ApplyDone, SmoothInv
  <2>2. con.next \in {"top", "ask"}
    BY <2>1, Zenon DEF SmoothInv
  <2>3. /\ con'.left = con.left /\ con'.applied = con.want /\ con'.started
        /\ con'.rev = con.rev /\ con'.haveRev = con.haveRev /\ con'.poll = con.poll
        /\ con'.at = con.next
    BY <1>5, Zenon DEF ApplyDone, Consumer
  <2>4. Shown' = Shown
    BY <2>1, <2>2, <2>3, Zenon DEF Shown
  <2>5. SmoothInv'
    BY <1>0, <2>1, <2>2, <2>3, Zenon DEF SmoothInv
  <2>6. FreshInv'
    BY <1>0, <1>1, <2>1, <2>2, <2>3, Zenon DEF FreshInv
  <2>7. RevInv'
    BY <1>0, <2>1, <2>2, <2>3, <2>4, Zenon DEF RevInv
  <2>8. LagInv'
    BY <1>0, <2>1, <2>4, Zenon DEF LagInv
  <2> QED BY <2>5, <2>6, <2>7, <2>8, Zenon
<1> QED BY <1>2, <1>3, <1>4, <1>5, Zenon

\* Time passes on a healthy feed while the consumer waits for an answer.
LEMMA HealthyTick ==
  ASSUME PollsCover, TypeOK, SmoothInv, FreshInv, RevInv, LagInv,
         Tick, ~round.open, con.at # "put"
  PROVE  SmoothInv' /\ FreshInv' /\ RevInv' /\ LagInv'
<1> USE Fields, MoreFields
<1>1. UNCHANGED <<ctl, daemon>> /\ con.at = "fetch" /\ con.timer > 0 /\ con.started
  BY Zenon DEF Tick, Idle, SmoothInv
<1>2. /\ round.age < Interval
      /\ \/ req.at = "parked" /\ req.timer > 0 /\ req.changed = feed.rev
         \/ req.at = "answer" /\ req.timer > 0
  BY <1>1, Zenon DEF Tick, Idle, SmoothInv
<1>3. ~round'.open /\ round'.age <= round.age + 1 /\ round'.age \in Nat
      /\ (round.age + 1 <= Interval => round'.age = round.age + 1)
  BY Constants DEF Tick, Lower, TypeOK
<1>4. /\ feed'.enabled = feed.enabled /\ feed'.closed = feed.closed
      /\ feed'.ttl = feed.ttl /\ feed'.rev = feed.rev /\ feed'.routes = feed.routes
      /\ feed.age = Never => feed'.age = Never
      /\ feed.age # Never => /\ feed'.age \in Nat /\ feed'.age <= feed.age + 1
                             /\ feed'.age # Never
  BY Constants DEF Tick, Older, Lower, Never, FeedState
<1>5. /\ req'.at = req.at /\ req'.rev = req.rev /\ req'.wait = req.wait
      /\ req'.changed = req.changed /\ req'.doc = req.doc
      /\ req'.timer = req.timer - 1
  BY <1>2 DEF Tick, Down, Request
<1>6. /\ con'.at = con.at /\ con'.next = con.next /\ con'.applied = con.applied
      /\ con'.want = con.want /\ con'.started = con.started
      /\ con'.rev = con.rev /\ con'.haveRev = con.haveRev /\ con'.poll = con.poll
  BY Zenon DEF Tick, Consumer
<1>7. /\ con'.timer = con.timer - 1
      /\ con'.left = IF con.left = 0 THEN 0 ELSE con.left - 1
  BY <1>1 DEF Tick, Down, Consumer
<1>8. \A p \in Prefix : /\ p \in daemon \ feed.routes => lag'[p] <= lag[p] + 1
                        /\ p \notin daemon \ feed.routes => lag'[p] = 0
                        /\ lag'[p] \in Nat
  <2>1. Document.routes = feed.routes
    BY HealthyDocument, Zenon
  <2>2. \A p \in Prefix : lag'[p] = IF p \in daemon \ feed.routes
                                    THEN Lower(lag[p] + 1, Cap) ELSE 0
    BY <2>1, Zenon DEF Tick
  <2> QED
    BY <2>2, Constants, SMTT(30) DEF Lower
<1>9. SmoothInv'
  BY <1>1, <1>2, <1>3, <1>4, <1>5, <1>6, <1>7, Constants DEF SmoothInv
<1>10. FreshInv'
  <2>1. Beat' = Beat /\ AnswerIn' = AnswerIn - 1 /\ AnswerIn \in Nat \ {0}
    BY <1>2, <1>4, <1>5, Constants DEF Beat, AnswerIn
  <2>2. con.left > 0 => con.left > AnswerIn
    BY <1>1, Zenon DEF FreshInv
  <2>3. con'.left > 0 <=> con.left > 0
    BY <1>7, <2>1, <2>2, SMTT(30)
  <2>4. con'.timer > AnswerIn'
    BY <1>1, <1>7, <2>1, SMTT(30) DEF FreshInv
  <2>5. con'.left > 0 => con'.left > AnswerIn'
    BY <1>7, <2>1, <2>2, SMTT(30)
  <2>6. con.applied # {} => con'.left > 0
    BY <2>3, Zenon DEF FreshInv
  <2>7. con.left = 0 => con'.left = 0
    BY <1>7, Zenon
  <2> QED
    BY <1>1, <1>4, <1>5, <1>6, <2>1, <2>3, <2>4, <2>5, <2>6, <2>7, Zenon DEF FreshInv
<1>11. RevInv'
  BY <1>1, <1>4, <1>5, <1>6, ZenonT(60) DEF RevInv, Shown
<1>12. LagInv'
  <2> SUFFICES ASSUME NEW p \in Prefix
               PROVE  /\ lag'[p] <= 2 * Transit
                      /\ p \in feed.routes => lag'[p] = 0
                      /\ p \in daemon /\ req.at # "answer" => lag'[p] <= Transit
                      /\ req.at = "answer" =>
                           /\ p \in daemon => lag'[p] + req'.timer <= 2 * Transit
                           /\ p \in req.doc.routes => lag'[p] + req'.timer <= Transit
    BY <1>1, <1>4, <1>5, <1>6, Zenon DEF LagInv, Shown
  <2>1. CASE req.at = "parked"
    <3>1. daemon \subseteq feed.routes
      BY <1>1, <1>2, <2>1, Zenon DEF RevInv, Shown
    <3>2. lag'[p] = 0
      BY <1>8, <3>1, Zenon
    <3> QED BY <2>1, <3>2, Constants
  <2>2. CASE req.at = "answer"
    BY <1>2, <1>5, <1>8, <2>2, Constants DEF LagInv
  <2> QED BY <1>2, <2>1, <2>2, Zenon
<1> QED BY <1>9, <1>10, <1>11, <1>12, Zenon

\* The invariant of a healthy feed, for all times that leave an answer room.
LEMMA HealthyInvariance ==
  ASSUME PollsCover PROVE Spec => [](TypeOK /\ HealthyInv)
<1>1. Init => TypeOK /\ HealthyInv
  <2> SUFFICES ASSUME Init PROVE HealthyInv
    BY InitInv, Zenon DEF IInv
  <2>0. TypeOK
    BY InitInv, Zenon DEF IInv
  <2>1. /\ ctl = "up" /\ feed.enabled /\ ~feed.closed /\ feed.age = Never
        /\ feed.routes = {} /\ round.age = Interval /\ ~round.open
        /\ \A p \in Prefix : lag[p] = 0
    BY SMTT(30) DEF Init, NewFeed
  <2>2. /\ con.at = "top" /\ con.left = 0 /\ con.applied = {} /\ ~con.started
        /\ con.poll = 0 /\ ~con.haveRev /\ con.rev = 0 /\ req.at = "none"
    BY Zenon DEF Init, NewConsumer, NoReq
  <2>3. SmoothInv
    BY <2>1, <2>2, Constants, SMTT(30) DEF SmoothInv
  <2>4. FreshInv
    BY <2>1, <2>2, SMTT(30) DEF FreshInv
  <2>5. RevInv
    BY <2>0, <2>1, <2>2, MoreFields, SMTT(30) DEF RevInv
  <2>6. LagInv
    <3>1. 0 <= Transit /\ 0 <= 2 * Transit
      BY Constants
    <3> QED
      BY <2>1, <2>2, <3>1, Zenon DEF LagInv
  <2> QED BY <2>3, <2>4, <2>5, <2>6, Zenon DEF HealthyInv
<1>2. TypeOK /\ HealthyInv /\ [Next]_vars => TypeOK' /\ HealthyInv'
  <2> SUFFICES ASSUME TypeOK, HealthyInv, [Next]_vars, healthy'
               PROVE  SmoothInv' /\ FreshInv' /\ RevInv' /\ LagInv'
    BY TypeStep, Zenon DEF HealthyInv
  <2>1. SmoothInv /\ FreshInv /\ RevInv /\ LagInv
    BY HealthySteps, Zenon DEF HealthyInv
  <2>2. CASE UNCHANGED vars
    <3>1. UNCHANGED <<ctl, feed, round, req, con, daemon, lag>>
      BY <2>2, Zenon DEF vars
    <3>2. Beat' = Beat /\ AnswerIn' = AnswerIn /\ Shown' = Shown
      BY <3>1, Zenon DEF Beat, AnswerIn, Shown
    <3>3. SmoothInv' = SmoothInv
      BY <3>1, Zenon DEF SmoothInv
    <3>4. FreshInv' = FreshInv
      BY <3>1, <3>2, Zenon DEF FreshInv
    <3>5. RevInv' = RevInv
      BY <3>1, <3>2, Zenon DEF RevInv
    <3>6. LagInv' = LagInv
      BY <3>1, <3>2, Zenon DEF LagInv
    <3> QED
      BY <2>1, <3>3, <3>4, <3>5, <3>6, Zenon
  <2> QED
    BY <2>1, <2>2, HealthySteps, HealthyServer, HealthyConsumer, HealthyTick, Zenon
<1> QED
  BY <1>1, <1>2, PTL DEF Spec

\* A healthy feed never expires on the consumer: while rounds and applies are
\* quick and nothing is lost, no applied route reaches its deadline, for every
\* ttl of at least three intervals (validateExternalPolicy) and all times for
\* which a heartbeat and its answer end before the fetch and the lifetime do
\* (HeartbeatOf, pollSlack).
THEOREM HealthyNeverExpires ==
  ASSUME PollsCover
  PROVE  Spec => []HealthyKeeps
<1>1. TypeOK /\ HealthyInv => HealthyKeeps
  BY Zenon DEF HealthyInv, FreshInv, HealthyKeeps
<1> QED
  BY <1>1, HealthyInvariance, PTL

\* A withdrawn route is off the daemon within two transit times: the answer that
\* was on its way and the next, which the changed channel of waitChange releases
\* at once (unpublishLocked, waitChange).
THEOREM WithdrawsPromptly ==
  ASSUME PollsCover
  PROVE  Spec => []WithdrawPrompt
<1>1. TypeOK /\ HealthyInv => WithdrawPrompt
  BY Zenon DEF HealthyInv, LagInv, WithdrawPrompt
<1> QED
  BY <1>1, HealthyInvariance, PTL
=============================================================================
