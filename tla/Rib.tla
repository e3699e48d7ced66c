-------------------------------- MODULE Rib ---------------------------------
(***************************************************************************)
(* The learned RIB (internal/rib/rib.go, adj.go) and the BMP station that  *)
(* feeds it (internal/plugins/ribsource/bmp).                              *)
(*                                                                         *)
(* The speaker reports session and path events of every iBGP neighbor in   *)
(* one ordered stream; the view applies them one at a time.  A monitored   *)
(* router sends BMP messages over a TCP connection; a connection that      *)
(* replaces another one waits until the old one has dropped its paths.     *)
(* The published route of a prefix is selected from the iBGP paths, then   *)
(* from the BMP ones.  A reload adds and removes neighbors; an instance    *)
(* that could not withdraw its routes drops all sessions for good.         *)
(*                                                                         *)
(* There is one monitored router.  BMP peer number v > 0 is the BGP        *)
(* session with provider v, peer 0 the router's Loc-RIB.  A path is its    *)
(* provider (0: the next hop is none), its local preference, the length    *)
(* of its AS path, and whether it carries Packeteer's own community.  MED, *)
(* the session type and the exchange peers' AS check are left out.         *)
(***************************************************************************)
EXTENDS Snapshot, Sequences, FiniteSetsExt

CONSTANTS
  Neighbor,       \* iBGP neighbors, ordered by address
  PathId,         \* add-path identifiers, 0 among them
  Peer,           \* BMP peers, 0 among them
  Usage,          \* per provider: "off", "prefer" or "only"
  AddPathNbr,     \* neighbors configured to receive add-path
  AddPathProv,    \* providers whose route check reads it
  NbrPaths, BmpPaths,   \* the paths a neighbor, a monitored router can send
  NoPath,
  MaxConns,       \* bound: BMP connections of a behaviour
  RibStarts       \* per scope: the budgets of events from outside

VARIABLES
  nbr,      \* per neighbor: what the view knows of it
  sess,     \* per neighbor: the session, and what the router sends over it
  evq,      \* events the speaker has reported and the view has not read
  reads,    \* reads of a router's capabilities that are under way
  adj,      \* iBGP paths per prefix, neighbor and identifier
  bmp,      \* BMP paths per prefix and peer
  bpeers,   \* BMP peers reported up
  conns,    \* the BMP connections accepted so far
  live,     \* the connection the station has on file, 0 for none
  dropped,  \* the sessions are shut for good
  op, drop, \* the reload and the shutdown under way
  ribBudget

learnedVars == <<nbr, evq, reads, adj, bmp, bpeers>>
linkVars == <<sess, op, drop, dropped>>
bmpVars == <<conns, live>>
ribVars == <<snapVars, learnedVars, linkVars, bmpVars, ribBudget>>

RProvider == DOMAIN Usage
AdjKey == Neighbor \X PathId
NoPaths == [p \in RPrefix |-> [k \in PathId |-> NoPath]]
NoOp == [kind |-> "none", n |-> 0, step |-> 0]
NewNbr(conf, since) == [conf |-> conf, state |-> "idle", since |-> since, ap |-> FALSE]
NewSess(st) == [st |-> st, enabled |-> st # "none", ap |-> FALSE, kept |-> FALSE,
                tried |-> FALSE, paths |-> NoPaths]

RibInit ==
  \E s \in RibStarts :
    /\ SnapInit
    /\ nbr = [n \in Neighbor |-> NewNbr(n \in s.nbrs, 0)]
    /\ sess = [n \in Neighbor |-> NewSess(IF n \in s.nbrs THEN "new" ELSE "none")]
    /\ evq = <<>> /\ reads = {} /\ bpeers = {}
    /\ adj = [p \in RPrefix |-> [k \in AdjKey |-> NoPath]]
    /\ bmp = [p \in RPrefix |-> [k \in Peer |-> NoPath]]
    /\ conns = <<>> /\ live = 0 /\ dropped = FALSE
    /\ op = NoOp /\ drop = [step |-> 0, todo |-> {}, failed |-> {}]
    /\ ribBudget = s.budget

Spent(kind) == ribBudget[kind] > 0 /\ ribBudget' = [ribBudget EXCEPT ![kind] = @ - 1]

-----------------------------------------------------------------------------
(* Selection *)

AdjLess(a, k, b, l) ==
  IF a.lp # b.lp THEN a.lp > b.lp
  ELSE IF k[1] # l[1] THEN k[1] < l[1]
  ELSE IF a.len # b.len THEN a.len < b.len ELSE k[2] < l[2]

BmpLess(a, k, b, l) ==
  IF (k = 0) # (l = 0) THEN k = 0
  ELSE IF a.len # b.len THEN a.len < b.len ELSE k < l

UsableAdj(a) == a.prov = 0 \/ Usage[a.prov] # "only"

\* The published route: the best usable iBGP path, or the best BMP path.
Selected(a, b) ==
  LET I == {k \in AdjKey : a[k] # NoPath /\ UsableAdj(a[k])}
      B == {k \in Peer : b[k] # NoPath}
      i == CHOOSE k \in I : \A l \in I \ {k} : AdjLess(a[k], k, a[l], l)
      j == CHOOSE k \in B : \A l \in B \ {k} : BmpLess(b[k], k, b[l], l)
  IN IF I # {} THEN [src |-> "ibgp", key |-> i, path |-> a[i]]
     ELSE IF B # {} THEN [src |-> "bmp", key |-> <<j>>, path |-> b[j]]
     ELSE NoRoute

Published(A, B) == [p \in RPrefix |-> Selected(A[p], B[p])]

\* The view takes new paths and publishes what they select.
Learn(A, B) == adj' = A /\ bmp' = B /\ Publish(Published(A, B))

Forgotten(n) == [p \in RPrefix |-> [k \in AdjKey |-> IF k[1] = n THEN NoPath ELSE adj[p][k]]]

-----------------------------------------------------------------------------
(* iBGP: the speaker, and the view's event handler *)

Report(e) == evq' = Append(evq, e)
PeerEvent(n, st) == [kind |-> "peer", n |-> n, st |-> st]

\* The speaker tries to connect, and the session comes up.
Connect(n) ==
  /\ sess[n].st = "new" /\ sess[n].enabled /\ Spent("up")
  /\ sess' = [sess EXCEPT ![n].st = "conn", ![n].tried = TRUE]
  /\ Report(PeerEvent(n, "conn"))
  /\ UNCHANGED <<snapVars, nbr, reads, adj, bmp, bpeers, op, drop, dropped, bmpVars>>

Establish(n) ==
  /\ sess[n].st = "conn" /\ sess[n].enabled
  /\ \E ap \in IF n \in AddPathNbr THEN BOOLEAN ELSE {FALSE} :
       sess' = [sess EXCEPT ![n].st = "up", ![n].ap = ap, ![n].paths = NoPaths]
  /\ Report(PeerEvent(n, "up"))
  /\ UNCHANGED <<snapVars, nbr, reads, adj, bmp, bpeers, op, drop, dropped, bmpVars, ribBudget>>

\* A session that is lost or shut down: what was sent over it is void.
Down(s) == [s EXCEPT !.st = "new", !.ap = FALSE, !.paths = NoPaths]

Lose(n) ==
  /\ sess[n].st = "up" /\ Spent("lose")
  /\ sess' = [sess EXCEPT ![n] = Down(@)]
  /\ Report(PeerEvent(n, "IDLE"))
  /\ UNCHANGED <<snapVars, nbr, reads, adj, bmp, bpeers, op, drop, dropped, bmpVars>>

\* The router announces a path or withdraws one (NoPath).
Send(n) ==
  \E p \in RPrefix, k \in PathId, a \in NbrPaths \cup {NoPath} :
    /\ sess[n].st = "up" /\ (k # 0 => sess[n].ap) /\ sess[n].paths[p][k] # a /\ Spent("send")
    /\ sess' = [sess EXCEPT ![n].paths[p][k] = a]
    /\ Report([kind |-> "path", n |-> n, p |-> p, k |-> k, path |-> a])
    /\ UNCHANGED <<snapVars, nbr, reads, adj, bmp, bpeers, op, drop, dropped, bmpVars>>

Own(a) == a # NoPath /\ a.own

\* applyPath: Packeteer's own route counts as a withdraw; a path of an
\* unknown neighbor is ignored.
ApplyPath(e) ==
  IF nbr[e.n].conf
  THEN Learn([adj EXCEPT ![e.p][<<e.n, e.k>>] = IF Own(e.path) THEN NoPath ELSE e.path], bmp)
  ELSE UNCHANGED <<adj, bmp, snapVars>>

\* A new session state: an add-path session is asked for its capabilities,
\* a lost one loses its paths.
ApplyState(e) ==
  IF nbr[e.n].conf /\ nbr[e.n].state # e.st
  THEN /\ nbr' = [nbr EXCEPT ![e.n].state = e.st, ![e.n].since = @ + 1, ![e.n].ap = FALSE]
       /\ reads' = reads \cup (IF e.st = "up" /\ e.n \in AddPathNbr
                               THEN {[n |-> e.n, since |-> nbr[e.n].since + 1, got |-> "?"]} ELSE {})
       /\ IF e.st = "up" THEN UNCHANGED <<adj, bmp, snapVars>> ELSE Learn(Forgotten(e.n), bmp)
  ELSE UNCHANGED <<nbr, reads, adj, bmp, snapVars>>

HandleEvent ==
  /\ evq # <<>> /\ evq' = Tail(evq)
  /\ LET e == Head(evq) IN
     IF e.kind = "peer" THEN ApplyState(e) ELSE ApplyPath(e) /\ UNCHANGED <<nbr, reads>>
  /\ UNCHANGED <<bpeers, linkVars, bmpVars, ribBudget>>

\* readAddPathLocked: the capabilities are read, and set if the session is
\* still the one that came up.  The read can fail.
ReadCapability(r) ==
  /\ r.got = "?"
  /\ \/ /\ reads' = (reads \ {r}) \cup
             {[r EXCEPT !.got = IF sess[r.n].st = "up" /\ sess[r.n].ap THEN "yes" ELSE "no"]}
        /\ UNCHANGED ribBudget
     \/ reads' = reads \ {r} /\ Spent("fail")
  /\ UNCHANGED <<snapVars, nbr, evq, adj, bmp, bpeers, linkVars, bmpVars>>

SetCapability(r) ==
  /\ r.got # "?" /\ reads' = reads \ {r}
  /\ nbr' = IF nbr[r.n].conf /\ nbr[r.n].state = "up" /\ nbr[r.n].since = r.since
            THEN [nbr EXCEPT ![r.n].ap = (r.got = "yes")] ELSE nbr
  /\ UNCHANGED <<snapVars, evq, adj, bmp, bpeers, linkVars, bmpVars, ribBudget>>

-----------------------------------------------------------------------------
(* Reloads, and the shutdown of all sessions *)

\* RemoveNeighbors: the view forgets the neighbor, then the speaker.
RemoveNeighbor(n) ==
  /\ op = NoOp /\ nbr[n].conf /\ Spent("reload")
  /\ op' = [kind |-> "remove", n |-> n, step |-> 1]
  /\ nbr' = [nbr EXCEPT ![n] = NewNbr(FALSE, @.since)]
  /\ Learn(Forgotten(n), bmp)
  /\ UNCHANGED <<evq, reads, bpeers, sess, drop, dropped, bmpVars>>

\* DeletePeer; whether the speaker still reports the lost session is open.
\* The peer stays when the call fails.
DeletePeer ==
  /\ op.kind = "remove" /\ op' = NoOp
  /\ \/ /\ sess' = [sess EXCEPT ![op.n] = NewSess("none")] /\ UNCHANGED ribBudget
        /\ UNCHANGED evq \/ (sess[op.n].st # "new" /\ Report(PeerEvent(op.n, "IDLE")))
     \/ Spent("fail") /\ sess' = [sess EXCEPT ![op.n].kept = TRUE] /\ UNCHANGED evq
  /\ UNCHANGED <<snapVars, nbr, reads, adj, bmp, bpeers, drop, dropped, bmpVars>>

\* AddNeighbors: refused after a drop, else the view knows the neighbor.
AddNeighbor(n) ==
  /\ op = NoOp /\ ~nbr[n].conf /\ Spent("reload")
  /\ IF dropped THEN UNCHANGED <<op, nbr>>
     ELSE /\ op' = [kind |-> "add", n |-> n, step |-> 1]
          /\ nbr' = [nbr EXCEPT ![n] = NewNbr(TRUE, @.since)]
  /\ UNCHANGED <<snapVars, evq, reads, adj, bmp, bpeers, sess, drop, dropped, bmpVars>>

\* The speaker has no second peer of the same address.  When the call fails the
\* view knows a neighbor that has no peer.
AddPeer ==
  /\ op.kind = "add" /\ op.step = 1
  /\ op' = [op EXCEPT !.step = 2]
  /\ \/ sess' = [sess EXCEPT ![op.n] = IF @.st = "none" THEN NewSess("new") ELSE @] /\ UNCHANGED ribBudget
     \/ Spent("fail") /\ UNCHANGED sess
  /\ UNCHANGED <<snapVars, learnedVars, drop, dropped, bmpVars>>

\* DisablePeer: the session is shut and the speaker reports it; or the call
\* fails, which is reported.
Disable(n) ==
  \/ /\ sess[n].st # "none" /\ sess' = [sess EXCEPT ![n] = [Down(@) EXCEPT !.enabled = FALSE]]
     /\ IF sess[n].st = "new" THEN UNCHANGED evq ELSE Report(PeerEvent(n, "IDLE"))
     /\ drop' = [drop EXCEPT !.todo = @ \ {n}] /\ UNCHANGED ribBudget
  \/ /\ (sess[n].st = "none" /\ UNCHANGED ribBudget) \/ Spent("fail")
     /\ drop' = [drop EXCEPT !.todo = @ \ {n}, !.failed = @ \cup {n}]
     /\ UNCHANGED <<sess, evq>>

\* Mutant: the new peer is not looked at again after it was added.
RecheckSkipped ==
  /\ op.kind = "add" /\ op.step = 2 /\ op' = NoOp
  /\ UNCHANGED <<sess, evq, drop, snapVars, nbr, reads, adj, bmp, bpeers, dropped, bmpVars, ribBudget>>

\* The sessions may have been dropped while the peer was added.
Recheck ==
  /\ op.kind = "add" /\ op.step = 2 /\ op' = NoOp
  /\ IF dropped THEN Disable(op.n) ELSE UNCHANGED <<sess, evq, drop, ribBudget>>
  /\ UNCHANGED <<snapVars, nbr, reads, adj, bmp, bpeers, dropped, bmpVars>>

\* DropSessions: the mark is set, the peers are listed, each is shut.  A
\* shutdown that fails is reported, and so is a list, of which none is shut.
DropMark ==
  /\ drop.step = 0 /\ Spent("drop")
  /\ dropped' = TRUE /\ drop' = [drop EXCEPT !.step = 1]
  /\ UNCHANGED <<snapVars, learnedVars, sess, op, bmpVars>>

DropList ==
  /\ drop.step = 1
  /\ \/ drop' = [drop EXCEPT !.step = 2, !.todo = {n \in Neighbor : sess[n].st # "none"}] /\ UNCHANGED ribBudget
     \/ drop' = [drop EXCEPT !.step = 2, !.failed = Neighbor] /\ Spent("fail")
  /\ UNCHANGED <<snapVars, learnedVars, sess, op, dropped, bmpVars>>

DropOne(n) ==
  /\ drop.step = 2 /\ n \in drop.todo /\ Disable(n)
  /\ UNCHANGED <<snapVars, nbr, reads, adj, bmp, bpeers, op, dropped, bmpVars>>

-----------------------------------------------------------------------------
(* BMP: the router, and the station *)

\* What a connection has carried so far: the peers up, their paths, and the
\* peers of which a message could not be decoded.
Nothing == [up |-> {}, paths |-> [p \in RPrefix |-> [k \in Peer |-> NoPath]], lost |-> {}]

\* accept: a new connection of the router replaces the one on file.
Accept ==
  /\ Len(conns) < MaxConns /\ Spent("conn")
  /\ conns' = Append(conns, [st |-> "wait", old |-> live, open |-> TRUE, eof |-> FALSE,
                             tx |-> <<>>, skip |-> {}, sent |-> Nothing])
  /\ live' = Len(conns) + 1
  /\ UNCHANGED <<snapVars, learnedVars, linkVars>>

\* Mutant: the new session starts before the old one is over.
ServeAtOnce(i) ==
  /\ conns[i].st = "wait"
  /\ conns' = [c \in DOMAIN conns |->
       IF c = i THEN [conns[c] EXCEPT !.st = "serve"]
       ELSE IF c = conns[i].old THEN [conns[c] EXCEPT !.open = FALSE] ELSE conns[c]]
  /\ UNCHANGED <<snapVars, learnedVars, linkVars, live, ribBudget>>

\* The session starts: the old connection is closed, and once the old
\* session is over the new one is served.
Serve(i) ==
  /\ conns[i].st = "wait"
  /\ LET o == conns[i].old IN
     IF o # 0 /\ conns[o].open THEN conns' = [conns EXCEPT ![o].open = FALSE]
     ELSE (o # 0 => conns[o].st = "done") /\ conns' = [conns EXCEPT ![i].st = "serve"]
  /\ UNCHANGED <<snapVars, learnedVars, linkVars, live, ribBudget>>

\* What the router's newest connection has told after message m.  "bad" is
\* an undecodable peer up or path, "gone" an undecodable peer down.
Told(s, m) ==
  CASE m.kind = "up" -> [s EXCEPT !.up = @ \cup {m.peer}, !.lost = @ \ {m.peer}]
    [] m.kind = "path" -> [s EXCEPT !.up = @ \cup {m.peer}, !.paths[m.p][m.peer] = m.path]
    [] m.kind = "bad" -> [s EXCEPT !.up = @ \cup {m.peer}, !.lost = @ \cup {m.peer}]
    [] m.kind \in {"down", "gone"} ->
         [up |-> s.up \ {m.peer},
          paths |-> [p \in RPrefix |-> [s.paths[p] EXCEPT ![m.peer] = NoPath]],
          lost |-> IF m.kind = "down" THEN s.lost \ {m.peer} ELSE s.lost \cup {m.peer}]

\* A Loc-RIB may send paths without a peer up.
MaySay(s, m) ==
  CASE m.kind = "up" -> m.peer \notin s.up
    [] m.kind = "path" -> (m.peer \in s.up \/ m.peer = 0) /\ s.paths[m.p][m.peer] # m.path
    [] m.kind = "bad" -> TRUE
    [] m.kind \in {"down", "gone"} -> m.peer \in s.up

Messages ==
  [kind : {"up", "down", "bad", "gone"}, peer : Peer]
  \cup [kind : {"path"}, peer : Peer, p : RPrefix, path : BmpPaths \cup {NoPath}]

Monitor ==
  LET i == Len(conns) IN
  /\ i > 0 /\ ~conns[i].eof /\ Spent("bmp")
  /\ \E m \in Messages :
       /\ MaySay(conns[i].sent, m)
       /\ conns' = [conns EXCEPT ![i].tx = Append(@, m), ![i].sent = Told(@, m)]
  /\ UNCHANGED <<snapVars, learnedVars, linkVars, live>>

\* The router, or the network, ends the newest connection.
Hangup ==
  LET i == Len(conns) IN
  /\ i > 0 /\ ~conns[i].eof
  /\ conns' = [conns EXCEPT ![i].eof = TRUE]
  /\ UNCHANGED <<snapVars, learnedVars, linkVars, live, ribBudget>>

Keeps(k, a) ==
  /\ a # NoPath /\ ~Own(a)
  /\ IF a.prov = 0 THEN k = 0 /\ \E v \in RProvider : Usage[v] # "off" ELSE Usage[a.prov] # "off"

WithoutPeers(K) == [p \in RPrefix |-> [k \in Peer |-> IF k \in K THEN NoPath ELSE bmp[p][k]]]

\* message: the paths of a peer whose message could not be decoded, or that
\* went down, are skipped until its next peer up.
Skipped(i, m) == m.kind = "path" /\ m.peer \in conns[i].skip

SkipNext(i, m) ==
  LET s == conns[i].skip
  IN IF m.kind \in {"bad", "gone"} THEN s \cup {m.peer}
     ELSE IF m.kind = "path" THEN s ELSE s \ {m.peer}

\* ApplyRIB: paths imply that their peer is up.
ReadMessage(i) ==
  /\ conns[i].st = "serve" /\ conns[i].open /\ conns[i].tx # <<>>
  /\ LET m == Head(conns[i].tx)
         k == m.peer
         skipped == Skipped(i, m)
     IN /\ conns' = [conns EXCEPT ![i].tx = Tail(@), ![i].skip = SkipNext(i, m)]
        /\ bpeers' = IF skipped THEN bpeers
                     ELSE IF m.kind \in {"up", "path"} THEN bpeers \cup {k} ELSE bpeers \ {k}
        /\ IF skipped \/ m.kind = "up" THEN UNCHANGED <<adj, bmp, snapVars>>
           ELSE Learn(adj, IF m.kind = "path"
                           THEN [bmp EXCEPT ![m.p][k] = IF Keeps(k, m.path) THEN m.path ELSE NoPath]
                           ELSE WithoutPeers({k}))
  /\ UNCHANGED <<nbr, evq, reads, linkVars, live, ribBudget>>

\* The session ends (closed, end of the stream, idle timeout, a panic in the
\* decoder): the router is down for the view, ...
EndSession(i) ==
  /\ conns[i].st = "serve"
  /\ \/ ~conns[i].open \/ (conns[i].eof /\ conns[i].tx = <<>>)
     \/ ribBudget["fail"] > 0
  /\ ribBudget' = IF ~conns[i].open \/ (conns[i].eof /\ conns[i].tx = <<>>) THEN ribBudget
                  ELSE [ribBudget EXCEPT !["fail"] = @ - 1]
  /\ conns' = [conns EXCEPT ![i].st = "down", ![i].open = FALSE, ![i].eof = TRUE]
  /\ bpeers' = {} /\ Learn(adj, WithoutPeers(Peer))
  /\ UNCHANGED <<nbr, evq, reads, linkVars, live>>

\* ... and it is over.
FinishSession(i) ==
  /\ conns[i].st = "down" /\ conns' = [conns EXCEPT ![i].st = "done"]
  /\ live' = IF live = i THEN 0 ELSE live
  /\ UNCHANGED <<snapVars, learnedVars, linkVars, ribBudget>>

\* A full-table reader refreshes the snapshot.
Refresh ==
  /\ (Collect /\ Spent("read")) \/ (Store /\ UNCHANGED ribBudget)
  /\ UNCHANGED <<learnedVars, linkVars, bmpVars>>

\* RouteCheck: whether provider v has a path for p, if a check applies.
Covered(v) == v \in bpeers
AddPathUp == \E n \in Neighbor : nbr[n].state = "up" /\ nbr[n].ap
Checked(v) ==
  \/ Usage[v] = "only" \/ (Usage[v] = "prefer" /\ Covered(v))
  \/ v \in AddPathProv /\ AddPathUp
RouteCheck(p, v) ==
  \/ Usage[v] # "only" /\ \E k \in AdjKey : adj[p][k] # NoPath /\ adj[p][k].prov = v
  \/ Covered(v) /\ \E k \in Peer : bmp[p][k] # NoPath /\ bmp[p][k].prov = v

Ready == \E n \in Neighbor : nbr[n].state = "up"

RibNext ==
  \/ \E n \in Neighbor : \/ Connect(n) \/ Establish(n) \/ Lose(n) \/ Send(n)
                        \/ RemoveNeighbor(n) \/ AddNeighbor(n) \/ DropOne(n)
  \/ \E r \in reads : ReadCapability(r) \/ SetCapability(r)
  \/ HandleEvent \/ DeletePeer \/ AddPeer \/ Recheck \/ DropMark \/ DropList
  \/ Accept \/ Monitor \/ Hangup
  \/ \E i \in DOMAIN conns : Serve(i) \/ ReadMessage(i) \/ EndSession(i) \/ FinishSession(i)
  \/ Refresh

RibSpec == RibInit /\ [][RibNext]_ribVars

-----------------------------------------------------------------------------
(* Properties *)

\* What the routers send now.
SentPath(p, k) ==
  LET a == sess[k[1]].paths[p][k[2]] IN IF Own(a) THEN NoPath ELSE a
LastConn == conns[Len(conns)]
BmpQuiet ==
  \/ \A i \in DOMAIN conns : conns[i].st = "done"
  \/ /\ LastConn.st = "serve" /\ LastConn.tx = <<>>
     /\ \A i \in 1 .. Len(conns) - 1 : conns[i].st = "done"
Monitored == IF conns # <<>> /\ LastConn.st = "serve" THEN LastConn.sent ELSE Nothing
MonitoredPath(p, k) ==
  LET a == Monitored.paths[p][k] IN
  IF k \notin Monitored.lost /\ Keeps(k, a) THEN a ELSE NoPath
IbgpQuiet == evq = <<>> /\ op = NoOp

\* A neighbor that was removed and added again can be reported events of
\* its deleted session until the new one is tried.
Settled == {n \in Neighbor : sess[n].tried \/ ~nbr[n].conf}

\* When every reported event has been applied, the view holds exactly what
\* the routers send: no path of a session or connection that is gone, none
\* of an earlier session of the same router (rib.go handleEvent, bmp.go
\* accept), the add-path mark only on a session that negotiated it, and a
\* route check passes only for a path some router has.
ViewSettles ==
  /\ IbgpQuiet => \A n \in Settled :
       /\ nbr[n].state = "up" => sess[n].st = "up"
       /\ nbr[n].ap => sess[n].ap
       /\ (nbr[n].conf /\ sess[n].st = "up" /\ ~sess[n].kept) => nbr[n].state = "up"
       /\ \A p \in RPrefix, k \in PathId :
            IF nbr[n].state = "up" THEN adj[p][<<n, k>>] = SentPath(p, <<n, k>>)
            ELSE adj[p][<<n, k>>] \in {NoPath, SentPath(p, <<n, k>>)}
  /\ BmpQuiet =>
       /\ bpeers = Monitored.up \ Monitored.lost
       /\ \A p \in RPrefix, k \in Peer : bmp[p][k] = MonitoredPath(p, k)
  /\ (IbgpQuiet /\ BmpQuiet /\ Settled = Neighbor) => \A p \in RPrefix, v \in RProvider :
       (Checked(v) /\ RouteCheck(p, v)) =>
         \/ \E n \in Neighbor, k \in PathId : LET a == sess[n].paths[p][k] IN a # NoPath /\ a.prov = v
         \/ \E k \in Peer : LET a == Monitored.paths[p][k] IN a # NoPath /\ a.prov = v

\* After DropSessions has gone through the peers, every session whose
\* shutdown did not fail is down and stays so, one added meanwhile included,
\* and the view is not ready once it has read the events.
DroppedStaysDown ==
  (drop.step = 2 /\ drop.todo = {} /\ op = NoOp) =>
    /\ \A n \in Neighbor \ drop.failed : ~sess[n].enabled /\ sess[n].st \in {"none", "new"}
    /\ (evq = <<>> /\ drop.failed = {} /\ Settled = Neighbor) => ~Ready

-----------------------------------------------------------------------------
(* Why they hold *)

NbrState == [conf : BOOLEAN, state : {"idle", "conn", "up", "IDLE"}, since : Nat, ap : BOOLEAN]
PathTable == [RPrefix -> [PathId -> NbrPaths \cup {NoPath}]]
SessState == [st : {"none", "new", "conn", "up"}, enabled : BOOLEAN, ap : BOOLEAN,
              kept : BOOLEAN, tried : BOOLEAN, paths : PathTable]
Events ==
  [kind : {"peer"}, n : Neighbor, st : {"conn", "up", "IDLE"}]
  \cup [kind : {"path"}, n : Neighbor, p : RPrefix, k : PathId, path : NbrPaths \cup {NoPath}]
OpState == [kind : {"add", "remove"}, n : Neighbor, step : 1 .. 2]
DropState == [step : 0 .. 2, todo : SUBSET Neighbor, failed : SUBSET Neighbor]

\* The types of what the sessions and their events are about.
LinkTypeOK ==
  /\ nbr \in [Neighbor -> NbrState] /\ sess \in [Neighbor -> SessState]
  /\ evq \in Seq(Events)
  /\ op \in {NoOp} \cup OpState /\ drop \in DropState /\ dropped \in BOOLEAN

\* A peer is shut, is still on the list, or is being added by a call that
\* looks at the mark once more.
DropInv ==
  /\ drop.step # 0 => dropped
  /\ \A n \in Neighbor : sess[n].st = "none" => ~sess[n].enabled
  /\ drop.step = 2 => \A n \in Neighbor \ drop.failed :
       \/ n \in drop.todo \/ (op.kind = "add" /\ op.n = n)
       \/ ~sess[n].enabled /\ sess[n].st \in {"none", "new"}

\* Reports of the state of n's session that the view has not read.
Pending(n) == {i \in 1 .. Len(evq) : evq[i].kind = "peer" /\ evq[i].n = n}

\* The last of them, or else the view, does not say up.
NotUp(n) ==
  /\ Pending(n) = {} => nbr[n].state # "up"
  /\ \A i \in Pending(n) : (\A j \in Pending(n) : j <= i) => evq[i].st # "up"

\* Only neighbors that the view knows have a state.
ConfInv ==
  /\ op.kind = "remove" => ~nbr[op.n].conf
  /\ \A n \in Neighbor : ~nbr[n].conf => nbr[n].state = "idle"

\* Nothing says up of a session that was tried and is down.
WordInv == \A n \in Neighbor : sess[n].tried /\ sess[n].st # "up" => NotUp(n)

LinkInv == LinkTypeOK /\ DropInv /\ ConfInv /\ WordInv
=============================================================================
