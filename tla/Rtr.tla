-------------------------------- MODULE Rtr ---------------------------------
(***************************************************************************)
(* The RPKI-to-Router client (internal/plugins/rpki/rtr) and the server it *)
(* asks: one connection at a time, one response in flight, and a cache of  *)
(* validated payloads that changes only at an End of Data.                 *)
(*                                                                         *)
(* A payload is a model value; tables are sets, because an announcement is *)
(* idempotent and a withdrawal of what is absent does nothing.  The stream *)
(* is reliable and in order until the connection ends, which it may do at  *)
(* any point, as may a wait for a silent server.  A PDU that cannot be     *)
(* decoded ends the session like an error report does.  The server speaks  *)
(* RFC 8210: it answers a query from one version of its table, may notify  *)
(* at any time, forget old versions and begin a new session.  Back-off,    *)
(* staleness and the order of several sources are left out.                *)
(***************************************************************************)
EXTENDS Integers, Sequences, SequencesExt, FiniteSets

CONSTANTS
  Vrp,           \* payloads
  MaxVRPs,       \* the limit of a cache
  Tables,        \* the tables the server may begin with
  MaxChanges,    \* bound on the server's changes and new sessions
  MaxFaults      \* bound on ended connections, timeouts and error reports

VARIABLES
  versions,      \* the tables the server had: versions[session][serial + 1]
  queries,       \* the connection toward the server
  stream,        \* and toward the client
  conn,          \* the connection is open
  resp,          \* response in flight
  cache, sessionID, serial, synced,   \* Client; synced is updated # 0
  announced,     \* the server has told of its current version
  changes, faults

serverVars == <<versions, announced, changes, faults>>
cacheVars == <<cache, sessionID, serial, synced>>
rtrVars == <<serverVars, queries, stream, conn, resp, cacheVars>>

Session == Len(versions)
Serial == Len(versions[Session]) - 1
Current == Last(versions[Session])

\* response: a full table for a Reset Query, changes for a Serial Query.
NoResponse == [kind |-> "none", table |-> {}, delta |-> <<>>]
ResetResponse == [kind |-> "reset", table |-> {}, delta |-> <<>>]
SerialResponse == [kind |-> "serial", table |-> {}, delta |-> <<>>]

ResetQuery == [type |-> "reset", session |-> 0, serial |-> 0]
SerialQuery == [type |-> "serial", session |-> sessionID, serial |-> serial]

RtrInit ==
  /\ versions \in {<<<<t>>>> : t \in Tables}
  /\ queries = <<>> /\ stream = <<>> /\ conn = FALSE
  /\ resp = NoResponse
  /\ cache = {} /\ sessionID = 0 /\ serial = 0 /\ synced = FALSE
  /\ announced = TRUE /\ changes = 0 /\ faults = 0

-----------------------------------------------------------------------------
(* The client *)

Apply(table, change) == IF change.add THEN table \cup {change.vrp} ELSE table \ {change.vrp}

\* session ends, setDown: the cache stays, what was collected goes.
Hangup ==
  /\ conn' = FALSE /\ queries' = <<>> /\ stream' = <<>> /\ resp' = NoResponse
  /\ UNCHANGED <<serverVars, cacheVars>>

\* session: dial, and ask for everything.
Dial ==
  /\ ~conn /\ conn' = TRUE
  /\ resp' = ResetResponse /\ queries' = <<ResetQuery>>
  /\ UNCHANGED <<serverVars, stream, cacheVars>>

\* A query, with the response it opens.
Ask(q, r) == queries' = Append(queries, q) /\ resp' = r

\* request
request == IF synced THEN Ask(SerialQuery, SerialResponse) ELSE Ask(ResetQuery, ResetResponse)

\* Mutant: an idle client waits for the next notify.
RefreshNever == FALSE /\ request /\ UNCHANGED <<serverVars, stream, conn, cacheVars>>

\* The connection was idle for one refresh.
Refresh ==
  /\ conn /\ resp.kind = "none"
  /\ request
  /\ UNCHANGED <<serverVars, stream, conn, cacheVars>>

Keep == UNCHANGED <<queries, resp, cacheVars>>

\* handle, IPv4 and IPv6 Prefix: into the response, never into the cache.
Prefix(pdu) ==
  /\ resp.kind = "reset" /\ pdu.add => Cardinality(resp.table) < MaxVRPs
  /\ resp.kind = "serial" => Len(resp.delta) < MaxVRPs
  /\ resp.kind # "none"
  /\ resp' = IF resp.kind = "reset" THEN [resp EXCEPT !.table = Apply(@, pdu)]
                                    ELSE [resp EXCEPT !.delta = Append(@, pdu)]
  /\ UNCHANGED <<queries, cacheVars>>

Adds(delta) == Cardinality({i \in DOMAIN delta : delta[i].add})

\* handle, End of Data, and setUp
EndOfData(pdu) ==
  /\ resp.kind # "none"
  /\ resp.kind = "serial" => Cardinality(cache) + Adds(resp.delta) <= MaxVRPs
  /\ cache' = IF resp.kind = "reset" THEN resp.table ELSE FoldLeft(Apply, cache, resp.delta)
  /\ sessionID' = pdu.session /\ serial' = pdu.serial /\ synced' = TRUE
  /\ resp' = NoResponse /\ UNCHANGED queries

\* Mutant: the notify's serial is taken for the one to continue from.
NotifyTakesSerial(pdu) ==
  IF resp.kind # "none" \/ ~synced THEN Keep
  ELSE IF pdu.session # sessionID THEN Ask(ResetQuery, ResetResponse) /\ UNCHANGED cacheVars
  ELSE /\ Ask([SerialQuery EXCEPT !.serial = pdu.serial], SerialResponse)
       /\ UNCHANGED cacheVars

\* handle, Serial Notify: ignored before the End of Data and before the first
\* load; a reset when it is of another session.
SerialNotify(pdu) ==
  /\ IF resp.kind # "none" \/ ~synced THEN UNCHANGED <<queries, resp>>
     ELSE IF pdu.session # sessionID THEN Ask(ResetQuery, ResetResponse)
     ELSE request
  /\ UNCHANGED cacheVars

CacheReset == Ask(ResetQuery, ResetResponse) /\ UNCHANGED cacheVars

\* handle; Cache Response and Router Key change nothing.
Accept(pdu) ==
  \/ pdu.type = "response" /\ Keep
  \/ pdu.type = "prefix" /\ Prefix(pdu)
  \/ pdu.type = "end" /\ EndOfData(pdu)
  \/ pdu.type = "notify" /\ SerialNotify(pdu)
  \/ pdu.type = "cachereset" /\ CacheReset

\* What handle answers with an error: an error report, records or an End of
\* Data outside a response, and more payloads than the cache may hold.
Rejected(pdu) ==
  \/ pdu.type = "error"
  \/ pdu.type \in {"prefix", "end"} /\ resp.kind = "none"
  \/ pdu.type = "prefix" /\ resp.kind = "reset" /\ pdu.add /\ Cardinality(resp.table) >= MaxVRPs
  \/ pdu.type = "prefix" /\ resp.kind = "serial" /\ Len(resp.delta) >= MaxVRPs
  \/ pdu.type = "end" /\ resp.kind = "serial" /\ Cardinality(cache) + Adds(resp.delta) > MaxVRPs

Receive ==
  /\ conn /\ stream # <<>>
  /\ \/ Rejected(Head(stream)) /\ Hangup
     \/ /\ ~Rejected(Head(stream)) /\ Accept(Head(stream))
        /\ stream' = Tail(stream) /\ UNCHANGED <<serverVars, conn>>

-----------------------------------------------------------------------------
(* The server and the network *)

\* One payload is announced or withdrawn.
Change ==
  /\ changes < MaxChanges /\ changes' = changes + 1
  /\ \E v \in Vrp :
       LET t == IF v \in Current THEN Current \ {v} ELSE Current \cup {v}
       IN /\ Cardinality(t) <= MaxVRPs
          /\ versions' = [versions EXCEPT ![Session] = Append(@, t)]
  /\ announced' = FALSE
  /\ UNCHANGED <<faults, queries, stream, conn, resp, cacheVars>>

NewSession ==
  /\ changes < MaxChanges /\ changes' = changes + 1
  /\ versions' = Append(versions, <<Current>>)
  /\ announced' = FALSE
  /\ UNCHANGED <<faults, queries, stream, conn, resp, cacheVars>>

\* A notify may come between the records of a response.
Notify ==
  /\ conn /\ ~announced /\ announced' = TRUE
  /\ \E i \in 1 .. Len(stream) + 1 :
       stream' = InsertAt(stream, i, [type |-> "notify", session |-> Session, serial |-> Serial])
  /\ UNCHANGED <<versions, changes, faults, queries, conn, resp, cacheVars>>

Record(v, add) == [type |-> "prefix", vrp |-> v, add |-> add]
End == [type |-> "end", session |-> Session, serial |-> Serial]
Data(records) == <<[type |-> "response"]>> \o records \o <<End>>

\* What changed between one version of the session and the next.
Diff(old, new) ==
  IF old \subseteq new THEN Record(CHOOSE v \in new \ old : TRUE, TRUE)
                       ELSE Record(CHOOSE v \in old \ new : TRUE, FALSE)

\* The answers the server can give to a query.
Answers(q) ==
  IF q.type = "reset"
    THEN {Data([i \in 1 .. Cardinality(Current) |-> Record(SetToSeq(Current)[i], TRUE)])}
    ELSE {<<[type |-> "cachereset"]>>} \cup
         IF q.session # Session THEN {}
         ELSE {Data([i \in 1 .. Serial - q.serial |->
                 Diff(versions[Session][q.serial + i], versions[Session][q.serial + i + 1])])}

Answer ==
  /\ conn /\ queries # <<>>
  /\ \E a \in Answers(Head(queries)) : stream' = stream \o a
  /\ queries' = Tail(queries)
  /\ UNCHANGED <<serverVars, conn, resp, cacheVars>>

Fault == faults < MaxFaults /\ faults' = faults + 1

ErrorReport ==
  /\ conn /\ queries # <<>> /\ Fault
  /\ stream' = Append(stream, [type |-> "error"]) /\ queries' = Tail(queries)
  /\ UNCHANGED <<versions, announced, changes, conn, resp, cacheVars>>

\* The connection breaks, or the wait for a response is over.
Broken ==
  /\ conn /\ Fault
  /\ conn' = FALSE /\ queries' = <<>> /\ stream' = <<>> /\ resp' = NoResponse
  /\ UNCHANGED <<versions, announced, changes, cacheVars>>

-----------------------------------------------------------------------------

RtrNext ==
  \/ Dial \/ Refresh \/ Receive
  \/ Change \/ NewSession \/ Notify \/ Answer \/ ErrorReport \/ Broken

RtrSpec == RtrInit /\ [][RtrNext]_rtrVars

\* The client's loop runs and its refresh timer fires; the server answers.
RtrFair == WF_rtrVars(Dial) /\ WF_rtrVars(Refresh) /\ WF_rtrVars(Receive) /\ WF_rtrVars(Answer)

-----------------------------------------------------------------------------

\* The cache a lookup uses is one whole version of the server's table, and the
\* one whose session and serial the next Serial Query continues from: whatever
\* ends a response half-way, and whenever the server notifies.
ServesOneVersion == synced => cache = versions[sessionID][serial + 1]

\* Once the server's table stays as it is, the cache comes to equal it.
CatchesUp == <>[](synced /\ cache = Current)
=============================================================================
