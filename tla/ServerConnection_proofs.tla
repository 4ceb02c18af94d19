----------------------- MODULE ServerConnection_proofs -----------------------
(***************************************************************************)
(* The automatic reconnect, for any sessions, patterns and queries and any *)
(* number of steps: a wish for a connection is not forgotten.              *)
(***************************************************************************)
EXTENDS ServerConnection, TLAPS

\* The fields of the client, and the types of those that the reconnect is about.
IsClient(c) ==
  /\ {"status", "mtt", "cmds", "users", "results", "enabled", "active", "pattern",
      "inProgress", "pings", "onConnect", "runner", "attempts"} \subseteq DOMAIN c
  /\ c.mtt \in BOOLEAN /\ c.runner \in BOOLEAN
  /\ c.attempts \in Nat

\* What the methods that deal with queries and users leave alone.
Keeps(c, d) ==
  IsClient(d) /\ d.mtt = c.mtt /\ d.runner = c.runner /\ d.attempts = c.attempts

LEMMA StopKeeps ==
  ASSUME NEW c, IsClient(c)
  PROVE  Keeps(c, StopQuery(c)) /\ StopQuery(c).status = c.status
BY DEF StopQuery, Sent, Keeps, IsClient

LEMMA StartKeeps ==
  ASSUME NEW c, IsClient(c), NEW q
  PROVE  Keeps(c, StartQuery(c, q)) /\ StartQuery(c, q).status = c.status
<1>1. CASE ~c.mtt
  BY <1>1 DEF StartQuery, Keeps
<1>2. CASE c.mtt
  <2> DEFINE cmds == <<Command("subscribe", q, 0), Command("ping", NoQuery, c.pings)>>
             s == StopQuery(c)
             t == Sent(s, cmds)
  <2>1. Keeps(c, s) /\ s.status = c.status
    BY StopKeeps
  <2> HIDE DEF s, cmds
  <2>2. Keeps(c, t) /\ t.status = c.status
    BY <2>1 DEF Sent, Keeps, IsClient
  <2>3. StartQuery(c, q)
          = [t EXCEPT !.pings = @ + 1, !.inProgress = TRUE, !.active = TRUE, !.pattern = q]
    BY <1>2 DEF StartQuery, s, cmds
  <2> HIDE DEF t
  <2> QED
    BY <2>2, <2>3 DEF Keeps, IsClient
<1> QED
  BY <1>1, <1>2 DEF IsClient

LEMMA DisableKeeps ==
  ASSUME NEW c, IsClient(c)
  PROVE  Keeps(c, DisableQuery(c)) /\ DisableQuery(c).status = c.status
<1> DEFINE d == [c EXCEPT !.enabled = FALSE]
<1>1. Keeps(c, d) /\ d.status = c.status
  BY DEF Keeps, IsClient
<1> HIDE DEF d
<1>2. Keeps(d, StopQuery(d)) /\ StopQuery(d).status = d.status
  BY <1>1, StopKeeps DEF Keeps
<1>3. DisableQuery(c) \in {c, StopQuery(d)}
  BY DEF DisableQuery, d
<1> QED
  BY <1>1, <1>2, <1>3 DEF Keeps

LEMMA EnableKeeps ==
  ASSUME NEW c, IsClient(c), NEW q
  PROVE  Keeps(c, EnableQuery(c, q)) /\ EnableQuery(c, q).status = c.status
<1> DEFINE d == ClearResults([c EXCEPT !.enabled = TRUE])
<1>1. Keeps(c, d) /\ d.status = c.status
  BY DEF Keeps, IsClient, ClearResults
<1> HIDE DEF d
<1>2. Keeps(d, StartQuery(d, q)) /\ StartQuery(d, q).status = d.status
  BY <1>1, StartKeeps DEF Keeps
<1>3. EnableQuery(c, q) \in {c, StartQuery(d, q)}
  BY DEF EnableQuery, d
<1> QED
  BY <1>1, <1>2, <1>3 DEF Keeps

LEMMA SetQueryKeeps ==
  ASSUME NEW c, IsClient(c), NEW q
  PROVE  Keeps(c, SetQuery(c, q)) /\ SetQuery(c, q).status = c.status
<1> DEFINE d == DisableQuery(c)
<1>1. Keeps(c, d) /\ d.status = c.status
  BY DisableKeeps
<1> HIDE DEF d
<1>2. Keeps(d, EnableQuery(d, q)) /\ EnableQuery(d, q).status = d.status
  BY <1>1, EnableKeeps DEF Keeps
<1> QED
  BY <1>1, <1>2 DEF Keeps, SetQuery, d

\* The status is set, and the query and the users follow it.
LEMMA StatusIsSet ==
  ASSUME NEW c, IsClient(c), NEW status
  PROVE  Keeps(c, SetConnectStatus(c, status)) /\ SetConnectStatus(c, status).status = status
<1> DEFINE begun == IF status = "on" /\ c.status # "on" /\ c.onConnect # NoQuery
                    THEN [SetQuery(c, c.onConnect) EXCEPT !.onConnect = NoQuery] ELSE c
           d == [begun EXCEPT !.status = status]
           e == ClearUsers(d)
<1>1. Keeps(c, begun)
  <2>1. Keeps(c, SetQuery(c, c.onConnect))
    BY SetQueryKeeps
  <2> QED
    BY <2>1 DEF Keeps, IsClient
<1> HIDE DEF begun
<1>2. Keeps(c, d) /\ d.status = status
  BY <1>1 DEF Keeps, IsClient
<1> HIDE DEF d
<1>3. Keeps(c, e) /\ e.status = status
  BY <1>2 DEF Keeps, IsClient, ClearUsers, ClearResults
<1> HIDE DEF e
<1>4. Keeps(c, DisableQuery(e)) /\ DisableQuery(e).status = status
  BY <1>3, DisableKeeps DEF Keeps
<1>5. SetConnectStatus(c, status) \in {d, DisableQuery(e)}
  BY DEF SetConnectStatus, begun, d, e
<1> QED
  BY <1>2, <1>4, <1>5

\* A client that has let its connection go is in the state "off", if it was in another
\* one only because of that connection.
LEMMA DisconnectIs ==
  ASSUME NEW c, IsClient(c), c.status # "off" => c.mtt
  PROVE  LET d == DisconnectFromServer(c) IN
         /\ IsClient(d) /\ d.status = "off" /\ ~d.mtt
         /\ d.runner = c.runner /\ d.attempts = c.attempts
<1> DEFINE d == [c EXCEPT !.inProgress = FALSE, !.mtt = FALSE, !.cmds = <<>>]
<1>1. /\ IsClient(d) /\ d.status = c.status /\ ~d.mtt
      /\ d.runner = c.runner /\ d.attempts = c.attempts
  BY DEF IsClient
<1> HIDE DEF d
<1>2. Keeps(d, SetConnectStatus(d, "off")) /\ SetConnectStatus(d, "off").status = "off"
  BY <1>1, StatusIsSet
<1>3. DisconnectFromServer(c) = IF c.mtt THEN SetConnectStatus(d, "off") ELSE d
  BY DEF DisconnectFromServer, d
<1> QED
  BY <1>1, <1>2, <1>3 DEF Keeps

LEMMA ConnectIs ==
  ASSUME NEW c, IsClient(c), c.status # "off" => c.mtt
  PROVE  LET d == ConnectToServer(c) IN IsClient(d) /\ d.status = "connecting" /\ d.mtt
<1> DEFINE d == DisconnectFromServer(c)
           e == [d EXCEPT !.mtt = TRUE]
<1>1. IsClient(d)
  BY DisconnectIs
<1> HIDE DEF d
<1>2. IsClient(e) /\ e.mtt
  BY <1>1 DEF IsClient
<1> HIDE DEF e
<1>3. Keeps(e, SetConnectStatus(e, "connecting"))
      /\ SetConnectStatus(e, "connecting").status = "connecting"
  BY <1>2, StatusIsSet
<1> QED
  BY <1>2, <1>3 DEF Keeps, ConnectToServer, d, e

-----------------------------------------------------------------------------

\* A network thread is behind every status but "off" and behind every event that is
\* still to be handled, and where there is none, the timer or its message is.
ConnInv ==
  /\ IsClient(client)
  /\ client.status # "off" => client.mtt
  /\ link # "none" => client.mtt
  /\ link = "none" => wire = <<>>
  /\ ReconnectIsPending

LEMMA InitConn == Init => ConnInv
BY DEF Init, ConnInv, IsClient, ReconnectIsPending, TryPending

\* A step that leaves the connection alone.
LEMMA KeepsConn ==
  ASSUME ConnInv, Keeps(client, client'), client'.status = client.status,
         link' = link, link = "none" => wire' = wire, UNCHANGED <<fired, wish, unmade>>
  PROVE  ConnInv'
BY DEF ConnInv, Keeps, ReconnectIsPending, TryPending

\* A connection is given up, on behalf of the user or because there is no thread for it.
LEMMA GivesUp ==
  ASSUME NEW c, IsClient(c), c.status # "off" => c.mtt,
         client' = DisconnectFromServer(c), LinkIs("none"), wish' = FALSE \/ unmade' = TRUE
  PROVE  ConnInv'
<1> DEFINE d == DisconnectFromServer(c)
<1>1. IsClient(d) /\ d.status = "off"
  BY DisconnectIs
<1> HIDE DEF d
<1> QED
  BY <1>1 DEF ConnInv, LinkIs, ReconnectIsPending, TryPending, d

\* A connection is begun.
LEMMA Begins ==
  ASSUME NEW c, IsClient(c), c.status # "off" => c.mtt,
         ThreadStarts(c)
  PROVE  ConnInv'
<1> DEFINE d == ConnectToServer(c)
<1>1. IsClient(d) /\ d.mtt
  BY ConnectIs
<1> HIDE DEF d
<1> QED
  BY <1>1 DEF ConnInv, ThreadStarts, LinkIs, ReconnectIsPending, TryPending, d

LEMMA UserConnectsConn ==
  ASSUME ConnInv, UserConnects
  PROVE  ConnInv'
<1> DEFINE c == [ResetAutoReconnectState(client) EXCEPT !.attempts = 0]
<1>1. IsClient(c) /\ (c.status # "off" => c.mtt)
  BY DEF ConnInv, IsClient, ResetAutoReconnectState
<1>2. \/ ThreadStarts(c)
      \/ ThreadFails(c) /\ wish' = FALSE
  BY DEF UserConnects
<1> HIDE DEF c
<1> QED
  BY <1>1, <1>2, Begins, GivesUp DEF ThreadFails

LEMMA UserDisconnectsConn ==
  ASSUME ConnInv, UserDisconnects
  PROVE  ConnInv'
<1> DEFINE c == [ResetAutoReconnectState(client) EXCEPT !.attempts = 0]
<1>1. IsClient(c) /\ (c.status # "off" => c.mtt)
  BY DEF ConnInv, IsClient, ResetAutoReconnectState
<1>2. client' = DisconnectFromServer(c) /\ LinkIs("none") /\ wish' = FALSE
  BY DEF UserDisconnects
<1> HIDE DEF c
<1> QED
  BY <1>1, <1>2, GivesUp

LEMMA UserChatsConn ==
  ASSUME ConnInv, UserChats
  PROVE  ConnInv'
BY DEF ConnInv, IsClient, ReconnectIsPending, TryPending, UserChats

LEMMA UserQueriesConn ==
  ASSUME ConnInv, UserQueries
  PROVE  ConnInv'
<1>1. IsClient(client)
  BY DEF ConnInv
<1>2. Keeps(client, client') /\ client'.status = client.status
  BY <1>1, EnableKeeps, DisableKeeps, SetQueryKeeps DEF UserQueries
<1> QED
  BY <1>2, KeepsConn DEF UserQueries

\* The message of the timer connects if the client is "off"; else it has a thread.
LEMMA AutoReconnectConn ==
  ASSUME ConnInv, AutoReconnect
  PROVE  ConnInv'
<1> DEFINE c == ResetAutoReconnectState(client)
<1>1. /\ IsClient(c) /\ (c.status # "off" => c.mtt)
      /\ c.status = client.status /\ c.mtt = client.mtt
  BY DEF ConnInv, IsClient, ResetAutoReconnectState
<1>2. CASE client.status = "off"
  <2>1. \/ ThreadStarts(c)
        \/ ThreadFails(c) /\ unmade' = TRUE
    BY <1>2 DEF AutoReconnect
  <2> HIDE DEF c
  <2> QED
    BY <1>1, <2>1, Begins, GivesUp DEF ThreadFails
<1>3. CASE client.status # "off"
  <2>1. client' = c /\ UNCHANGED <<link, wire, wish, unmade>>
    BY <1>3 DEF AutoReconnect
  <2> HIDE DEF c
  <2> QED
    BY <1>1, <1>3, <2>1 DEF ConnInv, ReconnectIsPending, TryPending
<1> QED
  BY <1>2, <1>3

\* A message changes neither the thread nor the timer, and the status only if there is
\* a thread: messages come from there.
LEMMA ReceiveConn ==
  ASSUME ConnInv, Receive
  PROVE  ConnInv'
<1> DEFINE m == Head(wire)
           s == Sent(client, <<Command("subscribe", "sessions", 0),
                               Command("subscribe", "users", 0)>>)
<1>1. IsClient(client) /\ client.mtt /\ link # "none"
  BY DEF ConnInv, Receive
<1>2. Keeps(client, SessionConnected(client))
  <2>1. Keeps(client, s)
    BY <1>1 DEF Sent, Keeps, IsClient
  <2>2. SessionConnected(client) = SetConnectStatus(s, "on")
    BY DEF SessionConnected
  <2> HIDE DEF s
  <2>3. Keeps(s, SetConnectStatus(s, "on"))
    BY <2>1, StatusIsSet DEF Keeps
  <2> QED
    BY <2>1, <2>2, <2>3 DEF Keeps
<1>3. Keeps(client, DataItems(client, m))
  BY <1>1 DEF DataItems, Keeps, IsClient
<1>4. Keeps(client, ResultPong(client, m.n))
  BY <1>1 DEF ResultPong, Keeps, IsClient
<1>5. Keeps(client, client)
  BY <1>1 DEF Keeps
<1>6. client' \in {SessionConnected(client), DataItems(client, m), ResultPong(client, m.n),
                   client}
  BY DEF Receive
<1>7. Keeps(client, client')
  BY <1>2, <1>3, <1>4, <1>5, <1>6
<1>8. UNCHANGED <<link, fired, wish, unmade>>
  BY DEF Receive
<1> QED
  BY <1>1, <1>7, <1>8 DEF ConnInv, Keeps, ReconnectIsPending, TryPending

\* The connection has gone: the next one is begun at once, or the timer is set.
LEMMA SessionDisconnectedConn ==
  ASSUME ConnInv, SessionDisconnected
  PROVE  ConnInv'
<1> DEFINE b == DisconnectFromServer(client)
           r == ResetAutoReconnectState(b)
           d == [r EXCEPT !.attempts = @ + 1]
           e == [d EXCEPT !.runner = TRUE]
           f == [b EXCEPT !.attempts = @ + 1]
           c == BeginAutoReconnect(b)
<1>1. IsClient(b) /\ b.status = "off" /\ ~b.mtt
  BY DisconnectIs DEF ConnInv
<1>2. \/ c.mtt /\ client' = c /\ LinkIs("trying")
      \/ c.mtt /\ ThreadFails(f) /\ unmade' = TRUE
      \/ ~c.mtt /\ client' = c /\ LinkIs("none") /\ UNCHANGED <<wish, unmade>>
  BY DEF SessionDisconnected
<1> HIDE DEF b
<1>3. IsClient(r) /\ r.status = "off" /\ ~r.mtt
  BY <1>1 DEF IsClient, ResetAutoReconnectState
<1>4. IsClient(f) /\ f.status = "off"
  BY <1>1 DEF IsClient
<1>5. c = IF b.attempts > 0 THEN e ELSE ConnectToServer(d)
  BY DEF BeginAutoReconnect
<1> HIDE DEF r, f
<1>6. IsClient(d) /\ d.status = "off" /\ ~d.mtt
  BY <1>3 DEF IsClient
<1> HIDE DEF d, c
<1>7. IsClient(e) /\ e.status = "off" /\ e.runner /\ ~e.mtt
  BY <1>6 DEF IsClient
<1> HIDE DEF e
<1>8. IsClient(ConnectToServer(d)) /\ ConnectToServer(d).mtt
  BY <1>6, ConnectIs
<1>9. CASE c.mtt /\ client' = c /\ LinkIs("trying")
  BY <1>5, <1>7, <1>8, <1>9 DEF ConnInv, LinkIs, ReconnectIsPending, TryPending
<1>10. CASE ThreadFails(f) /\ unmade' = TRUE
  BY <1>4, <1>10, GivesUp DEF ThreadFails
<1>11. CASE ~c.mtt /\ client' = c /\ LinkIs("none") /\ UNCHANGED <<wish, unmade>>
  BY <1>5, <1>7, <1>8, <1>11 DEF ConnInv, LinkIs, ReconnectIsPending, TryPending
<1> QED
  BY <1>2, <1>9, <1>10, <1>11

\* The server and the network leave the client's thread and timer alone.
LEMMA NetworkConn ==
  ASSUME ConnInv,
         \/ TimerFires \/ Established \/ ConnectionLost \/ SessionEnds
         \/ ServerHandles \/ ServerSends \/ OtherArrives \/ OtherChanges
  PROVE  ConnInv'
<1>1. CASE TimerFires
  BY <1>1 DEF TimerFires, ConnInv, ReconnectIsPending, TryPending
<1>2. CASE Established
  BY <1>2 DEF Established, ConnInv, ReconnectIsPending, TryPending
<1>3. CASE ConnectionLost
  BY <1>3 DEF ConnectionLost, ConnInv, ReconnectIsPending, TryPending
<1>4. CASE SessionEnds
  BY <1>4 DEF SessionEnds, ConnInv, ReconnectIsPending, TryPending
<1>5. CASE ServerHandles
  <2>1. client' = [client EXCEPT !.cmds = Tail(@)] /\ UNCHANGED <<link, wire, fired, wish, unmade>>
    BY <1>5 DEF ServerHandles
  <2> QED
    BY <2>1 DEF ConnInv, IsClient, ReconnectIsPending, TryPending
<1>6. CASE ServerSends
  BY <1>6 DEF ServerSends, ConnInv, ReconnectIsPending, TryPending
<1>7. CASE OtherArrives
  BY <1>7 DEF OtherArrives, ConnInv, ReconnectIsPending, TryPending
<1>8. CASE OtherChanges
  BY <1>8 DEF OtherChanges, ConnInv, ReconnectIsPending, TryPending
<1> QED
  BY <1>1, <1>2, <1>3, <1>4, <1>5, <1>6, <1>7, <1>8

LEMMA NextConn ==
  ASSUME ConnInv, [Next]_vars
  PROVE  ConnInv'
<1>1. CASE UNCHANGED vars
  BY <1>1 DEF vars, ConnInv, ReconnectIsPending, TryPending
<1> QED
  BY <1>1, UserConnectsConn, UserDisconnectsConn, UserChatsConn, UserQueriesConn,
     AutoReconnectConn, ReceiveConn, SessionDisconnectedConn, NetworkConn DEF Next

\* A user for whom a connection was begun, and who has not asked for its end, has a network
\* thread, or a timer runs that will make one, or its message waits to be handled: in
\* whatever order the events of the thread, the timer's messages and his commands are
\* handled (SessionDisconnected(), BeginAutoReconnect() and AUTO_RECONNECT).  The exception
\* in the statement is an automatic attempt whose thread could not be made
\* (ConnectToServer()), and it lasts no longer than to the next attempt.
THEOREM ReconnectIsPendingHolds == Spec => []ReconnectIsPending
<1>1. ConnInv => ReconnectIsPending
  BY DEF ConnInv
<1> QED
  BY <1>1, InitConn, NextConn, PTL DEF Spec
=============================================================================
