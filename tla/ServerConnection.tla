-------------------------- MODULE ServerConnection --------------------------
(***************************************************************************)
(* A client's connection to the MUSCLE server (ShareWindow.cpp,            *)
(* ShareNetClient.cpp): the user's commands and the automatic reconnect,   *)
(* the list of the users who are there, and the query with its results.    *)
(* The server is the one of DataTree, which the client knows only through  *)
(* two FIFO streams, and other users come, share files and leave.          *)
(*                                                                         *)
(* The window's looper handles one message at a time, so that each of its  *)
(* handlers is one action.  What the client uploads is in SharedFiles.     *)
(***************************************************************************)
EXTENDS DataTree

CONSTANTS
  Mine,          \* session IDs the server gives this client, a new one for each connection
  Names,         \* the path of the name of a user, below the session's node
  FileKeys,      \* the paths of shared files
  Queries,       \* the patterns of queries, of the file nodes
  NoSession, NoQuery,
  MaxSteps       \* bound on the commands of the user, the connections that fail or are
                 \* lost, and the changes that other users make, together

VARIABLES
  client,    \* the window and the network client
  link,      \* the network thread _mtt: "none", "trying", "up" or "lost"
  sid,       \* the session of this connection
  wire,      \* events of _mtt, and messages on the way to it
  fired,     \* an AUTO_RECONNECT message is in the window's queue
  wish,      \* history: a connection was begun for the user, who has not asked for its end
  unmade,    \* history: the last attempt of the automatic reconnect could make no thread
  asked,     \* history: the queries made on this connection, and whether before the login
  steps      \* how many of these there have been

vars == <<nodes, subs, marks, count, out, client, link, sid, wire, fired, wish, unmade, asked,
          steps>>

Others == Sessions \ Mine

Event(what) == [what |-> what, gone |-> {}, here |-> <<>>, n |-> 0]
Command(what, pattern, n) == [what |-> what, pattern |-> pattern, n |-> n]

\* Depths of the paths that the client tells apart.
SessionDepth == 2
UserDepth == 4
FileDepth == 5

UserOf(path) == path[SessionDepth]

-----------------------------------------------------------------------------
(* The client.  Its methods take its state and return the one they leave. *)

ClearResults(c) == [c EXCEPT !.results = {}]

ClearUsers(c) == [ClearResults(c) EXCEPT !.users = {}]

\* SendMessageToSessions(): nothing is sent without a network thread.
Sent(c, cmds) == IF c.mtt THEN [c EXCEPT !.cmds = @ \o cmds] ELSE c

\* The subscriptions of queries end, and results that the server has not sent go.
StopQuery(c) ==
  [Sent(c, <<Command("unsubscribe", NoQuery, 0), Command("jettison", NoQuery, 0)>>)
     EXCEPT !.active = FALSE]

\* The ping comes back behind the results that there are.
StartQuery(c, q) ==
  IF ~c.mtt THEN c
  ELSE [Sent(StopQuery(c), <<Command("subscribe", q, 0), Command("ping", NoQuery, c.pings)>>)
          EXCEPT !.pings = @ + 1, !.inProgress = TRUE, !.active = TRUE, !.pattern = q]

\* SetQueryEnabled(), for both values.
DisableQuery(c) == IF c.enabled THEN StopQuery([c EXCEPT !.enabled = FALSE]) ELSE c
EnableQuery(c, q) ==
  IF c.enabled THEN c ELSE StartQuery(ClearResults([c EXCEPT !.enabled = TRUE]), q)

\* SetQuery(), and the commands that send a query again.
SetQuery(c, q) == EnableQuery(DisableQuery(c), q)

\* A query that was given at the start is made with the first connection; without a
\* connection there are no users and no query.
SetConnectStatus(c, status) ==
  LET begun == IF status = "on" /\ c.status # "on" /\ c.onConnect # NoQuery
               THEN [SetQuery(c, c.onConnect) EXCEPT !.onConnect = NoQuery] ELSE c
      d == [begun EXCEPT !.status = status] IN
  IF status = "on" THEN d ELSE DisableQuery(ClearUsers(d))

\* The mark of a query in progress stays.
DisconnectKeepsRadar(c) ==
  LET d == [c EXCEPT !.mtt = FALSE, !.cmds = <<>>] IN
  IF c.mtt THEN SetConnectStatus(d, "off") ELSE d

DisconnectFromServer(c) ==
  LET d == [c EXCEPT !.inProgress = FALSE, !.mtt = FALSE, !.cmds = <<>>] IN
  IF c.mtt THEN SetConnectStatus(d, "off") ELSE d

\* Any old connection is cleaned out first.
ConnectToServer(c) ==
  SetConnectStatus([DisconnectFromServer(c) EXCEPT !.mtt = TRUE], "connecting")

ResetAutoReconnectState(c) == [c EXCEPT !.runner = FALSE]

\* The next attempt is made at once, or when a timer fires.
BeginAutoReconnect(c) ==
  LET d == [ResetAutoReconnectState(c) EXCEPT !.attempts = @ + 1] IN
  IF c.attempts > 0 THEN [d EXCEPT !.runner = TRUE] ELSE ConnectToServer(d)

\* The removal of a file is overlooked.
DataItemsOfUsers(c, m) ==
  LET left == {UserOf(p) : p \in {q \in m.gone : Len(q) = SessionDepth}}
      added == {p \in DOMAIN m.here : Len(p) = FileDepth /\ c.active /\ Matches(c.pattern, p)}
      seen == {p \in DOMAIN m.here : Len(p) = UserDepth} IN
  [c EXCEPT
     !.users = (@ \ left) \cup {UserOf(p) : p \in seen \cup added},
     !.results = {p \in @ : UserOf(p) \notin left} \cup added]

\* What a PR_RESULT_DATAITEMS message changes of the users and the results: removals,
\* then additions.  A result must match the query that is active now.
DataItems(c, m) ==
  LET left == {UserOf(p) : p \in {q \in m.gone : Len(q) = SessionDepth}}
      added == {p \in DOMAIN m.here : Len(p) = FileDepth /\ c.active /\ Matches(c.pattern, p)}
      seen == {p \in DOMAIN m.here : Len(p) = UserDepth} IN
  [c EXCEPT
     !.users = (@ \ left) \cup {UserOf(p) : p \in seen \cup added},
     !.results = {p \in @ \ m.gone : UserOf(p) \notin left} \cup added]

\* Any pong ends the query.
AnyPong(c, n) == [c EXCEPT !.inProgress = FALSE]

\* The pong of the last query, whose results are all here now.
ResultPong(c, n) == IF n >= c.pings - 1 THEN [c EXCEPT !.inProgress = FALSE] ELSE c

\* The sessions are subscribed to last.
SessionConnectedUsersFirst(c) ==
  SetConnectStatus(Sent(c, <<Command("subscribe", "users", 0),
                             Command("subscribe", "sessions", 0)>>), "on")

\* MTT_EVENT_SESSION_CONNECTED: who leaves must be known before who is there.
SessionConnected(c) ==
  SetConnectStatus(Sent(c, <<Command("subscribe", "sessions", 0),
                             Command("subscribe", "users", 0)>>), "on")

-----------------------------------------------------------------------------

Init ==
  /\ TreeInit
  /\ \E q \in Queries \cup {NoQuery} :
       client = [status |-> "off", mtt |-> FALSE, cmds |-> <<>>, users |-> {}, results |-> {},
                 enabled |-> FALSE, active |-> FALSE, pattern |-> NoQuery,
                 inProgress |-> FALSE, pings |-> 0, onConnect |-> q,
                 runner |-> FALSE, attempts |-> 0]
  /\ link = "none" /\ sid = NoSession /\ wire = <<>>
  /\ fired = FALSE /\ wish = FALSE /\ unmade = FALSE
  /\ asked = [number |-> 0, early |-> FALSE]
  /\ steps = 0

Step == steps < MaxSteps /\ steps' = steps + 1

LinkIs(l) ==
  link' = l /\ sid' = NoSession /\ wire' = <<>> /\ asked' = [number |-> 0, early |-> FALSE]

\* The history of a step that may make a query.
Asking ==
  asked' = IF client'.pings = client.pings THEN asked
           ELSE [number |-> asked.number + 1,
                 early |-> asked.early \/ client'.status = "connecting"]

\* The network thread is made, or cannot be made: then a line is logged, and nothing more
\* is tried.
ThreadStarts(c) == client' = ConnectToServer(c) /\ LinkIs("trying") /\ unmade' = FALSE
ThreadFails(c) == client' = DisconnectFromServer(c) /\ LinkIs("none")

\* RECONNECT_TO_SERVER.
UserConnects ==
  /\ Step
  /\ LET c == [ResetAutoReconnectState(client) EXCEPT !.attempts = 0] IN
     \/ ThreadStarts(c) /\ wish' = TRUE
     \/ ThreadFails(c) /\ wish' = FALSE /\ unmade' = FALSE
  /\ UNCHANGED <<nodes, subs, marks, count, out, fired>>

\* DISCONNECT_FROM_SERVER.
UserDisconnects ==
  /\ Step
  /\ client' = DisconnectFromServer([ResetAutoReconnectState(client) EXCEPT !.attempts = 0])
  /\ LinkIs("none") /\ wish' = FALSE /\ unmade' = FALSE
  /\ UNCHANGED <<nodes, subs, marks, count, out, fired>>

\* UserChatted().
UserChats ==
  /\ Step /\ client.attempts > 0
  /\ client' = [client EXCEPT !.attempts = 0]
  /\ UNCHANGED <<nodes, subs, marks, count, out, link, sid, wire, fired, wish, unmade, asked>>

\* ENABLE_QUERY, DISABLE_QUERY and CHANGE_FILE_NAME_QUERY.
UserQueries ==
  /\ Step
  /\ \/ client.status = "on" /\ \E q \in Queries : client' = EnableQuery(client, q)
     \/ client' = DisableQuery(client)
     \/ \E q \in Queries : client' = SetQuery(client, q)
  /\ Asking
  /\ UNCHANGED <<nodes, subs, marks, count, out, link, sid, wire, fired, wish, unmade>>

\* The BMessageRunner posts its message, and will again.
TimerFires ==
  /\ client.runner /\ ~fired
  /\ fired' = TRUE
  /\ UNCHANGED <<nodes, subs, marks, count, out, client, link, sid, wire, wish, unmade, asked, steps>>

\* The runner goes, but the connection that it was for is not made.
AutoReconnectOnlyOnce ==
  /\ fired /\ fired' = FALSE
  /\ client' = ResetAutoReconnectState(client)
  /\ UNCHANGED <<nodes, subs, marks, count, out, link, sid, wire, wish, unmade, asked, steps>>

\* AUTO_RECONNECT: for nothing if there is a connection by now.
AutoReconnect ==
  /\ fired /\ fired' = FALSE
  /\ IF client.status = "off"
     THEN LET c == ResetAutoReconnectState(client) IN
          \/ ThreadStarts(c)
          \/ ThreadFails(c) /\ unmade' = TRUE
     ELSE /\ client' = ResetAutoReconnectState(client)
          /\ UNCHANGED <<link, sid, wire, unmade, asked>>
  /\ UNCHANGED <<nodes, subs, marks, count, out, wish, steps>>

\* MTT_EVENT_INCOMING_MESSAGE and MTT_EVENT_SESSION_CONNECTED.
Receive ==
  /\ wire # <<>> /\ Head(wire).what # "disconnected"
  /\ LET m == Head(wire) IN
     client' = CASE m.what = "connected" -> SessionConnected(client)
                 [] m.what = "items" -> DataItems(client, m)
                 [] m.what = "pong" -> ResultPong(client, m.n)
                 [] OTHER -> client
  /\ wire' = Tail(wire)
  /\ Asking
  /\ UNCHANGED <<nodes, subs, marks, count, out, link, sid, fired, wish, unmade, steps>>

\* MTT_EVENT_SESSION_DISCONNECTED, also of a connection that was never made.
SessionDisconnected ==
  /\ wire # <<>> /\ Head(wire).what = "disconnected"
  /\ LET c == BeginAutoReconnect(DisconnectFromServer(client)) IN
     IF c.mtt
     THEN \/ client' = c /\ LinkIs("trying") /\ unmade' = FALSE
          \/ ThreadFails([DisconnectFromServer(client) EXCEPT !.attempts = @ + 1])
             /\ unmade' = TRUE
     ELSE client' = c /\ LinkIs("none") /\ UNCHANGED unmade
  /\ UNCHANGED <<nodes, subs, marks, count, out, fired, wish, steps>>

-----------------------------------------------------------------------------
(* The network and the server. *)

\* The server gives the new connection a session.
Established ==
  /\ link = "trying" /\ link' = "up"
  /\ \E s \in Mine : AttachedToServer(s) /\ sid' = s
  /\ wire' = Append(wire, Event("connected"))
  /\ UNCHANGED <<client, fired, wish, unmade, asked, steps>>

\* A connection fails, or is lost with all that is on it.
ConnectionLost ==
  /\ link \in {"trying", "up"} /\ link' = "lost"
  /\ Step
  /\ wire' = Append(wire, Event("disconnected"))
  /\ UNCHANGED <<nodes, subs, marks, count, out, client, sid, fired, wish, unmade, asked>>

\* The server notices that a connection has gone.
SessionEnds ==
  /\ \E s \in Mine : (s # sid \/ link = "lost") /\ Cleanup(s)
  /\ UNCHANGED <<client, link, sid, wire, fired, wish, unmade, asked, steps>>

\* The next message of the client.
ServerHandles ==
  /\ link = "up" /\ client.cmds # <<>>
  /\ client' = [client EXCEPT !.cmds = Tail(@)]
  /\ LET cmd == Head(client.cmds) IN
     \/ cmd.what = "subscribe" /\ Subscribe(sid, cmd.pattern)
     \/ cmd.what = "unsubscribe" /\ Unsubscribe(sid, Queries)
     \/ cmd.what = "jettison" /\ JettisonOutgoingResults(sid, FileDepth)
     \/ cmd.what = "ping" /\ Ping(sid, cmd.n)
  /\ UNCHANGED <<link, sid, wire, fired, wish, unmade, asked, steps>>

ServerSends ==
  /\ link = "up" /\ out[sid] # <<>>
  /\ wire' = Append(wire, Head(out[sid]))
  /\ out' = [out EXCEPT ![sid] = Tail(@)]
  /\ UNCHANGED <<nodes, subs, marks, count, client, link, sid, fired, wish, unmade, asked, steps>>

\* Another user comes and gives his name.
OtherArrives ==
  /\ \E u \in Others :
       \/ AttachedToServer(u)
       \/ Root(u) \o Names \notin Paths /\ SetData(u, <<Names>>, Blank)
  /\ UNCHANGED <<client, link, sid, wire, fired, wish, unmade, asked, steps>>

\* He shares and withdraws files, and leaves.
OtherChanges ==
  /\ Step
  /\ \E u \in Others :
       \/ \E f \in FileKeys : Root(u) \o f \notin Paths /\ SetData(u, <<f>>, Blank)
       \/ \E f \in FileKeys : Root(u) \o f \in Paths /\ RemoveData(u, {f})
       \/ Cleanup(u)
  /\ UNCHANGED <<client, link, sid, wire, fired, wish, unmade, asked>>

Next ==
  \/ UserConnects \/ UserDisconnects \/ UserChats \/ UserQueries
  \/ TimerFires \/ AutoReconnect \/ Receive \/ SessionDisconnected
  \/ Established \/ ConnectionLost \/ SessionEnds
  \/ ServerHandles \/ ServerSends \/ OtherArrives \/ OtherChanges

\* The looper and the server go on, and an attempt to connect has an end.
Fairness ==
  /\ WF_vars(Receive) /\ WF_vars(SessionDisconnected)
  /\ WF_vars(Established) /\ WF_vars(SessionEnds)
  /\ WF_vars(ServerHandles) /\ WF_vars(ServerSends)

Spec == Init /\ [][Next]_vars
FairSpec == Spec /\ Fairness

-----------------------------------------------------------------------------
(* Properties *)

\* What the client will show when all that is on its way to it has arrived.
Shown ==
  FoldLeft(LAMBDA c, m : IF m.what = "items" THEN DataItems(c, m) ELSE c, client, wire \o out[sid])

\* A new connection is on its way, or a timer is set for it, or its message waits.
TryPending == client.mtt \/ client.runner \/ fired

\* A user whose connection has been lost, or could not be made, is not forgotten
\* (SessionDisconnected(), BeginAutoReconnect(), AUTO_RECONNECT), whatever order failures,
\* timers and commands come in.  The one exception is that of the code: an attempt of the
\* automatic reconnect that cannot make its network thread is the last.
ReconnectIsPending == wish /\ ~unmade => TryPending

\* Nobody is shown who has left: the removal of his node is on its way.  The order of the
\* subscriptions at the login matters, and whatever puts a user into the list.  (A query
\* that is made before the login is answered before the client knows who leaves.)
UsersAreThere == link = "up" /\ ~asked.early => Shown.users \subseteq Attached

\* Once the mark of a query in progress is gone, every file that matches is shown or has
\* been sent since: a late pong of an earlier query does not end it.
QueryIsComplete ==
  link = "up" /\ client.active /\ ~client.inProgress =>
    \A p \in Paths : Len(p) = FileDepth /\ Matches(client.pattern, p) => p \in Shown.results

\* The results of the first query of a connection are files that are there, or whose
\* removal is on its way.  (Of a later query they may be results of an earlier one whose
\* removal has been jettisoned.)
ResultsAreThere ==
  link = "up" /\ client.active /\ asked.number = 1 => \A p \in Shown.results : p \in Paths

\* The mark of a query in progress does not stay for ever.
QueryEnds == client.inProgress ~> ~client.inProgress
=============================================================================
