---------------------------- MODULE BrowserSession ----------------------------
(***************************************************************************)
(* The tabs of one browser and their sockets: how a tab starts, signs in,  *)
(* signs out and joins the server's pools.  From the Open WebUI interface  *)
(* (src/routes/+layout.svelte, src/routes/(app)/+layout.svelte,            *)
(* src/routes/auth/+page.svelte), composed with UserPools.                 *)
(*                                                                         *)
(* All tabs share localStorage.token.  A tab's socket keeps the token it   *)
(* was created with and gives it at every connection; a user-join carries  *)
(* the stored token of that moment.  What a tab emits while its socket is  *)
(* down is sent when it is up again.  A server handles the connection of a *)
(* socket before the tab learns of it, and the end of one at any time      *)
(* after it, but after the events that came before.                        *)
(*                                                                         *)
(* A route is "app" for every page behind the guard and "auth" for the     *)
(* sign-in page; "error" is the error page and the blank one a mount       *)
(* handler that throws leaves, which only a reload ends.  A token is       *)
(* signed out of before it expires; one that expired while no tab was open *)
(* is one whose check fails.                                               *)
(***************************************************************************)
EXTENDS UserPools, Sequences, SequencesExt, FiniteSets

CONSTANTS
    Tabs, Tokens, OwnerOf,
    NoToken,
    Undefined,      \* the user store before a session is known
    SidOf,          \* the connections of a tab, in order
    MaxConnections, \* bound on the connections of each tab
    MaxSignIns      \* bound on the sign-ins of one visit of the sign-in page (an
                    \* OAuth cookie and then a trusted header or the form make 2)

ASSUME BrowserAssumption ==
    /\ IsFiniteSet(Users)
    /\ OwnerOf \in [Tokens -> Users]
    /\ NoToken \notin Tokens
    /\ Undefined \notin Users \cup {Nobody}
    /\ MaxConnections \in [Tabs -> Nat]
    /\ MaxSignIns \in [Tabs -> Nat]
    /\ SidOf \in [Tabs -> Seq(Sids)]
    /\ \A t \in Tabs : Len(SidOf[t]) = MaxConnections[t]
    /\ \A t, u \in Tabs : \A m \in 1..Len(SidOf[t]), n \in 1..Len(SidOf[u]) :
          SidOf[t][m] = SidOf[u][n] => t = u /\ m = n

VARIABLES
    token,          \* localStorage.token
    page,           \* closed, starting, checking, mounting, shown or error
    route,          \* the route the tab is on
    user,           \* the user store
    signins,        \* how often the sign-in page it was on may still sign in
    auth,           \* the token the tab's socket was created with, which the
                    \* session check at its start has too
    link,           \* none, connecting or up
    connections,    \* how often the socket has connected
    greeting,       \* how many connect handlers wait for the version
    failed,         \* a version was refused since the socket connected last
    buffer,         \* tokens of user-joins emitted while the socket was down
    inbox           \* what the server has not yet handled, per tab

tab_vars == <<page, route, user, signins>>
socket_vars == <<auth, link, connections, greeting, failed, buffer, inbox>>
vars == <<pools, token, tab_vars, socket_vars>>

-----------------------------------------------------------------------------
Sid(t) == SidOf[t][connections[t]]

DecodedUser(k) == IF k = NoToken THEN Nobody ELSE OwnerOf[k]

Join(t, k) == [event |-> "join", sid |-> Sid(t), token |-> k]
Gone(t) == [event |-> "disconnect", sid |-> Sid(t), token |-> NoToken]

Init ==
    /\ PoolInit
    /\ token \in Tokens \cup {NoToken}
    /\ page = [t \in Tabs |-> "closed"]
    /\ route = [t \in Tabs |-> "app"]
    /\ user = [t \in Tabs |-> Undefined]
    /\ signins = [t \in Tabs |-> 0]
    /\ auth = [t \in Tabs |-> NoToken]
    /\ link = [t \in Tabs |-> "none"]
    /\ connections = [t \in Tabs |-> 0]
    /\ greeting = [t \in Tabs |-> 0]
    /\ failed = [t \in Tabs |-> FALSE]
    /\ buffer = [t \in Tabs |-> <<>>]
    /\ inbox = [t \in Tabs |-> <<>>]

Goes(t, where, path) ==
    /\ page' = [page EXCEPT ![t] = where]
    /\ route' = [route EXCEPT ![t] = path]

-----------------------------------------------------------------------------
(* Loading and leaving a page.                                             *)

\* The handlers of the page that is left end, and its socket is closed.  (What
\* they send meanwhile is taken back by the disconnect that follows.)
SocketCloses(t) ==
    /\ signins' = [signins EXCEPT ![t] = 0]
    /\ link' = [link EXCEPT ![t] = "none"]
    /\ greeting' = [greeting EXCEPT ![t] = 0]
    /\ failed' = [failed EXCEPT ![t] = FALSE]
    /\ buffer' = [buffer EXCEPT ![t] = <<>>]
    /\ inbox' = IF link[t] = "up" THEN [inbox EXCEPT ![t] = Append(@, Gone(t))]
                                  ELSE inbox
    /\ auth' = [auth EXCEPT ![t] = NoToken]
    /\ UNCHANGED connections

Loads(t, path) ==
    /\ connections[t] < MaxConnections[t]
    /\ Goes(t, "starting", path)
    /\ user' = [user EXCEPT ![t] = Undefined]
    /\ SocketCloses(t)

\* A new tab, or a reload by hand.
Opens(t) ==
    /\ page[t] \in {"closed", "shown", "error"}
    /\ \E path \in {"app", "auth"} : Loads(t, path)
    /\ UNCHANGED <<pools, token>>

Closes(t) ==
    /\ page[t] # "closed"
    /\ Goes(t, "closed", "app")
    /\ user' = [user EXCEPT ![t] = Undefined]
    /\ SocketCloses(t)
    /\ UNCHANGED <<pools, token>>

\* Without a configuration: the error page when a locale is stored, a blank one
\* when not, since the handler reads one from the configuration then.
BackendMissing(t) ==
    /\ page[t] = "starting"
    /\ Goes(t, "error", route[t])
    /\ UNCHANGED <<pools, token, user, signins, socket_vars>>

\* onMount of the root layout, once the configuration is known.
setupSocket(t) ==
    /\ page[t] = "starting"
    /\ auth' = [auth EXCEPT ![t] = token]
    /\ link' = [link EXCEPT ![t] = "connecting"]
    /\ IF token # NoToken
         THEN Goes(t, "checking", route[t])
         ELSE Goes(t, "mounting", "auth")
    /\ UNCHANGED <<pools, token, user, signins, connections, greeting, failed, buffer, inbox>>

\* The configuration is read again for the user.  A check that fails, for
\* whatever reason, removes the token stored by then.
getSessionUser(t) ==
    /\ page[t] = "checking"
    /\ \/ /\ user' = [user EXCEPT ![t] = OwnerOf[auth[t]]]
          /\ \E where \in {"mounting", "error"} : Goes(t, where, route[t])
          /\ UNCHANGED token
       \/ /\ token' = NoToken
          /\ Goes(t, "mounting", "auth")
          /\ UNCHANGED user
    /\ UNCHANGED <<pools, signins, socket_vars>>

-----------------------------------------------------------------------------
(* The pages.                                                              *)

\* The handler goes on after it has sent the tab away.
AuthPage(t) ==
    /\ IF user[t] # Undefined THEN Goes(t, "mounting", "app") ELSE Goes(t, "shown", "auth")
    /\ signins' = [signins EXCEPT ![t] = MaxSignIns[t]]

AppGuard(t) ==
    /\ IF user[t] \in {Undefined, Nobody} THEN Goes(t, "mounting", "auth")
                                         ELSE Goes(t, "shown", "app")
    /\ UNCHANGED signins

\* onMount of the sign-in page and of the layout of the others.
Mounts(t) ==
    /\ page[t] = "mounting"
    /\ IF route[t] = "auth" THEN AuthPage(t) ELSE AppGuard(t)
    /\ UNCHANGED <<pools, token, user, socket_vars>>

\* _socket.emit
Emits(t, k) ==
    IF link[t] = "up"
      THEN inbox' = [inbox EXCEPT ![t] = Append(@, Join(t, k))] /\ UNCHANGED buffer
      ELSE buffer' = [buffer EXCEPT ![t] = Append(@, k)] /\ UNCHANGED inbox

\* A sign-in by password, LDAP, trusted header or OAuth cookie succeeds, perhaps
\* after its page was left.  The tab stays where it is when the configuration
\* cannot be read.
setSessionUser(t, k) ==
    /\ signins[t] > 0
    /\ signins' = [signins EXCEPT ![t] = @ - 1]
    /\ token' = k
    /\ user' = [user EXCEPT ![t] = OwnerOf[k]]
    /\ Goes(t, "mounting", "app") \/ UNCHANGED <<page, route>>
    /\ Emits(t, k)
    /\ UNCHANGED <<pools, auth, link, connections, greeting, failed>>

SignedOut_in_place(t) ==
    /\ Goes(t, "mounting", "auth")
    /\ user' = [user EXCEPT ![t] = Nobody]
    /\ UNCHANGED <<signins, socket_vars>>

\* location.href: the page is left for the sign-in page.
SignedOut(t) == Loads(t, "auth")

\* The session is about to expire (or its user signs out, which the interface
\* does in the same way).
checkTokenExpiry(t) ==
    /\ user[t] \in Users
    /\ connections[t] < MaxConnections[t]
    /\ token' = NoToken
    /\ SignedOut(t)
    /\ UNCHANGED <<pools>>

-----------------------------------------------------------------------------
(* The socket.                                                             *)

\* The server has handled the connection; what waited is sent first.
Connects(t) ==
    /\ link[t] = "connecting"
    /\ connections[t] < MaxConnections[t]
    /\ connections' = [connections EXCEPT ![t] = @ + 1]
    /\ link' = [link EXCEPT ![t] = "up"]
    /\ greeting' = [greeting EXCEPT ![t] = @ + 1]
    /\ failed' = [failed EXCEPT ![t] = FALSE]
    /\ LET sid == SidOf[t][connections'[t]]
       IN  /\ connect(sid, DecodedUser(auth[t]))
           /\ inbox' = [inbox EXCEPT ![t] = @ \o
                 [i \in 1..Len(buffer[t]) |->
                    [event |-> "join", sid |-> sid, token |-> buffer[t][i]]]]
    /\ buffer' = [buffer EXCEPT ![t] = <<>>]
    /\ UNCHANGED <<token, tab_vars, auth>>

Greeted_as_created(t) == IF auth[t] # NoToken THEN Emits(t, auth[t]) ELSE UNCHANGED <<inbox, buffer>>

Greeted(t) == IF token # NoToken THEN Emits(t, token) ELSE UNCHANGED <<inbox, buffer>>

\* The rest of the connect handler, after the version is known.
getVersion(t) ==
    /\ greeting[t] > 0
    /\ greeting' = [greeting EXCEPT ![t] = @ - 1]
    /\ Greeted(t)
    /\ UNCHANGED <<pools, token, tab_vars, auth, link, connections, failed>>

\* The version cannot be read: nothing catches it, and the handler ends.
VersionFails(t) ==
    /\ greeting[t] > 0
    /\ greeting' = [greeting EXCEPT ![t] = @ - 1]
    /\ failed' = [failed EXCEPT ![t] = TRUE]
    /\ UNCHANGED <<pools, token, tab_vars, auth, link, connections, buffer, inbox>>

\* Another version of the server: the page is loaded again.
VersionChanged(t) ==
    /\ greeting[t] > 0
    /\ Loads(t, route[t])
    /\ UNCHANGED <<pools, token>>

\* The events under way may be lost with the connection.
Breaks(t) ==
    /\ link[t] = "up"
    /\ connections[t] < MaxConnections[t]
    /\ link' = [link EXCEPT ![t] = "connecting"]
    /\ \E kept \in 0..Len(inbox[t]) :
          /\ \A i \in kept + 1..Len(inbox[t]) : inbox[t][i].event = "join"
          /\ inbox' = [inbox EXCEPT ![t] = SubSeq(@, 1, kept) \o <<Gone(t)>>]
    /\ UNCHANGED <<pools, token, tab_vars, auth, connections, greeting, failed, buffer>>

\* The server handles the next event of a tab.
Serves_out_of_order(t, i) == i \in 1..Len(inbox[t])

Serves(t, i) == i = 1 /\ inbox[t] # <<>>

Handles(t) ==
    /\ \E i \in 1..Len(inbox[t]) :
          /\ Serves(t, i)
          /\ inbox' = [inbox EXCEPT ![t] = RemoveAt(@, i)]
          /\ LET e == inbox[t][i]
             IN  \/ e.event = "join" /\ user_join(e.sid, DecodedUser(e.token))
                 \/ e.event = "disconnect" /\ disconnect(e.sid)
    /\ UNCHANGED <<token, tab_vars, auth, link, connections, greeting, failed, buffer>>

-----------------------------------------------------------------------------
Startup(t) == setupSocket(t) \/ getSessionUser(t) \/ Mounts(t)

Next ==
    \E t \in Tabs :
        \/ Opens(t) \/ Closes(t) \/ BackendMissing(t) \/ Startup(t)
        \/ \E k \in Tokens : setSessionUser(t, k)
        \/ checkTokenExpiry(t)
        \/ Connects(t) \/ getVersion(t) \/ VersionFails(t) \/ VersionChanged(t)
        \/ Breaks(t)
        \/ Handles(t)

\* A page that loads goes on, a socket connects again, and the server handles
\* what it has received.  Nobody has to open, close or sign in.
Fairness ==
    \A t \in Tabs : /\ WF_vars(Startup(t)) /\ WF_vars(Connects(t))
                    /\ WF_vars(getVersion(t) \/ VersionFails(t) \/ VersionChanged(t))
                    /\ WF_vars(Handles(t))

Spec == Init /\ [][Next]_vars /\ Fairness

-----------------------------------------------------------------------------
(* Properties.                                                             *)

Event == [event : {"join", "disconnect"}, sid : Sids, token : Tokens \cup {NoToken}]

TypeOK ==
    /\ PoolsTypeOK
    /\ token \in Tokens \cup {NoToken}
    /\ page \in [Tabs -> {"closed", "starting", "checking", "mounting", "shown", "error"}]
    /\ route \in [Tabs -> {"app", "auth"}]
    /\ user \in [Tabs -> Users \cup {Undefined, Nobody}]
    /\ signins \in [Tabs -> Nat]
    /\ auth \in [Tabs -> Tokens \cup {NoToken}]
    /\ link \in [Tabs -> {"none", "connecting", "up"}]
    /\ connections \in [Tabs -> Nat]
    /\ greeting \in [Tabs -> Nat]
    /\ failed \in [Tabs -> BOOLEAN]
    /\ buffer \in [Tabs -> Seq(Tokens)]
    /\ inbox \in [Tabs -> Seq(Event)]

\* Every step of the browser is a step the pools allow: a socket's events reach
\* the server only between its connection and its end.
UsesPools == PoolSpec

\* While one account is signed in from this browser, nobody is listed as active
\* by a connection that is gone or has no session (get_active_user_ids,
\* main.py 212-219): what is listed twice is taken out twice.
NoGhosts ==
    Cardinality(Users) = 1 =>
        \A u \in Users, sid \in Sids : USER_POOL[u][sid] > 0 => SESSION_POOL[sid] = u

\* A tab that loads comes to rest on a page: the guard and the sign-in page never
\* send it back and forth.
TabSettles ==
    \A t \in Tabs : page[t] = "mounting" ~> page[t] # "mounting"

InApplication(t) ==
    page[t] \in {"mounting", "shown"} /\ route[t] = "app" /\ user[t] \in Users

\* A tab of the application whose socket connects, or that has sent or is about
\* to send its join, becomes one of its user's connections, however connections
\* break, unless it leaves, the stored token is removed, which another tab may
\* do, or the version it asks for at a connection is refused, which ends the
\* connect handler before its join (socket and sign-in handlers, +layout.svelte
\* 88-107, auth/+page.svelte 45).
TabJoins ==
    Cardinality(Users) = 1 =>
    \A t \in Tabs :
        /\ greeting[t] > 0 \/ buffer[t] # <<>>
        /\ InApplication(t) /\ token # NoToken
        ~> \/ ~ InApplication(t)
           \/ token = NoToken
           \/ failed[t]
           \/ link[t] = "up" /\ USER_POOL[user[t]][Sid(t)] > 0
=============================================================================
