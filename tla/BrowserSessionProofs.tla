------------------------- MODULE BrowserSessionProofs -------------------------
(***************************************************************************)
(* Proofs about UserPools, for any users and any connections, and about    *)
(* BrowserSession, for any tabs, tokens, accounts and numbers of           *)
(* connections: what the browser sends makes the server's pools behave as  *)
(* UserPools says, so the invariants of the pools hold of the browser and  *)
(* the server together, and one account has no ghost connections.          *)
(*                                                                         *)
(* UserPools lets an event of a connection happen while it is live.  So    *)
(* BrowserInv says of what is under way: each event belongs to a live      *)
(* connection of its own tab, nothing of a connection comes after its      *)
(* disconnect, and the connection a tab has is live and not yet ended.     *)
(***************************************************************************)
EXTENDS BrowserSession, SequenceTheorems, FiniteSetTheorems, TLAPS

(***************************************************************************)
(* The pools alone, for any client: both invariants are inductive together *)
(* with the types, since a join enters the session and the list in one     *)
(* step, and a disconnect takes the session of its own connection away     *)
(* with the list it is in.                                                 *)
(***************************************************************************)
PoolsInv == PoolsTypeOK /\ SessionsListed /\ SessionsLive

-----------------------------------------------------------------------------
\* What the code shared by connect and user_join leaves of the pools.
LEMMA EnteredPools ==
    ASSUME PoolsTypeOK, SessionsListed,
           NEW sid \in Sids, NEW u \in Users \cup {Nobody}, Entered(sid, u)
    PROVE  /\ SESSION_POOL' \in [Sids -> Users \cup {Nobody}]
           /\ USER_POOL' \in [Users -> [Sids -> Nat]]
           /\ SessionsListed'
           /\ \A x \in Sids \ {sid} : SESSION_POOL'[x] = SESSION_POOL[x]
  <1>1. CASE u = Nobody
    BY <1>1 DEF Entered, PoolsTypeOK, SessionsListed
  <1>2. CASE u # Nobody
    <2>1. u \in Users
      BY <1>2
    <2>2. /\ SESSION_POOL' = [SESSION_POOL EXCEPT ![sid] = u]
          /\ USER_POOL' = [USER_POOL EXCEPT ![u] = Listed(sid, @)]
      BY <1>2 DEF Entered
    <2>3. USER_POOL[u] \in [Sids -> Nat]
      BY <2>1 DEF PoolsTypeOK
    <2>4. Listed(sid, USER_POOL[u]) \in [Sids -> Nat]
      BY <2>3 DEF Listed
    <2>5. USER_POOL' \in [Users -> [Sids -> Nat]]
      BY <2>1, <2>2, <2>4 DEF PoolsTypeOK
    <2>6. \A v \in Users, x \in Sids :
              USER_POOL[v][x] > 0 => USER_POOL'[v][x] > 0
      <3> SUFFICES ASSUME NEW v \in Users, NEW x \in Sids, USER_POOL[v][x] > 0
                   PROVE  USER_POOL'[v][x] > 0
        OBVIOUS
      <3>1. CASE v = u
        BY <2>1, <2>2, <2>3, <3>1 DEF PoolsTypeOK, Listed
      <3>2. CASE v # u
        BY <2>1, <2>2, <3>2 DEF PoolsTypeOK
      <3>3. QED
        BY <3>1, <3>2
    <2>7. USER_POOL'[u][sid] > 0
      BY <2>1, <2>2, <2>3 DEF PoolsTypeOK, Listed
    <2>8. SESSION_POOL'[sid] = u
      BY <2>2 DEF PoolsTypeOK
    <2>9. \A x \in Sids \ {sid} : SESSION_POOL'[x] = SESSION_POOL[x]
      BY <2>2 DEF PoolsTypeOK
    <2>10. SESSION_POOL' \in [Sids -> Users \cup {Nobody}]
      BY <2>1, <2>2 DEF PoolsTypeOK
    <2>11. SessionsListed'
      <3> SUFFICES ASSUME NEW x \in Sids, SESSION_POOL'[x] # Nobody
                   PROVE  USER_POOL'[SESSION_POOL'[x]][x] > 0
        BY DEF SessionsListed
      <3>1. CASE x = sid
        BY <2>7, <2>8, <3>1
      <3>2. CASE x # sid
        <4>1. SESSION_POOL'[x] = SESSION_POOL[x]
          BY <2>9, <3>2
        <4>2. USER_POOL[SESSION_POOL[x]][x] > 0 /\ SESSION_POOL[x] \in Users
          BY <4>1 DEF SessionsListed, PoolsTypeOK
        <4>3. QED
          BY <2>6, <4>1, <4>2
      <3>3. QED
        BY <3>1, <3>2
    <2>12. QED
      BY <2>5, <2>9, <2>10, <2>11
  <1>3. QED
    BY <1>1, <1>2

\* A connection takes only itself out, so no other session is unlisted.
LEMMA DisconnectedPools ==
    ASSUME PoolsTypeOK, SessionsListed, SessionsLive, NEW sid \in Sids, disconnect(sid)
    PROVE  PoolsInv'
  <1> DEFINE u == SESSION_POOL[sid]
  <1>1. connection' \in [Sids -> {"new", "live", "gone"}]
    BY DEF disconnect, PoolsTypeOK
  <1>2. \A x \in Sids \ {sid} : connection'[x] = connection[x]
    BY DEF disconnect, PoolsTypeOK
  <1>3. CASE u = Nobody
    <2>1. UNCHANGED <<SESSION_POOL, USER_POOL>>
      BY <1>3 DEF disconnect
    <2>2. QED
      BY <1>1, <1>2, <1>3, <2>1 DEF PoolsInv, PoolsTypeOK, SessionsListed, SessionsLive
  <1>4. CASE u # Nobody
    <2>1. u \in Users
      BY <1>4 DEF PoolsTypeOK
    <2>2. /\ SESSION_POOL' = [SESSION_POOL EXCEPT ![sid] = Nobody]
          /\ USER_POOL' = [USER_POOL EXCEPT ![u] = Without(sid, @)]
      BY <1>4 DEF disconnect
    <2>3. USER_POOL[u] \in [Sids -> Nat]
      BY <2>1 DEF PoolsTypeOK
    <2>4. Without(sid, USER_POOL[u]) \in [Sids -> Nat]
      BY <2>3 DEF Without
    <2>5. PoolsTypeOK'
      BY <1>1, <2>1, <2>2, <2>4 DEF PoolsTypeOK
    <2>6. /\ SESSION_POOL'[sid] = Nobody
          /\ \A x \in Sids \ {sid} : SESSION_POOL'[x] = SESSION_POOL[x]
      BY <2>2 DEF PoolsTypeOK
    <2>7. \A v \in Users, x \in Sids \ {sid} : USER_POOL'[v][x] = USER_POOL[v][x]
      <3> SUFFICES ASSUME NEW v \in Users, NEW x \in Sids \ {sid}
                   PROVE  USER_POOL'[v][x] = USER_POOL[v][x]
        OBVIOUS
      <3>1. CASE v = u
        BY <2>1, <2>2, <2>3, <3>1 DEF PoolsTypeOK, Without
      <3>2. CASE v # u
        BY <2>1, <2>2, <3>2 DEF PoolsTypeOK
      <3>3. QED
        BY <3>1, <3>2
    <2>8. SessionsListed'
      <3> SUFFICES ASSUME NEW x \in Sids, SESSION_POOL'[x] # Nobody
                   PROVE  USER_POOL'[SESSION_POOL'[x]][x] > 0
        BY DEF SessionsListed
      <3>1. x # sid /\ SESSION_POOL'[x] = SESSION_POOL[x]
        BY <2>6
      <3>2. SESSION_POOL[x] \in Users /\ USER_POOL[SESSION_POOL[x]][x] > 0
        BY <3>1 DEF SessionsListed, PoolsTypeOK
      <3>3. QED
        BY <2>7, <3>1, <3>2
    <2>9. SessionsLive'
      BY <1>2, <2>6 DEF SessionsLive
    <2>10. QED
      BY <2>5, <2>8, <2>9 DEF PoolsInv
  <1>5. QED
    BY <1>3, <1>4

-----------------------------------------------------------------------------
\* No pool has anybody in it at first.
LEMMA PoolInitInv == PoolInit => PoolsInv
  BY PoolAssumption DEF PoolInit, PoolsInv, PoolsTypeOK, SessionsListed, SessionsLive

\* Whatever a client does, the pools keep their invariant.
LEMMA PoolNextInv == PoolsInv /\ [PoolNext]_pools => PoolsInv'
  <1> SUFFICES ASSUME PoolsInv, [PoolNext]_pools
               PROVE  PoolsInv'
    OBVIOUS
  <1> USE DEF PoolsInv
  <1>1. CASE UNCHANGED pools
    BY <1>1 DEF pools, PoolsTypeOK, SessionsListed, SessionsLive
  <1>2. ASSUME NEW sid \in Sids, NEW u \in Users \cup {Nobody}, connect(sid, u)
        PROVE  PoolsInv'
    <2>1. Entered(sid, u) /\ connection' = [connection EXCEPT ![sid] = "live"]
      BY <1>2 DEF connect
    <2>2. connection' \in [Sids -> {"new", "live", "gone"}]
      BY <2>1 DEF PoolsTypeOK
    <2>3. connection'[sid] = "live" /\ \A x \in Sids \ {sid} : connection'[x] = connection[x]
      BY <2>1 DEF PoolsTypeOK
    <2>4. SessionsLive'
      BY <2>1, <2>3, EnteredPools DEF SessionsLive
    <2>5. QED
      BY <2>1, <2>2, <2>4, EnteredPools DEF PoolsTypeOK
  <1>3. ASSUME NEW sid \in Sids, NEW u \in Users \cup {Nobody},
               connection[sid] = "live", user_join(sid, u)
        PROVE  PoolsInv'
    <2>1. Entered(sid, u) /\ connection' = connection
      BY <1>3 DEF user_join
    <2>2. SessionsLive'
      BY <1>3, <2>1, EnteredPools DEF SessionsLive
    <2>3. QED
      BY <2>1, <2>2, EnteredPools DEF PoolsTypeOK
  <1>4. ASSUME NEW sid \in Sids, disconnect(sid)
        PROVE  PoolsInv'
    BY <1>4, DisconnectedPools
  <1>5. QED
    BY <1>1, <1>2, <1>3, <1>4 DEF PoolNext

\* The pools keep their types, a connection's session is listed as one of its
\* user's connections, and only live connections have a session, whatever the
\* users, connections and tokens and in whatever order events come
\* (main.py 267-312, 631-646).
THEOREM PoolsInvariant == PoolSpec => []PoolsInv
  BY PoolInitInv, PoolNextInv, PTL DEF PoolSpec

\* The type invariant alone.
THEOREM PoolsTypes == PoolSpec => []PoolsTypeOK
  <1>1. PoolsInv => PoolsTypeOK
    BY DEF PoolsInv
  <1>2. QED
    BY <1>1, PoolsInvariant, PTL

\* A connection with a user is always listed as one of that user's.
THEOREM AlwaysListed == PoolSpec => []SessionsListed
  <1>1. PoolsInv => SessionsListed
    BY DEF PoolsInv
  <1>2. QED
    BY <1>1, PoolsInvariant, PTL

\* Only live connections ever have a user.
THEOREM AlwaysLive == PoolSpec => []SessionsLive
  <1>1. PoolsInv => SessionsLive
    BY DEF PoolsInv
  <1>2. QED
    BY <1>1, PoolsInvariant, PTL

-----------------------------------------------------------------------------
(* The browser and the pools.                                              *)


Own(t) == {SidOf[t][n] : n \in 1..connections[t]}

\* The disconnect of a connection is not among the events.
NotGone(events, sid) ==
    \A i \in 1..Len(events) : events[i].event = "disconnect" => events[i].sid # sid

Orderly(events, own, live) ==
    \A i \in 1..Len(events) :
        /\ events[i].sid \in own /\ live[events[i].sid] = "live"
        /\ events[i].event = "disconnect" =>
              \A j \in i + 1..Len(events) : events[j].sid # events[i].sid

InboxInv == \A t \in Tabs : Orderly(inbox[t], Own(t), connection)

LinkInv ==
    \A t \in Tabs :
        /\ connections[t] \in 0..MaxConnections[t]
        /\ link[t] = "up" => /\ connections[t] > 0
                             /\ connection[Sid(t)] = "live"
                             /\ NotGone(inbox[t], Sid(t))

CheckInv == \A t \in Tabs : page[t] = "checking" => auth[t] \in Tokens

BrowserInv == TypeOK /\ PoolsInv /\ CheckInv /\ InboxInv /\ LinkInv

-----------------------------------------------------------------------------
(* Sequences of events.                                                    *)

\* The elements of two sequences that are joined.
LEMMA Concatenated ==
    ASSUME NEW S, NEW a \in Seq(S), NEW b \in Seq(S)
    PROVE  /\ a \o b \in Seq(S)
           /\ Len(a \o b) = Len(a) + Len(b)
           /\ \A i \in 1..Len(a) + Len(b) :
                (a \o b)[i] = IF i <= Len(a) THEN a[i] ELSE b[i - Len(a)]
  OBVIOUS

\* Events of one connection that come after all others, its end last, keep them
\* in order when that connection has not ended.
LEMMA MoreEvents ==
    ASSUME NEW events \in Seq(Event), NEW more \in Seq(Event), NEW own, NEW live,
           NEW sid \in own, live[sid] = "live",
           Orderly(events, own, live), NotGone(events, sid),
           \A i \in 1..Len(more) : /\ more[i].sid = sid
                                   /\ more[i].event = "disconnect" => i = Len(more)
    PROVE  /\ Orderly(events \o more, own, live)
           /\ (\A i \in 1..Len(more) : more[i].event # "disconnect")
                 => NotGone(events \o more, sid)
  <1> DEFINE all == events \o more
  <1>1. /\ Len(events) \in Nat /\ Len(more) \in Nat
        /\ Len(all) = Len(events) + Len(more)
        /\ \A i \in 1..Len(events) + Len(more) :
              all[i] = IF i <= Len(events) THEN events[i] ELSE more[i - Len(events)]
    BY Concatenated
  <1> HIDE DEF all
  <1>2. \A i \in 1..Len(all) :
           \/ i \in 1..Len(events) /\ all[i] = events[i]
           \/ i > Len(events) /\ i - Len(events) \in 1..Len(more) /\ all[i] = more[i - Len(events)]
    BY <1>1
  <1>3. ASSUME NEW i \in 1..Len(all)
        PROVE  /\ all[i].sid \in own /\ live[all[i].sid] = "live"
               /\ all[i].event = "disconnect" =>
                     \A j \in i + 1..Len(all) : all[j].sid # all[i].sid
    <2>1. CASE i \in 1..Len(events) /\ all[i] = events[i]
      <3>1. all[i].sid \in own /\ live[all[i].sid] = "live"
        BY <2>1 DEF Orderly
      <3>2. ASSUME all[i].event = "disconnect", NEW j \in i + 1..Len(all)
            PROVE  all[j].sid # all[i].sid
        <4>1. j \in 1..Len(all)
          BY <1>1, <2>1
        <4>2. CASE j \in 1..Len(events) /\ all[j] = events[j]
          BY <1>1, <2>1, <3>2, <4>2 DEF Orderly
        <4>3. CASE j > Len(events) /\ all[j].sid = sid
          BY <2>1, <3>2, <4>3 DEF NotGone
        <4>4. QED
          BY <1>2, <4>1, <4>2, <4>3
      <3>3. QED
        BY <3>1, <3>2
    <2>2. CASE /\ i > Len(events) /\ i - Len(events) \in 1..Len(more)
               /\ all[i] = more[i - Len(events)]
      <3>1. all[i].sid = sid
        BY <2>2
      <3>2. all[i].event = "disconnect" => i = Len(all)
        BY <1>1, <2>2
      <3>3. QED
        BY <1>1, <3>1, <3>2
    <2>3. QED
      BY <1>2, <2>1, <2>2
  <1>4. Orderly(all, own, live)
    BY <1>3 DEF Orderly
  <1>5. ASSUME \A i \in 1..Len(more) : more[i].event # "disconnect"
        PROVE  NotGone(all, sid)
    BY <1>2, <1>5 DEF NotGone
  <1>6. QED
    BY <1>4, <1>5 DEF all

\* What is left when the last events are lost.
LEMMA FewerEvents ==
    ASSUME NEW events \in Seq(Event), NEW own, NEW live, NEW kept \in 0..Len(events),
           Orderly(events, own, live)
    PROVE  /\ SubSeq(events, 1, kept) \in Seq(Event)
           /\ Orderly(SubSeq(events, 1, kept), own, live)
           /\ \A sid : NotGone(events, sid) => NotGone(SubSeq(events, 1, kept), sid)
  <1> DEFINE rest == SubSeq(events, 1, kept)
  <1>1. /\ rest \in Seq(Event) /\ Len(rest) = kept /\ kept <= Len(events)
        /\ \A i \in 1..kept : rest[i] = events[i]
        /\ Len(events) \in Nat
    OBVIOUS
  <1> HIDE DEF rest
  <1>2. Orderly(rest, own, live)
    BY <1>1 DEF Orderly
  <1>3. \A sid : NotGone(events, sid) => NotGone(rest, sid)
    BY <1>1 DEF NotGone
  <1>4. QED
    BY <1>1, <1>2, <1>3 DEF rest

\* What is left when the first event has been handled.
LEMMA NextEvents ==
    ASSUME NEW events \in Seq(Event), NEW own, NEW live, events # <<>>,
           Orderly(events, own, live)
    PROVE  /\ RemoveAt(events, 1) \in Seq(Event)
           /\ Orderly(RemoveAt(events, 1), own, live)
           /\ \A sid : NotGone(events, sid) => NotGone(RemoveAt(events, 1), sid)
           /\ events[1].event = "disconnect" =>
                 \A i \in 1..Len(RemoveAt(events, 1)) :
                    RemoveAt(events, 1)[i].sid # events[1].sid
  <1> DEFINE rest == RemoveAt(events, 1)
             later == SubSeq(events, 2, Len(events))
  <1>1. Len(events) \in Nat /\ Len(events) > 0
    OBVIOUS
  <1>2. /\ later \in Seq(Event) /\ Len(later) = Len(events) - 1
        /\ \A i \in 1..Len(events) - 1 : later[i] = events[i + 1]
    <2>1. later = Tail(events)
      BY TailIsSubSeq
    <2>2. QED
      BY <2>1, HeadTailProperties
  <1>3. /\ rest \in Seq(Event) /\ Len(rest) = Len(events) - 1
        /\ \A i \in 1..Len(rest) : rest[i] = events[i + 1] /\ i + 1 \in 1..Len(events)
    <2>1. SubSeq(events, 1, 0) = <<>>
      OBVIOUS
    <2>2. rest = <<>> \o later
      BY <2>1 DEF RemoveAt
    <2> HIDE DEF later
    <2>3. rest = later
      BY <1>2, <2>2
    <2>4. QED
      BY <1>1, <1>2, <2>3
  <1> HIDE DEF rest
  <1>4. Orderly(rest, own, live)
    <2> SUFFICES ASSUME NEW i \in 1..Len(rest)
                 PROVE  /\ rest[i].sid \in own /\ live[rest[i].sid] = "live"
                        /\ rest[i].event = "disconnect" =>
                              \A j \in i + 1..Len(rest) : rest[j].sid # rest[i].sid
      BY DEF Orderly
    <2>1. rest[i] = events[i + 1] /\ i + 1 \in 1..Len(events)
      BY <1>3
    <2>2. \A j \in i + 1..Len(rest) : /\ rest[j] = events[j + 1]
                                      /\ j + 1 \in (i + 1) + 1..Len(events)
      BY <1>1, <1>3
    <2>3. QED
      BY <2>1, <2>2 DEF Orderly
  <1>5. \A sid : NotGone(events, sid) => NotGone(rest, sid)
    BY <1>3 DEF NotGone
  <1>6. events[1].event = "disconnect" => \A i \in 1..Len(rest) : rest[i].sid # events[1].sid
    <2>1. \A i \in 1..Len(rest) : i + 1 \in 1 + 1..Len(events)
      BY <1>1, <1>3
    <2>2. QED
      BY <1>1, <1>3, <2>1 DEF Orderly
  <1>7. QED
    BY <1>3, <1>4, <1>5, <1>6 DEF rest

-----------------------------------------------------------------------------
(* What the parts of the steps do to the sockets.                          *)

\* What each step leaves of the queues: QueuesOK is InboxInv and LinkInv.
QueuesOK == InboxInv /\ LinkInv /\ inbox \in [Tabs -> Seq(Event)]

\* The connection a tab has is one of its own.
LEMMA SidTypes ==
    ASSUME TypeOK, LinkInv, NEW t \in Tabs, connections[t] > 0
    PROVE  Sid(t) \in Sids /\ Sid(t) \in Own(t)
  <1>1. connections[t] \in 1..Len(SidOf[t]) /\ SidOf[t] \in Seq(Sids)
    BY BrowserAssumption DEF LinkInv
  <1>2. QED
    BY <1>1 DEF Sid, Own

\* A step of one tab that touches no connection, and adds to what is under way
\* only events of the tab's own, live connection.
LEMMA OneTab ==
    ASSUME BrowserInv, NEW t \in Tabs, UNCHANGED <<connection, connections>>,
           inbox' \in [Tabs -> Seq(Event)],
           \A u \in Tabs \ {t} : inbox'[u] = inbox[u] /\ link'[u] = link[u],
           Orderly(inbox'[t], Own(t), connection),
           link'[t] = "up" => link[t] = "up" /\ NotGone(inbox'[t], Sid(t))
    PROVE  QueuesOK'
  <1>1. \A u \in Tabs : Own(u)' = Own(u) /\ Sid(u)' = Sid(u)
    BY DEF Own, Sid
  <1>2. InboxInv'
    BY <1>1 DEF InboxInv, BrowserInv
  <1>3. LinkInv'
    BY <1>1 DEF LinkInv, BrowserInv
  <1>4. QED
    BY <1>2, <1>3 DEF QueuesOK

\* A step of the page alone leaves what is under way as it is.
LEMMA QueuesKept ==
    ASSUME BrowserInv, UNCHANGED <<connection, connections, inbox, link>>
    PROVE  QueuesOK'
  <1>1. \A u \in Tabs : Own(u)' = Own(u) /\ Sid(u)' = Sid(u)
    BY DEF Own, Sid
  <1>2. QED
    BY <1>1 DEF QueuesOK, InboxInv, LinkInv, BrowserInv, TypeOK

\* The end of a tab's connection comes after its other events.
LEMMA GoneQueued ==
    ASSUME BrowserInv, NEW t \in Tabs, link[t] = "up",
           NEW events \in Seq(Event), Orderly(events, Own(t), connection),
           NotGone(events, Sid(t))
    PROVE  /\ events \o <<Gone(t)>> \in Seq(Event)
           /\ Orderly(events \o <<Gone(t)>>, Own(t), connection)
  <1>1. Sid(t) \in Sids /\ Sid(t) \in Own(t) /\ connection[Sid(t)] = "live"
    BY SidTypes DEF BrowserInv, LinkInv
  <1>2. Gone(t) \in Event /\ Gone(t).sid = Sid(t)
    BY <1>1 DEF Gone, Event
  <1>3. <<Gone(t)>> \in Seq(Event) /\ Len(<<Gone(t)>>) = 1 /\ <<Gone(t)>>[1] = Gone(t)
    BY <1>2
  <1>4. \A i \in 1..Len(<<Gone(t)>>) :
           /\ <<Gone(t)>>[i].sid = Sid(t)
           /\ <<Gone(t)>>[i].event = "disconnect" => i = Len(<<Gone(t)>>)
    BY <1>2, <1>3
  <1>5. Orderly(events \o <<Gone(t)>>, Own(t), connection)
    BY <1>1, <1>3, <1>4, MoreEvents
  <1>6. QED
    BY <1>3, <1>5, Concatenated

\* A socket that closes sends its disconnect last, and its tab has no connection
\* any more.
LEMMA ClosesQueues ==
    ASSUME BrowserInv, NEW t \in Tabs, SocketCloses(t), UNCHANGED pools
    PROVE  QueuesOK'
  <1>1. /\ link' = [link EXCEPT ![t] = "none"] /\ UNCHANGED <<connection, connections>>
        /\ inbox' = IF link[t] = "up" THEN [inbox EXCEPT ![t] = Append(@, Gone(t))] ELSE inbox
    BY DEF SocketCloses, pools
  <1>2. inbox \in [Tabs -> Seq(Event)] /\ link \in [Tabs -> {"none", "connecting", "up"}]
    BY DEF BrowserInv, TypeOK
  <1>3. Orderly(inbox[t], Own(t), connection)
    BY DEF BrowserInv, InboxInv
  <1>4. \A u \in Tabs \ {t} : inbox'[u] = inbox[u] /\ link'[u] = link[u]
    BY <1>1, <1>2
  <1>5. link'[t] = "none"
    BY <1>1, <1>2
  <1>6. CASE link[t] = "up"
    <2>1. NotGone(inbox[t], Sid(t)) /\ inbox[t] \in Seq(Event)
      BY <1>2, <1>6 DEF BrowserInv, LinkInv
    <2>2. Sid(t) \in Sids
      BY <1>6, SidTypes DEF BrowserInv, LinkInv
    <2>3. Gone(t) \in Event
      BY <2>2 DEF Gone, Event
    <2>4. Append(inbox[t], Gone(t)) = inbox[t] \o <<Gone(t)>>
      BY <2>1, <2>3
    <2>5. /\ Append(inbox[t], Gone(t)) \in Seq(Event)
          /\ Orderly(Append(inbox[t], Gone(t)), Own(t), connection)
      BY <1>3, <1>6, <2>1, <2>4, GoneQueued
    <2>6. inbox' \in [Tabs -> Seq(Event)] /\ inbox'[t] = Append(inbox[t], Gone(t))
      BY <1>1, <1>2, <1>6, <2>5
    <2>7. QED
      BY <1>1, <1>4, <1>5, <2>5, <2>6, OneTab
  <1>7. CASE link[t] # "up"
    BY <1>1, <1>2, <1>3, <1>4, <1>5, <1>7, OneTab
  <1>8. QED
    BY <1>6, <1>7

\* A join that is sent is of the live connection its tab has; otherwise it waits.
LEMMA EmitsQueues ==
    ASSUME BrowserInv, NEW t \in Tabs, NEW k \in Tokens, Emits(t, k),
           UNCHANGED <<pools, link, connections>>
    PROVE  QueuesOK' /\ buffer' \in [Tabs -> Seq(Tokens)]
  <1>1. /\ inbox \in [Tabs -> Seq(Event)] /\ buffer \in [Tabs -> Seq(Tokens)]
        /\ UNCHANGED connection
    BY DEF BrowserInv, TypeOK, pools
  <1>2. CASE link[t] = "up"
    <2>1. inbox' = [inbox EXCEPT ![t] = Append(@, Join(t, k))] /\ UNCHANGED buffer
      BY <1>2 DEF Emits
    <2>2. /\ NotGone(inbox[t], Sid(t)) /\ inbox[t] \in Seq(Event) /\ connection[Sid(t)] = "live"
          /\ Orderly(inbox[t], Own(t), connection)
      BY <1>1, <1>2 DEF BrowserInv, LinkInv, InboxInv
    <2>3. Sid(t) \in Sids /\ Sid(t) \in Own(t)
      BY <1>2, SidTypes DEF BrowserInv, LinkInv
    <2> DEFINE e == Join(t, k)
    <2>4. e \in Event /\ e.sid = Sid(t) /\ e.event = "join"
      BY <2>3 DEF Join, Event
    <2> HIDE DEF e
    <2>5. /\ <<e>> \in Seq(Event) /\ Append(inbox[t], e) = inbox[t] \o <<e>>
          /\ Append(inbox[t], e) \in Seq(Event)
          /\ \A i \in 1..Len(<<e>>) : <<e>>[i] = e
      BY <2>2, <2>4
    <2>6. Orderly(Append(inbox[t], e), Own(t), connection) /\ NotGone(Append(inbox[t], e), Sid(t))
      BY <2>2, <2>3, <2>4, <2>5, MoreEvents
    <2>7. /\ inbox' \in [Tabs -> Seq(Event)] /\ inbox'[t] = Append(inbox[t], e)
          /\ \A u \in Tabs \ {t} : inbox'[u] = inbox[u]
      BY <1>1, <2>1, <2>5 DEF e
    <2>8. QED
      BY <1>1, <1>2, <2>1, <2>6, <2>7, OneTab
  <1>3. CASE link[t] # "up"
    <2>1. buffer' = [buffer EXCEPT ![t] = Append(@, k)] /\ UNCHANGED inbox
      BY <1>3 DEF Emits
    <2>2. QED
      BY <1>1, <2>1, QueuesKept
  <1>4. QED
    BY <1>2, <1>3

\* A connection that breaks loses what was under way, and its disconnect follows.
LEMMA BreaksQueues ==
    ASSUME BrowserInv, NEW t \in Tabs, Breaks(t)
    PROVE  QueuesOK'
  <1>1. /\ link[t] = "up" /\ link' = [link EXCEPT ![t] = "connecting"]
        /\ UNCHANGED <<connection, connections>>
    BY DEF Breaks, pools
  <1>2. PICK kept \in 0..Len(inbox[t]) :
           inbox' = [inbox EXCEPT ![t] = SubSeq(@, 1, kept) \o <<Gone(t)>>]
    BY DEF Breaks
  <1>3. /\ inbox \in [Tabs -> Seq(Event)] /\ link \in [Tabs -> {"none", "connecting", "up"}]
        /\ inbox[t] \in Seq(Event)
        /\ Orderly(inbox[t], Own(t), connection) /\ NotGone(inbox[t], Sid(t))
    BY <1>1 DEF BrowserInv, TypeOK, InboxInv, LinkInv
  <1> DEFINE events == SubSeq(inbox[t], 1, kept)
  <1>4. /\ events \in Seq(Event) /\ Orderly(events, Own(t), connection)
        /\ NotGone(events, Sid(t))
    BY <1>3, FewerEvents
  <1> HIDE DEF events
  <1>5. /\ events \o <<Gone(t)>> \in Seq(Event)
        /\ Orderly(events \o <<Gone(t)>>, Own(t), connection)
    BY <1>1, <1>4, GoneQueued
  <1>6. inbox' = [inbox EXCEPT ![t] = events \o <<Gone(t)>>]
    BY <1>2 DEF events
  <1>7. /\ inbox' \in [Tabs -> Seq(Event)] /\ inbox'[t] = events \o <<Gone(t)>>
        /\ \A u \in Tabs \ {t} : inbox'[u] = inbox[u] /\ link'[u] = link[u]
        /\ link'[t] = "connecting"
    BY <1>1, <1>3, <1>5, <1>6
  <1>8. QED
    BY <1>1, <1>5, <1>7, OneTab

\* A new connection is none of those whose events are under way.
LEMMA ConnectsQueues ==
    ASSUME BrowserInv, NEW t \in Tabs, Connects(t)
    PROVE  /\ QueuesOK' /\ connections' \in [Tabs -> Nat]
           /\ \E sid \in Sids, u \in Users \cup {Nobody} : connect(sid, u)
  <1> DEFINE sid == SidOf[t][connections'[t]]
             joins == [i \in 1..Len(buffer[t]) |->
                          [event |-> "join", sid |-> sid, token |-> buffer[t][i]]]
  <1>1. /\ connections' = [connections EXCEPT ![t] = @ + 1]
        /\ connections[t] < MaxConnections[t]
        /\ link' = [link EXCEPT ![t] = "up"]
        /\ connect(sid, DecodedUser(auth[t]))
        /\ inbox' = [inbox EXCEPT ![t] = @ \o joins]
    BY DEF Connects
  <1>2. /\ inbox \in [Tabs -> Seq(Event)] /\ link \in [Tabs -> {"none", "connecting", "up"}]
        /\ connections \in [Tabs -> Nat] /\ buffer[t] \in Seq(Tokens)
        /\ connection \in [Sids -> {"new", "live", "gone"}] /\ auth[t] \in Tokens \cup {NoToken}
        /\ \A u \in Tabs : connections[u] \in 0..MaxConnections[u]
    BY DEF BrowserInv, TypeOK, PoolsTypeOK, LinkInv
  <1>3. /\ connections' \in [Tabs -> Nat] /\ connections'[t] = connections[t] + 1
        /\ \A u \in Tabs \ {t} : connections'[u] = connections[u]
        /\ \A u \in Tabs : connections'[u] \in 0..MaxConnections[u]
    BY <1>1, <1>2, BrowserAssumption
  <1>4. connections'[t] \in 1..Len(SidOf[t]) /\ SidOf[t] \in Seq(Sids)
    BY <1>1, <1>2, <1>3, BrowserAssumption
  <1>5. sid \in Sids /\ sid \in Own(t)'
    BY <1>3, <1>4 DEF Own
  <1>6. DecodedUser(auth[t]) \in Users \cup {Nobody}
    BY <1>2, BrowserAssumption DEF DecodedUser
  <1>7. Sid(t)' = sid /\ \A u \in Tabs \ {t} : Sid(u)' = Sid(u) /\ Own(u)' = Own(u)
    BY <1>3 DEF Sid, Own
  <1> HIDE DEF sid
  <1>8. /\ connection[sid] = "new" /\ connection'[sid] = "live"
        /\ \A x \in Sids : connection[x] = "live" => connection'[x] = "live"
    BY <1>1, <1>2, <1>5 DEF connect
  <1>9. Own(t) \subseteq Own(t)'
    <2>1. \A n \in 1..connections[t] : n \in 1..connections'[t]
      BY <1>2, <1>3
    <2>2. QED
      BY <2>1 DEF Own
  <1>10. ASSUME NEW u \in Tabs
         PROVE  Orderly(inbox[u], Own(u)', connection')
    <2>1. Orderly(inbox[u], Own(u), connection) /\ inbox[u] \in Seq(Event)
      BY <1>2 DEF BrowserInv, InboxInv
    <2>2. \A i \in 1..Len(inbox[u]) : inbox[u][i].sid \in Sids
      <3>1. \A i \in 1..Len(inbox[u]) : inbox[u][i] \in Event
        BY <2>1
      <3>2. QED
        BY <3>1 DEF Event
    <2>3. Own(u) \subseteq Own(u)'
      BY <1>7, <1>9
    <2>4. QED
      BY <1>8, <2>1, <2>2, <2>3 DEF Orderly
  <1>11. NotGone(inbox[t], sid)
    BY <1>8 DEF NotGone, BrowserInv, InboxInv, Orderly
  <1>12. /\ joins \in Seq(Event) /\ Len(joins) = Len(buffer[t])
         /\ \A i \in 1..Len(joins) : joins[i].sid = sid /\ joins[i].event = "join"
    <2>1. \A i \in 1..Len(buffer[t]) :
             [event |-> "join", sid |-> sid, token |-> buffer[t][i]] \in Event
      BY <1>2, <1>5 DEF Event
    <2>2. Len(buffer[t]) \in Nat
      BY <1>2
    <2>3. QED
      BY <2>1, <2>2
  <1> HIDE DEF joins
  <1>13. inbox[t] \o joins \in Seq(Event)
    BY <1>2, <1>12, Concatenated
  <1>14. Orderly(inbox[t] \o joins, Own(t)', connection') /\ NotGone(inbox[t] \o joins, sid)
    <2>1. inbox[t] \in Seq(Event) /\ Orderly(inbox[t], Own(t)', connection')
      BY <1>2, <1>10
    <2>2. \A i \in 1..Len(joins) : /\ joins[i].sid = sid
                                   /\ joins[i].event = "disconnect" => i = Len(joins)
      BY <1>12
    <2>3. \A i \in 1..Len(joins) : joins[i].event # "disconnect"
      BY <1>12
    <2> DEFINE own == Own(t)'
               live == connection'
    <2>4. sid \in own /\ live[sid] = "live" /\ Orderly(inbox[t], own, live)
      BY <1>5, <1>8, <2>1
    <2> HIDE DEF own, live
    <2>5. Orderly(inbox[t] \o joins, own, live) /\ NotGone(inbox[t] \o joins, sid)
      BY <1>11, <1>12, <2>1, <2>2, <2>3, <2>4, MoreEvents
    <2>6. QED
      BY <2>5 DEF own, live
  <1>15. /\ inbox' \in [Tabs -> Seq(Event)] /\ inbox'[t] = inbox[t] \o joins
         /\ \A u \in Tabs \ {t} : inbox'[u] = inbox[u] /\ link'[u] = link[u]
    BY <1>1, <1>2, <1>13
  <1>16. InboxInv'
    <2> SUFFICES ASSUME NEW u \in Tabs PROVE Orderly(inbox'[u], Own(u)', connection')
      BY DEF InboxInv
    <2>1. QED
      BY <1>10, <1>14, <1>15
  <1>17. LinkInv'
    <2> SUFFICES ASSUME NEW u \in Tabs, link'[u] = "up"
                 PROVE  /\ connections'[u] > 0 /\ connection'[Sid(u)'] = "live"
                        /\ NotGone(inbox'[u], Sid(u)')
      BY <1>3 DEF LinkInv
    <2>1. CASE u = t
      <3>1. connections'[t] > 0
        BY <1>2, <1>3
      <3>2. Sid(t)' = sid /\ inbox'[t] = inbox[t] \o joins
        BY <1>7, <1>15
      <3>3. connection'[Sid(t)'] = "live" /\ NotGone(inbox'[t], Sid(t)')
        BY <1>8, <1>14, <3>2
      <3>4. QED
        BY <2>1, <3>1, <3>3
    <2>2. CASE u # t
      <3>1. /\ connections[u] > 0 /\ connection[Sid(u)] = "live" /\ NotGone(inbox[u], Sid(u))
        BY <1>15, <2>2 DEF BrowserInv, LinkInv
      <3>2. Sid(u) \in Sids
        BY <3>1, SidTypes DEF BrowserInv
      <3>3. /\ connections'[u] = connections[u] /\ Sid(u)' = Sid(u) /\ inbox'[u] = inbox[u]
            /\ connection'[Sid(u)] = "live"
        BY <1>3, <1>7, <1>8, <1>15, <2>2, <3>1, <3>2
      <3>4. QED
        BY <3>1, <3>3
    <2>3. QED
      BY <2>1, <2>2
  <1>18. QED
    BY <1>1, <1>3, <1>5, <1>6, <1>15, <1>16, <1>17 DEF QueuesOK

\* Tabs have no connection in common.
LEMMA OwnsDiffer ==
    ASSUME TypeOK, LinkInv, NEW t \in Tabs, NEW u \in Tabs, u # t
    PROVE  \A sid \in Own(t) : sid \notin Own(u)
  <1>1. \A x \in Tabs : 1..connections[x] \subseteq 1..Len(SidOf[x])
    <2> SUFFICES ASSUME NEW x \in Tabs PROVE 1..connections[x] \subseteq 1..Len(SidOf[x])
      OBVIOUS
    <2>1. connections[x] \in 0..MaxConnections[x] /\ Len(SidOf[x]) = MaxConnections[x]
          /\ MaxConnections[x] \in Nat
      BY BrowserAssumption DEF LinkInv
    <2>2. QED
      BY <2>1
  <1>2. SUFFICES ASSUME NEW m \in 1..connections[t], NEW n \in 1..connections[u],
                        SidOf[t][m] = SidOf[u][n]
                 PROVE  FALSE
    BY DEF Own
  <1>3. m \in 1..Len(SidOf[t]) /\ n \in 1..Len(SidOf[u])
    BY <1>1
  <1>4. t = u
    BY <1>2, <1>3, BrowserAssumption
  <1>5. QED
    BY <1>4

\* The first event is of a live connection, and it is that connection's last
\* when it ends it.
LEMMA HandlesQueues ==
    ASSUME BrowserInv, NEW t \in Tabs, Handles(t)
    PROVE  QueuesOK' /\ PoolNext
  <1> DEFINE e == inbox[t][1]
             rest == RemoveAt(inbox[t], 1)
  <1>1. /\ inbox[t] # <<>> /\ inbox' = [inbox EXCEPT ![t] = rest]
        /\ \/ e.event = "join" /\ user_join(e.sid, DecodedUser(e.token))
           \/ e.event = "disconnect" /\ disconnect(e.sid)
        /\ UNCHANGED link /\ UNCHANGED connections
    BY DEF Handles, Serves
  <1>2. /\ inbox \in [Tabs -> Seq(Event)] /\ inbox[t] \in Seq(Event)
        /\ Orderly(inbox[t], Own(t), connection)
        /\ connection \in [Sids -> {"new", "live", "gone"}]
    BY DEF BrowserInv, TypeOK, PoolsTypeOK, InboxInv
  <1>3. 1 \in 1..Len(inbox[t])
    BY <1>1, <1>2
  <1>4. e \in Event
    BY <1>2, <1>3
  <1>5. e.sid \in Own(t) /\ connection[e.sid] = "live"
    BY <1>2, <1>3 DEF Orderly
  <1>6. e.sid \in Sids /\ e.token \in Tokens \cup {NoToken}
    BY <1>4 DEF Event
  <1>7. DecodedUser(e.token) \in Users \cup {Nobody}
    BY <1>6, BrowserAssumption DEF DecodedUser
  <1>8. PoolNext
    BY <1>1, <1>5, <1>6, <1>7 DEF PoolNext
  <1>9. /\ rest \in Seq(Event) /\ Orderly(rest, Own(t), connection)
        /\ \A sid : NotGone(inbox[t], sid) => NotGone(rest, sid)
        /\ e.event = "disconnect" => \A i \in 1..Len(rest) : rest[i].sid # e.sid
    BY <1>1, <1>2, NextEvents
  <1> HIDE DEF rest, e
  <1>10. /\ inbox' \in [Tabs -> Seq(Event)] /\ inbox'[t] = rest
         /\ \A u \in Tabs \ {t} : inbox'[u] = inbox[u]
    BY <1>1, <1>2, <1>9
  <1>11. \A u \in Tabs : Own(u)' = Own(u) /\ Sid(u)' = Sid(u)
    BY <1>1 DEF Own, Sid
  <1>12. \A u \in Tabs : link[u] = "up" => NotGone(inbox[u], Sid(u))
    BY DEF BrowserInv, LinkInv
  <1>13. CASE e.event = "join" /\ user_join(e.sid, DecodedUser(e.token))
    <2>1. UNCHANGED connection
      BY <1>13 DEF user_join
    <2>2. QED
      BY <1>1, <1>8, <1>9, <1>10, <1>12, <2>1, OneTab
  <1>14. CASE e.event = "disconnect" /\ disconnect(e.sid)
    <2>1. \A x \in Sids : x # e.sid => connection'[x] = connection[x]
      BY <1>2, <1>14 DEF disconnect
    <2>2. ASSUME NEW u \in Tabs
          PROVE  Orderly(inbox'[u], Own(u), connection')
      <3>1. Orderly(inbox'[u], Own(u), connection) /\ inbox'[u] \in Seq(Event)
        BY <1>9, <1>10 DEF BrowserInv, InboxInv
      <3>2. \A i \in 1..Len(inbox'[u]) : inbox'[u][i].sid \in Sids
        <4>1. \A i \in 1..Len(inbox'[u]) : inbox'[u][i] \in Event
          BY <3>1
        <4>2. QED
          BY <4>1 DEF Event
      <3>3. \A i \in 1..Len(inbox'[u]) : inbox'[u][i].sid # e.sid
        <4>1. CASE u = t
          BY <1>9, <1>10, <1>14, <4>1
        <4>2. CASE u # t
          BY <1>5, <3>1, <4>2, OwnsDiffer DEF BrowserInv, Orderly
        <4>3. QED
          BY <4>1, <4>2
      <3>4. QED
        BY <2>1, <3>1, <3>2, <3>3 DEF Orderly
    <2>3. InboxInv'
      BY <1>11, <2>2 DEF InboxInv
    <2>4. ASSUME NEW u \in Tabs, link[u] = "up"
          PROVE  connection'[Sid(u)] = "live" /\ NotGone(inbox'[u], Sid(u))
      <3>1. connection[Sid(u)] = "live" /\ connections[u] > 0 /\ NotGone(inbox[u], Sid(u))
        BY <2>4 DEF BrowserInv, LinkInv
      <3>2. Sid(u) \in Sids /\ Sid(u) \in Own(u)
        BY <3>1, SidTypes DEF BrowserInv
      <3>3. Sid(u) # e.sid
        <4>1. CASE u = t
          BY <1>3, <1>14, <3>1, <4>1 DEF NotGone, e
        <4>2. CASE u # t
          BY <1>5, <3>2, <4>2, OwnsDiffer DEF BrowserInv
        <4>3. QED
          BY <4>1, <4>2
      <3>4. NotGone(inbox'[u], Sid(u))
        BY <1>9, <1>10, <3>1
      <3>5. QED
        BY <2>1, <3>1, <3>2, <3>3, <3>4
    <2>5. LinkInv'
      <3>1. \A u \in Tabs : /\ connections[u] \in 0..MaxConnections[u]
                            /\ link[u] = "up" => connections[u] > 0
        BY DEF BrowserInv, LinkInv
      <3>2. QED
        BY <1>1, <1>11, <2>4, <3>1 DEF LinkInv
    <2>6. QED
      BY <1>8, <1>10, <2>3, <2>5 DEF QueuesOK
  <1>15. QED
    BY <1>1, <1>13, <1>14 DEF e

-----------------------------------------------------------------------------
(* The types of the tabs, and what a check that runs has for a token.      *)

TabsOK ==
    /\ CheckInv
    /\ token \in Tokens \cup {NoToken}
    /\ page \in [Tabs -> {"closed", "starting", "checking", "mounting", "shown", "error"}]
    /\ route \in [Tabs -> {"app", "auth"}]
    /\ user \in [Tabs -> Users \cup {Undefined, Nobody}]
    /\ signins \in [Tabs -> Nat]
    /\ auth \in [Tabs -> Tokens \cup {NoToken}]
    /\ link \in [Tabs -> {"none", "connecting", "up"}]
    /\ greeting \in [Tabs -> Nat]
    /\ failed \in [Tabs -> BOOLEAN]
    /\ buffer \in [Tabs -> Seq(Tokens)]
    /\ connections \in [Tabs -> Nat]

\* The invariant is that of the tabs, that of what is under way and that of the
\* pools.
LEMMA TabsAndQueues ==
    /\ BrowserInv => TabsOK
    /\ TabsOK /\ QueuesOK /\ PoolsInv => BrowserInv
  BY DEF BrowserInv, TypeOK, TabsOK, QueuesOK, PoolsInv

\* A tab that goes to another page is not in the middle of a check there.
LEMMA GoesTabs ==
    ASSUME TabsOK, NEW t \in Tabs, NEW where \in {"closed", "starting", "mounting", "shown", "error"},
           NEW path \in {"app", "auth"}, Goes(t, where, path),
           \A u \in Tabs \ {t} : auth'[u] = auth[u]
    PROVE  /\ page' \in [Tabs -> {"closed", "starting", "checking", "mounting", "shown", "error"}]
           /\ route' \in [Tabs -> {"app", "auth"}]
           /\ CheckInv'
  <1>1. /\ page' = [page EXCEPT ![t] = where] /\ route' = [route EXCEPT ![t] = path]
    BY DEF Goes
  <1>2. page'[t] = where /\ \A u \in Tabs \ {t} : page'[u] = page[u]
    BY <1>1 DEF TabsOK
  <1>3. CheckInv'
    BY <1>2 DEF CheckInv, TabsOK
  <1>4. QED
    BY <1>1, <1>3 DEF TabsOK

\* A socket that closes changes its own tab only.
LEMMA ClosesTabs ==
    ASSUME TabsOK, NEW t \in Tabs, SocketCloses(t)
    PROVE  /\ link' \in [Tabs -> {"none", "connecting", "up"}]
           /\ greeting' \in [Tabs -> Nat]
           /\ failed' \in [Tabs -> BOOLEAN]
           /\ signins' \in [Tabs -> Nat]
           /\ buffer' \in [Tabs -> Seq(Tokens)]
           /\ auth' \in [Tabs -> Tokens \cup {NoToken}]
           /\ connections' \in [Tabs -> Nat]
           /\ \A u \in Tabs \ {t} : auth'[u] = auth[u]
  <1>1. <<>> \in Seq(Tokens)
    OBVIOUS
  <1>2. buffer' \in [Tabs -> Seq(Tokens)]
    BY <1>1 DEF TabsOK, SocketCloses
  <1>3. failed' \in [Tabs -> BOOLEAN]
    BY Zenon DEF TabsOK, SocketCloses
  <1>4. greeting' \in [Tabs -> Nat] /\ signins' \in [Tabs -> Nat]
    BY DEF TabsOK, SocketCloses
  <1>5. QED
    BY <1>2, <1>3, <1>4 DEF TabsOK, SocketCloses

\* A page that loads leaves its check, and keeps the types.
LEMMA LoadsTabs ==
    ASSUME TabsOK, NEW t \in Tabs, NEW path \in {"app", "auth"}, Loads(t, path),
           token' \in Tokens \cup {NoToken}
    PROVE  TabsOK'
  <1>1. /\ Goes(t, "starting", path) /\ SocketCloses(t)
        /\ user' = [user EXCEPT ![t] = Undefined]
    BY DEF Loads
  <1>2. user' \in [Tabs -> Users \cup {Undefined, Nobody}]
    BY <1>1 DEF TabsOK
  <1>3. /\ link' \in [Tabs -> {"none", "connecting", "up"}]
        /\ greeting' \in [Tabs -> Nat] /\ signins' \in [Tabs -> Nat]
        /\ buffer' \in [Tabs -> Seq(Tokens)] /\ connections' \in [Tabs -> Nat]
        /\ auth' \in [Tabs -> Tokens \cup {NoToken}]
        /\ \A u \in Tabs \ {t} : auth'[u] = auth[u]
    BY <1>1, ClosesTabs
  <1>4. failed' \in [Tabs -> BOOLEAN]
    BY <1>1, ClosesTabs
  <1>5. /\ page' \in [Tabs -> {"closed", "starting", "checking", "mounting", "shown", "error"}]
        /\ route' \in [Tabs -> {"app", "auth"}]
        /\ CheckInv'
    BY <1>1, <1>3, GoesTabs
  <1>6. QED
    BY <1>2, <1>3, <1>4, <1>5 DEF TabsOK

\* A step of a loaded page that touches neither its socket nor the store.
LEMMA MountsTabs ==
    ASSUME TabsOK, NEW t \in Tabs, Mounts(t)
    PROVE  TabsOK'
  <1>1. /\ UNCHANGED <<token, user, socket_vars>>
        /\ \E where \in {"mounting", "shown"}, path \in {"app", "auth"} : Goes(t, where, path)
    BY DEF Mounts, AuthPage, AppGuard
  <1>2. UNCHANGED <<auth, link, connections, greeting, failed, buffer>>
    BY <1>1 DEF socket_vars
  <1>3. signins' \in [Tabs -> Nat]
    <2>1. UNCHANGED signins \/ signins' = [signins EXCEPT ![t] = MaxSignIns[t]]
      BY DEF Mounts, AuthPage, AppGuard
    <2>2. signins \in [Tabs -> Nat] /\ MaxSignIns[t] \in Nat
      BY BrowserAssumption DEF TabsOK
    <2>3. QED
      BY <2>1, <2>2
  <1>4. QED
    BY <1>1, <1>2, <1>3, GoesTabs DEF TabsOK

\* A tab that is checked has a token: setupSocket goes to check with a stored one
\* only.
LEMMA SetsUpTabs ==
    ASSUME TabsOK, NEW t \in Tabs, setupSocket(t)
    PROVE  TabsOK'
  <1>1. /\ auth' = [auth EXCEPT ![t] = token]
        /\ link' = [link EXCEPT ![t] = "connecting"]
        /\ UNCHANGED <<token, user, signins, connections, greeting, failed, buffer>>
        /\ IF token # NoToken THEN Goes(t, "checking", route[t]) ELSE Goes(t, "mounting", "auth")
    BY DEF setupSocket
  <1>2. /\ auth' \in [Tabs -> Tokens \cup {NoToken}] /\ auth'[t] = token
        /\ link' \in [Tabs -> {"none", "connecting", "up"}]
        /\ \A u \in Tabs \ {t} : auth'[u] = auth[u]
    BY <1>1 DEF TabsOK
  <1>3. CASE token = NoToken
    BY <1>1, <1>2, <1>3, GoesTabs DEF TabsOK
  <1>4. CASE token # NoToken
    <2>1. /\ page' = [page EXCEPT ![t] = "checking"]
          /\ route' = [route EXCEPT ![t] = route[t]]
      BY <1>1, <1>4 DEF Goes
    <2>2. /\ page' \in [Tabs -> {"closed", "starting", "checking", "mounting", "shown", "error"}]
          /\ route' \in [Tabs -> {"app", "auth"}]
          /\ \A u \in Tabs \ {t} : page'[u] = page[u]
      BY <2>1 DEF TabsOK
    <2>3. CheckInv'
      BY <1>2, <1>4, <2>2 DEF CheckInv, TabsOK
    <2>4. QED
      BY <1>1, <1>2, <2>2, <2>3 DEF TabsOK
  <1>5. QED
    BY <1>3, <1>4

\* A check has a token to check, so its account is that token's owner.
LEMMA ChecksTabs ==
    ASSUME TabsOK, NEW t \in Tabs, getSessionUser(t)
    PROVE  TabsOK'
  <1>1. /\ page[t] = "checking"
        /\ UNCHANGED <<signins, auth, link, connections, greeting, failed, buffer>>
    BY DEF getSessionUser, socket_vars
  <1>2. OwnerOf[auth[t]] \in Users
    BY <1>1, BrowserAssumption DEF TabsOK, CheckInv
  <1>3. user' \in [Tabs -> Users \cup {Undefined, Nobody}]
    BY <1>2 DEF getSessionUser, TabsOK
  <1>4. token' \in Tokens \cup {NoToken}
    BY DEF getSessionUser, TabsOK
  <1>5. \E where \in {"mounting", "error"}, path \in {"app", "auth"} : Goes(t, where, path)
    BY DEF getSessionUser, TabsOK
  <1>6. QED
    BY <1>1, <1>3, <1>4, <1>5, GoesTabs DEF TabsOK

\* A sign-in checks nothing, and stores a token.
LEMMA SignsInTabs ==
    ASSUME TabsOK, NEW t \in Tabs, NEW k \in Tokens, setSessionUser(t, k),
           buffer' \in [Tabs -> Seq(Tokens)]
    PROVE  TabsOK'
  <1>1. /\ token' = k /\ user' = [user EXCEPT ![t] = OwnerOf[k]]
        /\ signins[t] > 0 /\ signins' = [signins EXCEPT ![t] = @ - 1]
        /\ Goes(t, "mounting", "app") \/ UNCHANGED <<page, route>>
        /\ UNCHANGED <<auth, link, connections, greeting, failed>>
    BY DEF setSessionUser
  <1>2. OwnerOf[k] \in Users
    BY BrowserAssumption
  <1>3. user' \in [Tabs -> Users \cup {Undefined, Nobody}]
    BY <1>1, <1>2 DEF TabsOK
  <1>4. signins' \in [Tabs -> Nat]
    BY <1>1 DEF TabsOK
  <1>5. CASE Goes(t, "mounting", "app")
    BY <1>1, <1>3, <1>4, <1>5, GoesTabs DEF TabsOK
  <1>6. CASE UNCHANGED <<page, route>>
    BY <1>1, <1>3, <1>4, <1>6 DEF TabsOK, CheckInv
  <1>7. QED
    BY <1>1, <1>5, <1>6

\* A tab that opens, expires or is reloaded is as one that loads.
LEMMA OpensTabs ==
    ASSUME TabsOK, NEW t \in Tabs,
           \/ Opens(t) \/ checkTokenExpiry(t) \/ VersionChanged(t)
    PROVE  TabsOK'
  <1>1. token' \in Tokens \cup {NoToken}
    BY DEF Opens, checkTokenExpiry, VersionChanged, TabsOK
  <1>2. \E path \in {"app", "auth"} : Loads(t, path)
    BY DEF Opens, checkTokenExpiry, SignedOut, VersionChanged, TabsOK
  <1>3. QED
    BY <1>1, <1>2, LoadsTabs

\* A tab that closes, or finds no backend, leaves its check.
LEMMA LeavesTabs ==
    ASSUME TabsOK, NEW t \in Tabs, Closes(t) \/ BackendMissing(t)
    PROVE  TabsOK'
  <1>1. CASE Closes(t)
    <2>1. /\ Goes(t, "closed", "app") /\ SocketCloses(t) /\ UNCHANGED token
          /\ user' = [user EXCEPT ![t] = Undefined]
      BY <1>1 DEF Closes
    <2>2. user' \in [Tabs -> Users \cup {Undefined, Nobody}]
      BY <2>1 DEF TabsOK
    <2>3. QED
      BY <2>1, <2>2, GoesTabs, ClosesTabs DEF TabsOK
  <1>2. CASE BackendMissing(t)
    <2>1. /\ Goes(t, "error", route[t])
          /\ UNCHANGED <<token, user, signins, auth, link, connections, greeting, failed, buffer>>
      BY <1>2 DEF BackendMissing, socket_vars
    <2>2. route[t] \in {"app", "auth"}
      BY DEF TabsOK
    <2>3. QED
      BY <2>1, <2>2, GoesTabs DEF TabsOK
  <1>3. QED
    BY <1>1, <1>2

\* What the steps of the socket leave of the tabs.
LEMMA SocketTabs ==
    ASSUME TabsOK, NEW t \in Tabs, UNCHANGED <<token, page, route, user, signins, auth>>,
           link' \in [Tabs -> {"none", "connecting", "up"}],
           greeting' \in [Tabs -> Nat],
           failed' \in [Tabs -> BOOLEAN],
           buffer' \in [Tabs -> Seq(Tokens)],
           connections' \in [Tabs -> Nat]
    PROVE  TabsOK'
  BY DEF TabsOK, CheckInv

-----------------------------------------------------------------------------
(* Every step.                                                             *)

\* At first no tab is open and nothing is under way.
LEMMA BrowserInit == Init => BrowserInv
  <1> SUFFICES ASSUME Init
               PROVE  BrowserInv
    OBVIOUS
  <1>1. PoolsInv
    BY PoolInitInv DEF Init
  <1>2. /\ inbox = [t \in Tabs |-> <<>>] /\ connections = [t \in Tabs |-> 0]
        /\ link = [t \in Tabs |-> "none"] /\ page = [t \in Tabs |-> "closed"]
        /\ buffer = [t \in Tabs |-> <<>>] /\ failed = [t \in Tabs |-> FALSE]
    BY DEF Init
  <1>3. <<>> \in Seq(Event) /\ <<>> \in Seq(Tokens) /\ Len(<<>>) = 0
    OBVIOUS
  <1>4. InboxInv
    BY <1>2, <1>3 DEF InboxInv, Orderly
  <1>5. LinkInv
    BY <1>2, BrowserAssumption DEF LinkInv
  <1>6. inbox \in [Tabs -> Seq(Event)] /\ buffer \in [Tabs -> Seq(Tokens)]
    BY <1>2, <1>3
  <1>7. failed \in [Tabs -> BOOLEAN]
    BY <1>2, Zenon
  <1>8. CheckInv
    BY <1>2 DEF CheckInv
  <1>9. TabsOK
    BY <1>6, <1>7, <1>8 DEF Init, TabsOK
  <1>10. QED
    BY <1>1, <1>4, <1>5, <1>6, <1>9, TabsAndQueues DEF QueuesOK

\* Each action of the browser and its server keeps the invariant, and what it does
\* to the pools is a step of UserPools.
LEMMA BrowserStep ==
    ASSUME BrowserInv, Next
    PROVE  BrowserInv' /\ [PoolNext]_pools
  <1>1. TabsOK /\ PoolsInv
    BY TabsAndQueues DEF BrowserInv
  <1>2. SUFFICES TabsOK' /\ QueuesOK' /\ [PoolNext]_pools
    <2>1. PoolsInv'
      BY <1>1, <1>2, PoolNextInv
    <2>2. TabsOK' /\ QueuesOK' /\ PoolsInv' => BrowserInv'
      BY DEF BrowserInv, TypeOK, TabsOK, QueuesOK, PoolsInv
    <2>3. QED
      BY <1>2, <2>1, <2>2
  <1>3. PICK t \in Tabs :
           \/ Opens(t) \/ Closes(t) \/ BackendMissing(t) \/ Startup(t)
           \/ \E k \in Tokens : setSessionUser(t, k)
           \/ checkTokenExpiry(t)
           \/ Connects(t) \/ getVersion(t) \/ VersionFails(t) \/ VersionChanged(t)
           \/ Breaks(t)
           \/ Handles(t)
    BY DEF Next
  <1>4. CASE Opens(t) \/ checkTokenExpiry(t) \/ VersionChanged(t)
    <2>1. UNCHANGED pools /\ SocketCloses(t)
      BY <1>4 DEF Opens, checkTokenExpiry, SignedOut, VersionChanged, Loads
    <2>2. QED
      BY <1>1, <1>4, <2>1, ClosesQueues, OpensTabs
  <1>5. CASE Closes(t)
    <2>1. UNCHANGED pools /\ SocketCloses(t)
      BY <1>5 DEF Closes
    <2>2. QED
      BY <1>1, <1>5, <2>1, ClosesQueues, LeavesTabs
  <1>6. CASE BackendMissing(t) \/ Startup(t)
    <2>1. UNCHANGED pools /\ UNCHANGED <<connections, inbox>>
      BY <1>6 DEF BackendMissing, Startup, setupSocket, getSessionUser, Mounts, socket_vars
    <2>2. UNCHANGED connection
      BY <2>1 DEF pools
    <2>3. TabsOK'
      BY <1>1, <1>6, LeavesTabs, SetsUpTabs, ChecksTabs, MountsTabs DEF Startup
    <2>4. \A u \in Tabs : link'[u] = "up" => link[u] = "up"
      <3>1. UNCHANGED link \/ link' = [link EXCEPT ![t] = "connecting"]
        BY <1>6 DEF BackendMissing, Startup, setupSocket, getSessionUser, Mounts, socket_vars
      <3>2. QED
        BY <1>1, <3>1 DEF TabsOK
    <2>5. QueuesOK'
      <3>1. \A u \in Tabs : Own(u)' = Own(u) /\ Sid(u)' = Sid(u)
        BY <2>1 DEF Own, Sid
      <3>2. QED
        BY <2>1, <2>2, <2>4, <3>1 DEF QueuesOK, InboxInv, LinkInv, BrowserInv, TypeOK
    <2>6. QED
      BY <2>1, <2>3, <2>5
  <1>7. ASSUME NEW k \in Tokens, setSessionUser(t, k)
        PROVE  TabsOK' /\ QueuesOK' /\ [PoolNext]_pools
    <2>1. Emits(t, k) /\ UNCHANGED pools /\ UNCHANGED <<link, connections>>
      BY <1>7 DEF setSessionUser
    <2>2. QueuesOK' /\ buffer' \in [Tabs -> Seq(Tokens)]
      BY <2>1, EmitsQueues
    <2>3. QED
      BY <1>1, <1>7, <2>1, <2>2, SignsInTabs
  <1>8. CASE Connects(t)
    <2>1. /\ QueuesOK' /\ connections' \in [Tabs -> Nat]
          /\ \E sid \in Sids, u \in Users \cup {Nobody} : connect(sid, u)
      BY <1>8, ConnectsQueues
    <2>2. PoolNext
      BY <2>1 DEF PoolNext
    <2>3. /\ UNCHANGED <<token, page, route, user, signins, auth>>
          /\ link' \in [Tabs -> {"none", "connecting", "up"}]
          /\ greeting' \in [Tabs -> Nat]
      BY <1>1, <1>8 DEF Connects, tab_vars, TabsOK
    <2>4. failed' \in [Tabs -> BOOLEAN]
      BY <1>1, <1>8, Zenon DEF Connects, TabsOK
    <2>5. buffer' \in [Tabs -> Seq(Tokens)]
      <3>1. <<>> \in Seq(Tokens)
        OBVIOUS
      <3>2. QED
        BY <1>1, <1>8, <3>1 DEF Connects, TabsOK
    <2>6. QED
      BY <1>1, <2>1, <2>2, <2>3, <2>4, <2>5, SocketTabs
  <1>9. CASE getVersion(t)
    <2>1. /\ UNCHANGED pools /\ UNCHANGED <<link, connections>>
          /\ UNCHANGED <<token, page, route, user, signins, auth, failed>>
          /\ greeting[t] > 0 /\ greeting' = [greeting EXCEPT ![t] = @ - 1]
      BY <1>9 DEF getVersion, tab_vars
    <2>2. greeting' \in [Tabs -> Nat]
      BY <1>1, <2>1 DEF TabsOK
    <2>3. QueuesOK' /\ buffer' \in [Tabs -> Seq(Tokens)]
      <3>1. CASE token # NoToken
        <4>1. token \in Tokens /\ Emits(t, token)
          BY <1>1, <1>9, <3>1 DEF TabsOK, getVersion, Greeted
        <4>2. QED
          BY <2>1, <4>1, EmitsQueues
      <3>2. CASE token = NoToken
        <4>1. UNCHANGED <<inbox, buffer>> /\ UNCHANGED connection
          BY <1>9, <2>1, <3>2 DEF getVersion, Greeted, pools
        <4>2. QED
          BY <1>1, <2>1, <4>1, QueuesKept DEF TabsOK
      <3>3. QED
        BY <3>1, <3>2
    <2>4. QED
      BY <1>1, <2>1, <2>2, <2>3, SocketTabs DEF TabsOK
  <1>10. CASE Breaks(t)
    <2>1. /\ UNCHANGED pools /\ UNCHANGED <<token, tab_vars, auth, connections, greeting, failed, buffer>>
          /\ link' \in [Tabs -> {"none", "connecting", "up"}]
      BY <1>1, <1>10 DEF Breaks, TabsOK
    <2>2. QED
      BY <1>1, <1>10, <2>1, BreaksQueues, SocketTabs DEF TabsOK, tab_vars
  <1>11. CASE Handles(t)
    <2>1. UNCHANGED <<token, tab_vars, auth, link, connections, greeting, failed, buffer>>
      BY <1>11 DEF Handles
    <2>2. QED
      BY <1>1, <1>11, <2>1, HandlesQueues, SocketTabs DEF TabsOK, tab_vars
  <1>12. CASE VersionFails(t)
    <2>1. /\ UNCHANGED <<pools, token, tab_vars, auth, link, connections, buffer, inbox>>
          /\ greeting[t] > 0 /\ greeting' = [greeting EXCEPT ![t] = @ - 1]
      BY <1>12 DEF VersionFails
    <2>2. greeting' \in [Tabs -> Nat]
      BY <1>1, <2>1 DEF TabsOK
    <2>3. failed' \in [Tabs -> BOOLEAN]
      BY <1>1, <1>12, Zenon DEF VersionFails, TabsOK
    <2>4. QueuesOK'
      BY <2>1, QueuesKept DEF pools
    <2>5. TabsOK'
      BY <1>1, <2>1, <2>2, <2>3, SocketTabs DEF TabsOK, tab_vars
    <2>6. QED
      BY <2>1, <2>4, <2>5
  <1>13. QED
    BY <1>3, <1>4, <1>5, <1>6, <1>7, <1>8, <1>9, <1>10, <1>11, <1>12

\* A step that changes nothing is none of UserPools either.
LEMMA BrowserStutter ==
    ASSUME BrowserInv, UNCHANGED vars
    PROVE  BrowserInv' /\ UNCHANGED pools
  <1>1. /\ UNCHANGED <<pools, connection, token, page, route, user, signins, auth, link,
                       connections, greeting, failed, buffer, inbox>>
    BY DEF vars, pools, tab_vars, socket_vars
  <1>2. TabsOK'
    BY <1>1, TabsAndQueues, SocketTabs DEF TabsOK, CheckInv
  <1>3. QueuesOK'
    BY <1>1, QueuesKept
  <1>4. PoolsInv'
    BY <1>1, PoolNextInv DEF BrowserInv
  <1>5. TabsOK' /\ QueuesOK' /\ PoolsInv' => BrowserInv'
    BY DEF BrowserInv, TypeOK, TabsOK, QueuesOK, PoolsInv
  <1>6. QED
    BY <1>1, <1>2, <1>3, <1>4, <1>5

\* The two together.
LEMMA BrowserNext == BrowserInv /\ [Next]_vars => BrowserInv' /\ [PoolNext]_pools
  BY BrowserStep, BrowserStutter

\* Whatever the tabs do, what is under way belongs to live connections, and the
\* pools keep their own invariant.
THEOREM BrowserInvariant == Spec => []BrowserInv
  BY BrowserInit, BrowserNext, PTL DEF Spec

\* Every variable of the browser and of the pools keeps its type.
THEOREM BrowserTypesCorrect == Spec => []TypeOK
  <1>1. BrowserInv => TypeOK
    BY DEF BrowserInv
  <1>2. QED
    BY <1>1, BrowserInvariant, PTL

\* The browser and its server together are an implementation of the pools:
\* nothing of a connection reaches the server before its connect, after its
\* disconnect or twice as its connect (main.py 267-312, 631-646).
THEOREM BrowserUsesPools == Spec => UsesPools
  <1>1. Init => PoolInit
    BY DEF Init
  <1>2. QED
    BY <1>1, BrowserInvariant, BrowserNext, PTL DEF Spec, UsesPools, PoolSpec

\* So what UserPools promises holds of them: a connection with a user is listed
\* as one of that user's, and only live connections have a user.
THEOREM BrowserSessions == Spec => []SessionsListed /\ []SessionsLive
  BY BrowserUsesPools, AlwaysListed, AlwaysLive, PTL DEF UsesPools

-----------------------------------------------------------------------------
(* One account.                                                            *)

\* A step of the pools of one account keeps every listed connection with it.
LEMMA GhostsStep ==
    ASSUME PoolsInv, NoGhosts, [PoolNext]_pools
    PROVE  NoGhosts'
  <1> SUFFICES ASSUME Cardinality(Users) = 1, NEW u \in Users, NEW sid \in Sids,
                      USER_POOL'[u][sid] > 0
               PROVE  SESSION_POOL'[sid] = u
    BY DEF NoGhosts
  <1>1. PICK a : Users = {a}
    BY FS_Singleton, BrowserAssumption
  <1>2. u = a /\ a \in Users
    BY <1>1
  <1>3. /\ SESSION_POOL \in [Sids -> Users \cup {Nobody}]
        /\ USER_POOL \in [Users -> [Sids -> Nat]]
        /\ USER_POOL[a] \in [Sids -> Nat]
    BY <1>2 DEF PoolsInv, PoolsTypeOK
  <1>4. \A x \in Sids : USER_POOL[a][x] > 0 => SESSION_POOL[x] = a
    BY <1>2 DEF NoGhosts
  <1>5. ASSUME NEW y \in Sids, NEW v \in Users \cup {Nobody}, Entered(y, v)
        PROVE  SESSION_POOL'[sid] = a
    <2>1. CASE v = Nobody
      BY <1>2, <1>4, <1>5, <2>1 DEF Entered
    <2>2. CASE v # Nobody
      <3>1. v = a
        BY <1>1, <2>2
      <3>2. /\ SESSION_POOL' = [SESSION_POOL EXCEPT ![y] = a]
            /\ USER_POOL' = [USER_POOL EXCEPT ![a] = Listed(y, @)]
        BY <1>5, <2>2, <3>1 DEF Entered
      <3>3. USER_POOL'[a] = [USER_POOL[a] EXCEPT ![y] = @ + 1]
        BY <1>2, <1>3, <3>2 DEF Listed
      <3>4. CASE sid = y
        BY <1>3, <3>2, <3>4
      <3>5. CASE sid # y
        BY <1>2, <1>3, <1>4, <3>2, <3>3, <3>5
      <3>6. QED
        BY <3>4, <3>5
    <2>3. QED
      BY <2>1, <2>2
  <1>6. ASSUME NEW y \in Sids, disconnect(y)
        PROVE  SESSION_POOL'[sid] = a
    <2>1. CASE SESSION_POOL[y] = Nobody
      BY <1>2, <1>4, <1>6, <2>1 DEF disconnect
    <2>2. CASE SESSION_POOL[y] # Nobody
      <3>1. SESSION_POOL[y] = a
        BY <1>1, <1>3, <2>2
      <3>2. /\ SESSION_POOL' = [SESSION_POOL EXCEPT ![y] = Nobody]
            /\ USER_POOL' = [USER_POOL EXCEPT ![a] = Without(y, @)]
        BY <1>6, <2>2, <3>1 DEF disconnect
      <3>3. USER_POOL'[a] = [USER_POOL[a] EXCEPT ![y] = 0]
        BY <1>2, <1>3, <3>2 DEF Without
      <3>4. sid # y /\ USER_POOL[a][sid] > 0
        BY <1>2, <1>3, <3>3
      <3>5. QED
        BY <1>3, <1>4, <3>2, <3>4
    <2>3. QED
      BY <2>1, <2>2
  <1>7. CASE UNCHANGED pools
    BY <1>2, <1>4, <1>7 DEF pools
  <1>8. CASE PoolNext
    <2>1. PICK y \in Sids :
             \/ \E v \in Users \cup {Nobody} : connect(y, v)
             \/ disconnect(y)
             \/ \E v \in Users \cup {Nobody} : user_join(y, v)
      BY <1>8 DEF PoolNext
    <2>2. QED
      BY <1>2, <1>5, <1>6, <2>1 DEF connect, user_join
  <1>9. QED
    BY <1>2, <1>7, <1>8

\* With one account signed in, nobody is listed as active by a connection that
\* has ended or has no session, however the tabs and their connections behave
\* (main.py 212-219, 633-641).
THEOREM OneAccountNoGhosts == Spec => []NoGhosts
  <1>1. Init => NoGhosts
    BY DEF Init, PoolInit, NoGhosts
  <1>2. BrowserInv /\ NoGhosts /\ [Next]_vars => NoGhosts'
    BY BrowserNext, GhostsStep DEF BrowserInv
  <1>3. QED
    BY <1>1, <1>2, BrowserInvariant, PTL DEF Spec
=============================================================================
