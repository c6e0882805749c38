----------------------- MODULE CollaborativeNotesProofs -----------------------
(***************************************************************************)
(* Proofs about CollaborativeNotes, for any sessions and servers and any   *)
(* number of edits: nobody in the room misses an update, on one server the *)
(* document keeps what those in it have seen, and the edit that stopped    *)
(* the waiting saves last is saved itself.                                 *)
(*                                                                         *)
(* NothingMissed is inductive with the types of what it reads.  For the    *)
(* second, ServerInv adds what holds of one server: the room, the users    *)
(* of the document and the editors that show it are the same sessions, so  *)
(* a document without users has no editor, and an update that has been     *)
(* sent is in the document.  NewestInv follows the last stop: the save of  *)
(* its edit is owed, waits or is done, or another edit is stopping saves   *)
(* and will be the last.                                                   *)
(***************************************************************************)
EXTENDS CollaborativeNotes, TLAPS

EditSteps == {"stopping", "stopped", "appended", "sent", "over"}

Kinds == {"leave", "disconnect"}

NotesTypes ==
    /\ redis \in BOOLEAN
    /\ joining \in [Sids -> JoiningSteps]
    /\ seen \in [Sids -> SUBSET Nat]
    /\ edits \in Seq(Edit)
    /\ updates \subseteq DOMAIN edits
    /\ bus \in [Hosts -> Seq(Nat)]

MissInv == NotesTypes /\ NothingMissed

-----------------------------------------------------------------------------
(* What the helpers return.                                                *)

\* An edit that goes on keeps its session, and the others are left alone.
LEMMA EditMoves ==
    ASSUME NotesTypes, NEW e \in DOMAIN edits, NEW step \in EditSteps,
           EditGoesOn(e, step)
    PROVE  /\ edits' \in Seq(Edit)
           /\ DOMAIN edits' = DOMAIN edits
           /\ \A x \in DOMAIN edits :
                /\ edits'[x].sid = edits[x].sid
                /\ edits'[x].pc = IF x = e THEN step ELSE edits[x].pc
  <1>1. edits' = [edits EXCEPT ![e] = [edits[e] EXCEPT !.pc = step]]
    BY DEF EditGoesOn
  <1>2. edits \in Seq(Edit)
    BY DEF NotesTypes
  <1>3. edits[e] \in Edit
    BY <1>2
  <1>4. /\ [edits[e] EXCEPT !.pc = step] \in Edit
        /\ [edits[e] EXCEPT !.pc = step].sid = edits[e].sid
        /\ [edits[e] EXCEPT !.pc = step].pc = step
    BY <1>3 DEF Edit, EditSteps
  <1>5. QED
    BY <1>1, <1>2, <1>4

\* A save that is cancelled or runs concerns nothing but saves.
LEMMA OnlySaves ==
    ASSUME NEW e, Cancels(e) \/ document_save_handler(e)
    PROVE  /\ UNCHANGED <<redis, SESSION_POOL, users, room, joining, parting, open>>
           /\ UNCHANGED <<updates, seen, edits, bus, newest>>
  BY DEF Cancels, document_save_handler, member_vars

\* A broadcast reaches each other member at once or through its server.
LEMMA BroadcastReaches ==
    ASSUME NotesTypes, NEW e \in DOMAIN edits, Broadcast(e)
    PROVE  /\ seen' \in [Sids -> SUBSET Nat]
           /\ bus' \in [Hosts -> Seq(Nat)]
           /\ \A s \in Sids : /\ seen[s] \subseteq seen'[s]
                              /\ seen'[s] \subseteq seen[s] \cup {e}
           /\ \A h \in Hosts : ToSet(bus[h]) \subseteq ToSet(bus'[h])
           /\ \A s \in room \cap open \cap Sids :
                \/ s = edits[e].sid
                \/ e \in seen'[s]
                \/ e \in ToSet(bus'[HostOf[s]])
           /\ ~ redis => bus' = bus
  <1> DEFINE here == HostOf[edits[e].sid]
             near(s) == s \in room \cap open /\ (redis => HostOf[s] = here)
                        /\ s # edits[e].sid
  <1>1. seen' = [s \in Sids |-> IF near(s) THEN seen[s] \cup {e} ELSE seen[s]]
    BY DEF Broadcast
  <1>2. bus' = IF redis
                 THEN [h \in Hosts |-> IF h = here THEN bus[h] ELSE Append(bus[h], e)]
                 ELSE bus
    BY DEF Broadcast
  <1>3. e \in Nat
    BY DEF NotesTypes
  <1>4. seen' \in [Sids -> SUBSET Nat]
    BY <1>1, <1>3 DEF NotesTypes
  <1>5. bus' \in [Hosts -> Seq(Nat)]
    <2>1. \A h \in Hosts : bus[h] \in Seq(Nat) /\ Append(bus[h], e) \in Seq(Nat)
      BY <1>3 DEF NotesTypes
    <2>2. QED
      BY <1>2, <2>1 DEF NotesTypes
  <1>6. \A h \in Hosts : /\ ToSet(bus[h]) \subseteq ToSet(Append(bus[h], e))
                         /\ e \in ToSet(Append(bus[h], e))
    <2> SUFFICES ASSUME NEW h \in Hosts
                 PROVE  /\ ToSet(bus[h]) \subseteq ToSet(Append(bus[h], e))
                        /\ e \in ToSet(Append(bus[h], e))
      OBVIOUS
    <2>1. bus[h] \in Seq(Nat)
      BY DEF NotesTypes
    <2> DEFINE longer == Append(bus[h], e)
    <2>2. /\ DOMAIN bus[h] = 1..Len(bus[h]) /\ DOMAIN longer = 1..Len(bus[h]) + 1
          /\ Len(bus[h]) \in Nat
          /\ \A i \in DOMAIN bus[h] : longer[i] = bus[h][i]
          /\ longer[Len(bus[h]) + 1] = e
      BY <1>3, <2>1
    <2>3. DOMAIN bus[h] \subseteq DOMAIN longer /\ Len(bus[h]) + 1 \in DOMAIN longer
      BY <2>2
    <2> HIDE DEF longer
    <2>4. ToSet(bus[h]) \subseteq ToSet(longer) /\ e \in ToSet(longer)
      BY <2>2, <2>3 DEF ToSet
    <2>5. QED
      BY <2>4 DEF longer
  <1>7. \A h \in Hosts : ToSet(bus[h]) \subseteq ToSet(bus'[h])
    BY <1>2, <1>6
  <1>8. ASSUME NEW s \in room \cap open \cap Sids
        PROVE  \/ s = edits[e].sid \/ e \in seen'[s] \/ e \in ToSet(bus'[HostOf[s]])
    <2>1. CASE near(s)
      BY <1>1, <2>1
    <2>2. CASE s # edits[e].sid /\ redis /\ HostOf[s] # here
      <3>1. HostOf[s] \in Hosts
        BY NotesAssumption
      <3>2. bus'[HostOf[s]] = Append(bus[HostOf[s]], e)
        BY <1>2, <2>2, <3>1
      <3>3. QED
        BY <1>6, <3>1, <3>2
    <2>3. QED
      BY <2>1, <2>2 DEF NotesTypes
  <1>9. QED
    BY <1>1, <1>2, <1>4, <1>5, <1>7, <1>8

-----------------------------------------------------------------------------
(* Nobody misses an update.                                                *)

\* A step that sends nothing, appends nothing and takes nothing from an editor
\* that has joined disturbs nobody.
LEMMA Undisturbed ==
    ASSUME MissInv, NotesTypes', updates' \subseteq updates, bus' = bus,
           \A s \in Sids : Joined(s)' => Joined(s) /\ seen[s] \subseteq seen'[s],
           \A e \in DOMAIN edits :
              /\ edits'[e].sid = edits[e].sid
              /\ edits[e].pc = "appended" => edits'[e].pc = "appended"
    PROVE  MissInv'
  <1> SUFFICES ASSUME NEW s \in Sids, Joined(s)', NEW e \in updates'
               PROVE  \/ e \in seen'[s]
                      \/ edits'[e].sid = s
                      \/ edits'[e].pc = "appended"
                      \/ e \in ToSet(bus'[HostOf[s]])
    BY DEF MissInv, NothingMissed
  <1>1. Joined(s) /\ e \in updates /\ e \in DOMAIN edits
    BY DEF MissInv, NotesTypes
  <1>2. \/ e \in seen[s] \/ edits[e].sid = s \/ edits[e].pc = "appended"
        \/ e \in ToSet(bus[HostOf[s]])
    BY <1>1 DEF MissInv, NothingMissed
  <1>3. QED
    BY <1>1, <1>2

\* At first nobody has joined.
LEMMA InitMissInv == Init => MissInv
  <1> SUFFICES ASSUME Init PROVE MissInv
    OBVIOUS
  <1>1. redis \in BOOLEAN
    BY NotesAssumption DEF Init
  <1>2. /\ edits = <<>> /\ updates = {}
        /\ \A h \in Hosts : bus[h] = <<>>
        /\ bus = [h \in Hosts |-> <<>>]
    BY DEF Init
  <1>3. edits \in Seq(Edit) /\ bus \in [Hosts -> Seq(Nat)]
    BY <1>2
  <1>4. seen \in [Sids -> SUBSET Nat] /\ joining \in [Sids -> JoiningSteps]
    BY DEF Init, JoiningSteps
  <1>5. NotesTypes
    BY <1>1, <1>2, <1>3, <1>4 DEF NotesTypes
  <1>6. NothingMissed
    BY <1>2 DEF NothingMissed
  <1>7. QED
    BY <1>5, <1>6 DEF MissInv

\* Whoever has read the state after entering the room has all that is in it.
LEMMA OpensMissInv ==
    ASSUME MissInv, NEW s \in Sids, Opens(s)
    PROVE  MissInv'
  <1>1. UNCHANGED <<redis, SESSION_POOL, updates, edits, bus>> /\ open' = open \cup {s}
    BY DEF Opens
  <1>2. CASE redis
    <2>1. /\ joining' = [joining EXCEPT ![s] = "adding"]
          /\ UNCHANGED <<room, seen>>
      BY <1>2 DEF Opens
    <2>2. NotesTypes'
      BY <1>1, <2>1 DEF MissInv, NotesTypes, JoiningSteps
    <2>3. \A r \in Sids : Joined(r)' => Joined(r)
      BY <1>1, <2>1 DEF Joined, MissInv, NotesTypes
    <2>4. QED
      BY <1>1, <2>1, <2>2, <2>3, Undisturbed
  <1>3. CASE ~ redis
    <2>1. /\ room' = room \cup {s} /\ joining' = joining
          /\ seen' = [seen EXCEPT ![s] = updates]
      BY <1>3 DEF Opens
    <2>2. updates \in SUBSET Nat
      BY DEF MissInv, NotesTypes
    <2>3. NotesTypes'
      BY <1>1, <2>1, <2>2 DEF MissInv, NotesTypes
    <2>4. NothingMissed'
      <3> SUFFICES ASSUME NEW r \in Sids, Joined(r)', NEW e \in updates
                   PROVE  \/ e \in seen'[r] \/ edits[e].sid = r
                          \/ edits[e].pc = "appended" \/ e \in ToSet(bus[HostOf[r]])
        BY <1>1 DEF NothingMissed
      <3>1. CASE r = s
        BY <2>1, <3>1 DEF MissInv, NotesTypes
      <3>2. CASE r # s
        <4>1. Joined(r) /\ seen'[r] = seen[r]
          BY <1>1, <2>1, <3>2 DEF Joined, MissInv, NotesTypes
        <4>2. QED
          BY <4>1 DEF MissInv, NothingMissed
      <3>3. QED
        BY <3>1, <3>2
    <2>5. QED
      BY <2>3, <2>4 DEF MissInv
  <1>4. QED
    BY <1>2, <1>3

\* Who joins is in the room before the updates are read, so an update is read or
\* sent.
LEMMA JoinsMissInv ==
    ASSUME MissInv, NEW s \in Sids, Joins(s)
    PROVE  MissInv'
  <1>1. UNCHANGED <<redis, updates, edits, bus>>
    BY DEF Joins
  <1>2. \A r \in Sids : edits' = edits /\ updates' \subseteq updates
    BY <1>1
  <1>3. CASE add_user(s)
    <2>1. joining' = [joining EXCEPT ![s] = "entering"]
          /\ UNCHANGED <<SESSION_POOL, room, open, seen>>
      BY <1>3 DEF add_user, JoinGoesOn, AfterJoin
    <2>2. NotesTypes'
      BY <1>1, <2>1 DEF MissInv, NotesTypes, JoiningSteps
    <2>3. \A r \in Sids : Joined(r)' => Joined(r)
      BY <2>1 DEF Joined, MissInv, NotesTypes
    <2>4. QED
      BY <1>1, <2>1, <2>2, <2>3, Undisturbed
  <1>4. CASE enter_room(s)
    <2>1. UNCHANGED <<SESSION_POOL, open, seen>>
      BY <1>4 DEF enter_room
    <2>2. \/ joining' = [joining EXCEPT ![s] = "reading"] /\ room' = room \cup {s}
          \/ joining' = [joining EXCEPT ![s] = "no"] /\ room' = room /\ s \notin SESSION_POOL
      BY <1>4 DEF enter_room, JoinGoesOn, AfterJoin, Admitted
    <2>3. NotesTypes'
      BY <1>1, <2>1, <2>2 DEF MissInv, NotesTypes, JoiningSteps
    <2>4. \A r \in Sids : Joined(r)' => Joined(r)
      BY <2>1, <2>2 DEF Joined, MissInv, NotesTypes
    <2>5. QED
      BY <1>1, <2>1, <2>3, <2>4, Undisturbed
  <1>5. CASE get_updates(s)
    <2>1. /\ joining' = [joining EXCEPT ![s] = "no"]
          /\ seen' = [seen EXCEPT ![s] = IF s \in open THEN @ \cup updates ELSE @]
          /\ UNCHANGED <<SESSION_POOL, room, open>>
      BY <1>5 DEF get_updates, JoinGoesOn, AfterJoin
    <2>2. updates \in SUBSET Nat
      BY DEF MissInv, NotesTypes
    <2>3. NotesTypes'
      BY <1>1, <2>1, <2>2 DEF MissInv, NotesTypes, JoiningSteps
    <2>4. NothingMissed'
      <3> SUFFICES ASSUME NEW r \in Sids, Joined(r)', NEW e \in updates
                   PROVE  \/ e \in seen'[r] \/ edits[e].sid = r
                          \/ edits[e].pc = "appended" \/ e \in ToSet(bus[HostOf[r]])
        BY <1>1 DEF NothingMissed
      <3>1. CASE r = s
        BY <2>1, <3>1 DEF Joined, MissInv, NotesTypes
      <3>2. CASE r # s
        <4>1. Joined(r) /\ seen'[r] = seen[r]
          BY <2>1, <3>2 DEF Joined, MissInv, NotesTypes
        <4>2. QED
          BY <4>1 DEF MissInv, NothingMissed
      <3>3. QED
        BY <3>1, <3>2
    <2>5. QED
      BY <2>3, <2>4 DEF MissInv
  <1>6. QED
    BY <1>3, <1>4, <1>5 DEF Joins

-----------------------------------------------------------------------------
\* A new edit is in nobody's document yet.
LEMMA EditsGrow ==
    ASSUME NotesTypes, NEW s \in Sids, Edits(s)
    PROVE  /\ NotesTypes'
           /\ \A x \in Sids : seen[x] \subseteq seen'[x]
           /\ seen' = [seen EXCEPT ![s] = @ \cup {Len(edits) + 1}]
           /\ Len(edits) + 1 \in DOMAIN edits'
           /\ edits'[Len(edits) + 1].pc = "stopping"
           /\ DOMAIN edits \subseteq DOMAIN edits'
           /\ \A e \in DOMAIN edits : edits'[e] = edits[e]
  <1> DEFINE new == [sid |-> s, pc |-> "stopping"]
  <1>1. /\ edits' = Append(edits, new)
        /\ seen' = [seen EXCEPT ![s] = @ \cup {Len(edits) + 1}]
        /\ UNCHANGED <<redis, updates, bus, joining>>
    BY DEF Edits, member_vars
  <1>2. edits \in Seq(Edit) /\ new \in Edit
    BY DEF NotesTypes, Edit
  <1>3. /\ edits' \in Seq(Edit) /\ DOMAIN edits' = 1..Len(edits) + 1
        /\ DOMAIN edits = 1..Len(edits) /\ Len(edits) \in Nat
        /\ \A e \in DOMAIN edits : edits'[e] = edits[e]
        /\ edits'[Len(edits) + 1] = new
    BY <1>1, <1>2
  <1>4. seen' \in [Sids -> SUBSET Nat] /\ \A x \in Sids : seen[x] \subseteq seen'[x]
    BY <1>1, <1>3 DEF NotesTypes
  <1>5. updates' \subseteq DOMAIN edits'
    BY <1>1, <1>3 DEF NotesTypes
  <1>6. NotesTypes'
    BY <1>1, <1>3, <1>4, <1>5 DEF NotesTypes
  <1>7. QED
    BY <1>1, <1>3, <1>4, <1>6

\* The editor that makes an update has it.
LEMMA EditsMissInv ==
    ASSUME MissInv, NEW s \in Sids, Edits(s)
    PROVE  MissInv'
  <1>1. UNCHANGED <<SESSION_POOL, room, joining, open, updates, bus>>
    BY DEF Edits, member_vars
  <1>2. \A r \in Sids : Joined(r)' => Joined(r)
    BY <1>1 DEF Joined
  <1>3. NotesTypes
    BY DEF MissInv
  <1>4. QED
    BY <1>1, <1>2, <1>3, EditsGrow, Undisturbed

\* An update is sent to the room once the document has it.
LEMMA HandlersMissInv ==
    ASSUME MissInv, NEW e \in DOMAIN edits,
           Stopped(e) \/ append_to_updates(e) \/ Sent(e) \/ SaveCreated(e)
    PROVE  MissInv'
  <1> NotesTypes /\ NothingMissed
    BY DEF MissInv
  <1>1. UNCHANGED <<redis, SESSION_POOL, room, joining, open>>
    BY DEF Stopped, append_to_updates, Sent, SaveCreated, member_vars
  <1>2. \A s \in Sids : Joined(s)' <=> Joined(s)
    BY <1>1 DEF Joined
  <1>3. ASSUME NEW step \in EditSteps, EditGoesOn(e, step), edits[e].pc # "appended",
               UNCHANGED <<updates, seen, bus>>
        PROVE  MissInv'
    <2>1. NotesTypes'
      BY <1>1, <1>3, EditMoves DEF NotesTypes
    <2>2. QED
      BY <1>2, <1>3, <2>1, EditMoves, Undisturbed
  <1>4. CASE Stopped(e)
    BY <1>3, <1>4 DEF Stopped, EditSteps
  <1>5. CASE SaveCreated(e)
    BY <1>3, <1>5 DEF SaveCreated, EditSteps
  <1>6. ASSUME NEW step \in EditSteps, EditGoesOn(e, step), Broadcast(e),
               updates' \subseteq updates \cup {e}
        PROVE  MissInv'
    <2>1. NotesTypes'
      BY <1>1, <1>6, EditMoves, BroadcastReaches DEF NotesTypes
    <2>2. ASSUME NEW s \in Sids, Joined(s), NEW x \in updates'
          PROVE  \/ x \in seen'[s] \/ edits'[x].sid = s
                 \/ edits'[x].pc = "appended" \/ x \in ToSet(bus'[HostOf[s]])
      <3>1. CASE x = e
        <4>1. s \in room \cap open \cap Sids
          BY <2>2 DEF Joined
        <4>2. edits'[e].sid = edits[e].sid
          BY <1>6, EditMoves
        <4>3. QED
          BY <1>6, <3>1, <4>1, <4>2, BroadcastReaches
      <3>2. CASE x # e
        <4>1. x \in updates /\ x \in DOMAIN edits /\ HostOf[s] \in Hosts
          BY <1>6, <2>2, <3>2, NotesAssumption DEF NotesTypes
        <4>2. \/ x \in seen[s] \/ edits[x].sid = s
              \/ edits[x].pc = "appended" \/ x \in ToSet(bus[HostOf[s]])
          BY <2>2, <4>1 DEF NothingMissed
        <4>3. edits'[x].sid = edits[x].sid /\ edits'[x].pc = edits[x].pc
          BY <1>6, <3>2, <4>1, EditMoves
        <4>4. seen[s] \subseteq seen'[s] /\ ToSet(bus[HostOf[s]]) \subseteq ToSet(bus'[HostOf[s]])
          BY <1>6, <4>1, BroadcastReaches
        <4>5. QED
          BY <4>2, <4>3, <4>4
      <3>3. QED
        BY <3>1, <3>2
    <2>3. NothingMissed'
      BY <1>2, <2>2 DEF NothingMissed
    <2>4. QED
      BY <2>1, <2>3 DEF MissInv
  <1>7. CASE Sent(e)
    BY <1>6, <1>7 DEF Sent, EditSteps
  <1>8. CASE append_to_updates(e)
    <2>1. updates' = updates \cup {e}
      BY <1>8 DEF append_to_updates
    <2>2. CASE ~ redis
      BY <1>6, <1>8, <2>1, <2>2 DEF append_to_updates, EditSteps
    <2>3. CASE redis
      <3>1. EditGoesOn(e, "appended") /\ UNCHANGED <<seen, bus>>
        BY <1>8, <2>3 DEF append_to_updates
      <3>2. "appended" \in EditSteps
        BY DEF EditSteps
      <3>3. NotesTypes'
        BY <1>1, <2>1, <3>1, <3>2, EditMoves DEF NotesTypes
      <3>4. ASSUME NEW s \in Sids, Joined(s), NEW x \in updates'
            PROVE  \/ x \in seen[s] \/ edits'[x].sid = s
                   \/ edits'[x].pc = "appended" \/ x \in ToSet(bus[HostOf[s]])
        <4>1. CASE x = e
          BY <3>1, <3>2, <4>1, EditMoves
        <4>2. CASE x # e
          <5>1. x \in updates /\ x \in DOMAIN edits
            BY <2>1, <3>4, <4>2 DEF NotesTypes
          <5>2. \/ x \in seen[s] \/ edits[x].sid = s
                \/ edits[x].pc = "appended" \/ x \in ToSet(bus[HostOf[s]])
            BY <3>4, <5>1 DEF NothingMissed
          <5>3. QED
            BY <3>1, <3>2, <4>2, <5>1, <5>2, EditMoves
        <4>3. QED
          BY <4>1, <4>2
      <3>5. NothingMissed'
        BY <1>2, <3>1, <3>4 DEF NothingMissed
      <3>6. QED
        BY <3>3, <3>5 DEF MissInv
    <2>4. QED
      BY <2>2, <2>3 DEF NotesTypes
  <1>9. QED
    BY <1>4, <1>5, <1>7, <1>8

\* What a server forwards, each of its members but the author then has.
LEMMA ForwardsMissInv ==
    ASSUME MissInv, NEW h \in Hosts, Forwards(h)
    PROVE  MissInv'
  <1> NotesTypes /\ NothingMissed
    BY DEF MissInv
  <1> DEFINE first == Head(bus[h])
  <1>1. /\ UNCHANGED <<redis, SESSION_POOL, room, joining, open, updates, edits>>
        /\ bus[h] # <<>>
        /\ seen' = [s \in Sids |->
              IF s \in room \cap open /\ HostOf[s] = h /\ s # edits[first].sid
                THEN seen[s] \cup {first} ELSE seen[s]]
        /\ bus' = [bus EXCEPT ![h] = Tail(@)]
    BY DEF Forwards, member_vars
  <1>2. bus[h] \in Seq(Nat)
    BY DEF NotesTypes
  <1>3. first \in Nat /\ Tail(bus[h]) \in Seq(Nat)
    BY <1>1, <1>2
  <1>4. ToSet(bus[h]) \subseteq ToSet(Tail(bus[h])) \cup {first}
    <2>1. bus[h][1] = first
      BY <1>1, <1>2
    <2>2. ASSUME NEW i \in DOMAIN bus[h], i # 1
          PROVE  bus[h][i] \in ToSet(Tail(bus[h]))
      <3>1. i - 1 \in DOMAIN Tail(bus[h]) /\ Tail(bus[h])[i - 1] = bus[h][i]
        BY <1>1, <1>2, <2>2
      <3>2. QED
        BY <3>1, Zenon DEF ToSet
    <2>3. \A i \in DOMAIN bus[h] : bus[h][i] \in ToSet(Tail(bus[h])) \cup {first}
      BY <2>1, <2>2
    <2>4. QED
      BY <2>3, Zenon DEF ToSet
  <1>5. NotesTypes'
    <2>1. seen' \in [Sids -> SUBSET Nat]
      BY <1>1, <1>3 DEF NotesTypes
    <2>2. bus' \in [Hosts -> Seq(Nat)]
      BY <1>1, <1>3 DEF NotesTypes
    <2>3. QED
      BY <1>1, <2>1, <2>2 DEF NotesTypes
  <1>6. ASSUME NEW s \in Sids, Joined(s), NEW e \in updates
        PROVE  \/ e \in seen'[s] \/ edits[e].sid = s
               \/ edits[e].pc = "appended" \/ e \in ToSet(bus'[HostOf[s]])
    <2>1. HostOf[s] \in Hosts /\ s \in room \cap open
      BY <1>6, NotesAssumption DEF Joined
    <2>2. \/ e \in seen[s] \/ edits[e].sid = s
          \/ edits[e].pc = "appended" \/ e \in ToSet(bus[HostOf[s]])
      BY <1>6 DEF NothingMissed
    <2>3. CASE e \in seen[s]
      BY <1>1, <2>3
    <2>4. CASE e \in ToSet(bus[HostOf[s]])
      <3>1. CASE HostOf[s] # h
        BY <1>1, <2>1, <2>4, <3>1 DEF NotesTypes
      <3>2. CASE HostOf[s] = h /\ e = first
        BY <1>1, <2>1, <3>2
      <3>3. CASE HostOf[s] = h /\ e # first
        BY <1>1, <1>4, <2>4, <3>3 DEF NotesTypes
      <3>4. QED
        BY <3>1, <3>2, <3>3
    <2>5. QED
      BY <2>2, <2>3, <2>4
  <1>7. NothingMissed'
    BY <1>1, <1>6 DEF NothingMissed, Joined
  <1>8. QED
    BY <1>5, <1>7 DEF MissInv

\* Who parts, leaves or disconnects takes nothing from those who stay.
LEMMA PartingMissInv ==
    ASSUME MissInv, NEW s \in Sids,
           Leaves(s) \/ disconnect(s) \/ \E kind \in Kinds : Parts(s, kind)
    PROVE  MissInv'
  <1>1. UNCHANGED <<redis, joining, edits, bus>>
    BY DEF Leaves, disconnect, Parts
  <1>2. /\ updates' \subseteq updates /\ room' \subseteq room
        /\ open' \subseteq open /\ SESSION_POOL' \subseteq SESSION_POOL
    BY DEF Leaves, disconnect, Parts, EditorCloses, remove_user, get_users,
           clear_updates, clear_users
  <1>3. \/ seen' = seen
        \/ seen' = [seen EXCEPT ![s] = {}] /\ s \notin open'
    BY DEF Leaves, disconnect, Parts, EditorCloses
  <1>4. NotesTypes'
    BY <1>1, <1>2, <1>3 DEF MissInv, NotesTypes
  <1>5. \A r \in Sids : Joined(r)' => Joined(r) /\ seen[r] \subseteq seen'[r]
    BY <1>1, <1>2, <1>3 DEF Joined, MissInv, NotesTypes
  <1>6. QED
    BY <1>1, <1>2, <1>4, <1>5, Undisturbed

\* Every step.
LEMMA NextMissInv == MissInv /\ [Next]_vars => MissInv'
  <1> SUFFICES ASSUME MissInv, [Next]_vars
               PROVE  MissInv'
    OBVIOUS
  <1>1. ASSUME UNCHANGED <<redis, SESSION_POOL, room, joining, open, updates, seen, edits, bus>>
        PROVE  MissInv'
    BY <1>1 DEF MissInv, NotesTypes, NothingMissed, Joined
  <1>2. CASE UNCHANGED vars
    BY <1>1, <1>2 DEF vars, member_vars
  <1>3. ASSUME NEW e \in DOMAIN edits, Cancels(e) \/ document_save_handler(e)
        PROVE  MissInv'
    BY <1>1, <1>3, OnlySaves
  <1>4. QED
    BY <1>2, <1>3, OpensMissInv, JoinsMissInv, EditsMissInv, HandlersMissInv,
       ForwardsMissInv, PartingMissInv
    DEF Next, Kinds

\* Whoever has joined a document has each update of it that others made, or it is
\* on its way, on any number of servers (ydoc:document:join and :update).
THEOREM NobodyMisses == Spec => []NothingMissed
  <1>1. MissInv => NothingMissed
    BY DEF MissInv
  <1>2. QED
    BY <1>1, InitMissInv, NextMissInv, PTL DEF Spec

-----------------------------------------------------------------------------
(* On one server a document keeps what its editors have seen.              *)

Early == {"stopping", "stopped"}

\* What an editor has seen is in the document or has yet to be appended.
SeenKept == \A s \in Sids : s \in open =>
    \A e \in seen[s] : e \in DOMAIN edits /\ (e \in updates \/ edits[e].pc \in Early)

\* One server: its members, users and editors are the same, and no handler is
\* left between two calls of the manager.
OneServer ==
    /\ users = open /\ room = open
    /\ \A s \in Sids : joining[s] = "no"
    /\ \A p \in Sids \X Kinds : parting[p] \in {"no", "counting"}
    /\ \A h \in Hosts : bus[h] = <<>>
    /\ \A e \in DOMAIN edits : edits[e].pc # "appended"
    /\ SeenKept

ServerInv ==
    /\ MissInv
    /\ parting \in [Sids \X Kinds -> PartingSteps]
    /\ ~ redis => OneServer

\* At first the room, the document and the editors are empty.
LEMMA InitServerInv == Init => ServerInv
  <1> SUFFICES ASSUME Init PROVE ServerInv
    OBVIOUS
  <1>1. /\ users = {} /\ open = {} /\ room = {}
        /\ joining = [s \in Sids |-> "no"]
        /\ parting = [p \in Sids \X Kinds |-> "no"]
        /\ bus = [h \in Hosts |-> <<>>]
        /\ edits = <<>>
    BY DEF Init, Kinds
  <1>2. parting \in [Sids \X Kinds -> PartingSteps]
    BY <1>1 DEF PartingSteps
  <1>3. \A e \in DOMAIN edits : edits[e].pc # "appended"
    BY <1>1
  <1>4. OneServer
    BY <1>1, <1>3 DEF OneServer, SeenKept
  <1>5. QED
    BY <1>2, <1>4, InitMissInv DEF ServerInv

\* The parting handlers keep their type.
LEMMA PartingType ==
    ASSUME ServerInv, [Next]_vars
    PROVE  parting' \in [Sids \X Kinds -> PartingSteps]
  <1>1. ASSUME NEW s \in Sids, NEW kind \in Kinds, NEW step \in PartingSteps,
               PartingGoesOn(s, kind, step)
        PROVE  parting' \in [Sids \X Kinds -> PartingSteps]
    BY <1>1 DEF PartingGoesOn, ServerInv
  <1>2. ASSUME UNCHANGED parting
        PROVE  parting' \in [Sids \X Kinds -> PartingSteps]
    BY <1>2 DEF ServerInv
  <1>3. CASE UNCHANGED vars
    BY <1>2, <1>3 DEF vars, member_vars
  <1>4. ASSUME NEW s \in Sids, Opens(s) \/ Joins(s) \/ Edits(s)
        PROVE  parting' \in [Sids \X Kinds -> PartingSteps]
    BY <1>2, <1>4 DEF Opens, Joins, Edits, add_user, enter_room, get_updates, member_vars
  <1>5. ASSUME NEW s \in Sids, Leaves(s)
        PROVE  parting' \in [Sids \X Kinds -> PartingSteps]
    BY <1>1, <1>5 DEF Leaves, Kinds, PartingSteps
  <1>6. ASSUME NEW s \in Sids, disconnect(s)
        PROVE  parting' \in [Sids \X Kinds -> PartingSteps]
    BY <1>1, <1>2, <1>6 DEF disconnect, Kinds, PartingSteps
  <1>7. ASSUME NEW s \in Sids, NEW kind \in Kinds, Parts(s, kind)
        PROVE  parting' \in [Sids \X Kinds -> PartingSteps]
    <2>1. \E step \in PartingSteps : PartingGoesOn(s, kind, step)
      BY <1>7 DEF Parts, remove_user, get_users, clear_updates, clear_users, PartingSteps
    <2>2. QED
      BY <1>1, <2>1
  <1>8. ASSUME NEW e \in DOMAIN edits,
               Stopped(e) \/ append_to_updates(e) \/ Sent(e) \/ SaveCreated(e)
        PROVE  parting' \in [Sids \X Kinds -> PartingSteps]
    BY <1>2, <1>8 DEF Stopped, append_to_updates, Sent, SaveCreated, member_vars
  <1>9. CASE \E h \in Hosts : Forwards(h)
    BY <1>2, <1>9 DEF Forwards, member_vars
  <1>10. ASSUME NEW e \in DOMAIN edits, Cancels(e) \/ document_save_handler(e)
         PROVE  parting' \in [Sids \X Kinds -> PartingSteps]
    BY <1>2, <1>10, OnlySaves
  <1>11. QED
    BY <1>3, <1>4, <1>5, <1>6, <1>7, <1>8, <1>9, <1>10 DEF Next, Kinds

-----------------------------------------------------------------------------
\* On one server a handler that joins or leaves changes the room, the users and the
\* editors together.
LEMMA MembersOneServer ==
    ASSUME ServerInv, ~ redis, NEW s \in Sids, Opens(s) \/ Leaves(s) \/ disconnect(s)
    PROVE  OneServer'
  <1> /\ OneServer /\ NotesTypes
    BY DEF ServerInv, MissInv
  <1>1. UNCHANGED <<joining, edits, bus>>
    BY DEF Opens, Leaves, disconnect
  <1>2. users' = open' /\ room' = open'
    BY DEF Opens, Leaves, disconnect, EditorCloses, OneServer
  <1>3. \A p \in Sids \X Kinds : parting'[p] \in {"no", "counting"}
    <2>1. \/ parting' = parting \/ PartingGoesOn(s, "leave", "counting")
      BY DEF Opens, Leaves, disconnect
    <2>2. QED
      BY <2>1 DEF PartingGoesOn, OneServer, ServerInv, Kinds
  <1>4. SeenKept'
    <2> SUFFICES ASSUME NEW r \in Sids, r \in open', NEW e \in seen'[r]
                 PROVE  e \in DOMAIN edits /\ (e \in updates' \/ edits[e].pc \in Early)
      BY <1>1 DEF SeenKept
    <2>1. CASE Opens(s)
      <3>1. /\ updates' = updates /\ open' = open \cup {s}
            /\ seen' = [seen EXCEPT ![s] = updates]
        BY <2>1 DEF Opens
      <3>2. QED
        BY <3>1 DEF NotesTypes, OneServer, SeenKept
    <2>2. CASE Leaves(s) \/ disconnect(s)
      <3>1. /\ open' = open \ {s} /\ seen' = [seen EXCEPT ![s] = {}]
            /\ updates' = updates \/ users' = {}
        BY <2>2 DEF Leaves, disconnect, EditorCloses
      <3>2. r \in open /\ e \in seen[r] /\ users' # {}
        BY <1>2, <3>1 DEF NotesTypes
      <3>3. QED
        BY <3>1, <3>2 DEF OneServer, SeenKept
    <2>3. QED
      BY <2>1, <2>2
  <1>5. QED
    BY <1>1, <1>2, <1>3, <1>4 DEF OneServer

\* Clearing a document happens only when no editor shows it.
LEMMA PartsOneServer ==
    ASSUME ServerInv, ~ redis, NEW s \in Sids, NEW kind \in Kinds, Parts(s, kind)
    PROVE  OneServer'
  <1> OneServer
    BY DEF ServerInv
  <1>1. parting[<<s, kind>>] \in {"no", "counting"}
    BY DEF OneServer
  <1>2. get_users(s, kind) /\ UNCHANGED <<joining, open, seen, edits, bus>>
    BY <1>1 DEF Parts, remove_user, clear_updates, clear_users
  <1>3. /\ UNCHANGED <<users, room>>
        /\ PartingGoesOn(s, kind, "no")
        /\ updates' = updates \/ open = {}
    BY <1>2 DEF get_users, Abandoned, OneServer
  <1>4. \A p \in Sids \X Kinds : parting'[p] \in {"no", "counting"}
    BY <1>3 DEF PartingGoesOn, OneServer, ServerInv
  <1>5. SeenKept'
    BY <1>2, <1>3 DEF OneServer, SeenKept
  <1>6. QED
    BY <1>2, <1>3, <1>4, <1>5 DEF OneServer

\* On one server who can edit is in the document, so it keeps the edit.
LEMMA EditsOneServer ==
    ASSUME ServerInv, ~ redis, NEW s \in Sids, Edits(s)
    PROVE  OneServer'
  <1> OneServer /\ NotesTypes
    BY DEF ServerInv, MissInv
  <1>1. UNCHANGED <<users, room, open, joining, parting, updates, bus>>
    BY DEF Edits, member_vars
  <1> DEFINE new == Len(edits) + 1
  <1>2. /\ seen' = [seen EXCEPT ![s] = @ \cup {new}]
        /\ new \in DOMAIN edits' /\ edits'[new].pc = "stopping"
        /\ DOMAIN edits \subseteq DOMAIN edits'
        /\ \A e \in DOMAIN edits : edits'[e] = edits[e]
    BY EditsGrow
  <1>3. DOMAIN edits' = DOMAIN edits \cup {new}
    <2>1. edits' = Append(edits, [sid |-> s, pc |-> "stopping"])
      BY DEF Edits
    <2>2. edits \in Seq(Edit) /\ [sid |-> s, pc |-> "stopping"] \in Edit
      BY DEF NotesTypes, Edit
    <2>3. QED
      BY <2>1, <2>2
  <1>4. \A e \in DOMAIN edits' : edits'[e].pc # "appended"
    BY <1>2, <1>3 DEF OneServer
  <1>5. SeenKept'
    <2> SUFFICES ASSUME NEW r \in Sids, r \in open, NEW e \in seen'[r]
                 PROVE  e \in DOMAIN edits' /\ (e \in updates \/ edits'[e].pc \in Early)
      BY <1>1 DEF SeenKept
    <2>1. e \in seen[r] \/ e = new
      BY <1>2 DEF NotesTypes
    <2>2. QED
      BY <1>2, <2>1 DEF OneServer, SeenKept, Early
  <1>6. QED
    BY <1>1, <1>4, <1>5 DEF OneServer

\* A handler that sends an update has appended it in the same step.
LEMMA HandlersOneServer ==
    ASSUME ServerInv, ~ redis, NEW e \in DOMAIN edits,
           Stopped(e) \/ append_to_updates(e) \/ Sent(e) \/ SaveCreated(e)
    PROVE  OneServer'
  <1> OneServer /\ NotesTypes
    BY DEF ServerInv, MissInv
  <1>1. UNCHANGED <<users, room, open, joining, parting>>
    BY DEF Stopped, append_to_updates, Sent, SaveCreated, member_vars
  <1>2. ~ Sent(e)
    BY DEF Sent, OneServer
  <1>3. PICK step \in {"stopped", "sent", "over"} :
            /\ EditGoesOn(e, step)
            /\ step = "stopped" \/ e \in updates' \/ edits[e].pc = "sent"
            /\ updates' = updates \/ updates' = updates \cup {e}
            /\ \/ UNCHANGED <<bus, seen>>
               \/ Broadcast(e) /\ e \in updates'
    BY <1>2 DEF Stopped, append_to_updates, SaveCreated
  <1>4. step \in EditSteps
    BY DEF EditSteps
  <1>5. /\ DOMAIN edits' = DOMAIN edits
        /\ \A x \in DOMAIN edits : edits'[x].pc = IF x = e THEN step ELSE edits[x].pc
    BY <1>3, <1>4, EditMoves
  <1>6. /\ bus' = bus
        /\ \A s \in Sids : /\ seen'[s] \subseteq seen[s] \/ e \in updates'
                           /\ seen'[s] \subseteq seen[s] \cup {e}
    BY <1>3, BroadcastReaches
  <1>7. \A x \in DOMAIN edits' : edits'[x].pc # "appended"
    BY <1>5 DEF OneServer
  <1>8. SeenKept'
    <2> SUFFICES ASSUME NEW s \in Sids, s \in open, NEW x \in seen'[s]
                 PROVE  x \in DOMAIN edits /\ (x \in updates' \/ edits'[x].pc \in Early)
      BY <1>1, <1>5 DEF SeenKept
    <2>1. CASE x = e
      <3>1. e \in updates' \/ step = "stopped" \/ (edits[e].pc = "sent" /\ e \in seen[s])
        BY <1>3, <1>6, <2>1
      <3>2. ASSUME edits[e].pc = "sent", e \in seen[s] PROVE e \in updates
        BY <3>2 DEF OneServer, SeenKept, Early
      <3>3. QED
        BY <1>3, <1>5, <2>1, <3>1, <3>2 DEF Early
    <2>2. CASE x # e
      <3>1. x \in seen[s]
        BY <1>6, <2>2
      <3>2. QED
        BY <1>3, <1>5, <2>2, <3>1 DEF OneServer, SeenKept
    <2>3. QED
      BY <2>1, <2>2
  <1>9. QED
    BY <1>1, <1>6, <1>7, <1>8 DEF OneServer

\* Every step.
LEMMA NextServerInv == ServerInv /\ [Next]_vars => ServerInv'
  <1> SUFFICES ASSUME ServerInv, [Next]_vars
               PROVE  ServerInv'
    OBVIOUS
  <1>1. MissInv' /\ parting' \in [Sids \X Kinds -> PartingSteps]
    BY NextMissInv, PartingType DEF ServerInv
  <1>2. redis' = redis
    BY DEF Next, vars, Opens, Joins, Edits, Leaves, disconnect, Parts, Stopped,
           Cancels, append_to_updates, Sent, SaveCreated, document_save_handler, Forwards
  <1>3. ASSUME ~ redis PROVE OneServer'
    <2> OneServer
      BY <1>3 DEF ServerInv
    <2>1. ASSUME \/ UNCHANGED vars
                 \/ \E e \in DOMAIN edits : Cancels(e) \/ document_save_handler(e)
          PROVE  OneServer'
      <3>1. UNCHANGED <<users, room, open, joining, parting, bus, edits, seen, updates>>
        BY <2>1, OnlySaves DEF vars, member_vars
      <3>2. QED
        BY <3>1 DEF OneServer, SeenKept
    <2>2. ASSUME NEW s \in Sids, Joins(s) PROVE FALSE
      BY <2>2 DEF Joins, add_user, enter_room, get_updates, OneServer
    <2>3. ASSUME NEW h \in Hosts, Forwards(h) PROVE FALSE
      BY <2>3 DEF Forwards, OneServer
    <2>4. QED
      BY <1>3, <2>1, <2>2, <2>3, MembersOneServer, PartsOneServer, EditsOneServer,
         HandlersOneServer
      DEF Next, Kinds
  <1>4. QED
    BY <1>1, <1>2, <1>3 DEF ServerInv

\* On one server a document keeps what those in it have seen, whoever leaves
\* (ydoc:document:leave, remove_user_from_all_documents).
THEOREM DocumentKept == Spec => []KeptWhileOpen
  <1>1. ServerInv => KeptWhileOpen
    BY DEF ServerInv, OneServer, SeenKept, KeptWhileOpen, Joined, Early
  <1>2. QED
    BY <1>1, InitServerInv, NextServerInv, PTL DEF Spec

-----------------------------------------------------------------------------
(* The rest of the types, and the save that is never stopped.              *)

MoreTypes ==
    /\ SESSION_POOL \subseteq Sids /\ users \subseteq Sids
    /\ room \subseteq SESSION_POOL /\ open \subseteq Sids
    /\ \A s \in Sids : seen[s] \subseteq DOMAIN edits
    /\ \A h \in Hosts : bus[h] \in Seq(DOMAIN edits)
    /\ saves \subseteq DOMAIN edits /\ saved \subseteq DOMAIN edits
    /\ newest \in 0..Len(edits)

\* An edit that has stopped the saves creates one later.
Owes(e) == edits[e].pc \in {"stopped", "appended", "sent"}

\* The save of the edit that stopped saves last is owed, waits, has run or could
\* not run; or an edit is stopping saves.
NewestInv ==
    \/ newest = 0
    \/ newest \in saves \cup saved
    \/ edits[newest].sid \notin SESSION_POOL
    \/ Owes(newest)
    \/ \E e \in DOMAIN edits : edits[e].pc = "stopping"

SaveInv == ServerInv /\ MoreTypes /\ NewestInv

\* At first there is no save.
LEMMA InitSaveInv == Init => SaveInv
  <1> SUFFICES ASSUME Init PROVE SaveInv
    OBVIOUS
  <1>1. /\ SESSION_POOL = (IF redis THEN RedisSids ELSE Sids)
        /\ users = {} /\ room = {} /\ open = {} /\ edits = <<>>
        /\ seen = [s \in Sids |-> {}] /\ bus = [h \in Hosts |-> <<>>]
        /\ saves = {} /\ saved = {} /\ newest = 0
    BY DEF Init
  <1>2. SESSION_POOL \subseteq Sids
    BY <1>1, NotesAssumption
  <1>3. MoreTypes
    BY <1>1, <1>2 DEF MoreTypes
  <1>4. NewestInv
    BY <1>1 DEF NewestInv
  <1> QED
    BY <1>3, <1>4, InitServerInv DEF SaveInv

\* A step that leaves the saves alone, no edit without the save it owes, and none
\* that stops saves without going on.
LEMMA SavesRest ==
    ASSUME NewestInv, MoreTypes, UNCHANGED save_vars,
           SESSION_POOL' \subseteq SESSION_POOL,
           DOMAIN edits \subseteq DOMAIN edits', DOMAIN edits = 1..Len(edits),
           \A e \in DOMAIN edits : /\ edits'[e].sid = edits[e].sid
                                   /\ Owes(e) => Owes(e)'
                                   /\ edits[e].pc = "stopping" => edits'[e].pc = "stopping"
    PROVE  NewestInv'
  <1> SUFFICES ASSUME newest # 0, newest \notin saves \cup saved,
                      edits'[newest].sid \in SESSION_POOL'
               PROVE  Owes(newest)' \/ \E e \in DOMAIN edits' : edits'[e].pc = "stopping"
    BY DEF NewestInv, save_vars
  <1>1. newest \in DOMAIN edits
    BY DEF MoreTypes
  <1>2. edits[newest].sid \in SESSION_POOL
    BY <1>1
  <1>3. Owes(newest) \/ \E e \in DOMAIN edits : edits[e].pc = "stopping"
    BY <1>2 DEF NewestInv
  <1>4. newest' = newest
    BY DEF save_vars
  <1>5. Owes(newest) => Owes(newest)'
    BY <1>1, <1>4 DEF Owes
  <1> QED
    BY <1>3, <1>5

\* Who joins, leaves or disconnects touches neither edits nor saves.
LEMMA MembersSaveInv ==
    ASSUME SaveInv, NEW s \in Sids,
           \/ Opens(s) \/ Joins(s) \/ Leaves(s) \/ disconnect(s)
           \/ \E kind \in Kinds : Parts(s, kind)
    PROVE  MoreTypes' /\ NewestInv'
  <1> MoreTypes /\ NewestInv /\ NotesTypes
    BY DEF SaveInv, ServerInv, MissInv
  <1>1. UNCHANGED <<redis, edits, bus, saves, saved, newest>>
    BY DEF Opens, Joins, Leaves, disconnect, Parts, save_vars
  <1>2. SESSION_POOL' \subseteq SESSION_POOL
    BY DEF Opens, Joins, Leaves, disconnect, Parts, add_user, enter_room, get_updates
  <1>3. users' \subseteq Sids
    BY DEF Opens, Joins, Leaves, disconnect, Parts, add_user, enter_room, get_updates,
           remove_user, get_users, clear_updates, clear_users, MoreTypes
  <1>4. open' \subseteq Sids
    BY DEF Opens, Joins, Leaves, disconnect, Parts, add_user, enter_room, get_updates,
           EditorCloses, MoreTypes
  <1>5. room' \subseteq SESSION_POOL'
    <2>1. CASE Opens(s)
      BY <2>1 DEF Opens, MoreTypes
    <2>2. CASE Joins(s)
      BY <2>2 DEF Joins, add_user, enter_room, get_updates, Admitted, MoreTypes
    <2>3. CASE Leaves(s)
      BY <2>3 DEF Leaves, MoreTypes
    <2>4. CASE disconnect(s)
      BY <2>4 DEF disconnect, MoreTypes
    <2>5. ASSUME NEW kind \in Kinds, Parts(s, kind)
          PROVE  room' \subseteq SESSION_POOL'
      BY <2>5 DEF Parts, remove_user, get_users, clear_updates, clear_users, MoreTypes
    <2> QED
      BY <2>1, <2>2, <2>3, <2>4, <2>5
  <1>6. \A r \in Sids : seen'[r] \subseteq DOMAIN edits
    <2>1. \/ seen' = seen
          \/ seen' = [seen EXCEPT ![s] = {}]
          \/ seen' = [seen EXCEPT ![s] = updates]
          \/ seen' = [seen EXCEPT ![s] = seen[s] \cup updates]
      <3>1. Opens(s) => seen' = seen \/ seen' = [seen EXCEPT ![s] = updates]
        BY DEF Opens
      <3>2. Joins(s) => seen' = seen \/ seen' = [seen EXCEPT ![s] = seen[s] \cup updates]
        <4>1. ASSUME get_updates(s)
              PROVE  seen' = seen \/ seen' = [seen EXCEPT ![s] = seen[s] \cup updates]
          BY <4>1 DEF get_updates, NotesTypes
        <4> QED
          BY <4>1 DEF Joins, add_user, enter_room
      <3>3. Leaves(s) \/ disconnect(s) => seen' = [seen EXCEPT ![s] = {}]
        BY DEF Leaves, disconnect, EditorCloses
      <3>4. \A kind \in Kinds : Parts(s, kind) => seen' = seen
        BY DEF Parts
      <3> QED
        BY <3>1, <3>2, <3>3, <3>4
    <2> QED
      BY <2>1 DEF NotesTypes, MoreTypes
  <1>7. MoreTypes'
    BY <1>1, <1>2, <1>3, <1>4, <1>5, <1>6 DEF MoreTypes
  <1>8. NewestInv'
    <2>1. UNCHANGED <<redis, save_vars>> /\ edits' = edits
      BY <1>1 DEF save_vars
    <2>2. DOMAIN edits = 1..Len(edits)
      BY DEF NotesTypes
    <2>3. \A e \in DOMAIN edits : Owes(e) => Owes(e)'
      BY <2>1 DEF Owes
    <2> QED
      BY <1>2, <2>1, <2>2, <2>3, SavesRest
  <1> QED
    BY <1>7, <1>8

\* A new edit owes nothing yet.
LEMMA EditsSaveInv ==
    ASSUME SaveInv, NEW s \in Sids, Edits(s)
    PROVE  MoreTypes' /\ NewestInv'
  <1> MoreTypes /\ NewestInv /\ NotesTypes
    BY DEF SaveInv, ServerInv, MissInv
  <1> DEFINE new == Len(edits) + 1
  <1>1. UNCHANGED <<redis, SESSION_POOL, users, room, open, bus, save_vars>>
    BY DEF Edits, member_vars
  <1>2. /\ seen' = [seen EXCEPT ![s] = @ \cup {new}]
        /\ new \in DOMAIN edits' /\ DOMAIN edits \subseteq DOMAIN edits'
        /\ \A e \in DOMAIN edits : edits'[e] = edits[e]
    BY EditsGrow
  <1>3. edits' \in Seq(Edit) /\ Len(edits') \in Nat /\ DOMAIN edits' = 1..Len(edits')
        /\ DOMAIN edits = 1..Len(edits) /\ Len(edits) \in Nat
    BY EditsGrow DEF NotesTypes
  <1>4. Len(edits) <= Len(edits')
    BY <1>2, <1>3
  <1>5. \A r \in Sids : seen'[r] \subseteq DOMAIN edits'
    BY <1>2 DEF MoreTypes, NotesTypes
  <1>6. Seq(DOMAIN edits) \subseteq Seq(DOMAIN edits')
    BY <1>2
  <1>7. MoreTypes'
    <2>1. bus' = bus /\ saves' = saves /\ saved' = saved /\ newest' = newest
      BY <1>1 DEF save_vars
    <2>2. \A h \in Hosts : bus'[h] \in Seq(DOMAIN edits')
      BY <1>6, <2>1 DEF MoreTypes
    <2>3. /\ saves' \subseteq DOMAIN edits' /\ saved' \subseteq DOMAIN edits'
          /\ newest' \in 0..Len(edits')
      BY <1>2, <1>3, <1>4, <2>1 DEF MoreTypes
    <2> QED
      BY <1>1, <1>5, <2>2, <2>3 DEF MoreTypes
  <1>8. \A e \in DOMAIN edits : Owes(e) => Owes(e)'
    BY <1>2 DEF Owes
  <1>9. NewestInv'
    BY <1>1, <1>2, <1>3, <1>8, SavesRest
  <1> QED
    BY <1>7, <1>9

\* A broadcast sends an edit there is.
LEMMA BroadcastTypes ==
    ASSUME MoreTypes, NotesTypes, NEW e \in DOMAIN edits, Broadcast(e)
    PROVE  /\ \A s \in Sids : seen'[s] \subseteq DOMAIN edits
           /\ \A h \in Hosts : bus'[h] \in Seq(DOMAIN edits)
  <1>1. \A s \in Sids : seen'[s] \subseteq seen[s] \cup {e}
    BY BroadcastReaches
  <1>2. \A h \in Hosts : bus'[h] = bus[h] \/ bus'[h] = Append(bus[h], e)
    BY DEF Broadcast
  <1>3. \A h \in Hosts : Append(bus[h], e) \in Seq(DOMAIN edits)
    BY DEF MoreTypes
  <1> QED
    BY <1>1, <1>2, <1>3 DEF MoreTypes

\* The last to stop saves owes one, and creates it when no other is to come.
LEMMA HandlersSaveInv ==
    ASSUME SaveInv, NEW e \in DOMAIN edits,
           Stopped(e) \/ append_to_updates(e) \/ Sent(e) \/ SaveCreated(e)
    PROVE  MoreTypes' /\ NewestInv'
  <1> MoreTypes /\ NewestInv /\ NotesTypes
    BY DEF SaveInv, ServerInv, MissInv
  <1>1. UNCHANGED <<redis, SESSION_POOL, users, room, open, saved>>
    BY DEF Stopped, append_to_updates, Sent, SaveCreated, member_vars, save_vars
  <1>2. PICK step \in EditSteps : EditGoesOn(e, step)
    BY DEF Stopped, append_to_updates, Sent, SaveCreated, EditSteps
  <1>3. /\ edits' \in Seq(Edit) /\ DOMAIN edits' = DOMAIN edits
        /\ \A x \in DOMAIN edits :
             /\ edits'[x].sid = edits[x].sid
             /\ edits'[x].pc = IF x = e THEN step ELSE edits[x].pc
    BY <1>2, EditMoves
  <1>4. /\ DOMAIN edits = 1..Len(edits) /\ Len(edits) \in Nat
        /\ Len(edits') = Len(edits) /\ Len(edits') \in Nat
    BY <1>3 DEF NotesTypes
  <1>5. /\ \A s \in Sids : seen'[s] \subseteq DOMAIN edits
        /\ \A h \in Hosts : bus'[h] \in Seq(DOMAIN edits)
    <2>1. Broadcast(e) \/ UNCHANGED <<seen, bus>>
      BY DEF Stopped, append_to_updates, Sent, SaveCreated
    <2> QED
      BY <2>1, BroadcastTypes DEF MoreTypes
  <1>6. ASSUME saves' \subseteq DOMAIN edits, newest' \in 0..Len(edits)
        PROVE  MoreTypes'
    BY <1>1, <1>3, <1>4, <1>5, <1>6 DEF MoreTypes
  <1>7. CASE Stopped(e)
    <2>1. newest' = e /\ EditGoesOn(e, "stopped") /\ saves' = saves
      BY <1>7 DEF Stopped
    <2>2. edits'[e].pc = "stopped"
      BY <2>1, EditMoves DEF EditSteps
    <2>3. Owes(newest)'
      BY <2>1, <2>2 DEF Owes
    <2>4. newest' \in 0..Len(edits)
      BY <1>4, <2>1
    <2> QED
      BY <1>6, <2>1, <2>3, <2>4 DEF MoreTypes, NewestInv
  <1>8. CASE append_to_updates(e) \/ Sent(e)
    <2>1. UNCHANGED save_vars
      BY <1>8 DEF append_to_updates, Sent
    <2>2. /\ EditGoesOn(e, "appended") \/ EditGoesOn(e, "sent")
          /\ edits[e].pc \in {"stopped", "appended"}
      BY <1>8 DEF append_to_updates, Sent
    <2>3. /\ edits'[e].pc \in {"appended", "sent"}
          /\ \A x \in DOMAIN edits : x # e => edits'[x].pc = edits[x].pc
      BY <2>2, EditMoves DEF EditSteps
    <2>4. \A x \in DOMAIN edits : /\ Owes(x) => Owes(x)'
                                  /\ edits[x].pc = "stopping" => edits'[x].pc = "stopping"
      BY <2>2, <2>3 DEF Owes
    <2>5. NewestInv'
      BY <1>1, <1>3, <1>4, <2>1, <2>4, SavesRest
    <2> QED
      BY <1>6, <2>1, <2>5 DEF MoreTypes, save_vars
  <1>9. CASE SaveCreated(e)
    <2>1. saves' = saves \cup {e} /\ newest' = newest /\ EditGoesOn(e, "over")
      BY <1>9 DEF SaveCreated, SavesWith
    <2>2. \A x \in DOMAIN edits : x # e => edits'[x].pc = edits[x].pc
      BY <2>1, EditMoves DEF EditSteps
    <2>3. NewestInv'
      <3> SUFFICES ASSUME newest # 0, newest \notin saves' \cup saved,
                          edits'[newest].sid \in SESSION_POOL'
                   PROVE  Owes(newest)' \/ \E x \in DOMAIN edits' : edits'[x].pc = "stopping"
        BY <1>1, <2>1 DEF NewestInv
      <3>1. newest \in DOMAIN edits /\ newest # e
        BY <1>4, <2>1 DEF MoreTypes
      <3>2. Owes(newest) \/ \E x \in DOMAIN edits : edits[x].pc = "stopping"
        BY <1>1, <1>3, <2>1, <3>1 DEF NewestInv
      <3>3. edits[e].pc = "sent"
        BY <1>9 DEF SaveCreated
      <3> QED
        BY <1>3, <2>1, <2>2, <3>1, <3>2, <3>3 DEF Owes
    <2> QED
      BY <1>4, <1>6, <2>1, <2>3 DEF MoreTypes
  <1> QED
    BY <1>7, <1>8, <1>9

\* The first element of a sequence, and what is left without it.
LEMMA FirstAndRest ==
    ASSUME NEW S, NEW s \in Seq(S), s # <<>>
    PROVE  Head(s) \in S /\ Tail(s) \in Seq(S)
  OBVIOUS

\* A save that runs is done, unless its editor's session is gone; one that is
\* cancelled has an edit that is stopping saves.
LEMMA SaveEnds ==
    ASSUME SaveInv, NEW e \in DOMAIN edits, Cancels(e) \/ document_save_handler(e)
    PROVE  MoreTypes' /\ NewestInv'
  <1> MoreTypes /\ NewestInv
    BY DEF SaveInv
  <1>1. /\ UNCHANGED <<SESSION_POOL, users, room, open, seen, edits, bus, newest>>
        /\ saves' \subseteq saves /\ saved \subseteq saved' /\ saved' \subseteq saved \cup {e}
    BY OnlySaves DEF Cancels, document_save_handler
  <1>2. MoreTypes'
    BY <1>1 DEF MoreTypes
  <1>3. ASSUME Cancels(e)
        PROVE  NewestInv'
    <2>1. e \in DOMAIN edits' /\ edits'[e].pc = "stopping"
      BY <1>1, <1>3 DEF Cancels
    <2> QED
      BY <2>1 DEF NewestInv
  <1>4. ASSUME document_save_handler(e)
        PROVE  NewestInv'
    <2>1. /\ saves' = saves \ {e}
          /\ e \in saved' \/ edits[e].sid \notin SESSION_POOL
      BY <1>4 DEF document_save_handler
    <2>2. Owes(newest) => Owes(newest)'
      BY <1>1 DEF Owes
    <2> QED
      BY <1>1, <2>1, <2>2 DEF NewestInv
  <1> QED
    BY <1>2, <1>3, <1>4

\* Forwarding gives members edits there are.
LEMMA ForwardsSaveInv ==
    ASSUME SaveInv, NEW h \in Hosts, Forwards(h)
    PROVE  MoreTypes' /\ NewestInv'
  <1> MoreTypes /\ NewestInv /\ NotesTypes
    BY DEF SaveInv, ServerInv, MissInv
  <1>1. /\ bus[h] # <<>> /\ bus' = [bus EXCEPT ![h] = Tail(@)]
        /\ \A s \in Sids : seen'[s] \subseteq seen[s] \cup {Head(bus[h])}
        /\ UNCHANGED <<redis, SESSION_POOL, users, room, open, edits, save_vars>>
    BY DEF Forwards, member_vars
  <1>2. bus[h] \in Seq(DOMAIN edits)
    BY DEF MoreTypes
  <1>3. Head(bus[h]) \in DOMAIN edits /\ Tail(bus[h]) \in Seq(DOMAIN edits)
    BY <1>1, <1>2, FirstAndRest
  <1>4. \A x \in Hosts : bus'[x] \in Seq(DOMAIN edits)
    BY <1>1, <1>3 DEF MoreTypes, NotesTypes
  <1>5. MoreTypes'
    BY <1>1, <1>3, <1>4 DEF MoreTypes, save_vars
  <1>6. DOMAIN edits = 1..Len(edits) /\ \A e \in DOMAIN edits : Owes(e) => Owes(e)'
    BY <1>1 DEF NotesTypes, Owes
  <1>7. NewestInv'
    BY <1>1, <1>6, SavesRest
  <1> QED
    BY <1>5, <1>7

\* Every step keeps the types, and the save of the last stop in sight.
LEMMA NextSaveInv == SaveInv /\ [Next]_vars => SaveInv'
  <1> SUFFICES ASSUME SaveInv, [Next]_vars
               PROVE  SaveInv'
    OBVIOUS
  <1>1. ServerInv'
    BY NextServerInv DEF SaveInv
  <1>2. MoreTypes' /\ NewestInv'
    <2> DEFINE Kept == MoreTypes' /\ NewestInv'
    <2> SUFFICES Kept
      OBVIOUS
    <2>1. CASE UNCHANGED vars
      <3>1. /\ UNCHANGED <<redis, SESSION_POOL, users, room, open, seen, edits, bus>>
            /\ UNCHANGED save_vars
        BY <2>1 DEF vars, member_vars
      <3>2. saves' = saves /\ newest' = newest /\ saved' = saved
        BY <3>1 DEF save_vars
      <3>3. MoreTypes'
        BY <3>1, <3>2 DEF SaveInv, MoreTypes
      <3>4. NewestInv'
        BY <3>1, <3>2 DEF SaveInv, NewestInv, Owes
      <3> QED
        BY <3>3, <3>4
    <2>2. ASSUME NEW s \in Sids, Opens(s) \/ Joins(s) \/ Leaves(s) \/ disconnect(s)
          PROVE  Kept
      BY <2>2, MembersSaveInv
    <2>3. ASSUME NEW s \in Sids, NEW kind \in Kinds, Parts(s, kind)
          PROVE  Kept
      BY <2>3, MembersSaveInv
    <2>4. ASSUME NEW s \in Sids, Edits(s)
          PROVE  Kept
      BY <2>4, EditsSaveInv
    <2>5. ASSUME NEW e \in DOMAIN edits,
                 Stopped(e) \/ append_to_updates(e) \/ Sent(e) \/ SaveCreated(e)
          PROVE  Kept
      BY <2>5, HandlersSaveInv
    <2>6. ASSUME NEW e \in DOMAIN edits, Cancels(e) \/ document_save_handler(e)
          PROVE  Kept
      BY <2>6, SaveEnds
    <2>7. ASSUME NEW h \in Hosts, Forwards(h)
          PROVE  Kept
      BY <2>7, ForwardsSaveInv
    <2> HIDE DEF Kept
    <2> QED
      BY <2>1, <2>2, <2>3, <2>4, <2>5, <2>6, <2>7 DEF Next, Kinds
  <1> QED
    BY <1>1, <1>2 DEF SaveInv

\* The invariant holds of every run of the ydoc handlers.
LEMMA SaveInvariant == Spec => []SaveInv
  BY InitSaveInv, NextSaveInv, PTL DEF Spec

\* What the manager, the editors, the servers and the saves hold are edits that
\* were made, and only connections with a session are in the room.
THEOREM NotesTypesCorrect == Spec => []TypeOK
  <1>1. SaveInv => TypeOK
    <2> SUFFICES ASSUME SaveInv PROVE TypeOK
      OBVIOUS
    <2>1. MoreTypes /\ NotesTypes /\ parting \in [Sids \X Kinds -> PartingSteps]
      BY DEF SaveInv, ServerInv, MissInv
    <2>2. seen \in [Sids -> SUBSET DOMAIN edits] /\ bus \in [Hosts -> Seq(DOMAIN edits)]
      BY <2>1 DEF MoreTypes, NotesTypes
    <2> QED
      BY <2>1, <2>2 DEF MoreTypes, NotesTypes, TypeOK, Kinds
  <1> QED
    BY <1>1, SaveInvariant, PTL

\* For any sessions, servers and edits, with Redis or without: once the handlers
\* are done, the text of the edit that stopped saves last is saved or waits to be,
\* unless its editor is gone (yjs_document_update, document_save_handler).
THEOREM LastStopIsSaved == Spec => []LastStopSaved
  <1>1. SaveInv => LastStopSaved
    <2> SUFFICES ASSUME SaveInv, \A e \in DOMAIN edits : edits[e].pc = "over",
                        newest # 0, edits[newest].sid \in SESSION_POOL
                 PROVE  newest \in saves \cup saved
      BY DEF LastStopSaved
    <2>1. newest \in DOMAIN edits
      BY DEF SaveInv, ServerInv, MissInv, MoreTypes, NotesTypes
    <2>2. ~ Owes(newest)
      BY <2>1 DEF Owes
    <2> QED
      BY <2>2 DEF SaveInv, NewestInv
  <1> QED
    BY <1>1, SaveInvariant, PTL
=============================================================================
