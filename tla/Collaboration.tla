--------------------------- MODULE Collaboration ----------------------------
(***************************************************************************)
(* Shared rooms: the server's room table and its peers (apps/server        *)
(* routes/collab.ts, websocketCollab.ts), the document of core/collabDoc,  *)
(* and the web client's store (apps/web stores/collab.svelte.ts).          *)
(*                                                                         *)
(* A session is one joinRoom: a token from POST /join, a fresh local       *)
(* document, then a socket.  An update is <<session, n>>, its nth edit; a  *)
(* document is the set of updates it has received, of which Yjs applies    *)
(* those whose predecessors it has.  Edits set values, and a client's own  *)
(* keep its document to the schema; a bare deletion, which waits for no    *)
(* predecessor, and presence, a broadcast of the peers' table, are left    *)
(* out.                                                                    *)
(***************************************************************************)
EXTENDS Naturals, FiniteSets, Sequences

CONSTANTS
  Sessions,
  Rooms,
  MaxRooms,   \* MAX_ACTIVE_ROOMS
  MaxPeers,   \* MAX_PEERS_PER_ROOM
  MaxEdits,   \* bound on the edits of a session
  NoRoom

ASSUME CollabAssumption ==
  /\ {MaxRooms, MaxPeers, MaxEdits} \subseteq Nat \ {0}
  /\ NoRoom \notin Rooms /\ \A D \in SUBSET (Sessions \X (1..MaxEdits)) : D # NoRoom

VARIABLES
  table,     \* the document of each room in the manager's map, or NoRoom
  session,   \* where each session stands: its room, role and local document
  toServer,  \* frames on the way from a session
  toClient   \* frames on the way to it: each a set of updates

collabVars == <<table, session, toServer, toClient>>

Outside == [pc |-> "out", room |-> NoRoom, role |-> "viewer", doc |-> {}, edits |-> 0,
            sent |-> {}]

CollabInit ==
  /\ table = [r \in Rooms |-> NoRoom]
  /\ session = [s \in Sessions |-> Outside]
  /\ toServer = [s \in Sessions |-> <<>>]
  /\ toClient = [s \in Sessions |-> <<>>]

(* The peers map: from the upgrade until the server sees the close.        *)
Peers(r) == {s \in Sessions : session[s].room = r /\ session[s].pc \in {"attached", "open", "left"}}

(* The peers whose socket is still open, to which a frame is sent.         *)
Reachable(r) == {s \in Peers(r) : session[s].pc # "left"}

(* Mutant of Evictable: the room is chosen by its age alone.               *)
EvictableOld == {r \in Rooms : table[r] # NoRoom}

(* Which of the empty rooms is the oldest is left open.                    *)
Evictable == {r \in Rooms : table[r] # NoRoom /\ Peers(r) = {}}

(* getOrCreateRoom: the tables that may result; none when it throws.       *)
WithRoom(r) ==
  LET live == {q \in Rooms : table[q] # NoRoom}
  IN IF r \in live THEN {table}
     ELSE IF Cardinality(live) < MaxRooms THEN {[table EXCEPT ![r] = {}]}
     ELSE {[table EXCEPT ![r] = {}, ![old] = NoRoom] : old \in Evictable}

Goto(s, pc) == session' = [session EXCEPT ![s].pc = pc]

-----------------------------------------------------------------------------
(* POST /join, and the fresh document; a request for a privileged role     *)
(* that is not authorized is served as a viewer's.                         *)
Join(s, r, role) ==
  /\ session[s].pc = "out"
  /\ \/ /\ table' \in WithRoom(r)
        /\ session' = [session EXCEPT ![s] = [Outside EXCEPT !.pc = "joined", !.room = r,
                                                             !.role = role]]
     \/ WithRoom(r) = {} /\ Goto(s, "closed") /\ UNCHANGED table
  /\ UNCHANGED <<toServer, toClient>>

(* The upgrade: getOrCreateRoom once more, for the room may be gone; the   *)
(* whole document is sent first.                                           *)
Attach(s) ==
  LET r == session[s].room
  IN /\ session[s].pc = "joined"
     /\ \E t \in WithRoom(r) :
          /\ table' = t
          /\ IF Cardinality(Peers(r)) >= MaxPeers
             THEN Goto(s, "closed") /\ UNCHANGED toClient
             ELSE /\ Goto(s, "attached")
                  /\ toClient' = [toClient EXCEPT ![s] = <<t[r]>>]
     /\ UNCHANGED toServer

ClientOpens(s) ==
  /\ session[s].pc = "attached"
  /\ Goto(s, "open")
  /\ UNCHANGED <<table, toServer, toClient>>

(* A sync call of the store: the local document changes; the update is     *)
(* sent if the socket is open at that moment, and never again.             *)
Edit(s) ==
  LET u == <<s, session[s].edits + 1>>
      open == session[s].pc = "open"
  IN /\ session[s].pc \in {"joined", "attached", "open"}
     /\ session[s].edits < MaxEdits
     /\ session' = [session EXCEPT ![s].edits = @ + 1,
                                   ![s].doc = @ \cup {u},
                                   ![s].sent = IF open THEN @ \cup {u} ELSE @]
     /\ toServer' = IF open THEN [toServer EXCEPT ![s] = Append(@, u)] ELSE toServer
     /\ UNCHANGED <<table, toClient>>

(* A binary frame: a viewer's is dropped, another's applied and passed on. *)
ServerReceives(s) ==
  LET r == session[s].room
      u == Head(toServer[s])
  IN /\ toServer[s] # <<>>
     /\ toServer' = [toServer EXCEPT ![s] = Tail(@)]
     /\ IF session[s].role = "viewer" THEN UNCHANGED <<table, toClient>>
        ELSE /\ table' = [table EXCEPT ![r] = @ \cup {u}]
             /\ toClient' = [p \in Sessions |->
                  IF p \in Reachable(r) \ {s} THEN Append(toClient[p], {u}) ELSE toClient[p]]
     /\ UNCHANGED session

(* A frame over 64 KB, or an update of a session that may write which the  *)
(* staged copy of the room's document cannot take, is not applied, and the *)
(* server closes the socket.  What is on its way to the server still       *)
(* arrives; what the client edits and reads before it sees the close could *)
(* as well have come before the frame.                                     *)
ServerRejects(s) ==
  /\ toServer[s] # <<>>
  /\ toServer' = [toServer EXCEPT ![s] = Tail(@)]
  /\ Goto(s, "left")
  /\ toClient' = [toClient EXCEPT ![s] = <<>>]
  /\ UNCHANGED table

(* A remote update is applied and, by its origin, not sent back.           *)
ClientReceives(s) ==
  /\ session[s].pc = "open" /\ toClient[s] # <<>>
  /\ session' = [session EXCEPT ![s].doc = @ \cup Head(toClient[s])]
  /\ toClient' = [toClient EXCEPT ![s] = Tail(@)]
  /\ UNCHANGED <<table, toServer>>

(* The client's socket goes, by leaveRoom or by the network; what it sent  *)
(* may still arrive, and the server sees the close some time later.        *)
ClientLeaves(s) ==
  /\ session[s].pc \in {"attached", "open"}
  /\ Goto(s, "left")
  /\ toClient' = [toClient EXCEPT ![s] = <<>>]
  /\ UNCHANGED <<table, toServer>>

ServerSeesClose(s) ==
  /\ session[s].pc = "left"
  /\ Goto(s, "closed")
  /\ toServer' = [toServer EXCEPT ![s] = <<>>]
  /\ UNCHANGED <<table, toClient>>

(* A room empty for an hour; the tokens issued for it have expired too.    *)
CleanupIdleRoom(r) ==
  /\ r \in Evictable
  /\ table' = [table EXCEPT ![r] = NoRoom]
  /\ session' = [s \in Sessions |->
       IF session[s].room = r /\ session[s].pc = "joined"
       THEN [session[s] EXCEPT !.pc = "closed"] ELSE session[s]]
  /\ UNCHANGED <<toServer, toClient>>

(* getOrCreateRoom throws in the upgrade handler, and nothing handles the  *)
(* rejection: the process ends.  Tokens outlive it if its secret does.     *)
UpgradeThrows ==
  /\ \E s \in Sessions : session[s].pc = "joined" /\ WithRoom(session[s].room) = {}
  /\ table' = [r \in Rooms |-> NoRoom]
  /\ \E spared \in {{"out"}, {"out", "joined"}} :
       session' = [s \in Sessions |->
         IF session[s].pc \in spared THEN session[s] ELSE [session[s] EXCEPT !.pc = "closed"]]
  /\ toServer' = [s \in Sessions |-> <<>>]
  /\ toClient' = [s \in Sessions |-> <<>>]

SessionStep(s) ==
  \/ \E r \in Rooms, role \in {"viewer", "operator"} : Join(s, r, role)
  \/ Attach(s) \/ ClientOpens(s) \/ Edit(s)
  \/ ServerReceives(s) \/ ServerRejects(s) \/ ClientReceives(s)
  \/ ClientLeaves(s) \/ ServerSeesClose(s)

CollabNext ==
  \/ \E s \in Sessions : SessionStep(s)
  \/ \E r \in Rooms : CleanupIdleRoom(r)
  \/ UpgradeThrows

CollabSpec == CollabInit /\ [][CollabNext]_collabVars

-----------------------------------------------------------------------------
Updates == Sessions \X (1..MaxEdits)

(* The types, and that the map and a room's peers keep to their limits.    *)
CollabTypeOK ==
  /\ table \in [Rooms -> (SUBSET Updates) \cup {NoRoom}]
  /\ Cardinality({r \in Rooms : table[r] # NoRoom}) <= MaxRooms
  /\ \A r \in Rooms : Cardinality(Peers(r)) <= MaxPeers
  /\ session \in [Sessions ->
       [pc : {"out", "joined", "attached", "open", "left", "closed"}, room : Rooms \cup {NoRoom},
        role : {"viewer", "operator"}, doc : SUBSET Updates, edits : 0..MaxEdits,
        sent : SUBSET Updates]]

Settled(r) == \A s \in Peers(r) : session[s].pc = "open" /\ toServer[s] = <<>> /\ toClient[s] = <<>>

(* What Yjs shows of a document: an update stays pending while it lacks an *)
(* earlier one of the same session.                                        *)
Shown(doc) == {u \in doc : \A n \in 1..u[2] : <<u[1], n>> \in doc}

(* What a session's room will never show of its edits: a viewer's, those   *)
(* made while the socket was not open, and every later one.                *)
Unshared(s) ==
  {u \in session[s].doc : u[1] = s /\ (\/ session[s].role = "viewer"
                                      \/ \E n \in 1..u[2] : <<s, n>> \notin session[s].sent)}

(* Whatever order the updates, joins, evictions and closes came in: a room *)
(* with peers is in the map, and once no frame is on its way every peer    *)
(* has all of the room's document, shows what the room shows, and nothing  *)
(* besides but its own edits from the first unsent one on                  *)
(* (handleWebSocketPeer, getOrCreateRoom, applyValidatedUpdate).           *)
RoomConverges ==
  \A r \in Rooms : Peers(r) # {} =>
    /\ table[r] # NoRoom
    /\ Settled(r) =>
         \A s \in Peers(r) :
           /\ table[r] \subseteq session[s].doc
           /\ Shown(table[r]) \subseteq Shown(session[s].doc)
           /\ Shown(session[s].doc) \ Shown(table[r]) = Unshared(s)

=============================================================================
