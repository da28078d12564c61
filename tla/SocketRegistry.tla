---------------------------- MODULE SocketRegistry ----------------------------
(***************************************************************************)
(* The websocket gateway and the registry it keeps in Redis: under every   *)
(* user the ids of the user's sockets, from which SocketService.sendTo     *)
(* takes the sockets to send to.  Connecting and disconnecting both read   *)
(* the list, change their copy and write it back, with other handlers of   *)
(* every server process between the two calls.  The list expires an hour   *)
(* after its last write; an expired list reads as an empty one.            *)
(***************************************************************************)
CONSTANTS
  Sockets,  \* the socket ids, a new one for every connection
  Users,    \* the accounts
  Servers,  \* the server processes
  User,     \* User[s], the account whose session socket s presents
  Host      \* Host[s], the process that socket s is connected to

ASSUME RegistryAssumption ==
  /\ User \in [Sockets -> Users]
  /\ Host \in [Sockets -> Servers]

VARIABLES
  link,      \* link[s], the transport of socket s
  session,   \* the sockets whose socket.session names their user
  clients,   \* the sockets in the clients Map of their process
  registry,  \* registry[u], the ids under UserSocketClients of user u
  gets,      \* the handlers that are waiting to read the list
  sets,      \* the handlers that are waiting to write it, with what
  causes     \* causes[u], what has disturbed the list of user u so far

vars == <<link, session, clients, registry, gets, sets, causes>>

Events == {"connect", "disconnect"}
Causes == {"overlap", "expired", "failed", "crash", "nulled"}

TypeOK ==
  /\ link \in [Sockets -> {"new", "open", "closed"}]
  /\ session \subseteq Sockets
  /\ clients \subseteq Sockets
  /\ registry \in [Users -> SUBSET Sockets]
  /\ gets \subseteq [socket : Sockets, event : Events]
  /\ sets \subseteq [socket : Sockets, event : Events, ids : SUBSET Sockets]
  /\ causes \in [Users -> SUBSET Causes]

Init ==
  /\ link = [s \in Sockets |-> "new"]
  /\ session = {}
  /\ clients = {}
  /\ registry = [u \in Users |-> {}]
  /\ gets = {}
  /\ sets = {}
  /\ causes = [u \in Users |-> {}]

Handler(s, event) == [socket |-> s, event |-> event]
Write(s, event, ids) == [socket |-> s, event |-> event, ids |-> ids]

Disturb(us, cause) ==
  causes' = [u \in Users |->
               IF u \in us THEN causes[u] \union {cause} ELSE causes[u]]

\* The list is read while another handler is about to write it.
NoteOverlap(u) ==
  Disturb({v \in {u} : \E w \in sets : User[w.socket] = v}, "overlap")

-------------------------------------------------------------------------------
(* Connecting. *)

\* The middleware finds the session, and handleConnection enters the socket
\* in the Map before its first await.
Connect(s) ==
  /\ link[s] = "new"
  /\ link' = [link EXCEPT ![s] = "open"]
  /\ session' = session \union {s}
  /\ clients' = clients \union {s}
  /\ gets' = gets \union {Handler(s, "connect")}
  /\ UNCHANGED <<registry, sets, causes>>

\* The middleware finds no session.
Refuse(s) ==
  /\ link[s] = "new"
  /\ link' = [link EXCEPT ![s] = "closed"]
  /\ UNCHANGED <<session, clients, registry, gets, sets, causes>>

\* Faulty variants: the list is replaced instead of extended, a list that has
\* a socket is left alone, and the user's id is entered in place of the socket's.
ConnectGetReplaces(s) ==
  /\ Handler(s, "connect") \in gets
  /\ gets' = gets \ {Handler(s, "connect")}
  /\ sets' = sets \union {Write(s, "connect", {s})}
  /\ NoteOverlap(User[s])
  /\ UNCHANGED <<link, session, clients, registry>>
ConnectGetFirst(s) ==
  /\ Handler(s, "connect") \in gets
  /\ gets' = gets \ {Handler(s, "connect")}
  /\ sets' = IF registry[User[s]] = {}
             THEN sets \union {Write(s, "connect", {s})} ELSE sets
  /\ NoteOverlap(User[s])
  /\ UNCHANGED <<link, session, clients, registry>>
ConnectGetUserId(s) ==
  /\ Handler(s, "connect") \in gets
  /\ gets' = gets \ {Handler(s, "connect")}
  /\ sets' = sets \union
               {Write(s, "connect", registry[User[s]] \union {User[s]})}
  /\ NoteOverlap(User[s])
  /\ UNCHANGED <<link, session, clients, registry>>

ConnectGet(s) ==
  /\ Handler(s, "connect") \in gets
  /\ gets' = gets \ {Handler(s, "connect")}
  /\ sets' = sets \union
               {Write(s, "connect", registry[User[s]] \union {s})}
  /\ NoteOverlap(User[s])
  /\ UNCHANGED <<link, session, clients, registry>>

-------------------------------------------------------------------------------
(* Disconnecting. *)

\* Faulty variant: the early return comes before the Map is updated.
DisconnectReturnsFirst(s) ==
  /\ link[s] = "open"
  /\ link' = [link EXCEPT ![s] = "closed"]
  /\ clients' = IF s \in session THEN clients \ {s} ELSE clients
  /\ gets' = IF s \in session THEN gets \union {Handler(s, "disconnect")}
             ELSE gets
  /\ UNCHANGED <<session, registry, sets, causes>>

\* The socket closes, by itself or because the guard of handleMessage could
\* not read its session.  handleDisconnect drops it from the Map, and goes on
\* only when socket.session still names the user.
Disconnect(s) ==
  /\ link[s] = "open"
  /\ link' = [link EXCEPT ![s] = "closed"]
  /\ clients' = clients \ {s}
  /\ gets' = IF s \in session THEN gets \union {Handler(s, "disconnect")}
             ELSE gets
  /\ UNCHANGED <<session, registry, sets, causes>>

\* Faulty variant: the list is written back with the socket still on it.
DisconnectGetKeepsId(s) ==
  /\ Handler(s, "disconnect") \in gets
  /\ Handler(s, "connect") \notin gets
  /\ gets' = gets \ {Handler(s, "disconnect")}
  /\ sets' = IF s \in registry[User[s]]
             THEN sets \union {Write(s, "disconnect", registry[User[s]])}
             ELSE sets
  /\ NoteOverlap(User[s])
  /\ UNCHANGED <<link, session, clients, registry>>

\* The list is written only when the socket is on it.  The reads of one
\* process reach Redis in the order they were made.
DisconnectGet(s) ==
  /\ Handler(s, "disconnect") \in gets
  /\ Handler(s, "connect") \notin gets
  /\ gets' = gets \ {Handler(s, "disconnect")}
  /\ sets' = IF s \in registry[User[s]]
             THEN sets \union
                    {Write(s, "disconnect", registry[User[s]] \ {s})}
             ELSE sets
  /\ NoteOverlap(User[s])
  /\ UNCHANGED <<link, session, clients, registry>>

\* Either handler writes its copy back.
SetList(w) ==
  /\ w \in sets
  /\ sets' = sets \ {w}
  /\ registry' = [registry EXCEPT ![User[w.socket]] = w.ids]
  /\ UNCHANGED <<link, session, clients, gets, causes>>

-------------------------------------------------------------------------------
(* What else happens to a socket and its list. *)

\* A message arrives after the session has expired: the guard stores the null
\* it was answered in socket.session, and the message is handled.
GuardNulls(s) ==
  /\ link[s] = "open" /\ s \in session
  /\ session' = session \ {s}
  /\ Disturb({User[s]}, "nulled")
  /\ UNCHANGED <<link, clients, registry, gets, sets>>

\* Redis rejects a read or a write of a handler, which ends there.
CallFails(h) ==
  /\ h \in gets \union sets
  /\ gets' = gets \ {h}
  /\ sets' = sets \ {h}
  /\ Disturb({User[h.socket]}, "failed")
  /\ UNCHANGED <<link, session, clients, registry>>

\* An hour has passed since the list was written.
Expire(u) ==
  /\ registry[u] # {}
  /\ registry' = [registry EXCEPT ![u] = {}]
  /\ Disturb({u}, "expired")
  /\ UNCHANGED <<link, session, clients, gets, sets>>

\* A server process dies with its sockets, its Map and its handlers.
Crash(p) ==
  LET lost == {s \in Sockets : Host[s] = p /\
                 \/ link[s] = "open"
                 \/ \E h \in gets \union sets : h.socket = s}
  IN  /\ lost # {}
      /\ link' = [s \in Sockets |-> IF s \in lost THEN "closed" ELSE link[s]]
      /\ clients' = clients \ lost
      /\ gets' = {h \in gets : h.socket \notin lost}
      /\ sets' = {w \in sets : w.socket \notin lost}
      /\ Disturb({User[s] : s \in lost}, "crash")
      /\ UNCHANGED <<session, registry>>

Next ==
  \/ \E s \in Sockets : \/ Connect(s) \/ Refuse(s) \/ ConnectGet(s)
                        \/ Disconnect(s) \/ DisconnectGet(s) \/ GuardNulls(s)
  \/ \E w \in sets : SetList(w)
  \/ \E h \in gets \union sets : CallFails(h)
  \/ \E u \in Users : Expire(u)
  \/ \E p \in Servers : Crash(p)

\* Every call to Redis returns or rejects.
Fairness ==
  /\ \A s \in Sockets : WF_vars(ConnectGet(s)) /\ WF_vars(DisconnectGet(s))
  /\ WF_vars(\E w \in sets : SetList(w))

Spec == Init /\ [][Next]_vars /\ Fairness

-------------------------------------------------------------------------------
(* SocketService.sendTo, run in process p for user u: the ids of the list    *)
(* that the Map of that process knows.  The code awaits the list and then    *)
(* looks into the Map; here both are of one instant.  The Map, which is read *)
(* last, decides who is sent to, and a list never holds another user's ids,  *)
(* so an older list can only leave out a socket that was listed since.       *)

SendTo(p, u) == {s \in registry[u] : s \in clients /\ Host[s] = p}

-------------------------------------------------------------------------------
(* Properties. *)

\* A connected socket can be sent to from its own process as soon as its
\* handleConnection is through, unless the list was read across another
\* handler's write, expired while the socket stayed connected, or a call to
\* Redis failed.
OpenSocketReached ==
  \A s \in Sockets :
    /\ link[s] = "open"
    /\ \A h \in gets \union sets : h.socket # s
    /\ causes[User[s]] \intersect {"overlap", "expired", "failed"} = {}
    => s \in SendTo(Host[s], User[s])

\* The id of a closed socket stays on a list only after overlapping handlers,
\* a failed call, the death of its process, or a guard that had replaced the
\* session by null, for then handleDisconnect does not know the user.
GhostHasCause ==
  \A s \in Sockets :
    /\ link[s] = "closed"
    /\ \A h \in gets \union sets : h.socket # s
    /\ causes[User[s]] \intersect {"overlap", "failed", "crash", "nulled"} = {}
    => s \notin registry[User[s]]

\* What is sent to a user reaches sockets of that user only, and never a
\* closed one: the Map forgets a socket even when its list does not.
SentToOwnOpenSockets ==
  \A p \in Servers, u \in Users : \A s \in SendTo(p, u) :
    User[s] = u /\ link[s] = "open"

\* Every connected socket that stays connected is on its user's list some
\* time, unless its list was disturbed.
ConnectedGetsListed ==
  \A s \in Sockets :
    link[s] = "open" ~>
      \/ s \in registry[User[s]]
      \/ link[s] = "closed"
      \/ causes[User[s]] # {}

===============================================================================
