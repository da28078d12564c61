------------------------- MODULE SocketRegistryProofs -------------------------
(***************************************************************************)
(* Proofs about SocketRegistry, for any sockets, users and servers.  Three *)
(* facts carry them: without an overlap at most one handler of a user is   *)
(* between its read and its write; then what it will write still agrees    *)
(* with the list; and a closed socket that is on a list has a              *)
(* handleDisconnect of its own on the way.  Last comes that every handler  *)
(* runs once.                                                              *)
(***************************************************************************)
EXTENDS SocketRegistry, Integers, TLAPS

Undisturbed(u, cs) == causes[u] \intersect cs = {}

\* The Map holds exactly the open sockets; handlers, sessions and lists know
\* only sockets that have connected; lists and copies are of one user.
Bookkeeping ==
  /\ \A s \in Sockets : s \in clients <=> link[s] = "open"
  /\ \A s \in Sockets : link[s] = "open" /\ s \notin session
                          => "nulled" \in causes[User[s]]
  /\ \A h \in gets \union sets : link[h.socket] # "new"
  /\ \A h \in gets \union sets : h.event = "disconnect" => link[h.socket] = "closed"
  /\ \A u \in Users : \A s \in registry[u] : User[s] = u /\ link[s] # "new"
  /\ \A w \in sets : \A s \in w.ids : User[s] = User[w.socket] /\ link[s] # "new"

\* Without an overlap the writes of one user come one at a time.
OneWriter ==
  \A v, w \in sets :
    User[v.socket] = User[w.socket] /\ "overlap" \notin causes[User[v.socket]]
    => v = w

\* An open socket is on its list or its handleConnection is under way, and no
\* pending write is about to take an open socket off the list.
OpenKept ==
  \A s \in Sockets :
    link[s] = "open" /\ Undisturbed(User[s], {"overlap", "expired", "failed"}) =>
      /\ \/ s \in registry[User[s]]
         \/ \E h \in gets \union sets : h.socket = s /\ h.event = "connect"
      /\ \A w \in sets :
           User[w.socket] = User[s] /\ (s \in registry[User[s]] \/ w.socket = s)
           => s \in w.ids

\* A closed socket that is on its list, or on a copy about to become the list,
\* has a handleDisconnect under way that will find it there.
ClosedLeaves ==
  \A s \in Sockets :
    /\ link[s] = "closed"
    /\ Undisturbed(User[s], {"overlap", "failed", "crash", "nulled"})
    =>
      /\ s \in registry[User[s]] =>
           \/ Handler(s, "disconnect") \in gets
           \/ \E w \in sets : w.socket = s /\ w.event = "disconnect"
      /\ Handler(s, "connect") \in gets => Handler(s, "disconnect") \in gets
      /\ \A w \in sets : s \in w.ids => Handler(s, "disconnect") \in gets

IInv == TypeOK /\ Bookkeeping /\ OneWriter /\ OpenKept /\ ClosedLeaves
-------------------------------------------------------------------------------

\* The causes noted for a user are never forgotten.
LEMMA DisturbKeeps ==
  ASSUME NEW us \in SUBSET Users, NEW c \in Causes, TypeOK, Disturb(us, c)
  PROVE  /\ causes' \in [Users -> SUBSET Causes]
         /\ \A u \in Users : causes[u] \subseteq causes'[u]
         /\ \A u \in us : c \in causes'[u]
         /\ \A u \in Users \ us : causes'[u] = causes[u]
BY DEF TypeOK, Disturb

\* A read during another handler's write is noted as an overlap.
LEMMA OverlapKeeps ==
  ASSUME NEW u \in Users, TypeOK, NoteOverlap(u)
  PROVE  /\ causes' \in [Users -> SUBSET Causes]
         /\ \A v \in Users : causes[v] \subseteq causes'[v]
         /\ (\E w \in sets : User[w.socket] = u) => "overlap" \in causes'[u]
<1> DEFINE us == {v \in {u} : \E w \in sets : User[w.socket] = v}
<1>1. us \in SUBSET Users /\ "overlap" \in Causes
  BY DEF Causes
<1>2. Disturb(us, "overlap")
  BY DEF NoteOverlap
<1> HIDE DEF us
<1>3. /\ causes' \in [Users -> SUBSET Causes]
      /\ \A v \in Users : causes[v] \subseteq causes'[v]
      /\ \A v \in us : "overlap" \in causes'[v]
  BY <1>1, <1>2, DisturbKeeps
<1> QED
  BY <1>3 DEF us

LEMMA InitIInv == Init => IInv
BY RegistryAssumption
DEF Init, IInv, TypeOK, Bookkeeping, OneWriter, OpenKept, ClosedLeaves, Handler

-------------------------------------------------------------------------------
(* Each action keeps the invariant. *)

LEMMA ConnectKeeps ==
  ASSUME IInv, NEW s \in Sockets, Connect(s) \/ Refuse(s)
  PROVE  IInv'
<1> USE RegistryAssumption DEF IInv, Connect, Refuse, Handler
<1>1. TypeOK'
  BY DEF TypeOK, Events
<1>2. Bookkeeping'
  BY DEF TypeOK, Bookkeeping
<1>3. OneWriter'
  BY DEF OneWriter
<1>4. OpenKept'
  <2> SUFFICES ASSUME NEW t \in Sockets, link'[t] = "open",
                      Undisturbed(User[t], {"overlap", "expired", "failed"})
               PROVE  /\ \/ t \in registry[User[t]]
                         \/ \E h \in gets' \union sets :
                              h.socket = t /\ h.event = "connect"
                      /\ \A w \in sets :
                           User[w.socket] = User[t]
                             /\ (t \in registry[User[t]] \/ w.socket = t)
                           => t \in w.ids
    BY DEF OpenKept, Undisturbed
  <2>1. CASE t = s
    <3>1. t \notin registry[User[t]] /\ \A w \in sets : w.socket # t
      BY <2>1 DEF Bookkeeping, TypeOK
    <3>2. Handler(s, "connect") \in gets'
      BY <2>1 DEF TypeOK
    <3> QED
      BY <2>1, <3>1, <3>2
  <2>2. CASE t # s
    BY <2>2 DEF OpenKept, TypeOK
  <2> QED
    BY <2>1, <2>2
<1>5. ClosedLeaves'
  BY DEF TypeOK, ClosedLeaves, Undisturbed, Bookkeeping
<1> QED
  BY <1>1, <1>2, <1>3, <1>4, <1>5

LEMMA ConnectGetKeeps ==
  ASSUME IInv, NEW s \in Sockets, ConnectGet(s)
  PROVE  IInv'
<1> USE RegistryAssumption DEF IInv, ConnectGet
<1>0. /\ causes' \in [Users -> SUBSET Causes]
      /\ \A v \in Users : causes[v] \subseteq causes'[v]
      /\ (\E w \in sets : User[w.socket] = User[s])
           => "overlap" \in causes'[User[s]]
  BY OverlapKeeps
<1>1. TypeOK'
  BY <1>0 DEF TypeOK, Events, Write
<1>2. Bookkeeping'
  BY <1>0 DEF TypeOK, Bookkeeping, Handler, Write
<1>3. OneWriter'
  <2> SUFFICES ASSUME NEW v \in sets', NEW w \in sets', User[v.socket] = User[w.socket],
                      "overlap" \notin causes'[User[v.socket]]
               PROVE  v = w
    BY DEF OneWriter
  <2> DEFINE new == Write(s, "connect", registry[User[s]] \union {s})
  <2>1. sets' \subseteq sets \union {new} /\ new.socket = s
    BY DEF Write
  <2> HIDE DEF new
  <2>2. v.socket \in Sockets /\ User[v.socket] \in Users
    BY <2>1 DEF TypeOK
  <2>3. CASE v \in sets /\ w \in sets
    BY <1>0, <2>2, <2>3 DEF OneWriter
  <2>4. CASE v \notin sets \/ w \notin sets
    BY <1>0, <2>1, <2>4
  <2> QED
    BY <2>3, <2>4
<1>4. OpenKept'
  <2> SUFFICES ASSUME NEW t \in Sockets, link[t] = "open",
                      causes'[User[t]] \intersect {"overlap", "expired", "failed"} = {}
               PROVE  /\ \/ t \in registry[User[t]]
                         \/ \E h \in gets' \union sets' :
                              h.socket = t /\ h.event = "connect"
                      /\ \A w \in sets' :
                           User[w.socket] = User[t]
                             /\ (t \in registry[User[t]] \/ w.socket = t)
                           => t \in w.ids
    BY DEF OpenKept, Undisturbed
  <2> DEFINE new == Write(s, "connect", registry[User[s]] \union {s})
  <2>1. /\ new.socket = s /\ new.event = "connect"
        /\ new.ids = registry[User[s]] \union {s}
    BY DEF Write
  <2>2. sets' = sets \union {new}
    OBVIOUS
  <2> HIDE DEF new
  <2>3. Undisturbed(User[t], {"overlap", "expired", "failed"})
    BY <1>0 DEF Undisturbed
  <2>4. \/ t \in registry[User[t]]
        \/ \E h \in gets' \union sets' : h.socket = t /\ h.event = "connect"
    <3>1. CASE t = s
      BY <2>1, <2>2, <3>1
    <3>2. CASE t # s /\ t \notin registry[User[t]]
      <4>1. PICK h \in gets \union sets : h.socket = t /\ h.event = "connect"
        BY <2>3, <3>2 DEF OpenKept
      <4>2. h \in gets' \union sets'
        BY <2>2, <3>2, <4>1 DEF Handler
      <4> QED
        BY <4>1, <4>2
    <3> QED
      BY <3>1, <3>2
  <2>5. \A w \in sets : User[w.socket] = User[t]
                         /\ (t \in registry[User[t]] \/ w.socket = t)
                       => t \in w.ids
    BY <2>3 DEF OpenKept
  <2> QED
    BY <2>1, <2>2, <2>4, <2>5
<1>5. ClosedLeaves'
  BY <1>0 DEF TypeOK, ClosedLeaves, Undisturbed, Bookkeeping, Handler, Write
<1> QED
  BY <1>1, <1>2, <1>3, <1>4, <1>5

LEMMA DisconnectKeeps ==
  ASSUME IInv, NEW s \in Sockets, Disconnect(s)
  PROVE  IInv'
<1> USE RegistryAssumption DEF IInv, Disconnect, Handler
<1>1. TypeOK'
  BY DEF TypeOK, Events
<1>2. Bookkeeping'
  BY DEF TypeOK, Bookkeeping
<1>3. OneWriter'
  BY DEF OneWriter
<1>4. OpenKept'
  BY DEF TypeOK, OpenKept, Undisturbed
<1>5. ClosedLeaves'
  BY DEF TypeOK, ClosedLeaves, Undisturbed, Bookkeeping
<1> QED
  BY <1>1, <1>2, <1>3, <1>4, <1>5

LEMMA DisconnectGetKeeps ==
  ASSUME IInv, NEW s \in Sockets, DisconnectGet(s)
  PROVE  IInv'
<1> USE RegistryAssumption DEF IInv, DisconnectGet
<1>0. /\ causes' \in [Users -> SUBSET Causes]
      /\ \A v \in Users : causes[v] \subseteq causes'[v]
      /\ (\E w \in sets : User[w.socket] = User[s])
           => "overlap" \in causes'[User[s]]
  BY OverlapKeeps
<1>1. TypeOK'
  BY <1>0 DEF TypeOK, Events, Write
<1>2. Bookkeeping'
  BY <1>0 DEF TypeOK, Bookkeeping, Handler, Write
<1>3. OneWriter'
  <2> SUFFICES ASSUME NEW v \in sets', NEW w \in sets', User[v.socket] = User[w.socket],
                      "overlap" \notin causes'[User[v.socket]]
               PROVE  v = w
    BY DEF OneWriter
  <2> DEFINE new == Write(s, "disconnect", registry[User[s]] \ {s})
  <2>1. sets' \subseteq sets \union {new} /\ new.socket = s
    BY DEF Write
  <2> HIDE DEF new
  <2>2. v.socket \in Sockets /\ User[v.socket] \in Users
    BY <2>1 DEF TypeOK
  <2>3. CASE v \in sets /\ w \in sets
    BY <1>0, <2>2, <2>3 DEF OneWriter
  <2>4. CASE v \notin sets \/ w \notin sets
    BY <1>0, <2>1, <2>4
  <2> QED
    BY <2>3, <2>4
<1>4. OpenKept'
  BY <1>0 DEF TypeOK, OpenKept, Undisturbed, Bookkeeping, Handler, Write
<1>5. ClosedLeaves'
  <2> DEFINE Fine == {"overlap", "failed", "crash", "nulled"}
  <2> SUFFICES ASSUME NEW t \in Sockets, link[t] = "closed",
                      causes'[User[t]] \intersect Fine = {}
               PROVE  /\ t \in registry[User[t]] =>
                           \/ Handler(t, "disconnect") \in gets'
                           \/ \E w \in sets' : w.socket = t /\ w.event = "disconnect"
                      /\ Handler(t, "connect") \in gets'
                           => Handler(t, "disconnect") \in gets'
                      /\ \A w \in sets' : t \in w.ids
                           => Handler(t, "disconnect") \in gets'
    BY DEF ClosedLeaves, Undisturbed
  <2>1. Undisturbed(User[t], Fine)
    BY <1>0 DEF Undisturbed
  <2>2. /\ t \in registry[User[t]] =>
             \/ Handler(t, "disconnect") \in gets
             \/ \E w \in sets : w.socket = t /\ w.event = "disconnect"
        /\ Handler(t, "connect") \in gets => Handler(t, "disconnect") \in gets
        /\ \A w \in sets : t \in w.ids => Handler(t, "disconnect") \in gets
    BY <2>1 DEF ClosedLeaves
  <2> DEFINE new == Write(s, "disconnect", registry[User[s]] \ {s})
  <2>3. /\ new.socket = s /\ new.event = "disconnect"
        /\ new.ids = registry[User[s]] \ {s}
    BY DEF Write
  <2>4. sets' = IF s \in registry[User[s]] THEN sets \union {new} ELSE sets
    OBVIOUS
  <2> HIDE DEF new
  <2>5. CASE User[t] # User[s]
    <3>1. t \notin registry[User[s]] /\ t # s
      BY <2>5 DEF Bookkeeping, TypeOK
    <3>2. /\ Handler(t, "disconnect") \in gets' <=> Handler(t, "disconnect") \in gets
          /\ Handler(t, "connect") \in gets' => Handler(t, "connect") \in gets
      BY <3>1 DEF Handler
    <3> QED
      BY <2>2, <2>3, <2>4, <3>1, <3>2
  <2>6. CASE User[t] = User[s]
    <3>1. \A w \in sets : User[w.socket] # User[s]
      BY <1>0, <2>6
    <3>2. \A w \in sets : t \notin w.ids /\ w.socket # t
      BY <2>6, <3>1 DEF Bookkeeping
    <3>3. CASE t = s
      <4>1. Handler(t, "connect") \notin gets'
        BY <3>3
      <4> QED
        BY <2>3, <2>4, <3>2, <3>3, <4>1
    <3>4. CASE t # s
      <4>1. /\ Handler(t, "disconnect") \in gets' <=> Handler(t, "disconnect") \in gets
            /\ Handler(t, "connect") \in gets' => Handler(t, "connect") \in gets
        BY <3>4 DEF Handler
      <4>2. t \in registry[User[t]] => Handler(t, "disconnect") \in gets'
        BY <2>2, <3>2, <4>1
      <4> QED
        BY <2>2, <2>3, <2>4, <2>6, <3>2, <4>1, <4>2
    <3> QED
      BY <3>3, <3>4
  <2> QED
    BY <2>5, <2>6
<1> QED
  BY <1>1, <1>2, <1>3, <1>4, <1>5

LEMMA SetListKeeps ==
  ASSUME IInv, NEW w \in sets, SetList(w)
  PROVE  IInv'
<1> USE RegistryAssumption DEF IInv, SetList
<1>0. w.socket \in Sockets /\ User[w.socket] \in Users
  BY DEF TypeOK
<1>1. TypeOK'
  BY DEF TypeOK
<1>2. Bookkeeping'
  BY <1>0 DEF TypeOK, Bookkeeping
<1>3. OneWriter'
  BY DEF OneWriter
<1>4. OpenKept'
  <2> SUFFICES ASSUME NEW t \in Sockets, link[t] = "open",
                      Undisturbed(User[t], {"overlap", "expired", "failed"})
               PROVE  /\ \/ t \in registry'[User[t]]
                         \/ \E h \in gets \union sets' :
                              h.socket = t /\ h.event = "connect"
                      /\ \A v \in sets' :
                           User[v.socket] = User[t]
                             /\ (t \in registry'[User[t]] \/ v.socket = t)
                           => t \in v.ids
    BY DEF OpenKept, Undisturbed
  <2>1. CASE User[t] = User[w.socket]
    <3>1. \A v \in sets' : User[v.socket] # User[t]
      BY <1>0, <2>1 DEF OneWriter, Undisturbed
    <3>2. registry'[User[t]] = w.ids
      BY <1>0, <2>1 DEF TypeOK
    <3> QED
      BY <2>1, <3>1, <3>2 DEF OpenKept
  <2>2. CASE User[t] # User[w.socket]
    BY <1>0, <2>2 DEF OpenKept, TypeOK
  <2> QED
    BY <2>1, <2>2
<1>5. ClosedLeaves'
  BY <1>0 DEF TypeOK, ClosedLeaves, Undisturbed, Bookkeeping
<1> QED
  BY <1>1, <1>2, <1>3, <1>4, <1>5

LEMMA FaultKeeps ==
  ASSUME IInv,
         \/ \E s \in Sockets : GuardNulls(s)
         \/ \E h \in gets \union sets : CallFails(h)
         \/ \E u \in Users : Expire(u)
  PROVE  IInv'
<1> USE RegistryAssumption DEF IInv
<1>1. ASSUME NEW s \in Sockets, GuardNulls(s) PROVE IInv'
  <2> USE <1>1 DEF GuardNulls
  <2>0. /\ causes' \in [Users -> SUBSET Causes]
        /\ \A u \in Users : causes[u] \subseteq causes'[u]
        /\ "nulled" \in causes'[User[s]]
    BY DisturbKeeps DEF Causes
  <2>1. TypeOK' /\ Bookkeeping'
    BY <2>0 DEF TypeOK, Bookkeeping
  <2>2. OneWriter'
    BY <2>0 DEF TypeOK, OneWriter
  <2>3. OpenKept' /\ ClosedLeaves'
    BY <2>0 DEF TypeOK, OpenKept, ClosedLeaves, Undisturbed
  <2> QED
    BY <2>1, <2>2, <2>3
<1>2. ASSUME NEW h \in gets \union sets, CallFails(h) PROVE IInv'
  <2> USE <1>2 DEF CallFails
  <2>0. /\ causes' \in [Users -> SUBSET Causes]
        /\ \A u \in Users : causes[u] \subseteq causes'[u]
        /\ "failed" \in causes'[User[h.socket]]
    <3>1. {User[h.socket]} \in SUBSET Users /\ "failed" \in Causes
      BY DEF TypeOK, Causes
    <3> QED
      BY <3>1, DisturbKeeps
  <2>1. TypeOK' /\ Bookkeeping'
    BY <2>0 DEF TypeOK, Bookkeeping
  <2>2. OneWriter'
    BY <2>0 DEF TypeOK, OneWriter
  <2>3. OpenKept'
    BY <2>0 DEF TypeOK, OpenKept, Undisturbed
  <2>4. ClosedLeaves'
    BY <2>0 DEF TypeOK, ClosedLeaves, Undisturbed, Bookkeeping, Handler
  <2> QED
    BY <2>1, <2>2, <2>3, <2>4
<1>3. ASSUME NEW u \in Users, Expire(u) PROVE IInv'
  <2> USE <1>3 DEF Expire
  <2>0. /\ causes' \in [Users -> SUBSET Causes]
        /\ \A v \in Users : causes[v] \subseteq causes'[v]
        /\ "expired" \in causes'[u]
    BY DisturbKeeps DEF Causes
  <2>1. TypeOK'
    BY <2>0 DEF TypeOK
  <2>2. Bookkeeping'
    BY <2>0 DEF TypeOK, Bookkeeping
  <2>3. OneWriter'
    BY <2>0 DEF TypeOK, OneWriter
  <2>4. OpenKept'
    BY <2>0 DEF TypeOK, OpenKept, Undisturbed
  <2>5. ClosedLeaves'
    BY <2>0 DEF TypeOK, ClosedLeaves, Undisturbed
  <2> QED
    BY <2>1, <2>2, <2>3, <2>4, <2>5
<1> QED
  BY <1>1, <1>2, <1>3

LEMMA CrashKeeps ==
  ASSUME IInv, NEW p \in Servers, Crash(p)
  PROVE  IInv'
<1> USE RegistryAssumption DEF IInv
<1> DEFINE lost == {s \in Sockets : Host[s] = p /\
                      \/ link[s] = "open"
                      \/ \E h \in gets \union sets : h.socket = s}
<1>0. /\ link' = [s \in Sockets |-> IF s \in lost THEN "closed" ELSE link[s]]
      /\ clients' = clients \ lost
      /\ gets' = {h \in gets : h.socket \notin lost}
      /\ sets' = {w \in sets : w.socket \notin lost}
      /\ Disturb({User[s] : s \in lost}, "crash")
      /\ UNCHANGED <<session, registry>>
  BY DEF Crash
<1>1. lost \subseteq Sockets /\ \A s \in lost : link[s] # "new"
  BY DEF Bookkeeping
<1> HIDE DEF lost
<1>2. /\ causes' \in [Users -> SUBSET Causes]
      /\ \A u \in Users : causes[u] \subseteq causes'[u]
      /\ \A s \in lost : "crash" \in causes'[User[s]]
  <2> DEFINE us == {User[s] : s \in lost}
  <2>1. /\ us \in SUBSET Users
        /\ \A s \in lost : User[s] \in us
        /\ "crash" \in Causes
    BY <1>1 DEF Causes
  <2>2. Disturb(us, "crash")
    BY <1>0
  <2> HIDE DEF us
  <2> QED
    BY <2>1, <2>2, DisturbKeeps
<1>3. TypeOK'
  BY <1>0, <1>1, <1>2 DEF TypeOK
<1>4. Bookkeeping'
  BY <1>0, <1>1, <1>2 DEF TypeOK, Bookkeeping
<1>5. OneWriter'
  BY <1>0, <1>2 DEF TypeOK, OneWriter
<1>6. OpenKept'
  BY <1>0, <1>1, <1>2 DEF TypeOK, OpenKept, Undisturbed
<1>7. ClosedLeaves'
  BY <1>0, <1>1, <1>2 DEF TypeOK, ClosedLeaves, Undisturbed, Handler
<1> QED
  BY <1>3, <1>4, <1>5, <1>6, <1>7

LEMMA Inductive == Spec => []IInv
<1>1. ASSUME IInv, [Next]_vars PROVE IInv'
  <2>1. CASE UNCHANGED vars
    BY <1>1, <2>1
    DEF vars, IInv, TypeOK, Bookkeeping, OneWriter, OpenKept, ClosedLeaves,
        Undisturbed
  <2>2. CASE Next
    BY <1>1, <2>2, ConnectKeeps, ConnectGetKeeps, DisconnectKeeps,
       DisconnectGetKeeps, SetListKeeps, FaultKeeps, CrashKeeps
    DEF Next
  <2> QED
    BY <1>1, <2>1, <2>2
<1> QED
  BY InitIInv, <1>1, PTL DEF Spec

-------------------------------------------------------------------------------

\* Type correctness of the gateway and its registry.
THEOREM TypeCorrect == Spec => []TypeOK
BY Inductive, PTL DEF IInv

\* A connected socket whose handler is through can be sent to, but for an
\* overlap, an expiry or a failed call.
THEOREM OpenSocketTheorem == Spec => []OpenSocketReached
<1>1. IInv => OpenSocketReached
  BY RegistryAssumption
  DEF IInv, TypeOK, Bookkeeping, OpenKept, Undisturbed, OpenSocketReached, SendTo
<1> QED
  BY Inductive, <1>1, PTL

\* A closed socket stays on a list only after an overlap, a failed call, a
\* crash, or a session that the guard has replaced by null.
THEOREM GhostTheorem == Spec => []GhostHasCause
<1>1. \A s \in Sockets : Handler(s, "disconnect").socket = s
  BY DEF Handler
<1>2. IInv => GhostHasCause
  BY <1>1 DEF IInv, TypeOK, ClosedLeaves, Undisturbed, GhostHasCause
<1> QED
  BY Inductive, <1>2, PTL

\* Nothing is sent to a closed socket or to a socket of another user.
THEOREM SendTheorem == Spec => []SentToOwnOpenSockets
<1>1. IInv => SentToOwnOpenSockets
  BY DEF IInv, TypeOK, Bookkeeping, SentToOwnOpenSockets, SendTo
<1> QED
  BY Inductive, <1>1, PTL

-------------------------------------------------------------------------------
(* A handler runs once: it reads, writes what it read, and is done. *)

\* How far the handler of a socket's event has come: not begun, about to read,
\* about to write, done or dead.
Phase(s, e) ==
  IF link[s] = "new" \/ (e = "disconnect" /\ link[s] = "open") THEN 0
  ELSE IF Handler(s, e) \in gets THEN 1
  ELSE IF \E w \in sets : w.socket = s /\ w.event = e THEN 2
  ELSE 3

\* A handler that is under way has begun, and is in one place: it is about to
\* read, or has one copy to write.
OnePlace ==
  /\ \A h \in gets \union sets :
       link[h.socket] # "new" /\ (h.event = "disconnect" => link[h.socket] = "closed")
  /\ \A v, w \in sets : v.socket = w.socket /\ v.event = w.event => v = w
  /\ \A w \in sets : Handler(w.socket, w.event) \notin gets

\* No handler begins again or goes back, and a list changes only by expiring and
\* by the write that ends a handler of its user.
RunsOnce ==
  [][/\ \A s \in Sockets, e \in Events : Phase(s, e)' >= Phase(s, e)
     /\ \A u \in Users : registry'[u] # registry[u] =>
          \/ registry'[u] = {}
          \/ \E w \in sets : /\ User[w.socket] = u /\ registry'[u] = w.ids
                             /\ Phase(w.socket, w.event) = 2
                             /\ Phase(w.socket, w.event)' = 3]_vars

LEMMA HandlerFields ==
  /\ \A s, e : Handler(s, e).socket = s /\ Handler(s, e).event = e
  /\ \A s, e, t, f : Handler(s, e) = Handler(t, f) => s = t /\ e = f
  /\ \A s, e, i : /\ Write(s, e, i).socket = s /\ Write(s, e, i).event = e
                  /\ Write(s, e, i).ids = i
  /\ \A h \in [socket : Sockets, event : Events] : h = Handler(h.socket, h.event)
BY DEF Handler, Write

LEMMA PlaceInit == Init => OnePlace
BY DEF Init, OnePlace

LEMMA PlaceKeeps ==
  ASSUME TypeOK, OnePlace, [Next]_vars
  PROVE  OnePlace'
<1> USE HandlerFields
<1>1. ASSUME NEW s \in Sockets,
             Connect(s) \/ Refuse(s) \/ Disconnect(s) \/ GuardNulls(s)
      PROVE  OnePlace'
  BY <1>1 DEF TypeOK, OnePlace, Connect, Refuse, Disconnect, GuardNulls
<1>2. ASSUME NEW s \in Sockets, ConnectGet(s) \/ DisconnectGet(s)
      PROVE  OnePlace'
  BY <1>2 DEF TypeOK, OnePlace, ConnectGet, DisconnectGet
<1>3. ASSUME NEW w \in sets, SetList(w)
      PROVE  OnePlace'
  BY <1>3 DEF TypeOK, OnePlace, SetList
<1>4. ASSUME NEW h \in gets \union sets, CallFails(h)
      PROVE  OnePlace'
  BY <1>4 DEF TypeOK, OnePlace, CallFails
<1>5. ASSUME NEW u \in Users, Expire(u)
      PROVE  OnePlace'
  BY <1>5 DEF OnePlace, Expire
<1>6. ASSUME NEW p \in Servers, Crash(p)
      PROVE  OnePlace'
  BY <1>6 DEF TypeOK, OnePlace, Crash
<1>7. CASE UNCHANGED vars
  BY <1>7 DEF OnePlace, vars
<1> QED
  BY <1>1, <1>2, <1>3, <1>4, <1>5, <1>6, <1>7 DEF Next

\* Every handler under way is in one place, whatever overlaps, fails or dies.
LEMMA PlaceInvariance == Spec => []OnePlace
BY TypeCorrect, PlaceInit, PlaceKeeps, PTL DEF Spec

\* A step moves no handler back.
LEMMA PhaseRises ==
  ASSUME TypeOK, OnePlace, [Next]_vars, NEW s \in Sockets, NEW e \in Events
  PROVE  Phase(s, e)' >= Phase(s, e)
<1> USE HandlerFields DEF Phase
<1>1. ASSUME NEW t \in Sockets,
             Connect(t) \/ Refuse(t) \/ Disconnect(t) \/ GuardNulls(t)
      PROVE  Phase(s, e)' >= Phase(s, e)
  BY <1>1 DEF TypeOK, OnePlace, Connect, Refuse, Disconnect, GuardNulls, Events
<1>2. ASSUME NEW t \in Sockets, ConnectGet(t) \/ DisconnectGet(t)
      PROVE  Phase(s, e)' >= Phase(s, e)
  BY <1>2 DEF TypeOK, OnePlace, ConnectGet, DisconnectGet, Events
<1>3. ASSUME NEW w \in sets, SetList(w)
      PROVE  Phase(s, e)' >= Phase(s, e)
  BY <1>3 DEF TypeOK, OnePlace, SetList, Events
<1>4. ASSUME NEW h \in gets \union sets, CallFails(h)
      PROVE  Phase(s, e)' >= Phase(s, e)
  BY <1>4 DEF TypeOK, OnePlace, CallFails, Events
<1>5. ASSUME NEW u \in Users, Expire(u)
      PROVE  Phase(s, e)' >= Phase(s, e)
  BY <1>5 DEF Expire
<1>6. ASSUME NEW p \in Servers, Crash(p)
      PROVE  Phase(s, e)' >= Phase(s, e)
  BY <1>6 DEF TypeOK, OnePlace, Crash, Events
<1>7. CASE UNCHANGED vars
  BY <1>7 DEF vars
<1> QED
  BY <1>1, <1>2, <1>3, <1>4, <1>5, <1>6, <1>7 DEF Next

\* A list is written only at the end of a handler.
LEMMA ListWritten ==
  ASSUME TypeOK, OnePlace, [Next]_vars, NEW u \in Users, registry'[u] # registry[u]
  PROVE  \/ registry'[u] = {}
         \/ \E w \in sets : /\ User[w.socket] = u /\ registry'[u] = w.ids
                            /\ Phase(w.socket, w.event) = 2
                            /\ Phase(w.socket, w.event)' = 3
<1>1. \/ \E w \in sets : SetList(w)
      \/ \E v \in Users : Expire(v)
  BY DEF Next, vars, Connect, Refuse, ConnectGet, Disconnect, DisconnectGet,
         GuardNulls, CallFails, Crash
<1>2. ASSUME NEW v \in Users, Expire(v)
      PROVE  registry'[u] = {}
  BY <1>2 DEF Expire, TypeOK
<1>3. ASSUME NEW w \in sets, SetList(w)
      PROVE  /\ User[w.socket] = u /\ registry'[u] = w.ids
             /\ Phase(w.socket, w.event) = 2
             /\ Phase(w.socket, w.event)' = 3
  <2>1. User[w.socket] = u /\ registry'[u] = w.ids
    BY <1>3 DEF SetList, TypeOK
  <2>2. /\ link[w.socket] # "new" /\ (w.event = "disconnect" => link[w.socket] # "open")
        /\ Handler(w.socket, w.event) \notin gets
    BY DEF OnePlace
  <2>3. /\ link' = link /\ gets' = gets
        /\ \A v \in sets' : ~(v.socket = w.socket /\ v.event = w.event)
    BY <1>3 DEF SetList, OnePlace
  <2> QED
    BY <2>1, <2>2, <2>3 DEF Phase
<1> QED
  BY <1>1, <1>2, <1>3

\* However handlers overlap, fail and die, each reads once and writes once at
\* most, and nobody else writes the lists.
THEOREM RunsOnceTheorem == Spec => RunsOnce
<1> DEFINE Once ==
      /\ \A s \in Sockets, e \in Events : Phase(s, e)' >= Phase(s, e)
      /\ \A u \in Users : registry'[u] # registry[u] =>
           \/ registry'[u] = {}
           \/ \E w \in sets : /\ User[w.socket] = u /\ registry'[u] = w.ids
                              /\ Phase(w.socket, w.event) = 2
                              /\ Phase(w.socket, w.event)' = 3
<1>1. TypeOK /\ OnePlace /\ [Next]_vars => [Once]_vars
  BY PhaseRises, ListWritten
<1> QED
  BY TypeCorrect, PlaceInvariance, <1>1, PTL DEF Spec, RunsOnce

===============================================================================
