----------------------------- MODULE Propertiesd ------------------------------
(***************************************************************************)
(* propertiesd: the KDED module that keeps the Android properties          *)
(* (src/src/propertiesd) and the processes that reach it through the       *)
(* socket of libcutils.                                                    *)
(*                                                                         *)
(* A connection is two byte streams.  A get is 33 bytes (a command and a   *)
(* key) and its reply 93 (a flag and a value); a set is 125 bytes and its  *)
(* reply one, of which the daemon writes as many as lie before the next    *)
(* zero byte.  Requests are one element of toServer each; a reply is as    *)
(* many elements of toClient as the client can tell apart: flag and value, *)
(* or a single byte.  One read of the daemon takes up to 125 bytes and     *)
(* takes them for one request.                                             *)
(*                                                                         *)
(* The client is external: libcutils makes one connection per process,     *)
(* never a second one, has one call at a time, sends a request in one      *)
(* piece and reads the reply with one read().                              *)
(***************************************************************************)
EXTENDS Naturals, Sequences, FiniteSets

CONSTANTS
  Client,    \* processes that use properties, each one again and again
  Key,       \* keys with at least one character that is not a dot
  Plain,     \* the keys without a group, i.e. a dot that parts something
  EmptyKey,  \* the empty key
  DotsKey,   \* a key of nothing but dots
  Value,     \* values of at most PROP_VALUE_MAX - 1 characters
  Empty,     \* the empty value
  Longest,   \* the values of exactly that many characters
  Unset,     \* what the settings file holds of a key it does not have
  Default,   \* what initProperties() writes
  Asks,      \* Asks[c]: the requests that client process c ever makes
  Surplus,   \* how many bytes after rv[0] may be sent with it
  Nothing, NotFound, Done, Failed  \* results of calls

AnyKey == Key \cup {EmptyKey, DotsKey}

ASSUME KeyAssumption ==
  /\ Plain \subseteq Key
  /\ EmptyKey \notin Key /\ DotsKey \notin Key /\ EmptyKey # DotsKey
ASSUME ValueAssumption ==
  /\ Empty \in Value
  /\ Longest \subseteq Value \ {Empty}
  /\ Unset \notin Value
  /\ Default \in [DOMAIN Default -> Value]
  /\ DOMAIN Default \subseteq Key \ Plain
ASSUME SurplusAssumption == Surplus \subseteq Nat
ASSUME ResultAssumption ==
  /\ Nothing \notin {NotFound, Done, Failed}
  /\ Value \cap {Nothing, NotFound, Done, Failed, "found", "missing", "done", "junk"} = {}

\* A get carries no value: Empty stands in its place.
Request == [op : {"set"}, key : AnyKey, value : Value]
             \cup [op : {"get"}, key : AnyKey, value : {Empty}]

ASSUME AsksAssumption == Asks \in [Client -> SUBSET Request]

\* The last 33 bytes of a set whose first 92 were taken for the end of a get.
Tail33 == [op |-> "tail", key |-> EmptyKey, value |-> Empty]

ASSUME NothingAssumption == Nothing \notin Request

\* What the client tells apart in toClient: the flag of the reply to a get, its
\* value, the byte that acknowledges a set, and bytes that nobody meant to send.
Cell == {"found", "missing", "done", "junk"} \cup Value

VARIABLES
  up,        \* the module is loaded in kded
  store,     \* m_properties, a file that outlives the daemon
  conn,      \* conn[c]: the connection of client process c
  here,      \* client processes that run
  toServer,  \* toServer[c]: requests the daemon has not read
  toClient,  \* toClient[c]: what the client has not read
  ready,     \* ready[c]: readyRead is still to be emitted for c
  call,      \* call[c]: the request a call waits for, or Nothing
  result,    \* result[c]: what the last call of c returned
  spilled    \* history: clients that were sent bytes nobody meant to send, or
             \* whose call failed by a short read

vars == <<up, store, conn, here, toServer, toClient, ready, call, result, spilled>>
streams == <<toServer, toClient, ready>>

TypeOK ==
  /\ up \in BOOLEAN
  /\ store \in [Key -> Value \cup {Unset}]
  /\ conn \in [Client -> {"none", "pending", "open", "lost"}]
  /\ here \subseteq Client
  /\ toServer \in [Client -> Seq(Request \cup {Tail33})]
  /\ toClient \in [Client -> Seq(Cell)]
  /\ ready \in [Client -> BOOLEAN]
  /\ call \in [Client -> Request \cup {Nothing}]
  /\ result \in [Client -> Value \cup {Nothing, NotFound, Done, Failed}]
  /\ spilled \subseteq Client

Init ==
  /\ up = FALSE
  /\ store = [k \in Key |-> Unset]
  /\ conn = [c \in Client |-> "none"]
  /\ here = {}
  /\ toServer = [c \in Client |-> <<>>]
  /\ toClient = [c \in Client |-> <<>>]
  /\ ready = [c \in Client |-> FALSE]
  /\ call = [c \in Client |-> Nothing]
  /\ result = [c \in Client |-> Nothing]
  /\ spilled = {}

-------------------------------------------------------------------------------
(* The settings *)

\* readProperty(); a key of dots does not get here.
ReadProperty(k) == IF k \in Key /\ store[k] # Unset THEN store[k] ELSE Empty

\* Slip: the key is handed to setValue() in place of the value.
WritePropertyKey(s, k, v) == IF k \in Key THEN [s EXCEPT ![k] = k] ELSE s

\* Slip: an empty value is taken for nothing to write.
WritePropertySlip(s, k, v) == IF k \in Key /\ v # Empty THEN [s EXCEPT ![k] = v] ELSE s

\* writeProperty() of s; the empty key is dropped without a word.
WriteProperty(s, k, v) == IF k \in Key THEN [s EXCEPT ![k] = v] ELSE s

\* childKeys() of the root group, in which no grouped key is.
ChildKeys == {k \in Plain : store[k] # Unset}

InitProperties ==
  IF ChildKeys # {} THEN store
  ELSE [k \in Key |-> IF k \in DOMAIN Default THEN Default[k] ELSE store[k]]

-------------------------------------------------------------------------------
(* The daemon *)

\* The module is loaded: a socket file that is left over is removed, a new one
\* made, and the defaults are written.
Start ==
  /\ ~up
  /\ up' = TRUE
  /\ store' = InitProperties
  /\ UNCHANGED <<conn, here, toServer, toClient, ready, call, result, spilled>>

\* Every connection ends; what was sent on it to a client is still there.
HangUp ==
  /\ up' = FALSE
  /\ conn' = [c \in Client |-> IF conn[c] = "none" THEN "none"
                               ELSE IF c \in here THEN "lost" ELSE "none"]
  /\ toServer' = [c \in Client |-> <<>>]
  /\ ready' = [c \in Client |-> FALSE]
  /\ spilled' = spilled \cap here
  /\ UNCHANGED <<store, here, toClient, call, result>>

\* The module is unloaded, or kded ends.
Quit == up /\ HangUp

\* Slip: data that came before the connection was accepted is not announced.
NewConnectionSlip(c) ==
  /\ up
  /\ conn[c] = "pending"
  /\ conn' = [conn EXCEPT ![c] = "open"]
  /\ ready' = [ready EXCEPT ![c] = FALSE]
  /\ UNCHANGED <<up, store, here, toServer, toClient, call, result, spilled>>

NewConnection(c) ==
  /\ up
  /\ conn[c] = "pending"
  /\ conn' = [conn EXCEPT ![c] = "open"]
  /\ UNCHANGED <<up, store, here, streams, call, result, spilled>>

\* A read takes a set, or a get and up to 92 bytes of what follows it.
Unread(q) ==
  CASE Head(q).op = "set" -> Tail(q)
    [] Head(q).op # "set" /\ Len(q) > 1 /\ q[2].op = "set" -> <<Tail33>>
    [] OTHER -> <<>>

\* What is written to a client that ended is dropped.
Write(c, cells) ==
  toClient' = IF c \in here THEN [toClient EXCEPT ![c] = @ \o cells] ELSE toClient

\* Slip: nothing but the flag is sent for a property that is not set.
GetReplySlip(v) == IF v = Empty THEN <<"missing">> ELSE <<"found", v>>

GetReply(v) == IF v = Empty THEN <<"missing", v>> ELSE <<"found", v>>

ReadGet(c, r) ==
  /\ r.op = "get" /\ r.key # DotsKey
  /\ Write(c, GetReply(ReadProperty(r.key)))
  /\ UNCHANGED <<store, spilled>>

\* dev->write(rv) sends rv[0] and whatever follows it up to a zero byte.
ReadSet(c, r) ==
  /\ r.op = "set" /\ r.key # DotsKey
  /\ store' = WriteProperty(store, r.key, r.value)
  /\ \E n \in Surplus :
       /\ Write(c, <<"done">> \o [i \in 1 .. n |-> "junk"])
       /\ spilled' = IF n > 0 /\ c \in here THEN spilled \cup {c} ELSE spilled

\* The rest of a value is an unknown command if the value was short, so that the
\* rest is zeroes, and one out of bounds if it was long.
ReadTail(c, r) ==
  /\ r.op = "tail"
  /\ Write(c, <<>>) \/ Write(c, <<"junk", "junk">>)
  /\ UNCHANGED <<store, spilled>>

\* readRequest(): one read for each readyRead.
ReadRequest(c) ==
  /\ up
  /\ conn[c] = "open"
  /\ ready[c]
  /\ ready' = [ready EXCEPT ![c] = FALSE]
  /\ toServer' = [toServer EXCEPT ![c] = Unread(@)]
  /\ LET r == Head(toServer[c]) IN ReadGet(c, r) \/ ReadSet(c, r) \/ ReadTail(c, r)
  /\ UNCHANGED <<up, conn, here, call, result>>

\* groups.last() of no groups; resp[rv.size() + 2] behind the end of resp, which
\* may also go unnoticed.
Fatal(r) ==
  \/ r.key = DotsKey
  \/ r.op = "get" /\ ReadProperty(r.key) \in Longest

Dies(c) ==
  /\ up
  /\ conn[c] = "open"
  /\ ready[c]
  /\ Fatal(Head(toServer[c]))
  /\ HangUp

\* disconnected: the socket is deleted, after its last readyRead.
Forget(c) ==
  /\ up
  /\ conn[c] = "open"
  /\ c \notin here
  /\ ~ready[c]
  /\ conn' = [conn EXCEPT ![c] = "none"]
  /\ toServer' = [toServer EXCEPT ![c] = <<>>]
  /\ spilled' = spilled \ {c}
  /\ UNCHANGED <<up, store, here, toClient, ready, call, result>>

-------------------------------------------------------------------------------
(* The clients *)

\* The first call of a process connects; without a daemon it never tries again.
Connect(c) ==
  /\ c \notin here
  /\ conn[c] = "none"
  /\ here' = here \cup {c}
  /\ conn' = [conn EXCEPT ![c] = IF up THEN "pending" ELSE "lost"]
  /\ UNCHANGED <<up, store, streams, call, result, spilled>>

\* MaxBacklog: a request goes out while fewer than this many are unread, and while
\* fewer than this many stray bytes wait for the client.  Only a client that has
\* spilled ever gets beyond one of them.
MaxBacklog == 2

\* property_get() or property_set() sends its request.
Send(c, r) ==
  /\ c \in here
  /\ conn[c] \in {"pending", "open"}
  /\ call[c] = Nothing
  /\ Len(toServer[c]) < MaxBacklog /\ Len(toClient[c]) < MaxBacklog
  /\ call' = [call EXCEPT ![c] = r]
  /\ toServer' = [toServer EXCEPT ![c] = Append(@, r)]
  /\ ready' = [ready EXCEPT ![c] = TRUE]
  /\ UNCHANGED <<up, store, conn, here, toClient, result, spilled>>

\* There is nothing to send it to, or nobody to wait for.
CallFails(c) ==
  /\ c \in here
  /\ conn[c] = "lost"
  /\ toClient[c] = <<>>
  /\ call' = [call EXCEPT ![c] = Nothing]
  /\ result' = [result EXCEPT ![c] = Failed]
  /\ UNCHANGED <<up, store, conn, here, streams, spilled>>

Returns(c, res, left) ==
  /\ call' = [call EXCEPT ![c] = Nothing]
  /\ result' = [result EXCEPT ![c] = res]
  /\ toClient' = [toClient EXCEPT ![c] = left]

\* read() of 93 bytes in property_get(), which fails if there are fewer; what the
\* process makes of bytes that are no reply of its own is not said.
GetReturns(c) ==
  /\ call[c].op = "get"
  /\ LET q == toClient[c] IN
       \/ /\ Len(q) >= 2
          /\ Returns(c, IF q[1] = "found" /\ q[2] \in Value THEN q[2] ELSE NotFound,
                     SubSeq(q, 3, Len(q)))
          /\ UNCHANGED spilled
       \/ /\ Len(q) = 1
          /\ Returns(c, Failed, <<>>)
          /\ spilled' = spilled \cup {c}

\* read() of one byte in property_set().
SetReturns(c) ==
  /\ call[c].op = "set"
  /\ Returns(c, IF toClient[c][1] = "done" THEN Done ELSE Failed, Tail(toClient[c]))
  /\ UNCHANGED spilled

ClientRead(c) ==
  /\ c \in here
  /\ call[c] # Nothing
  /\ toClient[c] # <<>>
  /\ GetReturns(c) \/ SetReturns(c)
  /\ UNCHANGED <<up, store, conn, here, toServer, ready>>

\* The process ends, in the middle of a call or not.
Leave(c) ==
  /\ c \in here
  /\ here' = here \ {c}
  /\ conn' = [conn EXCEPT ![c] = IF @ = "lost" THEN "none" ELSE @]
  /\ spilled' = IF conn[c] = "lost" THEN spilled \ {c} ELSE spilled
  /\ toClient' = [toClient EXCEPT ![c] = <<>>]
  /\ call' = [call EXCEPT ![c] = Nothing]
  /\ UNCHANGED <<up, store, toServer, ready, result>>

-------------------------------------------------------------------------------
Daemon(c) == NewConnection(c) \/ ReadRequest(c) \/ Dies(c) \/ Forget(c)
Process(c) == Connect(c) \/ (\E r \in Asks[c] : Send(c, r)) \/ CallFails(c)
                \/ ClientRead(c) \/ Leave(c)

Next == Start \/ Quit \/ \E c \in Client : Daemon(c) \/ Process(c)

\* The event loop of kded visits every socket, and a process whose reply is there
\* reads it.  Nothing makes the module start, or a process call.
Fairness ==
  \A c \in Client :
    /\ WF_vars(NewConnection(c))
    /\ WF_vars(ReadRequest(c) \/ Dies(c))
    /\ WF_vars(ClientRead(c))
    /\ WF_vars(call[c] # Nothing /\ CallFails(c))

Spec == Init /\ [][Next]_vars
FairSpec == Spec /\ Fairness

-------------------------------------------------------------------------------
(* Properties *)

\* A process that was never sent a stray byte is in step with the daemon: no
\* bytes are under way unless it waits in a call, and then there is either its
\* request, which readRequest() is still to be told of, or the one reply to it.
\* So readRequest() may take a read for a request and property_get() what it
\* reads for its reply, although neither looks.
InStep(c) ==
  LET q == toServer[c]  a == toClient[c]  r == call[c] IN
    \/ r = Nothing /\ q = <<>> /\ a = <<>>
    \/ r # Nothing /\ q = <<r>> /\ a = <<>> /\ ready[c]
    \/ r # Nothing /\ q = <<>> /\ r.op = "set" /\ a = <<"done">>
    \/ r # Nothing /\ q = <<>> /\ r.op = "get"
         /\ \E v \in Value : a \in {<<"missing", v>>, <<"found", v>>}
    \/ r # Nothing /\ q = <<>> /\ a = <<>> /\ conn[c] = "lost"
InSync == \A c \in here \ spilled : InStep(c)

\* A value, once stored, is what every later reader is told until a process sets
\* another one or a daemon starts with the defaults; a call has its effect once and
\* between its start and its return, and is not lost unless the daemon goes, whatever
\* other processes, restarts of the daemon and replies that spill do meanwhile.
AnswerIn(q) ==
  CASE q = <<>> -> Nothing
    [] q # <<>> /\ q[1] = "done" -> Done
    [] q # <<>> /\ q[1] = "missing" -> NotFound
    [] q # <<>> /\ q[1] = "found" -> q[2]
    [] OTHER -> Failed

AskedIn(q) == IF q # <<>> /\ Head(q) = Tail33 THEN Tail(q) ELSE q

Asked == [c \in Client |-> AskedIn(toServer[c])]
Answered == [c \in Client |-> IF c \in spilled THEN Nothing ELSE AnswerIn(toClient[c])]
Cut == {c \in Client : conn[c] = "lost"}

Store == INSTANCE PropertyStore
           WITH present <- here, cut <- Cut, asked <- Asked, answer <- Answered,
                wild <- spilled
ServesStore == Store!Spec

\* A call returns: no request is overlooked, taken for the end of another one, or
\* left unread because its readyRead was spent, and a daemon that goes away does
\* not leave its clients waiting.
CallsReturn ==
  \A c \in Client :
    (call[c] # Nothing /\ c \notin spilled) ~> (call[c] = Nothing \/ c \in spilled)
===============================================================================
