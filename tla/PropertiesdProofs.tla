--------------------------- MODULE PropertiesdProofs --------------------------
(* Theorems about Propertiesd, for any number of clients, keys and values. *)
EXTENDS Propertiesd, SequenceTheorems, TLAPS

\* Only the first of what is unread may be the rest of a request.
Whole(q) == \A i \in 2 .. Len(q) : q[i] \in Request

\* What a connection that is not there, or gone, or whose client is gone, leaves.
Left(c) ==
  /\ conn[c] = "none" => c \notin here \cup spilled /\ toServer[c] = <<>> /\ ~ready[c]
  /\ conn[c] = "lost" => c \in here /\ toServer[c] = <<>> /\ ~ready[c]
  /\ c \notin here => call[c] = Nothing /\ toClient[c] = <<>>
  /\ ready[c] => toServer[c] # <<>>
  /\ Whole(toServer[c])

\* The one request that a client which ended in step may have left unread.
Orphan(c) ==
  \/ toServer[c] = <<>>
  \/ ready[c] /\ \E r \in Request : toServer[c] = <<r>>

Good(c) ==
  /\ Left(c)
  /\ c \notin here \cup spilled => Orphan(c)
  /\ c \in here \ spilled => InStep(c)

IInv == TypeOK /\ \A c \in Client : Good(c)

-------------------------------------------------------------------------------
(* Types of what is read and written *)

Message == Request \cup {Tail33}

LEMMA RequestFields ==
  ASSUME NEW r \in Request
  PROVE  /\ r.op \in {"set", "get"} /\ r.key \in AnyKey /\ r.value \in Value
         /\ r # Nothing
  BY NothingAssumption, ValueAssumption DEF Request

LEMMA MessageFields ==
  ASSUME NEW m \in Message
  PROVE  m.key \in AnyKey /\ m.value \in Value
         /\ (m.op = "tail" \/ m \in Request)
  <1>1. CASE m \in Request
    BY <1>1, RequestFields
  <1>2. CASE m = Tail33
    BY <1>2, ValueAssumption DEF Tail33, AnyKey
  <1> QED
    BY <1>1, <1>2 DEF Message

LEMMA HeadTailType ==
  ASSUME NEW S, NEW q \in Seq(S), q # <<>>
  PROVE  Head(q) \in S /\ Tail(q) \in Seq(S)
  OBVIOUS

LEMMA UnreadType ==
  ASSUME NEW q \in Seq(Message), q # <<>>
  PROVE  Unread(q) \in Seq(Message)
  <1>1. Tail(q) \in Seq(Message)
    BY HeadTailType
  <1>2. <<Tail33>> \in Seq(Message) /\ <<>> \in Seq(Message)
    BY DEF Message
  <1> QED
    BY <1>1, <1>2 DEF Unread

\* A request that is alone is read as a whole.
LEMMA UnreadAlone ==
  ASSUME NEW r \in Request
  PROVE  Unread(<<r>>) = <<>> /\ Head(<<r>>) = r
  <1>1. Head(<<r>>) = r /\ Tail(<<r>>) = <<>> /\ Len(<<r>>) = 1
    OBVIOUS
  <1> QED
    BY <1>1 DEF Unread

LEMMA WholeParts ==
  /\ Whole(<<>>) /\ Whole(<<Tail33>>)
  /\ \A q \in Seq(Message) : Whole(q) =>
       /\ q # <<>> => Whole(Unread(q))
       /\ \A r \in Request : Whole(Append(q, r))
  <1>1. Len(<<>>) = 0 /\ Len(<<Tail33>>) = 1
    OBVIOUS
  <1>2. Whole(<<>>) /\ Whole(<<Tail33>>)
    BY <1>1 DEF Whole
  <1>3. ASSUME NEW q \in Seq(Message), Whole(q), q # <<>> PROVE Whole(Unread(q))
    <2>1. Len(Tail(q)) = Len(q) - 1 /\ \A i \in 1 .. Len(q) - 1 : Tail(q)[i] = q[i + 1]
      BY <1>3
    <2>2. Whole(Tail(q))
      BY <1>3, <2>1 DEF Whole
    <2> QED
      BY <1>2, <2>2 DEF Unread
  <1>4. ASSUME NEW q \in Seq(Message), Whole(q), NEW r \in Request PROVE Whole(Append(q, r))
    <2>1. /\ Len(Append(q, r)) = Len(q) + 1 /\ Append(q, r)[Len(q) + 1] = r
          /\ \A i \in 1 .. Len(q) : Append(q, r)[i] = q[i]
      OBVIOUS
    <2> QED
      BY <1>4, <2>1 DEF Whole
  <1> QED
    BY <1>2, <1>3, <1>4

LEMMA ReadPropertyType ==
  ASSUME TypeOK, NEW k
  PROVE  ReadProperty(k) \in Value
  BY ValueAssumption DEF TypeOK, ReadProperty

LEMMA WritePropertyType ==
  ASSUME TypeOK, NEW k, NEW v \in Value
  PROVE  WriteProperty(store, k, v) \in [Key -> Value \cup {Unset}]
  BY DEF TypeOK, WriteProperty

LEMMA GetReplyType ==
  ASSUME NEW v \in Value
  PROVE  GetReply(v) \in Seq(Cell)
  <1>1. {"missing", "found"} \cup Value \subseteq Cell
    BY DEF Cell
  <1>2. <<"missing", v>> \in Seq(Cell) /\ <<"found", v>> \in Seq(Cell)
    BY <1>1
  <1> QED
    BY <1>2 DEF GetReply

LEMMA DoneType ==
  ASSUME NEW n \in Nat
  PROVE  <<"done">> \o [i \in 1 .. n |-> "junk"] \in Seq(Cell)
  <1>1. <<"done">> \in Seq(Cell)
    BY DEF Cell
  <1>2. [i \in 1 .. n |-> "junk"] \in [1 .. n -> Cell]
    BY DEF Cell
  <1>3. [i \in 1 .. n |-> "junk"] \in Seq(Cell)
    BY <1>2, SeqDef
  <1> QED
    BY <1>1, <1>3, ConcatProperties

LEMMA WriteType ==
  ASSUME TypeOK, NEW c \in Client, NEW cells \in Seq(Cell), Write(c, cells)
  PROVE  toClient' \in [Client -> Seq(Cell)]
  <1>1. toClient[c] \o cells \in Seq(Cell)
    BY DEF TypeOK
  <1> QED
    BY <1>1 DEF Write, TypeOK

\* The three ways to serve what was read.
LEMMA ServeType ==
  ASSUME TypeOK, NEW c \in Client, NEW r \in Message,
         ReadGet(c, r) \/ ReadSet(c, r) \/ ReadTail(c, r)
  PROVE  /\ toClient' \in [Client -> Seq(Cell)]
         /\ store' \in [Key -> Value \cup {Unset}]
         /\ spilled' \subseteq Client
  <1>1. CASE ReadGet(c, r)
    <2>1. Write(c, GetReply(ReadProperty(r.key))) /\ UNCHANGED <<store, spilled>>
      BY <1>1 DEF ReadGet
    <2>2. GetReply(ReadProperty(r.key)) \in Seq(Cell)
      BY ReadPropertyType, GetReplyType
    <2> QED
      BY <2>1, <2>2, WriteType DEF TypeOK
  <1>2. CASE ReadSet(c, r)
    <2>1. PICK n \in Surplus :
            /\ Write(c, <<"done">> \o [i \in 1 .. n |-> "junk"])
            /\ spilled' = IF n > 0 /\ c \in here THEN spilled \cup {c} ELSE spilled
      BY <1>2 DEF ReadSet
    <2>2. toClient' \in [Client -> Seq(Cell)]
      BY <2>1, DoneType, WriteType, SurplusAssumption
    <2>3. store' \in [Key -> Value \cup {Unset}]
      BY <1>2, MessageFields, WritePropertyType DEF ReadSet
    <2> QED
      BY <2>1, <2>2, <2>3 DEF TypeOK
  <1>3. CASE ReadTail(c, r)
    <2>1. <<>> \in Seq(Cell) /\ <<"junk", "junk">> \in Seq(Cell)
      BY DEF Cell
    <2> QED
      BY <1>3, <2>1, WriteType DEF ReadTail, TypeOK
  <1> QED
    BY <1>1, <1>2, <1>3

-------------------------------------------------------------------------------
(* Type correctness *)

LEMMA HangUpType == ASSUME TypeOK, HangUp PROVE TypeOK'
  <1>1. toServer' = [c \in Client |-> <<>>] /\ <<>> \in Seq(Message)
    BY DEF HangUp
  <1>2. toServer' \in [Client -> Seq(Message)]
    BY <1>1
  <1> QED
    BY <1>2 DEF HangUp, TypeOK, Message

LEMMA DaemonType ==
  ASSUME TypeOK, Start \/ Quit \/ \E c \in Client : NewConnection(c) \/ Dies(c) \/ Forget(c)
  PROVE  TypeOK'
  <1>1. CASE Start
    <2>1. store' \in [Key -> Value \cup {Unset}]
      BY <1>1, ValueAssumption DEF Start, InitProperties, TypeOK
    <2> QED
      BY <1>1, <2>1 DEF Start, TypeOK
  <1>2. CASE Quit \/ \E c \in Client : Dies(c)
    BY <1>2, HangUpType DEF Quit, Dies
  <1>3. CASE \E c \in Client : NewConnection(c)
    BY <1>3 DEF NewConnection, streams, TypeOK
  <1>4. CASE \E c \in Client : Forget(c)
    BY <1>4 DEF Forget, TypeOK
  <1> QED
    BY <1>1, <1>2, <1>3, <1>4

LEMMA ReadRequestType ==
  ASSUME IInv, NEW c \in Client, ReadRequest(c)
  PROVE  TypeOK'
  <1> USE DEF IInv
  <1>1. toServer[c] \in Seq(Message) /\ toServer[c] # <<>>
    BY DEF ReadRequest, Good, Left, TypeOK, Message
  <1>2. Head(toServer[c]) \in Message /\ Unread(toServer[c]) \in Seq(Message)
    BY <1>1, HeadTailType, UnreadType
  <1>3. /\ toClient' \in [Client -> Seq(Cell)]
        /\ store' \in [Key -> Value \cup {Unset}]
        /\ spilled' \subseteq Client
    BY <1>2, ServeType DEF ReadRequest
  <1>4. toServer' \in [Client -> Seq(Message)]
    BY <1>2 DEF ReadRequest, TypeOK, Message
  <1>5. UNCHANGED <<up, conn, here, call, result>> /\ ready' \in [Client -> BOOLEAN]
    BY DEF ReadRequest, TypeOK
  <1> QED
    BY <1>3, <1>4, <1>5 DEF TypeOK, Message

LEMMA ClientReadType ==
  ASSUME TypeOK, NEW c \in Client, ClientRead(c)
  PROVE  TypeOK'
  <1>1. PICK res \in Value \cup {Nothing, NotFound, Done, Failed}, left \in Seq(Cell) :
          Returns(c, res, left)
    <2>1. toClient[c] \in Seq(Cell) /\ toClient[c] # <<>>
      BY DEF ClientRead, TypeOK
    <2>2. Tail(toClient[c]) \in Seq(Cell) /\ <<>> \in Seq(Cell)
      BY <2>1, HeadTailType
    <2>3. ASSUME Len(toClient[c]) >= 2
          PROVE  SubSeq(toClient[c], 3, Len(toClient[c])) \in Seq(Cell)
      BY <2>1, <2>3
    <2>4. CASE GetReturns(c)
      BY <2>2, <2>3, <2>4 DEF GetReturns
    <2>5. CASE SetReturns(c)
      BY <2>2, <2>5 DEF SetReturns
    <2> QED
      BY <2>4, <2>5 DEF ClientRead
  <1>2. spilled' \subseteq Client
    BY DEF ClientRead, GetReturns, SetReturns, TypeOK
  <1> QED
    BY <1>1, <1>2 DEF ClientRead, Returns, TypeOK

LEMMA ProcessType ==
  ASSUME TypeOK, NEW c \in Client, Process(c)
  PROVE  TypeOK'
  <1>1. CASE Connect(c)
    BY <1>1 DEF Connect, streams, TypeOK
  <1>2. CASE \E r \in Asks[c] : Send(c, r)
    <2>1. PICK r \in Request : Send(c, r)
      BY <1>2, AsksAssumption
    <2>2. Append(toServer[c], r) \in Seq(Message)
      BY DEF TypeOK, Message
    <2>3. toServer' \in [Client -> Seq(Message)]
      BY <2>1, <2>2 DEF Send, TypeOK, Message
    <2> QED
      BY <2>1, <2>3 DEF Send, TypeOK, Message
  <1>3. CASE CallFails(c)
    BY <1>3 DEF CallFails, streams, TypeOK
  <1>4. CASE ClientRead(c)
    BY <1>4, ClientReadType
  <1>5. CASE Leave(c)
    BY <1>5 DEF Leave, TypeOK
  <1> QED
    BY <1>1, <1>2, <1>3, <1>4, <1>5 DEF Process

LEMMA TypeStep ==
  ASSUME IInv, [Next]_vars
  PROVE  TypeOK'
  <1>1. CASE UNCHANGED vars
    BY <1>1 DEF IInv, vars, TypeOK
  <1>2. CASE Start \/ Quit \/ \E c \in Client : Daemon(c)
    BY <1>2, DaemonType, ReadRequestType DEF Daemon, IInv
  <1>3. CASE \E c \in Client : Process(c)
    BY <1>3, ProcessType DEF IInv
  <1> QED
    BY <1>1, <1>2, <1>3 DEF Next

-------------------------------------------------------------------------------
(* In step *)

\* What a client's stream holds is nobody else's affair.
LEMMA Frame ==
  ASSUME NEW d \in Client, Good(d),
         (d \in here') <=> (d \in here), (d \in spilled') <=> (d \in spilled),
         conn'[d] = conn[d], toServer'[d] = toServer[d], toClient'[d] = toClient[d],
         ready'[d] = ready[d], call'[d] = call[d]
  PROVE  Good(d)'
  <1>1. Left(d)'
    BY DEF Good, Left
  <1>2. ASSUME d \notin here' \cup spilled' PROVE Orphan(d)'
    BY <1>2 DEF Good, Orphan
  <1>3. ASSUME d \in here' \ spilled' PROVE InStep(d)'
    BY <1>3 DEF Good, InStep
  <1> QED
    BY <1>1, <1>2, <1>3 DEF Good

LEMMA HangUpGood == ASSUME IInv, HangUp PROVE \A d \in Client : Good(d)'
  <1> SUFFICES ASSUME NEW d \in Client PROVE Good(d)'
    OBVIOUS
  <1> USE DEF IInv
  <1>1. /\ conn'[d] = IF conn[d] = "none" THEN "none" ELSE IF d \in here THEN "lost" ELSE "none"
        /\ toServer'[d] = <<>> /\ ~ready'[d] /\ spilled' = spilled \cap here
        /\ UNCHANGED <<here, toClient, call>>
    BY DEF HangUp
  <1>2. Left(d)'
    BY <1>1, WholeParts DEF Good, Left
  <1>3. Orphan(d)'
    BY <1>1 DEF Orphan
  <1>4. ASSUME d \in here' \ spilled' PROVE InStep(d)'
    <2>1. InStep(d) /\ conn'[d] = "lost"
      BY <1>1, <1>4 DEF Good, Left
    <2> QED
      BY <1>1, <2>1 DEF InStep
  <1> QED
    BY <1>2, <1>3, <1>4 DEF Good

LEMMA DaemonGood ==
  ASSUME IInv, Start \/ Quit \/ \E c \in Client : NewConnection(c) \/ Dies(c) \/ Forget(c)
  PROVE  \A d \in Client : Good(d)'
  <1> USE DEF IInv
  <1>1. CASE Start
    BY <1>1, Frame DEF Start
  <1>2. CASE Quit \/ \E c \in Client : Dies(c)
    BY <1>2, HangUpGood DEF Quit, Dies
  <1>3. ASSUME NEW c \in Client, NewConnection(c) PROVE \A d \in Client : Good(d)'
    <2>1. \A d \in Client \ {c} : Good(d)'
      BY <1>3, Frame DEF NewConnection, streams, TypeOK
    <2>2. /\ conn[c] = "pending" /\ conn'[c] = "open"
          /\ UNCHANGED <<here, streams, call, spilled>>
      BY <1>3 DEF NewConnection, TypeOK
    <2>3. Left(c)'
      BY <2>2 DEF Good, Left, streams
    <2>4. Orphan(c) => Orphan(c)'
      BY <2>2 DEF Orphan, streams
    <2>5. InStep(c) => InStep(c)'
      BY <2>2 DEF InStep, streams
    <2>6. Good(c)'
      BY <2>2, <2>3, <2>4, <2>5 DEF Good
    <2> QED
      BY <2>1, <2>6
  <1>4. ASSUME NEW c \in Client, Forget(c) PROVE \A d \in Client : Good(d)'
    <2>1. \A d \in Client \ {c} : Good(d)'
      BY <1>4, Frame DEF Forget, TypeOK
    <2>2. /\ c \notin here' /\ c \notin spilled' /\ conn'[c] = "none"
          /\ toServer'[c] = <<>> /\ ~ready'[c] /\ UNCHANGED <<here, toClient, call>>
      BY <1>4 DEF Forget, TypeOK
    <2>3. Left(c)' /\ Orphan(c)'
      BY <2>2, WholeParts DEF Good, Left, Orphan
    <2> QED
      BY <2>1, <2>2, <2>3 DEF Good
  <1> QED
    BY <1>1, <1>2, <1>3, <1>4

\* A request of a client in step, or left by one, is answered as a whole.
LEMMA AnswerKept ==
  ASSUME IInv, NEW c \in Client, NEW r \in Request, toServer[c] = <<r>>, ReadRequest(c),
         toClient[c] = <<>>
  PROVE  /\ toServer'[c] = <<>>
         /\ c \notin here => toClient'[c] = <<>> /\ spilled' = spilled
         /\ c \in here /\ r.op = "get" =>
              toClient'[c] = GetReply(ReadProperty(r.key)) /\ spilled' = spilled
         /\ c \in here /\ r.op = "set" =>
              \/ toClient'[c] = <<"done">> /\ spilled' = spilled
              \/ c \in spilled' /\ spilled' = spilled \cup {c}
  <1> USE DEF IInv
  <1>1. toServer'[c] = <<>> /\ (ReadGet(c, r) \/ ReadSet(c, r))
    BY UnreadAlone, RequestFields DEF ReadRequest, TypeOK, ReadTail
  <1>2. CASE ReadGet(c, r)
    <2>1. GetReply(ReadProperty(r.key)) \in Seq(Cell)
      BY ReadPropertyType, GetReplyType
    <2>2. c \in here => toClient'[c] = <<>> \o GetReply(ReadProperty(r.key))
      BY <1>2 DEF ReadGet, Write, TypeOK
    <2> QED
      BY <1>1, <1>2, <2>1, <2>2, ConcatEmptySeq DEF ReadGet, Write
  <1>3. CASE ReadSet(c, r)
    <2>1. PICK n \in Surplus :
            /\ Write(c, <<"done">> \o [i \in 1 .. n |-> "junk"])
            /\ spilled' = IF n > 0 /\ c \in here THEN spilled \cup {c} ELSE spilled
      BY <1>3 DEF ReadSet
    <2>2. CASE c \in here /\ n > 0
      BY <1>1, <1>3, <2>1, <2>2 DEF ReadSet
    <2>3. CASE c \in here /\ ~(n > 0)
      <3>1. n = 0
        BY <2>3, SurplusAssumption
      <3>2. [i \in 1 .. n |-> "junk"] = <<>> /\ <<"done">> \in Seq(Cell)
        BY <3>1 DEF Cell
      <3>3. <<"done">> \o [i \in 1 .. n |-> "junk"] = <<"done">>
        BY <3>2, ConcatEmptySeq
      <3>4. toClient'[c] = <<>> \o <<"done">>
        BY <2>1, <2>3, <3>3 DEF Write, TypeOK
      <3> QED
        BY <1>1, <1>3, <2>1, <2>3, <3>2, <3>4, ConcatEmptySeq DEF ReadSet
    <2>4. CASE c \notin here
      BY <1>1, <1>3, <2>1, <2>4 DEF ReadSet, Write
    <2> QED
      BY <2>2, <2>3, <2>4
  <1> QED
    BY <1>1, <1>2, <1>3

\* What is sent, or spilled, is the reading client's.
LEMMA ServeFrame ==
  ASSUME IInv, NEW c \in Client, ReadRequest(c)
  PROVE  /\ \A d \in Client \ {c} : toClient'[d] = toClient[d]
         /\ spilled' \in {spilled, spilled \cup {c}}
         /\ c \notin here => spilled' = spilled /\ toClient' = toClient
  BY DEF ReadRequest, ReadGet, ReadSet, ReadTail, Write, IInv, TypeOK

LEMMA ReadRequestGood ==
  ASSUME IInv, NEW c \in Client, ReadRequest(c)
  PROVE  \A d \in Client : Good(d)'
  <1> USE DEF IInv
  <1>1. \A d \in Client \ {c} : Good(d)'
    BY Frame, ServeFrame DEF ReadRequest, TypeOK
  <1>2. /\ conn[c] = "open" /\ ready[c] /\ ~ready'[c] /\ UNCHANGED <<conn, here, call>>
    BY DEF ReadRequest, TypeOK
  <1>3. Left(c)'
    <2>1. Whole(toServer[c]) /\ toServer[c] \in Seq(Message) /\ toServer[c] # <<>>
      BY <1>2 DEF Good, Left, TypeOK, Message
    <2>2. Whole(toServer'[c])
      BY <2>1, WholeParts DEF ReadRequest, TypeOK
    <2> QED
      BY <1>2, <2>2, ServeFrame DEF Good, Left
  <1>4. ASSUME c \notin here' \cup spilled' PROVE Orphan(c)'
    <2>1. PICK r \in Request : toServer[c] = <<r>>
      BY <1>2, <1>4, ServeFrame DEF Good, Left, Orphan
    <2>2. toClient[c] = <<>>
      BY <1>2, <1>4 DEF Good, Left
    <2> QED
      BY <2>1, <2>2, AnswerKept DEF Orphan
  <1>5. ASSUME c \in here' \ spilled' PROVE InStep(c)'
    <2>1. c \in here \ spilled /\ toServer[c] # <<>>
      BY <1>2, <1>5, ServeFrame DEF Good, Left
    <2>2. call[c] # Nothing /\ toServer[c] = <<call[c]>> /\ toClient[c] = <<>>
      BY <2>1 DEF Good, InStep
    <2>3. call[c] \in Request
      BY <2>2 DEF TypeOK
    <2>4. CASE call[c].op = "get"
      <3>1. toServer'[c] = <<>> /\ toClient'[c] = GetReply(ReadProperty(call[c].key))
        BY <2>1, <2>2, <2>3, <2>4, AnswerKept
      <3>2. ReadProperty(call[c].key) \in Value
        BY ReadPropertyType
      <3> QED
        BY <1>2, <2>2, <2>4, <3>1, <3>2 DEF InStep, GetReply
    <2>5. CASE call[c].op = "set"
      <3>1. toServer'[c] = <<>> /\ toClient'[c] = <<"done">>
        BY <1>5, <2>1, <2>2, <2>3, <2>5, AnswerKept
      <3> QED
        BY <1>2, <2>2, <2>5, <3>1 DEF InStep
    <2> QED
      BY <2>3, <2>4, <2>5, RequestFields
  <1>6. Good(c)'
    BY <1>3, <1>4, <1>5 DEF Good
  <1> QED
    BY <1>1, <1>6

\* A client in step that reads takes its reply as a whole.
LEMMA ReplyTaken ==
  ASSUME IInv, NEW c \in Client, ClientRead(c), c \notin spilled
  PROVE  /\ toClient'[c] = <<>> /\ call'[c] = Nothing /\ spilled' = spilled
         /\ toServer[c] = <<>>
         /\ result' = [result EXCEPT ![c] =
                         CASE call[c].op = "set" -> Done
                           [] call[c].op = "get" /\ toClient[c][1] = "found" -> toClient[c][2]
                           [] OTHER -> NotFound]
         /\ \/ call[c].op = "set" /\ toClient[c] = <<"done">>
            \/ /\ call[c].op = "get"
               /\ \E v \in Value : toClient[c] \in {<<"missing", v>>, <<"found", v>>}
  <1> USE DEF IInv
  <1>1. InStep(c) /\ call[c] # Nothing /\ toClient[c] # <<>>
    BY DEF ClientRead, Good
  <1>2. toServer[c] = <<>>
    BY <1>1 DEF InStep
  <1>3. CASE call[c].op = "set"
    <2>1. toClient[c] = <<"done">>
      BY <1>1, <1>3 DEF InStep
    <2>2. Tail(<<"done">>) = <<>> /\ <<"done">>[1] = "done"
      OBVIOUS
    <2> QED
      BY <1>2, <1>3, <2>1, <2>2 DEF ClientRead, GetReturns, SetReturns, Returns, TypeOK
  <1>4. CASE call[c].op = "get"
    <2>1. PICK v \in Value : toClient[c] \in {<<"missing", v>>, <<"found", v>>}
      BY <1>1, <1>4 DEF InStep
    <2>2. Len(toClient[c]) = 2 /\ toClient[c][2] = v /\ SubSeq(toClient[c], 3, 2) = <<>>
      BY <2>1
    <2>3. Returns(c, IF toClient[c][1] = "found" THEN toClient[c][2] ELSE NotFound, <<>>)
            /\ spilled' = spilled
      BY <1>4, <2>1, <2>2 DEF ClientRead, GetReturns, SetReturns, Returns
    <2> QED
      BY <1>2, <1>4, <2>1, <2>3 DEF Returns, TypeOK
  <1> QED
    BY <1>1, <1>3, <1>4 DEF InStep, TypeOK, Request

LEMMA ProcessGood ==
  ASSUME IInv, NEW c \in Client, Process(c)
  PROVE  \A d \in Client : Good(d)'
  <1> USE DEF IInv
  <1>1. \A d \in Client \ {c} : Good(d)'
    BY Frame DEF Process, Connect, Send, CallFails, ClientRead, GetReturns, SetReturns,
                 Returns, Leave, streams, TypeOK
  <1> SUFFICES Good(c)'
    BY <1>1
  <1>2. CASE Connect(c)
    <2>1. /\ c \notin here /\ conn[c] = "none" /\ c \in here' /\ conn'[c] \in {"pending", "lost"}
          /\ UNCHANGED <<toServer, toClient, ready, call, spilled>>
      BY <1>2 DEF Connect, streams, TypeOK
    <2>2. toServer[c] = <<>> /\ toClient[c] = <<>> /\ ~ready[c] /\ call[c] = Nothing
            /\ c \notin spilled
      BY <2>1 DEF Good, Left
    <2> QED
      BY <2>1, <2>2 DEF Good, Left, InStep
  <1>3. CASE \E r \in Asks[c] : Send(c, r)
    <2>1. PICK r \in Request : Send(c, r)
      BY <1>3, AsksAssumption
    <2>2. /\ toServer'[c] = Append(toServer[c], r) /\ ready'[c] /\ call'[c] = r
          /\ c \in here /\ conn[c] \in {"pending", "open"} /\ call[c] = Nothing
          /\ UNCHANGED <<conn, here, toClient, spilled>>
      BY <2>1 DEF Send, TypeOK
    <2>3. toServer'[c] # <<>>
      <3>1. toServer[c] \in Seq(Message) /\ r \in Message
        BY DEF TypeOK, Message
      <3>2. Append(toServer[c], r) # <<>>
        BY <3>1, AppendProperties
      <3> QED
        BY <2>2, <3>2
    <2>4. Left(c)'
      <3>1. Whole(toServer[c]) /\ toServer[c] \in Seq(Message)
        BY DEF Good, Left, TypeOK, Message
      <3>2. Whole(toServer'[c])
        BY <2>2, <3>1, WholeParts
      <3> QED
        BY <2>2, <2>3, <3>2 DEF Good, Left
    <2>5. ASSUME c \notin spilled PROVE InStep(c)'
      <3>1. toServer[c] = <<>> /\ toClient[c] = <<>>
        BY <2>2, <2>5 DEF Good, InStep
      <3>2. Append(<<>>, r) = <<r>> /\ r # Nothing
        BY RequestFields
      <3> QED
        BY <2>2, <3>1, <3>2 DEF InStep
    <2> QED
      BY <2>2, <2>4, <2>5 DEF Good
  <1>4. CASE CallFails(c)
    <2>1. /\ c \in here /\ conn[c] = "lost" /\ toClient[c] = <<>> /\ call'[c] = Nothing
          /\ UNCHANGED <<conn, here, toServer, toClient, ready, spilled>>
      BY <1>4 DEF CallFails, streams, TypeOK
    <2>2. toServer[c] = <<>>
      BY <2>1 DEF Good, Left
    <2> QED
      BY <2>1, <2>2 DEF Good, Left, InStep
  <1>5. CASE ClientRead(c)
    <2>1. /\ c \in here /\ UNCHANGED <<conn, here, toServer, ready>>
          /\ c \notin spilled' => c \notin spilled
      BY <1>5 DEF ClientRead, GetReturns, SetReturns
    <2>2. Left(c)'
      BY <2>1 DEF Good, Left
    <2>3. c \notin spilled' => InStep(c)'
      BY <1>5, <2>1, ReplyTaken DEF InStep
    <2> QED
      BY <2>1, <2>2, <2>3 DEF Good
  <1>6. CASE Leave(c)
    <2>1. /\ c \in here /\ c \notin here' /\ toClient'[c] = <<>> /\ call'[c] = Nothing
          /\ conn'[c] = IF conn[c] = "lost" THEN "none" ELSE conn[c]
          /\ c \in spilled' <=> c \in spilled /\ conn[c] # "lost"
          /\ UNCHANGED <<toServer, ready>>
      BY <1>6 DEF Leave, TypeOK
    <2>2. Left(c)'
      BY <2>1 DEF Good, Left
    <2>3. CASE conn[c] = "lost"
      BY <2>1, <2>2, <2>3 DEF Good, Left, Orphan
    <2>4. CASE conn[c] # "lost" /\ c \notin spilled
      <3>1. \/ toServer[c] = <<>>
            \/ ready[c] /\ call[c] # Nothing /\ toServer[c] = <<call[c]>>
        <4>1. InStep(c)
          BY <2>1, <2>4 DEF Good
        <4> QED
          BY <2>4, <4>1 DEF InStep
      <3>2. Orphan(c)'
        BY <2>1, <3>1 DEF Orphan, TypeOK
      <3> QED
        BY <2>1, <2>2, <3>2 DEF Good
    <2>5. CASE conn[c] # "lost" /\ c \in spilled
      BY <2>1, <2>2, <2>5 DEF Good
    <2> QED
      BY <2>3, <2>4, <2>5
  <1> QED
    BY <1>1, <1>2, <1>3, <1>4, <1>5, <1>6 DEF Process

-------------------------------------------------------------------------------
LEMMA InitEstablishes == Init => IInv
  <1> SUFFICES ASSUME Init PROVE IInv
    OBVIOUS
  <1>1. TypeOK
    <2>1. Nothing \in Request \cup {Nothing} /\ "none" \in {"none", "pending", "open", "lost"}
      OBVIOUS
    <2>2. toServer \in [Client -> Seq(Request \cup {Tail33})] /\ toClient \in [Client -> Seq(Cell)]
      BY DEF Init
    <2> QED
      BY <2>1, <2>2 DEF Init, TypeOK
  <1>2. \A c \in Client : Left(c) /\ Orphan(c) /\ c \notin here
    BY WholeParts DEF Init, Left, Orphan
  <1> QED
    BY <1>1, <1>2 DEF IInv, Good

LEMMA IInvStep == IInv /\ [Next]_vars => IInv'
  <1> SUFFICES ASSUME IInv, [Next]_vars PROVE \A c \in Client : Good(c)'
    BY TypeStep DEF IInv
  <1>1. CASE UNCHANGED vars
    BY <1>1, Frame DEF IInv, vars
  <1>2. CASE Start \/ Quit \/ \E c \in Client : Daemon(c)
    BY <1>2, DaemonGood, ReadRequestGood DEF Daemon
  <1>3. CASE \E c \in Client : Process(c)
    BY <1>3, ProcessGood
  <1> QED
    BY <1>1, <1>2, <1>3 DEF Next

LEMMA IInvAlways == Spec => []IInv
  BY InitEstablishes, IInvStep, PTL DEF Spec

\* The state of daemon and clients stays well typed; in particular a read of the
\* daemon always finds something to read.
THEOREM TypeCorrect == Spec => []TypeOK
  BY IInvAlways, PTL DEF IInv

\* A client that was sent no stray byte is in step with the daemon, whatever other
\* clients and restarts of the daemon do.
THEOREM StaysInSync == Spec => []InSync
  <1>1. IInv => InSync
    BY DEF IInv, Good, InSync, TypeOK
  <1> QED
    BY <1>1, IInvAlways, PTL

-------------------------------------------------------------------------------
(* Propertiesd implements PropertyStore *)

(* What the bytes under way stand for *)

LEMMA AnswersIn ==
  /\ AnswerIn(<<>>) = Nothing
  /\ AnswerIn(<<"done">>) = Done
  /\ \A v \in Value : AnswerIn(<<"missing", v>>) = NotFound /\ AnswerIn(<<"found", v>>) = v
  <1>1. <<"done">> # <<>> /\ <<"done">>[1] = "done"
    OBVIOUS
  <1>2. ASSUME NEW v \in Value
        PROVE  /\ <<"missing", v>> # <<>> /\ <<"missing", v>>[1] = "missing"
               /\ <<"found", v>> # <<>> /\ <<"found", v>>[1] = "found"
               /\ <<"found", v>>[2] = v
    OBVIOUS
  <1> QED
    BY <1>1, <1>2 DEF AnswerIn

\* A request, unlike the rest of one, has yet to take effect.
LEMMA AskedRequest ==
  ASSUME NEW q \in Seq(Message), q # <<>>, Head(q) \in Request
  PROVE  AskedIn(q) = q
  <1>1. Head(q).op # "tail"
    BY RequestFields
  <1> QED
    BY <1>1 DEF AskedIn, Tail33

LEMMA AskedAlone ==
  /\ AskedIn(<<>>) = <<>>
  /\ AskedIn(<<Tail33>>) = <<>>
  /\ \A r \in Request : AskedIn(<<r>>) = <<r>> /\ Head(<<r>>) = r /\ Tail(<<r>>) = <<>>
  <1>1. Head(<<Tail33>>) = Tail33 /\ Tail(<<Tail33>>) = <<>>
    OBVIOUS
  <1>2. ASSUME NEW r \in Request
        PROVE  AskedIn(<<r>>) = <<r>> /\ Head(<<r>>) = r /\ Tail(<<r>>) = <<>>
    <2>1. <<r>> \in Seq(Message) /\ <<r>> # <<>> /\ Head(<<r>>) = r /\ Tail(<<r>>) = <<>>
      BY DEF Message
    <2> QED
      BY <2>1, AskedRequest
  <1> QED
    BY <1>1, <1>2 DEF AskedIn

LEMMA AskedAppend ==
  ASSUME NEW q \in Seq(Message), NEW r \in Request
  PROVE  AskedIn(Append(q, r)) = Append(AskedIn(q), r)
  <1>1. CASE q = <<>>
    <2>1. Append(q, r) = <<r>>
      BY <1>1
    <2> QED
      BY <1>1, <2>1, AskedAlone
  <1>2. CASE q # <<>>
    <2>1. r \in Message
      BY DEF Message
    <2>2. /\ Append(q, r) # <<>> /\ Head(Append(q, r)) = Head(q)
          /\ Tail(Append(q, r)) = Append(Tail(q), r)
      BY <1>2, <2>1, AppendProperties, HeadTailProperties
    <2> QED
      BY <1>2, <2>2 DEF AskedIn
  <1> QED
    BY <1>1, <1>2

\* What is left of the requests after a read.
LEMMA AskedUnread ==
  ASSUME NEW q \in Seq(Message), q # <<>>, Whole(q)
  PROVE  IF Head(q) \in Request /\ Head(q).op = "set"
         THEN AskedIn(q) = q /\ AskedIn(Unread(q)) = Tail(q)
         ELSE AskedIn(Unread(q)) = <<>>
  <1>1. CASE Head(q) \in Request /\ Head(q).op = "set"
    <2>1. Unread(q) = Tail(q)
      BY <1>1 DEF Unread
    <2>2. Tail(q) \in Seq(Message)
      BY HeadTailType
    <2>3. ASSUME Tail(q) # <<>> PROVE Head(Tail(q)) \in Request
      <3>1. Len(q) >= 2 /\ Head(Tail(q)) = q[2]
        BY <2>2, <2>3
      <3> QED
        BY <3>1 DEF Whole
    <2>4. AskedIn(Tail(q)) = Tail(q)
      BY <2>2, <2>3, AskedRequest, AskedAlone
    <2> QED
      BY <1>1, <2>1, <2>4, AskedRequest
  <1>2. CASE ~(Head(q) \in Request /\ Head(q).op = "set")
    <2>1. Head(q).op # "set"
      <3>1. Head(q) \in Message
        BY HeadTailType
      <3> QED
        BY <1>2, <3>1 DEF Message, Tail33
    <2>2. Unread(q) \in {<<>>, <<Tail33>>}
      BY <2>1 DEF Unread
    <2> QED
      BY <1>2, <2>2, AskedAlone
  <1> QED
    BY <1>1, <1>2

\* A step that is the affair of one client.
LEMMA OthersShown ==
  ASSUME NEW c \in Client,
         \A d \in Client \ {c} : /\ toServer'[d] = toServer[d] /\ toClient'[d] = toClient[d]
                                 /\ (d \in spilled') <=> (d \in spilled)
  PROVE  /\ Asked' = [Asked EXCEPT ![c] = AskedIn(toServer'[c])]
         /\ Answered' = [Answered EXCEPT ![c] = Answered'[c]]
  BY DEF Asked, Answered

LEMMA NoAnswer ==
  ASSUME NEW c \in Client
  PROVE  /\ c \in spilled \/ toClient[c] = <<>> => Answered[c] = Nothing
         /\ c \in spilled' \/ toClient'[c] = <<>> => Answered'[c] = Nothing
  BY AnswersIn DEF Answered

LEMMA CutSame ==
  ASSUME \A d \in Client : (conn'[d] = "lost") <=> (conn[d] = "lost")
  PROVE  Cut' = Cut
  BY DEF Cut

LEMMA AfterWrite ==
  ASSUME NEW r \in Request, r.op = "set"
  PROVE  WriteProperty(store, r.key, r.value) = Store!After(store, r)
  BY DEF WriteProperty, Store!After

LEMMA AnswerToGet ==
  ASSUME TypeOK, NEW r \in Request, r.op = "get"
  PROVE  AnswerIn(GetReply(ReadProperty(r.key))) = Store!Answer(store, r)
  <1>1. ReadProperty(r.key) \in Value
    BY ReadPropertyType
  <1>2. AnswerIn(GetReply(ReadProperty(r.key)))
          = IF ReadProperty(r.key) = Empty THEN NotFound ELSE ReadProperty(r.key)
    BY <1>1, AnswersIn DEF GetReply
  <1> QED
    BY <1>2 DEF ReadProperty, Store!Answer

-------------------------------------------------------------------------------
(* The steps of the daemon *)

LEMMA StartShown ==
  ASSUME Start
  PROVE  Store!Start
  <1>1. UNCHANGED <<Asked, Answered, Cut>>
    BY DEF Start, Asked, Answered, Cut
  <1>2. store' = IF \E k \in Plain : store[k] # Unset THEN store
                 ELSE [k \in Key |-> IF k \in DOMAIN Default THEN Default[k] ELSE store[k]]
    BY DEF Start, InitProperties, ChildKeys
  <1> QED
    BY <1>1, <1>2 DEF Start, Store!Start

LEMMA HangUpShown ==
  ASSUME IInv, up, HangUp
  PROVE  Store!Stop
  <1> USE DEF IInv
  <1>1. Asked' = [c \in Client |-> <<>>]
    BY AskedAlone DEF HangUp, Asked
  <1>2. Cut' = here
    BY DEF HangUp, Cut, Good, Left, TypeOK
  <1>3. Answered' = Answered
    <2>1. \A c \in Client : c \in spilled \ here => toClient[c] = <<>>
      BY DEF Good, Left
    <2>2. toClient' = toClient /\ spilled' = spilled \cap here
      BY DEF HangUp
    <2> QED
      BY <2>1, <2>2, AnswersIn DEF Answered
  <1> QED
    BY <1>1, <1>2, <1>3 DEF HangUp, Store!Stop

LEMMA ForgetShown ==
  ASSUME IInv, NEW c \in Client, Forget(c)
  PROVE  Store!Forget(c)
  <1> USE DEF IInv
  <1>1. c \in spilled \/ Asked[c] = <<>>
    BY AskedAlone DEF Forget, Good, Orphan, Asked
  <1>2. toServer'[c] = <<>> /\ toClient'[c] = <<>> /\ toClient[c] = <<>>
    BY DEF Forget, Good, Left, TypeOK
  <1>3. /\ Asked' = [Asked EXCEPT ![c] = <<>>]
        /\ Answered' = [Answered EXCEPT ![c] = Nothing]
    BY <1>2, OthersShown, NoAnswer, AskedAlone DEF Forget, TypeOK
  <1>4. Answered' = Answered
    BY <1>2, <1>3, NoAnswer DEF Answered
  <1>5. Cut' = Cut
    BY CutSame DEF Forget, TypeOK
  <1> QED
    BY <1>1, <1>3, <1>4, <1>5 DEF Forget, Store!Forget

LEMMA ReadWildShown ==
  ASSUME IInv, NEW c \in Client, ReadRequest(c), c \in spilled
  PROVE  Store!ServeWild(c)
  <1> USE DEF IInv
  <1> DEFINE q == toServer[c]  m == Head(toServer[c])
  <1>1. q \in Seq(Message) /\ q # <<>> /\ Whole(q) /\ m \in Message
    BY HeadTailType DEF ReadRequest, Good, Left, TypeOK, Message
  <1>2. /\ \A d \in Client \ {c} : /\ toServer'[d] = toServer[d] /\ toClient'[d] = toClient[d]
                                   /\ (d \in spilled') <=> (d \in spilled)
        /\ spilled' = spilled /\ toServer'[c] = Unread(q)
        /\ UNCHANGED <<up, conn, here, result>> /\ up
    BY ServeFrame DEF ReadRequest, TypeOK
  <1>3. Asked' = [Asked EXCEPT ![c] = AskedIn(Unread(q))]
    BY <1>2, OthersShown
  <1>4. Answered' = Answered /\ Cut' = Cut
    <2>1. Answered[c] = Nothing /\ Answered'[c] = Nothing
      BY <1>2, NoAnswer
    <2> QED
      BY <1>2, <2>1, OthersShown, CutSame DEF Answered
  <1>5. CASE m \in Request /\ m.op = "set"
    <2>1. Asked[c] = q /\ AskedIn(Unread(q)) = Tail(q)
      BY <1>1, <1>5, AskedUnread DEF Asked
    <2>2. store' = Store!After(store, m)
      BY <1>5, AfterWrite DEF ReadRequest, ReadGet, ReadSet, ReadTail
    <2> QED
      BY <1>1, <1>2, <1>3, <1>4, <2>1, <2>2 DEF Store!ServeWild
  <1>6. CASE ~(m \in Request /\ m.op = "set")
    <2>1. AskedIn(Unread(q)) = <<>>
      BY <1>1, <1>6, AskedUnread
    <2>2. m.op # "set"
      BY <1>1, <1>6 DEF Message, Tail33
    <2>3. store' = store
      BY <2>2 DEF ReadRequest, ReadGet, ReadSet, ReadTail
    <2> QED
      BY <1>2, <1>3, <1>4, <2>1, <2>3 DEF Store!ServeWild
  <1> QED
    BY <1>5, <1>6

LEMMA ReadRequestShown ==
  ASSUME IInv, NEW c \in Client, ReadRequest(c), c \notin spilled
  PROVE  Store!Serve(c) \/ Store!Spoil(c)
  <1> USE DEF IInv
  <1>1. /\ \A d \in Client \ {c} : /\ toServer'[d] = toServer[d] /\ toClient'[d] = toClient[d]
                                   /\ (d \in spilled') <=> (d \in spilled)
        /\ UNCHANGED <<up, conn, here, result>> /\ ready[c] /\ up
    BY ServeFrame DEF ReadRequest, TypeOK
  <1>2. PICK r \in Request : toServer[c] = <<r>>
    BY <1>1 DEF Good, Left, Orphan, InStep, TypeOK
  <1>3. toClient[c] = <<>>
    BY <1>1, <1>2 DEF Good, Left, InStep
  <1>4. Asked[c] = <<r>> /\ Head(<<r>>) = r /\ Tail(<<r>>) = <<>> /\ <<r>> # <<>>
    BY <1>2, AskedAlone DEF Asked
  <1>5. toServer'[c] = <<>>
    BY <1>2, <1>3, AnswerKept
  <1>6. Asked' = [Asked EXCEPT ![c] = <<>>] /\ Cut' = Cut
    BY <1>1, <1>5, OthersShown, CutSame, AskedAlone
  <1>7. Answered[c] = Nothing /\ Answered' = [Answered EXCEPT ![c] = Answered'[c]]
    BY <1>1, <1>3, NoAnswer, OthersShown
  <1>8. store' = Store!After(store, r)
    <2>1. ReadGet(c, r) \/ ReadSet(c, r)
      BY <1>2, UnreadAlone, RequestFields DEF ReadRequest, ReadTail
    <2>2. CASE ReadGet(c, r)
      BY <2>2 DEF ReadGet, Store!After
    <2>3. CASE ReadSet(c, r)
      BY <2>3, AfterWrite DEF ReadSet
    <2> QED
      BY <2>1, <2>2, <2>3
  <1>9. \/ /\ spilled' = spilled
           /\ Answered'[c] = IF c \in here THEN Store!Answer(store, r) ELSE Nothing
        \/ /\ spilled' = spilled \cup {c} /\ c \in here /\ r.op = "set"
           /\ Answered'[c] = Nothing
    <2>1. CASE c \notin here
      BY <1>2, <1>3, <2>1, AnswerKept, NoAnswer
    <2>2. CASE c \in here /\ r.op = "get"
      <3>1. toClient'[c] = GetReply(ReadProperty(r.key)) /\ spilled' = spilled
        BY <1>2, <1>3, <2>2, AnswerKept
      <3> QED
        BY <2>2, <3>1, AnswerToGet DEF Answered
    <2>3. CASE c \in here /\ r.op = "set"
      <3>1. \/ toClient'[c] = <<"done">> /\ spilled' = spilled
            \/ c \in spilled' /\ spilled' = spilled \cup {c}
        BY <1>2, <1>3, <2>3, AnswerKept
      <3>2. CASE toClient'[c] = <<"done">> /\ spilled' = spilled
        BY <2>3, <3>2, AnswersIn DEF Answered, Store!Answer
      <3>3. CASE c \in spilled' /\ spilled' = spilled \cup {c}
        BY <2>3, <3>3, NoAnswer
      <3> QED
        BY <3>1, <3>2, <3>3
    <2> QED
      BY <2>1, <2>2, <2>3, RequestFields
  <1>10. Answered'[c] = Nothing => Answered' = Answered
    BY <1>7 DEF Answered
  <1> QED
    BY <1>1, <1>4, <1>6, <1>7, <1>8, <1>9, <1>10 DEF Store!Serve, Store!Spoil

-------------------------------------------------------------------------------
(* The steps of the clients *)

LEMMA ConnectShown ==
  ASSUME IInv, NEW c \in Client, Connect(c)
  PROVE  Store!Join(c)
  <1> USE DEF IInv
  <1>1. c \notin here \cup spilled /\ Asked[c] = <<>>
    BY AskedAlone DEF Connect, Good, Left, Asked
  <1>2. UNCHANGED <<Asked, Answered>>
    BY DEF Connect, streams, Asked, Answered
  <1>3. Cut' = IF up THEN Cut ELSE Cut \cup {c}
    BY DEF Connect, Cut, TypeOK
  <1> QED
    BY <1>1, <1>2, <1>3 DEF Connect, streams, Store!Join

LEMMA SendShown ==
  ASSUME IInv, NEW c \in Client, NEW r \in Request, Send(c, r)
  PROVE  Store!Ask(c)
  <1> USE DEF IInv
  <1>1. /\ \A d \in Client \ {c} : toServer'[d] = toServer[d]
        /\ toServer'[c] = Append(toServer[c], r)
        /\ UNCHANGED <<up, store, conn, here, toClient, result, spilled>>
    BY DEF Send, TypeOK
  <1>2. Answered' = Answered /\ Cut' = Cut
    BY <1>1 DEF Answered, Cut
  <1>3. Asked' = [Asked EXCEPT ![c] = Append(Asked[c], r)]
    <2>1. AskedIn(toServer'[c]) = Append(Asked[c], r)
      BY <1>1, AskedAppend DEF Asked, TypeOK, Message
    <2> QED
      BY <1>1, <2>1, OthersShown
  <1>4. c \in here \ Cut
    BY DEF Send, Cut
  <1>5. Store!Quiet(c) \/ c \in spilled
    BY <1>4, NoAnswer, AskedAlone DEF Send, Good, InStep, Asked, Store!Quiet
  <1> QED
    BY <1>1, <1>2, <1>3, <1>4, <1>5 DEF Store!Ask

LEMMA CallFailsShown ==
  ASSUME IInv, NEW c \in Client, CallFails(c)
  PROVE  Store!Fail(c)
  <1> USE DEF IInv
  <1>1. UNCHANGED <<Asked, Answered, Cut>>
    BY DEF CallFails, streams, Asked, Answered, Cut
  <1>2. c \in Cut /\ Store!Quiet(c)
    BY NoAnswer, AskedAlone DEF CallFails, Good, Left, Asked, Cut, Store!Quiet
  <1> QED
    BY <1>1, <1>2 DEF CallFails, streams, Store!Fail

LEMMA ClientReadShown ==
  ASSUME IInv, NEW c \in Client, ClientRead(c)
  PROVE  Store!Return(c) \/ Store!Stray(c)
  <1> USE DEF IInv
  <1>1. /\ \A d \in Client \ {c} : /\ toServer'[d] = toServer[d] /\ toClient'[d] = toClient[d]
                                   /\ (d \in spilled') <=> (d \in spilled)
        /\ \A d \in Client \ {c} : result'[d] = result[d]
        /\ DOMAIN result' = Client
        /\ UNCHANGED <<up, store, conn, here, toServer>>
    BY DEF ClientRead, GetReturns, SetReturns, Returns, TypeOK
  <1>2. UNCHANGED <<Asked, Cut>>
    BY <1>1 DEF Asked, Cut
  <1>3. CASE c \in spilled
    <2>1. spilled' = spilled
      BY <1>3 DEF ClientRead, GetReturns, SetReturns
    <2>2. Answered' = Answered
      BY <1>1, <1>3, <2>1 DEF Answered
    <2> QED
      BY <1>1, <1>2, <1>3, <2>1, <2>2 DEF Store!Stray
  <1>4. CASE c \notin spilled
    <2>1. toClient'[c] = <<>> /\ spilled' = spilled
      BY <1>4, ReplyTaken
    <2>2. Answered' = [Answered EXCEPT ![c] = Nothing]
      BY <1>1, <2>1, OthersShown, NoAnswer
    <2>3. Answered[c] # Nothing /\ result' = [result EXCEPT ![c] = Answered[c]]
      <3>1. Answered[c] = AnswerIn(toClient[c])
        BY <1>4 DEF Answered
      <3>2. CASE call[c].op = "set" /\ toClient[c] = <<"done">>
        BY <1>4, <3>1, <3>2, ReplyTaken, AnswersIn, ResultAssumption
      <3>3. ASSUME NEW v \in Value, call[c].op = "get",
                   toClient[c] \in {<<"missing", v>>, <<"found", v>>}
            PROVE  Answered[c] # Nothing /\ result' = [result EXCEPT ![c] = Answered[c]]
        <4>1. result' = [result EXCEPT ![c] = IF toClient[c][1] = "found" THEN toClient[c][2]
                                              ELSE NotFound]
          BY <1>4, <3>3, ReplyTaken
        <4>2. CASE toClient[c] = <<"missing", v>>
          <5>1. toClient[c][1] # "found"
            BY <4>2
          <5> QED
            BY <3>1, <4>1, <4>2, <5>1, AnswersIn, ResultAssumption
        <4>3. CASE toClient[c] = <<"found", v>>
          <5>1. toClient[c][1] = "found" /\ toClient[c][2] = v
            BY <4>3
          <5>2. v # Nothing
            BY ResultAssumption
          <5> QED
            BY <3>1, <4>1, <4>3, <5>1, <5>2, AnswersIn
        <4> QED
          BY <3>3, <4>2, <4>3
      <3> QED
        BY <1>4, <3>2, <3>3, ReplyTaken
    <2> QED
      BY <1>1, <1>2, <2>1, <2>2, <2>3 DEF Store!Return
  <1> QED
    BY <1>3, <1>4

LEMMA LeaveShown ==
  ASSUME IInv, NEW c \in Client, Leave(c)
  PROVE  Store!Leave(c)
  <1> USE DEF IInv
  <1>1. Asked' = Asked
    BY DEF Leave, Asked
  <1>2. /\ toClient'[c] = <<>>
        /\ \A d \in Client \ {c} : /\ toServer'[d] = toServer[d] /\ toClient'[d] = toClient[d]
                                   /\ (d \in spilled') <=> (d \in spilled)
    BY DEF Leave, TypeOK
  <1>3. Answered' = [Answered EXCEPT ![c] = Nothing]
    BY <1>2, OthersShown, NoAnswer
  <1>4. Cut' = Cut \ {c} /\ (c \in Cut <=> conn[c] = "lost")
    BY DEF Leave, Cut, TypeOK
  <1> QED
    BY <1>1, <1>3, <1>4 DEF Leave, Store!Leave

-------------------------------------------------------------------------------
LEMMA InitShown == Init => Store!Init
  <1> SUFFICES ASSUME Init PROVE Store!Init
    OBVIOUS
  <1>1. Asked = [c \in Client |-> <<>>] /\ Answered = [c \in Client |-> Nothing]
    BY AnswersIn, AskedAlone DEF Init, Asked, Answered
  <1>2. Cut = {}
    BY DEF Init, Cut
  <1> QED
    BY <1>1, <1>2 DEF Init, Store!Init

LEMMA StepShown ==
  ASSUME IInv, [Next]_vars
  PROVE  Store!Next \/ UNCHANGED Store!vars
  <1>1. CASE Start
    BY <1>1, StartShown DEF Store!Next
  <1>2. CASE Quit \/ \E c \in Client : Dies(c)
    BY <1>2, HangUpShown DEF Quit, Dies, Store!Next
  <1>3. ASSUME NEW c \in Client, NewConnection(c) PROVE UNCHANGED Store!vars
    <2>1. UNCHANGED <<up, store, here, toServer, toClient, result, spilled>>
      BY <1>3 DEF NewConnection, streams
    <2>2. Cut' = Cut
      BY <1>3, CutSame DEF NewConnection, IInv, TypeOK
    <2> QED
      BY <2>1, <2>2 DEF Store!vars, Asked, Answered
  <1>4. CASE \E c \in Client : ReadRequest(c)
    BY <1>4, ReadRequestShown, ReadWildShown DEF Store!Next
  <1>5. CASE \E c \in Client : Forget(c)
    BY <1>5, ForgetShown DEF Store!Next
  <1>6. ASSUME NEW c \in Client, Process(c) PROVE Store!Next
    BY <1>6, AsksAssumption, ConnectShown, SendShown, CallFailsShown, ClientReadShown, LeaveShown
       DEF Process, Store!Next
  <1>7. CASE UNCHANGED vars
    BY <1>7 DEF vars, Store!vars, Asked, Answered, Cut
  <1> QED
    BY <1>1, <1>2, <1>3, <1>4, <1>5, <1>6, <1>7 DEF Next, Daemon

\* For every number of clients, keys and values, the daemon and its streams of bytes
\* implement a register per key: the request of a client takes effect once, between the
\* start and the return of its call, a get tells the value of that moment, and no value
\* changes otherwise but by the defaults at a start of the daemon.  A client out of step
\* is told anything, and of its requests any may be overlooked; it disturbs no other.
THEOREM ImplementsStore == Spec => ServesStore
  <1>1. IInv /\ [Next]_vars => [Store!Next]_Store!vars
    BY StepShown
  <1> QED
    BY <1>1, InitShown, IInvAlways, PTL DEF Spec, ServesStore, Store!Spec
===============================================================================
