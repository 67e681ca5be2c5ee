-------------------------- MODULE RecordingProofs --------------------------
(***************************************************************************)
(* What RecorderChannel guarantees about recordings, for every set of      *)
(* methods and every number of requests: the client is never told of a new *)
(* recording before it was told of the end of the one before; and until    *)
(* recorder_stream_write is overtaken by the server task, the recording    *)
(* the client was told of is the one the media thread records, and the     *)
(* media thread never completes a recording it does not have.  Rests on    *)
(* the invariant of RecorderProofs.                                        *)
(***************************************************************************)
EXTENDS RecorderProofs

(* The client is told that a recording is in progress. *)
Accepts(m) == IsResponse(m) /\ m.state = "INPROGRESS"

(* The client is told that a recording is over. *)
Final(m) == (m.type = "event" /\ m.method = "RECORD-COMPLETE") \/ (IsResponse(m) /\ m.method = "STOP")

(* Between two acceptances in tc there is an end. *)
Separate(tc) ==
    \A i, j \in 1 .. Len(tc) :
        (i < j /\ Accepts(tc[i]) /\ Accepts(tc[j])) => \E k \in i + 1 .. j - 1 : Final(tc[k])

(* After every acceptance in tc there is an end. *)
Over(tc) == \A i \in 1 .. Len(tc) : Accepts(tc[i]) => \E k \in i + 1 .. Len(tc) : Final(tc[k])

OnlyRecord(q) == \A i \in 1 .. Len(q) : Accepts(q[i]) => q[i].method = "RECORD"

(* The request is in recorder_channel_record. *)
Starting == Unanswered \cup {"record_start"}

(* Only a RECORD is accepted, it is processed only while there is no       *)
(* recording, and while there is none the client has been told of the end  *)
(* of the last one.                                                        *)
Recordings ==
    /\ Separate(to_client)
    /\ (active /\ state # "RECORDING") => Over(to_client)
    /\ OnlyRecord(task_queue)
    /\ InHand({"response"}) => (Accepts(Current) => Current.method = "RECORD")
    /\ InHand(Starting) => Current.method = "RECORD"
    /\ stop_response # NULL => stop_response.state = "COMPLETE"
    /\ (sm_request # NULL /\ sm_request.method = "RECORD") => state # "RECORDING"
-----------------------------------------------------------------------------
(* What a message added to those the client got means to them *)
LEMMA Told ==
    ASSUME NEW tc \in Seq(Message), NEW m \in Message, Separate(tc)
    PROVE  /\ (Accepts(m) => Over(tc)) => Separate(Append(tc, m))
           /\ Over(tc) /\ ~Accepts(m) => Over(Append(tc, m))
           /\ Final(m) /\ ~Accepts(m) => Over(Append(tc, m))
  <1>. DEFINE t == Append(tc, m)
  <1>1. /\ Len(t) = Len(tc) + 1 /\ Len(tc) \in Nat /\ t[Len(tc) + 1] = m
        /\ \A i \in 1 .. Len(tc) : t[i] = tc[i]
    BY PutLast
  <1>2. \A i \in 1 .. Len(t) : i \in 1 .. Len(tc) \/ i = Len(tc) + 1
    BY <1>1
  <1>. HIDE DEF t
  <1>3. ASSUME Accepts(m) => Over(tc)
        PROVE  Separate(t)
    <2>. SUFFICES ASSUME NEW i \in 1 .. Len(t), NEW j \in 1 .. Len(t), i < j,
                         Accepts(t[i]), Accepts(t[j])
                  PROVE  \E k \in i + 1 .. j - 1 : Final(t[k])
      BY Zenon DEF Separate
    <2>1. i \in 1 .. Len(tc) /\ Accepts(tc[i])
      BY <1>1
    <2>2. CASE j \in 1 .. Len(tc)
      <3>1. PICK k \in i + 1 .. j - 1 : Final(tc[k])
        BY Zenon, <1>1, <2>1, <2>2 DEF Separate
      <3>. QED BY <1>1, <2>1, <2>2, <3>1
    <2>3. CASE j = Len(tc) + 1
      <3>1. PICK k \in i + 1 .. Len(tc) : Final(tc[k])
        BY Zenon, <1>1, <1>3, <2>1, <2>3 DEF Over
      <3>. QED BY <1>1, <2>1, <2>3, <3>1
    <2>. QED BY Zenon, <1>2, <2>2, <2>3
  <1>4. ASSUME Over(tc), ~Accepts(m)
        PROVE  Over(t)
    <2>. SUFFICES ASSUME NEW i \in 1 .. Len(t), Accepts(t[i])
                  PROVE  \E k \in i + 1 .. Len(t) : Final(t[k])
      BY Zenon DEF Over
    <2>1. i \in 1 .. Len(tc) /\ Accepts(tc[i])
      BY Zenon, <1>1, <1>2, <1>4
    <2>2. PICK k \in i + 1 .. Len(tc) : Final(tc[k])
      BY Zenon, <1>4, <2>1 DEF Over
    <2>. QED BY <1>1, <2>1, <2>2
  <1>5. ASSUME Final(m), ~Accepts(m)
        PROVE  Over(t)
    <2>1. \A i \in 1 .. Len(t) : Accepts(t[i]) => Len(tc) + 1 \in i + 1 .. Len(t)
      BY <1>1, <1>2, <1>5
    <2>. QED BY Zenon, <1>1, <1>5, <2>1 DEF Over
  <1>. QED BY Zenon, <1>3, <1>4, <1>5 DEF t

(* A message signalled to the server task, and one it takes *)
LEMMA OnlyRecordKept ==
    ASSUME NEW q \in Seq(Message)
    PROVE  /\ \A m \in Message : OnlyRecord(q) /\ (Accepts(m) => m.method = "RECORD") =>
                 OnlyRecord(Append(q, m))
           /\ q # <<>> /\ OnlyRecord(q) =>
                 OnlyRecord(Tail(q)) /\ (Accepts(Head(q)) => Head(q).method = "RECORD")
  <1>1. ASSUME NEW m \in Message, OnlyRecord(q), Accepts(m) => m.method = "RECORD"
        PROVE  OnlyRecord(Append(q, m))
    BY <1>1, PutLast DEF OnlyRecord
  <1>2. ASSUME q # <<>>, OnlyRecord(q)
        PROVE  OnlyRecord(Tail(q)) /\ (Accepts(Head(q)) => Head(q).method = "RECORD")
    <2>1. /\ Head(q) = q[1] /\ Len(Tail(q)) = Len(q) - 1 /\ Len(q) \in Nat \ {0}
          /\ \A i \in 1 .. Len(Tail(q)) : Tail(q)[i] = q[i + 1]
      BY Zenon, <1>2, TakenFirst
    <2>2. 1 \in 1 .. Len(q) /\ \A i \in 1 .. Len(Tail(q)) : i + 1 \in 1 .. Len(q)
      BY <2>1
    <2>. QED BY Zenon, <1>2, <2>1, <2>2 DEF OnlyRecord
  <1>. QED BY Zenon, <1>1, <1>2

(* A request on its way through a handler is still the same request. *)
LEMMA Retyped ==
    ASSUME NEW m \in Message, NEW type \in MessageType
    PROVE  /\ [m EXCEPT !.type = type] \in Message
           /\ [m EXCEPT !.type = type].type = type
           /\ [m EXCEPT !.type = type].id = m.id
           /\ [m EXCEPT !.type = type].method = m.method
  BY Zenon, Created DEF Message

(* A response the state machine dispatches goes to the client of an active *)
(* channel, and the session goes on with its next request.                 *)
LEMMA Dispatched ==
    ASSUME RecorderInv, NEW m \in Message, ResponseDispatch(m, <<>>)
    PROVE  /\ sm_request' = NULL /\ active' = active
           /\ to_client' = IF active THEN Append(to_client, m) ELSE to_client
           /\ ~InHand(Starting \cup {"response", "event"})'
  <1>. USE DEF RecorderInv
  <1>1. CASE ~active
    <2>1. todo' = <<>> /\ UNCHANGED <<to_client, active>> /\ sm_request' = NULL
      BY Zenon, <1>1 DEF ResponseDispatch, OnDeactivate
    <2>. QED BY Zenon, <1>1, <2>1, EmptyHand
  <1>2. CASE active
    <2>1. /\ to_client' = Append(to_client, m) /\ UNCHANGED active /\ sm_request' = NULL
          /\ request_queue = <<>> => todo' = <<>>
          /\ request_queue # <<>> => todo' = <<Head(request_queue)>> \o <<>>
      BY Zenon, <1>2 DEF ResponseDispatch, SendResponse
    <2>2. CASE request_queue = <<>>
      BY Zenon, <1>2, <2>1, <2>2, EmptyHand
    <2>3. CASE request_queue # <<>>
      <3>. DEFINE h == Head(request_queue)
      <3>1. h \in Message /\ h = request_queue[1] /\ 1 \in 1 .. Len(request_queue)
        BY <2>3, TakenFirst DEF TypeOK, ControlTypeOK
      <3>2. h.type \in {"request", "terminate"}
        BY Zenon, <3>1 DEF Serial
      <3>. HIDE DEF h
      <3>3. todo' = <<h>>
        BY Zenon, <2>1, <2>3, <3>1, PushOnEmpty DEF h
      <3>4. \A types : InHand(types)' <=> h.type \in types
        BY Zenon, <3>1, <3>3, NewHand
      <3>5. ~InHand(Starting \cup {"response", "event"})'
        BY Zenon, <3>2, <3>4 DEF Starting, Unanswered
      <3>. QED BY Zenon, <1>2, <2>1, <3>5
    <2>. QED BY Zenon, <2>2, <2>3
  <1>. QED BY Zenon, <1>1, <1>2
-----------------------------------------------------------------------------
(* An answer given at once accepts nothing, and a RECORD is given to the   *)
(* engine only while there is no recording.                                *)
LEMMA RecordingsRequest ==
    ASSUME RecorderInv, Recordings, RequestUpdate
    PROVE  Recordings'
  <1>. USE DEF RecorderInv, sessionVars, clientVars, machineVars, pluginVars, mediaVars
  <1>1. Current \in Message /\ Rest = <<>> /\ Current.type = "request" /\ InHand({"request"})
    BY Zenon, OneInHand DEF RequestUpdate, Running, InHand
  <1>2. active /\ task_queue \in Seq(Message) /\ to_client \in Seq(Message)
    BY Zenon, <1>1 DEF Serial, InHand, TypeOK, ControlTypeOK
  <1>. DEFINE answer == Response(Current, "COMPLETE")
  <1>3. answer \in Message /\ ~Accepts(answer) /\ answer.state = "COMPLETE"
    BY Zenon, <1>1, Created DEF Accepts, Response
  <1>. HIDE DEF answer
  <1>4. ASSUME ResponseDispatch(answer, <<>>), UNCHANGED <<task_queue, stop_response, machineVars>>
        PROVE  Recordings'
    <2>1. /\ sm_request' = NULL /\ active' /\ to_client' = Append(to_client, answer)
          /\ ~InHand(Starting \cup {"response", "event"})'
      BY Zenon, <1>2, <1>3, <1>4, Dispatched
    <2>2. Separate(to_client') /\ (state # "RECORDING" => Over(to_client'))
      BY Zenon, <1>2, <1>3, <2>1, Told DEF Recordings
    <2>3. ~InHand(Starting)' /\ ~InHand({"response"})'
      BY Zenon, <2>1 DEF InHand
    <2>. QED BY Zenon, <1>4, <2>1, <2>2, <2>3 DEF Recordings
  <1>5. ASSUME todo' = <<>>, sm_request' = Current, Current.method # "RECORD",
               UNCHANGED <<active, to_client, machineVars>>,
               UNCHANGED task_queue \/ Signal(answer),
               UNCHANGED stop_response \/ stop_response' = answer
        PROVE  Recordings'
    <2>1. OnlyRecord(task_queue')
      BY Zenon, <1>2, <1>3, <1>5, OnlyRecordKept DEF Signal, Recordings
    <2>2. ~InHand(Starting)' /\ ~InHand({"response"})'
      BY Zenon, <1>5, EmptyHand
    <2>3. stop_response' # NULL => stop_response'.state = "COMPLETE"
      BY Zenon, <1>3, <1>5 DEF Recordings
    <2>. QED BY Zenon, <1>5, <2>1, <2>2, <2>3 DEF Recordings
  <1>6. CASE RequestSetParams
    BY Zenon, <1>1, <1>5, <1>6 DEF RequestSetParams, answer
  <1>7. CASE RequestGetParams
    BY Zenon, <1>1, <1>5, <1>7 DEF RequestGetParams, answer
  <1>8. CASE RequestStartTimers
    BY Zenon, <1>1, <1>4, <1>5, <1>8 DEF RequestStartTimers, answer
  <1>9. CASE RequestStop
    BY Zenon, <1>1, <1>4, <1>5, <1>9 DEF RequestStop, answer
  <1>10. CASE RequestRecord /\ state = "RECORDING"
    BY Zenon, <1>1, <1>4, <1>10 DEF RequestRecord, answer
  <1>11. CASE RequestRecord /\ state # "RECORDING"
    <2>. DEFINE n == [Inherit(Current) EXCEPT !.type = "record_open"]
    <2>1. n \in Message /\ n.type = "record_open" /\ n.method = "RECORD"
      <3>1. Inherit(Current) \in Message /\ Inherit(Current).method = "RECORD"
        BY ZenonT(40), <1>1, <1>11, Created
                 DEF Inherit, TypeOK, ControlTypeOK, Message, RequestRecord
      <3>2. "record_open" \in MessageType
        BY Zenon DEF MessageType
      <3>. QED BY Zenon, <3>1, <3>2, Retyped
    <2>2. todo' = <<n>> \o <<>> /\ UNCHANGED <<active, to_client, task_queue, machineVars, stop_response>>
      BY Zenon, <1>1, <1>11 DEF RequestRecord
    <2>. HIDE DEF n
    <2>3. Current' = n /\ \A types : InHand(types)' <=> n.type \in types
      BY Zenon, <2>1, <2>2, NewHand, PushOnEmpty
    <2>. QED BY Zenon, <1>11, <2>1, <2>2, <2>3 DEF Recordings
  <1>. QED BY Zenon, <1>6, <1>7, <1>8, <1>9, <1>10, <1>11 DEF RequestUpdate

(* The RECORD handler accepts a RECORD or answers that it is complete. *)
LEMMA RecordingsRecord ==
    ASSUME RecorderInv, Recordings, RecordOpen \/ RecordReset \/ RecordRespond \/ RecordStart
    PROVE  Recordings'
  <1>. USE DEF RecorderInv, Running, sessionVars, clientVars, machineVars, pluginVars, mediaVars
  <1>1. /\ Current \in Message /\ Rest = <<>> /\ Current.method = "RECORD"
        /\ task_queue \in Seq(Message)
    BY Zenon, OneInHand DEF RecordOpen, RecordReset, RecordRespond, RecordStart, Recordings, InHand,
                     Unanswered, Starting, TypeOK, ControlTypeOK
  <1>2. UNCHANGED <<active, sm_request, to_client, machineVars, stop_response>>
    BY Zenon DEF RecordOpen, RecordReset, RecordRespond, RecordStart
  <1>3. OnlyRecord(task_queue')
    <2>1. \/ UNCHANGED task_queue
          \/ Signal(Response(Current, "COMPLETE")) \/ Signal(Response(Current, "INPROGRESS"))
      BY Zenon DEF RecordOpen, RecordReset, RecordRespond, RecordStart
    <2>2. /\ Response(Current, "COMPLETE") \in Message /\ Response(Current, "INPROGRESS") \in Message
          /\ Response(Current, "COMPLETE").method = "RECORD"
          /\ Response(Current, "INPROGRESS").method = "RECORD"
      BY Zenon, <1>1, Created
    <2>. QED BY Zenon, <1>1, <2>1, <2>2, OnlyRecordKept DEF Signal, Recordings
  <1>4. ~InHand({"response"})' /\ (InHand(Starting)' => Current'.method = "RECORD")
    <2>1. \/ todo' = <<>>
          \/ \E type \in Starting : todo' = <<[Current EXCEPT !.type = type]>> \o <<>>
      BY Zenon, <1>1 DEF RecordOpen, RecordReset, RecordRespond, RecordStart, Starting, Unanswered
    <2>2. ASSUME NEW type \in Starting, todo' = <<[Current EXCEPT !.type = type]>> \o <<>>
          PROVE  ~InHand({"response"})' /\ Current'.method = "RECORD"
      <3>. DEFINE n == [Current EXCEPT !.type = type]
      <3>1. n \in Message /\ n.type = type /\ n.method = "RECORD"
        <4>1. type \in MessageType
          BY Zenon DEF MessageType, Starting, Unanswered
        <4>. QED BY Zenon, <1>1, <4>1, Retyped
      <3>. HIDE DEF n
      <3>2. Current' = n /\ \A types : InHand(types)' <=> n.type \in types
        BY Zenon, <2>2, <3>1, NewHand, PushOnEmpty DEF n
      <3>. QED BY Zenon, <3>1, <3>2 DEF Starting, Unanswered
    <2>. QED BY Zenon, <2>1, <2>2, EmptyHand
  <1>. QED BY Zenon, <1>2, <1>3, <1>4 DEF Recordings

(* A response that accepts belongs to a RECORD, which waits while there is *)
(* no recording; STOP and RECORD-COMPLETE end the recording and say so.    *)
LEMMA RecordingsEngine ==
    ASSUME RecorderInv, Recordings, ResponseUpdate \/ EventUpdate
    PROVE  Recordings'
  <1>. USE DEF RecorderInv, Running, sessionVars, clientVars, machineVars, pluginVars, mediaVars
  <1>1. /\ Current \in Message /\ Rest = <<>>
        /\ task_queue \in Seq(Message) /\ to_client \in Seq(Message)
    BY Zenon, OneInHand DEF ResponseUpdate, EventUpdate, TypeOK, ControlTypeOK
  <1>2. CASE ResponseUpdate
    <2>1. InHand(Unanswered \cup {"response"}) /\ InHand({"response"}) /\ IsResponse(Current)
      BY Zenon, <1>2 DEF ResponseUpdate, InHand, IsResponse
    <2>2. Fits(sm_request, Current) /\ (Accepts(Current) => Current.method = "RECORD")
      BY Zenon, <2>1 DEF Token, Recordings
    <2>3. UNCHANGED <<task_queue, stop_response>>
      BY Zenon, <1>2 DEF ResponseUpdate
    <2>. DEFINE p == [Current EXCEPT !.param = properties]
    <2>4. /\ p \in Message /\ Accepts(p) = Accepts(Current) /\ Final(p) = Final(Current)
      BY ZenonT(40), <1>1, Created DEF TypeOK, ControlTypeOK, Message, Accepts, Final, IsResponse
    <2>. HIDE DEF p
    <2>5. ASSUME NEW m \in Message, ResponseDispatch(m, <<>>), Accepts(m) => Over(to_client) \/ ~active,
                 state' # "RECORDING" =>
                    /\ ~Accepts(m)
                    /\ state # "RECORDING" \/ Final(m)
          PROVE  Recordings'
      <3>1. /\ sm_request' = NULL /\ active' = active
            /\ to_client' = IF active THEN Append(to_client, m) ELSE to_client
            /\ ~InHand(Starting \cup {"response", "event"})'
        BY Zenon, <2>5, Dispatched
      <3>2. Separate(to_client') /\ (active' /\ state' # "RECORDING" => Over(to_client'))
        BY Zenon, <1>1, <2>5, <3>1, Told DEF Recordings
      <3>3. ~InHand(Starting)' /\ ~InHand({"response"})'
        BY Zenon, <3>1 DEF InHand
      <3>. QED BY Zenon, <2>3, <3>1, <3>2, <3>3 DEF Recordings
    <2>6. Expected
      BY Zenon, <2>2 DEF Expected, Fits
    <2>7. CASE ResponseParams
      <3>1. ~Accepts(Current)
        BY Zenon, <2>2, <2>7 DEF ResponseParams
      <3>. QED BY Zenon, <1>1, <2>4, <2>5, <2>7, <3>1 DEF ResponseParams, p
    <2>8. CASE ResponseRecord
      <3>1. state # "RECORDING"
        BY Zenon, <2>2, <2>8 DEF Fits, Recordings, ResponseRecord
      <3>2. CASE Current.state = "INPROGRESS"
        <4>1. state' = "RECORDING" /\ ResponseDispatch(Current, <<>>)
          BY Zenon, <1>1, <2>8, <3>2 DEF ResponseRecord
        <4>2. Over(to_client) \/ ~active
          BY Zenon, <3>1 DEF Recordings
        <4>. QED BY Zenon, <1>1, <2>5, <4>1, <4>2
      <3>3. CASE Current.state # "INPROGRESS"
        <4>1. ~Accepts(Current)
          BY Zenon, <3>3 DEF Accepts
        <4>. QED BY Zenon, <1>1, <2>5, <2>8, <3>1, <3>3, <4>1 DEF ResponseRecord
      <3>. QED BY Zenon, <3>2, <3>3
    <2>9. CASE ResponseStop
      <3>1. Final(Current) /\ ~Accepts(Current)
        BY Zenon, <2>1, <2>2, <2>9 DEF ResponseStop, Final
      <3>. QED BY Zenon, <1>1, <2>5, <2>9, <3>1 DEF ResponseStop
    <2>. QED BY Zenon, <1>2, <2>6, <2>7, <2>8, <2>9 DEF ResponseUpdate
  <1>3. CASE EventUpdate
    <2>1. ~IsResponse(Current) /\ ~Accepts(Current) /\ Current.type = "event"
      BY Zenon, <1>3 DEF EventUpdate, IsResponse, Accepts
    <2>2. /\ todo' = <<>> /\ UNCHANGED <<sessionVars, active, sm_request, task_queue, stop_response>>
          /\ to_client' = to_client \/ to_client' = Append(to_client, Current)
      BY Zenon, <1>1, <1>3 DEF EventUpdate, EventStartOfInput, EventRecordComplete, EventDispatch, Ignore
    <2>3. ~InHand(Starting)' /\ ~InHand({"response"})'
      BY Zenon, <2>2, EmptyHand
    <2>4. Separate(to_client') /\ (Over(to_client) => Over(to_client'))
      BY ZenonT(40), <1>1, <2>1, <2>2, Told DEF Recordings
    <2>5. (sm_request' # NULL /\ sm_request'.method = "RECORD") => state' # "RECORDING"
      BY Zenon, <1>3, <2>2 DEF EventUpdate, EventStartOfInput, EventRecordComplete, Recordings
    <2>6. CASE state' = state
      BY Zenon, <2>2, <2>3, <2>4, <2>5, <2>6 DEF Recordings
    <2>7. CASE state' # state
      <3>1. Current.method = "RECORD-COMPLETE" /\ EventDispatch(Current, Rest)
        BY Zenon, <1>3, <2>7 DEF EventUpdate, EventStartOfInput, EventRecordComplete
      <3>2. Final(Current) /\ (active => to_client' = Append(to_client, Current))
        BY Zenon, <2>1, <3>1 DEF Final, EventDispatch
      <3>3. active => Over(to_client')
        BY Zenon, <1>1, <2>1, <3>2, Told DEF Recordings
      <3>. QED BY Zenon, <2>2, <2>3, <2>4, <2>5, <3>3 DEF Recordings
    <2>. QED BY Zenon, <2>6, <2>7
  <1>. QED BY Zenon, <1>2, <1>3

(* The end of the session, the media thread, the client and the queue of   *)
(* the task tell the client nothing.                                       *)
LEMMA RecordingsOthers ==
    ASSUME RecorderInv, Recordings, Deactivate \/ MediaThread \/ TakeMessage \/ Client
    PROVE  Recordings'
  <1>. USE DEF RecorderInv, sessionVars, clientVars, machineVars, pluginVars, mediaVars
  <1>1. task_queue \in Seq(Message)
    BY Zenon DEF TypeOK, ControlTypeOK
  <1>2. CASE Deactivate
    <2>. DEFINE stop == IF state = "RECORDING" /\ record # NULL
                        THEN Request("STOP", record.id + 1, NULL)
                        ELSE NULL
    <2>1. stop # NULL => stop.method = "STOP" /\ Response(stop, "COMPLETE").state = "COMPLETE"
      BY Zenon DEF Request, Response
    <2>2. /\ DeactivateSession(stop, Rest) /\ Rest = <<>>
          /\ stop_response' = IF stop = NULL THEN stop_response ELSE Response(stop, "COMPLETE")
          /\ UNCHANGED <<task_queue, machineVars>>
      BY Zenon, <1>2, OneInHand DEF Deactivate, Running
    <2>. HIDE DEF stop
    <2>3. /\ active' = FALSE /\ todo' = <<>> /\ UNCHANGED to_client
          /\ sm_request' = IF stop = NULL THEN sm_request ELSE stop
      BY Zenon, <2>2 DEF DeactivateSession
    <2>4. ~InHand(Starting)' /\ ~InHand({"response"})'
      BY Zenon, <2>3, EmptyHand
    <2>. QED BY Zenon, <2>1, <2>2, <2>3, <2>4 DEF Recordings
  <1>3. CASE MediaThread
    <2>1. /\ UNCHANGED <<todo, active, sm_request, to_client, machineVars>>
          /\ stop_response' = stop_response \/ stop_response' = NULL
      BY Zenon, <1>3
               DEF MediaThread, MediaStopRespond, MediaStopClear, MediaRecordClear, MediaDetect,
             MediaWrite, Media
    <2>2. Current' = Current /\ \A types : InHand(types)' = InHand(types)
      BY Zenon, <2>1 DEF InHand, Current
    <2>3. ASSUME NEW m \in Message, ~Accepts(m), Signal(m)
          PROVE  OnlyRecord(task_queue')
      BY Zenon, <1>1, <2>3, OnlyRecordKept DEF Signal, Recordings
    <2>4. record_request # NULL =>
             \A method \in MethodName, state_ \in {"COMPLETE", "INPROGRESS"} :
                /\ Event(record_request, method, state_) \in Message
                /\ ~Accepts(Event(record_request, method, state_))
      BY Zenon, Created DEF TypeOK, IsResponse, Accepts
    <2>5. "RECORD-COMPLETE" \in MethodName /\ "START-OF-INPUT" \in MethodName
      BY Zenon DEF MethodName
    <2>6. \/ UNCHANGED task_queue
          \/ stop_response # NULL /\ Signal(stop_response)
          \/ /\ record_request # NULL
             /\ \/ Signal(Event(record_request, "RECORD-COMPLETE", "COMPLETE"))
                \/ Signal(Event(record_request, "START-OF-INPUT", "INPROGRESS"))
      BY ZenonT(40), <1>3
               DEF MediaThread, MediaStopRespond, MediaStopClear, MediaRecordClear, MediaDetect,
             MediaWrite, RecordComplete
    <2>7. stop_response # NULL => stop_response \in Message /\ ~Accepts(stop_response)
      BY Zenon DEF TypeOK, Recordings, Accepts
    <2>8. OnlyRecord(task_queue')
      BY Zenon, <2>3, <2>4, <2>5, <2>6, <2>7 DEF Recordings
    <2>. QED BY Zenon, <2>1, <2>2, <2>8 DEF Recordings
  <1>4. CASE TakeMessage
    <2>. DEFINE h == Head(task_queue)
    <2>1. /\ task_queue # <<>> /\ task_queue' = Tail(task_queue)
          /\ UNCHANGED <<active, sm_request, to_client, machineVars, stop_response>>
          /\ todo' = <<>> \/ (todo' = <<h>> /\ h.type \in {"request", "terminate", "response", "event"})
      BY Zenon, <1>4 DEF TakeMessage, ReceiveSignaling, ReceiveEngineMessage, Take
    <2>2. h \in Message /\ OnlyRecord(task_queue') /\ (Accepts(h) => h.method = "RECORD")
      BY Zenon, <1>1, <2>1, TakenFirst, OnlyRecordKept DEF Recordings
    <2>. HIDE DEF h
    <2>3. CASE todo' = <<>>
      BY Zenon, <2>1, <2>2, <2>3, EmptyHand DEF Recordings
    <2>4. CASE todo' = <<h>> /\ h.type \in {"request", "terminate", "response", "event"}
      <3>1. Current' = h /\ \A types : InHand(types)' <=> h.type \in types
        BY Zenon, <2>2, <2>4, NewHand
      <3>. QED BY Zenon, <2>1, <2>2, <2>4, <3>1 DEF Recordings, Starting, Unanswered
    <2>. QED BY Zenon, <2>1, <2>3, <2>4
  <1>5. CASE Client
    <2>1. /\ UNCHANGED <<todo, active, sm_request, to_client, machineVars, stop_response>>
          /\ \E m : Signal(m) /\ m \in Message /\ ~Accepts(m)
      <3>1. ASSUME NEW method \in Method, NEW param \in Param \cup {NULL}
            PROVE  /\ Request(method, last_id + 1, param) \in Message
                   /\ ~Accepts(Request(method, last_id + 1, param))
        <4>1. method \in MethodName /\ last_id + 1 \in Nat
          BY MethodAssumption DEF TypeOK, ControlTypeOK
        <4>2. ~Accepts(Request(method, last_id + 1, param))
          BY Zenon DEF Accepts, IsResponse, Request
        <4>. QED BY Zenon, <4>1, <4>2, Sent
      <3>2. Terminate \in Message /\ ~Accepts(Terminate)
        BY Zenon, Sent DEF Accepts, IsResponse, Terminate
      <3>. QED BY Zenon, <1>5, <3>1, <3>2 DEF Client, ClientRequest, ClientTerminate
    <2>2. Current' = Current /\ \A types : InHand(types)' = InHand(types)
      BY Zenon, <2>1 DEF InHand, Current
    <2>3. OnlyRecord(task_queue')
      BY Zenon, <1>1, <2>1, OnlyRecordKept DEF Signal, Recordings
    <2>. QED BY Zenon, <2>1, <2>2, <2>3 DEF Recordings
  <1>. QED BY Zenon, <1>2, <1>3, <1>4, <1>5

(* Every step keeps the recordings apart. *)
LEMMA RecordingsNext == RecorderInv /\ Recordings /\ [Next]_vars => Recordings'
  <1>. SUFFICES ASSUME RecorderInv, Recordings, [Next]_vars PROVE Recordings'
    OBVIOUS
  <1>1. CASE UNCHANGED vars
    <2>. USE <1>1 DEF vars, controlVars, sessionVars, clientVars, machineVars, pluginVars, mediaVars
    <2>1. Current' = Current /\ \A types : InHand(types)' = InHand(types)
      BY Zenon DEF InHand, Current
    <2>. QED BY Zenon, <2>1 DEF Recordings
  <1>. QED BY Zenon, <1>1, RecordingsRequest, RecordingsRecord, RecordingsEngine, RecordingsOthers
           DEF Next, ServerTask

(* The recordings stay apart. *)
LEMMA RecordingsInvariance == Spec => []Recordings
  <1>1. RecorderInit => Recordings
    <2>1. RecorderInit => Len(task_queue) = 0 /\ Len(to_client) = 0 /\ todo = <<>>
      BY Zenon, EmptySeq DEF RecorderInit, Init
    <2>. QED BY <2>1
             DEF RecorderInit, Init, PluginInit, Recordings, Separate, Over, OnlyRecord, InHand
  <1>. QED BY <1>1, RecordingsNext, Invariance, PTL DEF Spec

(* The client is told of a new recording only after it was told of the end *)
(* of the one before, by RECORD-COMPLETE or by the response to STOP, for   *)
(* any number of requests and any schedule of the threads.                 *)
THEOREM OneAtATime == Spec => []OneRecordingAtATime
  <1>1. RecorderInv /\ Recordings => OneRecordingAtATime
    <2>. SUFFICES ASSUME RecorderInv, Recordings PROVE OneRecordingAtATime
      OBVIOUS
    <2>1. DOMAIN to_client = 1 .. Len(to_client)
      BY SMTT(40) DEF RecorderInv, TypeOK, ControlTypeOK
    <2>. QED BY Zenon, <2>1
             DEF Recordings, Separate, OneRecordingAtATime, InProgress, Completes, Stops, Accepts,
                     Final, IsResponse
  <1>. QED BY <1>1, RecordingsInvariance, Invariance, PTL
-----------------------------------------------------------------------------
(* The event that ends the recording of its id *)
Done(m) == m.type = "event" /\ m.method = "RECORD-COMPLETE"

(* The answer to a RECORD that does not begin *)
Refuses(m) == IsResponse(m) /\ m.method = "RECORD" /\ ~Accepts(m)

StopAnswer(m) == IsResponse(m) /\ m.method = "STOP"

NoneRefuses(q) == \A i \in 1 .. Len(q) : ~Refuses(q[i])
NoneStops(q) == \A i \in 1 .. Len(q) : ~StopAnswer(q[i])

(* The end of the recording id is in q. *)
Finished(id, q) == \E k \in 1 .. Len(q) : Done(q[k]) /\ q[k].id = id

(* r is a recording whose end is not in q yet. *)
Unfinished(r, q) == \A i \in 1 .. Len(q) : Done(q[i]) => q[i].id # r.id

(* A recording accepted in q is r, or its end is further back in q. *)
Followed(r, q) ==
    \A i \in 1 .. Len(q) : Accepts(q[i]) =>
        \/ r # NULL /\ r.id = q[i].id
        \/ \E k \in i + 1 .. Len(q) : Done(q[k]) /\ q[k].id = q[i].id

(* A message signalled to the server task *)
LEMMA QueueAdd ==
    ASSUME NEW q \in Seq(Message), NEW m \in Message
    PROVE  /\ NoneRefuses(q) /\ ~Refuses(m) => NoneRefuses(Append(q, m))
           /\ NoneStops(q) /\ ~StopAnswer(m) => NoneStops(Append(q, m))
           /\ \A id : Finished(id, q) => Finished(id, Append(q, m))
           /\ Done(m) => Finished(m.id, Append(q, m))
           /\ \A r : Unfinished(r, q) /\ (Done(m) => m.id # r.id) => Unfinished(r, Append(q, m))
           /\ \A r : Followed(r, q) /\ ~Accepts(m) => Followed(r, Append(q, m))
           /\ \A r : Followed(r, q) /\ Done(m) /\ m.id = r.id => Followed(NULL, Append(q, m))
  <1>. DEFINE t == Append(q, m)
  <1>1. /\ Len(t) = Len(q) + 1 /\ Len(q) \in Nat /\ t[Len(q) + 1] = m
        /\ \A i \in 1 .. Len(q) : t[i] = q[i]
    BY PutLast
  <1>2. /\ \A i \in 1 .. Len(t) : i \in 1 .. Len(q) \/ i = Len(q) + 1
        /\ \A i \in 1 .. Len(q) : i \in 1 .. Len(t) /\ Len(q) + 1 \in i + 1 .. Len(t)
        /\ Len(q) + 1 \in 1 .. Len(t)
    BY <1>1
  <1>. HIDE DEF t
  <1>3. NoneRefuses(q) /\ ~Refuses(m) => NoneRefuses(t)
    BY Zenon, <1>1, <1>2 DEF NoneRefuses
  <1>4. NoneStops(q) /\ ~StopAnswer(m) => NoneStops(t)
    BY Zenon, <1>1, <1>2 DEF NoneStops
  <1>5. \A id : Finished(id, q) => Finished(id, t)
    BY Zenon, <1>1, <1>2 DEF Finished
  <1>6. Done(m) => Finished(m.id, t)
    BY Zenon, <1>1, <1>2 DEF Finished
  <1>7. \A r : Unfinished(r, q) /\ (Done(m) => m.id # r.id) => Unfinished(r, t)
    BY Zenon, <1>1, <1>2 DEF Unfinished
  <1>8. ASSUME NEW r, Followed(r, q), ~Accepts(m)
        PROVE  Followed(r, t)
    <2>. SUFFICES ASSUME NEW i \in 1 .. Len(t), Accepts(t[i]), ~(r # NULL /\ r.id = t[i].id)
                  PROVE  \E k \in i + 1 .. Len(t) : Done(t[k]) /\ t[k].id = t[i].id
      BY Zenon DEF Followed
    <2>1. i \in 1 .. Len(q) /\ t[i] = q[i]
      BY Zenon, <1>1, <1>2, <1>8
    <2>2. PICK k \in i + 1 .. Len(q) : Done(q[k]) /\ q[k].id = q[i].id
      BY Zenon, <1>8, <2>1 DEF Followed
    <2>3. k \in i + 1 .. Len(t) /\ t[k] = q[k]
      BY <1>1, <2>1
    <2>. QED BY Zenon, <2>1, <2>2, <2>3
  <1>9. ASSUME NEW r, Followed(r, q), Done(m), m.id = r.id
        PROVE  Followed(NULL, t)
    <2>. SUFFICES ASSUME NEW i \in 1 .. Len(t), Accepts(t[i])
                  PROVE  \E k \in i + 1 .. Len(t) : Done(t[k]) /\ t[k].id = t[i].id
      BY Zenon DEF Followed
    <2>1. i \in 1 .. Len(q) /\ t[i] = q[i]
      BY Zenon, <1>1, <1>2, <1>9 DEF Done, Accepts, IsResponse
    <2>2. CASE r.id = q[i].id
      BY Zenon, <1>1, <1>2, <1>9, <2>1, <2>2
    <2>3. CASE r.id # q[i].id
      <3>1. PICK k \in i + 1 .. Len(q) : Done(q[k]) /\ q[k].id = q[i].id
        BY Zenon, <1>9, <2>1, <2>3 DEF Followed
      <3>2. k \in i + 1 .. Len(t) /\ t[k] = q[k]
        BY <1>1, <2>1
      <3>. QED BY Zenon, <2>1, <3>1, <3>2
    <2>. QED BY Zenon, <2>2, <2>3
  <1>. QED BY Zenon, <1>3, <1>4, <1>5, <1>6, <1>7, <1>8, <1>9 DEF t

(* A message the server task takes *)
LEMMA QueueTake ==
    ASSUME NEW q \in Seq(Message), q # <<>>
    PROVE  /\ NoneRefuses(q) => NoneRefuses(Tail(q)) /\ ~Refuses(Head(q))
           /\ NoneStops(q) => NoneStops(Tail(q)) /\ ~StopAnswer(Head(q))
           /\ \A id : Finished(id, q) => Finished(id, Tail(q)) \/ (Done(Head(q)) /\ Head(q).id = id)
           /\ \A r : Unfinished(r, q) => Unfinished(r, Tail(q)) /\ (Done(Head(q)) => Head(q).id # r.id)
           /\ \A r : Followed(r, q) => Followed(r, Tail(q))
           /\ \A r : Followed(r, q) /\ Accepts(Head(q)) =>
                 (r # NULL /\ r.id = Head(q).id) \/ Finished(Head(q).id, Tail(q))
  <1>. DEFINE t == Tail(q)
              h == Head(q)
  <1>1. /\ h = q[1] /\ Len(t) = Len(q) - 1 /\ Len(q) \in Nat \ {0}
        /\ \A i \in 1 .. Len(t) : t[i] = q[i + 1]
    BY Zenon, TakenFirst
  <1>2. /\ 1 \in 1 .. Len(q)
        /\ \A i \in 1 .. Len(t) : i + 1 \in 1 .. Len(q)
        /\ \A i \in 1 .. Len(q) : i = 1 \/ (i - 1 \in 1 .. Len(t) /\ t[i - 1] = q[i])
    BY <1>1
  <1>. HIDE DEF t, h
  <1>3. NoneRefuses(q) => NoneRefuses(t) /\ ~Refuses(h)
    BY Zenon, <1>1, <1>2 DEF NoneRefuses
  <1>4. NoneStops(q) => NoneStops(t) /\ ~StopAnswer(h)
    BY Zenon, <1>1, <1>2 DEF NoneStops
  <1>5. \A id : Finished(id, q) => Finished(id, t) \/ (Done(h) /\ h.id = id)
    BY Zenon, <1>1, <1>2 DEF Finished
  <1>6. \A r : Unfinished(r, q) => Unfinished(r, t) /\ (Done(h) => h.id # r.id)
    BY Zenon, <1>1, <1>2 DEF Unfinished
  <1>7. ASSUME NEW r, Followed(r, q)
        PROVE  Followed(r, t)
    <2>. SUFFICES ASSUME NEW i \in 1 .. Len(t), Accepts(t[i]), ~(r # NULL /\ r.id = t[i].id)
                  PROVE  \E k \in i + 1 .. Len(t) : Done(t[k]) /\ t[k].id = t[i].id
      BY Zenon DEF Followed
    <2>1. i + 1 \in 1 .. Len(q) /\ t[i] = q[i + 1]
      BY Zenon, <1>1, <1>2
    <2>2. PICK k \in (i + 1) + 1 .. Len(q) : Done(q[k]) /\ q[k].id = q[i + 1].id
      BY Zenon, <1>7, <2>1 DEF Followed
    <2>3. k - 1 \in i + 1 .. Len(t) /\ t[k - 1] = q[k]
      BY <1>1
    <2>. QED BY Zenon, <2>1, <2>2, <2>3
  <1>8. ASSUME NEW r, Followed(r, q), Accepts(h), ~(r # NULL /\ r.id = h.id)
        PROVE  Finished(h.id, t)
    <2>1. PICK k \in 1 + 1 .. Len(q) : Done(q[k]) /\ q[k].id = q[1].id
      BY Zenon, <1>1, <1>2, <1>8 DEF Followed
    <2>2. k - 1 \in 1 .. Len(t) /\ t[k - 1] = q[k]
      BY <1>1
    <2>. QED BY Zenon, <1>1, <2>1, <2>2 DEF Finished
  <1>. QED BY Zenon, <1>3, <1>4, <1>5, <1>6, <1>7, <1>8 DEF t, h
-----------------------------------------------------------------------------
(* The request in hand has not been begun. *)
Waiting == Starting \cup {"request"}

(* The requests that are behind every request that has not been begun *)
Begun ==
    {id \in 0 .. last_id :
        /\ After(id, request_queue) /\ After(id, task_queue)
        /\ InHand(Waiting) => id < Current.id}

(* What the media thread signals: the answer to STOP, the end of the       *)
(* recording it holds, and the start of input.                             *)
LEMMA MediaSignals ==
    ASSUME RecorderInv, MediaThread
    PROVE  \/ UNCHANGED <<task_queue, record_request>>
           \/ /\ UNCHANGED task_queue /\ record_request' = NULL
              /\ media_pc = "record_request"
           \/ \E m \in Message :
                 /\ Signal(m)
                 /\ \/ /\ m = stop_response /\ IsResponse(m) /\ UNCHANGED record_request
                    \/ /\ m.type = "event" /\ m.method = "START-OF-INPUT"
                       /\ UNCHANGED record_request
                    \/ /\ record_request # NULL /\ record_request' = NULL
                       /\ Done(m) /\ m.id = record_request.id
  <1>. USE DEF RecorderInv
  <1>1. /\ stop_response # NULL => stop_response \in Message /\ IsResponse(stop_response)
        /\ record_request # NULL => record_request \in Message
    BY Zenon DEF TypeOK, Token
  <1>. DEFINE done == Event(record_request, "RECORD-COMPLETE", "COMPLETE")
              input == Event(record_request, "START-OF-INPUT", "INPROGRESS")
  <1>2. record_request # NULL =>
           /\ done \in Message /\ input \in Message /\ done.type = "event" /\ input.type = "event"
           /\ done.method = "RECORD-COMPLETE" /\ input.method = "START-OF-INPUT"
           /\ done.id = record_request.id
    <2>1. "RECORD-COMPLETE" \in MethodName /\ "START-OF-INPUT" \in MethodName
      BY Zenon DEF MethodName
    <2>2. record_request # NULL => done \in Message /\ input \in Message
      BY Zenon, <1>1, <2>1, Created
    <2>. QED BY Zenon, <2>2 DEF Event
  <1>3. \/ UNCHANGED <<task_queue, record_request>>
        \/ UNCHANGED task_queue /\ record_request' = NULL /\ media_pc = "record_request"
        \/ stop_response # NULL /\ Signal(stop_response) /\ UNCHANGED record_request
        \/ record_request # NULL /\ Signal(done) /\ record_request' = NULL
        \/ record_request # NULL /\ Signal(input) /\ UNCHANGED record_request
    BY Zenon DEF MediaThread, MediaStopRespond, MediaStopClear, MediaRecordClear, MediaDetect,
             MediaWrite, RecordComplete, Media
  <1>. HIDE DEF done, input
  <1>. QED BY Zenon, <1>1, <1>2, <1>3 DEF Done

(* What the client signals: requests and the end of the session *)
LEMMA ClientSignals ==
    ASSUME RecorderInv, Client
    PROVE  \E m \in Message : Signal(m) /\ ~IsResponse(m) /\ ~Done(m)
  <1>1. ASSUME NEW method \in Method, NEW param \in Param \cup {NULL}
        PROVE  Request(method, last_id + 1, param) \in Message
    <2>1. method \in MethodName /\ last_id + 1 \in Nat
      BY MethodAssumption DEF RecorderInv, TypeOK, ControlTypeOK
    <2>. QED BY Zenon, <2>1, Sent
  <1>2. \A method, param : /\ ~IsResponse(Request(method, last_id + 1, param))
                           /\ ~Done(Request(method, last_id + 1, param))
    BY Zenon DEF IsResponse, Done, Request
  <1>3. Terminate \in Message /\ ~IsResponse(Terminate) /\ ~Done(Terminate)
    BY Zenon, Sent DEF IsResponse, Done, Terminate
  <1>. QED BY Zenon, <1>1, <1>2, <1>3 DEF Client, ClientRequest, ClientTerminate

(* Of the messages a queue holds only a request is still to be begun. *)
LEMMA Received ==
    ASSUME NEW m, m.type \in {"request", "terminate", "response", "event"}, m.type \in Waiting, m # NULL
    PROVE  IsRequest(m)
  BY Zenon DEF Waiting, Starting, Unanswered, IsRequest

(* What a handler of the server task does to the queues when it dispatches *)
(* no response: it may signal one, and it goes on with its request or is   *)
(* done.                                                                   *)
Handled ==
    /\ UNCHANGED <<request_queue, last_id>>
    /\ UNCHANGED task_queue \/ \E m \in Message : IsResponse(m) /\ Signal(m)
    /\ InHand(Waiting)' => InHand(Waiting) /\ Current'.id = Current.id
    /\ ~InHand({"event"})'
    /\ UNCHANGED record_request \/ RecordStart

(* Every handler but the one that takes a message does that or dispatches. *)
LEMMA HandlerSteps ==
    ASSUME RecorderInv, ServerTask, ~TakeMessage
    PROVE  \/ Handled
           \/ /\ \E m \in Message : ResponseDispatch(m, <<>>)
              /\ UNCHANGED <<task_queue, last_id, record_request>>
  <1>. USE DEF RecorderInv, Running, sessionVars, clientVars, machineVars, pluginVars, mediaVars
  <1>1. CASE RequestUpdate
    <2>1. Current \in Message /\ Rest = <<>> /\ InHand(Waiting)
      BY Zenon, <1>1, OneInHand DEF RequestUpdate, InHand, Waiting
    <2>. DEFINE answer == Response(Current, "COMPLETE")
    <2>2. answer \in Message /\ IsResponse(answer)
      BY Zenon, <2>1, Created
    <2>3. UNCHANGED <<last_id, record_request>>
      BY Zenon, <1>1 DEF RequestUpdate, RequestSetParams, RequestGetParams, RequestRecord, RequestStop,
                RequestStartTimers
    <2>. HIDE DEF answer
    <2>4. CASE ResponseDispatch(answer, <<>>) /\ UNCHANGED task_queue
      BY Zenon, <2>2, <2>3, <2>4
    <2>5. CASE todo' = <<>> /\ UNCHANGED request_queue /\ (UNCHANGED task_queue \/ Signal(answer))
      BY Zenon, <2>2, <2>3, <2>5, EmptyHand DEF Handled
    <2>6. CASE /\ todo' = <<[Inherit(Current) EXCEPT !.type = "record_open"]>> \o <<>>
               /\ UNCHANGED <<request_queue, task_queue>>
      <3>. DEFINE n == [Inherit(Current) EXCEPT !.type = "record_open"]
      <3>1. n \in Message /\ n.id = Current.id /\ n.type = "record_open"
        <4>1. Inherit(Current) \in Message /\ Inherit(Current).id = Current.id
          BY ZenonT(40), <2>1, Created DEF Inherit, TypeOK, ControlTypeOK, Message
        <4>2. "record_open" \in MessageType
          BY Zenon DEF MessageType
        <4>. QED BY ZenonT(40), <4>1, <4>2, Retyped
      <3>. HIDE DEF n
      <3>2. todo' = <<n>>
        BY Zenon, <2>6, <3>1, PushOnEmpty DEF n
      <3>3. Current' = n /\ ~InHand({"event"})'
        BY <3>1, <3>2, NewHand
      <3>. QED BY Zenon, <2>1, <2>3, <2>6, <3>1, <3>3 DEF Handled
    <2>. QED BY ZenonT(40), <1>1, <2>1, <2>4, <2>5, <2>6
             DEF RequestUpdate, RequestSetParams, RequestGetParams,
                RequestRecord, RequestStop, RequestStartTimers, answer
  <1>2. CASE RecordOpen \/ RecordReset \/ RecordRespond \/ RecordStart
    <2>1. Current \in Message /\ Rest = <<>> /\ InHand(Waiting)
      BY ZenonT(40), <1>2, OneInHand
               DEF RecordOpen, RecordReset, RecordRespond, RecordStart, InHand, Waiting,
                Starting, Unanswered
    <2>2. UNCHANGED <<request_queue, last_id>> /\ (UNCHANGED record_request \/ RecordStart)
      BY Zenon, <1>2 DEF RecordOpen, RecordReset, RecordRespond, RecordStart
    <2>3. UNCHANGED task_queue \/ \E m \in Message : IsResponse(m) /\ Signal(m)
      <3>1. \/ UNCHANGED task_queue
            \/ Signal(Response(Current, "COMPLETE")) \/ Signal(Response(Current, "INPROGRESS"))
        BY ZenonT(40), <1>2 DEF RecordOpen, RecordReset, RecordRespond, RecordStart
      <3>. QED BY Zenon, <2>1, <3>1, Created
    <2>4. (InHand(Waiting)' => Current'.id = Current.id) /\ ~InHand({"event"})'
      <3>1. \/ todo' = <<>>
            \/ \E type \in Starting : todo' = <<[Current EXCEPT !.type = type]>> \o <<>>
        BY ZenonT(40), <1>2, <2>1
                 DEF RecordOpen, RecordReset, RecordRespond, RecordStart, Starting, Unanswered
      <3>2. ASSUME NEW type \in Starting, todo' = <<[Current EXCEPT !.type = type]>> \o <<>>
            PROVE  Current'.id = Current.id /\ ~InHand({"event"})'
        <4>. DEFINE n == [Current EXCEPT !.type = type]
        <4>1. type \in MessageType /\ type # "event"
          BY Zenon DEF MessageType, Starting, Unanswered
        <4>2. n \in Message /\ n.id = Current.id /\ n.type = type
          BY Zenon, <2>1, <4>1, Retyped
        <4>. HIDE DEF n
        <4>3. todo' = <<n>>
          BY Zenon, <3>2, <4>2, PushOnEmpty DEF n
        <4>. QED BY <4>1, <4>2, <4>3, NewHand
      <3>. QED BY Zenon, <3>1, <3>2, EmptyHand
    <2>. QED BY Zenon, <2>1, <2>2, <2>3, <2>4 DEF Handled
  <1>3. CASE ResponseUpdate
    <2>1. Current \in Message /\ Rest = <<>> /\ UNCHANGED <<task_queue, last_id, record_request>>
      BY Zenon, <1>3, OneInHand DEF ResponseUpdate
    <2>2. [Current EXCEPT !.param = properties] \in Message
      BY ZenonT(40), <2>1, Created DEF TypeOK, ControlTypeOK
    <2>3. CASE ~Expected
      BY Zenon, <1>3, <2>1, <2>3, EmptyHand DEF ResponseUpdate, Ignore, Handled
    <2>. QED BY Zenon, <1>3, <2>1, <2>2, <2>3
             DEF ResponseUpdate, ResponseParams, ResponseRecord, ResponseStop
  <1>4. CASE EventUpdate \/ Deactivate
    <2>1. todo' = <<>> /\ UNCHANGED <<request_queue, task_queue, last_id, record_request>>
      BY Zenon, <1>4, OneInHand
               DEF EventUpdate, EventStartOfInput, EventRecordComplete, EventDispatch, Ignore,
            Deactivate, DeactivateSession
    <2>. QED BY Zenon, <2>1, EmptyHand DEF Handled
  <1>. QED BY Zenon, <1>1, <1>2, <1>3, <1>4 DEF ServerTask

(* What has been begun stays begun. *)
LEMMA BegunKept ==
    ASSUME RecorderInv, Next
    PROVE  Begun \subseteq Begun'
  <1>. USE DEF RecorderInv, Running, sessionVars, clientVars, machineVars, pluginVars, mediaVars
  <1>1. task_queue \in Seq(Message) /\ request_queue \in Seq(Message) /\ last_id \in Nat
    BY Zenon DEF TypeOK, ControlTypeOK
  <1>. SUFFICES ASSUME NEW id \in Begun PROVE id \in Begun'
    OBVIOUS
  <1>2. /\ After(id, request_queue) /\ After(id, task_queue) /\ id \in 0 .. last_id /\ id \in Nat
        /\ InHand(Waiting) => id < Current.id
    BY DEF Begun
  <1>. DEFINE kept == /\ After(id, request_queue') /\ After(id, task_queue') /\ id <= last_id'
                      /\ InHand(Waiting)' => id < Current'.id
  <1>. SUFFICES kept
    BY SMTT(40), <1>2, TypeNext DEF Begun, TypeOK, ControlTypeOK
  <1>3. Increasing(request_queue, last_id) /\ Increasing(task_queue, last_id)
    BY Zenon DEF Order, InOrder
  <1>4. \A m : IsResponse(m) \/ m.type = "event" \/ m.type = "terminate" => ~IsRequest(m)
    BY Zenon DEF IsRequest, IsResponse
  <1>5. ASSUME UNCHANGED <<request_queue, last_id>>,
               UNCHANGED task_queue \/ \E m \in Message : ~IsRequest(m) /\ Signal(m),
               InHand(Waiting)' => InHand(Waiting) /\ Current'.id = Current.id
        PROVE  kept
    <2>1. \A m \in Message : ~IsRequest(m) => After(id, Append(task_queue, m))
      BY Zenon, <1>1, <1>2, AppendOther
    <2>2. After(id, task_queue')
      BY ZenonT(40), <1>2, <1>5, <2>1 DEF Signal
    <2>. QED BY <1>2, <1>5, <2>2
  <1>6. ASSUME NEW m \in Message, ResponseDispatch(m, <<>>), UNCHANGED <<task_queue, last_id>>
        PROVE  kept
    <2>1. CASE ~active
      <3>1. todo' = <<>> /\ UNCHANGED request_queue
        BY Zenon, <1>6, <2>1 DEF ResponseDispatch, OnDeactivate
      <3>. QED BY Zenon, <1>5, <1>6, <3>1, EmptyHand
    <2>2. CASE active /\ request_queue = <<>>
      <3>1. todo' = <<>> /\ UNCHANGED request_queue
        BY Zenon, <1>6, <2>2 DEF ResponseDispatch, SendResponse
      <3>. QED BY Zenon, <1>5, <1>6, <3>1, EmptyHand
    <2>3. CASE active /\ request_queue # <<>>
      <3>. DEFINE h == Head(request_queue)
      <3>1. todo' = <<h>> \o <<>> /\ request_queue' = Tail(request_queue)
        BY Zenon, <1>6, <2>3 DEF ResponseDispatch, SendResponse
      <3>2. h \in Message /\ h = request_queue[1] /\ 1 \in 1 .. Len(request_queue)
        BY <1>1, <2>3, TakenFirst
      <3>3. h.type \in {"request", "terminate"}
        BY Zenon, <3>2 DEF Serial
      <3>4. After(id, request_queue') /\ (IsRequest(h) => id < h.id)
        BY Zenon, <1>1, <1>2, <1>3, <2>3, <3>1, TailInOrder
      <3>. HIDE DEF h
      <3>5. Current' = h /\ \A types : InHand(types)' <=> h.type \in types
        BY Zenon, <3>1, <3>2, NewHand, PushOnEmpty
      <3>6. InHand(Waiting)' => id < Current'.id
        <4>1. h # NULL
          BY Zenon, <3>2, NotNull
        <4>. QED BY <3>3, <3>4, <3>5, <4>1, Received
      <3>. QED BY <1>2, <1>6, <3>4, <3>6
    <2>. QED BY Zenon, <2>1, <2>2, <2>3
  <1>7. CASE Handled
    BY Zenon, <1>4, <1>5, <1>7 DEF Handled
  <1>8. CASE MediaThread
    <2>1. UNCHANGED <<todo, request_queue, last_id>>
      BY ZenonT(40), <1>8
               DEF MediaThread, MediaStopRespond, MediaStopClear, MediaRecordClear, MediaDetect,
             MediaWrite, Media
    <2>2. UNCHANGED task_queue \/ \E m \in Message : ~IsRequest(m) /\ Signal(m)
      <3>1. \A m : IsResponse(m) \/ m.type = "event" \/ Done(m) => ~IsRequest(m)
        BY Zenon, <1>4 DEF Done
      <3>. QED BY Zenon, <1>8, <3>1, MediaSignals
    <2>3. Current' = Current /\ InHand(Waiting)' = InHand(Waiting)
      BY Zenon, <2>1 DEF InHand, Current
    <2>. QED BY Zenon, <1>5, <2>1, <2>2, <2>3
  <1>9. CASE TakeMessage
    <2>. DEFINE h == Head(task_queue)
    <2>1. /\ task_queue # <<>> /\ task_queue' = Tail(task_queue) /\ UNCHANGED last_id
          /\ todo' = <<>> \/ todo' = <<h>>
          /\ request_queue' = request_queue \/ request_queue' = Append(request_queue, h)
          /\ h.type \in {"request", "terminate", "response", "event"}
      BY Zenon, <1>9 DEF TakeMessage, ReceiveSignaling, ReceiveEngineMessage, Take
    <2>2. h \in Message /\ After(id, task_queue') /\ (IsRequest(h) => id < h.id)
      BY Zenon, <1>1, <1>2, <1>3, <2>1, TakenFirst, TailInOrder
    <2>. HIDE DEF h
    <2>3. After(id, request_queue')
      <3>1. IsRequest(h) => After(id, Append(request_queue, h))
        BY <1>1, <1>2, <2>2, PutLast DEF After
      <3>. QED BY Zenon, <1>1, <1>2, <2>1, <2>2, <3>1, AppendOther
    <2>4. InHand(Waiting)' => id < Current'.id
      <3>1. CASE todo' = <<>>
        BY Zenon, <3>1, EmptyHand
      <3>2. CASE todo' = <<h>>
        <4>1. Current' = h /\ \A types : InHand(types)' <=> h.type \in types
          BY Zenon, <2>2, <3>2, NewHand
        <4>2. h # NULL
          BY Zenon, <2>2, NotNull
        <4>. QED BY <2>1, <2>2, <4>1, <4>2, Received
      <3>. QED BY Zenon, <2>1, <3>1, <3>2
    <2>. QED BY <1>2, <2>1, <2>2, <2>3, <2>4
  <1>10. CASE Client
    <2>1. UNCHANGED <<todo, request_queue>>
      BY Zenon, <1>10 DEF Client, ClientRequest, ClientTerminate
    <2>2. Current' = Current /\ InHand(Waiting)' = InHand(Waiting)
      BY Zenon, <2>1 DEF InHand, Current
    <2>3. CASE ClientTerminate
      <3>1. Terminate \in Message /\ ~IsRequest(Terminate)
        BY Zenon, Sent DEF IsRequest, Terminate
      <3>. QED BY Zenon, <1>5, <2>1, <2>2, <2>3, <3>1 DEF ClientTerminate
    <2>4. ASSUME NEW method \in Method, NEW param \in Param \cup {NULL}, ClientRequest(method, param)
          PROVE  kept
      <3>. DEFINE r == Request(method, last_id + 1, param)
      <3>1. r \in Message /\ id < r.id
        <4>1. method \in MethodName /\ last_id + 1 \in Nat
          BY <1>1, MethodAssumption
        <4>2. r.id = last_id + 1
          BY Zenon DEF Request
        <4>. QED BY <1>1, <1>2, <4>1, <4>2, Sent
      <3>2. last_id' = last_id + 1 /\ task_queue' = Append(task_queue, r)
        BY Zenon, <2>4 DEF ClientRequest, Signal
      <3>. HIDE DEF r
      <3>3. After(id, task_queue')
        BY <1>1, <1>2, <3>1, <3>2, PutLast DEF After
      <3>. QED BY <1>1, <1>2, <2>1, <2>2, <3>2, <3>3
    <2>. QED BY Zenon, <1>10, <2>3, <2>4 DEF Client
  <1>. QED BY Zenon, <1>6, <1>7, <1>8, <1>9, <1>10, HandlerSteps DEF Next, ServerTask
-----------------------------------------------------------------------------
(* A recording, and an end of a recording that is on its way, belong to a  *)
(* request that was begun; the end of the recording the plugin holds is    *)
(* not on its way yet.                                                     *)
Past ==
    /\ \A i \in 1 .. Len(task_queue) : Done(task_queue[i]) => task_queue[i].id \in Begun
    /\ record_request # NULL =>
          /\ record_request.id \in Begun
          /\ Unfinished(record_request, task_queue)
          /\ (InHand({"event"}) /\ Done(Current)) => Current.id # record_request.id

(* Every step keeps the recordings and their ends begun. *)
LEMMA PastNext ==
    ASSUME RecorderInv, Past, Next
    PROVE  Past'
  <1>. USE DEF RecorderInv, Running, sessionVars, clientVars, machineVars, pluginVars, mediaVars
  <1>1. /\ task_queue \in Seq(Message) /\ last_id \in Nat
        /\ record_request # NULL => record_request \in Message /\ record_request.id \in Nat
        /\ \A i \in 1 .. Len(task_queue) : task_queue[i].id \in Nat
    BY Zenon, Ids, IdOf DEF TypeOK, ControlTypeOK
  <1>2. /\ \A i \in 1 .. Len(task_queue) : Done(task_queue[i]) => task_queue[i].id \in Begun'
        /\ record_request # NULL => record_request.id \in Begun'
    BY Zenon, BegunKept DEF Past
  <1>3. ASSUME NEW m \in Message, Signal(m), Done(m) => m.id \in Begun'
        PROVE  \A i \in 1 .. Len(task_queue') : Done(task_queue'[i]) => task_queue'[i].id \in Begun'
    BY <1>1, <1>2, <1>3, PutLast DEF Signal
  <1>4. ASSUME UNCHANGED record_request,
               UNCHANGED task_queue \/ \E m \in Message : ~Done(m) /\ Signal(m),
               InHand({"event"})' => InHand({"event"}) /\ Current' = Current
        PROVE  Past'
    <2>1. CASE UNCHANGED task_queue
      BY Zenon, <1>2, <1>4, <2>1 DEF Past, Unfinished
    <2>2. ASSUME NEW m \in Message, ~Done(m), Signal(m)
          PROVE  Past'
      <3>1. record_request # NULL => Unfinished(record_request, task_queue')
        BY Zenon, <1>1, <2>2, QueueAdd DEF Signal, Past
      <3>2. \A i \in 1 .. Len(task_queue') : Done(task_queue'[i]) => task_queue'[i].id \in Begun'
        BY Zenon, <1>3, <2>2
      <3>. QED BY Zenon, <1>2, <1>4, <3>1, <3>2 DEF Past
    <2>. QED BY Zenon, <1>4, <2>1, <2>2
  <1>5. ASSUME NEW m \in Message, ResponseDispatch(m, <<>>), UNCHANGED <<task_queue, record_request>>
        PROVE  Past'
    BY Zenon, <1>4, <1>5, Dispatched DEF InHand
  <1>6. \A m : IsResponse(m) => ~Done(m)
    BY Zenon DEF IsResponse, Done
  <1>7. CASE RecordStart
    <2>1. Current \in Message /\ Rest = <<>> /\ InHand(Waiting)
      BY Zenon, <1>7, OneInHand DEF RecordStart, InHand, Waiting, Starting
    <2>2. record_request'.id = Current.id
      <3>1. "request" \in MessageType
        BY Zenon DEF MessageType
      <3>. QED BY Zenon, <1>7, <2>1, <3>1, Retyped DEF RecordStart
    <2>3. todo' = <<>> /\ UNCHANGED <<task_queue, request_queue, last_id>>
      BY Zenon, <1>7, <2>1 DEF RecordStart
    <2>4. \A types : ~InHand(types)'
      BY Zenon, <2>3, EmptyHand
    <2>5. IsRequest(active_request) /\ active_request.id = Current.id
      BY Zenon, <1>7 DEF RecordStart, Serial, InHand
    <2>6. record_request'.id \in Begun'
      <3>1. /\ active_request.id <= last_id
            /\ After(active_request.id, request_queue) /\ After(active_request.id, task_queue)
        BY Zenon, <2>5 DEF Order, InOrder
      <3>2. Current.id \in 0 .. last_id
        BY <1>1, <2>1, <2>5, <3>1, IdOf
      <3>. QED BY Zenon, <2>2, <2>3, <2>4, <2>5, <3>1, <3>2 DEF Begun
    <2>7. Unfinished(record_request', task_queue')
      <3>1. \A i \in 1 .. Len(task_queue) : Done(task_queue[i]) => task_queue[i].id < Current.id
        BY Zenon, <2>1 DEF Past, Begun
      <3>2. Current.id \in Nat
        BY Zenon, <2>1, IdOf
      <3>. QED BY <1>1, <2>2, <2>3, <3>1, <3>2 DEF Unfinished
    <2>. QED BY Zenon, <1>2, <2>3, <2>4, <2>6, <2>7 DEF Past
  <1>8. CASE MediaThread
    <2>1. UNCHANGED todo
      BY Zenon, <1>8
               DEF MediaThread, MediaStopRespond, MediaStopClear, MediaRecordClear, MediaDetect,
             MediaWrite, Media
    <2>2. Current' = Current /\ \A types : InHand(types)' = InHand(types)
      BY Zenon, <2>1 DEF InHand, Current
    <2>3. CASE UNCHANGED task_queue /\ record_request' = NULL
      BY Zenon, <1>2, <2>3 DEF Past
    <2>4. ASSUME NEW m \in Message, Signal(m), record_request # NULL, record_request' = NULL, Done(m),
                 m.id = record_request.id
          PROVE  Past'
      BY Zenon, <1>2, <1>3, <2>4 DEF Past
    <2>5. ASSUME NEW m \in Message, Signal(m), UNCHANGED record_request,
                 IsResponse(m) \/ m.method = "START-OF-INPUT"
          PROVE  Past'
      BY Zenon, <1>4, <1>6, <2>2, <2>5 DEF Done
    <2>. QED BY Zenon, <1>4, <1>8, <2>2, <2>3, <2>4, <2>5, MediaSignals
  <1>9. CASE TakeMessage
    <2>. DEFINE h == Head(task_queue)
    <2>1. /\ task_queue # <<>> /\ task_queue' = Tail(task_queue) /\ UNCHANGED record_request
          /\ todo' = <<>> \/ todo' = <<h>>
      BY Zenon, <1>9 DEF TakeMessage, ReceiveSignaling, ReceiveEngineMessage, Take
    <2>2. h \in Message
      BY Zenon, <1>1, <2>1, TakenFirst
    <2>3. record_request # NULL =>
             Unfinished(record_request, task_queue') /\ (Done(h) => h.id # record_request.id)
      BY Zenon, <1>1, <2>1, QueueTake DEF Past
    <2>. HIDE DEF h
    <2>4. \A i \in 1 .. Len(task_queue') : Done(task_queue'[i]) => task_queue'[i].id \in Begun'
      BY <1>1, <1>2, <2>1, TakenFirst
    <2>5. InHand({"event"})' => Current' = h
      BY Zenon, <2>1, <2>2, EmptyHand, NewHand
    <2>. QED BY Zenon, <1>2, <2>1, <2>3, <2>4, <2>5 DEF Past
  <1>10. CASE Client
    <2>1. UNCHANGED <<todo, record_request>>
      BY Zenon, <1>10 DEF Client, ClientRequest, ClientTerminate
    <2>2. Current' = Current /\ \A types : InHand(types)' = InHand(types)
      BY Zenon, <2>1 DEF InHand, Current
    <2>. QED BY Zenon, <1>4, <1>10, <2>1, <2>2, ClientSignals
  <1>11. CASE Handled /\ ~RecordStart
    BY Zenon, <1>4, <1>6, <1>11 DEF Handled
  <1>. QED BY Zenon, <1>5, <1>7, <1>8, <1>9, <1>10, <1>11, HandlerSteps DEF Next, ServerTask
-----------------------------------------------------------------------------
(* recorder_stream_write has signalled the response to STOP. *)
Stopping == {"stop_response", "record_request"}

(* The recording the plugin holds is that of the state machine, or of the  *)
(* RECORD it waits for; there is none before it and none that was refused. *)
Owned ==
    /\ (state # "RECORDING" /\ record_request # NULL) =>
          sm_request # NULL /\ sm_request.method = "RECORD" /\ sm_request.id = record_request.id
    /\ (state = "RECORDING" /\ record_request # NULL) => record_request.id = record.id
    /\ InHand(Starting) => record_request = NULL
    /\ InHand({"record_start"}) =>
          sm_request # NULL /\ sm_request.method = "RECORD" /\ sm_request.id = Current.id
    /\ (record_request # NULL \/ InHand({"record_start"})) => NoneRefuses(task_queue)
    /\ (InHand({"response"}) /\ Refuses(Current)) => record_request = NULL

(* When the server task sees the response to STOP, the media thread has    *)
(* let go of the recording.                                                *)
Stopped ==
    /\ stop_response # NULL => StopPending
    /\ media_pc = "record_request" => stop_response = NULL
    /\ media_pc \in Stopping =>
          StopPending /\ ~InHand(Waiting \cup {"response", "terminate"}) /\ ~audio_out
    /\ \/ NoneStops(task_queue)
       \/ stop_response = NULL /\ record_request = NULL
       \/ media_pc \in Stopping
    /\ (InHand({"response"}) /\ StopAnswer(Current)) =>
          record_request = NULL /\ stop_response = NULL /\ media_pc = "start"

(* The file is open only for a recording, or for one that is starting; the *)
(* media thread is at rest while there is no recording.                    *)
Written ==
    /\ ~crashed
    /\ audio_out =>
          record_request # NULL \/ InHand({"record_reset", "record_respond", "record_start"})
    /\ /\ InHand(Waiting) \/ (InHand({"response"}) /\ ~Accepts(Current))
       /\ state # "RECORDING"
       => media_pc = "start"

(* A recording that was accepted is held by the plugin until its end is on *)
(* its way.                                                                *)
Kept ==
    /\ (state = "RECORDING" /\ ~StopPending) =>
          \/ record_request # NULL
          \/ Finished(record.id, task_queue)
          \/ InHand({"event"}) /\ Done(Current) /\ Current.id = record.id
    /\ InHand({"record_start"}) \/ Followed(record_request, task_queue)
    /\ (InHand({"response"}) /\ Accepts(Current)) =>
          record_request # NULL \/ Finished(Current.id, task_queue)

Prompt == Owned /\ Stopped /\ Written /\ Kept

(* A queue without answers neither accepts, refuses nor stops. *)
LEMMA Unanswering ==
    ASSUME NEW q \in Seq(Message), NoAnswer(q)
    PROVE  NoneRefuses(q) /\ NoneStops(q) /\ \A r : Followed(r, q)
  BY Zenon DEF NoAnswer, NoneRefuses, NoneStops, Followed, Refuses, StopAnswer, Accepts

(* A state machine that waits for nothing: the STOP before is over.        *)
LEMMA AtRest ==
    ASSUME RecorderInv, Prompt, sm_request = NULL
    PROVE  /\ NoAnswer(task_queue) /\ NoneRefuses(task_queue) /\ NoneStops(task_queue)
           /\ \A r : Followed(r, task_queue)
           /\ stop_response = NULL /\ media_pc \notin Stopping /\ ~StopPending
           /\ record_request # NULL => state = "RECORDING" /\ record_request.id = record.id
  <1>1. NoAnswer(task_queue) /\ task_queue \in Seq(Message)
    BY Zenon, Quiet DEF RecorderInv, TypeOK, ControlTypeOK
  <1>. QED BY Zenon, <1>1, Unanswering DEF Prompt, Stopped, Owned, StopPending

(* The state machine answers a request and the session goes on. *)
LEMMA PromptDispatch ==
    ASSUME RecorderInv, Prompt, NEW m \in Message, ResponseDispatch(m, <<>>),
           UNCHANGED <<task_queue, record_request, stop_response, audio_out, mediaVars>>,
           NoAnswer(task_queue), audio_out => record_request # NULL,
           stop_response = NULL, media_pc \notin Stopping,
           record_request # NULL => state' = "RECORDING" /\ record_request.id = record'.id,
           state' = "RECORDING" => record_request # NULL \/ Finished(record'.id, task_queue),
           state' # "RECORDING" => media_pc = "start"
    PROVE  Prompt'
  <1>1. /\ NoneRefuses(task_queue) /\ NoneStops(task_queue)
        /\ \A r : Followed(r, task_queue)
    BY Zenon, Unanswering DEF RecorderInv, TypeOK, ControlTypeOK
  <1>2. /\ sm_request' = NULL /\ ~StopPending'
        /\ ~InHand(Starting)' /\ ~InHand({"record_start"})' /\ ~InHand({"response"})'
    BY Zenon, Dispatched DEF InHand, Starting, StopPending
  <1>3. Owned'
    BY Zenon, <1>1, <1>2 DEF Owned
  <1>4. Stopped'
    BY Zenon, <1>1, <1>2 DEF Stopped, mediaVars, Stopping
  <1>5. Written'
    BY Zenon, <1>2 DEF Written, Prompt, mediaVars
  <1>6. Kept'
    BY Zenon, <1>1, <1>2 DEF Kept
  <1>. QED BY Zenon, <1>3, <1>4, <1>5, <1>6 DEF Prompt

(* The event that ends a recording has its id. *)
LEMMA Completion ==
    ASSUME TypeOK, record_request # NULL
    PROVE  LET m == Event(record_request, "RECORD-COMPLETE", "COMPLETE")
           IN  m \in Message /\ Done(m) /\ m.id = record_request.id
  <1>1. record_request \in Message /\ "RECORD-COMPLETE" \in MethodName
    BY Zenon DEF TypeOK, MethodName
  <1>2. Event(record_request, "RECORD-COMPLETE", "COMPLETE") \in Message
    BY Zenon, <1>1, Created
  <1>. QED BY Zenon, <1>2 DEF Event, Done

(* The media thread lets go of a recording that is complete. *)
LEMMA PromptComplete ==
    ASSUME RecorderInv, Recordings, Prompt, NEW m \in Message, Signal(m), Done(m),
           record_request # NULL, m.id = record_request.id, record_request' = NULL,
           media_pc \notin Stopping, media_pc' \notin Stopping, audio_out' = FALSE,
           UNCHANGED <<todo, sm_request, state, record, stop_response, crashed>>
    PROVE  Prompt'
  <1>. USE DEF RecorderInv
  <1>1. task_queue \in Seq(Message) /\ task_queue' = Append(task_queue, m)
    BY Zenon DEF TypeOK, ControlTypeOK, Signal
  <1>2. Current' = Current /\ \A types : InHand(types)' = InHand(types)
    BY Zenon DEF InHand, Current
  <1>3. /\ ~InHand(Starting) /\ ~InHand({"record_start"}) /\ NoneStops(task_queue)
        /\ Followed(record_request, task_queue)
        /\ InHand({"response"}) => ~StopAnswer(Current) /\ ~Refuses(Current)
    BY Zenon DEF Prompt, Owned, Stopped, Kept, InHand, Starting
  <1>4. ~StopAnswer(m) /\ Done(m)
    BY Zenon DEF StopAnswer, IsResponse, Done
  <1>5. NoneStops(task_queue') /\ Followed(NULL, task_queue') /\ Finished(record_request.id, task_queue')
    BY Zenon, <1>1, <1>3, <1>4, QueueAdd
  <1>6. Owned'
    BY Zenon, <1>2, <1>3 DEF Owned
  <1>7. Stopped'
    BY Zenon, <1>2, <1>3, <1>5 DEF Stopped, Stopping, Prompt, StopPending
  <1>8. Written'
    <2>1. InHand(Waiting) => sm_request = NULL
      BY Zenon, <1>3 DEF InHand, Waiting, Serial
    <2>2. InHand({"response"}) /\ ~Accepts(Current) => sm_request # NULL /\ sm_request.method # "RECORD"
      <3>1. InHand({"response"}) => IsResponse(Current) /\ Fits(sm_request, Current)
        BY Zenon DEF Token, InHand, IsResponse
      <3>. QED BY Zenon, <1>3, <3>1 DEF Fits, Refuses
    <2>. QED BY Zenon, <1>2, <2>1, <2>2 DEF Written, Prompt, Owned
  <1>9. Kept'
    <2>1. InHand({"response"}) /\ Accepts(Current) => Current.id = record_request.id
      <3>1. InHand({"response"}) => Fits(sm_request, Current)
        BY Zenon DEF Token, InHand
      <3>. QED BY Zenon, <3>1 DEF Recordings, Fits, Prompt, Owned
    <2>. QED BY Zenon, <1>2, <1>5, <2>1 DEF Kept, Prompt, Owned, StopPending
  <1>. QED BY Zenon, <1>6, <1>7, <1>8, <1>9 DEF Prompt
-----------------------------------------------------------------------------
(* The handlers of requests leave the recording to the media thread. *)
LEMMA PromptRequest ==
    ASSUME RecorderInv, Recordings, Prompt, RequestUpdate
    PROVE  Prompt'
  <1>. USE DEF RecorderInv, Running, sessionVars, clientVars, machineVars, pluginVars, mediaVars
  <1>1. Current \in Message /\ Rest = <<>> /\ Current.type = "request" /\ InHand({"request"})
    BY Zenon, OneInHand DEF RequestUpdate, InHand
  <1>2. sm_request = NULL /\ task_queue \in Seq(Message)
    BY Zenon, <1>1 DEF Serial, TypeOK, ControlTypeOK
  <1>3. /\ NoAnswer(task_queue) /\ NoneRefuses(task_queue) /\ NoneStops(task_queue)
        /\ \A r : Followed(r, task_queue)
        /\ stop_response = NULL /\ media_pc \notin Stopping /\ ~StopPending
        /\ record_request # NULL => state = "RECORDING" /\ record_request.id = record.id
    BY Zenon, <1>2, AtRest
  <1>4. /\ audio_out => record_request # NULL
        /\ state = "RECORDING" => record_request # NULL \/ Finished(record.id, task_queue)
        /\ state # "RECORDING" => media_pc = "start"
    BY Zenon, <1>1, <1>3 DEF Prompt, Written, Kept, InHand, Waiting
  <1>5. UNCHANGED mediaVars
    BY Zenon DEF RequestUpdate
  <1>. DEFINE answer == Response(Current, "COMPLETE")
  <1>6. answer \in Message /\ IsResponse(answer) /\ ~Accepts(answer) /\ answer.method = Current.method
    BY ZenonT(40), <1>1, Created DEF Accepts, Response
  <1>. HIDE DEF answer
  <1>7. ASSUME ResponseDispatch(answer, <<>>),
               UNCHANGED <<task_queue, record_request, stop_response, audio_out, machineVars>>
        PROVE  Prompt'
    BY Zenon, <1>3, <1>4, <1>5, <1>6, <1>7, PromptDispatch
  <1>8. ASSUME todo' = <<>>, sm_request' = Current, Current.method \notin {"RECORD", "STOP"}, Signal(answer),
               UNCHANGED <<record_request, stop_response, audio_out, machineVars>>
        PROVE  Prompt'
    <2>1. \A types : ~InHand(types)'
      BY Zenon, <1>8, EmptyHand
    <2>2. ~Refuses(answer) /\ ~StopAnswer(answer)
      BY Zenon, <1>6, <1>8 DEF Refuses, StopAnswer
    <2>3. /\ NoneRefuses(task_queue') /\ NoneStops(task_queue') /\ Followed(record_request, task_queue')
          /\ \A id : Finished(id, task_queue) => Finished(id, task_queue')
      BY Zenon, <1>2, <1>3, <1>6, <1>8, <2>2, QueueAdd DEF Signal
    <2>. QED BY Zenon, <1>3, <1>4, <1>5, <1>8, <2>1, <2>3
             DEF Prompt, Owned, Stopped, Stopping, Written, Kept
  <1>9. CASE RequestSetParams
    BY Zenon, <1>1, <1>8, <1>9 DEF RequestSetParams, answer
  <1>10. CASE RequestGetParams
    BY Zenon, <1>1, <1>8, <1>10 DEF RequestGetParams, answer
  <1>11. CASE RequestStartTimers
    BY Zenon, <1>1, <1>7, <1>8, <1>11 DEF RequestStartTimers, answer
  <1>12. CASE RequestStop /\ state # "RECORDING"
    BY Zenon, <1>1, <1>7, <1>12 DEF RequestStop, answer
  <1>13. CASE RequestStop /\ state = "RECORDING"
    <2>1. /\ todo' = <<>> /\ sm_request' = Current /\ Current.method = "STOP"
          /\ UNCHANGED <<task_queue, record_request, audio_out, machineVars>>
      BY Zenon, <1>1, <1>13 DEF RequestStop
    <2>2. StopPending' /\ \A types : ~InHand(types)'
      BY Zenon, <1>1, <2>1, EmptyHand, NotNull DEF StopPending
    <2>. QED BY Zenon, <1>3, <1>4, <1>5, <1>13, <2>1, <2>2
             DEF Prompt, Owned, Stopped, Stopping, Written, Kept
  <1>14. CASE RequestRecord /\ state = "RECORDING"
    BY Zenon, <1>1, <1>7, <1>14 DEF RequestRecord, answer
  <1>15. CASE RequestRecord /\ state # "RECORDING"
    <2>. DEFINE n == [Inherit(Current) EXCEPT !.type = "record_open"]
    <2>1. n \in Message /\ n.type = "record_open" /\ Inherit(Current).method = "RECORD"
      <3>1. Inherit(Current) \in Message /\ Inherit(Current).method = "RECORD"
        BY ZenonT(40), <1>1, <1>15, Created
                 DEF Inherit, TypeOK, ControlTypeOK, Message, RequestRecord
      <3>2. "record_open" \in MessageType
        BY Zenon DEF MessageType
      <3>. QED BY ZenonT(40), <3>1, <3>2, Retyped
    <2>2. /\ todo' = <<n>> \o <<>> /\ sm_request' = Inherit(Current)
          /\ UNCHANGED <<task_queue, machineVars, record_request, stop_response, audio_out>>
      BY Zenon, <1>1, <1>15 DEF RequestRecord
    <2>. HIDE DEF n
    <2>3. \A types : InHand(types)' <=> n.type \in types
      BY Zenon, <2>1, <2>2, NewHand, PushOnEmpty
    <2>4. record_request = NULL /\ ~audio_out /\ media_pc = "start"
      BY Zenon, <1>3, <1>4, <1>15
    <2>. QED BY ZenonT(40), <1>3, <1>5, <1>15, <2>1, <2>2, <2>3, <2>4
             DEF Prompt, Owned, Stopped, Stopping, Written, Kept
  <1>. QED BY Zenon, <1>9, <1>10, <1>11, <1>12, <1>13, <1>14, <1>15 DEF RequestUpdate

(* recorder_channel_record starts a recording when there is none. *)
LEMMA PromptRecord ==
    ASSUME RecorderInv, Recordings, Prompt, RecordOpen \/ RecordReset \/ RecordRespond \/ RecordStart
    PROVE  Prompt'
  <1>. USE DEF RecorderInv, Running, sessionVars, clientVars, machineVars, pluginVars, mediaVars
  <1>1. /\ Current \in Message /\ Rest = <<>> /\ task_queue \in Seq(Message)
        /\ InHand(Starting) /\ Current.method = "RECORD"
    BY ZenonT(40), OneInHand
             DEF RecordOpen, RecordReset, RecordRespond, RecordStart, Recordings, InHand,
                     Unanswered, Starting, TypeOK, ControlTypeOK
  <1>2. UNCHANGED <<sm_request, machineVars, stop_response, mediaVars>>
    BY Zenon DEF RecordOpen, RecordReset, RecordRespond, RecordStart
  <1>3. sm_request # NULL /\ sm_request.method = "RECORD" /\ sm_request.id = Current.id
    <2>1. InHand(Unanswered) \/ InHand({"record_start"})
      BY Zenon, <1>1 DEF InHand, Starting
    <2>2. InHand(Unanswered) => Fits(sm_request, Current)
      BY Zenon DEF InHand, Token
    <2>. QED BY Zenon, <1>1, <2>1, <2>2 DEF Fits, Prompt, Owned
  <1>4. /\ record_request = NULL /\ state # "RECORDING" /\ media_pc = "start"
        /\ ~StopPending /\ stop_response = NULL
    <2>1. record_request = NULL /\ state # "RECORDING" /\ ~StopPending
      BY Zenon, <1>1, <1>3 DEF Prompt, Owned, Recordings, StopPending
    <2>2. InHand(Waiting)
      BY Zenon, <1>1 DEF InHand, Waiting
    <2>. QED BY Zenon, <2>1, <2>2 DEF Prompt, Stopped, Written
  <1>5. ~StopPending' /\ media_pc' = "start" /\ media_pc' \notin Stopping
    BY Zenon, <1>2, <1>4 DEF StopPending, Stopping
  <1>6. InHand(Unanswered) => /\ NoAnswer(task_queue) /\ NoneRefuses(task_queue) /\ NoneStops(task_queue)
                              /\ \A r : Followed(r, task_queue)
    <2>1. InHand(Unanswered) => NoAnswer(task_queue)
      BY Zenon DEF InHand, Token
    <2>. QED BY Zenon, <1>1, <2>1, Unanswering
  <1>7. ASSUME NEW type \in {"record_reset", "record_respond", "record_start"}, InHand(Unanswered),
               todo' = <<[Current EXCEPT !.type = type]>> \o <<>>, UNCHANGED record_request,
               \/ UNCHANGED task_queue /\ type # "record_start"
               \/ Signal(Response(Current, "INPROGRESS")) /\ type = "record_start"
        PROVE  Prompt'
    <2>. DEFINE n == [Current EXCEPT !.type = type]
    <2>1. n \in Message /\ n.type = type /\ n.id = Current.id
      <3>1. type \in MessageType
        BY Zenon, <1>7 DEF MessageType
      <3>. QED BY ZenonT(40), <1>1, <3>1, Retyped
    <2>. HIDE DEF n
    <2>2. todo' = <<n>>
      BY Zenon, <1>7, <2>1, PushOnEmpty DEF n
    <2>3. Current' = n /\ \A types : InHand(types)' <=> type \in types
      BY Zenon, <2>1, <2>2, NewHand
    <2>4. NoneRefuses(task_queue') /\ NoneStops(task_queue')
      <3>. DEFINE a == Response(Current, "INPROGRESS")
      <3>1. a \in Message /\ ~Refuses(a) /\ ~StopAnswer(a)
        BY Zenon, <1>1, Created DEF Refuses, StopAnswer, Accepts, Response
      <3>. HIDE DEF a
      <3>2. Signal(a) => NoneRefuses(task_queue') /\ NoneStops(task_queue')
        BY Zenon, <1>1, <1>6, <1>7, <3>1, QueueAdd DEF Signal
      <3>. QED BY Zenon, <1>6, <1>7, <3>2 DEF a
    <2>5. type # "record_start" => Followed(record_request, task_queue')
      BY Zenon, <1>6, <1>7
    <2>. QED BY Zenon, <1>2, <1>3, <1>4, <1>5, <1>7, <2>1, <2>3, <2>4, <2>5
             DEF Prompt, Owned, Stopped, Written, Kept
  <1>8. CASE RecordOpen
    <2>1. InHand(Unanswered) /\ UNCHANGED record_request
      BY Zenon, <1>8 DEF RecordOpen, InHand, Unanswered
    <2>2. CASE todo' = <<[Current EXCEPT !.type = "record_reset"]>> \o Rest /\ UNCHANGED task_queue
      BY Zenon, <1>1, <1>7, <2>1, <2>2
    <2>3. CASE /\ audio_out' \in {FALSE, audio_out} /\ Signal(Response(Current, "COMPLETE"))
               /\ todo' = Rest
      <3>. DEFINE a == Response(Current, "COMPLETE")
      <3>1. a \in Message /\ ~Accepts(a) /\ ~StopAnswer(a)
        BY ZenonT(40), <1>1, Created DEF StopAnswer, Accepts, Response
      <3>2. task_queue' = Append(task_queue, a)
        BY Zenon, <2>3 DEF Signal
      <3>. HIDE DEF a
      <3>3. NoneStops(task_queue') /\ Followed(record_request, task_queue')
        BY Zenon, <1>1, <1>6, <2>1, <3>1, <3>2, QueueAdd
      <3>4. ~audio_out'
        <4>1. ~InHand({"record_reset", "record_respond", "record_start"})
          BY Zenon, <1>8 DEF RecordOpen, InHand
        <4>. QED BY ZenonT(40), <1>4, <2>3, <4>1 DEF Prompt, Written
      <3>5. \A types : ~InHand(types)'
        BY Zenon, <1>1, <2>3, EmptyHand
      <3>. QED BY Zenon, <1>2, <1>4, <1>5, <2>1, <3>3, <3>4, <3>5
               DEF Prompt, Owned, Stopped, Written, Kept
    <2>. QED BY ZenonT(40), <1>8, <2>2, <2>3 DEF RecordOpen
  <1>9. CASE RecordReset
    <2>1. InHand(Unanswered)
      BY Zenon, <1>9 DEF RecordReset, InHand, Unanswered
    <2>. QED BY Zenon, <1>1, <1>7, <1>9, <2>1 DEF RecordReset
  <1>10. CASE RecordRespond
    <2>1. InHand(Unanswered)
      BY Zenon, <1>10 DEF RecordRespond, InHand, Unanswered
    <2>. QED BY Zenon, <1>1, <1>7, <1>10, <2>1 DEF RecordRespond
  <1>11. CASE RecordStart
    <2>1. InHand({"record_start"}) /\ todo' = <<>> /\ UNCHANGED <<task_queue, audio_out>>
      BY Zenon, <1>1, <1>11 DEF RecordStart, InHand
    <2>2. record_request' \in Message /\ record_request'.id = Current.id
      <3>1. "request" \in MessageType
        BY Zenon DEF MessageType
      <3>. QED BY ZenonT(40), <1>1, <1>11, <3>1, Retyped DEF RecordStart
    <2>3. record_request' # NULL /\ \A types : ~InHand(types)'
      BY Zenon, <2>1, <2>2, EmptyHand, NotNull
    <2>4. NoneRefuses(task_queue) /\ NoneStops(task_queue) /\ Followed(record_request', task_queue)
      <3>1. NoneRefuses(task_queue) /\ AllFit(sm_request, task_queue)
        BY Zenon, <2>1 DEF Prompt, Owned, Token
      <3>2. \A i \in 1 .. Len(task_queue) : IsResponse(task_queue[i]) =>
               task_queue[i].method = "RECORD" /\ task_queue[i].id = Current.id
        BY Zenon, <1>3, <3>1 DEF AllFit, Fits
      <3>. QED BY Zenon, <2>2, <2>3, <3>1, <3>2 DEF NoneStops, StopAnswer, Followed, Accepts
    <2>. QED BY ZenonT(40), <1>2, <1>3, <1>4, <1>5, <2>1, <2>2, <2>3, <2>4
             DEF Prompt, Owned, Stopped, Written, Kept
  <1>. QED BY Zenon, <1>8, <1>9, <1>10, <1>11

(* What the engine says ends a recording only when the plugin has let go   *)
(* of it.                                                                  *)
LEMMA PromptEngine ==
    ASSUME RecorderInv, Recordings, Past, Prompt, ResponseUpdate \/ EventUpdate
    PROVE  Prompt'
  <1>. USE DEF RecorderInv, Running, sessionVars, clientVars, machineVars, pluginVars, mediaVars
  <1>1. Current \in Message /\ Rest = <<>>
    BY Zenon, OneInHand DEF ResponseUpdate, EventUpdate
  <1>2. CASE ResponseUpdate
    <2>1. InHand({"response"}) /\ IsResponse(Current) /\ Current.type = "response"
      BY Zenon, <1>2 DEF ResponseUpdate, InHand, IsResponse
    <2>2. Fits(sm_request, Current) /\ NoAnswer(task_queue)
      BY Zenon, <2>1 DEF Token, InHand
    <2>3. UNCHANGED <<task_queue, pluginVars, mediaVars>>
      BY Zenon, <1>2 DEF ResponseUpdate
    <2>4. audio_out => record_request # NULL
      BY Zenon, <2>1 DEF Prompt, Written, InHand
    <2>5. Expected
      BY Zenon, <2>2 DEF Expected, Fits
    <2>6. sm_request # NULL /\ sm_request.method = Current.method /\ sm_request.id = Current.id
      BY Zenon, <2>2 DEF Fits
    <2>7. Current.method # "STOP" => /\ stop_response = NULL /\ media_pc \notin Stopping /\ ~StopPending
      BY Zenon, <2>6 DEF Prompt, Stopped, StopPending
    <2>8. Current.method # "RECORD" => ~Accepts(Current) /\ (record_request # NULL => state = "RECORDING")
      BY Zenon, <2>1, <2>6 DEF Recordings, Prompt, Owned
    <2>9. ~Accepts(Current) /\ state # "RECORDING" => media_pc = "start"
      BY Zenon, <2>1 DEF Prompt, Written
    <2>10. CASE ResponseParams
      <3>. DEFINE p == IF Current.method = "GET-PARAMS" THEN [Current EXCEPT !.param = properties]
                       ELSE Current
      <3>1. p \in Message
        BY ZenonT(40), <1>1, Created DEF TypeOK, ControlTypeOK
      <3>2. ResponseDispatch(p, <<>>) /\ UNCHANGED machineVars
        BY Zenon, <1>1, <2>10 DEF ResponseParams
      <3>. HIDE DEF p
      <3>3. Current.method \notin {"STOP", "RECORD"}
        BY Zenon, <2>10 DEF ResponseParams
      <3>4. state = "RECORDING" => record_request # NULL \/ Finished(record.id, task_queue)
        BY Zenon, <2>1, <2>7, <3>3 DEF Prompt, Kept, InHand
      <3>5. record_request # NULL => state = "RECORDING" /\ record_request.id = record.id
        BY Zenon, <2>8, <3>3 DEF Prompt, Owned
      <3>. QED BY Zenon, <2>2, <2>3, <2>4, <2>7, <2>8, <2>9, <3>1, <3>2, <3>3, <3>4, <3>5, PromptDispatch
    <2>11. CASE ResponseRecord /\ Current.state = "INPROGRESS"
      <3>1. /\ record' = sm_request /\ state' = "RECORDING" /\ ResponseDispatch(Current, <<>>)
            /\ Current.method = "RECORD" /\ Accepts(Current)
        BY Zenon, <1>1, <2>1, <2>11 DEF ResponseRecord, Accepts
      <3>2. record_request # NULL => record_request.id = record'.id
        BY Zenon, <2>6, <3>1 DEF Recordings, Prompt, Owned
      <3>3. record_request # NULL \/ Finished(record'.id, task_queue)
        BY Zenon, <2>1, <2>6, <3>1 DEF Prompt, Kept
      <3>. QED BY Zenon, <1>1, <2>2, <2>3, <2>4, <2>7, <3>1, <3>2, <3>3, PromptDispatch
    <2>12. CASE ResponseRecord /\ Current.state # "INPROGRESS"
      <3>1. /\ UNCHANGED machineVars /\ ResponseDispatch(Current, <<>>)
            /\ Current.method = "RECORD" /\ ~Accepts(Current) /\ Refuses(Current)
        BY Zenon, <1>1, <2>1, <2>12 DEF ResponseRecord, Accepts, Refuses
      <3>2. record_request = NULL /\ state # "RECORDING"
        BY Zenon, <2>1, <2>6, <3>1 DEF Recordings, Prompt, Owned
      <3>. QED BY Zenon, <1>1, <2>2, <2>3, <2>4, <2>7, <2>9, <3>1, <3>2, PromptDispatch
    <2>13. CASE ResponseStop
      <3>1. state' = "IDLE" /\ ResponseDispatch(Current, <<>>) /\ StopAnswer(Current)
        BY Zenon, <1>1, <2>1, <2>13 DEF ResponseStop, StopAnswer
      <3>2. record_request = NULL /\ stop_response = NULL /\ media_pc = "start" /\ media_pc \notin Stopping
        BY Zenon, <2>1, <3>1 DEF Prompt, Stopped, Stopping
      <3>. QED BY Zenon, <1>1, <2>2, <2>3, <2>4, <3>1, <3>2, PromptDispatch
    <2>. QED BY Zenon, <1>2, <2>5, <2>10, <2>11, <2>12, <2>13 DEF ResponseUpdate, ResponseRecord
  <1>3. CASE EventUpdate
    <2>1. InHand({"event"}) /\ Current.type = "event"
      BY Zenon, <1>3 DEF EventUpdate, InHand
    <2>2. /\ todo' = <<>> /\ UNCHANGED <<sm_request, task_queue, pluginVars, mediaVars>>
      BY Zenon, <1>1, <1>3 DEF EventUpdate, EventStartOfInput, EventRecordComplete, EventDispatch, Ignore
    <2>3. \A types : ~InHand(types)'
      BY Zenon, <2>2, EmptyHand
    <2>4. StopPending' = StopPending /\ (audio_out => record_request # NULL) /\ ~InHand({"record_start"})
      BY Zenon, <2>1, <2>2 DEF StopPending, Prompt, Written, InHand
    <2>5. CASE UNCHANGED machineVars
      <3>1. Done(Current) /\ state = "RECORDING" /\ Current.id = record.id => StopPending
        BY ZenonT(40), <1>3, <2>5
                 DEF EventUpdate, EventStartOfInput, EventRecordComplete, OfRecord, Done, Machine
      <3>. QED BY ZenonT(40), <2>2, <2>3, <2>4, <2>5, <3>1 DEF Prompt, Owned, Stopped, Written, Kept
    <2>6. CASE ~UNCHANGED machineVars
      <3>1. /\ Current.method = "RECORD-COMPLETE" /\ OfRecord /\ ~StopPending
            /\ state' = "IDLE" /\ record' = NULL
        BY Zenon, <1>3, <2>6 DEF EventUpdate, EventStartOfInput, EventRecordComplete
      <3>2. Done(Current) /\ state = "RECORDING" /\ record.id = Current.id
        BY Zenon, <2>1, <3>1 DEF Done, OfRecord, Machine
      <3>3. record_request = NULL
        BY Zenon, <2>1, <3>2 DEF Past, Prompt, Owned
      <3>. QED BY ZenonT(40), <2>2, <2>3, <2>4, <3>1, <3>3 DEF Prompt, Owned, Stopped, Written, Kept
    <2>. QED BY Zenon, <2>5, <2>6
  <1>. QED BY Zenon, <1>2, <1>3

(* The end of the session asks the plugin to stop. *)
LEMMA PromptDeactivate ==
    ASSUME RecorderInv, Prompt, Deactivate
    PROVE  Prompt'
  <1>. USE DEF RecorderInv, Running, sessionVars, clientVars, machineVars, pluginVars, mediaVars
  <1>1. InHand({"terminate"}) /\ Current.type = "terminate" /\ Rest = <<>>
    BY Zenon, OneInHand DEF Deactivate, InHand
  <1>2. sm_request = NULL
    BY Zenon, <1>1 DEF Serial, IsRequest
  <1>3. /\ NoneRefuses(task_queue) /\ NoneStops(task_queue) /\ \A r : Followed(r, task_queue)
        /\ stop_response = NULL /\ media_pc \notin Stopping /\ ~StopPending
        /\ record_request # NULL => state = "RECORDING" /\ record_request.id = record.id
    BY Zenon, <1>2, AtRest
  <1>4. audio_out => record_request # NULL
    BY Zenon, <1>1 DEF Prompt, Written, InHand
  <1>. DEFINE stop == IF state = "RECORDING" /\ record # NULL
                      THEN Request("STOP", record.id + 1, NULL)
                      ELSE NULL
  <1>5. stop # NULL => state = "RECORDING" /\ stop.method = "STOP"
    BY Zenon DEF Request
  <1>6. state = "RECORDING" => stop # NULL
    <2>1. ASSUME NEW m \in Message PROVE Request("STOP", m.id + 1, NULL) \in Message
      BY Sent, IdOf DEF MethodName
    <2>. QED BY Zenon, <2>1, NotNull DEF Machine, TypeOK
  <1>7. /\ DeactivateSession(stop, Rest)
        /\ stop_response' = IF stop = NULL THEN stop_response ELSE Response(stop, "COMPLETE")
        /\ UNCHANGED <<task_queue, machineVars, record_request, audio_out, mediaVars>>
    BY Zenon DEF Deactivate
  <1>. HIDE DEF stop
  <1>8. todo' = <<>> /\ sm_request' = IF stop = NULL THEN sm_request ELSE stop
    BY Zenon, <1>1, <1>7 DEF DeactivateSession
  <1>9. /\ \A types : ~InHand(types)'
        /\ stop # NULL => StopPending'
    BY Zenon, <1>5, <1>8, EmptyHand DEF StopPending
  <1>. QED BY ZenonT(40), <1>3, <1>4, <1>5, <1>6, <1>7, <1>9
           DEF Prompt, Owned, Stopped, Stopping, Written, Kept

(* recorder_stream_write answers a STOP, lets go of the recording, and     *)
(* completes only the recording it has.                                    *)
LEMMA PromptMedia ==
    ASSUME RecorderInv, Recordings, Prompt, MediaThread
    PROVE  Prompt'
  <1>. USE DEF RecorderInv, Media, sessionVars, clientVars, machineVars, pluginVars, mediaVars
  <1>1. UNCHANGED <<todo, sm_request, machineVars>> /\ task_queue \in Seq(Message)
    BY ZenonT(40) DEF MediaThread, MediaStopRespond, MediaStopClear, MediaRecordClear, MediaDetect,
             MediaWrite, TypeOK, ControlTypeOK
  <1>2. /\ Current' = Current /\ StopPending' = StopPending
        /\ \A types : InHand(types)' = InHand(types)
    BY Zenon, <1>1 DEF InHand, Current, StopPending
  <1>3. CASE MediaStopRespond
    <2>1. /\ stop_response # NULL /\ StopWaits /\ StopPending /\ ~audio_out'
          /\ media_pc' = "stop_response" /\ task_queue' = Append(task_queue, stop_response)
          /\ UNCHANGED <<record_request, stop_response, crashed>>
      BY Zenon, <1>3 DEF MediaStopRespond, StopWaits, Signal, Prompt, Stopped
    <2>2. /\ stop_response \in Message /\ stop_response.method = "STOP" /\ stop_response.state = "COMPLETE"
      BY Zenon, <2>1 DEF TypeOK, Token, Fits, StopPending, Recordings
    <2>3. ~InHand(Waiting \cup {"response", "terminate"})
      <3>1. ~InHand(Unanswered \cup {"response"})
        BY Zenon, <2>1 DEF Token
      <3>2. ~InHand({"request"}) /\ ~InHand({"terminate"})
        BY Zenon, <2>1 DEF Serial, StopPending, IsRequest
      <3>3. ~InHand({"record_start"})
        BY Zenon, <2>1 DEF StopPending, Prompt, Owned
      <3>. QED BY Zenon, <3>1, <3>2, <3>3 DEF InHand, Waiting, Starting
    <2>4. /\ ~InHand({"response"}) /\ ~InHand({"record_start"}) /\ ~InHand(Starting) /\ ~InHand(Waiting)
      BY Zenon, <2>3 DEF InHand, Waiting, Starting
    <2>5. ~Refuses(stop_response) /\ ~Accepts(stop_response)
      BY Zenon, <2>2 DEF Refuses, Accepts
    <2>6. /\ record_request # NULL => NoneRefuses(task_queue')
          /\ Followed(record_request, task_queue')
      BY ZenonT(40), <1>1, <2>1, <2>2, <2>4, <2>5, QueueAdd DEF Prompt, Owned, Kept
    <2>. QED BY ZenonT(40), <1>1, <1>2, <2>1, <2>3, <2>4, <2>6
             DEF Prompt, Owned, Stopped, Stopping, Written, Kept
  <1>4. CASE MediaStopClear \/ MediaRecordClear
    <2>1. /\ media_pc \in Stopping /\ stop_response' = NULL
          /\ UNCHANGED <<task_queue, audio_out, crashed>>
          /\ \/ media_pc' \in Stopping /\ UNCHANGED record_request
             \/ media_pc' = "start" /\ record_request' = NULL
      BY Zenon, <1>4 DEF MediaStopClear, MediaRecordClear, Stopping, Prompt, Stopped
    <2>2. StopPending /\ ~InHand(Waiting \cup {"response", "terminate"}) /\ ~audio_out
      BY Zenon, <2>1 DEF Prompt, Stopped
    <2>3. /\ ~InHand({"response"}) /\ ~InHand({"record_start"}) /\ ~InHand(Starting) /\ ~InHand(Waiting)
      BY Zenon, <2>2 DEF InHand, Waiting, Starting
    <2>4. \A r : Followed(r, task_queue)
      BY Zenon, <2>2 DEF Followed, Recordings, OnlyRecord, Token, AllFit, Fits, StopPending, Accepts
    <2>. QED BY ZenonT(40), <1>1, <1>2, <2>1, <2>2, <2>3, <2>4
             DEF Prompt, Owned, Stopped, Stopping, Written, Kept
  <1>5. CASE MediaDetect
    <2>1. /\ stop_response = NULL /\ record_request # NULL /\ media_pc = "start" /\ media_pc' = "write"
          /\ UNCHANGED <<stop_response, crashed>>
          /\ media_pc \notin Stopping /\ media_pc' \notin Stopping
      BY Zenon, <1>5 DEF MediaDetect, Stopping
    <2>2. /\ ~InHand(Starting) /\ ~InHand({"record_start"}) /\ NoneStops(task_queue)
          /\ NoneRefuses(task_queue) /\ Followed(record_request, task_queue)
          /\ InHand({"response"}) => ~StopAnswer(Current) /\ ~Refuses(Current)
      BY ZenonT(40), <2>1 DEF Prompt, Owned, Stopped, Kept, InHand, Starting
    <2>3. ASSUME UNCHANGED <<record_request, audio_out>>,
                 \/ UNCHANGED task_queue
                 \/ \E m \in Message : Signal(m) /\ m.type = "event"
          PROVE  Prompt'
      <3>1. \A m : m.type = "event" => ~Refuses(m) /\ ~StopAnswer(m) /\ ~Accepts(m)
        BY Zenon DEF Refuses, StopAnswer, Accepts, IsResponse
      <3>2. /\ NoneStops(task_queue') /\ NoneRefuses(task_queue') /\ Followed(record_request, task_queue')
        BY ZenonT(40), <1>1, <2>2, <2>3, <3>1, QueueAdd DEF Signal
      <3>3. Owned' /\ Stopped'
        BY ZenonT(40), <1>1, <1>2, <2>1, <2>2, <2>3, <3>2 DEF Prompt, Owned, Stopped
      <3>4. Kept'
        BY ZenonT(40), <1>1, <1>2, <2>1, <2>3, <3>2 DEF Kept
      <3>5. Written'
        <4>1. InHand(Waiting) => sm_request = NULL
          BY ZenonT(40), <2>2 DEF InHand, Waiting, Serial
        <4>2. InHand({"response"}) /\ ~Accepts(Current) => sm_request.method # "RECORD"
          <5>1. InHand({"response"}) => IsResponse(Current) /\ Fits(sm_request, Current)
            BY Zenon DEF Token, InHand, IsResponse
          <5>. QED BY ZenonT(40), <2>2, <5>1 DEF Fits, Refuses
        <4>. QED BY Zenon, <1>1, <1>2, <2>1, <2>3, <4>1, <4>2 DEF Written, Prompt, Owned
      <3>. QED BY Zenon, <3>3, <3>4, <3>5 DEF Prompt
    <2>4. ASSUME RecordComplete
          PROVE  Prompt'
      BY ZenonT(40), <1>1, <2>1, <2>4, PromptComplete, Completion DEF RecordComplete
    <2>5. Event(record_request, "START-OF-INPUT", "INPROGRESS") \in Message
             /\ Event(record_request, "START-OF-INPUT", "INPROGRESS").type = "event"
      BY Zenon, <2>1, Created DEF TypeOK, MethodName
    <2>. QED BY Zenon, <1>5, <2>3, <2>4, <2>5 DEF MediaDetect
  <1>6. CASE MediaWrite
    <2>1. /\ media_pc = "write" /\ media_pc' = "start" /\ UNCHANGED stop_response
          /\ media_pc \notin Stopping /\ media_pc' \notin Stopping
      BY Zenon, <1>6 DEF MediaWrite, Stopping
    <2>2. audio_out => record_request # NULL
      <3>1. ASSUME InHand({"record_reset", "record_respond", "record_start"}) PROVE FALSE
        <4>1. InHand(Waiting) /\ InHand(Unanswered \cup {"record_start"}) /\ Current.method = "RECORD"
          BY Zenon, <3>1 DEF InHand, Waiting, Starting, Unanswered, Recordings
        <4>2. sm_request # NULL /\ sm_request.method = "RECORD"
          <5>1. InHand(Unanswered) => Fits(sm_request, Current)
            BY Zenon DEF InHand, Token
          <5>2. InHand(Unanswered) \/ InHand({"record_start"})
            BY Zenon, <4>1 DEF InHand
          <5>. QED BY Zenon, <4>1, <5>1, <5>2 DEF Fits, Prompt, Owned
        <4>. QED BY Zenon, <2>1, <4>1, <4>2 DEF Recordings, Prompt, Written
      <3>. QED BY Zenon, <3>1 DEF Prompt, Written
    <2>3. CASE UNCHANGED <<task_queue, record_request, audio_out, crashed>>
      <3>. QED BY ZenonT(40), <1>1, <1>2, <2>1, <2>3 DEF Prompt, Owned, Stopped, Written, Kept
    <2>4. CASE RecordComplete /\ record_request # NULL /\ audio_out /\ UNCHANGED crashed
      BY ZenonT(40), <1>1, <2>1, <2>4, PromptComplete, Completion DEF RecordComplete
    <2>. QED BY Zenon, <1>6, <2>2, <2>3, <2>4 DEF MediaWrite
  <1>. QED BY Zenon, <1>3, <1>4, <1>5, <1>6 DEF MediaThread

(* The server task takes a message when the media thread is at rest. *)
LEMMA PromptTake ==
    ASSUME RecorderInv, Prompt, TakeMessage, ~overtaken'
    PROVE  Prompt'
  <1>. USE DEF RecorderInv, machineVars, pluginVars, mediaVars
  <1>. DEFINE h == Head(task_queue)
  <1>1. /\ media_pc = "start" /\ todo = <<>> /\ task_queue # <<>> /\ task_queue' = Tail(task_queue)
        /\ UNCHANGED <<sm_request, machineVars, pluginVars, voice, media_pc, crashed>>
        /\ h.type \in {"request", "terminate", "response", "event"}
        /\ todo' = <<h>> \/ (todo' = <<>> /\ h.type \in {"request", "terminate"})
    BY Zenon DEF TakeMessage, ReceiveSignaling, ReceiveEngineMessage, Take
  <1>2. task_queue \in Seq(Message) /\ h \in Message
    BY Zenon, <1>1, TakenFirst DEF TypeOK, ControlTypeOK
  <1>3. /\ NoneRefuses(task_queue) => NoneRefuses(task_queue') /\ ~Refuses(h)
        /\ NoneStops(task_queue) => NoneStops(task_queue') /\ ~StopAnswer(h)
        /\ \A id : Finished(id, task_queue) => Finished(id, task_queue') \/ (Done(h) /\ h.id = id)
        /\ Followed(record_request, task_queue) =>
              /\ Followed(record_request, task_queue')
              /\ Accepts(h) => record_request # NULL \/ Finished(h.id, task_queue')
    BY Zenon, <1>1, <1>2, QueueTake
  <1>. HIDE DEF h
  <1>4. /\ \A types : ~InHand(types)
        /\ StopPending' = StopPending /\ media_pc \notin Stopping
    BY Zenon, <1>1 DEF InHand, StopPending, Stopping
  <1>5. /\ ~InHand(Starting)' /\ ~InHand({"record_start"})'
        /\ \A types : InHand(types)' => Current' = h /\ h.type \in types
        /\ Done(h) => InHand({"event"})'
    <2>1. CASE todo' = <<>> /\ h.type \in {"request", "terminate"}
      BY Zenon, <2>1, EmptyHand DEF Done
    <2>2. CASE todo' = <<h>>
      <3>1. Current' = h /\ \A types : InHand(types)' <=> h.type \in types
        BY Zenon, <1>2, <2>2, NewHand
      <3>. QED BY Zenon, <1>1, <3>1 DEF Done, Starting, Unanswered
    <2>. QED BY Zenon, <1>1, <2>1, <2>2
  <1>6. Owned'
    BY ZenonT(40), <1>1, <1>3, <1>5 DEF Prompt, Owned
  <1>7. Stopped'
    BY Zenon, <1>1, <1>3, <1>4, <1>5 DEF Prompt, Stopped
  <1>8. Written'
    BY Zenon, <1>1, <1>4 DEF Prompt, Written
  <1>9. Kept'
    BY ZenonT(40), <1>1, <1>3, <1>4, <1>5 DEF Prompt, Kept
  <1>. QED BY Zenon, <1>6, <1>7, <1>8, <1>9 DEF Prompt

(* What the client sends leaves the recordings as they are. *)
LEMMA PromptClient ==
    ASSUME RecorderInv, Prompt, Client
    PROVE  Prompt'
  <1>. USE DEF RecorderInv, machineVars, pluginVars, mediaVars
  <1>1. UNCHANGED <<todo, sm_request, machineVars, pluginVars, mediaVars>>
    BY Zenon DEF Client, ClientRequest, ClientTerminate
  <1>2. /\ Current' = Current /\ StopPending' = StopPending
        /\ \A types : InHand(types)' = InHand(types)
    BY Zenon, <1>1 DEF InHand, Current, StopPending
  <1>3. PICK m \in Message : Signal(m) /\ ~IsResponse(m)
    BY Zenon, ClientSignals
  <1>4. ~Refuses(m) /\ ~StopAnswer(m) /\ ~Accepts(m)
    BY Zenon, <1>3 DEF Refuses, StopAnswer, Accepts
  <1>5. task_queue \in Seq(Message) /\ task_queue' = Append(task_queue, m)
    BY Zenon, <1>3 DEF Signal, TypeOK, ControlTypeOK
  <1>6. /\ NoneRefuses(task_queue) => NoneRefuses(task_queue')
        /\ NoneStops(task_queue) => NoneStops(task_queue')
        /\ \A id : Finished(id, task_queue) => Finished(id, task_queue')
        /\ Followed(record_request, task_queue) => Followed(record_request, task_queue')
    BY ZenonT(40), <1>4, <1>5, QueueAdd
  <1>. QED BY ZenonT(40), <1>1, <1>2, <1>6 DEF Prompt, Owned, Stopped, Written, Kept
-----------------------------------------------------------------------------
(* No step makes an overtaking undone. *)
LEMMA OvertakenStays ==
    ASSUME RecorderInv, [Next]_vars, ~overtaken'
    PROVE  ~overtaken
  <1>1. CASE TakeMessage
    BY Zenon, <1>1 DEF TakeMessage
  <1>2. CASE MediaThread
    BY Zenon, <1>2 DEF MediaThread, MediaStopRespond, MediaStopClear, MediaRecordClear, MediaDetect,
                MediaWrite, Media
  <1>3. CASE UNCHANGED mediaVars
    BY Zenon, <1>3 DEF mediaVars
  <1>4. CASE RequestUpdate \/ RecordOpen \/ RecordReset \/ RecordRespond \/ RecordStart
               \/ ResponseUpdate \/ EventUpdate \/ Deactivate \/ Client
    BY Zenon, <1>4 DEF RequestUpdate, RecordOpen, RecordReset, RecordRespond, RecordStart, ResponseUpdate,
                EventUpdate, Deactivate, Client, mediaVars
  <1>. QED BY Zenon, <1>1, <1>2, <1>3, <1>4 DEF Next, ServerTask, vars

(* As long as recorder_stream_write was not overtaken by the server task,  *)
(* recorder_channel_stop does what it says, "make sure there is no more    *)
(* activity and only then send the response": the recording the client was *)
(* told of is the one the media thread records, until it is complete or    *)
(* stopped, and the media thread never completes a recording it does not   *)
(* have, so that recorder_record_complete finds its record_request.  This  *)
(* holds for any number of requests and any Max-Time.                      *)
THEOREM KeptPromptly == Spec => []KeptUntilOvertaken
  <1>. DEFINE I == Past /\ (~overtaken => Prompt)
  <1>1. RecorderInit => I
    <2>. SUFFICES ASSUME RecorderInit PROVE Past /\ Prompt
      OBVIOUS
    <2>0. ~audio_out /\ ~crashed
      BY Zenon DEF RecorderInit, PluginInit
    <2>1. /\ task_queue = <<>> /\ todo = <<>> /\ state = "IDLE" /\ record_request = NULL
          /\ stop_response = NULL /\ media_pc = "start" /\ ~audio_out /\ ~crashed
      BY ZenonT(40), <2>0 DEF RecorderInit, Init, MachineInit, PluginInit
    <2>2. /\ Len(task_queue) = 0 /\ \A types : ~InHand(types)
          /\ NoneStops(task_queue) /\ Followed(record_request, task_queue)
      <3>1. Len(task_queue) = 0 /\ 1 .. 0 = {}
        BY <2>1, EmptySeq
      <3>2. \A types : ~InHand(types)
        BY Zenon, <2>1 DEF InHand
      <3>. QED BY Zenon, <3>1, <3>2 DEF NoneStops, Followed
    <2>3. Past
      BY <2>1, <2>2 DEF Past
    <2>4. Owned
      BY Zenon, <2>1, <2>2 DEF Owned
    <2>5. Stopped
      BY Zenon, <2>1, <2>2 DEF Stopped, Stopping
    <2>6. Written /\ Kept
      BY Zenon, <2>1, <2>2 DEF Written, Kept
    <2>. QED BY Zenon, <2>3, <2>4, <2>5, <2>6 DEF Prompt
  <1>2. RecorderInv /\ Recordings /\ I /\ [Next]_vars => I'
    <2>. SUFFICES ASSUME RecorderInv, Recordings, I, [Next]_vars PROVE I'
      OBVIOUS
    <2>1. CASE UNCHANGED vars
      <3>. USE <2>1
               DEF vars, controlVars, sessionVars, clientVars, machineVars, pluginVars, mediaVars
      <3>1. /\ Current' = Current /\ StopPending' = StopPending /\ Begun' = Begun
            /\ \A types : InHand(types)' = InHand(types)
        BY Zenon DEF InHand, Current, StopPending, Begun
      <3>2. Past'
        BY Zenon, <3>1 DEF Past
      <3>3. Prompt => Owned' /\ Stopped'
        BY ZenonT(40), <3>1 DEF Prompt, Owned, Stopped
      <3>4. Prompt => Written' /\ Kept'
        BY Zenon, <3>1 DEF Prompt, Written, Kept
      <3>. QED BY Zenon, <3>2, <3>3, <3>4 DEF Prompt
    <2>2. CASE Next
      <3>1. Past'
        BY Zenon, <2>2, PastNext
      <3>2. ~overtaken' => Prompt'
        BY Zenon, <2>2, OvertakenStays, PromptRequest, PromptRecord, PromptEngine, PromptDeactivate, PromptMedia, PromptTake,
           PromptClient DEF Next, ServerTask
      <3>. QED BY Zenon, <3>1, <3>2
    <2>. QED BY Zenon, <2>1, <2>2
  <1>3. RecorderInv /\ I => KeptUntilOvertaken
    <2>. SUFFICES ASSUME RecorderInv, Prompt PROVE AcceptedRecordKept /\ NoNullRecordRequest
      BY Zenon DEF KeptUntilOvertaken
    <2>1. DOMAIN task_queue = 1 .. Len(task_queue)
      BY SMTT(40) DEF RecorderInv, TypeOK, ControlTypeOK
    <2>2. CompletionOnItsWay \/ ~(\/ Finished(record.id, task_queue)
                                  \/ InHand({"event"}) /\ Done(Current) /\ Current.id = record.id)
      BY ZenonT(40), <2>1 DEF CompletionOnItsWay, Completed, Finished, InHand, Done
    <2>3. AcceptedRecordKept
      BY Zenon, <2>2 DEF AcceptedRecordKept, Prompt, Kept, Owned
    <2>. QED BY Zenon, <2>3 DEF NoNullRecordRequest, Prompt, Written
  <1>. HIDE DEF I
  <1>. QED BY <1>1, <1>2, <1>3, Invariance, RecordingsInvariance, PTL DEF Spec
=============================================================================
