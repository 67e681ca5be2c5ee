-------------------------- MODULE RtspSessionProofs -------------------------
(***************************************************************************)
(* What every operation of RtspClient does to a session of the client, and *)
(* every operation of RtspServer to one of the server.  In the client, the *)
(* requests that wait (the active and the pending ones) are different and  *)
(* not yet answered, the request in progress is watched by its timer, and  *)
(* a new active request has a CSeq above every one in use.  In the server, *)
(* an MRCP session has one request at most, and its answer is awaited.     *)
(* RtspProofs rests on these lemmas.                                       *)
(***************************************************************************)
EXTENDS RtspClient, RtspServer, FiniteSetTheorems, TLAPS

(* How many members of S are on a queue *)
NoneIn(q, S) == \A i \in 1..Len(q) : q[i] \notin S
AtMostOne(q, S) == \A i, j \in 1..Len(q) : q[i] \in S /\ q[j] \in S => i = j

(* A queue of members of a set is one of members of any larger set. *)
LEMMA SeqMonotone ==
    ASSUME NEW S, NEW T, S \subseteq T, NEW q \in Seq(S)
    PROVE  q \in Seq(T)
OBVIOUS

(* A function on 1..N is a sequence. *)
LEMMA FunctionSeq ==
    ASSUME NEW N \in Nat, NEW S, NEW f \in [1..N -> S]
    PROVE  f \in Seq(S) /\ Len(f) = N
OBVIOUS

(* A queue that has no member of a set has at most one. *)
LEMMA NoneSome == ASSUME NEW S, NEW T, NEW q \in Seq(T), NoneIn(q, S) PROVE AtMostOne(q, S)
BY Zenon DEF NoneIn, AtMostOne

(* An empty queue has none. *)
LEMMA NoneEmpty == ASSUME NEW S PROVE NoneIn(<<>>, S) /\ AtMostOne(<<>>, S)
BY DEF NoneIn, AtMostOne

(* What a member added to a queue, or taken off it, makes of that *)
LEMMA NoneAppend ==
    ASSUME NEW S, NEW T, NEW q \in Seq(T), NEW x \in T, NoneIn(q, S)
    PROVE  /\ x \notin S => NoneIn(Append(q, x), S)
           /\ AtMostOne(Append(q, x), S)
BY DEF NoneIn, AtMostOne

(* One that is not of the set can be added. *)
LEMMA SomeAppend ==
    ASSUME NEW S, NEW T, NEW q \in Seq(T), NEW x \in T, AtMostOne(q, S), x \notin S
    PROVE  AtMostOne(Append(q, x), S)
BY DEF AtMostOne

(* What is left when the first is taken off. *)
LEMMA NoneTail ==
    ASSUME NEW S, NEW T, NEW q \in Seq(T), q # <<>>
    PROVE  /\ NoneIn(q, S) => NoneIn(Tail(q), S)
           /\ AtMostOne(q, S) => AtMostOne(Tail(q), S)
           /\ AtMostOne(q, S) /\ Head(q) \in S => NoneIn(Tail(q), S)
           /\ NoneIn(q, S) => Head(q) \notin S
BY DEF NoneIn, AtMostOne

(* Appending one message or two. *)
LEMMA Concatenated ==
    ASSUME NEW T, NEW q \in Seq(T)
    PROVE  /\ q \o <<>> = q
           /\ \A x \in T : q \o <<x>> = Append(q, x)
           /\ \A x, y \in T : q \o <<x, y>> = Append(Append(q, x), y)
OBVIOUS

(* Messages of one kind are not of another. *)
LEMMA Kinds ==
    /\ \A x \in Requests : x \notin Responses /\ x \notin Events /\ x # NULL /\ x # Acknowledgement
    /\ \A x \in Responses : x \notin Events /\ x # NULL /\ x.type = "RESPONSE"
    /\ \A x \in Events : x # NULL /\ x.type = "EVENT"
    /\ \A x \in Requests : x.type = "REQUEST"
    /\ Acknowledgement.type = "RESPONSE"
BY LinkAssumption DEF Requests, Responses, Events, Acknowledgement

(* rtsp_response_create: a response has the number and the CSeq of its     *)
(* request.                                                                *)
LEMMA ResponseType ==
    ASSUME NEW r \in Requests, NEW status \in {"OK", "ERROR", "TIMEOUT"}, NEW id \in Nat
    PROVE  /\ Response(r, status, id) \in Responses
           /\ Response(r, status, id).n = r.n
           /\ Response(r, status, id).cseq = r.cseq
           /\ Response(r, status, id).status = status
           /\ Response(r, status, id).session_id = id
BY Zenon DEF Requests, Responses, Response

(* rtsp_request_create *)
LEMMA RequestType ==
    ASSUME NEW n \in Nat, NEW method \in MethodIds, NEW resource \in Resources, NEW good \in BOOLEAN
    PROVE  /\ Request(n, method, resource, good) \in Requests
           /\ Request(n, method, resource, good).n = n
           /\ Request(n, method, resource, good).method = method
           /\ Request(n, method, resource, good).good = good
BY Zenon DEF Requests, Request
-----------------------------------------------------------------------------
(* The client *)
Messages == Requests \cup {Acknowledgement}

ClientSessions ==
    [connection : {"none", "open", "closed", "destroyed"}, handle_table : BOOLEAN,
     session_table : BOOLEAN, inprogress_request_queue : BOOLEAN, last_cseq : Nat, id : Nat,
     active_request : Requests \cup {NULL}, pending_request_queue : Seq(Requests),
     request_timer : BOOLEAN, resource_table : SUBSET Resources,
     term_state : {"NONE", "REQUESTED", "INPROGRESS"}, sent : Seq(Messages),
     answers : [Ids -> Seq(Responses)], user : {"active", "told", "terminating", "terminated"}]

(* The answers to a user's first k requests *)
Told(answer, n) ==
    Len(answer) <= 1 /\ \A i \in 1..Len(answer) : answer[i].status = "OK" => answer[i].n = n
Answered(s, k) ==
    \A n \in Ids : Told(s.answers[n], n) /\ (n > k => s.answers[n] = <<>>)

(* A request that waits: the user's, unless the client ends the session, is *)
(* not answered; and those that wait are different.                         *)
Waits(s, r, k) ==
    IF s.term_state = "INPROGRESS" THEN r.n = 0 ELSE r.n \in 1..k /\ s.answers[r.n] = <<>>
Queued(s, queue, k) ==
    \A i \in 1..Len(queue) :
       /\ Waits(s, queue[i], k)
       /\ \A j \in 1..Len(queue) : queue[i].n # 0 /\ queue[j].n = queue[i].n => i = j
Waiting(s, k) ==
    /\ Queued(s, s.pending_request_queue, k)
    /\ s.active_request # NULL =>
          /\ Waits(s, s.active_request, k)
          /\ \A i \in 1..Len(s.pending_request_queue) :
                s.active_request.n # 0 => s.pending_request_queue[i].n # s.active_request.n

Watched(s) ==
    /\ s.inprogress_request_queue => s.active_request # NULL
    /\ s.pending_request_queue # <<>> => s.active_request # NULL
    /\ s.request_timer <=> (request_timeout /\ s.inprogress_request_queue)

(* Between two requests *)
Quiet(s) ==
    /\ s.active_request = NULL /\ s.pending_request_queue = <<>> /\ s.sent = <<>>
    /\ ~s.inprogress_request_queue /\ ~s.request_timer

(* How CSeq, active request and what is sent go on from s to t *)
Moves(s, t) ==
    /\ s.last_cseq <= t.last_cseq
    /\ \/ t.sent = <<>> /\ t.active_request \in {NULL, s.active_request}
       \/ /\ t.active_request \in Requests /\ t.sent = <<t.active_request>>
          /\ s.last_cseq < t.active_request.cseq /\ t.active_request.cseq <= t.last_cseq
          /\ t.connection = "open"

(* The requests that need the id of the session carry one, and the server  *)
(* can parse them: so it is when all is orderly.                           *)
NeedsId(r) == r.method \in {"TEARDOWN", "ANNOUNCE"}
Named(s) ==
    /\ s.resource_table # {} => s.id # 0
    /\ \A i \in 1..Len(s.pending_request_queue) :
          s.pending_request_queue[i].good /\ (NeedsId(s.pending_request_queue[i]) => s.id # 0)
    /\ s.active_request # NULL =>
          s.active_request.good /\ (NeedsId(s.active_request) => s.active_request.session_id # 0)

(* ErrorsProcess changes the tables and the answers only. *)
ErrorsTold(s, t, queue, error) ==
    \A n \in Ids : t.answers[n] =
       IF s.term_state # "INPROGRESS" /\ \E i \in 1..Len(queue) : queue[i].n = n
       THEN Append(s.answers[n], error[n]) ELSE s.answers[n]

(* What answering a queue of requests with errors leaves alone in the      *)
(* session.                                                                *)
LEMMA ErrorsProcessFields ==
    ASSUME NEW s \in ClientSessions, NEW queue \in Seq(Requests), NEW error,
           queue # <<>> => error \in [Ids -> Responses],
           NEW t, t = ErrorsProcess(s, queue, error)
    PROVE  /\ t \in ClientSessions
           /\ t.connection = s.connection /\ t.handle_table = s.handle_table
           /\ t.inprogress_request_queue = s.inprogress_request_queue
           /\ t.last_cseq = s.last_cseq /\ t.id = s.id /\ t.active_request = s.active_request
           /\ t.pending_request_queue = s.pending_request_queue
           /\ t.request_timer = s.request_timer /\ t.term_state = s.term_state
           /\ t.sent = s.sent /\ t.user = s.user
           /\ t.resource_table \subseteq s.resource_table
           /\ ErrorsTold(s, t, queue, error)
<1> DEFINE torn == {i \in DOMAIN queue : queue[i].method = "TEARDOWN"}
           left == s.resource_table \ {queue[i].resource : i \in torn}
           told == {queue[i].n : i \in DOMAIN queue}
           flag == s.session_table /\ (torn = {} \/ left # {})
           answers == [n \in Ids |-> IF s.term_state # "INPROGRESS" /\ n \in told
                                     THEN Append(s.answers[n], error[n]) ELSE s.answers[n]]
<1>1. t = [s EXCEPT !.resource_table = left, !.session_table = flag, !.answers = answers]
  BY Zenon DEF ErrorsProcess, ClientSessions
<1>2. left \in SUBSET Resources /\ left \subseteq s.resource_table
  BY Zenon DEF ClientSessions
<1>3. flag \in BOOLEAN
  BY Zenon DEF ClientSessions
<1>4. answers \in [Ids -> Seq(Responses)]
  <2>1. s.answers \in [Ids -> Seq(Responses)]
    BY Zenon DEF ClientSessions
  <2>2. queue = <<>> => told = {}
    OBVIOUS
  <2> HIDE DEF told
  <2>3. CASE queue = <<>>
    BY Zenon, <2>1, <2>2, <2>3
  <2>4. CASE queue # <<>>
    BY <2>1, <2>4
  <2> QED
    BY Zenon, <2>3, <2>4
<1>5. \A n \in Ids : n \in told <=> \E i \in 1..Len(queue) : queue[i].n = n
  OBVIOUS
<1> HIDE DEF left, flag, answers, told
<1>6. t \in ClientSessions
  BY Zenon, <1>1, <1>2, <1>3, <1>4 DEF ClientSessions
<1>7. t.resource_table = left /\ t.answers = answers
  BY Zenon, <1>1 DEF ClientSessions
<1>8. \A n \in Ids : t.answers[n] = IF s.term_state # "INPROGRESS" /\ n \in told
                                    THEN Append(s.answers[n], error[n]) ELSE s.answers[n]
  BY Zenon, <1>7 DEF answers
<1>9. ErrorsTold(s, t, queue, error)
  BY Zenon, <1>5, <1>8 DEF ErrorsTold
<1> QED
  BY Zenon, <1>1, <1>2, <1>6, <1>7, <1>9 DEF ClientSessions

(* The order of a table, as a queue of requests to tear it down *)
LEMMA TeardownQueue ==
    ASSUME NEW table \in SUBSET Resources, NEW queue,
           queue = [i \in DOMAIN InOrder(table) |-> Request(0, "TEARDOWN", InOrder(table)[i], TRUE)]
    PROVE  /\ queue \in Seq(Requests)
           /\ \A i \in 1..Len(queue) : /\ queue[i].n = 0 /\ queue[i].method = "TEARDOWN" /\ queue[i].good
                                       /\ queue[i].resource \in table
           /\ \A r \in table : \E i \in 1..Len(queue) : queue[i].resource = r
<1>1. IsFiniteSet(table)
  BY Zenon, ClientAssumption, FS_Subset
<1>2. Cardinality(table) \in Nat /\ ExistsBijection(1..Cardinality(table), table)
  BY Zenon, <1>1, FS_CardinalityType
<1>3. \E order \in [1..Cardinality(table) -> table] :
         \A resource \in table : \E i \in DOMAIN order : order[i] = resource
  <2>1. PICK f : f \in Bijection(1..Cardinality(table), table)
    BY Zenon, <1>2 DEF ExistsBijection
  <2> QED
    BY Zenon, <2>1 DEF Bijection, Surjection
<1> DEFINE order == InOrder(table)
<1>4. /\ order \in [1..Cardinality(table) -> table]
      /\ \A resource \in table : \E i \in DOMAIN order : order[i] = resource
  BY Zenon, <1>3 DEF InOrder
<1> HIDE DEF order
<1>5. queue = [i \in 1..Cardinality(table) |-> Request(0, "TEARDOWN", order[i], TRUE)]
  BY Zenon, <1>4 DEF order
<1>6. \A i \in 1..Cardinality(table) : /\ Request(0, "TEARDOWN", order[i], TRUE) \in Requests
                                       /\ Request(0, "TEARDOWN", order[i], TRUE).n = 0
                                       /\ Request(0, "TEARDOWN", order[i], TRUE).method = "TEARDOWN"
                                       /\ Request(0, "TEARDOWN", order[i], TRUE).good
                                       /\ Request(0, "TEARDOWN", order[i], TRUE).resource = order[i]
  BY Zenon, <1>4 DEF Request, Requests, MethodIds
<1> DEFINE N == Cardinality(table)
           request(i) == Request(0, "TEARDOWN", order[i], TRUE)
<1>7. N \in Nat /\ DOMAIN order = 1..N
  BY Zenon, <1>2, <1>4
<1>8. queue = [i \in 1..N |-> request(i)] /\ \A i \in 1..N : request(i) \in Requests
  BY Zenon, <1>5, <1>6
<1>9. \A i \in 1..N : /\ request(i).n = 0 /\ request(i).method = "TEARDOWN" /\ request(i).good
                      /\ request(i).resource = order[i] /\ order[i] \in table
  BY Zenon, <1>4, <1>6
<1> HIDE DEF N, request
<1>10. queue \in [1..N -> Requests] /\ \A i \in 1..N : queue[i] = request(i)
  BY Zenon, <1>8
<1>11. queue \in Seq(Requests) /\ Len(queue) = N
  BY Zenon, <1>7, <1>10, FunctionSeq
<1>12. \A r \in table : \E i \in 1..N : queue[i].resource = r
  <2> TAKE r \in table
  <2>1. PICK i \in 1..N : order[i] = r
    BY Zenon, <1>4, <1>7
  <2>2. queue[i].resource = r
    BY Zenon, <1>9, <1>10, <2>1
  <2> QED
    BY Zenon, <2>2
<1>13. \A i \in 1..N : /\ queue[i].n = 0 /\ queue[i].method = "TEARDOWN" /\ queue[i].good
                       /\ queue[i].resource \in table
  BY Zenon, <1>9, <1>10
<1> QED
  BY Zenon, <1>11, <1>12, <1>13

(* The requests of a queue that wait are processed: one becomes the active *)
(* one and the others wait behind it, or all are answered.                 *)
LEMMA Processing ==
    ASSUME NEW s \in ClientSessions, NEW fault, NEW queue \in Seq(Requests), NEW k \in Nat,
           request_timeout \in BOOLEAN, Quiet(s), Answered(s, k), Queued(s, queue, k),
           NEW t, t = RequestsProcess(s, fault, queue)
    PROVE  /\ t \in ClientSessions /\ Answered(t, k) /\ Waiting(t, k) /\ Watched(t) /\ Moves(s, t)
           /\ t.id = s.id /\ t.user = s.user /\ t.term_state = s.term_state
           /\ t.connection # s.connection => s.connection = "none" /\ t.connection = "open"
           /\ t.resource_table \subseteq s.resource_table
           /\ t.active_request = NULL => Quiet(t)
           /\ t.active_request # NULL => /\ t.connection = "open" /\ queue # <<>>
                                         /\ t.resource_table = s.resource_table
           /\ /\ s.resource_table # {} => s.id # 0
              /\ \A i \in 1..Len(queue) : queue[i].good /\ (NeedsId(queue[i]) => s.id # 0)
              => Named(t)
<1>1. CASE queue = <<>>
  <2>1. t = s
    BY Zenon, <1>1 DEF RequestsProcess
  <2> QED
    BY <2>1 DEF Quiet, Waiting, Queued, Watched, Moves, Named, ClientSessions
<1> DEFINE c == Connected(s, fault)
<1>2. /\ c \in ClientSessions /\ Quiet(c) /\ c.last_cseq = s.last_cseq /\ c.id = s.id
      /\ c.user = s.user /\ c.term_state = s.term_state /\ c.resource_table = s.resource_table
      /\ c.answers = s.answers
      /\ c.connection # s.connection => s.connection = "none" /\ c.connection = "open"
  BY Zenon DEF Connected, ClientSessions, Quiet
<1>a. c.last_cseq \in Nat /\ c.id \in Nat /\ s.last_cseq \in Nat
  BY Zenon, <1>2 DEF ClientSessions
<1>3. CASE queue # <<>> /\ Processed(s, fault)
  <2> DEFINE r == [Head(queue) EXCEPT !.cseq = c.last_cseq + 1, !.session_id = c.id]
  <2>1. Head(queue) = queue[1] /\ queue[1] \in Requests /\ 1 \in 1..Len(queue)
    BY <1>3
  <2>2. /\ r \in Requests /\ r.n = queue[1].n /\ r.cseq = s.last_cseq + 1 /\ r.session_id = s.id
        /\ r.good = queue[1].good /\ r.method = queue[1].method
    <3> HIDE DEF c
    <3>1. r = [queue[1] EXCEPT !.cseq = c.last_cseq + 1, !.session_id = c.id]
      BY Zenon, <2>1
    <3>2. c.last_cseq + 1 \in Nat
      BY <1>a
    <3> HIDE DEF r
    <3> QED
      BY Zenon, <1>2, <1>a, <2>1, <3>1, <3>2 DEF Requests
  <2>3. t = [c EXCEPT !.last_cseq = r.cseq, !.sent = Append(c.sent, r), !.inprogress_request_queue = TRUE,
                      !.active_request = r, !.request_timer = request_timeout,
                      !.pending_request_queue = c.pending_request_queue \o Tail(queue)]
    BY Zenon, <1>2, <1>3 DEF RequestsProcess, RequestProcess, RequestPush, ClientSessions
  <2>4. /\ c.connection = "open"
        /\ c.sent = <<>> /\ c.pending_request_queue = <<>>
    BY Zenon, <1>2, <1>3 DEF Processed, Quiet
  <2>5. /\ Tail(queue) \in Seq(Requests) /\ Len(Tail(queue)) = Len(queue) - 1
        /\ \A i \in 1..Len(Tail(queue)) : Tail(queue)[i] = queue[i + 1] /\ i + 1 \in 1..Len(queue)
    BY <1>3
  <2> HIDE DEF r, c
  <2>6. Append(c.sent, r) = <<r>> /\ c.pending_request_queue \o Tail(queue) = Tail(queue)
    BY <2>4, <2>5
  <2>7. t = [c EXCEPT !.last_cseq = r.cseq, !.sent = <<r>>, !.inprogress_request_queue = TRUE,
                      !.active_request = r, !.request_timer = request_timeout,
                      !.pending_request_queue = Tail(queue)]
    BY Zenon, <2>3, <2>6
  <2>8. /\ t \in ClientSessions /\ t.last_cseq = s.last_cseq + 1 /\ t.sent = <<r>> /\ t.active_request = r
        /\ t.inprogress_request_queue /\ t.request_timer = request_timeout
        /\ t.pending_request_queue = Tail(queue) /\ t.connection = "open"
        /\ t.id = s.id /\ t.user = s.user /\ t.term_state = s.term_state
        /\ t.resource_table = s.resource_table /\ t.answers = s.answers
    <3>1. <<r>> \in Seq(Messages) /\ r.cseq \in Nat
      BY <2>2 DEF Messages, Requests
    <3>2. t \in ClientSessions
      BY ZenonT(40), <1>2, <2>2, <2>5, <2>7, <3>1 DEF ClientSessions
    <3>3. /\ t.last_cseq = r.cseq /\ t.sent = <<r>> /\ t.active_request = r
          /\ t.inprogress_request_queue /\ t.request_timer = request_timeout
          /\ t.pending_request_queue = Tail(queue) /\ t.connection = c.connection
          /\ t.id = c.id /\ t.user = c.user /\ t.term_state = c.term_state
          /\ t.resource_table = c.resource_table /\ t.answers = c.answers
      BY Zenon, <1>2, <2>7 DEF ClientSessions
    <3> QED
      BY <1>2, <2>2, <2>4, <3>2, <3>3
  <2>9. r # NULL
    BY Zenon, <2>2, Kinds
  <2>10. Answered(t, k) /\ Watched(t) /\ Moves(s, t)
    BY <2>2, <2>8, <2>9 DEF Answered, Watched, Moves, ClientSessions
  <2>11. \A q \in Requests : Waits(s, q, k) <=> Waits(t, q, k)
    BY Zenon, <2>8 DEF Waits
  <2>12. Waits(t, r, k)
    <3>1. Waits(s, queue[1], k)
      BY Zenon, <2>1 DEF Queued
    <3> QED
      BY Zenon, <2>2, <2>8, <3>1 DEF Waits
  <2>13. Queued(t, Tail(queue), k)
    BY <2>5, <2>11 DEF Queued
  <2>14. \A i \in 1..Len(Tail(queue)) : r.n # 0 => Tail(queue)[i].n # r.n
    BY <2>1, <2>2, <2>5 DEF Queued
  <2>15. Waiting(t, k)
    BY Zenon, <2>8, <2>12, <2>13, <2>14 DEF Waiting
  <2>16. ASSUME s.resource_table # {} => s.id # 0,
                \A i \in 1..Len(queue) : queue[i].good /\ (NeedsId(queue[i]) => s.id # 0)
         PROVE  Named(t)
    <3>1. r.good /\ (NeedsId(r) => r.session_id # 0)
      BY Zenon, <2>1, <2>2, <2>16 DEF NeedsId
    <3>2. \A i \in 1..Len(Tail(queue)) : Tail(queue)[i].good /\ (NeedsId(Tail(queue)[i]) => s.id # 0)
      BY Zenon, <2>5, <2>16
    <3> QED
      BY Zenon, <2>8, <2>16, <3>1, <3>2 DEF Named
  <2>17. /\ t.active_request # NULL /\ t.resource_table \subseteq s.resource_table
         /\ t.connection # s.connection => s.connection = "none"
    BY Zenon, <1>2, <2>4, <2>8, <2>9
  <2> QED
    BY Zenon, <1>3, <2>8, <2>10, <2>15, <2>16, <2>17
<1>4. CASE queue # <<>> /\ ~Processed(s, fault)
  <2> DEFINE numbered == [c EXCEPT !.last_cseq = IF c.connection = "none" THEN c.last_cseq
                                                  ELSE c.last_cseq + Len(queue)]
             error == [n \in Ids |-> Response([n |-> n, cseq |-> 0], "ERROR", 0)]
  <2>1. t = ErrorsProcess(numbered, queue, error)
    BY Zenon, <1>2, <1>4 DEF RequestsProcess, ClientSessions
  <2>2. error \in [Ids -> Responses] /\ \A n \in Ids : error[n].status = "ERROR"
    BY LinkAssumption DEF Response, Responses, Ids
  <2>3. /\ numbered \in ClientSessions /\ Quiet(numbered) /\ s.last_cseq <= numbered.last_cseq
        /\ numbered.id = s.id /\ numbered.user = s.user /\ numbered.term_state = s.term_state
        /\ numbered.resource_table = s.resource_table /\ numbered.answers = s.answers
        /\ numbered.connection = c.connection
    <3> HIDE DEF c
    <3> DEFINE last == IF c.connection = "none" THEN c.last_cseq ELSE c.last_cseq + Len(queue)
    <3>1. last \in Nat /\ s.last_cseq <= last
      BY <1>2, <1>a
    <3>0. numbered = [c EXCEPT !.last_cseq = last]
      OBVIOUS
    <3> HIDE DEF numbered, last
    <3>2. numbered \in ClientSessions /\ Quiet(numbered)
      BY Zenon, <1>2, <3>0, <3>1 DEF ClientSessions, Quiet
    <3> QED
      BY Zenon, <1>2, <3>0, <3>1, <3>2 DEF ClientSessions
  <2> HIDE DEF numbered, error, c
  <2>a. /\ t \in ClientSessions
        /\ t.connection = numbered.connection /\ t.last_cseq = numbered.last_cseq
        /\ t.inprogress_request_queue = numbered.inprogress_request_queue
        /\ t.id = numbered.id /\ t.active_request = numbered.active_request
        /\ t.pending_request_queue = numbered.pending_request_queue
        /\ t.request_timer = numbered.request_timer /\ t.term_state = numbered.term_state
        /\ t.sent = numbered.sent /\ t.user = numbered.user
        /\ t.resource_table \subseteq numbered.resource_table
        /\ ErrorsTold(numbered, t, queue, error)
    BY <2>1, <2>2, <2>3, ErrorsProcessFields
  <2>4. /\ t \in ClientSessions
        /\ t.connection = c.connection /\ t.last_cseq = numbered.last_cseq
        /\ t.inprogress_request_queue = numbered.inprogress_request_queue
        /\ t.id = s.id /\ t.active_request = numbered.active_request
        /\ t.pending_request_queue = numbered.pending_request_queue
        /\ t.request_timer = numbered.request_timer /\ t.term_state = s.term_state
        /\ t.sent = numbered.sent /\ t.user = s.user
        /\ t.resource_table \subseteq s.resource_table
        /\ \A n \in Ids : t.answers[n] =
              IF s.term_state # "INPROGRESS" /\ \E i \in 1..Len(queue) : queue[i].n = n
              THEN Append(s.answers[n], error[n]) ELSE s.answers[n]
    BY <2>3, <2>a DEF ErrorsTold
  <2>5. Quiet(t)
    BY Zenon, <2>3, <2>4 DEF Quiet
  <2>6. Waiting(t, k) /\ Watched(t) /\ Moves(s, t)
    BY <2>3, <2>4, <2>5 DEF Quiet, Waiting, Queued, Watched, Moves, ClientSessions
  <2>7. Answered(t, k)
    <3> SUFFICES ASSUME NEW n \in Ids PROVE Told(t.answers[n], n) /\ (n > k => t.answers[n] = <<>>)
      BY Zenon DEF Answered
    <3>1. Told(s.answers[n], n) /\ (n > k => s.answers[n] = <<>>)
      BY Zenon DEF Answered
    <3>2. CASE s.term_state # "INPROGRESS" /\ \E i \in 1..Len(queue) : queue[i].n = n
      <4>1. PICK i \in 1..Len(queue) : queue[i].n = n
        BY Zenon, <3>2
      <4>2. n \in 1..k /\ s.answers[n] = <<>>
        BY Zenon, <3>2, <4>1 DEF Queued, Waits
      <4>3. t.answers[n] = Append(<<>>, error[n])
        BY Zenon, <2>4, <3>2, <4>2
      <4>4. error[n].status = "ERROR"
        BY Zenon, <2>2
      <4>5. t.answers[n] = <<error[n]>>
        BY <4>3
      <4> QED
        BY <4>2, <4>4, <4>5 DEF Told
    <3>3. CASE ~(s.term_state # "INPROGRESS" /\ \E i \in 1..Len(queue) : queue[i].n = n)
      BY Zenon, <2>4, <3>1, <3>3
    <3> QED
      BY Zenon, <3>2, <3>3
  <2>8. (s.resource_table # {} => s.id # 0) => Named(t)
    BY <2>4, <2>5 DEF Named, Quiet
  <2> QED
    BY Zenon, <1>2, <2>4, <2>5, <2>6, <2>7, <2>8 DEF Quiet
<1> QED
  BY Zenon, <1>1, <1>3, <1>4

(* The user and the connection *)
Ended(s) ==
    /\ s.user = "terminated" => s.connection # "open" /\ ~s.request_timer
    /\ s.user \in {"active", "told"} => s.term_state = "NONE"
    /\ s.user = "terminating" => s.term_state # "NONE"
    /\ s.connection = "destroyed" => s.user = "terminated" /\ s.active_request = NULL
    /\ s.connection = "none" => s.active_request = NULL
    /\ s.active_request # NULL => s.active_request.cseq <= s.last_cseq

(* What holds of a session of the client, whose user made k requests *)
ClientOK(s, k) ==
    /\ s \in ClientSessions /\ Answered(s, k) /\ Watched(s) /\ Ended(s)
    /\ s.user # "terminated" => Waiting(s, k)

(* How the connection goes on from s to t *)
Opens(s, t) ==
    \/ t.connection \in {s.connection, "destroyed"}
    \/ s.connection = "none" /\ t.connection = "open"

(* A session without an active request has no timer and no request         *)
(* pending.                                                                *)
LEMMA BetweenRequests ==
    ASSUME NEW s, NEW k \in Nat, ClientOK(s, k), s.active_request = NULL, s.sent = <<>>
    PROVE  Quiet(s)
BY Zenon DEF ClientOK, Watched, Quiet, ClientSessions

(* The end of the termination *)
LEMMA Responding ==
    ASSUME NEW s \in ClientSessions, NEW k \in Nat, request_timeout \in BOOLEAN,
           Answered(s, k), Waiting(s, k), Watched(s), s.user = "terminating", s.term_state # "NONE",
           s.connection \notin {"none", "destroyed"},
           s.active_request # NULL => s.active_request.cseq <= s.last_cseq,
           s.active_request = NULL => Quiet(s),
           s.resource_table = {} => s.active_request = NULL,
           NEW t, t = RespondIfNoneLeft(s)
    PROVE  /\ ClientOK(t, k) /\ (Named(s) => Named(t))
           /\ t.last_cseq = s.last_cseq /\ t.active_request = s.active_request /\ t.sent = s.sent
           /\ t.connection \in {s.connection, "destroyed"}
           /\ t.connection = "destroyed" => s.active_request = NULL
<1>1. CASE s.resource_table # {}
  <2>1. t = s
    BY Zenon, <1>1 DEF RespondIfNoneLeft
  <2> QED
    BY Zenon, <2>1 DEF ClientOK, Ended
<1>2. CASE s.resource_table = {}
  <2>1. t = [s EXCEPT !.handle_table = FALSE, !.term_state = "NONE", !.user = "terminated",
                      !.connection = "destroyed"]
    BY Zenon, <1>2 DEF RespondIfNoneLeft, ConnectionDestroy, TerminateRespond, ClientSessions
  <2>2. /\ t \in ClientSessions /\ t.user = "terminated" /\ t.connection = "destroyed"
        /\ t.answers = s.answers /\ t.active_request = s.active_request /\ t.sent = s.sent
        /\ t.pending_request_queue = s.pending_request_queue /\ t.request_timer = s.request_timer
        /\ t.inprogress_request_queue = s.inprogress_request_queue
        /\ t.last_cseq = s.last_cseq /\ t.id = s.id /\ t.resource_table = s.resource_table
    BY Zenon, <2>1 DEF ClientSessions
  <2>3. Quiet(s) /\ s.active_request = NULL
    BY Zenon, <1>2
  <2>4. Answered(t, k) /\ Watched(t) /\ Ended(t)
    BY Zenon, <2>2, <2>3 DEF Answered, Watched, Ended, Quiet
  <2>5. Named(s) => Named(t)
    BY Zenon, <2>2 DEF Named
  <2> QED
    BY Zenon, <2>2, <2>3, <2>4, <2>5 DEF ClientOK
<1> QED
  BY Zenon, <1>1, <1>2

(* The teardown of what is left *)
LEMMA Ending ==
    ASSUME NEW s \in ClientSessions, NEW k \in Nat, NEW fault, request_timeout \in BOOLEAN,
           Quiet(s), Answered(s, k), s.user = "terminating", s.connection \notin {"none", "destroyed"},
           NEW t, t = RespondIfNoneLeft(ResourcesTeardown(s, fault))
    PROVE  /\ ClientOK(t, k) /\ Moves(s, t) /\ t.connection \in {s.connection, "destroyed"}
           /\ (s.resource_table # {} => s.id # 0) => Named(t)
<1> DEFINE table == s.resource_table
           queue == [i \in DOMAIN InOrder(table) |-> Request(0, "TEARDOWN", InOrder(table)[i], TRUE)]
           e == [s EXCEPT !.term_state = "INPROGRESS"]
           u == RequestsProcess(e, fault, queue)
<1>1. t = RespondIfNoneLeft(u)
  BY Zenon DEF ResourcesTeardown
<1>2. table \in SUBSET Resources
  BY Zenon DEF ClientSessions
<1>3. /\ e \in ClientSessions /\ Quiet(e) /\ e.term_state = "INPROGRESS"
      /\ e.answers = s.answers /\ e.resource_table = table /\ e.id = s.id /\ e.user = s.user
      /\ e.connection = s.connection /\ e.last_cseq = s.last_cseq
  BY Zenon DEF ClientSessions, Quiet
<1> HIDE DEF table, e, u
<1>4. /\ queue \in Seq(Requests)
      /\ \A i \in 1..Len(queue) : /\ queue[i].n = 0 /\ queue[i].method = "TEARDOWN" /\ queue[i].good
                                  /\ queue[i].resource \in table
  BY Zenon, <1>2, TeardownQueue
<1> HIDE DEF queue
<1>5. queue # <<>> => table # {}
  BY <1>4
<1>6. Queued(e, queue, k) /\ Answered(e, k)
  BY Zenon, <1>3, <1>4 DEF Queued, Waits, Answered
<1>7. /\ u \in ClientSessions /\ Answered(u, k) /\ Waiting(u, k) /\ Watched(u) /\ Moves(e, u)
      /\ u.id = e.id /\ u.user = e.user /\ u.term_state = e.term_state
      /\ u.connection # e.connection => e.connection = "none" /\ u.connection = "open"
      /\ u.resource_table \subseteq e.resource_table
      /\ u.active_request = NULL => Quiet(u)
      /\ u.active_request # NULL => queue # <<>> /\ u.resource_table = e.resource_table
      /\ /\ e.resource_table # {} => e.id # 0
         /\ \A i \in 1..Len(queue) : queue[i].good /\ (NeedsId(queue[i]) => e.id # 0)
         => Named(u)
  BY <1>3, <1>4, <1>6, Processing DEF u
<1>8. u.connection = s.connection /\ (u.resource_table = {} => u.active_request = NULL)
  BY Zenon, <1>3, <1>5, <1>7
<1>9. u.active_request # NULL => u.active_request.cseq <= u.last_cseq
  BY Zenon, <1>3, <1>7 DEF Moves, Quiet
<1>10. /\ ClientOK(t, k) /\ (Named(u) => Named(t))
       /\ t.last_cseq = u.last_cseq /\ t.active_request = u.active_request /\ t.sent = u.sent
       /\ t.connection \in {u.connection, "destroyed"}
       /\ t.connection = "destroyed" => u.active_request = NULL
  BY Zenon, <1>1, <1>3, <1>7, <1>8, <1>9, Responding
<1>11. Moves(s, t)
  BY Zenon, <1>3, <1>7, <1>10, Kinds DEF Moves, Quiet
<1>12. (s.resource_table # {} => s.id # 0) => Named(u)
  BY Zenon, <1>3, <1>4, <1>5, <1>7 DEF table
<1> QED
  BY Zenon, <1>8, <1>10, <1>11, <1>12

(* A step that makes no request is a move. *)
LEMMA MovesNot ==
    ASSUME NEW s \in ClientSessions, NEW t, t.last_cseq = s.last_cseq, t.sent = <<>>,
           t.active_request \in {NULL, s.active_request}
    PROVE  Moves(s, t)
<1>1. s.last_cseq <= s.last_cseq
  BY DEF ClientSessions
<1> QED
  BY Zenon, <1>1 DEF Moves

(* rtsp_client_session_message_process of a new request of the user *)
LEMMA MessageProcessOK ==
    ASSUME NEW s, NEW k \in Nat, NEW fault, NEW r \in Requests, request_timeout \in BOOLEAN,
           ClientOK(s, k), s.sent = <<>>, s.user \in {"active", "told"}, k + 1 \in Ids, r.n = k + 1,
           NEW t, t = MessageProcess(s, fault, r)
    PROVE  /\ ClientOK(t, k + 1) /\ Moves(s, t) /\ Opens(s, t)
           /\ s.active_request # NULL => t.active_request = s.active_request /\ t.sent = <<>>
           /\ Named(s) /\ r.good /\ (NeedsId(r) => s.id # 0) => Named(t)
<1>1. /\ s \in ClientSessions /\ Answered(s, k) /\ Watched(s) /\ Ended(s) /\ Waiting(s, k)
      /\ s.term_state = "NONE" /\ s.connection # "destroyed"
  BY Zenon DEF ClientOK, Ended
<1>0. k + 1 \in Nat /\ \A n \in Ids : n \in Nat /\ (n > k + 1 => n > k)
  BY LinkAssumption DEF Ids
<1>2. Answered(s, k + 1) /\ s.answers[r.n] = <<>>
  <2>1. Answered(s, k + 1)
    BY Zenon, <1>0, <1>1 DEF Answered
  <2>2. k + 1 > k
    OBVIOUS
  <2> QED
    BY Zenon, <1>1, <2>1, <2>2 DEF Answered
<1>3. Waits(s, r, k + 1)
  BY <1>1, <1>2 DEF Waits
<1>4. \A q \in Requests : Waits(s, q, k) => Waits(s, q, k + 1) /\ q.n # r.n
  BY <1>1 DEF Waits
<1>5. CASE s.active_request = NULL
  <2>1. t = RequestsProcess(s, fault, <<r>>)
    BY Zenon, <1>5 DEF MessageProcess
  <2>2. Quiet(s)
    BY Zenon, <1>5, BetweenRequests
  <2>3. Queued(s, <<r>>, k + 1)
    BY <1>3 DEF Queued
  <2> DEFINE one == <<r>>
  <2>4. one \in Seq(Requests) /\ Len(one) = 1 /\ one[1] = r
    OBVIOUS
  <2> HIDE DEF one
  <2>5. /\ t \in ClientSessions /\ Answered(t, k + 1) /\ Waiting(t, k + 1) /\ Watched(t) /\ Moves(s, t)
        /\ t.id = s.id /\ t.user = s.user /\ t.term_state = s.term_state
        /\ t.connection # s.connection => s.connection = "none" /\ t.connection = "open"
        /\ t.active_request # NULL => t.connection = "open"
        /\ /\ s.resource_table # {} => s.id # 0
           /\ \A i \in 1..Len(one) : one[i].good /\ (NeedsId(one[i]) => s.id # 0)
           => Named(t)
    <3>1. t = RequestsProcess(s, fault, one) /\ Queued(s, one, k + 1)
      BY Zenon, <2>1, <2>3 DEF one
    <3> QED
      BY <1>0, <1>1, <1>2, <2>2, <2>4, <3>1, Processing
  <2>6. Ended(t) /\ Opens(s, t)
    BY Zenon, <1>1, <1>5, <2>5 DEF Ended, Moves, Opens
  <2>7. Named(s) /\ r.good /\ (NeedsId(r) => s.id # 0) => Named(t)
    BY <2>4, <2>5 DEF Named
  <2> QED
    BY Zenon, <1>5, <2>5, <2>6, <2>7 DEF ClientOK
<1>6. CASE s.active_request # NULL
  <2> DEFINE p == s.pending_request_queue
  <2>1. t = [s EXCEPT !.pending_request_queue = Append(p, r)] /\ p \in Seq(Requests)
    BY Zenon, <1>1, <1>6 DEF MessageProcess, ClientSessions
  <2>2. /\ t \in ClientSessions /\ t.pending_request_queue = Append(p, r)
        /\ t.answers = s.answers /\ t.active_request = s.active_request /\ t.sent = s.sent
        /\ t.request_timer = s.request_timer /\ t.term_state = s.term_state
        /\ t.inprogress_request_queue = s.inprogress_request_queue
        /\ t.last_cseq = s.last_cseq /\ t.id = s.id /\ t.resource_table = s.resource_table
        /\ t.user = s.user /\ t.connection = s.connection
    <3> HIDE DEF p
    <3>1. Append(p, r) \in Seq(Requests)
      BY <2>1
    <3> QED
      BY Zenon, <1>1, <2>1, <3>1 DEF ClientSessions
  <2>3. /\ Len(Append(p, r)) = Len(p) + 1 /\ Append(p, r)[Len(p) + 1] = r
        /\ \A i \in 1..Len(p) : Append(p, r)[i] = p[i] /\ p[i] \in Requests
    BY <2>1
  <2> HIDE DEF p
  <2>4. \A q \in Requests : Waits(t, q, k + 1) <=> Waits(s, q, k + 1)
    BY Zenon, <2>2 DEF Waits
  <2>5. \A i \in 1..Len(p) : Waits(s, p[i], k)
    BY Zenon, <1>1 DEF Waiting, Queued, p
  <2>6. \A i \in 1..Len(p) : Waits(t, p[i], k + 1) /\ p[i].n # r.n
    BY Zenon, <1>4, <2>3, <2>4, <2>5
  <2>7. \A i, j \in 1..Len(p) : p[i].n # 0 /\ p[j].n = p[i].n => i = j
    BY Zenon, <1>1 DEF Waiting, Queued, p
  <2>8. Queued(t, Append(p, r), k + 1)
    <3>1. \A i \in 1..Len(Append(p, r)) : i \in 1..Len(p) \/ i = Len(p) + 1
      BY <2>1, <2>3 DEF p
    <3>2. Waits(t, r, k + 1)
      BY Zenon, <1>3, <2>4
    <3> QED
      BY <2>3, <2>6, <2>7, <3>1, <3>2, ZenonT(40) DEF Queued
  <2>9. s.active_request \in Requests
    BY Zenon, <1>1, <1>6 DEF ClientSessions
  <2>10. Waits(s, s.active_request, k) /\ \A i \in 1..Len(p) : s.active_request.n # 0 => p[i].n # s.active_request.n
    BY Zenon, <1>1, <1>6 DEF Waiting, p
  <2>11. Waits(t, s.active_request, k + 1) /\ s.active_request.n # r.n
    BY Zenon, <1>4, <2>4, <2>9, <2>10
  <2>12. \A i \in 1..Len(Append(p, r)) : s.active_request.n # 0 => Append(p, r)[i].n # s.active_request.n
    BY <2>1, <2>3, <2>10, <2>11 DEF p
  <2>13. Waiting(t, k + 1)
    BY Zenon, <2>2, <2>8, <2>11, <2>12 DEF Waiting
  <2>14. Answered(t, k + 1) /\ Watched(t) /\ Ended(t) /\ Moves(s, t) /\ Opens(s, t)
    BY <1>1, <1>2, <1>6, <2>2 DEF Answered, Watched, Ended, Moves, Opens, ClientSessions
  <2>15. ASSUME Named(s), r.good, NeedsId(r) => s.id # 0 PROVE Named(t)
    <3>1. \A i \in 1..Len(p) : p[i].good /\ (NeedsId(p[i]) => s.id # 0)
      BY Zenon, <2>15 DEF Named, p
    <3>2. \A i \in 1..Len(Append(p, r)) : Append(p, r)[i].good /\ (NeedsId(Append(p, r)[i]) => s.id # 0)
      BY <2>1, <2>3, <2>15, <3>1 DEF p
    <3> QED
      BY Zenon, <2>2, <2>15, <3>2 DEF Named
  <2> QED
    BY Zenon, <2>2, <2>13, <2>14, <2>15 DEF ClientOK
<1> QED
  BY Zenon, <1>5, <1>6

(* rtsp_client_session_terminate_process *)
LEMMA TerminateProcessOK ==
    ASSUME NEW s, NEW k \in Nat, NEW fault, request_timeout \in BOOLEAN,
           ClientOK(s, k), s.sent = <<>>, s.user \in {"active", "told"},
           NEW t, t = TerminateProcess([s EXCEPT !.user = "terminating"], fault)
    PROVE  /\ ClientOK(t, k) /\ Moves(s, t) /\ Opens(s, t) /\ (Named(s) => Named(t))
           /\ s.active_request # NULL => t.active_request = s.active_request /\ t.sent = <<>>
<1> DEFINE e == [s EXCEPT !.user = "terminating"]
<1>1. /\ s \in ClientSessions /\ Answered(s, k) /\ Watched(s) /\ Ended(s) /\ Waiting(s, k)
      /\ s.term_state = "NONE" /\ s.connection # "destroyed"
  BY Zenon DEF ClientOK, Ended
<1>2. /\ e \in ClientSessions /\ e.user = "terminating" /\ e.connection = s.connection
      /\ e.answers = s.answers /\ e.active_request = s.active_request /\ e.sent = s.sent
      /\ e.resource_table = s.resource_table /\ e.last_cseq = s.last_cseq /\ e.id = s.id
      /\ e.pending_request_queue = s.pending_request_queue /\ e.request_timer = s.request_timer
      /\ e.inprogress_request_queue = s.inprogress_request_queue /\ e.term_state = s.term_state
  BY Zenon, <1>1 DEF ClientSessions
<1>3. t = TerminateProcess(e, fault)
  OBVIOUS
<1> HIDE DEF e
<1>4. CASE s.connection = "none"
  <2>1. t = [e EXCEPT !.user = "terminated"]
    BY Zenon, <1>2, <1>3, <1>4 DEF TerminateProcess
  <2>2. /\ t \in ClientSessions /\ t.user = "terminated" /\ t.connection = s.connection
        /\ t.answers = s.answers /\ t.active_request = s.active_request /\ t.sent = s.sent
        /\ t.resource_table = s.resource_table /\ t.last_cseq = s.last_cseq /\ t.id = s.id
        /\ t.pending_request_queue = s.pending_request_queue /\ t.request_timer = s.request_timer
        /\ t.inprogress_request_queue = s.inprogress_request_queue
    BY Zenon, <1>2, <2>1 DEF ClientSessions
  <2>3. Quiet(s)
    BY Zenon, <1>1, <1>4, BetweenRequests DEF Ended
  <2> QED
    <3>1. Answered(t, k) /\ Watched(t) /\ (Named(s) => Named(t)) /\ Opens(s, t)
      BY Zenon, <1>1, <2>2 DEF Answered, Watched, Named, Opens
    <3>2. Ended(t)
      BY Zenon, <1>4, <2>2, <2>3 DEF Ended, Quiet
    <3>3. Moves(s, t)
      BY Zenon, <1>1, <2>2, MovesNot
    <3> QED
      BY Zenon, <2>2, <3>1, <3>2, <3>3 DEF ClientOK
<1>5. CASE s.connection # "none" /\ s.active_request # NULL
  <2>1. t = [e EXCEPT !.term_state = "REQUESTED"]
    BY Zenon, <1>2, <1>3, <1>5 DEF TerminateProcess
  <2>2. /\ t \in ClientSessions /\ t.user = "terminating" /\ t.connection = s.connection
        /\ t.answers = s.answers /\ t.active_request = s.active_request /\ t.sent = s.sent
        /\ t.resource_table = s.resource_table /\ t.last_cseq = s.last_cseq /\ t.id = s.id
        /\ t.pending_request_queue = s.pending_request_queue /\ t.request_timer = s.request_timer
        /\ t.inprogress_request_queue = s.inprogress_request_queue /\ t.term_state = "REQUESTED"
    BY ZenonT(40), <1>2, <2>1 DEF ClientSessions
  <2>3. \A q : Waits(t, q, k) <=> Waits(s, q, k)
    BY Zenon, <1>1, <2>2 DEF Waits
  <2>4. Waiting(t, k)
    BY <1>1, <2>2, <2>3 DEF Waiting, Queued
  <2>5. Answered(t, k) /\ Watched(t) /\ Ended(t) /\ Moves(s, t) /\ Opens(s, t)
    <3>1. Answered(t, k) /\ Watched(t) /\ Opens(s, t)
      BY Zenon, <1>1, <2>2 DEF Answered, Watched, Opens
    <3>2. Ended(t)
      BY Zenon, <1>1, <1>5, <2>2 DEF Ended
    <3>3. Moves(s, t)
      BY Zenon, <1>1, <2>2, MovesNot
    <3> QED
      BY Zenon, <3>1, <3>2, <3>3
  <2>6. Named(s) => Named(t)
    BY Zenon, <2>2 DEF Named
  <2> QED
    BY Zenon, <2>2, <2>4, <2>5, <2>6 DEF ClientOK
<1>6. CASE s.connection # "none" /\ s.active_request = NULL
  <2>1. t = RespondIfNoneLeft(ResourcesTeardown(e, fault))
    BY Zenon, <1>2, <1>3, <1>6 DEF TerminateProcess
  <2>2. Quiet(e) /\ Answered(e, k)
    BY Zenon, <1>1, <1>2, <1>6, BetweenRequests DEF Quiet, Answered
  <2>3. /\ ClientOK(t, k) /\ Moves(e, t) /\ t.connection \in {e.connection, "destroyed"}
        /\ (e.resource_table # {} => e.id # 0) => Named(t)
    BY <1>1, <1>2, <1>6, <2>1, <2>2, Ending
  <2> QED
    BY Zenon, <1>2, <1>6, <2>3 DEF Moves, Opens, Named
<1> QED
  BY Zenon, <1>4, <1>5, <1>6

(* rtsp_client_session_response_process changes the tables, the id and the *)
(* answers to the request.                                                 *)
ResponseTold(s, t, r, response) ==
    \A n \in Ids : t.answers[n] = IF s.term_state # "INPROGRESS" /\ n = r.n
                                  THEN Append(s.answers[n], response) ELSE s.answers[n]

(* What rtsp_client_session_response_process leaves alone in the session. *)
LEMMA ResponseProcessFields ==
    ASSUME NEW s \in ClientSessions, NEW r \in Requests, NEW response \in Responses,
           NEW t, t = ResponseProcess(s, r, response)
    PROVE  /\ t \in ClientSessions
           /\ t.connection = s.connection /\ t.handle_table = s.handle_table
           /\ t.inprogress_request_queue = s.inprogress_request_queue
           /\ t.last_cseq = s.last_cseq /\ t.active_request = s.active_request
           /\ t.pending_request_queue = s.pending_request_queue
           /\ t.request_timer = s.request_timer /\ t.term_state = s.term_state
           /\ t.sent = s.sent /\ t.user = s.user
           /\ ResponseTold(s, t, r, response)
           /\ /\ response.status = "OK" /\ r.method = "SETUP" => response.session_id # 0
              /\ s.resource_table # {} => s.id # 0
              => (t.resource_table # {} => t.id # 0) /\ (s.id # 0 => t.id # 0)
<1> DEFINE setup == r.method = "SETUP" /\ response.status = "OK"
           added == [s EXCEPT !.resource_table = s.resource_table \cup {r.resource},
                              !.session_table = s.session_table \/ s.resource_table = {},
                              !.id = IF s.resource_table = {} THEN response.session_id ELSE s.id]
           left == s.resource_table \ {r.resource}
           torn == [s EXCEPT !.resource_table = left, !.session_table = s.session_table /\ left # {}]
           done == IF setup THEN added ELSE IF r.method = "TEARDOWN" THEN torn ELSE s
<1>1. t = IF s.term_state = "INPROGRESS" THEN done
          ELSE [done EXCEPT !.answers[r.n] = Append(@, response)]
  BY Zenon DEF ResponseProcess, ClientSessions
<1>2. PICK table \in SUBSET Resources, flag \in BOOLEAN, id \in Nat :
         /\ done = [s EXCEPT !.resource_table = table, !.session_table = flag, !.id = id]
         /\ /\ response.status = "OK" /\ r.method = "SETUP" => response.session_id # 0
            /\ s.resource_table # {} => s.id # 0
            => (table # {} => id # 0) /\ (s.id # 0 => id # 0)
  <2>0. /\ s.resource_table \in SUBSET Resources /\ s.session_table \in BOOLEAN /\ s.id \in Nat
        /\ r.resource \in Resources /\ response.session_id \in Nat
    BY Zenon DEF ClientSessions, Requests, Responses
  <2>1. CASE setup
    <3> DEFINE table == s.resource_table \cup {r.resource}
               flag == s.session_table \/ s.resource_table = {}
               id == IF s.resource_table = {} THEN response.session_id ELSE s.id
    <3>1. table \in SUBSET Resources /\ flag \in BOOLEAN /\ id \in Nat
      BY Zenon, <2>0
    <3>2. done = [s EXCEPT !.resource_table = table, !.session_table = flag, !.id = id]
      BY Zenon, <2>1
    <3>3. /\ response.status = "OK" /\ r.method = "SETUP" => response.session_id # 0
          /\ s.resource_table # {} => s.id # 0
          => id # 0
      BY Zenon, <2>1
    <3> HIDE DEF table, flag, id, done
    <3> QED
      BY Zenon, <3>1, <3>2, <3>3
  <2>2. CASE ~setup /\ r.method = "TEARDOWN"
    <3> DEFINE flag == s.session_table /\ left # {}
    <3>1. left \in SUBSET Resources /\ flag \in BOOLEAN
      BY Zenon, <2>0
    <3>2. done = [s EXCEPT !.resource_table = left, !.session_table = flag, !.id = s.id]
      BY Zenon, <2>2 DEF ClientSessions
    <3>3. left # {} => s.resource_table # {}
      OBVIOUS
    <3> HIDE DEF left, flag, done
    <3> QED
      BY Zenon, <2>0, <3>1, <3>2, <3>3
  <2>3. CASE ~setup /\ r.method # "TEARDOWN"
    <3>1. done = s
      BY Zenon, <2>3
    <3>2. s = [s EXCEPT !.resource_table = s.resource_table, !.session_table = s.session_table, !.id = s.id]
      BY Zenon DEF ClientSessions
    <3> HIDE DEF done
    <3> QED
      BY Zenon, <2>0, <3>1, <3>2
  <2> QED
    BY Zenon, <2>1, <2>2, <2>3
<1> DEFINE answers == IF s.term_state = "INPROGRESS" THEN s.answers
                      ELSE [s.answers EXCEPT ![r.n] = Append(@, response)]
<1>0. s.answers \in [Ids -> Seq(Responses)]
  BY Zenon DEF ClientSessions
<1>3. answers \in [Ids -> Seq(Responses)]
  <2>1. CASE r.n \in Ids
    <3>1. Append(s.answers[r.n], response) \in Seq(Responses)
      BY <1>0, <2>1
    <3> QED
      BY Zenon, <1>0, <2>1, <3>1
  <2>2. CASE r.n \notin Ids
    <3>1. [s.answers EXCEPT ![r.n] = Append(@, response)] = s.answers
      BY Zenon, <1>0, <2>2
    <3> QED
      BY Zenon, <1>0, <3>1
  <2> QED
    BY Zenon, <2>1, <2>2
<1> HIDE DEF done
<1>4. t = [s EXCEPT !.resource_table = table, !.session_table = flag, !.id = id, !.answers = answers]
  <2>1. done.answers = s.answers
    BY Zenon, <1>2 DEF ClientSessions
  <2>2. t = [done EXCEPT !.answers = answers]
    <3>1. CASE s.term_state = "INPROGRESS"
      BY Zenon, <1>1, <1>2, <2>1, <3>1 DEF ClientSessions
    <3>2. CASE s.term_state # "INPROGRESS"
      BY Zenon, <1>1, <1>2, <2>1, <3>2 DEF ClientSessions
    <3> QED
      BY Zenon, <3>1, <3>2
  <2> QED
    BY Zenon, <1>2, <2>2 DEF ClientSessions
<1>5. \A n \in Ids : answers[n] = IF s.term_state # "INPROGRESS" /\ n = r.n
                                  THEN Append(s.answers[n], response) ELSE s.answers[n]
  BY Zenon, <1>0
<1> HIDE DEF answers
<1>6. t \in ClientSessions /\ t.answers = answers /\ t.resource_table = table /\ t.id = id
  BY ZenonT(40), <1>3, <1>4 DEF ClientSessions
<1>7. ResponseTold(s, t, r, response)
  BY Zenon, <1>5, <1>6 DEF ResponseTold
<1>8. /\ t.connection = s.connection /\ t.handle_table = s.handle_table
      /\ t.inprogress_request_queue = s.inprogress_request_queue
      /\ t.last_cseq = s.last_cseq /\ t.active_request = s.active_request
      /\ t.pending_request_queue = s.pending_request_queue
      /\ t.request_timer = s.request_timer /\ t.term_state = s.term_state
      /\ t.sent = s.sent /\ t.user = s.user
  BY Zenon, <1>4 DEF ClientSessions
<1> QED
  BY Zenon, <1>2, <1>6, <1>7, <1>8

(* Two moves, of which the first ends without an active request, are one. *)
LEMMA MovesOn ==
    ASSUME NEW s \in ClientSessions, NEW u \in ClientSessions, NEW t, Quiet(u), Moves(s, u), Moves(u, t),
           t.active_request # NULL => t.active_request \in Requests, t.last_cseq \in Nat
    PROVE  Moves(s, t)
<1>1. s.last_cseq \in Nat /\ u.last_cseq \in Nat /\ s.last_cseq <= u.last_cseq /\ u.last_cseq <= t.last_cseq
  BY Zenon DEF Moves, ClientSessions
<1>2. CASE t.sent = <<>> /\ t.active_request \in {NULL, u.active_request}
  BY <1>1, <1>2 DEF Moves, Quiet
<1>3. CASE /\ t.active_request \in Requests /\ t.sent = <<t.active_request>>
           /\ u.last_cseq < t.active_request.cseq /\ t.active_request.cseq <= t.last_cseq
           /\ t.connection = "open"
  <2>1. t.active_request.cseq \in Nat
    BY Zenon, <1>3 DEF Requests
  <2> QED
    BY <1>1, <1>3, <2>1 DEF Moves
<1> QED
  BY Zenon, <1>2, <1>3 DEF Moves

(* rtsp_client_message_handler: of a response of the server, or of one the *)
(* client makes for a request that it cancels                              *)
LEMMA MessageHandlerOK ==
    ASSUME NEW s, NEW k \in Nat, k <= MaxRequests, NEW fault, NEW response \in Responses, request_timeout \in BOOLEAN,
           ClientOK(s, k), s.sent = <<>>, s.user # "terminated",
           RequestPop(s, response) /\ response.status = "OK" => response.n = s.active_request.n,
           NEW t, t = MessageHandler(s, fault, response)
    PROVE  /\ ClientOK(t, k) /\ Moves(s, t) /\ Opens(s, t)
           /\ /\ Named(s)
              /\ RequestPop(s, response) /\ response.status = "OK" /\ s.active_request.method = "SETUP"
                 => response.session_id # 0
              => Named(t)
<1>1. /\ s \in ClientSessions /\ Answered(s, k) /\ Watched(s) /\ Ended(s) /\ Waiting(s, k)
  BY Zenon DEF ClientOK
<1>2. CASE ~RequestPop(s, response)
  <2>1. t = s
    BY Zenon, <1>2 DEF MessageHandler
  <2> QED
    BY Zenon, <1>1, <2>1, MovesNot DEF Opens
<1>3. CASE RequestPop(s, response)
  <2> DEFINE a == s.active_request
             p == s.pending_request_queue
             popped == [s EXCEPT !.active_request = NULL, !.inprogress_request_queue = FALSE,
                                 !.request_timer = FALSE]
             done == ResponseProcess(popped, a, response)
             e == [done EXCEPT !.pending_request_queue = <<>>]
             u == RequestsProcess(e, fault, done.pending_request_queue)
  <2>1. t = IF u.active_request # NULL \/ u.term_state = "NONE" THEN u
            ELSE IF u.term_state = "REQUESTED" THEN RespondIfNoneLeft(ResourcesTeardown(u, fault))
            ELSE RespondIfNoneLeft(u)
    BY Zenon, <1>3 DEF MessageHandler, PendingRequestsProcess
  <2>2. a \in Requests /\ p \in Seq(Requests) /\ a # NULL
    BY Zenon, <1>1, <1>3 DEF RequestPop, ClientSessions
  <2>3. /\ popped \in ClientSessions /\ popped.pending_request_queue = p
        /\ popped.answers = s.answers /\ popped.active_request = NULL /\ popped.sent = <<>>
        /\ ~popped.request_timer /\ ~popped.inprogress_request_queue /\ popped.term_state = s.term_state
        /\ popped.last_cseq = s.last_cseq /\ popped.id = s.id /\ popped.resource_table = s.resource_table
        /\ popped.user = s.user /\ popped.connection = s.connection
    BY Zenon, <1>1, <2>2 DEF ClientSessions
  <2> HIDE DEF popped, done, e, u, a, p
  <2>4. /\ done \in ClientSessions
        /\ done.connection = popped.connection
        /\ done.inprogress_request_queue = popped.inprogress_request_queue
        /\ done.last_cseq = popped.last_cseq /\ done.active_request = popped.active_request
        /\ done.pending_request_queue = popped.pending_request_queue
        /\ done.request_timer = popped.request_timer /\ done.term_state = popped.term_state
        /\ done.sent = popped.sent /\ done.user = popped.user
        /\ ResponseTold(popped, done, a, response)
        /\ /\ response.status = "OK" /\ a.method = "SETUP" => response.session_id # 0
           /\ popped.resource_table # {} => popped.id # 0
           => (done.resource_table # {} => done.id # 0) /\ (popped.id # 0 => done.id # 0)
    BY <2>2, <2>3, ResponseProcessFields DEF done
  <2>5. /\ e \in ClientSessions /\ Quiet(e) /\ e.answers = done.answers /\ e.term_state = s.term_state
        /\ e.user = s.user /\ e.connection = s.connection /\ e.last_cseq = s.last_cseq
        /\ e.id = done.id /\ e.resource_table = done.resource_table
    <3>1. e = [done EXCEPT !.pending_request_queue = <<>>] /\ <<>> \in Seq(Requests)
      BY DEF e
    <3>2. e \in ClientSessions
      BY Zenon, <2>4, <3>1 DEF ClientSessions
    <3>3. /\ e.pending_request_queue = <<>> /\ e.answers = done.answers /\ e.term_state = done.term_state
          /\ e.user = done.user /\ e.connection = done.connection /\ e.last_cseq = done.last_cseq
          /\ e.id = done.id /\ e.resource_table = done.resource_table
          /\ e.active_request = done.active_request /\ e.sent = done.sent
          /\ e.request_timer = done.request_timer
          /\ e.inprogress_request_queue = done.inprogress_request_queue
      BY Zenon, <2>4, <3>1 DEF ClientSessions
    <3> QED
      BY Zenon, <2>3, <2>4, <3>2, <3>3 DEF Quiet
  <2>6. \A n \in Ids : e.answers[n] = IF s.term_state # "INPROGRESS" /\ n = a.n
                                      THEN Append(s.answers[n], response) ELSE s.answers[n]
    BY <2>3, <2>4, <2>5 DEF ResponseTold
  <2>7. Waits(s, a, k)
    BY Zenon, <1>1, <2>2 DEF Waiting, a
  <2>8. Answered(e, k)
    <3> SUFFICES ASSUME NEW n \in Ids PROVE Told(e.answers[n], n) /\ (n > k => e.answers[n] = <<>>)
      BY Zenon DEF Answered
    <3>1. Told(s.answers[n], n) /\ (n > k => s.answers[n] = <<>>)
      BY Zenon, <1>1 DEF Answered
    <3>2. CASE s.term_state # "INPROGRESS" /\ n = a.n
      <4>1. n \in 1..k /\ s.answers[n] = <<>>
        BY Zenon, <2>7, <3>2 DEF Waits
      <4>2. e.answers[n] = <<response>>
        <5>1. e.answers[n] = Append(<<>>, response)
          BY Zenon, <2>6, <3>2, <4>1
        <5> QED
          BY <5>1
      <4>3. response.status = "OK" => response.n = n
        BY Zenon, <1>3, <3>2 DEF a
      <4> QED
        BY <4>1, <4>2, <4>3 DEF Told
    <3>3. CASE ~(s.term_state # "INPROGRESS" /\ n = a.n)
      BY Zenon, <2>6, <3>1, <3>3
    <3> QED
      BY Zenon, <3>2, <3>3
  <2>9. Queued(e, p, k)
    <3>1. /\ \A i \in 1..Len(p) : Waits(s, p[i], k) /\ (a.n # 0 => p[i].n # a.n)
          /\ \A i, j \in 1..Len(p) : p[i].n # 0 /\ p[j].n = p[i].n => i = j
      BY Zenon, <1>1, <2>2 DEF Waiting, Queued, a, p
    <3>2. ASSUME NEW i \in 1..Len(p) PROVE Waits(e, p[i], k)
      <4>1. Waits(s, p[i], k) /\ (a.n # 0 => p[i].n # a.n)
        BY Zenon, <3>1
      <4>2. CASE s.term_state = "INPROGRESS"
        BY Zenon, <2>5, <4>1, <4>2 DEF Waits
      <4>3. CASE s.term_state # "INPROGRESS"
        <5>1. p[i].n \in 1..k /\ s.answers[p[i].n] = <<>> /\ a.n \in 1..k
          BY Zenon, <2>7, <4>1, <4>3 DEF Waits
        <5>0. p[i].n \in Ids
          BY SMTT(40), <4>1, <4>3, LinkAssumption DEF Waits, Ids
        <5>2. p[i].n # a.n
          BY <4>1, <5>1
        <5>3. p[i].n \in Ids => e.answers[p[i].n] = s.answers[p[i].n]
          BY Zenon, <2>6, <5>2
        <5>4. e.answers[p[i].n] = <<>>
          BY Zenon, <5>0, <5>1, <5>3
        <5> QED
          BY Zenon, <2>5, <4>3, <5>1, <5>4 DEF Waits
      <4> QED
        BY Zenon, <4>2, <4>3
    <3> QED
      BY Zenon, <3>1, <3>2 DEF Queued
  <2>10. u = RequestsProcess(e, fault, p)
    BY Zenon, <2>3, <2>4 DEF u
  <2>11. /\ u \in ClientSessions /\ Answered(u, k) /\ Waiting(u, k) /\ Watched(u) /\ Moves(e, u)
         /\ u.id = e.id /\ u.user = e.user /\ u.term_state = e.term_state
         /\ u.connection # e.connection => e.connection = "none" /\ u.connection = "open"
         /\ u.resource_table \subseteq e.resource_table
         /\ u.active_request = NULL => Quiet(u)
         /\ u.active_request # NULL => u.connection = "open"
         /\ /\ e.resource_table # {} => e.id # 0
            /\ \A i \in 1..Len(p) : p[i].good /\ (NeedsId(p[i]) => e.id # 0)
            => Named(u)
    BY <2>2, <2>5, <2>8, <2>9, <2>10, Processing
  <2>12. s.connection # "none" /\ s.connection # "destroyed"
    BY Zenon, <1>1, <1>3 DEF Ended, RequestPop
  <2>13. u.active_request # NULL => u.active_request.cseq <= u.last_cseq
    BY Zenon, <2>5, <2>11 DEF Moves, Quiet
  <2>14. Ended(u)
    BY Zenon, <1>1, <2>5, <2>11, <2>12, <2>13 DEF Ended
  <2>15. Moves(s, u) /\ u.connection = s.connection
    BY Zenon, <2>5, <2>11, <2>12 DEF Moves, Quiet
  <2>16. /\ Named(s)
         /\ response.status = "OK" /\ a.method = "SETUP" => response.session_id # 0
         => Named(u)
    <3> SUFFICES ASSUME Named(s), response.status = "OK" /\ a.method = "SETUP" => response.session_id # 0
                 PROVE  Named(u)
      OBVIOUS
    <3>1. s.resource_table # {} => s.id # 0
      BY Zenon DEF Named
    <3>2. \A i \in 1..Len(p) : p[i].good /\ (NeedsId(p[i]) => s.id # 0)
      BY Zenon DEF Named, p
    <3>3. (e.resource_table # {} => e.id # 0) /\ (s.id # 0 => e.id # 0)
      BY Zenon, <2>3, <2>4, <2>5, <3>1
    <3>4. \A i \in 1..Len(p) : p[i].good /\ (NeedsId(p[i]) => e.id # 0)
      BY Zenon, <3>2, <3>3
    <3> QED
      BY Zenon, <2>11, <3>3, <3>4
  <2>17. CASE u.active_request # NULL \/ u.term_state = "NONE"
    <3>1. t = u
      BY Zenon, <2>1, <2>17
    <3> QED
      BY Zenon, <1>3, <2>11, <2>14, <2>15, <2>16, <3>1 DEF ClientOK, Opens, a
  <2>18. CASE u.active_request = NULL /\ u.term_state # "NONE"
    <3>1. u.user = "terminating" /\ Quiet(u)
      BY Zenon, <1>1, <2>5, <2>11, <2>18 DEF Ended, ClientSessions
    <3>2. CASE u.term_state = "REQUESTED"
      <4>1. t = RespondIfNoneLeft(ResourcesTeardown(u, fault))
        BY Zenon, <2>1, <2>18, <3>2
      <4>2. /\ ClientOK(t, k) /\ Moves(u, t) /\ t.connection \in {u.connection, "destroyed"}
            /\ (u.resource_table # {} => u.id # 0) => Named(t)
        BY <2>11, <2>12, <2>15, <3>1, <4>1, Ending
      <4>3. Moves(s, t)
        <5>1. t \in ClientSessions
          BY Zenon, <4>2 DEF ClientOK
        <5>2. t.last_cseq \in Nat /\ (t.active_request # NULL => t.active_request \in Requests)
          BY Zenon, <5>1 DEF ClientSessions
        <5> QED
          BY Zenon, <1>1, <2>11, <2>15, <3>1, <4>2, <5>2, MovesOn
      <4>4. Named(u) => Named(t)
        BY Zenon, <4>2 DEF Named
      <4> QED
        BY Zenon, <1>3, <2>15, <2>16, <4>2, <4>3, <4>4 DEF Opens, a
    <3>3. CASE u.term_state # "REQUESTED"
      <4>1. t = RespondIfNoneLeft(u)
        BY Zenon, <2>1, <2>18, <3>3
      <4>2. /\ ClientOK(t, k) /\ (Named(u) => Named(t))
            /\ t.last_cseq = u.last_cseq /\ t.active_request = u.active_request /\ t.sent = u.sent
            /\ t.connection \in {u.connection, "destroyed"}
        BY <2>11, <2>12, <2>13, <2>15, <2>18, <3>1, <4>1, Responding
      <4>3. Moves(s, t)
        BY Zenon, <2>15, <2>18, <3>1, <4>2 DEF Moves, Quiet
      <4> QED
        BY Zenon, <1>3, <2>15, <2>16, <4>2, <4>3 DEF Opens, a
    <3> QED
      BY Zenon, <3>2, <3>3
  <2> QED
    BY Zenon, <2>17, <2>18
<1> QED
  BY Zenon, <1>2, <1>3

(* rtsp_client_request_cancel *)
LEMMA RequestCancelOK ==
    ASSUME NEW s, NEW k \in Nat, k <= MaxRequests, NEW fault, NEW status \in {"ERROR", "TIMEOUT"},
           request_timeout \in BOOLEAN, ClientOK(s, k), s.sent = <<>>, s.user # "terminated",
           NEW t, t = RequestCancel(s, fault, status)
    PROVE  ClientOK(t, k) /\ Moves(s, t) /\ Opens(s, t)
<1>1. CASE s.active_request = NULL
  <2>1. t = s
    BY Zenon, <1>1 DEF RequestCancel
  <2> QED
    BY Zenon, <2>1, MovesNot DEF Opens, ClientOK
<1>2. CASE s.active_request # NULL
  <2> DEFINE response == Response(s.active_request, status, 0)
  <2>1. t = MessageHandler(s, fault, response)
    BY Zenon, <1>2 DEF RequestCancel
  <2>2. s.active_request \in Requests
    BY Zenon, <1>2 DEF ClientOK, ClientSessions
  <2>3. response \in Responses /\ response.status = status
    BY <2>2, ResponseType
  <2> HIDE DEF response
  <2>4. response.status # "OK"
    BY Zenon, <2>3
  <2> QED
    BY Zenon, <2>1, <2>3, <2>4, MessageHandlerOK
<1> QED
  BY Zenon, <1>1, <1>2

(* rtsp_client_on_disconnect: its request is taken off the queue, so that  *)
(* the cancelling of it finds none; the pending ones are answered, if the  *)
(* session is one of the connection.                                       *)
LEMMA OnDisconnectOK ==
    ASSUME NEW s, NEW k \in Nat, k <= MaxRequests, request_timeout \in BOOLEAN,
           ClientOK(s, k), s.sent = <<>>, s.connection = "open",
           NEW t, t = OnDisconnect(s)
    PROVE  ClientOK(t, k) /\ Moves(s, t) /\ t.sent = <<>>
<1>1. /\ s \in ClientSessions /\ Answered(s, k) /\ Watched(s) /\ Ended(s) /\ Waiting(s, k)
      /\ s.user # "terminated"
  BY Zenon DEF ClientOK, Ended
<1> DEFINE a == s.active_request
           p == s.pending_request_queue
           closed == [s EXCEPT !.connection = "closed"]
           off == [closed EXCEPT !.inprogress_request_queue = FALSE]
           c == IF ~s.inprogress_request_queue THEN closed
                ELSE [RequestCancel(off, "send", "ERROR") EXCEPT !.request_timer = FALSE]
<1>2. t = IF c.handle_table /\ c.session_table THEN TerminateRaise(c) ELSE c
  BY Zenon DEF OnDisconnect
<1>3. RequestCancel(off, "send", "ERROR") = off
  <2>1. ~off.inprogress_request_queue
    BY Zenon, <1>1 DEF ClientSessions
  <2> QED
    BY Zenon, <2>1 DEF RequestCancel, MessageHandler, RequestPop
<1>4. c = [s EXCEPT !.connection = "closed", !.inprogress_request_queue = FALSE, !.request_timer = FALSE]
  BY Zenon, <1>1, <1>3 DEF Watched, ClientSessions
<1> HIDE DEF c
<1>5. /\ c \in ClientSessions /\ c.connection = "closed" /\ c.answers = s.answers
      /\ c.active_request = a /\ c.pending_request_queue = p /\ c.sent = <<>>
      /\ ~c.request_timer /\ ~c.inprogress_request_queue /\ c.term_state = s.term_state
      /\ c.last_cseq = s.last_cseq /\ c.user = s.user
  BY Zenon, <1>1, <1>4 DEF ClientSessions
<1>6. /\ p \in Seq(Requests) /\ a \in Requests \cup {NULL}
      /\ p # <<>> => a \in Requests
  BY Zenon, <1>1 DEF Watched, ClientSessions
<1> HIDE DEF a, p
<1>7. a # NULL => Waits(s, a, k) /\ \A i \in 1..Len(p) : a.n # 0 => p[i].n # a.n
  BY Zenon, <1>1 DEF Waiting, a, p
<1>8. \A r : Waits(c, r, k) <=> Waits(s, r, k)
  BY Zenon, <1>5 DEF Waits
<1>9. CASE ~(c.handle_table /\ c.session_table)
  <2>1. t = c
    BY Zenon, <1>2, <1>9
  <2>2. Answered(c, k) /\ Watched(c)
    BY Zenon, <1>1, <1>5 DEF Answered, Watched, a, p
  <2>3. Waiting(c, k)
    BY <1>1, <1>5, <1>8 DEF Waiting, Queued, a, p
  <2>4. Ended(c) /\ Moves(s, c)
    BY Zenon, <1>1, <1>5, MovesNot DEF Ended, a
  <2> QED
    BY Zenon, <1>5, <2>1, <2>2, <2>3, <2>4 DEF ClientOK
<1>10. CASE c.handle_table /\ c.session_table
  <2> DEFINE error == [n \in Ids |-> Response(a, "ERROR", 0)]
             e == [c EXCEPT !.pending_request_queue = <<>>]
             x == ErrorsProcess(e, p, error)
  <2>1. t = IF s.term_state = "NONE" THEN [x EXCEPT !.user = IF @ = "active" THEN "told" ELSE @]
            ELSE TerminateRespond(x)
    BY Zenon, <1>2, <1>5, <1>10 DEF TerminateRaise
  <2>2. p # <<>> => error \in [Ids -> Responses] /\ \A n \in Ids : error[n].status = "ERROR"
    BY <1>6, ResponseType
  <2>3. /\ e \in ClientSessions /\ e.connection = "closed" /\ e.answers = s.answers
        /\ e.active_request = a /\ e.pending_request_queue = <<>> /\ e.sent = <<>>
        /\ ~e.request_timer /\ ~e.inprogress_request_queue /\ e.term_state = s.term_state
        /\ e.last_cseq = s.last_cseq /\ e.user = s.user
    <3>1. <<>> \in Seq(Requests)
      OBVIOUS
    <3> QED
      BY Zenon, <1>5, <3>1 DEF ClientSessions
  <2> HIDE DEF e, error, x
  <2>4. /\ x \in ClientSessions
        /\ x.connection = e.connection
        /\ x.inprogress_request_queue = e.inprogress_request_queue
        /\ x.last_cseq = e.last_cseq /\ x.active_request = e.active_request
        /\ x.pending_request_queue = e.pending_request_queue
        /\ x.request_timer = e.request_timer /\ x.term_state = e.term_state
        /\ x.sent = e.sent /\ x.user = e.user
        /\ ErrorsTold(e, x, p, error)
    BY <1>6, <2>2, <2>3, ErrorsProcessFields DEF x
  <2>5. \A n \in Ids : x.answers[n] =
           IF s.term_state # "INPROGRESS" /\ \E i \in 1..Len(p) : p[i].n = n
           THEN Append(s.answers[n], error[n]) ELSE s.answers[n]
    BY <2>3, <2>4 DEF ErrorsTold
  <2>6. Answered(x, k)
    <3> SUFFICES ASSUME NEW n \in Ids PROVE Told(x.answers[n], n) /\ (n > k => x.answers[n] = <<>>)
      BY Zenon DEF Answered
    <3>1. Told(s.answers[n], n) /\ (n > k => s.answers[n] = <<>>)
      BY Zenon, <1>1 DEF Answered
    <3>2. CASE s.term_state # "INPROGRESS" /\ \E i \in 1..Len(p) : p[i].n = n
      <4>1. PICK i \in 1..Len(p) : p[i].n = n
        BY Zenon, <3>2
      <4>2. n \in 1..k /\ s.answers[n] = <<>>
        BY Zenon, <1>1, <3>2, <4>1 DEF Waiting, Queued, Waits, p
      <4>3. x.answers[n] = Append(<<>>, error[n])
        BY Zenon, <2>5, <3>2, <4>2
      <4>4. error[n].status = "ERROR"
        BY <1>6, <2>2, <4>1
      <4>5. x.answers[n] = <<error[n]>>
        BY <4>3
      <4> QED
        BY <4>2, <4>4, <4>5 DEF Told
    <3>3. CASE ~(s.term_state # "INPROGRESS" /\ \E i \in 1..Len(p) : p[i].n = n)
      BY Zenon, <2>5, <3>1, <3>3
    <3> QED
      BY Zenon, <3>2, <3>3
  <2>7. a # NULL => Waits(x, a, k)
    <3> SUFFICES ASSUME a # NULL PROVE Waits(x, a, k)
      OBVIOUS
    <3>1. Waits(s, a, k) /\ x.term_state = s.term_state
      BY Zenon, <1>7, <2>3, <2>4
    <3>2. CASE s.term_state = "INPROGRESS"
      BY Zenon, <3>1, <3>2 DEF Waits
    <3>3. CASE s.term_state # "INPROGRESS"
      <4>1. a.n \in 1..k /\ s.answers[a.n] = <<>>
        BY Zenon, <3>1, <3>3 DEF Waits
      <4>2. a.n \in Ids /\ a.n # 0
        BY <4>1, LinkAssumption DEF Ids
      <4>3. ~\E i \in 1..Len(p) : p[i].n = a.n
        BY Zenon, <1>7, <4>2
      <4>4. x.answers[a.n] = <<>>
        BY Zenon, <2>5, <4>1, <4>2, <4>3
      <4> QED
        BY Zenon, <3>1, <3>3, <4>1, <4>4 DEF Waits
    <3> QED
      BY Zenon, <3>2, <3>3
  <2>8. Waiting(x, k) /\ Watched(x)
    BY <2>3, <2>4, <2>7 DEF Waiting, Watched, Queued
  <2>9. CASE s.term_state = "NONE"
    <3>1. PICK user \in {"active", "told", "terminating", "terminated"} :
             t = [x EXCEPT !.user = user] /\ user = IF s.user = "active" THEN "told" ELSE s.user
      BY Zenon, <1>1, <2>1, <2>3, <2>4, <2>9 DEF ClientSessions
    <3>2. /\ t \in ClientSessions /\ t.connection = x.connection /\ t.answers = x.answers
          /\ t.active_request = x.active_request /\ t.pending_request_queue = x.pending_request_queue
          /\ t.sent = x.sent /\ t.request_timer = x.request_timer
          /\ t.inprogress_request_queue = x.inprogress_request_queue /\ t.term_state = x.term_state
          /\ t.last_cseq = x.last_cseq /\ t.user = user
      BY Zenon, <2>4, <3>1 DEF ClientSessions
    <3>3. Answered(t, k) /\ Watched(t)
      BY Zenon, <2>6, <2>8, <3>2 DEF Answered, Watched
    <3>4. Waiting(t, k)
      BY <2>8, <3>2 DEF Waiting, Queued, Waits
    <3>5. Moves(s, t) /\ t.sent = <<>>
      BY <1>1, <2>3, <2>4, <3>2, MovesNot DEF a
    <3>6. Ended(t)
      BY <1>1, <2>3, <2>4, <2>9, <3>1, <3>2 DEF Ended, a
    <3> QED
      BY Zenon, <3>2, <3>3, <3>4, <3>5, <3>6 DEF ClientOK
  <2>10. CASE s.term_state # "NONE"
    <3>1. t = [x EXCEPT !.handle_table = FALSE, !.term_state = "NONE", !.user = "terminated"]
      BY Zenon, <2>1, <2>10 DEF TerminateRespond
    <3>2. /\ t \in ClientSessions /\ t.connection = x.connection /\ t.answers = x.answers
          /\ t.active_request = x.active_request /\ t.pending_request_queue = x.pending_request_queue
          /\ t.sent = x.sent /\ t.request_timer = x.request_timer
          /\ t.inprogress_request_queue = x.inprogress_request_queue
          /\ t.last_cseq = x.last_cseq /\ t.user = "terminated"
      BY Zenon, <2>4, <3>1 DEF ClientSessions
    <3>3. Answered(t, k) /\ Watched(t)
      BY Zenon, <2>6, <2>8, <3>2 DEF Answered, Watched
    <3>4. Moves(s, t) /\ t.sent = <<>>
      BY <1>1, <2>3, <2>4, <3>2, MovesNot DEF a
    <3>5. Ended(t)
      BY Zenon, <1>1, <2>3, <2>4, <3>2 DEF Ended, a
    <3> QED
      BY Zenon, <3>2, <3>3, <3>4, <3>5 DEF ClientOK
  <2> QED
    BY Zenon, <2>9, <2>10
<1> QED
  BY Zenon, <1>9, <1>10
-----------------------------------------------------------------------------
(* The server, on requests of M, to which its responses are those of R *)
Served(M, R) ==
    /\ M \subseteq Requests /\ R \subseteq Responses
    /\ \A m \in M, status \in {"OK", "ERROR"}, id \in Nat : Response(m, status, id) \in R
    /\ \A r \in R, id \in Nat : [r EXCEPT !.session_id = id] \in R

ServerSessions(M, R) ==
    [state : {"none", "live", "destroyed"}, active_request : M \cup {NULL}, request_queue : Seq(M),
     resource_table : SUBSET Resources, terminating : BOOLEAN, obj : BOOLEAN,
     work : Seq(M \cup {NULL}), tasks : Seq(R \cup Events \cup {NULL}), terminations : Nat]

(* An MRCP session has one request at most, and its answer is awaited. *)
Idle(s) == NoneIn(s.work, Requests) /\ NoneIn(s.tasks, Responses)
One(s) ==
    /\ AtMostOne(s.work, Requests) /\ AtMostOne(s.tasks, Responses)
    /\ NoneIn(s.work, Requests) \/ NoneIn(s.tasks, Responses)
    /\ s.active_request = NULL => Idle(s)

(* What becomes of a session when all is orderly: it runs, it is told to   *)
(* terminate, it has terminated, it is gone.                               *)
Running(s) ==
    /\ s.state = "live" /\ ~s.terminating /\ s.obj /\ s.terminations = 0
    /\ s.work \in Seq(Requests) /\ s.tasks \in Seq(Responses \cup Events)
Stopping(s) ==
    /\ s.state = "live" /\ s.terminating /\ s.obj /\ s.terminations = 1
    /\ s.work = <<NULL>> /\ s.tasks \in Seq(Events)
Stopped(s) ==
    /\ s.state = "live" /\ s.terminating /\ ~s.obj /\ s.terminations = 1
    /\ s.work = <<>> /\ \E q \in Seq(Events) : s.tasks = Append(q, NULL)
Gone(s) ==
    /\ s.state = "destroyed" /\ ~s.obj /\ s.terminations = 1
    /\ s.work = <<>> /\ s.tasks = <<>>
Phase(s) ==
    /\ s.request_queue = <<>>
    /\ s = NoSession \/ Running(s) \/ Stopping(s) \/ Stopped(s) \/ Gone(s)

(* A session that has nothing to do has not two things to do. *)
LEMMA IdleOne ==
    ASSUME NEW M, NEW R, NEW s \in ServerSessions(M, R), Idle(s) PROVE One(s)
<1>1. s.work \in Seq(M \cup {NULL}) /\ s.tasks \in Seq(R \cup Events \cup {NULL})
  BY Zenon DEF ServerSessions
<1> QED
  BY Zenon, <1>1, NoneSome DEF Idle, One

(* A session that runs and has nothing to do has no work, and no response. *)
LEMMA RunningIdle ==
    ASSUME NEW s, Running(s), Idle(s)
    PROVE  s.work = <<>> /\ s.tasks \in Seq(Events)
<1>1. s.work = <<>>
  BY DEF Running, Idle, NoneIn
<1>2. \A i \in 1..Len(s.tasks) : s.tasks[i] \in Events
  BY DEF Running, Idle, NoneIn
<1>3. s.tasks \in Seq(Events)
  BY <1>2 DEF Running
<1> QED
  BY Zenon, <1>1, <1>3

(* rtsp_server_session_terminate_request *)
LEMMA TerminateRequestOK ==
    ASSUME NEW M, NEW R, NEW s \in ServerSessions(M, R), Served(M, R),
           NEW t, t = TerminateRequest(s)
    PROVE  /\ t \in ServerSessions(M, R) /\ t.active_request = s.active_request /\ t.state = s.state
           /\ t.request_queue = s.request_queue
           /\ One(s) => One(t)
           /\ Running(s) /\ Idle(s) => Stopping(t)
<1>1. s.work \in Seq(M \cup {NULL}) /\ s.tasks \in Seq(R \cup Events \cup {NULL})
  BY Zenon DEF ServerSessions
<1>2. NULL \notin Requests
  BY Zenon, LinkAssumption
<1>3. CASE s.obj
  <2>1. t = [s EXCEPT !.terminating = TRUE, !.work = Append(s.work, NULL),
                      !.terminations = s.terminations + 1]
    BY Zenon, <1>3 DEF TerminateRequest
  <2>2. Append(s.work, NULL) \in Seq(M \cup {NULL})
    BY <1>1
  <2>3. /\ t \in ServerSessions(M, R) /\ t.active_request = s.active_request /\ t.state = s.state
        /\ t.request_queue = s.request_queue /\ t.work = Append(s.work, NULL) /\ t.tasks = s.tasks
        /\ t.terminating /\ t.obj = s.obj /\ t.terminations = s.terminations + 1
    <3>1. s.terminations + 1 \in Nat
      BY DEF ServerSessions
    <3> QED
      BY Zenon, <2>1, <2>2, <3>1 DEF ServerSessions
  <2>4. /\ NoneIn(s.work, Requests) => NoneIn(t.work, Requests)
        /\ AtMostOne(s.work, Requests) => AtMostOne(t.work, Requests)
    BY <1>1, <1>2, <2>3, NoneAppend, SomeAppend
  <2>5. One(s) => One(t)
    BY Zenon, <2>3, <2>4 DEF One, Idle
  <2>6. ASSUME Running(s), Idle(s) PROVE Stopping(t)
    <3>1. s.work = <<>> /\ s.tasks \in Seq(Events)
      BY Zenon, <2>6, RunningIdle
    <3>2. t.work = <<NULL>>
      BY <2>3, <3>1
    <3> QED
      BY <2>3, <2>6, <3>1, <3>2 DEF Running, Stopping
  <2> QED
    BY Zenon, <2>3, <2>5, <2>6
<1>4. CASE ~s.obj
  <2>1. t = [s EXCEPT !.terminating = TRUE]
    BY Zenon, <1>4 DEF TerminateRequest
  <2>2. /\ t \in ServerSessions(M, R) /\ t.active_request = s.active_request /\ t.state = s.state
        /\ t.request_queue = s.request_queue /\ t.work = s.work /\ t.tasks = s.tasks
    BY Zenon, <2>1 DEF ServerSessions
  <2> QED
    BY Zenon, <1>4, <2>2 DEF One, Idle, Running
<1> QED
  BY Zenon, <1>3, <1>4 DEF ServerSessions

(* rtsp_server_session_message_handle of the request that is active now *)
MessageHandled(M, R, s, m, h) ==
    /\ h.session \in ServerSessions(M, R) /\ One(h.session) /\ h.out \in Seq(R \cup Events)
    /\ h.session.active_request = m /\ h.session.state = s.state
    /\ h.session.request_queue = s.request_queue
    /\ Running(s) /\ m.good => h.out = <<>> /\ (Running(h.session) \/ Stopping(h.session))

(* rtsp_server_session_message_handle *)
LEMMA MessageHandleOK ==
    ASSUME NEW M, NEW R, NEW s \in ServerSessions(M, R), Served(M, R), NEW id, NEW m \in M,
           s.active_request = m, Idle(s)
    PROVE  MessageHandled(M, R, s, m, MessageHandle(s, id, m))
<1> DEFINE h == MessageHandle(s, id, m)
           t == h.session
           out == h.out
<1>0. h = With(t, out)
  BY Zenon DEF MessageHandle, With
<1> HIDE DEF h
<1> SUFFICES /\ t \in ServerSessions(M, R) /\ One(t) /\ out \in Seq(R \cup Events)
             /\ t.active_request = m /\ t.state = s.state /\ t.request_queue = s.request_queue
             /\ Running(s) /\ m.good => out = <<>> /\ (Running(t) \/ Stopping(t))
  BY Zenon DEF MessageHandled, h
<1> HIDE DEF t, out
<1> DEFINE left == s.resource_table \ {m.resource}
           torn == IF m.method = "TEARDOWN" THEN [s EXCEPT !.resource_table = left] ELSE s
<1>1. With(t, out) =
         IF m.method = "TEARDOWN" /\ left = {} THEN With(TerminateRequest(torn), <<>>)
         ELSE IF Handled(torn, m) THEN With(UnirtspHandle(torn, m), <<>>)
         ELSE With(torn, <<Response(m, "ERROR", 0)>>)
  BY Zenon, <1>0 DEF MessageHandle, h
<1>2. \A x, y : With(t, out) = With(x, y) => t = x /\ out = y
  BY Zenon DEF With
<1>3. m \in Requests /\ m.resource \in Resources
  BY Zenon DEF Served, Requests
<1>4. /\ torn \in ServerSessions(M, R) /\ torn.active_request = m /\ torn.state = s.state
      /\ torn.request_queue = s.request_queue /\ torn.work = s.work /\ torn.tasks = s.tasks
      /\ torn.obj = s.obj /\ torn.terminating = s.terminating /\ torn.terminations = s.terminations
  BY Zenon, <1>3 DEF ServerSessions
<1> HIDE DEF torn, left
<1>5. Idle(torn) /\ (Running(s) => Running(torn))
  BY Zenon, <1>4 DEF Idle, Running
<1>6. One(torn)
  BY Zenon, <1>4, <1>5, IdleOne
<1>7. CASE m.method = "TEARDOWN" /\ left = {}
  <2>1. t = TerminateRequest(torn) /\ out = <<>>
    BY Zenon, <1>1, <1>2, <1>7
  <2>2. <<>> \in Seq(R \cup Events)
    OBVIOUS
  <2> QED
    BY <1>4, <1>5, <1>6, <2>1, <2>2, TerminateRequestOK
<1>8. CASE ~(m.method = "TEARDOWN" /\ left = {}) /\ ~Handled(torn, m)
  <2>1. t = torn /\ out = <<Response(m, "ERROR", 0)>>
    BY Zenon, <1>1, <1>2, <1>8
  <2>2. Response(m, "ERROR", 0) \in R
    BY Zenon DEF Served
  <2>3. out \in Seq(R \cup Events)
    BY <2>1, <2>2
  <2>4. ~(Running(s) /\ m.good)
    BY Zenon, <1>5, <1>8 DEF Handled, Running
  <2> QED
    BY Zenon, <1>4, <1>6, <2>1, <2>3, <2>4
<1>9. CASE ~(m.method = "TEARDOWN" /\ left = {}) /\ Handled(torn, m)
  <2>1. t = UnirtspHandle(torn, m) /\ out = <<>>
    BY Zenon, <1>1, <1>2, <1>9
  <2>2. torn.work \in Seq(M \cup {NULL}) /\ torn.tasks \in Seq(R \cup Events \cup {NULL})
    BY Zenon, <1>4 DEF ServerSessions
  <2>3. CASE m.method = "DESCRIBE"
    <3> DEFINE r == Response(m, "OK", 0)
    <3>1. t = [torn EXCEPT !.tasks = Append(torn.tasks, r)] /\ r \in R
      BY Zenon, <2>1, <2>3 DEF UnirtspHandle, Served
    <3> HIDE DEF r
    <3>2. Append(torn.tasks, r) \in Seq(R \cup Events \cup {NULL})
      BY <2>2, <3>1
    <3>3. /\ t \in ServerSessions(M, R) /\ t.active_request = m /\ t.state = s.state
          /\ t.request_queue = s.request_queue /\ t.work = torn.work /\ t.tasks = Append(torn.tasks, r)
          /\ t.obj = torn.obj /\ t.terminating = torn.terminating /\ t.terminations = torn.terminations
      BY Zenon, <1>4, <3>1, <3>2 DEF ServerSessions
    <3>4. NoneIn(t.work, Requests) /\ AtMostOne(t.tasks, Responses) /\ AtMostOne(t.work, Requests)
      BY Zenon, <1>5, <1>6, <2>2, <3>1, <3>3, NoneAppend DEF Idle, One
    <3>5. One(t)
      BY Zenon, <1>3, <3>3, <3>4, Kinds DEF One
    <3>6. Running(torn) => Running(t)
      <4>1. r \in Responses
        BY Zenon, <3>1 DEF Served
      <4>2. torn.tasks \in Seq(Responses \cup Events) => Append(torn.tasks, r) \in Seq(Responses \cup Events)
        BY <4>1
      <4> QED
        BY Zenon, <1>4, <3>3, <4>2 DEF Running
    <3> QED
      BY <1>5, <2>1, <3>3, <3>5, <3>6
  <2>4. CASE m.method # "DESCRIBE"
    <3>1. t = [torn EXCEPT !.work = Append(torn.work, m)]
      BY Zenon, <2>1, <2>4 DEF UnirtspHandle
    <3>2. Append(torn.work, m) \in Seq(M \cup {NULL})
      BY <2>2
    <3>3. /\ t \in ServerSessions(M, R) /\ t.active_request = m /\ t.state = s.state
          /\ t.request_queue = s.request_queue /\ t.work = Append(torn.work, m) /\ t.tasks = torn.tasks
          /\ t.obj = torn.obj /\ t.terminating = torn.terminating /\ t.terminations = torn.terminations
      BY Zenon, <1>4, <3>1, <3>2 DEF ServerSessions
    <3>4. AtMostOne(t.work, Requests) /\ AtMostOne(t.tasks, Responses) /\ NoneIn(t.tasks, Responses)
      BY Zenon, <1>5, <1>6, <2>2, <3>3, NoneAppend DEF Idle, One
    <3>5. One(t)
      BY Zenon, <1>3, <3>3, <3>4, Kinds DEF One
    <3>6. Running(torn) => Running(t)
      <4>1. torn.work \in Seq(Requests) => Append(torn.work, m) \in Seq(Requests)
        BY <1>3
      <4> QED
        BY Zenon, <1>4, <3>3, <4>1 DEF Running
    <3> QED
      BY <1>5, <2>1, <3>3, <3>5, <3>6
  <2> QED
    BY Zenon, <2>3, <2>4
<1> QED
  BY Zenon, <1>7, <1>8, <1>9

(* rtsp_server_session_request_process *)
RequestHandled(M, R, s, m, h) ==
    /\ h.session \in ServerSessions(M, R) /\ One(h.session) /\ h.out \in Seq(R \cup Events)
    /\ h.session.state = s.state
    /\ s.active_request = NULL /\ Phase(s) /\ s.state = "live" /\ m.good =>
          /\ Phase(h.session)
          /\ \/ h.out = <<Response(m, "ERROR", 0)>> /\ h.session.active_request = NULL
             \/ h.out = <<>> /\ h.session.active_request = m

(* rtsp_server_session_request_process *)
LEMMA SessionRequestOK ==
    ASSUME NEW M, NEW R, NEW s \in ServerSessions(M, R), Served(M, R), NEW id, NEW m \in M, One(s)
    PROVE  RequestHandled(M, R, s, m, SessionRequest(s, id, m))
<1> DEFINE h == SessionRequest(s, id, m)
           t == h.session
           out == h.out
<1>0. h = With(t, out)
  BY Zenon DEF SessionRequest, MessageHandle, With
<1> HIDE DEF h
<1> SUFFICES /\ t \in ServerSessions(M, R) /\ One(t) /\ out \in Seq(R \cup Events) /\ t.state = s.state
             /\ s.active_request = NULL /\ Phase(s) /\ s.state = "live" /\ m.good =>
                   /\ Phase(t)
                   /\ \/ out = <<Response(m, "ERROR", 0)>> /\ t.active_request = NULL
                      \/ out = <<>> /\ t.active_request = m
  BY Zenon DEF RequestHandled, h
<1> HIDE DEF t, out
<1>1. \A x, y : With(t, out) = With(x, y) => t = x /\ out = y
  BY Zenon DEF With
<1>2. Response(m, "ERROR", 0) \in R /\ m \in Requests
  BY Zenon DEF Served
<1>3. CASE s.terminating
  <2>1. t = s /\ out = <<Response(m, "ERROR", 0)>>
    BY Zenon, <1>0, <1>1, <1>3 DEF SessionRequest, h
  <2>2. out \in Seq(R \cup Events)
    BY <1>2, <2>1
  <2> QED
    BY Zenon, <2>1, <2>2
<1>4. CASE ~s.terminating /\ s.active_request # NULL
  <2>1. t = [s EXCEPT !.request_queue = Append(s.request_queue, m)] /\ out = <<>>
    BY Zenon, <1>0, <1>1, <1>4 DEF SessionRequest, h
  <2>2. Append(s.request_queue, m) \in Seq(M)
    BY DEF ServerSessions
  <2>3. /\ t \in ServerSessions(M, R) /\ t.active_request = s.active_request /\ t.state = s.state
        /\ t.work = s.work /\ t.tasks = s.tasks
    BY Zenon, <2>1, <2>2 DEF ServerSessions
  <2>4. One(t) /\ out \in Seq(R \cup Events)
    BY <2>1, <2>3 DEF One, Idle
  <2> QED
    BY Zenon, <1>4, <2>3, <2>4
<1>5. CASE ~s.terminating /\ s.active_request = NULL
  <2> DEFINE e == [s EXCEPT !.active_request = m]
  <2>1. h = MessageHandle(e, id, m)
    BY Zenon, <1>5 DEF SessionRequest, h
  <2>2. /\ e \in ServerSessions(M, R) /\ e.active_request = m /\ e.state = s.state
        /\ e.request_queue = s.request_queue /\ e.work = s.work /\ e.tasks = s.tasks
        /\ e.obj = s.obj /\ e.terminating = s.terminating /\ e.terminations = s.terminations
    BY Zenon DEF ServerSessions
  <2> HIDE DEF e
  <2>3. Idle(e)
    BY Zenon, <1>5, <2>2 DEF One, Idle
  <2>4. /\ t \in ServerSessions(M, R) /\ One(t) /\ out \in Seq(R \cup Events)
        /\ t.active_request = m /\ t.state = e.state /\ t.request_queue = e.request_queue
        /\ Running(e) /\ m.good => out = <<>> /\ (Running(t) \/ Stopping(t))
    <3>1. MessageHandled(M, R, e, m, MessageHandle(e, id, m))
      BY Zenon, <2>2, <2>3, MessageHandleOK
    <3> QED
      BY Zenon, <2>1, <3>1 DEF MessageHandled, t, out
  <2>5. Phase(s) /\ s.state = "live" => Running(e)
    <3>1. NoSession.state = "none"
      BY Zenon DEF NoSession
    <3> QED
      BY Zenon, <1>5, <2>2, <3>1 DEF Phase, Running, Stopping, Stopped, Gone
  <2> QED
    BY Zenon, <2>2, <2>4, <2>5 DEF Phase
<1> QED
  BY Zenon, <1>3, <1>4, <1>5

(* rtsp_server_session_response_process, once the response is taken off    *)
(* the tasks                                                               *)
ResponseHandled(M, R, s, id, h) ==
    /\ h.session \in ServerSessions(M, R) /\ One(h.session) /\ h.out \in Seq(R \cup Events)
    /\ h.session.state = s.state
    /\ s.active_request # NULL /\ Phase(s) /\ Running(s) =>
          /\ Phase(h.session) /\ h.session.active_request = NULL
          /\ \E r \in R : h.out = <<r>> /\ (s.active_request.method # "DESCRIBE" => r.session_id = id)

(* rtsp_server_session_response_process *)
LEMMA SessionResponseOK ==
    ASSUME NEW M, NEW R, NEW s \in ServerSessions(M, R), Served(M, R), NEW id \in Nat, NEW response \in R,
           Idle(s)
    PROVE  ResponseHandled(M, R, s, id, SessionResponse(s, id, response))
<1> DEFINE h == SessionResponse(s, id, response)
           t == h.session
           out == h.out
<1>0. h = With(t, out)
  BY Zenon DEF SessionResponse, With
<1> HIDE DEF h
<1> SUFFICES /\ t \in ServerSessions(M, R) /\ One(t) /\ out \in Seq(R \cup Events) /\ t.state = s.state
             /\ s.active_request # NULL /\ Phase(s) /\ Running(s) =>
                   /\ Phase(t) /\ t.active_request = NULL
                   /\ \E r \in R : out = <<r>> /\ (s.active_request.method # "DESCRIBE" => r.session_id = id)
  BY Zenon DEF ResponseHandled, h
<1> HIDE DEF t, out
<1>1. \A x, y : With(t, out) = With(x, y) => t = x /\ out = y
  BY Zenon DEF With
<1>2. CASE s.active_request = NULL
  <2>1. t = s /\ out = <<>>
    BY Zenon, <1>0, <1>1, <1>2 DEF SessionResponse, h
  <2>2. One(s) /\ <<>> \in Seq(R \cup Events)
    BY IdleOne
  <2> QED
    BY Zenon, <1>2, <2>1, <2>2
<1>3. CASE s.active_request # NULL
  <2> DEFINE request == s.active_request
             setup == request.method = "SETUP"
             terminate == \/ request.method = "DESCRIBE"
                          \/ setup /\ response.status # "OK" /\ s.resource_table = {}
             added == IF setup /\ response.status = "OK"
                      THEN [s EXCEPT !.resource_table = s.resource_table \cup {request.resource}] ELSE s
             sid == IF request.method = "DESCRIBE" THEN 0 ELSE id
             r == [response EXCEPT !.session_id = sid]
             queue == s.request_queue
             freed == [added EXCEPT !.active_request = NULL]
             loaded == [added EXCEPT !.active_request = Head(queue), !.request_queue = Tail(queue)]
             next == MessageHandle(loaded, id, Head(queue))
  <2>1. With(t, out) = IF terminate THEN With(TerminateRequest(freed), <<r>>)
                       ELSE IF queue = <<>> THEN With(freed, <<r>>)
                       ELSE With(next.session, <<r>> \o next.out)
    BY Zenon, <1>0, <1>3 DEF SessionResponse, h
  <2>2. request \in Requests /\ request.resource \in Resources /\ queue \in Seq(M)
    BY Zenon, <1>3 DEF ServerSessions, Served, Requests
  <2>3. sid \in Nat
    OBVIOUS
  <2>4. r \in R
    BY Zenon, <2>3 DEF Served
  <2>5. r.session_id = sid
    BY Zenon DEF Served, Responses
  <2>6. /\ added \in ServerSessions(M, R) /\ added.state = s.state
        /\ added.request_queue = s.request_queue /\ added.work = s.work /\ added.tasks = s.tasks
        /\ added.obj = s.obj /\ added.terminating = s.terminating /\ added.terminations = s.terminations
    BY Zenon, <2>2 DEF ServerSessions
  <2> HIDE DEF added, r, terminate
  <2>7. /\ freed \in ServerSessions(M, R) /\ freed.state = s.state /\ freed.active_request = NULL
        /\ freed.request_queue = s.request_queue /\ freed.work = s.work /\ freed.tasks = s.tasks
        /\ freed.obj = s.obj /\ freed.terminating = s.terminating /\ freed.terminations = s.terminations
    BY Zenon, <2>6 DEF ServerSessions
  <2> HIDE DEF freed
  <2>8. Idle(freed) /\ (Running(s) => Running(freed))
    BY Zenon, <2>7 DEF Idle, Running
  <2>9. One(freed)
    BY Zenon, <2>7, <2>8, IdleOne
  <2>10. <<r>> \in Seq(R \cup Events)
    BY <2>4
  <2>11. request.method # "DESCRIBE" => r.session_id = id
    BY Zenon, <2>5
  <2>12. CASE terminate
    <3>1. t = TerminateRequest(freed) /\ out = <<r>>
      BY Zenon, <1>1, <2>1, <2>12
    <3>2. /\ t \in ServerSessions(M, R) /\ t.active_request = freed.active_request /\ t.state = freed.state
          /\ t.request_queue = freed.request_queue /\ (One(freed) => One(t))
          /\ Running(freed) /\ Idle(freed) => Stopping(t)
      BY <2>7, <3>1, TerminateRequestOK
    <3> QED
      BY Zenon, <2>4, <2>5, <2>7, <2>8, <2>9, <2>10, <2>11, <3>1, <3>2 DEF Phase
  <2>13. CASE ~terminate /\ queue = <<>>
    <3>1. t = freed /\ out = <<r>>
      BY Zenon, <1>1, <2>1, <2>13
    <3> QED
      BY Zenon, <2>4, <2>5, <2>7, <2>8, <2>9, <2>10, <2>11, <3>1 DEF Phase
  <2>14. CASE ~terminate /\ queue # <<>>
    <3>1. t = next.session /\ out = <<r>> \o next.out
      BY Zenon, <1>1, <2>1, <2>14
    <3>2. Head(queue) \in M /\ Tail(queue) \in Seq(M)
      BY <2>2, <2>14
    <3>3. /\ loaded \in ServerSessions(M, R) /\ loaded.state = s.state /\ loaded.active_request = Head(queue)
          /\ loaded.work = s.work /\ loaded.tasks = s.tasks
      BY Zenon, <2>6, <3>2 DEF ServerSessions
    <3> HIDE DEF loaded
    <3>4. Idle(loaded)
      BY Zenon, <3>3 DEF Idle
    <3>5. MessageHandled(M, R, loaded, Head(queue), next)
      BY Zenon, <3>2, <3>3, <3>4, MessageHandleOK
    <3> HIDE DEF next
    <3>6. /\ next.session \in ServerSessions(M, R) /\ One(next.session)
          /\ next.out \in Seq(R \cup Events) /\ next.session.state = loaded.state
      BY Zenon, <3>5 DEF MessageHandled
    <3>7. out \in Seq(R \cup Events)
      BY <2>10, <3>1, <3>6
    <3>8. ~Phase(s)
      BY Zenon, <2>14 DEF Phase
    <3> QED
      BY Zenon, <3>1, <3>3, <3>6, <3>7, <3>8
  <2> QED
    BY Zenon, <2>12, <2>13, <2>14
<1> QED
  BY Zenon, <1>2, <1>3
=============================================================================
