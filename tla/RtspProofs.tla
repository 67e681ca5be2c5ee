----------------------------- MODULE RtspProofs -----------------------------
(***************************************************************************)
(* Proofs about Rtsp: a request of the user is answered at most once and   *)
(* by its own response, the request in progress is watched by its timer,   *)
(* and a server session ends once.                                         *)
(*                                                                         *)
(* The argument has three parts.  In the client, the requests that wait    *)
(* are different and not yet answered.  Between client and server, a       *)
(* message with the CSeq of the active request carries that request,       *)
(* because a new active request has a CSeq above every one in use.  And    *)
(* when all is orderly, what the client waits for is in one place: on its  *)
(* way to the server, with one session of the server, or on its way back.  *)
(* RtspSessionProofs has what the operations do to a single session.       *)
(***************************************************************************)
EXTENDS Rtsp, RtspSessionProofs

(* Between client and server: what has the CSeq of the active request is   *)
(* that request, or a response to it.                                      *)
Matches(s, x) ==
    /\ x.cseq <= s.last_cseq
    /\ s.active_request # NULL /\ x.cseq = s.active_request.cseq => x.n = s.active_request.n
MatchingRequests(s) == {x \in Requests : Matches(s, x)}
MatchingResponses(s) == {x \in Responses : Matches(s, x)}

(* The requests and the responses that match a client are what its server  *)
(* needs.                                                                  *)
LEMMA MatchingServed ==
    ASSUME NEW s PROVE Served(MatchingRequests(s), MatchingResponses(s))
<1>1. ASSUME NEW m \in MatchingRequests(s), NEW status \in {"OK", "ERROR"}, NEW id \in Nat
      PROVE  Response(m, status, id) \in MatchingResponses(s)
  BY <1>1, ResponseType DEF MatchingRequests, MatchingResponses, Matches
<1>2. ASSUME NEW r \in MatchingResponses(s), NEW id \in Nat
      PROVE  [r EXCEPT !.session_id = id] \in MatchingResponses(s)
  BY Zenon, <1>2 DEF MatchingResponses, Responses, Matches
<1> QED
  BY Zenon, <1>1, <1>2 DEF Served, MatchingRequests, MatchingResponses

(* It stays so when the client goes on to another request. *)
LEMMA MatchingMoves ==
    ASSUME NEW s \in ClientSessions, NEW t \in ClientSessions, Moves(s, t)
    PROVE  /\ MatchingRequests(s) \subseteq MatchingRequests(t)
           /\ MatchingResponses(s) \subseteq MatchingResponses(t)
           /\ t.sent \in Seq(MatchingRequests(t) \cup {Acknowledgement})
<1>1. s.last_cseq \in Nat /\ t.last_cseq \in Nat
  BY Zenon DEF ClientSessions
<1>2. ASSUME NEW x, x.cseq \in Nat, Matches(s, x) PROVE Matches(t, x)
  <2>1. x.cseq <= s.last_cseq /\ x.cseq <= t.last_cseq
    BY <1>1, <1>2 DEF Matches, Moves
  <2>2. CASE t.active_request \in {NULL, s.active_request}
    BY Zenon, <1>2, <2>1, <2>2 DEF Matches
  <2>3. CASE t.active_request \in Requests /\ s.last_cseq < t.active_request.cseq
    <3>1. t.active_request.cseq \in Nat
      BY Zenon, <2>3 DEF Requests
    <3>2. x.cseq # t.active_request.cseq
      BY <1>1, <1>2, <2>1, <2>3, <3>1
    <3> QED
      BY Zenon, <2>1, <3>2 DEF Matches
  <2> QED
    BY Zenon, <2>2, <2>3 DEF Moves
<1>3. (\A x \in Requests : x.cseq \in Nat) /\ (\A x \in Responses : x.cseq \in Nat)
  BY Zenon DEF Requests, Responses
<1>4. t.sent \in Seq(MatchingRequests(t) \cup {Acknowledgement})
  <2>1. CASE t.sent = <<>>
    BY <2>1
  <2>2. CASE t.active_request \in Requests /\ t.sent = <<t.active_request>> /\ t.active_request.cseq <= t.last_cseq
    <3>1. t.active_request \in MatchingRequests(t)
      BY Zenon, <2>2 DEF MatchingRequests, Matches
    <3> QED
      BY <2>2, <3>1
  <2> QED
    BY Zenon, <2>1, <2>2 DEF Moves
<1> QED
  BY Zenon, <1>2, <1>3, <1>4 DEF MatchingRequests, MatchingResponses

(* A session that holds messages of some sets holds messages of larger     *)
(* ones.                                                                   *)
LEMMA ServerSessionsMonotone ==
    ASSUME NEW M, NEW R, NEW N, NEW Q, M \subseteq N, R \subseteq Q, NEW s \in ServerSessions(M, R)
    PROVE  s \in ServerSessions(N, Q)
<1>1. s.request_queue \in Seq(N)
  BY Zenon, SeqMonotone DEF ServerSessions
<1>2. s.work \in Seq(N \cup {NULL})
  <2>1. M \cup {NULL} \subseteq N \cup {NULL} /\ s.work \in Seq(M \cup {NULL})
    BY Zenon DEF ServerSessions
  <2> QED
    BY Zenon, <2>1, SeqMonotone
<1>3. s.tasks \in Seq(Q \cup Events \cup {NULL})
  <2>1. R \cup Events \cup {NULL} \subseteq Q \cup Events \cup {NULL} /\ s.tasks \in Seq(R \cup Events \cup {NULL})
    BY Zenon DEF ServerSessions
  <2> QED
    BY Zenon, <2>1, SeqMonotone
<1> QED
  BY Zenon, <1>1, <1>2, <1>3 DEF ServerSessions

(* When all is orderly: what the client waits for is in one place. *)
Busy(s) == s.state = "live" /\ s.active_request # NULL
Expected(a) ==
    {r \in Responses : a # NULL /\ (r.status = "OK" /\ a.method = "SETUP" => r.session_id # 0)}
Clear(server, ts, tc) ==
    NoneIn(ts, Requests) /\ NoneIn(tc, Responses) /\ \A id \in Ids : ~Busy(server[id])
Placed(a, server, ts, tc) ==
    /\ ts \in Seq({a, Acknowledgement}) /\ tc \in Seq(Expected(a) \cup Events)
    /\ AtMostOne(ts, Requests) /\ AtMostOne(tc, Responses)
    /\ NoneIn(ts, Requests) \/ NoneIn(tc, Responses)
    /\ \A id \in Ids : Busy(server[id]) =>
          /\ server[id].active_request = a /\ NoneIn(ts, Requests) /\ NoneIn(tc, Responses)
          /\ \A other \in Ids : Busy(server[other]) => other = id

(* Where nothing is between client and server, nothing is in the way of a  *)
(* request, and a request that is sent is the only one.                    *)
LEMMA ClearPlaced ==
    ASSUME NEW a, NEW server, NEW ts \in Seq(Messages), NEW tc \in Seq(Responses \cup Events),
           Clear(server, ts, tc)
    PROVE  /\ Placed(a, server, ts, tc)
           /\ a \in Requests => Placed(a, server, Append(ts, a), tc)
<1>1. ts \in Seq({Acknowledgement})
  <2>1. \A i \in 1..Len(ts) : ts[i] \in {Acknowledgement}
    BY DEF Clear, NoneIn, Messages
  <2> QED
    BY <2>1
<1>2. tc \in Seq(Events)
  <2>1. \A i \in 1..Len(tc) : tc[i] \in Events
    BY DEF Clear, NoneIn
  <2> QED
    BY <2>1
<1>3. ts \in Seq({a, Acknowledgement}) /\ tc \in Seq(Expected(a) \cup Events)
  BY Zenon, <1>1, <1>2, SeqMonotone
<1>4. AtMostOne(ts, Requests) /\ AtMostOne(tc, Responses)
  BY Zenon, <1>3, NoneSome DEF Clear
<1>5. Placed(a, server, ts, tc)
  BY Zenon, <1>3, <1>4 DEF Placed, Clear
<1>6. ASSUME a \in Requests PROVE Placed(a, server, Append(ts, a), tc)
  <2>1. Append(ts, a) \in Seq({a, Acknowledgement})
    BY <1>3
  <2>2. AtMostOne(Append(ts, a), Requests)
    BY Zenon, <1>3, NoneAppend DEF Clear
  <2> QED
    BY Zenon, <1>3, <1>4, <2>1, <2>2 DEF Placed, Clear
<1> QED
  BY Zenon, <1>5, <1>6

(* Nothing is under way that the client does not wait for, nor when its    *)
(* response arrives.                                                       *)
LEMMA PlacedClear ==
    ASSUME NEW a, NEW server, NEW ts \in Seq(Messages), NEW tc \in Seq(Responses \cup Events),
           Placed(a, server, ts, tc)
    PROVE  /\ a = NULL => Clear(server, ts, tc)
           /\ tc # <<>> /\ Head(tc) \in Responses => Clear(server, ts, Tail(tc)) /\ Head(tc) \in Expected(a)
           /\ ts # <<>> /\ Head(ts) \in Requests => Clear(server, Tail(ts), tc) /\ Head(ts) = a
<1>1. ASSUME a = NULL PROVE Clear(server, ts, tc)
  <2>1. \A id \in Ids : ~Busy(server[id])
    BY Zenon, <1>1 DEF Placed, Busy
  <2>2. NoneIn(ts, Requests)
    <3>1. ts \in Seq({NULL, Acknowledgement}) /\ NULL \notin Requests /\ Acknowledgement \notin Requests
      BY Zenon, <1>1, Kinds DEF Placed
    <3> QED
      BY <3>1 DEF NoneIn
  <2>3. NoneIn(tc, Responses)
    <3>1. \A x \in Expected(a) \cup Events : x \notin Responses
      BY Zenon, <1>1, Kinds DEF Expected
    <3> QED
      BY <3>1 DEF NoneIn, Placed
  <2> QED
    BY Zenon, <2>1, <2>2, <2>3 DEF Clear
<1>2. ASSUME tc # <<>>, Head(tc) \in Responses PROVE Clear(server, ts, Tail(tc)) /\ Head(tc) \in Expected(a)
  <2>1. NoneIn(Tail(tc), Responses) /\ ~NoneIn(tc, Responses)
    BY Zenon, <1>2, NoneTail DEF Placed
  <2>2. Head(tc) \in Expected(a) \cup Events
    BY <1>2 DEF Placed
  <2>3. Head(tc) \in Expected(a)
    BY Zenon, <1>2, <2>2, Kinds
  <2> QED
    BY Zenon, <2>1, <2>3 DEF Placed, Clear
<1>3. ASSUME ts # <<>>, Head(ts) \in Requests PROVE Clear(server, Tail(ts), tc) /\ Head(ts) = a
  <2>1. NoneIn(Tail(ts), Requests) /\ ~NoneIn(ts, Requests)
    BY Zenon, <1>3, NoneTail DEF Placed
  <2>2. Head(ts) \in {a, Acknowledgement}
    BY <1>3 DEF Placed
  <2>3. Head(ts) = a
    BY Zenon, <1>3, <2>2, Kinds
  <2> QED
    BY Zenon, <2>1, <2>3 DEF Placed, Clear
<1> QED
  BY Zenon, <1>1, <1>2, <1>3

(* An event, or the answer to one, is on its way or arrives. *)
LEMMA PlacedEvents ==
    ASSUME NEW a, NEW server, NEW ts \in Seq(Messages), NEW tc \in Seq(Responses \cup Events),
           Placed(a, server, ts, tc)
    PROVE  /\ \A e \in Events : Placed(a, server, ts, Append(tc, e))
           /\ tc # <<>> => Placed(a, server, ts, Tail(tc))
           /\ Placed(a, server, Append(ts, Acknowledgement), tc)
           /\ ts # <<>> => Placed(a, server, Tail(ts), tc)
<1>1. Acknowledgement \notin Requests /\ \A e \in Events : e \notin Responses
  BY Zenon, Kinds
<1>2. ts \in Seq({a, Acknowledgement}) /\ tc \in Seq(Expected(a) \cup Events)
  BY Zenon DEF Placed
<1>3. ASSUME NEW e \in Events PROVE Placed(a, server, ts, Append(tc, e))
  <2>1. Append(tc, e) \in Seq(Expected(a) \cup Events)
    BY <1>2
  <2>2. /\ AtMostOne(tc, Responses) => AtMostOne(Append(tc, e), Responses)
        /\ NoneIn(tc, Responses) => NoneIn(Append(tc, e), Responses)
    BY Zenon, <1>1, NoneAppend, SomeAppend
  <2> QED
    BY Zenon, <2>1, <2>2 DEF Placed
<1>4. ASSUME tc # <<>> PROVE Placed(a, server, ts, Tail(tc))
  <2>1. Tail(tc) \in Seq(Expected(a) \cup Events)
    BY <1>2, <1>4
  <2>2. /\ AtMostOne(tc, Responses) => AtMostOne(Tail(tc), Responses)
        /\ NoneIn(tc, Responses) => NoneIn(Tail(tc), Responses)
    BY Zenon, <1>4, NoneTail
  <2> QED
    BY Zenon, <2>1, <2>2 DEF Placed
<1>5. Placed(a, server, Append(ts, Acknowledgement), tc)
  <2>1. Append(ts, Acknowledgement) \in Seq({a, Acknowledgement})
    BY <1>2
  <2>2. /\ AtMostOne(ts, Requests) => AtMostOne(Append(ts, Acknowledgement), Requests)
        /\ NoneIn(ts, Requests) => NoneIn(Append(ts, Acknowledgement), Requests)
    BY Zenon, <1>1, <1>2, NoneAppend, SomeAppend
  <2> QED
    BY Zenon, <2>1, <2>2 DEF Placed
<1>6. ASSUME ts # <<>> PROVE Placed(a, server, Tail(ts), tc)
  <2>1. Tail(ts) \in Seq({a, Acknowledgement})
    BY <1>2, <1>6
  <2>2. /\ AtMostOne(ts, Requests) => AtMostOne(Tail(ts), Requests)
        /\ NoneIn(ts, Requests) => NoneIn(Tail(ts), Requests)
    BY Zenon, <1>6, NoneTail
  <2> QED
    BY Zenon, <2>1, <2>2 DEF Placed
<1> QED
  BY Zenon, <1>3, <1>4, <1>5, <1>6

(* A session of the server goes on with its request, or answers it. *)
LEMMA PlacedSession ==
    ASSUME NEW a, NEW M, NEW R, NEW server \in [Ids -> ServerSessions(M, R)], NEW ts, NEW tc,
           Placed(a, server, ts, tc), NEW id \in Ids, NEW s,
           Busy(s) => Busy(server[id]) /\ s.active_request = server[id].active_request
    PROVE  /\ Placed(a, [server EXCEPT ![id] = s], ts, tc)
           /\ Busy(server[id]) /\ ~Busy(s) =>
                 \A r \in Expected(a) : Placed(a, [server EXCEPT ![id] = s], ts, Append(tc, r))
<1> DEFINE next == [server EXCEPT ![id] = s]
<1>1. next[id] = s /\ \A other \in Ids \ {id} : next[other] = server[other]
  OBVIOUS
<1> HIDE DEF next
<1>2. \A other \in Ids : Busy(next[other]) =>
         Busy(server[other]) /\ next[other].active_request = server[other].active_request
  BY Zenon, <1>1
<1>3. Placed(a, next, ts, tc)
  BY Zenon, <1>2 DEF Placed
<1>4. ASSUME Busy(server[id]), ~Busy(s), NEW r \in Expected(a) PROVE Placed(a, next, ts, Append(tc, r))
  <2>1. \A other \in Ids : ~Busy(next[other])
    BY Zenon, <1>1, <1>4 DEF Placed
  <2>2. NoneIn(ts, Requests) /\ NoneIn(tc, Responses) /\ tc \in Seq(Expected(a) \cup Events)
    BY Zenon, <1>4 DEF Placed
  <2>3. Append(tc, r) \in Seq(Expected(a) \cup Events) /\ AtMostOne(Append(tc, r), Responses)
    BY <2>2, NoneAppend
  <2> QED
    BY Zenon, <2>1, <2>2, <2>3 DEF Placed
<1> QED
  BY Zenon, <1>3, <1>4 DEF next

(* The server takes a request: a session has it, or it is refused. *)
LEMMA PlacedTaken ==
    ASSUME NEW a, NEW M, NEW R, NEW server \in [Ids -> ServerSessions(M, R)],
           NEW ts \in Seq(Messages), NEW tc \in Seq(Responses \cup Events),
           Clear(server, ts, tc)
    PROVE  /\ \A r \in Expected(a) : Placed(a, server, ts, Append(tc, r))
           /\ \A id \in Ids : \A s :
                 /\ (Busy(s) => s.active_request = a) => Placed(a, [server EXCEPT ![id] = s], ts, tc)
                 /\ ~Busy(s) => \A r \in Expected(a) : Placed(a, [server EXCEPT ![id] = s], ts, Append(tc, r))
<1>1. Placed(a, server, ts, tc)
  BY Zenon, ClearPlaced
<1>2. ASSUME NEW next, \A other \in Ids : ~Busy(next[other]), NEW r \in Expected(a)
      PROVE  Placed(a, next, ts, Append(tc, r))
  <2>1. NoneIn(ts, Requests) /\ NoneIn(tc, Responses) /\ tc \in Seq(Expected(a) \cup Events)
    BY Zenon, <1>1 DEF Placed, Clear
  <2>2. Append(tc, r) \in Seq(Expected(a) \cup Events) /\ AtMostOne(Append(tc, r), Responses)
    BY <1>2, <2>1, NoneAppend
  <2> QED
    BY Zenon, <1>1, <1>2, <2>1, <2>2 DEF Placed
<1>3. ASSUME NEW r \in Expected(a) PROVE Placed(a, server, ts, Append(tc, r))
  BY Zenon, <1>2 DEF Clear
<1>4. ASSUME NEW id \in Ids, NEW s
      PROVE  /\ (Busy(s) => s.active_request = a) => Placed(a, [server EXCEPT ![id] = s], ts, tc)
             /\ ~Busy(s) => \A r \in Expected(a) : Placed(a, [server EXCEPT ![id] = s], ts, Append(tc, r))
  <2> DEFINE next == [server EXCEPT ![id] = s]
  <2>1. next[id] = s /\ \A other \in Ids \ {id} : next[other] = server[other]
    OBVIOUS
  <2> HIDE DEF next
  <2>2. \A other \in Ids : Busy(next[other]) => other = id /\ Busy(s)
    BY Zenon, <2>1 DEF Clear
  <2>3. ~Busy(s) => \A other \in Ids : ~Busy(next[other])
    BY Zenon, <2>2
  <2>4. (Busy(s) => s.active_request = a) => Placed(a, next, ts, tc)
    BY Zenon, <1>1, <2>1, <2>2 DEF Placed, Clear
  <2>5. ~Busy(s) => \A r \in Expected(a) : Placed(a, next, ts, Append(tc, r))
    BY Zenon, <1>2, <2>3
  <2> QED
    BY Zenon, <2>4, <2>5 DEF next
<1> QED
  BY Zenon, <1>3, <1>4
(* It stays so when the messages to the client are lost. *)
LEMMA PlacedDropped ==
    ASSUME NEW a, NEW server, NEW ts, NEW tc, Placed(a, server, ts, tc)
    PROVE  Placed(a, server, ts, <<>>)
BY NoneEmpty DEF Placed
-----------------------------------------------------------------------------
(* What is between the client c and the sessions of the server *)
Between(c, server, ts, tc) ==
    /\ ts \in Seq(MatchingRequests(c) \cup {Acknowledgement})
    /\ tc \in Seq(MatchingResponses(c) \cup Events)
    /\ server \in [Ids -> ServerSessions(MatchingRequests(c), MatchingResponses(c))]
    /\ \A id \in Ids : One(server[id])

Orderly(c, l, server, ts, tc) ==
    /\ l = "up" <=> c.connection = "open"
    /\ l = "down" <=> c.connection = "destroyed"
    /\ l \in {"none", "up", "down"} /\ c.connection # "closed" /\ Named(c)
    /\ \A id \in Ids : Phase(server[id])
    /\ Placed(c.active_request, server, ts, tc)

(* The connection of the server has no sessions before it is accepted and  *)
(* after it is destroyed.                                                  *)
Kept(conn, server) ==
    conn \in {"none", "destroyed"} => \A id \in Ids : server[id].state # "live"

(* The inductive invariant *)
Inv ==
    /\ request_timeout \in BOOLEAN /\ orderly \in BOOLEAN
    /\ requests \in Nat /\ requests <= MaxRequests
    /\ ClientOK(session, requests) /\ session.sent = <<>>
    /\ Between(session, sessions, toServer, toClient)
    /\ Kept(connection, sessions)
    /\ orderly => ~request_timeout /\ Orderly(session, link, sessions, toServer, toClient)

(* The invariant holds before the client has connected. *)
LEMMA InitInv == Init => Inv
<1> SUFFICES ASSUME Init PROVE Inv
  OBVIOUS
<1> USE DEF Init, ClientInit, ServerInit
<1>1. /\ session \in ClientSessions /\ session.connection = "none" /\ session.sent = <<>>
      /\ session.active_request = NULL /\ session.pending_request_queue = <<>>
      /\ ~session.inprogress_request_queue /\ ~session.request_timer /\ session.resource_table = {}
      /\ session.term_state = "NONE" /\ session.user = "active"
      /\ \A n \in Ids : session.answers[n] = <<>>
  BY DEF NewSession, ClientSessions
<1>2. ClientOK(session, requests)
  <2>1. Answered(session, requests)
    BY <1>1 DEF Answered, Told
  <2>2. Watched(session) /\ Ended(session) /\ Waiting(session, requests)
    BY <1>1 DEF Watched, Ended, Waiting, Queued
  <2> QED
    BY Zenon, <1>1, <2>1, <2>2 DEF ClientOK
<1> DEFINE M == MatchingRequests(session)
           R == MatchingResponses(session)
<1> HIDE DEF M, R
<1>3. /\ NoSession \in ServerSessions(M, R)
      /\ NoSession.state = "none" /\ NoSession.active_request = NULL
      /\ NoSession.request_queue = <<>> /\ NoSession.work = <<>> /\ NoSession.tasks = <<>>
  BY DEF NoSession, ServerSessions
<1>4. One(NoSession) /\ Phase(NoSession) /\ ~Busy(NoSession)
  BY Zenon, <1>3, NoneEmpty DEF One, Idle, Phase, Busy
<1>5. \A id \in Ids : sessions[id] = NoSession
  OBVIOUS
<1>6. Between(session, sessions, toServer, toClient) /\ Kept(connection, sessions)
  BY <1>3, <1>4, <1>5 DEF Between, Kept, M, R
<1>7. Clear(sessions, toServer, toClient)
  BY Zenon, <1>4, <1>5, NoneEmpty DEF Clear
<1>8. Placed(session.active_request, sessions, toServer, toClient)
  <2>1. toServer \in Seq(Messages) /\ toClient \in Seq(Responses \cup Events)
    OBVIOUS
  <2> QED
    BY Zenon, <1>7, <2>1, ClearPlaced
<1>9. Named(session)
  BY <1>1 DEF Named
<1>10. Orderly(session, link, sessions, toServer, toClient)
  BY Zenon, <1>1, <1>4, <1>5, <1>8, <1>9 DEF Orderly
<1>11. requests \in Nat /\ requests <= MaxRequests
  BY LinkAssumption
<1> QED
  BY Zenon, <1>1, <1>2, <1>6, <1>10, <1>11 DEF Inv

(* A step of the client: it goes on to t, sends what t has to send, and    *)
(* rest is left of what it received.                                       *)
LEMMA ClientBecomes ==
    ASSUME Inv, NEW t, NEW rest, NEW k \in Nat, k <= MaxRequests, Becomes(t, rest), requests' = k,
           UNCHANGED <<request_timeout, orderly, serverVars>>,
           ClientOK(t, k), rest \in Seq(MatchingResponses(session) \cup Events),
           MatchingRequests(session) \subseteq MatchingRequests(t),
           MatchingResponses(session) \subseteq MatchingResponses(t),
           t.sent \in Seq(MatchingRequests(t) \cup {Acknowledgement}),
           orderly =>
              /\ Opens(session, t) /\ Named(t)
              /\ \/ t.sent = <<>> /\ Placed(t.active_request, sessions, toServer, rest)
                 \/ \E x \in Messages : /\ t.sent = <<x>> /\ t.connection = "open"
                                        /\ Placed(t.active_request, sessions, Append(toServer, x), rest)
    PROVE  Inv'
<1> DEFINE c == [t EXCEPT !.sent = <<>>]
<1>1. session' = c
  BY Zenon DEF Becomes
<1>2. /\ c \in ClientSessions /\ c.sent = <<>> /\ c.connection = t.connection /\ c.id = t.id
      /\ c.last_cseq = t.last_cseq /\ c.active_request = t.active_request
      /\ c.pending_request_queue = t.pending_request_queue /\ c.request_timer = t.request_timer
      /\ c.inprogress_request_queue = t.inprogress_request_queue
      /\ c.resource_table = t.resource_table /\ c.term_state = t.term_state
      /\ c.answers = t.answers /\ c.user = t.user
  <2>1. t \in ClientSessions /\ <<>> \in Seq(Messages)
    BY DEF ClientOK
  <2>2. c \in ClientSessions
    BY Zenon, <2>1 DEF ClientSessions
  <2> QED
    BY Zenon, <2>1, <2>2 DEF ClientSessions
<1> HIDE DEF c
<1>3. ClientOK(c, k)
  <2>1. Answered(c, k) /\ Ended(c)
    BY Zenon, <1>2 DEF ClientOK, Answered, Ended
  <2>2. Watched(c)
    BY Zenon, <1>2 DEF ClientOK, Watched
  <2>3. t.user # "terminated" => Waiting(c, k)
    BY <1>2 DEF ClientOK, Waiting, Queued, Waits
  <2> QED
    BY Zenon, <1>2, <2>1, <2>2, <2>3 DEF ClientOK
<1>4. ClientOK(session, requests)'
  BY Zenon, <1>1, <1>3 DEF ClientOK, Watched
<1>5. MatchingRequests(c) = MatchingRequests(t) /\ MatchingResponses(c) = MatchingResponses(t)
  BY Zenon, <1>2 DEF MatchingRequests, MatchingResponses, Matches
<1> DEFINE M == MatchingRequests(t)
           R == MatchingResponses(t)
<1>6. toServer \in Seq(M \cup {Acknowledgement}) /\ rest \in Seq(R \cup Events)
  BY Zenon, SeqMonotone DEF Inv, Between
<1>7. toServer' \in Seq(M \cup {Acknowledgement})
  BY <1>6 DEF Becomes
<1>8. toClient' \in Seq(R \cup Events)
  BY <1>6 DEF Becomes
<1>9. sessions' = sessions /\ connection' = connection
  BY Zenon DEF serverVars
<1>10. sessions \in [Ids -> ServerSessions(M, R)] /\ \A id \in Ids : One(sessions[id])
  BY Zenon, ServerSessionsMonotone DEF Inv, Between
<1>11. Between(session', sessions', toServer', toClient')
  BY Zenon, <1>1, <1>5, <1>7, <1>8, <1>9, <1>10 DEF Between
<1>12. ASSUME orderly PROVE Orderly(session', link', sessions', toServer', toClient')
  <2>0. Orderly(session, link, sessions, toServer, toClient)
    BY Zenon, <1>12 DEF Inv
  <2>1. Named(c)
    BY Zenon, <1>2, <1>12 DEF Named
  <2>2. /\ link' = "up" <=> c.connection = "open"
        /\ link' = "down" <=> c.connection = "destroyed"
        /\ link' \in {"none", "up", "down"} /\ c.connection # "closed"
    BY Zenon, <1>2, <1>12, <2>0 DEF Orderly, Opens, Becomes
  <2>3. Placed(t.active_request, sessions, toServer', rest)
    <3>1. CASE t.sent = <<>> /\ Placed(t.active_request, sessions, toServer, rest)
      <4>1. toServer' = toServer
        BY Zenon, <1>6, <3>1, Concatenated DEF Becomes
      <4> QED
        BY Zenon, <3>1, <4>1
    <3>2. ASSUME NEW x \in Messages, t.sent = <<x>>, t.connection = "open",
                 Placed(t.active_request, sessions, Append(toServer, x), rest)
          PROVE  Placed(t.active_request, sessions, toServer', rest)
      <4>1. toServer \in Seq(Messages)
        BY Zenon, SeqMonotone, <1>6 DEF MatchingRequests, Messages
      <4>2. toServer' = toServer \o <<x>>
        BY Zenon, <1>2, <2>2, <3>2 DEF Becomes
      <4>3. toServer \o <<x>> = Append(toServer, x)
        BY Zenon, <3>2, <4>1, Concatenated
      <4> QED
        BY Zenon, <3>2, <4>2, <4>3
    <3> QED
      BY Zenon, <1>12, <3>1, <3>2
  <2>4. Placed(t.active_request, sessions, toServer', toClient')
    BY Zenon, <2>3, PlacedDropped DEF Becomes
  <2> QED
    BY Zenon, <1>1, <1>2, <1>9, <2>0, <2>1, <2>2, <2>4 DEF Orderly
<1>13. /\ (request_timeout \in BOOLEAN /\ orderly \in BOOLEAN)'
       /\ (requests \in Nat /\ requests <= MaxRequests)'
       /\ session'.sent = <<>> /\ Kept(connection', sessions')
       /\ orderly' => orderly /\ ~request_timeout'
  BY Zenon, <1>1, <1>2, <1>9 DEF Inv
<1> QED
  BY Zenon, <1>4, <1>11, <1>12, <1>13 DEF Inv
(* ... when its request is the same, or when nothing is under way *)
LEMMA ClientMoves ==
    ASSUME Inv, NEW t, NEW rest, NEW k \in Nat, k <= MaxRequests, Becomes(t, rest), requests' = k,
           UNCHANGED <<request_timeout, orderly, serverVars>>,
           ClientOK(t, k), Moves(session, t), rest \in Seq(MatchingResponses(session) \cup Events),
           orderly =>
              /\ Opens(session, t) /\ Named(t)
              /\ \/ Clear(sessions, toServer, rest)
                 \/ /\ t.active_request = session.active_request /\ t.sent = <<>>
                    /\ Placed(session.active_request, sessions, toServer, rest)
    PROVE  Inv'
<1>1. session \in ClientSessions /\ t \in ClientSessions
  BY Zenon DEF Inv, ClientOK
<1>2. /\ MatchingRequests(session) \subseteq MatchingRequests(t)
      /\ MatchingResponses(session) \subseteq MatchingResponses(t)
      /\ t.sent \in Seq(MatchingRequests(t) \cup {Acknowledgement})
  BY Zenon, <1>1, MatchingMoves
<1>3. toServer \in Seq(Messages) /\ rest \in Seq(Responses \cup Events)
  <2>1. /\ MatchingRequests(session) \cup {Acknowledgement} \subseteq Messages
        /\ MatchingResponses(session) \cup Events \subseteq Responses \cup Events
    BY Zenon DEF MatchingRequests, MatchingResponses, Messages
  <2>2. toServer \in Seq(MatchingRequests(session) \cup {Acknowledgement})
    BY Zenon DEF Inv, Between
  <2> QED
    BY Zenon, <2>1, <2>2, SeqMonotone
<1>4. ASSUME orderly, Clear(sessions, toServer, rest)
      PROVE  \/ t.sent = <<>> /\ Placed(t.active_request, sessions, toServer, rest)
             \/ \E x \in Messages : /\ t.sent = <<x>> /\ t.connection = "open"
                                    /\ Placed(t.active_request, sessions, Append(toServer, x), rest)
  <2>1. CASE t.sent = <<>>
    BY Zenon, <1>3, <1>4, <2>1, ClearPlaced
  <2>2. CASE t.active_request \in Requests /\ t.sent = <<t.active_request>> /\ t.connection = "open"
    <3>1. Placed(t.active_request, sessions, Append(toServer, t.active_request), rest)
      BY Zenon, <1>3, <1>4, <2>2, ClearPlaced
    <3>2. t.active_request \in Messages
      BY Zenon, <2>2 DEF Messages
    <3> QED
      BY Zenon, <2>2, <3>1, <3>2
  <2> QED
    BY Zenon, <2>1, <2>2 DEF Moves
<1> QED
  BY Zenon, <1>2, <1>4, ClientBecomes

(* What the invariant says of the types of the messages on the connection. *)
LEMMA InvTyped ==
    ASSUME Inv
    PROVE  /\ toServer \in Seq(Messages) /\ toClient \in Seq(Responses \cup Events)
           /\ toServer \in Seq(MatchingRequests(session) \cup {Acknowledgement})
           /\ toClient \in Seq(MatchingResponses(session) \cup Events)
           /\ MatchingRequests(session) \subseteq Requests
           /\ MatchingResponses(session) \subseteq Responses
           /\ orderly => Placed(session.active_request, sessions, toServer, toClient) /\ Named(session)
<1>1. /\ MatchingRequests(session) \cup {Acknowledgement} \subseteq Messages
      /\ MatchingResponses(session) \cup Events \subseteq Responses \cup Events
      /\ MatchingRequests(session) \subseteq Requests
      /\ MatchingResponses(session) \subseteq Responses
  BY Zenon DEF MatchingRequests, MatchingResponses, Messages
<1>2. /\ toServer \in Seq(MatchingRequests(session) \cup {Acknowledgement})
      /\ toClient \in Seq(MatchingResponses(session) \cup Events)
  BY Zenon DEF Inv, Between
<1>3. toServer \in Seq(Messages) /\ toClient \in Seq(Responses \cup Events)
  BY Zenon, <1>1, <1>2, SeqMonotone
<1> QED
  BY Zenon, <1>1, <1>2, <1>3 DEF Inv, Orderly

(* A request of the user *)
LEMMA ClientRequestInv ==
    ASSUME Inv, ClientRequest(~orderly), UNCHANGED <<orderly, serverVars>>
    PROVE  Inv'
<1> DEFINE k == requests + 1
<1>1. requests \in Nat /\ requests' = k /\ k \in Nat /\ k <= MaxRequests /\ k \in Ids
  BY LinkAssumption DEF Inv, ClientRequest, Ids
<1>2. PICK method \in Methods[k], resource \in Resources, good \in {TRUE, orderly}, fault \in Faults :
         /\ method \in {"TEARDOWN", "ANNOUNCE"} => resource \in session.resource_table
         /\ Becomes(MessageProcess(session, fault, Request(k, method, resource, good)), toClient)
  BY Zenon, <1>1 DEF ClientRequest, Inv
<1> HIDE DEF k
<1>3. method \in MethodIds /\ good \in BOOLEAN /\ (orderly => good)
  BY Zenon, <1>1, <1>2, ClientAssumption DEF Inv
<1> DEFINE r == Request(k, method, resource, good)
           t == MessageProcess(session, fault, r)
<1>4. r \in Requests /\ r.n = k /\ r.method = method /\ r.good = good
  BY <1>1, <1>3, RequestType
<1> HIDE DEF r
<1>5. /\ ClientOK(t, k) /\ Moves(session, t) /\ Opens(session, t)
      /\ session.active_request # NULL => t.active_request = session.active_request /\ t.sent = <<>>
      /\ Named(session) /\ r.good /\ (NeedsId(r) => session.id # 0) => Named(t)
  <2>1. request_timeout \in BOOLEAN /\ ClientOK(session, requests) /\ session.sent = <<>>
    BY Zenon DEF Inv
  <2>2. session.user \in {"active", "told"}
    BY Zenon DEF ClientRequest
  <2> QED
    BY Zenon, <1>1, <1>4, <2>1, <2>2, MessageProcessOK DEF k
<1>6. Becomes(t, toClient)
  BY Zenon, <1>2 DEF r
<1> HIDE DEF t
<1>7. ASSUME orderly
      PROVE  /\ Named(t)
             /\ \/ Clear(sessions, toServer, toClient)
                \/ /\ t.active_request = session.active_request /\ t.sent = <<>>
                   /\ Placed(session.active_request, sessions, toServer, toClient)
  <2>1. Named(t)
    BY Zenon, <1>2, <1>3, <1>4, <1>5, <1>7, InvTyped DEF Named, NeedsId
  <2>2. session.active_request = NULL => Clear(sessions, toServer, toClient)
    BY Zenon, <1>7, InvTyped, PlacedClear
  <2> QED
    BY Zenon, <1>5, <1>7, <2>1, <2>2, InvTyped
<1>8. UNCHANGED request_timeout
  BY Zenon DEF ClientRequest
<1> QED
  BY Zenon, <1>1, <1>5, <1>6, <1>7, <1>8, ClientMoves, InvTyped

(* The termination of the session *)
LEMMA ClientTerminateInv ==
    ASSUME Inv, ClientTerminate, UNCHANGED <<orderly, serverVars>>
    PROVE  Inv'
<1>1. PICK fault \in {"none", "send"} :
         Becomes(TerminateProcess([session EXCEPT !.user = "terminating"], fault), toClient)
  BY Zenon DEF ClientTerminate
<1> DEFINE t == TerminateProcess([session EXCEPT !.user = "terminating"], fault)
<1>2. /\ ClientOK(t, requests) /\ Moves(session, t) /\ Opens(session, t) /\ (Named(session) => Named(t))
      /\ session.active_request # NULL => t.active_request = session.active_request /\ t.sent = <<>>
  <2>1. request_timeout \in BOOLEAN /\ ClientOK(session, requests) /\ session.sent = <<>> /\ requests \in Nat
    BY Zenon DEF Inv
  <2>2. session.user \in {"active", "told"}
    BY Zenon DEF ClientTerminate
  <2> QED
    BY <2>1, <2>2, TerminateProcessOK
<1>3. Becomes(t, toClient)
  BY Zenon, <1>1
<1> HIDE DEF t
<1>4. ASSUME orderly
      PROVE  /\ Named(t)
             /\ \/ Clear(sessions, toServer, toClient)
                \/ /\ t.active_request = session.active_request /\ t.sent = <<>>
                   /\ Placed(session.active_request, sessions, toServer, toClient)
  <2>1. session.active_request = NULL => Clear(sessions, toServer, toClient)
    BY Zenon, <1>4, InvTyped, PlacedClear
  <2> QED
    BY Zenon, <1>2, <1>4, <2>1, InvTyped
<1>5. requests \in Nat /\ requests <= MaxRequests /\ requests' = requests /\ UNCHANGED request_timeout
  BY Zenon DEF Inv, ClientTerminate
<1> QED
  BY Zenon, <1>2, <1>3, <1>4, <1>5, ClientMoves, InvTyped
(* A message of the server arrives *)
LEMMA ClientReceiveInv ==
    ASSUME Inv, ClientReceive, UNCHANGED <<orderly, serverVars>>
    PROVE  Inv'
<1> DEFINE m == Head(toClient)
<1>1. /\ session.connection = "open" /\ toClient # <<>>
      /\ requests \in Nat /\ requests <= MaxRequests /\ requests' = requests /\ UNCHANGED request_timeout
  BY Zenon DEF Inv, ClientReceive
<1>2. /\ m \in MatchingResponses(session) \cup Events
      /\ Tail(toClient) \in Seq(MatchingResponses(session) \cup Events)
  BY <1>1, InvTyped
<1>3. request_timeout \in BOOLEAN /\ ClientOK(session, requests) /\ session.sent = <<>>
  BY Zenon DEF Inv
<1>4. CASE m \in Events
  <2> DEFINE t == [session EXCEPT !.sent = <<Acknowledgement>>]
  <2>1. Becomes(t, Tail(toClient))
    BY Zenon, <1>4, Kinds DEF ClientReceive
  <2>2. session \in ClientSessions /\ <<Acknowledgement>> \in Seq(Messages)
    BY <1>3 DEF ClientOK, Messages
  <2>3. t \in ClientSessions
    BY Zenon, <2>2 DEF ClientSessions
  <2>4. /\ t.sent = <<Acknowledgement>> /\ t.connection = session.connection /\ t.id = session.id
        /\ t.last_cseq = session.last_cseq /\ t.active_request = session.active_request
        /\ t.pending_request_queue = session.pending_request_queue
        /\ t.request_timer = session.request_timer
        /\ t.inprogress_request_queue = session.inprogress_request_queue
        /\ t.resource_table = session.resource_table /\ t.term_state = session.term_state
        /\ t.answers = session.answers /\ t.user = session.user
    BY Zenon, <2>2, <2>3 DEF ClientSessions
  <2> HIDE DEF t
  <2>5. ClientOK(t, requests)
    <3>1. Answered(t, requests) /\ Ended(t)
      BY Zenon, <1>3, <2>4 DEF ClientOK, Answered, Ended
    <3>2. Watched(t)
      BY Zenon, <1>3, <2>4 DEF ClientOK, Watched
    <3>3. t.user # "terminated" => Waiting(t, requests)
      BY <1>3, <2>4 DEF ClientOK, Waiting, Queued, Waits
    <3> QED
      BY Zenon, <2>3, <3>1, <3>2, <3>3 DEF ClientOK
  <2>6. /\ MatchingRequests(session) = MatchingRequests(t)
        /\ MatchingResponses(session) = MatchingResponses(t)
    BY Zenon, <2>4 DEF MatchingRequests, MatchingResponses, Matches
  <2>7. t.sent \in Seq(MatchingRequests(t) \cup {Acknowledgement})
    BY <2>4
  <2>8. ASSUME orderly
        PROVE  /\ Opens(session, t) /\ Named(t)
               /\ \E x \in Messages :
                     /\ t.sent = <<x>> /\ t.connection = "open"
                     /\ Placed(t.active_request, sessions, Append(toServer, x), Tail(toClient))
    <3>1. Opens(session, t)
      BY Zenon, <2>4 DEF Opens
    <3>2. Named(t)
      BY Zenon, <2>4, <2>8, InvTyped DEF Named
    <3>3. Placed(session.active_request, sessions, toServer, Tail(toClient))
      BY Zenon, <1>1, <2>8, InvTyped, PlacedEvents
    <3>4. Tail(toClient) \in Seq(Responses \cup Events)
      BY SMTT(40), <1>1, InvTyped
    <3>5. Placed(session.active_request, sessions, Append(toServer, Acknowledgement), Tail(toClient))
      BY Zenon, <3>3, <3>4, InvTyped, PlacedEvents
    <3>6. Acknowledgement \in Messages
      BY Zenon DEF Messages
    <3> QED
      BY Zenon, <1>1, <2>4, <3>1, <3>2, <3>5, <3>6
  <2> QED
    BY Zenon, <1>1, <1>2, <2>1, <2>5, <2>6, <2>7, <2>8, ClientBecomes
<1>5. CASE m \in MatchingResponses(session)
  <2>1. m \in Responses /\ Matches(session, m)
    BY Zenon, <1>5 DEF MatchingResponses
  <2>2. PICK fault \in {"none", "send"} : Becomes(MessageHandler(session, fault, m), Tail(toClient))
    BY Zenon, <2>1, Kinds DEF ClientReceive
  <2> DEFINE t == MessageHandler(session, fault, m)
  <2>3. Becomes(t, Tail(toClient))
    BY Zenon, <2>2
  <2>4. RequestPop(session, m) /\ m.status = "OK" => m.n = session.active_request.n
    BY Zenon, <2>1 DEF RequestPop, Matches
  <2>5. session.user # "terminated"
    BY Zenon, <1>1, <1>3 DEF ClientOK, Ended
  <2> HIDE DEF m
  <2>6. /\ ClientOK(t, requests) /\ Moves(session, t) /\ Opens(session, t)
        /\ /\ Named(session)
           /\ RequestPop(session, m) /\ m.status = "OK" /\ session.active_request.method = "SETUP"
              => m.session_id # 0
           => Named(t)
    BY SMTT(40), <1>1, <1>3, <2>1, <2>4, <2>5, MessageHandlerOK
  <2> HIDE DEF t
  <2>7. ASSUME orderly PROVE Named(t) /\ Clear(sessions, toServer, Tail(toClient))
    <3>1. Clear(sessions, toServer, Tail(toClient)) /\ m \in Expected(session.active_request)
      BY Zenon, <1>1, <2>1, <2>7, InvTyped, PlacedClear DEF m
    <3>2. m.status = "OK" /\ session.active_request.method = "SETUP" => m.session_id # 0
      BY Zenon, <3>1 DEF Expected
    <3> QED
      BY Zenon, <2>6, <2>7, <3>1, <3>2, InvTyped
  <2> QED
    BY Zenon, <1>1, <1>2, <2>3, <2>6, <2>7, ClientMoves
<1> QED
  BY Zenon, <1>2, <1>4, <1>5

(* The timer elapses; when all is orderly, there is none. *)
LEMMA ClientTimerInv ==
    ASSUME Inv, ClientTimer, UNCHANGED <<orderly, serverVars>>
    PROVE  Inv'
<1>1. /\ requests \in Nat /\ requests <= MaxRequests /\ requests' = requests /\ UNCHANGED request_timeout
      /\ request_timeout \in BOOLEAN /\ ClientOK(session, requests) /\ session.sent = <<>>
      /\ session.request_timer
  BY Zenon DEF Inv, ClientTimer
<1>2. session.user # "terminated" /\ request_timeout
  BY Zenon, <1>1 DEF ClientOK, Ended, Watched
<1>3. ~orderly
  BY Zenon, <1>2 DEF Inv
<1>4. PICK fault \in {"none", "send"} : Becomes(RequestCancel(session, fault, "TIMEOUT"), toClient)
  BY Zenon DEF ClientTimer
<1> DEFINE t == RequestCancel(session, fault, "TIMEOUT")
<1>5. ClientOK(t, requests) /\ Moves(session, t) /\ Becomes(t, toClient)
  BY Zenon, <1>1, <1>2, <1>4, RequestCancelOK
<1> HIDE DEF t
<1> QED
  BY Zenon, <1>1, <1>3, <1>5, ClientMoves, InvTyped

(* The connection is lost; when all is orderly, it is not. *)
LEMMA ClientDisconnectInv ==
    ASSUME Inv, ClientDisconnect, UNCHANGED <<orderly, serverVars>>
    PROVE  Inv'
<1>1. /\ requests \in Nat /\ requests <= MaxRequests /\ requests' = requests /\ UNCHANGED request_timeout
      /\ request_timeout \in BOOLEAN /\ ClientOK(session, requests) /\ session.sent = <<>>
      /\ session.connection = "open" /\ link = "down" /\ session' = OnDisconnect(session)
      /\ toServer' = toServer /\ toClient' = toClient
  BY Zenon DEF Inv, ClientDisconnect, linkVars
<1>2. ~orderly
  BY Zenon, <1>1 DEF Inv, Orderly
<1>3. ClientOK(session', requests) /\ Moves(session, session') /\ session'.sent = <<>>
  BY Zenon, <1>1, OnDisconnectOK
<1>4. session \in ClientSessions /\ session' \in ClientSessions
  BY Zenon, <1>1, <1>3 DEF ClientOK
<1> DEFINE M == MatchingRequests(session')
           R == MatchingResponses(session')
<1>5. MatchingRequests(session) \subseteq M /\ MatchingResponses(session) \subseteq R
  BY Zenon, <1>3, <1>4, MatchingMoves
<1> HIDE DEF M, R
<1>6. toServer \in Seq(M \cup {Acknowledgement}) /\ toClient \in Seq(R \cup Events)
  <2>1. /\ MatchingRequests(session) \cup {Acknowledgement} \subseteq M \cup {Acknowledgement}
        /\ MatchingResponses(session) \cup Events \subseteq R \cup Events
    BY Zenon, <1>5
  <2> QED
    BY Zenon, <2>1, InvTyped, SeqMonotone
<1>7. sessions \in [Ids -> ServerSessions(M, R)] /\ \A id \in Ids : One(sessions[id])
  BY Zenon, <1>5, ServerSessionsMonotone DEF Inv, Between
<1>8. sessions' = sessions /\ connection' = connection
  BY Zenon DEF serverVars
<1>9. Between(session', sessions', toServer', toClient')
  BY Zenon, <1>1, <1>6, <1>7, <1>8 DEF Between, M, R
<1>10. ClientOK(session, requests)'
  BY Zenon, <1>1, <1>3 DEF ClientOK, Watched
<1> QED
  BY Zenon, <1>1, <1>2, <1>3, <1>8, <1>9, <1>10 DEF Inv

(* The failure of the connection: all that was on it is lost. *)
LEMMA LinkFailsInv ==
    ASSUME Inv, ~orderly, LinkFails, UNCHANGED <<orderly, clientVars, serverVars>>
    PROVE  Inv'
<1>1. /\ request_timeout' = request_timeout /\ requests' = requests /\ session' = session
      /\ sessions' = sessions /\ connection' = connection /\ toServer' = <<>> /\ toClient' = <<>>
  BY Zenon DEF clientVars, serverVars, LinkFails
<1>2. ClientOK(session, requests)'
  BY Zenon, <1>1 DEF Inv, ClientOK, Watched
<1>3. Between(session', sessions', toServer', toClient')
  BY <1>1 DEF Inv, Between
<1> QED
  BY Zenon, <1>1, <1>2, <1>3 DEF Inv
-----------------------------------------------------------------------------
(* A step of the server *)
LEMMA ServerMoves ==
    ASSUME Inv, UNCHANGED <<orderly, clientVars, link>>,
           Between(session, sessions', toServer', toClient'), Kept(connection', sessions'),
           orderly => /\ \A id \in Ids : Phase(sessions'[id])
                      /\ Placed(session.active_request, sessions', toServer', toClient')
    PROVE  Inv'
<1>1. /\ request_timeout' = request_timeout /\ requests' = requests /\ session' = session
      /\ link' = link /\ orderly' = orderly
  BY Zenon DEF clientVars
<1>2. ClientOK(session, requests)'
  BY Zenon, <1>1 DEF Inv, ClientOK, Watched
<1>3. orderly => Orderly(session', link', sessions', toServer', toClient')
  BY Zenon, <1>1 DEF Inv, Orderly
<1>4. Between(session', sessions', toServer', toClient')
  BY Zenon, <1>1
<1> QED
  BY SMTT(40), <1>1, <1>2, <1>3, <1>4 DEF Inv

(* ... of one session, which goes on to s and may send *)
LEMMA ServerSessionMoves ==
    ASSUME Inv, UNCHANGED <<orderly, clientVars, link>>, toServer' = toServer,
           NEW id \in Ids, NEW s \in ServerSessions(MatchingRequests(session), MatchingResponses(session)),
           One(s), sessions' = [sessions EXCEPT ![id] = s],
           NEW out \in Seq(MatchingResponses(session) \cup Events),
           toClient' \in {toClient, toClient \o out},
           Kept(connection', sessions'),
           orderly =>
              /\ Phase(s)
              /\ Busy(s) => Busy(sessions[id]) /\ s.active_request = sessions[id].active_request
              /\ \/ out = <<>>
                 \/ \E e \in Events : out = <<e>>
                 \/ /\ Busy(sessions[id]) /\ ~Busy(s)
                    /\ \E r \in Expected(session.active_request) : out = <<r>>
    PROVE  Inv'
<1> DEFINE M == MatchingRequests(session)
           R == MatchingResponses(session)
<1>1. /\ sessions \in [Ids -> ServerSessions(M, R)] /\ \A other \in Ids : One(sessions[other])
      /\ toClient \in Seq(R \cup Events) /\ toServer \in Seq(M \cup {Acknowledgement})
  BY Zenon DEF Inv, Between
<1> HIDE DEF M, R
<1>2. sessions'[id] = s /\ \A other \in Ids \ {id} : sessions'[other] = sessions[other]
  BY Zenon, <1>1
<1>3. sessions' \in [Ids -> ServerSessions(M, R)] /\ \A other \in Ids : One(sessions'[other])
  BY Zenon, <1>1, <1>2 DEF M, R
<1>4. toClient' \in Seq(R \cup Events)
  <2>1. out \in Seq(R \cup Events)
    BY Zenon DEF R
  <2>2. toClient \o out \in Seq(R \cup Events)
    BY <1>1, <2>1
  <2> QED
    BY Zenon, <1>1, <2>2
<1>5. Between(session, sessions', toServer', toClient')
  BY Zenon, <1>1, <1>3, <1>4 DEF Between, M, R
<1>6. ASSUME orderly
      PROVE  /\ \A other \in Ids : Phase(sessions'[other])
             /\ Placed(session.active_request, sessions', toServer', toClient')
  <2> DEFINE a == session.active_request
  <2>1. Placed(a, sessions, toServer, toClient) /\ \A other \in Ids : Phase(sessions[other])
    BY Zenon, <1>6 DEF Inv, Orderly
  <2>2. \A other \in Ids : Phase(sessions'[other])
    BY Zenon, <1>2, <1>6, <2>1
  <2> HIDE DEF a
  <2>3. /\ Placed(a, sessions', toServer, toClient)
        /\ Busy(sessions[id]) /\ ~Busy(s) =>
              \A r \in Expected(a) : Placed(a, sessions', toServer, Append(toClient, r))
    BY Zenon, <1>1, <1>6, <2>1, PlacedSession
  <2>4. /\ \A e \in Events : Placed(a, sessions', toServer, Append(toClient, e))
    BY Zenon, <2>3, InvTyped, PlacedEvents
  <2>5. CASE toClient' = toClient
    BY Zenon, <2>2, <2>3, <2>5 DEF a
  <2>6. CASE toClient' = toClient \o out
    <3>1. CASE out = <<>>
      <4>1. toClient' = toClient
        BY Zenon, <1>1, <2>6, <3>1, Concatenated
      <4> QED
        BY Zenon, <2>5, <4>1
    <3>2. ASSUME NEW e \in Events, out = <<e>> PROVE Placed(a, sessions', toServer, toClient')
      <4>1. toClient' = Append(toClient, e)
        BY SMTT(40), <2>6, <3>2, InvTyped, Concatenated
      <4> QED
        BY Zenon, <2>4, <4>1
    <3>3. ASSUME Busy(sessions[id]), ~Busy(s), NEW r \in Expected(a), out = <<r>>
          PROVE  Placed(a, sessions', toServer, toClient')
      <4>1. r \in Responses \cup Events
        BY Zenon DEF Expected
      <4>2. toClient' = Append(toClient, r)
        BY Zenon, <2>6, <3>3, <4>1, InvTyped, Concatenated
      <4> QED
        BY Zenon, <2>3, <3>3, <4>2
    <3> QED
      BY Zenon, <1>6, <2>2, <3>1, <3>2, <3>3 DEF a
  <2> QED
    BY Zenon, <2>5, <2>6
<1> QED
  BY Zenon, <1>5, <1>6, ServerMoves

(* rtsp_server_connection_accept *)
LEMMA ServerAcceptInv ==
    ASSUME Inv, ServerAccept, UNCHANGED <<orderly, clientVars>>
    PROVE  Inv'
<1>1. /\ connection' = "open" /\ sessions' = sessions /\ UNCHANGED link
      /\ toServer' = toServer /\ toClient' = toClient
  BY Zenon DEF ServerAccept, linkVars
<1>2. Between(session, sessions', toServer', toClient')
  BY Zenon, <1>1 DEF Inv
<1>3. Kept(connection', sessions')
  BY Zenon, <1>1 DEF Kept
<1>4. orderly => /\ \A id \in Ids : Phase(sessions'[id])
                 /\ Placed(session.active_request, sessions', toServer', toClient')
  BY Zenon, <1>1 DEF Inv, Orderly
<1> QED
  BY Zenon, <1>1, <1>2, <1>3, <1>4, ServerMoves

(* The MRCP session of a server session answers, or has terminated. *)
LEMMA MrcpSessionInv ==
    ASSUME Inv, NEW id \in Ids, MrcpSession(id), UNCHANGED <<orderly, clientVars>>
    PROVE  Inv'
<1> DEFINE M == MatchingRequests(session)
           R == MatchingResponses(session)
           o == sessions[id]
<1>1. sessions \in [Ids -> ServerSessions(M, R)] /\ One(o) /\ Served(M, R)
  BY Zenon, MatchingServed DEF Inv, Between
<1>2. /\ UNCHANGED link /\ toServer' = toServer /\ toClient' = toClient /\ connection' = connection
      /\ o.obj /\ o.work # <<>>
  BY Zenon DEF MrcpSession, linkVars
<1>3. o \in ServerSessions(M, R) /\ (orderly => Phase(o))
  BY Zenon, <1>1 DEF Inv, Orderly
<1> HIDE DEF M, R
<1>4. o.work \in Seq(M \cup {NULL}) /\ o.tasks \in Seq(R \cup Events \cup {NULL}) /\ M \subseteq Requests
  BY Zenon, <1>1, <1>3 DEF ServerSessions, Served
<1>5. PICK w, b, x :
         /\ sessions' = [sessions EXCEPT ![id] = [o EXCEPT !.work = w, !.obj = b, !.tasks = Append(o.tasks, x)]]
         /\ w = Tail(o.work)
         /\ \/ Head(o.work) = NULL /\ b = FALSE /\ x = NULL
            \/ /\ Head(o.work) # NULL /\ b = TRUE
               /\ \E status \in {"OK", "ERROR"} : x = Response(o.active_request, status, 0)
  <2>1. CASE Head(o.work) = NULL
    <3>1. sessions' = [sessions EXCEPT ![id] = [o EXCEPT !.work = Tail(o.work), !.obj = FALSE,
                                                         !.tasks = Append(o.tasks, NULL)]]
      BY Zenon, <1>1, <2>1 DEF MrcpSession
    <3> QED
      BY Zenon, <2>1, <3>1
  <2>2. CASE Head(o.work) # NULL
    <3>1. PICK status \in {"OK", "ERROR"} :
             sessions' = [sessions EXCEPT ![id].work = Tail(@),
                             ![id].tasks = Append(@, Response(o.active_request, status, 0))]
      BY Zenon, <2>2 DEF MrcpSession
    <3> DEFINE x == Response(o.active_request, status, 0)
    <3> HIDE DEF x
    <3>2. sessions' = [sessions EXCEPT ![id] = [o EXCEPT !.work = Tail(o.work), !.tasks = Append(o.tasks, x)]]
      BY Zenon, <1>1, <3>1 DEF x
    <3>3. [o EXCEPT !.work = Tail(o.work), !.obj = TRUE, !.tasks = Append(o.tasks, x)]
          = [o EXCEPT !.work = Tail(o.work), !.tasks = Append(o.tasks, x)]
      BY Zenon, <1>2, <1>3 DEF ServerSessions
    <3> QED
      BY Zenon, <2>2, <3>2, <3>3 DEF x
  <2> QED
    BY Zenon, <2>1, <2>2
<1> DEFINE s == [o EXCEPT !.work = w, !.obj = b, !.tasks = Append(o.tasks, x)]
<1>6. w \in Seq(M \cup {NULL}) /\ Head(o.work) \in M \cup {NULL} /\ NULL \notin Requests /\ NULL \notin Responses
  BY SMTT(40), <1>2, <1>4, <1>5, LinkAssumption
<1>7. Head(o.work) # NULL => /\ o.active_request \in M /\ x \in R /\ x \in Responses
                             /\ NoneIn(w, Requests) /\ NoneIn(o.tasks, Responses)
  <2> SUFFICES ASSUME Head(o.work) # NULL
               PROVE  /\ o.active_request \in M /\ x \in R /\ x \in Responses
                      /\ NoneIn(w, Requests) /\ NoneIn(o.tasks, Responses)
    OBVIOUS
  <2>1. Head(o.work) \in Requests
    BY Zenon, <1>4, <1>6
  <2>2. ~NoneIn(o.work, Requests) /\ NoneIn(w, Requests)
    BY Zenon, <1>1, <1>2, <1>4, <1>5, <2>1, NoneTail DEF One
  <2>3. o.active_request # NULL /\ NoneIn(o.tasks, Responses)
    BY Zenon, <1>1, <2>2 DEF One, Idle
  <2>4. o.active_request \in M
    BY Zenon, <1>3, <2>3 DEF ServerSessions
  <2>5. x \in R
    BY Zenon, <1>1, <1>5, <2>4 DEF Served
  <2> QED
    BY Zenon, <1>1, <2>2, <2>3, <2>4, <2>5 DEF Served
<1>8. x \in R \cup Events \cup {NULL} /\ b \in BOOLEAN
  BY Zenon, <1>5, <1>7
<1>9. Append(o.tasks, x) \in Seq(R \cup Events \cup {NULL})
  BY <1>4, <1>8
<1>10. s \in ServerSessions(M, R)
  BY Zenon, <1>3, <1>6, <1>8, <1>9 DEF ServerSessions
<1>11. /\ s.work = w /\ s.obj = b /\ s.tasks = Append(o.tasks, x) /\ s.state = o.state
       /\ s.active_request = o.active_request /\ s.request_queue = o.request_queue
       /\ s.terminating = o.terminating /\ s.terminations = o.terminations
  BY Zenon, <1>3 DEF ServerSessions
<1>12. sessions' = [sessions EXCEPT ![id] = s]
  BY Zenon, <1>5
<1> HIDE DEF s
<1>13. One(s)
  <2>1. /\ NoneIn(o.work, Requests) => NoneIn(w, Requests)
        /\ AtMostOne(o.work, Requests) => AtMostOne(w, Requests)
    BY Zenon, <1>2, <1>4, <1>5, NoneTail
  <2>2. CASE Head(o.work) = NULL
    <3>1. /\ NoneIn(o.tasks, Responses) => NoneIn(s.tasks, Responses)
          /\ AtMostOne(o.tasks, Responses) => AtMostOne(s.tasks, Responses)
      BY SMTT(40), <1>4, <1>5, <1>6, <1>8, <1>11, <2>2, NoneAppend, SomeAppend
    <3> QED
      BY Zenon, <1>1, <1>11, <2>1, <3>1 DEF One, Idle
  <2>3. CASE Head(o.work) # NULL
    <3>1. AtMostOne(s.tasks, Responses) /\ AtMostOne(s.work, Requests)
      BY Zenon, <1>1, <1>4, <1>7, <1>8, <1>11, <2>1, <2>3, NoneAppend DEF One
    <3>2. s.active_request # NULL
      BY Zenon, <1>4, <1>6, <1>7, <1>11, <2>3
    <3> QED
      BY Zenon, <1>7, <1>11, <2>3, <3>1, <3>2 DEF One
  <2> QED
    BY Zenon, <2>2, <2>3
<1>14. ASSUME orderly PROVE Phase(s)
  <2>1. Phase(o) /\ o # NoSession /\ ~Stopped(o) /\ ~Gone(o)
    BY <1>2, <1>3, <1>14 DEF NoSession, Stopped, Gone
  <2>2. CASE Running(o)
    <3>1. Head(o.work) \in Requests /\ w \in Seq(Requests)
      BY <1>2, <1>5, <2>2 DEF Running
    <3>2. x \in Responses /\ b = TRUE
      BY Zenon, <1>5, <1>6, <1>7, <3>1
    <3>3. Append(o.tasks, x) \in Seq(Responses \cup Events)
      BY <2>2, <3>2 DEF Running
    <3> QED
      BY Zenon, <1>11, <2>1, <2>2, <3>1, <3>2, <3>3 DEF Phase, Running
  <2>3. CASE Stopping(o)
    <3>1. Head(o.work) = NULL /\ w = <<>>
      BY <1>5, <2>3 DEF Stopping
    <3>2. s.tasks = Append(o.tasks, NULL) /\ ~s.obj /\ o.tasks \in Seq(Events)
      BY Zenon, <1>5, <1>11, <2>3, <3>1 DEF Stopping
    <3> QED
      BY Zenon, <1>11, <2>1, <2>3, <3>1, <3>2 DEF Phase, Stopping, Stopped
  <2> QED
    BY Zenon, <2>1, <2>2, <2>3 DEF Phase
<1>15. Kept(connection', sessions')
  BY Zenon, <1>1, <1>2, <1>11, <1>12 DEF Inv, Kept
<1>16. Busy(s) => Busy(o) /\ s.active_request = o.active_request
  BY Zenon, <1>11 DEF Busy
<1>17. <<>> \in Seq(R \cup Events)
  OBVIOUS
<1> QED
  BY Zenon, <1>2, <1>10, <1>12, <1>13, <1>14, <1>15, <1>16, <1>17, ServerSessionMoves DEF M, R
(* What holds of a session of the server *)
LEMMA InvSession ==
    ASSUME Inv, NEW id \in Ids
    PROVE  /\ sessions \in [Ids -> ServerSessions(MatchingRequests(session), MatchingResponses(session))]
           /\ sessions[id] \in ServerSessions(MatchingRequests(session), MatchingResponses(session))
           /\ One(sessions[id])
           /\ orderly => /\ Phase(sessions[id])
                         /\ Busy(sessions[id]) => sessions[id].active_request = session.active_request
           /\ Served(MatchingRequests(session), MatchingResponses(session))
BY Zenon, MatchingServed DEF Inv, Between, Orderly, Placed

(* mrcp_unirtsp_on_session_control, an event of an MRCP session *)
LEMMA MrcpEventInv ==
    ASSUME Inv, NEW id \in Ids, MrcpEvent(id), UNCHANGED <<orderly, clientVars>>
    PROVE  Inv'
<1> DEFINE M == MatchingRequests(session)
           R == MatchingResponses(session)
           o == sessions[id]
<1>1. /\ sessions \in [Ids -> ServerSessions(M, R)] /\ o \in ServerSessions(M, R) /\ One(o)
      /\ (orderly => Phase(o)) /\ Served(M, R)
  BY Zenon, InvSession
<1>2. /\ UNCHANGED link /\ toServer' = toServer /\ toClient' = toClient /\ connection' = connection /\ o.obj
  BY Zenon DEF MrcpEvent, linkVars
<1>3. PICK resource \in Resources :
         sessions' = [sessions EXCEPT ![id].tasks = Append(@, Announce(resource))]
  BY Zenon DEF MrcpEvent
<1> DEFINE e == Announce(resource)
           s == [o EXCEPT !.tasks = Append(o.tasks, e)]
<1> HIDE DEF M, R
<1>4. e \in Events /\ e \notin Responses
  BY Zenon, Kinds DEF Announce, Events
<1>5. sessions' = [sessions EXCEPT ![id] = s]
  BY Zenon, <1>1, <1>3
<1> HIDE DEF e
<1>6. o.tasks \in Seq(R \cup Events \cup {NULL})
  BY Zenon, <1>1 DEF ServerSessions
<1>7. Append(o.tasks, e) \in Seq(R \cup Events \cup {NULL})
  BY <1>4, <1>6
<1>8. s \in ServerSessions(M, R)
  BY Zenon, <1>1, <1>7 DEF ServerSessions
<1>9. /\ s.work = o.work /\ s.obj = o.obj /\ s.tasks = Append(o.tasks, e) /\ s.state = o.state
      /\ s.active_request = o.active_request /\ s.request_queue = o.request_queue
      /\ s.terminating = o.terminating /\ s.terminations = o.terminations
  BY Zenon, <1>1 DEF ServerSessions
<1> HIDE DEF s
<1>10. One(s)
  <2>1. /\ NoneIn(o.tasks, Responses) => NoneIn(s.tasks, Responses)
        /\ AtMostOne(o.tasks, Responses) => AtMostOne(s.tasks, Responses)
    BY SMTT(40), <1>4, <1>6, <1>9, NoneAppend, SomeAppend
  <2> QED
    BY Zenon, <1>1, <1>9, <2>1 DEF One, Idle
<1>11. ASSUME orderly PROVE Phase(s)
  <2>1. Phase(o) /\ o # NoSession /\ ~Stopped(o) /\ ~Gone(o)
    BY SMTT(40), <1>1, <1>2, <1>11 DEF NoSession, Stopped, Gone
  <2>2. /\ o.tasks \in Seq(Responses \cup Events) => Append(o.tasks, e) \in Seq(Responses \cup Events)
        /\ o.tasks \in Seq(Events) => Append(o.tasks, e) \in Seq(Events)
    BY <1>4
  <2>3. CASE Running(o)
    BY Zenon, <1>9, <2>1, <2>2, <2>3 DEF Phase, Running
  <2>4. CASE Stopping(o)
    BY Zenon, <1>9, <2>1, <2>2, <2>4 DEF Phase, Stopping
  <2> QED
    BY Zenon, <2>1, <2>3, <2>4 DEF Phase
<1>12. Kept(connection', sessions')
  BY Zenon, <1>1, <1>2, <1>5, <1>9 DEF Inv, Kept
<1>13. Busy(s) => Busy(o) /\ s.active_request = o.active_request
  BY Zenon, <1>9 DEF Busy
<1>14. <<>> \in Seq(R \cup Events)
  OBVIOUS
<1> QED
  BY ZenonT(40), <1>2, <1>5, <1>8, <1>10, <1>11, <1>12, <1>13, <1>14, ServerSessionMoves DEF M, R

(* A task is taken off the queue of a session. *)
Taken(M, R, o, s) ==
    /\ s \in ServerSessions(M, R) /\ One(s)
    /\ Head(o.tasks) \in R \cup Events \cup {NULL}
    /\ s.tasks = Tail(o.tasks) /\ s.state = o.state /\ s.active_request = o.active_request
    /\ Head(o.tasks) \in Responses => Idle(s) /\ o.active_request # NULL
    /\ Phase(o) /\ Head(o.tasks) \in Events => Phase(s)
    /\ Phase(o) /\ Head(o.tasks) \in Responses => Phase(s) /\ Running(s)
    /\ Phase(o) /\ Head(o.tasks) = NULL => Stopped(o) /\ o.request_queue = <<>> /\ s.tasks = <<>>

(* What is left of a session when rtsp_server_task_msg_process has taken a *)
(* message.                                                                *)
LEMMA TaskTaken ==
    ASSUME NEW M, NEW R, NEW o \in ServerSessions(M, R), One(o), o.tasks # <<>>
    PROVE  Taken(M, R, o, [o EXCEPT !.tasks = Tail(o.tasks)])
<1> DEFINE s == [o EXCEPT !.tasks = Tail(o.tasks)]
<1>1. /\ o.tasks \in Seq(R \cup Events \cup {NULL}) /\ Head(o.tasks) \in R \cup Events \cup {NULL}
      /\ Tail(o.tasks) \in Seq(R \cup Events \cup {NULL})
  BY DEF ServerSessions
<1>2. s \in ServerSessions(M, R)
  BY Zenon, <1>1 DEF ServerSessions
<1>3. /\ s.work = o.work /\ s.obj = o.obj /\ s.tasks = Tail(o.tasks) /\ s.state = o.state
      /\ s.active_request = o.active_request /\ s.request_queue = o.request_queue
      /\ s.terminating = o.terminating /\ s.terminations = o.terminations
  BY Zenon DEF ServerSessions
<1> HIDE DEF s
<1>4. /\ NoneIn(o.tasks, Responses) => NoneIn(s.tasks, Responses) /\ Head(o.tasks) \notin Responses
      /\ AtMostOne(o.tasks, Responses) => AtMostOne(s.tasks, Responses)
      /\ AtMostOne(o.tasks, Responses) /\ Head(o.tasks) \in Responses => NoneIn(s.tasks, Responses)
  BY Zenon, <1>1, <1>3, NoneTail
<1>5. One(s)
  BY Zenon, <1>3, <1>4 DEF One, Idle
<1>6. Head(o.tasks) \in Responses => Idle(s) /\ o.active_request # NULL
  BY Zenon, <1>3, <1>4 DEF One, Idle
<1>7. ASSUME Phase(o)
      PROVE  /\ Head(o.tasks) \in Events => Phase(s)
             /\ Head(o.tasks) \in Responses => Phase(s) /\ Running(s)
             /\ Head(o.tasks) = NULL => Stopped(o) /\ o.request_queue = <<>> /\ s.tasks = <<>>
  <2>1. o # NoSession /\ ~Gone(o) /\ o.request_queue = <<>> /\ s.request_queue = <<>>
    BY <1>3, <1>7 DEF NoSession, Gone, Phase
  <2>2. CASE Running(o)
    <3>1. Tail(o.tasks) \in Seq(Responses \cup Events) /\ Head(o.tasks) \in Responses \cup Events
      BY <2>2 DEF Running
    <3>2. Running(s) /\ Head(o.tasks) # NULL
      BY Zenon, <1>3, <2>2, <3>1, LinkAssumption DEF Running
    <3> QED
      BY Zenon, <2>1, <3>2 DEF Phase
  <2>3. CASE Stopping(o)
    <3>1. Tail(o.tasks) \in Seq(Events) /\ Head(o.tasks) \in Events
      BY <2>3 DEF Stopping
    <3>2. Stopping(s) /\ Head(o.tasks) # NULL /\ Head(o.tasks) \notin Responses
      BY Zenon, <1>3, <2>3, <3>1, Kinds DEF Stopping
    <3> QED
      BY Zenon, <2>1, <3>2 DEF Phase
  <2>4. CASE Stopped(o)
    <3>1. PICK q \in Seq(Events) : o.tasks = Append(q, NULL)
      BY Zenon, <2>4 DEF Stopped
    <3>2. CASE q = <<>>
      <4>1. Head(o.tasks) = NULL /\ Tail(o.tasks) = <<>>
        BY <3>1, <3>2
      <4> QED
        BY Zenon, <1>3, <2>1, <2>4, <4>1, LinkAssumption
    <3>3. CASE q # <<>>
      <4>1. Head(o.tasks) = Head(q) /\ Tail(o.tasks) = Append(Tail(q), NULL)
        BY <3>1, <3>3
      <4>2. Head(q) \in Events /\ Tail(q) \in Seq(Events)
        BY <3>3
      <4>3. Stopped(s) /\ Head(o.tasks) # NULL /\ Head(o.tasks) \notin Responses
        BY ZenonT(40), <1>3, <2>4, <4>1, <4>2, Kinds DEF Stopped
      <4> QED
        BY Zenon, <2>1, <4>3 DEF Phase
    <3> QED
      BY Zenon, <3>2, <3>3
  <2> QED
    BY Zenon, <1>7, <2>1, <2>2, <2>3, <2>4 DEF Phase
<1>8. Taken(M, R, o, s)
  BY Zenon, <1>1, <1>2, <1>3, <1>5, <1>6, <1>7 DEF Taken
<1> QED
  BY Zenon, <1>8 DEF s

(* rtsp_server_task_msg_process *)
LEMMA ServerTaskInv ==
    ASSUME Inv, NEW id \in Ids, ServerTask(id), UNCHANGED <<orderly, clientVars>>
    PROVE  Inv'
<1> DEFINE M == MatchingRequests(session)
           R == MatchingResponses(session)
           a == session.active_request
           o == sessions[id]
           task == Head(o.tasks)
           s == [o EXCEPT !.tasks = Tail(o.tasks)]
<1>1. /\ sessions \in [Ids -> ServerSessions(M, R)] /\ o \in ServerSessions(M, R) /\ One(o)
      /\ Served(M, R) /\ (orderly => Phase(o) /\ (Busy(o) => o.active_request = a))
  BY Zenon, InvSession
<1>2. UNCHANGED link /\ toServer' = toServer /\ o.tasks # <<>>
  BY Zenon DEF ServerTask
<1>3. /\ s \in ServerSessions(M, R) /\ One(s) /\ task \in R \cup Events \cup {NULL}
      /\ s.tasks = Tail(o.tasks) /\ s.state = o.state /\ s.active_request = o.active_request
      /\ task \in Responses => Idle(s) /\ o.active_request # NULL
      /\ Phase(o) /\ task \in Events => Phase(s)
      /\ Phase(o) /\ task \in Responses => Phase(s) /\ Running(s)
      /\ Phase(o) /\ task = NULL => Stopped(o) /\ o.request_queue = <<>> /\ s.tasks = <<>>
  <2>1. Taken(M, R, o, s)
    BY Zenon, <1>1, <1>2, TaskTaken
  <2> HIDE DEF M, R, o, s
  <2> QED
    BY Zenon, <2>1 DEF Taken
<1>4. R \subseteq Responses /\ M \subseteq Requests /\ id \in Nat /\ id # 0 /\ NULL \notin Requests
  BY <1>1, LinkAssumption DEF Served, Ids
<1>5. \A out : Sends(out) => toClient' \in {toClient, toClient \o out}
  BY Zenon DEF Sends
<1>6. CASE task = NULL
  <2> DEFINE t == [s EXCEPT !.state = "destroyed"]
             out == IF o.active_request = NULL THEN <<>> ELSE <<Response(o.active_request, "OK", id)>>
  <2>1. /\ Sends(out)
        /\ sessions' = [sessions EXCEPT ![id].state = "destroyed", ![id].tasks = Tail(@)]
        /\ connection' = IF connection = "closed" /\ Live = {id} THEN "destroyed" ELSE connection
    BY Zenon, <1>6 DEF ServerTask, DoTerminate
  <2>2. sessions' = [sessions EXCEPT ![id] = t]
    BY Zenon, <1>1, <2>1
  <2>3. t \in ServerSessions(M, R)
    BY Zenon, <1>3 DEF ServerSessions
  <2>4. /\ t.work = o.work /\ t.obj = o.obj /\ t.tasks = s.tasks /\ t.state = "destroyed"
        /\ t.active_request = o.active_request /\ t.request_queue = o.request_queue
        /\ t.terminations = o.terminations /\ t.work = s.work
    BY Zenon, <1>1, <1>3 DEF ServerSessions
  <2> HIDE DEF t, s, M, R, o
  <2>5. One(t) /\ ~Busy(t)
    BY Zenon, <1>3, <2>4 DEF One, Idle, Busy
  <2>6. o.active_request # NULL => o.active_request \in M
    BY Zenon, <1>1 DEF ServerSessions
  <2>7. out \in Seq(R \cup Events)
    <3>1. CASE o.active_request = NULL
      BY <3>1
    <3>2. CASE o.active_request # NULL
      <4>1. Response(o.active_request, "OK", id) \in R
        BY Zenon, <1>1, <1>4, <2>6, <3>2 DEF Served
      <4> QED
        BY <3>2, <4>1
    <3> QED
      BY Zenon, <3>1, <3>2
  <2>8. Kept(connection', sessions')
    <3>1. /\ sessions'[id].state # "live"
          /\ \A other \in Ids \ {id} : sessions'[other].state = sessions[other].state
      BY Zenon, <1>1, <2>2, <2>4
    <3>2. CASE connection = "closed" /\ Live = {id}
      BY SMTT(40), <3>1, <3>2 DEF Kept, Live
    <3>3. CASE ~(connection = "closed" /\ Live = {id})
      BY Zenon, <2>1, <3>1, <3>3 DEF Inv, Kept
    <3> QED
      BY Zenon, <3>2, <3>3
  <2>9. ASSUME orderly
        PROVE  /\ Phase(t)
               /\ \/ out = <<>>
                  \/ Busy(o) /\ \E r \in Expected(a) : out = <<r>>
    <3>1. Stopped(o) /\ o.request_queue = <<>> /\ s.tasks = <<>>
      BY Zenon, <1>1, <1>3, <1>6, <2>9
    <3>2. Phase(t)
      BY Zenon, <2>4, <3>1 DEF Stopped, Gone, Phase
    <3>3. CASE o.active_request # NULL
      <4>1. Busy(o) /\ o.active_request = a
        BY Zenon, <1>1, <2>9, <3>1, <3>3 DEF Busy, Stopped
      <4>2. /\ Response(o.active_request, "OK", id) \in Responses
            /\ Response(o.active_request, "OK", id).session_id = id
        BY SMTT(40), <1>4, <2>6, <3>3, ResponseType
      <4>3. Response(o.active_request, "OK", id) \in Expected(a)
        BY Zenon, <1>4, <3>3, <4>1, <4>2 DEF Expected
      <4> QED
        BY Zenon, <3>2, <3>3, <4>1, <4>3
    <3> QED
      BY Zenon, <3>2, <3>3
  <2> HIDE DEF out
  <2> QED
    BY ZenonT(40), <1>2, <1>5, <2>1, <2>2, <2>3, <2>5, <2>7, <2>8, <2>9, ServerSessionMoves DEF M, R, o
<1>7. CASE task # NULL
  <2>1. /\ IF task.type = "EVENT"
           THEN SetSession(id, With(s, IF task.resource \in s.resource_table THEN <<task>> ELSE <<>>))
           ELSE SetSession(id, SessionResponse(s, id, task))
        /\ connection' = connection
    BY Zenon, <1>7 DEF ServerTask
  <2> HIDE DEF s, M, R, o, task
  <2>2. CASE task \in Events
    <3> DEFINE out == IF task.resource \in s.resource_table THEN <<task>> ELSE <<>>
    <3>1. sessions' = [sessions EXCEPT ![id] = s] /\ Sends(out)
      BY Zenon, <2>1, <2>2, Kinds DEF SetSession, With
    <3>2. out \in Seq(R \cup Events) /\ (out = <<>> \/ \E e \in Events : out = <<e>>)
      <4>1. <<task>> \in Seq(R \cup Events) /\ <<>> \in Seq(R \cup Events) /\ \E e \in Events : <<task>> = <<e>>
        BY <2>2
      <4> QED
        BY Zenon, <4>1
    <3> HIDE DEF out
    <3>3. Kept(connection', sessions')
      BY Zenon, <1>1, <1>3, <2>1, <3>1 DEF Inv, Kept, o
    <3>4. Busy(s) => Busy(o) /\ s.active_request = o.active_request
      BY Zenon, <1>3 DEF Busy
    <3>5. orderly => Phase(s)
      BY Zenon, <1>1, <1>3, <2>2
    <3> QED
      BY Zenon, <1>2, <1>3, <1>5, <3>1, <3>2, <3>3, <3>4, <3>5, ServerSessionMoves DEF M, R, o
  <2>3. CASE task \in R
    <3> DEFINE h == SessionResponse(s, id, task)
    <3>1. task \in Responses /\ task.type # "EVENT"
      BY Zenon, <1>4, <2>3, Kinds
    <3>2. sessions' = [sessions EXCEPT ![id] = h.session] /\ Sends(h.out)
      BY Zenon, <2>1, <3>1 DEF SetSession
    <3>3. Idle(s)
      BY Zenon, <1>3, <3>1
    <3>4. ResponseHandled(M, R, s, id, h)
      BY SMTT(40), <1>1, <1>3, <1>4, <2>3, <3>3, SessionResponseOK
    <3> HIDE DEF h
    <3>5. h.session \in ServerSessions(M, R) /\ One(h.session) /\ h.out \in Seq(R \cup Events)
      BY Zenon, <3>4 DEF ResponseHandled
    <3>6. Kept(connection', sessions')
      <4>1. h.session.state = o.state
        BY Zenon, <1>3, <3>4 DEF ResponseHandled
      <4> QED
        BY Zenon, <1>1, <2>1, <3>2, <4>1 DEF Inv, Kept, o
    <3>7. ASSUME orderly
          PROVE  /\ Phase(h.session) /\ ~Busy(h.session) /\ Busy(o)
                 /\ \E r \in Expected(a) : h.out = <<r>>
      <4>1. Phase(s) /\ Running(s) /\ s.active_request # NULL /\ s.active_request = o.active_request
        BY Zenon, <1>1, <1>3, <3>1, <3>7
      <4>2. Busy(o) /\ o.active_request = a
        BY Zenon, <1>1, <1>3, <3>7, <4>1 DEF Busy, Running
      <4>3. /\ Phase(h.session) /\ h.session.active_request = NULL
            /\ \E r \in R : h.out = <<r>> /\ (s.active_request.method # "DESCRIBE" => r.session_id = id)
        BY Zenon, <3>4, <4>1 DEF ResponseHandled
      <4>4. PICK r \in R : h.out = <<r>> /\ (a.method # "DESCRIBE" => r.session_id = id)
        BY Zenon, <4>1, <4>2, <4>3
      <4>5. r \in Expected(a)
        BY Zenon, <1>4, <4>1, <4>2, <4>4 DEF Expected
      <4> QED
        BY Zenon, <4>2, <4>3, <4>4, <4>5 DEF Busy
    <3> QED
      BY ZenonT(40), <1>2, <1>5, <3>2, <3>5, <3>6, <3>7, ServerSessionMoves DEF M, R, o
  <2> QED
    BY Zenon, <1>3, <1>7, <2>2, <2>3
<1> QED
  BY Zenon, <1>6, <1>7
(* rtsp_server_connection_close: when all is orderly, the client has       *)
(* terminated, and no session has a request.                               *)
LEMMA ServerCloseInv ==
    ASSUME Inv, ServerClose, UNCHANGED <<orderly, clientVars>>
    PROVE  Inv'
<1> DEFINE M == MatchingRequests(session)
           R == MatchingResponses(session)
<1>1. /\ UNCHANGED link /\ toServer' = toServer /\ toClient' = toClient /\ link = "down"
      /\ connection' = IF Live = {} THEN "destroyed" ELSE "closed"
      /\ sessions' = [id \in Ids |->
            IF id \in Live /\ ~sessions[id].terminating THEN TerminateRequest(sessions[id])
            ELSE sessions[id]]
  BY Zenon DEF ServerClose, linkVars
<1>2. ASSUME NEW id \in Ids
      PROVE  /\ sessions'[id] \in ServerSessions(M, R) /\ One(sessions'[id])
             /\ sessions'[id].state = sessions[id].state
             /\ sessions'[id].active_request = sessions[id].active_request
             /\ orderly => Phase(sessions'[id]) /\ ~Busy(sessions[id])
  <2> DEFINE o == sessions[id]
             t == sessions'[id]
  <2>1. /\ o \in ServerSessions(M, R) /\ One(o) /\ (orderly => Phase(o)) /\ Served(M, R)
    BY Zenon, InvSession
  <2>2. t = IF o.state = "live" /\ ~o.terminating THEN TerminateRequest(o) ELSE o
    BY Zenon, <1>1 DEF Live
  <2>3. orderly => ~Busy(o)
    <3> SUFFICES ASSUME orderly PROVE ~Busy(o)
      OBVIOUS
    <3>1. session.connection = "destroyed"
      BY Zenon, <1>1 DEF Inv, Orderly
    <3>2. session.active_request = NULL
      BY Zenon, <3>1 DEF Inv, ClientOK, Ended
    <3> QED
      BY Zenon, <3>2, InvSession DEF Busy
  <2> HIDE DEF o, t, M, R
  <2>4. CASE ~(o.state = "live" /\ ~o.terminating)
    BY Zenon, <2>1, <2>2, <2>3, <2>4 DEF o, t
  <2>5. CASE o.state = "live" /\ ~o.terminating
    <3>1. t = TerminateRequest(o)
      BY Zenon, <2>2, <2>5
    <3>2. /\ t \in ServerSessions(M, R) /\ t.active_request = o.active_request /\ t.state = o.state
          /\ t.request_queue = o.request_queue /\ One(t)
          /\ Running(o) /\ Idle(o) => Stopping(t)
      BY <2>1, <3>1, TerminateRequestOK
    <3>3. ASSUME orderly PROVE Phase(t)
      <4>1. Idle(o)
        BY Zenon, <2>1, <2>3, <2>5, <3>3 DEF Busy, One
      <4>2. Running(o) /\ o.request_queue = <<>>
        BY <2>1, <2>5, <3>3 DEF Phase, NoSession, Stopping, Stopped, Gone
      <4> QED
        BY Zenon, <3>2, <4>1, <4>2 DEF Phase
    <3> QED
      BY Zenon, <2>3, <3>2, <3>3 DEF o, t
  <2> QED
    BY Zenon, <2>4, <2>5
<1>3. sessions' \in [Ids -> ServerSessions(M, R)]
  BY Zenon, <1>1, <1>2
<1> HIDE DEF M, R
<1>4. Between(session, sessions', toServer', toClient')
  BY Zenon, <1>1, <1>2, <1>3, InvTyped DEF Between, M, R
<1>5. Kept(connection', sessions')
  BY Zenon, <1>1, <1>2 DEF Kept, Live
<1>6. ASSUME orderly
      PROVE  /\ \A id \in Ids : Phase(sessions'[id])
             /\ Placed(session.active_request, sessions', toServer', toClient')
  <2>1. \A id \in Ids : ~Busy(sessions[id]) /\ ~Busy(sessions'[id])
    BY Zenon, <1>2, <1>6 DEF Busy
  <2>2. Placed(session.active_request, sessions', toServer, toClient)
    BY Zenon, <1>6, <2>1, InvTyped DEF Placed
  <2> QED
    BY Zenon, <1>1, <1>2, <1>6, <2>2
<1> QED
  BY Zenon, <1>1, <1>4, <1>5, <1>6, ServerMoves

(* What the server makes of a request m at the head of toServer: it sends  *)
(* an error, or a session goes on to s and may send one.                   *)
LEMMA ServerTakes ==
    ASSUME Inv, toServer # <<>>, toServer' = Tail(toServer), connection = "open",
           UNCHANGED <<orderly, clientVars, link, connection>>,
           Between(session, sessions', toServer', toClient'),
           NEW m, m = Head(toServer), m \in Requests, NEW out,
           toClient' \in {toClient, toClient \o out},
           orderly =>
              /\ out = <<>> \/ out = <<Response(m, "ERROR", 0)>>
              /\ \/ sessions' = sessions
                 \/ \E id \in Ids : \E s :
                       /\ sessions' = [sessions EXCEPT ![id] = s] /\ Phase(s)
                       /\ Busy(s) => s.active_request = m /\ out = <<>>
    PROVE  Inv'
<1>1. Kept(connection', sessions')
  BY Zenon DEF Kept
<1>2. ASSUME orderly
      PROVE  /\ \A id \in Ids : Phase(sessions'[id])
             /\ Placed(session.active_request, sessions', toServer', toClient')
  <2> DEFINE a == session.active_request
             ts == Tail(toServer)
             error == Response(m, "ERROR", 0)
  <2>1. Clear(sessions, ts, toClient) /\ m = a
    BY Zenon, <1>2, InvTyped, PlacedClear
  <2>2. error \in Responses /\ error.status = "ERROR"
    BY SMTT(40), ResponseType
  <2> HIDE DEF error
  <2>3. error \in Expected(a) /\ toClient \o <<error>> = Append(toClient, error)
    <3>1. error \in Responses \cup Events /\ a # NULL
      BY Zenon, <2>1, <2>2, LinkAssumption
    <3> QED
      BY SMTT(40), <2>2, <3>1, InvTyped, Concatenated DEF Expected
  <2>4. ts \in Seq(Messages)
    BY InvTyped
  <2>5. \A id \in Ids : Phase(sessions[id])
    BY Zenon, <1>2 DEF Inv, Orderly
  <2> HIDE DEF ts, a
  <2>6. out = <<>> => toClient' = toClient
    BY Zenon, InvTyped, Concatenated
  <2>7. toClient' \in {toClient, Append(toClient, error)}
    BY Zenon, <1>2, <2>3, <2>6 DEF error
  <2>8. CASE sessions' = sessions
    <3>1. Placed(a, sessions, ts, toClient)
      BY ZenonT(40), <2>1, <2>4, InvTyped, ClearPlaced
    <3>2. Placed(a, sessions, ts, Append(toClient, error))
      <4>1. sessions \in [Ids -> ServerSessions(MatchingRequests(session), MatchingResponses(session))]
        BY DEF Inv, Between
      <4> QED
        BY ZenonT(40), <2>1, <2>3, <2>4, <4>1, InvTyped, PlacedTaken
    <3> QED
      BY Zenon, <2>5, <2>7, <2>8, <3>1, <3>2 DEF a, ts
  <2>9. ASSUME NEW id \in Ids, NEW s, sessions' = [sessions EXCEPT ![id] = s], Phase(s),
               Busy(s) => s.active_request = m /\ out = <<>>
        PROVE  /\ \A other \in Ids : Phase(sessions'[other])
               /\ Placed(a, sessions', ts, toClient')
    <3>1. sessions \in [Ids -> ServerSessions(MatchingRequests(session), MatchingResponses(session))]
      BY Zenon DEF Inv, Between
    <3>2. \A other \in Ids : Phase(sessions'[other])
      <4>1. sessions'[id] = s /\ \A other \in Ids \ {id} : sessions'[other] = sessions[other]
        BY <2>9, <3>1
      <4> QED
        BY Zenon, <2>5, <2>9, <4>1
    <3>3. /\ (Busy(s) => s.active_request = a) => Placed(a, sessions', ts, toClient)
          /\ ~Busy(s) => \A r \in Expected(a) : Placed(a, sessions', ts, Append(toClient, r))
      BY Zenon, <2>1, <2>4, <2>9, <3>1, InvTyped, PlacedTaken
    <3>4. Placed(a, sessions', ts, toClient)
      BY <2>1, <2>9, <3>3
    <3> QED
      BY ZenonT(40), <2>3, <2>6, <2>7, <2>9, <3>2, <3>3, <3>4
  <2> QED
    BY Zenon, <1>2, <2>8, <2>9 DEF a, ts
<1> QED
  BY Zenon, <1>1, <1>2, ServerMoves

(* rtsp_server_message_handler *)
LEMMA ServerReceiveInv ==
    ASSUME Inv, ServerReceive, UNCHANGED <<orderly, clientVars>>
    PROVE  Inv'
<1> DEFINE M == MatchingRequests(session)
           R == MatchingResponses(session)
           m == Head(toServer)
           error == Response(m, "ERROR", 0)
<1>1. /\ UNCHANGED link /\ toServer # <<>> /\ toServer' = Tail(toServer)
      /\ connection = "open" /\ connection' = connection
  BY Zenon DEF ServerReceive
<1>2. /\ m \in M \cup {Acknowledgement} /\ Tail(toServer) \in Seq(M \cup {Acknowledgement})
      /\ toClient \in Seq(R \cup Events) /\ M \subseteq Requests
  BY <1>1, InvTyped
<1>3. /\ sessions \in [Ids -> ServerSessions(M, R)] /\ \A id \in Ids : One(sessions[id])
      /\ Served(M, R)
  BY Zenon, MatchingServed DEF Inv, Between
<1>4. CASE m = Acknowledgement
  <2>1. sessions' = sessions /\ toClient' = toClient
    BY Zenon, <1>4, Kinds DEF ServerReceive
  <2> HIDE DEF M, R
  <2>2. Between(session, sessions', toServer', toClient')
    BY Zenon, <1>1, <1>2, <1>3, <2>1 DEF Between, M, R
  <2>3. Kept(connection', sessions')
    BY Zenon, <1>1 DEF Kept
  <2>4. orderly => /\ \A id \in Ids : Phase(sessions'[id])
                   /\ Placed(session.active_request, sessions', toServer', toClient')
    <3>1. orderly => Placed(session.active_request, sessions, Tail(toServer), toClient)
      BY Zenon, <1>1, InvTyped, PlacedEvents
    <3> QED
      BY <1>1, <2>1, <3>1 DEF Inv, Orderly
  <2> QED
    BY SMTT(40), <1>1, <2>2, <2>3, <2>4, ServerMoves
<1>5. CASE m \in M
  <2>1. m \in Requests /\ m.type = "REQUEST" /\ error \in R
    BY Zenon, <1>2, <1>3, <1>5, Kinds DEF Served
  <2>2. \A out : Sends(out) => toClient' \in {toClient, toClient \o out}
    BY Zenon DEF Sends
  <2>3. orderly => m.good /\ (NeedsId(m) => m.session_id # 0)
    <3> SUFFICES ASSUME orderly PROVE m.good /\ (NeedsId(m) => m.session_id # 0)
      OBVIOUS
    <3>1. m = session.active_request /\ m # NULL
      BY Zenon, <1>1, <2>1, InvTyped, PlacedClear, LinkAssumption
    <3> QED
      BY Zenon, <3>1, InvTyped DEF Named
  <2>4. ASSUME NEW out \in Seq(R \cup Events), Sends(out)
        PROVE  toClient' \in Seq(R \cup Events)
    <3>1. toClient \o out \in Seq(R \cup Events)
      BY SMTT(40), <1>2, <2>4
    <3> QED
      BY Zenon, <1>2, <2>2, <2>4, <3>1
  <2>5. ASSUME NEW out \in Seq(R \cup Events), Sends(out), sessions' = sessions,
               orderly => out = <<error>>
        PROVE  Inv'
    <3>1. Between(session, sessions', toServer', toClient')
      BY Zenon, <1>1, <1>2, <1>3, <2>4, <2>5 DEF Between
    <3> QED
      BY SMTT(40), <1>1, <2>1, <2>2, <2>5, <3>1, ServerTakes
  <2>6. ASSUME NEW id \in Ids, NEW h, SetSession(id, h), h.session \in ServerSessions(M, R), One(h.session),
               h.out \in Seq(R \cup Events),
               orderly => /\ Phase(h.session)
                          /\ \/ h.out = <<>> /\ h.session.active_request = m
                             \/ h.out = <<error>> /\ h.session.active_request = NULL
        PROVE  Inv'
    <3>1. sessions' = [sessions EXCEPT ![id] = h.session] /\ Sends(h.out)
      BY Zenon, <2>6 DEF SetSession
    <3>2. sessions' \in [Ids -> ServerSessions(M, R)] /\ \A other \in Ids : One(sessions'[other])
      BY Zenon, <1>3, <2>6, <3>1
    <3>3. Between(session, sessions', toServer', toClient')
      BY Zenon, <1>1, <1>2, <2>4, <2>6, <3>1, <3>2 DEF Between
    <3>4. orderly =>
             /\ h.out = <<>> \/ h.out = <<Response(m, "ERROR", 0)>>
             /\ \E i \in Ids : \E s : /\ sessions' = [sessions EXCEPT ![i] = s] /\ Phase(s)
                                      /\ Busy(s) => s.active_request = m /\ h.out = <<>>
      BY Zenon, <2>6, <3>1 DEF Busy
    <3>5. toClient' \in {toClient, toClient \o h.out}
      BY Zenon, <2>2, <3>1
    <3> DEFINE out == h.out
    <3>6. /\ toClient' \in {toClient, toClient \o out}
          /\ orderly =>
                /\ out = <<>> \/ out = <<Response(m, "ERROR", 0)>>
                /\ \E i \in Ids : \E s : /\ sessions' = [sessions EXCEPT ![i] = s] /\ Phase(s)
                                         /\ Busy(s) => s.active_request = m /\ out = <<>>
      BY Zenon, <3>4, <3>5
    <3> HIDE DEF out
    <3> QED
      BY SMTT(40), <1>1, <2>1, <3>3, <3>6, ServerTakes
  <2>7. CASE m.session_id = 0
    <3>1. \/ /\ Sends(IF m.method \in {"SETUP", "DESCRIBE"} THEN <<error>> ELSE <<error, error>>)
             /\ sessions' = sessions
          \/ /\ m.method \in {"SETUP", "DESCRIBE"}
             /\ \E id \in Unused :
                   SetSession(id, MessageHandle([NoSession EXCEPT !.state = "live", !.obj = TRUE,
                                                                  !.active_request = m], id, m))
      BY Zenon, <2>1, <2>7 DEF ServerReceive
    <3>2. CASE /\ Sends(IF m.method \in {"SETUP", "DESCRIBE"} THEN <<error>> ELSE <<error, error>>)
               /\ sessions' = sessions
      <4> DEFINE out == IF m.method \in {"SETUP", "DESCRIBE"} THEN <<error>> ELSE <<error, error>>
      <4> HIDE DEF error
      <4>1. <<error>> \in Seq(R \cup Events) /\ <<error, error>> \in Seq(R \cup Events)
        BY <2>1
      <4>2. orderly => m.method \in {"SETUP", "DESCRIBE"}
        BY Zenon, <2>1, <2>3, <2>7 DEF NeedsId, Requests, MethodIds
      <4>3. out \in Seq(R \cup Events) /\ (orderly => out = <<error>>) /\ Sends(out)
        BY Zenon, <3>2, <4>1, <4>2
      <4> HIDE DEF out
      <4> QED
        BY Zenon, <2>5, <3>2, <4>3
    <3>3. ASSUME NEW id \in Unused,
                 SetSession(id, MessageHandle([NoSession EXCEPT !.state = "live", !.obj = TRUE,
                                                                !.active_request = m], id, m))
          PROVE  Inv'
      <4> DEFINE fresh == [NoSession EXCEPT !.state = "live", !.obj = TRUE, !.active_request = m]
                 h == MessageHandle(fresh, id, m)
      <4> HIDE DEF m, M, R
      <4>1. id \in Ids
        BY Zenon DEF Unused
      <4>2. fresh \in ServerSessions(M, R)
        <5>1. <<>> \in Seq(M) /\ <<>> \in Seq(M \cup {NULL}) /\ <<>> \in Seq(R \cup Events \cup {NULL})
          OBVIOUS
        <5>2. NoSession \in ServerSessions(M, R)
          BY Zenon, <5>1 DEF NoSession, ServerSessions
        <5>3. m \in M \cup {NULL}
          BY Zenon, <1>5
        <5> QED
          BY Zenon, <5>2, <5>3 DEF ServerSessions
      <4>3. /\ fresh.state = "live" /\ fresh.obj /\ fresh.active_request = m /\ fresh.work = <<>>
            /\ fresh.tasks = <<>> /\ fresh.request_queue = <<>> /\ ~fresh.terminating
            /\ fresh.terminations = 0
        BY Zenon DEF NoSession
      <4>4. SetSession(id, h)
        BY Zenon, <3>3
      <4> HIDE DEF fresh
      <4>5. Idle(fresh) /\ Running(fresh)
        BY <4>3, NoneEmpty DEF Idle, Running
      <4>6. MessageHandled(M, R, fresh, m, h)
        BY Zenon, <1>3, <1>5, <4>2, <4>3, <4>5, MessageHandleOK
      <4> HIDE DEF h
      <4>7. /\ h.session \in ServerSessions(M, R) /\ One(h.session) /\ h.out \in Seq(R \cup Events)
            /\ orderly => Phase(h.session) /\ h.out = <<>> /\ h.session.active_request = m
        BY Zenon, <2>3, <4>3, <4>5, <4>6 DEF MessageHandled, Phase
      <4> QED
        BY Zenon, <2>6, <4>1, <4>4, <4>7
    <3> QED
      BY Zenon, <3>1, <3>2, <3>3
  <2>8. CASE m.session_id # 0
    <3>1. IF m.session_id \in Live
          THEN SetSession(m.session_id, SessionRequest(sessions[m.session_id], m.session_id, m))
          ELSE Sends(<<error>>) /\ sessions' = sessions
      BY Zenon, <2>1, <2>8 DEF ServerReceive
    <3>2. CASE m.session_id \notin Live
      <4>1. <<error>> \in Seq(R \cup Events)
        BY <2>1
      <4> QED
        BY Zenon, <2>5, <3>1, <3>2, <4>1
    <3>3. CASE m.session_id \in Live
      <4> DEFINE id == m.session_id
                 o == sessions[id]
                 h == SessionRequest(o, id, m)
      <4>1. id \in Ids /\ o.state = "live" /\ SetSession(id, h)
        BY Zenon, <3>1, <3>3 DEF Live
      <4>2. orderly => o.active_request = NULL /\ Phase(o)
        <5> SUFFICES ASSUME orderly PROVE o.active_request = NULL /\ Phase(o)
          OBVIOUS
        <5>1. Clear(sessions, Tail(toServer), toClient)
          BY SMTT(40), <1>1, <2>1, InvTyped, PlacedClear
        <5> QED
          BY Zenon, <4>1, <5>1, InvSession DEF Clear, Busy
      <4>3. o \in ServerSessions(M, R) /\ One(o)
        BY Zenon, <1>3, <4>1
      <4> HIDE DEF id, o, m, M, R
      <4>4. RequestHandled(M, R, o, m, h)
        BY SMTT(40), <1>3, <1>5, <4>3, SessionRequestOK
      <4> HIDE DEF h
      <4>5. /\ h.session \in ServerSessions(M, R) /\ One(h.session) /\ h.out \in Seq(R \cup Events)
            /\ orderly => /\ Phase(h.session)
                          /\ \/ h.out = <<>> /\ h.session.active_request = m
                             \/ h.out = <<error>> /\ h.session.active_request = NULL
        BY Zenon, <2>3, <4>1, <4>2, <4>4 DEF RequestHandled
      <4> QED
        BY Zenon, <2>6, <4>1, <4>5
    <3> QED
      BY Zenon, <3>2, <3>3
  <2> QED
    BY <2>7, <2>8
<1> QED
  BY Zenon, <1>2, <1>4, <1>5
-----------------------------------------------------------------------------
(* Every step of the client, the server, the agents and the network keeps  *)
(* the invariant.                                                          *)
LEMMA NextInv == Inv /\ [Next]_vars => Inv'
<1> SUFFICES ASSUME Inv, [Next]_vars PROVE Inv'
  OBVIOUS
<1>1. CASE ClientNext(~orderly) /\ UNCHANGED <<orderly, serverVars>>
  BY SMTT(40), <1>1, ClientRequestInv, ClientTerminateInv, ClientReceiveInv, ClientDisconnectInv,
     ClientTimerInv DEF ClientNext, ClientStep
<1>2. CASE ServerNext /\ UNCHANGED <<orderly, clientVars>>
  BY Zenon, <1>2, ServerAcceptInv, ServerReceiveInv, ServerCloseInv, ServerTaskInv, MrcpSessionInv,
     MrcpEventInv DEF ServerNext, ServerStep, MrcpStep
<1>3. CASE ~orderly /\ LinkFails /\ UNCHANGED <<orderly, clientVars, serverVars>>
  BY <1>3, LinkFailsInv
<1>4. CASE UNCHANGED vars
  <2>1. /\ UNCHANGED <<orderly, clientVars, link>> /\ sessions' = sessions /\ connection' = connection
        /\ toServer' = toServer /\ toClient' = toClient
    BY Zenon, <1>4 DEF vars, linkVars, serverVars
  <2>2. /\ Between(session, sessions', toServer', toClient') /\ Kept(connection', sessions')
        /\ orderly => /\ \A id \in Ids : Phase(sessions'[id])
                      /\ Placed(session.active_request, sessions', toServer', toClient')
    BY Zenon, <2>1 DEF Inv, Orderly
  <2> QED
    BY Zenon, <2>1, <2>2, ServerMoves
<1> QED
  BY Zenon, <1>1, <1>2, <1>3, <1>4 DEF Next

(* For any number of requests, resources and events: the invariant of      *)
(* client, server and connection, on which the properties of rtsp_client.c *)
(* and rtsp_server.c below rest.                                           *)
THEOREM InductiveInvariant == Spec => []Inv
BY InitInv, NextInv, PTL DEF Spec

(* For any number of requests, resources and events, and whatever fails:   *)
(* the user of the RTSP client gets at most one answer to a request, and   *)
(* one that comes from the server is the answer to that request, as        *)
(* rtsp_client_request_pop matches it by its CSeq.                         *)
THEOREM AnsweredOnceByItsOwnAlways == Spec => []AnsweredOnceByItsOwn
<1>1. Inv => AnsweredOnceByItsOwn
  BY Zenon DEF Inv, ClientOK, Answered, Told, AnsweredOnceByItsOwn
<1> QED
  BY <1>1, InductiveInvariant, PTL

(* The RTSP client's queue of requests in progress, its active request and *)
(* its timer agree after every step of rtsp_client.c, and requests are     *)
(* pending only behind an active one.                                      *)
THEOREM InProgressIsWatchedAlways == Spec => []InProgressIsWatched
<1>1. Inv => InProgressIsWatched
  BY Zenon DEF Inv, ClientOK, Watched, InProgressIsWatched
<1> QED
  BY <1>1, InductiveInvariant, PTL

(* The RTSP server destroys no connection that has sessions, and, when all *)
(* is orderly, rtsp_server.c tells an MRCP session to terminate once and   *)
(* destroys the RTSP session when nothing is signalled to it any more.     *)
THEOREM SessionsEndOnceAlways == Spec => []SessionsEndOnce
<1>1. ASSUME Inv PROVE SessionsEndOnce
  <2>1. connection \in {"none", "destroyed"} => Live = {}
    BY Zenon, <1>1 DEF Inv, Kept, Live
  <2>2. ASSUME orderly, NEW id \in Ids
        PROVE  /\ sessions[id].terminations <= 1
               /\ sessions[id].state = "destroyed" =>
                     sessions[id].tasks = <<>> /\ sessions[id].work = <<>>
    <3>1. Phase(sessions[id])
      BY Zenon, <1>1, <2>2 DEF Inv, Orderly
    <3>2. NoSession.terminations = 0 /\ NoSession.state = "none"
      BY Zenon DEF NoSession
    <3> QED
      BY <3>1, <3>2 DEF Phase, Running, Stopping, Stopped, Gone
  <2> QED
    BY Zenon, <2>1, <2>2 DEF SessionsEndOnce
<1> QED
  BY <1>1, InductiveInvariant, PTL
=============================================================================
