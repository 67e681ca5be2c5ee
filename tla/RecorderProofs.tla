--------------------------- MODULE RecorderProofs ---------------------------
(***************************************************************************)
(* What RecorderChannel guarantees for every set of methods, every number  *)
(* of requests and every schedule of the two threads: requests are         *)
(* answered in order and at most once, and the response to STOP always     *)
(* finds the recording it stops.  It begins with the order in which        *)
(* requests travel through the queues of a session, and what each          *)
(* operation of ControlSession does to it.                                 *)
(***************************************************************************)
EXTENDS RecorderChannel, TLAPS

IsRequest(m) == m # NULL /\ m.type = "request"
IsResponse(m) == m.type = "response"

(* Whatever request is in q has a larger id than n. *)
After(n, q) == \A k \in 1 .. Len(q) : IsRequest(q[k]) => n < q[k].id

(* The requests in q have increasing ids, none above last. *)
Increasing(q, last) ==
    \A k \in 1 .. Len(q) : IsRequest(q[k]) =>
        /\ q[k].id <= last
        /\ \A l \in k + 1 .. Len(q) : IsRequest(q[l]) => q[k].id < q[l].id

(* The responses in tc have increasing ids, none above last. *)
Answers(tc, last) ==
    /\ \A i \in 1 .. Len(tc) : IsResponse(tc[i]) => tc[i].id <= last
    /\ \A i, j \in 1 .. Len(tc) :
          (i < j /\ IsResponse(tc[i]) /\ IsResponse(tc[j])) => tc[i].id < tc[j].id

(* Ids increase from what was answered (tc) to the request being processed *)
(* (ar), the queue of the session (rq) and the queue of the task (tq).     *)
InOrder(tc, ar, rq, tq, last) ==
    /\ Answers(tc, last)
    /\ Increasing(rq, last)
    /\ Increasing(tq, last)
    /\ \A k \in 1 .. Len(rq) : IsRequest(rq[k]) => After(rq[k].id, tq)
    /\ IsRequest(ar) => ar.id <= last /\ After(ar.id, rq) /\ After(ar.id, tq)
    /\ \A i \in 1 .. Len(tc) : IsResponse(tc[i]) =>
          /\ IsRequest(ar) => tc[i].id < ar.id
          /\ After(tc[i].id, rq)
          /\ After(tc[i].id, tq)

Order == InOrder(to_client, active_request, request_queue, task_queue, last_id)
-----------------------------------------------------------------------------
(* The empty sequence, and the length of the others *)
LEMMA EmptySeq ==
    ASSUME NEW S
    PROVE  /\ <<>> \in Seq(S) /\ Len(<<>>) = 0
           /\ \A s \in Seq(S) : Len(s) \in Nat /\ (s # <<>> => Len(s) # 0)
OBVIOUS

(* A message pushed on an empty call stack is the whole stack. *)
LEMMA PushOnEmpty ==
    ASSUME NEW S, NEW x \in S
    PROVE  /\ <<x>> \o <<>> = <<x>>
           /\ <<x>> \in Seq(S) /\ Len(<<x>>) = 1 /\ Head(<<x>>) = x /\ <<x>> # <<>>
OBVIOUS

(* A stack of at most one message has nothing under its top. *)
LEMMA OnlyOne ==
    ASSUME NEW S, NEW s \in Seq(S), s # <<>>, Len(s) <= 1
    PROVE  Head(s) \in S /\ Tail(s) = <<>>
  <1>1. Len(s) \in Nat \ {0}
    BY Zenon, EmptySeq
  <1>2. Len(s) = 1
    BY <1>1
  <1>3. Tail(s) \in Seq(S) /\ Len(Tail(s)) = 0 /\ Head(s) \in S
    BY <1>2
  <1>. QED BY Zenon, <1>3, EmptySeq

(* Taking the first message of a queue *)
LEMMA TakenFirst ==
    ASSUME NEW S, NEW q \in Seq(S), q # <<>>
    PROVE  /\ Head(q) \in S /\ Head(q) = q[1]
           /\ Tail(q) \in Seq(S) /\ Len(Tail(q)) = Len(q) - 1 /\ Len(q) \in Nat \ {0}
           /\ \A i \in 1 .. Len(Tail(q)) : Tail(q)[i] = q[i + 1]
OBVIOUS

(* Adding a message at the end of a queue *)
LEMMA PutLast ==
    ASSUME NEW S, NEW q \in Seq(S), NEW x \in S
    PROVE  /\ Append(q, x) \in Seq(S) /\ Len(Append(q, x)) = Len(q) + 1 /\ Len(q) \in Nat
           /\ \A i \in 1 .. Len(q) : Append(q, x)[i] = q[i]
           /\ Append(q, x)[Len(q) + 1] = x
OBVIOUS
-----------------------------------------------------------------------------
(* The messages of a queue have numbers for ids. *)
LEMMA Ids ==
    ASSUME NEW q \in Seq(Message)
    PROVE  \A i \in 1 .. Len(q) : q[i] \in Message /\ q[i].id \in Nat
  <1>1. \A i \in 1 .. Len(q) : q[i] \in Message
    OBVIOUS
  <1>2. \A m \in Message : m.id \in Nat
    BY Zenon DEF Message
  <1>. QED BY Zenon, <1>1, <1>2

(* The id of a message is a number. *)
LEMMA IdOf == \A m \in Message : m.id \in Nat
  BY Zenon DEF Message

(* Taking the first message keeps a queue in order, and what is left comes *)
(* after the request that was taken.                                       *)
LEMMA TailInOrder ==
    ASSUME NEW q \in Seq(Message), q # <<>>, NEW last \in Nat, Increasing(q, last)
    PROVE  /\ Increasing(Tail(q), last)
           /\ IsRequest(Head(q)) => Head(q).id <= last /\ After(Head(q).id, Tail(q))
           /\ \A n \in Nat : After(n, q) =>
                 After(n, Tail(q)) /\ (IsRequest(Head(q)) => n < Head(q).id)
  BY TakenFirst DEF Increasing, After, IsRequest

(* A message that is no request does not disturb the order of a queue. *)
LEMMA AppendOther ==
    ASSUME NEW q \in Seq(Message), NEW m \in Message, ~IsRequest(m), NEW last \in Nat
    PROVE  /\ Increasing(q, last) => Increasing(Append(q, m), last)
           /\ \A n \in Nat : After(n, q) => After(n, Append(q, m))
  BY PutLast DEF Increasing, After, IsRequest

(* A request that comes after all of a queue can be appended to it. *)
LEMMA AppendRequest ==
    ASSUME NEW q \in Seq(Message), NEW m \in Message, NEW last \in Nat,
           Increasing(q, last), m.id <= last,
           \A k \in 1 .. Len(q) : IsRequest(q[k]) => q[k].id < m.id
    PROVE  /\ Increasing(Append(q, m), last)
           /\ \A n \in Nat : (After(n, q) /\ n < m.id) => After(n, Append(q, m))
  <1> DEFINE r == Append(q, m)
  <1>1. m.id \in Nat /\ \A k \in 1 .. Len(q) : q[k].id \in Nat
    BY Zenon, Ids, IdOf
  <1>2. /\ r \in Seq(Message) /\ Len(r) = Len(q) + 1 /\ r[Len(r)] = m /\ Len(q) \in Nat
        /\ \A k \in 1 .. Len(q) : r[k] = q[k]
    BY PutLast
  <1> HIDE DEF r
  <1>3. Increasing(r, last)
    <2> SUFFICES ASSUME NEW k \in 1 .. Len(r), IsRequest(r[k])
                 PROVE  /\ r[k].id <= last
                        /\ \A l \in k + 1 .. Len(r) : IsRequest(r[l]) => r[k].id < r[l].id
      BY DEF Increasing
    <2>1. CASE k = Len(r)
      BY <1>2, <2>1
    <2>2. CASE k # Len(r)
      <3>1. k \in 1 .. Len(q) /\ r[k] = q[k] /\ \A l \in k + 1 .. Len(r) : l \in k + 1 .. Len(q) \/ l = Len(r)
        BY <1>2, <2>2
      <3>2. /\ q[k].id <= last /\ q[k].id < m.id
            /\ \A l \in k + 1 .. Len(q) : IsRequest(q[l]) => q[k].id < q[l].id
        BY <3>1 DEF Increasing
      <3>3. \A l \in k + 1 .. Len(q) : r[l] = q[l]
        BY <1>2, <3>1
      <3> QED
        BY <1>2, <3>1, <3>2, <3>3
    <2> QED
      BY <2>1, <2>2
  <1>4. ASSUME NEW n \in Nat, After(n, q), n < m.id PROVE After(n, r)
    BY <1>2, <1>4 DEF After
  <1> QED
    BY <1>3, <1>4 DEF r
-----------------------------------------------------------------------------
(* An answer or an event signalled to the server task *)
LEMMA OrderSignal ==
    ASSUME NEW tc \in Seq(Message), NEW ar \in Message \cup {NULL},
           NEW rq \in Seq(Message), NEW tq \in Seq(Message), NEW last \in Nat,
           InOrder(tc, ar, rq, tq, last), NEW m \in Message, ~IsRequest(m)
    PROVE  InOrder(tc, ar, rq, Append(tq, m), last)
  <1>1. \A n \in Nat : After(n, tq) => After(n, Append(tq, m))
    BY Zenon, AppendOther
  <1>2. \A i \in 1 .. Len(tc) : tc[i].id \in Nat
    BY Zenon, Ids
  <1>3. \A i \in 1 .. Len(rq) : rq[i].id \in Nat
    BY Zenon, Ids
  <1>4. ar # NULL => ar.id \in Nat
    BY Zenon DEF Message
  <1>5. Increasing(Append(tq, m), last)
    BY Zenon, AppendOther DEF InOrder
  <1>. QED BY Zenon, <1>1, <1>2, <1>3, <1>4, <1>5 DEF InOrder, IsRequest

(* The client sends its next request. *)
LEMMA OrderNewRequest ==
    ASSUME NEW tc \in Seq(Message), NEW ar \in Message \cup {NULL},
           NEW rq \in Seq(Message), NEW tq \in Seq(Message), NEW last \in Nat,
           InOrder(tc, ar, rq, tq, last), NEW m \in Message, m.id = last + 1
    PROVE  InOrder(tc, ar, rq, Append(tq, m), last + 1)
  <1>2. \A i \in 1 .. Len(tc) : tc[i].id \in Nat
    BY Zenon, Ids
  <1>3. \A i \in 1 .. Len(rq) : rq[i].id \in Nat
    BY Zenon, Ids
  <1>4. \A i \in 1 .. Len(tq) : tq[i].id \in Nat
    BY Zenon, Ids
  <1>5. ar # NULL => ar.id \in Nat
    BY Zenon DEF Message
  <1>6. Increasing(tq, last + 1) /\ Increasing(rq, last + 1) /\ Answers(tc, last + 1)
    BY <1>2, <1>3, <1>4 DEF InOrder, Increasing, Answers
  <1>7. \A k \in 1 .. Len(tq) : IsRequest(tq[k]) => tq[k].id < m.id
    BY <1>4 DEF InOrder, Increasing
  <1>8. /\ Increasing(Append(tq, m), last + 1)
        /\ \A n \in Nat : (After(n, tq) /\ n < m.id) => After(n, Append(tq, m))
    <2>1. last + 1 \in Nat /\ m.id <= last + 1
      OBVIOUS
    <2> QED
      BY Zenon, <1>6, <1>7, <2>1, AppendRequest
  <1>a. \A k \in 1 .. Len(rq) : IsRequest(rq[k]) => rq[k].id < m.id
    BY <1>3 DEF InOrder, Increasing
  <1>9. \A k \in 1 .. Len(rq) : IsRequest(rq[k]) => After(rq[k].id, Append(tq, m))
    BY Zenon, <1>8, <1>3, <1>a DEF InOrder
  <1>10. IsRequest(ar) => ar.id <= last + 1 /\ After(ar.id, rq) /\ After(ar.id, Append(tq, m))
    BY <1>8, <1>5 DEF InOrder, IsRequest
  <1>11. \A i \in 1 .. Len(tc) : IsResponse(tc[i]) =>
            /\ IsRequest(ar) => tc[i].id < ar.id
            /\ After(tc[i].id, rq)
            /\ After(tc[i].id, Append(tq, m))
    BY <1>8, <1>2 DEF InOrder, Answers
  <1>. QED BY Zenon, <1>6, <1>8, <1>9, <1>10, <1>11 DEF InOrder

(* The server task takes a message and drops it or keeps it in hand. *)
LEMMA OrderTake ==
    ASSUME NEW tc \in Seq(Message), NEW ar \in Message \cup {NULL},
           NEW rq \in Seq(Message), NEW tq \in Seq(Message), NEW last \in Nat,
           InOrder(tc, ar, rq, tq, last), tq # <<>>
    PROVE  InOrder(tc, ar, rq, Tail(tq), last)
  <1>2. \A i \in 1 .. Len(tc) : tc[i].id \in Nat
    BY Zenon, Ids
  <1>3. \A i \in 1 .. Len(rq) : rq[i].id \in Nat
    BY Zenon, Ids
  <1>4. ar # NULL => ar.id \in Nat
    BY Zenon DEF Message
  <1>5. Increasing(Tail(tq), last) /\ \A n \in Nat : After(n, tq) => After(n, Tail(tq))
    BY Zenon, TailInOrder DEF InOrder
  <1>. QED BY Zenon, <1>2, <1>3, <1>4, <1>5 DEF InOrder, IsRequest

(* A busy session queues the message it is given. *)
LEMMA OrderQueue ==
    ASSUME NEW tc \in Seq(Message), NEW ar \in Message \cup {NULL},
           NEW rq \in Seq(Message), NEW tq \in Seq(Message), NEW last \in Nat,
           InOrder(tc, ar, rq, tq, last), tq # <<>>
    PROVE  InOrder(tc, ar, Append(rq, Head(tq)), Tail(tq), last)
  <1>. DEFINE m == Head(tq)
  <1>1. m \in Message /\ Tail(tq) \in Seq(Message) /\ m.id \in Nat
    BY Zenon, TakenFirst, IdOf
  <1>2. InOrder(tc, ar, rq, Tail(tq), last)
    BY Zenon, OrderTake
  <1>3. CASE ~IsRequest(m)
    <2>1. Increasing(Append(rq, m), last) /\ \A n \in Nat : After(n, rq) => After(n, Append(rq, m))
      BY Zenon, <1>1, <1>2, <1>3, AppendOther DEF InOrder
    <2>2. \A k \in 1 .. Len(Append(rq, m)) :
             IsRequest(Append(rq, m)[k]) => After(Append(rq, m)[k].id, Tail(tq))
      BY <1>1, <1>2, <1>3, PutLast DEF InOrder
    <2>3. \A i \in 1 .. Len(tc) : tc[i].id \in Nat
      BY Zenon, Ids
    <2>4. ar # NULL => ar.id \in Nat
      BY Zenon DEF Message
    <2>. QED BY Zenon, <1>2, <2>1, <2>2, <2>3, <2>4 DEF InOrder, IsRequest
  <1>4. CASE IsRequest(m)
    <2>1. \A k \in 1 .. Len(rq) : IsRequest(rq[k]) => rq[k].id < m.id
      <3>. SUFFICES ASSUME NEW k \in 1 .. Len(rq), IsRequest(rq[k]) PROVE rq[k].id < m.id
        OBVIOUS
      <3>1. rq[k].id \in Nat /\ After(rq[k].id, tq)
        BY Zenon, Ids DEF InOrder
      <3>. QED BY Zenon, <3>1, <1>4, TailInOrder DEF InOrder
    <2>2. m.id <= last /\ After(m.id, Tail(tq))
      BY Zenon, <1>4, TailInOrder DEF InOrder
    <2>3. /\ Increasing(Append(rq, m), last)
          /\ \A n \in Nat : (After(n, rq) /\ n < m.id) => After(n, Append(rq, m))
      BY Zenon, <1>1, <2>1, <2>2, AppendRequest DEF InOrder
    <2>4. \A k \in 1 .. Len(Append(rq, m)) :
             IsRequest(Append(rq, m)[k]) => After(Append(rq, m)[k].id, Tail(tq))
      BY <1>1, <1>2, <2>2, PutLast DEF InOrder
    <2>5. IsRequest(ar) => ar.id <= last /\ After(ar.id, Append(rq, m)) /\ After(ar.id, Tail(tq))
      <3>1. IsRequest(ar) => ar.id \in Nat
        BY Zenon, IdOf DEF IsRequest
      <3>2. IsRequest(ar) => ar.id < m.id
        BY Zenon, <3>1, <1>4, TailInOrder DEF InOrder
      <3>. QED BY Zenon, <1>2, <3>1, <3>2, <2>3 DEF InOrder
    <2>6. \A i \in 1 .. Len(tc) : IsResponse(tc[i]) =>
            /\ IsRequest(ar) => tc[i].id < ar.id
            /\ After(tc[i].id, Append(rq, m))
            /\ After(tc[i].id, Tail(tq))
      <3>. SUFFICES ASSUME NEW i \in 1 .. Len(tc), IsResponse(tc[i])
                    PROVE  /\ IsRequest(ar) => tc[i].id < ar.id
                           /\ After(tc[i].id, Append(rq, m))
                           /\ After(tc[i].id, Tail(tq))
        OBVIOUS
      <3>1. tc[i].id \in Nat /\ After(tc[i].id, tq)
        BY Zenon, Ids DEF InOrder
      <3>2. tc[i].id < m.id
        BY Zenon, <3>1, <1>4, TailInOrder DEF InOrder
      <3>. QED BY Zenon, <1>2, <3>1, <3>2, <2>3 DEF InOrder
    <2>. QED BY Zenon, <1>2, <2>3, <2>4, <2>5, <2>6 DEF InOrder
  <1>. QED BY Zenon, <1>3, <1>4

(* An idle session starts on the message it is given. *)
LEMMA OrderActivate ==
    ASSUME NEW tc \in Seq(Message), NEW tq \in Seq(Message), NEW last \in Nat,
           InOrder(tc, NULL, <<>>, tq, last), tq # <<>>
    PROVE  InOrder(tc, Head(tq), <<>>, Tail(tq), last)
  <1>1. InOrder(tc, NULL, <<>>, Tail(tq), last)
    BY Zenon, OrderTake, EmptySeq
  <1>2. IsRequest(Head(tq)) => Head(tq).id <= last /\ After(Head(tq).id, Tail(tq))
    BY Zenon, TailInOrder DEF InOrder
  <1>3. \A n : After(n, <<>>)
    BY DEF After
  <1>4. \A i \in 1 .. Len(tc) : IsResponse(tc[i]) /\ IsRequest(Head(tq)) => tc[i].id < Head(tq).id
    BY Zenon, Ids, TailInOrder DEF InOrder
  <1>. QED BY Zenon, <1>1, <1>2, <1>3, <1>4 DEF InOrder

(* An answered session has nothing in progress any more. *)
LEMMA OrderAnswer ==
    ASSUME NEW tc \in Seq(Message), NEW ar \in Message \cup {NULL},
           NEW rq \in Seq(Message), NEW tq \in Seq(Message), NEW last \in Nat,
           InOrder(tc, ar, rq, tq, last), IsRequest(ar), NEW m \in Message, m.id = ar.id
    PROVE  InOrder(Append(tc, m), NULL, rq, tq, last)
  <1>1. \A i \in 1 .. Len(tc) : tc[i].id \in Nat
    BY Zenon, Ids
  <1>2. \A i \in 1 .. Len(tc) : IsResponse(tc[i]) => tc[i].id < m.id
    BY Zenon DEF InOrder
  <1>3. m.id \in Nat /\ m.id <= last /\ After(m.id, rq) /\ After(m.id, tq)
    BY Zenon, IdOf DEF InOrder
  <1>4. Answers(Append(tc, m), last)
    <2>. DEFINE t == Append(tc, m)
    <2>1. /\ Len(t) = Len(tc) + 1 /\ Len(tc) \in Nat /\ t[Len(tc) + 1] = m
          /\ \A i \in 1 .. Len(tc) : t[i] = tc[i]
      BY PutLast
    <2>2. \A i \in 1 .. Len(t) : i \in 1 .. Len(tc) \/ i = Len(tc) + 1
      BY <2>1
    <2>3. Answers(tc, last)
      BY Zenon DEF InOrder
    <2>. HIDE DEF t
    <2>4. \A i \in 1 .. Len(t) : IsResponse(t[i]) => t[i].id <= last
      BY Zenon, <1>3, <2>1, <2>2, <2>3 DEF Answers
    <2>5. ASSUME NEW i \in 1 .. Len(t), NEW j \in 1 .. Len(t),
                 i < j, IsResponse(t[i]), IsResponse(t[j])
          PROVE  t[i].id < t[j].id
      <3>1. i \in 1 .. Len(tc)
        BY <2>1, <2>5
      <3>2. CASE j = Len(tc) + 1
        BY Zenon, <1>2, <2>1, <2>5, <3>1, <3>2
      <3>3. CASE j \in 1 .. Len(tc)
        BY Zenon, <2>1, <2>3, <2>5, <3>1, <3>3 DEF Answers
      <3>. QED BY Zenon, <2>2, <3>2, <3>3
    <2>6. Answers(t, last)
      BY Zenon, <2>4, <2>5 DEF Answers
    <2>. QED BY Zenon, <2>6 DEF t
  <1>5. \A i \in 1 .. Len(Append(tc, m)) : IsResponse(Append(tc, m)[i]) =>
            After(Append(tc, m)[i].id, rq) /\ After(Append(tc, m)[i].id, tq)
    BY <1>3, PutLast DEF InOrder
  <1>. QED BY Zenon, <1>4, <1>5 DEF InOrder, IsRequest

(* A session with nothing in progress goes on with the request it queued   *)
(* first.                                                                  *)
LEMMA OrderPop ==
    ASSUME NEW tc \in Seq(Message),
           NEW rq \in Seq(Message), NEW tq \in Seq(Message), NEW last \in Nat,
           InOrder(tc, NULL, rq, tq, last), rq # <<>>
    PROVE  InOrder(tc, Head(rq), Tail(rq), tq, last)
  <1>1. /\ Increasing(Tail(rq), last)
        /\ IsRequest(Head(rq)) => Head(rq).id <= last /\ After(Head(rq).id, Tail(rq))
        /\ \A n \in Nat : After(n, rq) =>
              After(n, Tail(rq)) /\ (IsRequest(Head(rq)) => n < Head(rq).id)
    BY Zenon, TailInOrder DEF InOrder
  <1>2. IsRequest(Head(rq)) => After(Head(rq).id, tq)
    BY TakenFirst DEF InOrder
  <1>3. \A k \in 1 .. Len(Tail(rq)) : IsRequest(Tail(rq)[k]) => After(Tail(rq)[k].id, tq)
    BY TakenFirst DEF InOrder
  <1>4. \A i \in 1 .. Len(tc) : tc[i].id \in Nat
    BY Zenon, Ids
  <1>. QED BY Zenon, <1>1, <1>2, <1>3, <1>4 DEF InOrder

(* An event sent to the client *)
LEMMA OrderEvent ==
    ASSUME NEW tc \in Seq(Message), NEW ar \in Message \cup {NULL},
           NEW rq \in Seq(Message), NEW tq \in Seq(Message), NEW last \in Nat,
           InOrder(tc, ar, rq, tq, last), NEW m \in Message, ~IsResponse(m)
    PROVE  InOrder(Append(tc, m), ar, rq, tq, last)
  <1>1. Answers(Append(tc, m), last)
    BY PutLast DEF InOrder, Answers
  <1>2. \A i \in 1 .. Len(Append(tc, m)) : IsResponse(Append(tc, m)[i]) =>
            /\ IsRequest(ar) => Append(tc, m)[i].id < ar.id
            /\ After(Append(tc, m)[i].id, rq)
            /\ After(Append(tc, m)[i].id, tq)
    BY PutLast DEF InOrder
  <1>. QED BY Zenon, <1>1, <1>2 DEF InOrder

(* The order of the queues is what keeps the responses in order. *)
LEMMA OrderAnswers ==
    ASSUME to_client \in Seq(Message), Order
    PROVE  ResponsesInOrder
  <1>1. DOMAIN to_client = 1 .. Len(to_client)
    OBVIOUS
  <1>. QED BY Zenon, <1>1 DEF Order, InOrder, Answers, ResponsesInOrder, IsResponse
-----------------------------------------------------------------------------
(* The request has been given to recorder_channel_record, which has not    *)
(* answered it yet.                                                        *)
Unanswered == {"record_open", "record_reset", "record_respond"}

(* m belongs to the request r. *)
Fits(r, m) == r # NULL /\ r.id = m.id /\ r.method = m.method

(* The plugin holds a response to STOP that it has not sent yet. *)
StopWaits == stop_response # NULL /\ media_pc # "stop_response"

InHand(types) == todo # <<>> /\ Current.type \in types

OneAnswer(q) == \A i, j \in 1 .. Len(q) : IsResponse(q[i]) /\ IsResponse(q[j]) => i = j
NoAnswer(q) == \A i \in 1 .. Len(q) : ~IsResponse(q[i])
AllFit(r, q) == \A i \in 1 .. Len(q) : IsResponse(q[i]) => Fits(r, q[i])

(* What the session promises the state machine: it has one request at a    *)
(* time, the one the session holds in active_request.                      *)
Serial ==
    /\ active_request = NULL => request_queue = <<>>
    /\ ~active => active_request # NULL /\ active_request.type = "terminate"
    /\ (active /\ sm_request # NULL) =>
          IsRequest(active_request) /\ active_request.id = sm_request.id
    /\ InHand(Unanswered \cup {"request", "record_start"}) =>
          active /\ IsRequest(active_request) /\ active_request.id = Current.id
    /\ InHand({"terminate"}) =>
          active /\ active_request # NULL /\ active_request.type = "terminate"
    /\ InHand({"request"}) => sm_request = NULL
    /\ \A i \in 1 .. Len(request_queue) : request_queue[i].type \in {"request", "terminate"}

(* There is at most one answer under way, in the RECORD handler, in the    *)
(* plugin's stop_response, in task_queue or in the hand of the server      *)
(* task, and it belongs to the request the state machine waits for.        *)
Token ==
    /\ OneAnswer(task_queue)
    /\ AllFit(sm_request, task_queue)
    /\ NoAnswer(task_queue) \/ ~(StopWaits \/ InHand(Unanswered \cup {"response"}))
    /\ StopWaits => Fits(sm_request, stop_response) /\ ~InHand(Unanswered \cup {"response"})
    /\ InHand(Unanswered \cup {"response"}) => Fits(sm_request, Current)
    /\ stop_response # NULL => IsResponse(stop_response)

(* The state of the machine and its recording go together, and a STOP is   *)
(* waited for only during a recording.                                     *)
Machine ==
    /\ state = "RECORDING" <=> record # NULL
    /\ StopPending => state = "RECORDING"

RecorderInv == TypeOK /\ Serial /\ Token /\ Machine /\ Order
-----------------------------------------------------------------------------
(* Under the message in hand there is nothing else. *)
LEMMA OneInHand ==
    ASSUME TypeOK, todo # <<>>
    PROVE  Current \in Message /\ Rest = <<>>
  BY Zenon, OnlyOne DEF TypeOK, ControlTypeOK, Current, Rest

-----------------------------------------------------------------------------
(* A new channel satisfies the invariant. *)
LEMMA InitInv == RecorderInit => RecorderInv
  <1>. SUFFICES ASSUME RecorderInit PROVE RecorderInv
    OBVIOUS
  <1>. USE DEF RecorderInit, Init, MachineInit, PluginInit
  <1>1. TypeOK
    <2>a. active \in BOOLEAN /\ hangup \in BOOLEAN
      BY Zenon
    <2>b. todo \in Seq(Message) /\ Len(todo) <= 1
      BY EmptySeq
    <2>c. subrequest_count \in 0..1 /\ last_id \in Nat
      OBVIOUS
    <2>1. ControlTypeOK /\ Len(todo) <= 1
      BY Zenon, <2>a, <2>b, <2>c DEF ControlTypeOK
    <2>2. 0 \in 0 .. TimeCap
      BY TimeAssumption
    <2>. QED BY Zenon, <2>1, <2>2 DEF TypeOK
  <1>2. Len(task_queue) = 0 /\ Len(request_queue) = 0 /\ Len(to_client) = 0
    BY Zenon, EmptySeq
  <1>4. Serial /\ Token
    BY <1>2 DEF Serial, Token, InHand, StopWaits, OneAnswer, NoAnswer, AllFit
  <1>5. Machine
    BY Zenon DEF Machine, StopPending
  <1>6. Order
    BY <1>2 DEF Order, InOrder, Answers, Increasing, IsRequest
  <1>. QED BY Zenon, <1>1, <1>4, <1>5, <1>6 DEF RecorderInv
-----------------------------------------------------------------------------
(* Requests and the end of the session are messages. *)
LEMMA Sent ==
    /\ Terminate \in Message
    /\ \A method \in MethodName, id \in Nat, param \in Param \cup {NULL} :
          Request(method, id, param) \in Message
  <1>. DEFINE msg(type, method, id, param) ==
                [type |-> type, method |-> method, id |-> id, state |-> "COMPLETE",
                 param |-> param]
  <1>1. \A type \in MessageType, method \in MethodName, id \in Nat, param \in Param \cup {NULL} :
           msg(type, method, id, param) \in Message
    BY Zenon DEF Message
  <1>. HIDE DEF msg
  <1>2. "request" \in MessageType /\ "terminate" \in MessageType
    BY Zenon DEF MessageType
  <1>3. msg("terminate", "DEACTIVATE", 0, NULL) \in Message
    BY Zenon, <1>1, <1>2 DEF MethodName
  <1>. QED BY Zenon, <1>1, <1>2, <1>3 DEF msg, Request, Terminate

(* mrcp_response_create and mrcp_event_create make messages. *)
LEMMA Created ==
    ASSUME NEW m \in Message
    PROVE  /\ Response(m, "COMPLETE") \in Message /\ IsResponse(Response(m, "COMPLETE"))
           /\ Response(m, "INPROGRESS") \in Message /\ IsResponse(Response(m, "INPROGRESS"))
           /\ \A state_ \in {"COMPLETE", "INPROGRESS"} :
                 Response(m, state_).id = m.id /\ Response(m, state_).method = m.method
           /\ \A method \in MethodName : \A state_ \in {"COMPLETE", "INPROGRESS"} :
                 /\ Event(m, method, state_) \in Message
                 /\ Event(m, method, state_).type = "event"
           /\ \A type \in MessageType : [m EXCEPT !.type = type] \in Message
           /\ \A param \in Param \cup {NULL} : [m EXCEPT !.param = param] \in Message
  BY Zenon DEF Message, MessageType, Response, Event, IsResponse

(* Sending a response keeps the types of the session. *)
LEMMA SendType ==
    ASSUME TypeOK, NEW m \in Message, ResponseDispatch(m, <<>>)
    PROVE  /\ todo' \in Seq(Message) /\ Len(todo') <= 1
           /\ active_request' \in Message \cup {NULL}
           /\ request_queue' \in Seq(Message)
           /\ session_state' \in {"INITIALIZING", "DEACTIVATING", "TERMINATING"}
           /\ subrequest_count' \in 0 .. 1
           /\ active' = active /\ sm_request' = NULL
           /\ to_client' \in Seq(Message)
  <1>. USE DEF TypeOK, ControlTypeOK
  <1>1. CASE active
    <2>1. SendResponse(m, <<>>) /\ sm_request' = NULL /\ active' = active
      BY Zenon, <1>1 DEF ResponseDispatch
    <2>2. to_client' \in Seq(Message)
      BY Zenon, <2>1, PutLast DEF SendResponse
    <2>3. CASE request_queue = <<>>
      BY <2>1, <2>2, <2>3, EmptySeq DEF SendResponse
    <2>4. CASE request_queue # <<>>
      <3>1. Head(request_queue) \in Message /\ Tail(request_queue) \in Seq(Message)
        BY Zenon, <2>4, TakenFirst
      <3>2. todo' = <<Head(request_queue)>> /\ todo' \in Seq(Message) /\ Len(todo') = 1
        BY ZenonT(40), <2>1, <2>4, <3>1, PushOnEmpty DEF SendResponse
      <3>3. /\ active_request' = Head(request_queue) /\ request_queue' = Tail(request_queue)
            /\ session_state' = session_state /\ subrequest_count' = subrequest_count
        BY Zenon, <2>1, <2>4 DEF SendResponse
      <3>. QED BY <2>1, <2>2, <3>1, <3>2, <3>3
    <2>. QED BY Zenon, <2>3, <2>4
  <1>2. CASE ~active
    BY <1>2, EmptySeq DEF ResponseDispatch, OnDeactivate
  <1>. QED BY Zenon, <1>1, <1>2

(* The handlers of requests keep the types. *)
LEMMA TypeRequest ==
    ASSUME TypeOK, RequestUpdate
    PROVE  TypeOK'
  <1>. USE DEF RequestUpdate, Running, sessionVars, clientVars, machineVars, pluginVars, mediaVars
  <1>1. Current \in Message /\ Rest = <<>>
    BY Zenon, OneInHand
  <1>2. Response(Current, "COMPLETE") \in Message
    BY Zenon, <1>1, Created
  <1>3. Append(task_queue, Response(Current, "COMPLETE")) \in Seq(Message)
    BY Zenon, <1>2, PutLast DEF TypeOK, ControlTypeOK
  <1>4. CASE RequestSetParams
    BY <1>1, <1>3, <1>4, EmptySeq DEF TypeOK, ControlTypeOK, RequestSetParams, Signal, Message
  <1>5. CASE RequestGetParams
    BY <1>1, <1>3, <1>5, EmptySeq DEF TypeOK, ControlTypeOK, RequestGetParams, Signal
  <1>6. CASE RequestRecord
    <2>1. CASE state = "RECORDING"
      BY <1>1, <1>2, <1>6, <2>1, SendType DEF RequestRecord, TypeOK, ControlTypeOK
    <2>2. CASE state # "RECORDING"
      <3>1. Inherit(Current) \in Message
        BY Zenon, <1>1, Created DEF Inherit, TypeOK, ControlTypeOK
      <3>2. [Inherit(Current) EXCEPT !.type = "record_open"] \in Message
        BY Zenon, <3>1, Created DEF MessageType
      <3>3. todo' \in Seq(Message) /\ Len(todo') = 1
        BY Zenon, <1>1, <1>6, <2>2, <3>2, PushOnEmpty DEF RequestRecord
      <3>. QED BY <1>6, <2>2, <3>1, <3>3 DEF RequestRecord, TypeOK, ControlTypeOK
    <2>. QED BY Zenon, <2>1, <2>2
  <1>7. CASE RequestStop
    <2>1. CASE state = "RECORDING"
      BY <1>1, <1>2, <1>7, <2>1, EmptySeq DEF RequestStop, TypeOK, ControlTypeOK
    <2>2. CASE state # "RECORDING"
      BY <1>1, <1>2, <1>7, <2>2, SendType DEF RequestStop, TypeOK, ControlTypeOK
    <2>. QED BY Zenon, <2>1, <2>2
  <1>8. CASE RequestStartTimers
    <2>1. CASE state = "RECORDING"
      <3>1. timers_started' \in BOOLEAN
        BY Zenon, <1>8, <2>1 DEF RequestStartTimers
      <3>2. /\ sm_request' = Current /\ todo' = <<>>
            /\ task_queue' = Append(task_queue, Response(Current, "COMPLETE"))
            /\ UNCHANGED <<sessionVars, active, to_client, properties, machineVars,
                           record_request, stop_response, max_time, cur_time, audio_out,
                           clientVars, mediaVars>>
        BY Zenon, <1>1, <1>8, <2>1 DEF RequestStartTimers, Signal
      <3>. QED BY <1>1, <1>3, <3>1, <3>2, EmptySeq DEF TypeOK, ControlTypeOK
    <2>2. CASE state # "RECORDING"
      BY <1>1, <1>2, <1>8, <2>2, SendType DEF RequestStartTimers, TypeOK, ControlTypeOK
    <2>. QED BY Zenon, <2>1, <2>2
  <1>. QED BY Zenon, <1>4, <1>5, <1>6, <1>7, <1>8

(* The steps of the RECORD handler keep the types. *)
LEMMA TypeRecord ==
    ASSUME TypeOK, RecordOpen \/ RecordReset \/ RecordRespond \/ RecordStart
    PROVE  TypeOK'
  <1>. USE DEF Running, sessionVars, clientVars, machineVars, pluginVars, mediaVars
  <1>1. Current \in Message /\ Rest = <<>>
    BY Zenon, OneInHand DEF RecordOpen, RecordReset, RecordRespond, RecordStart
  <1>2. \A type \in MessageType : [Current EXCEPT !.type = type] \in Message
    BY Zenon, <1>1, Created
  <1>3. \A type \in MessageType : /\ <<[Current EXCEPT !.type = type]>> \o Rest \in Seq(Message)
                                 /\ Len(<<[Current EXCEPT !.type = type]>> \o Rest) = 1
    BY Zenon, <1>1, <1>2, PushOnEmpty
  <1>4. /\ Append(task_queue, Response(Current, "COMPLETE")) \in Seq(Message)
        /\ Append(task_queue, Response(Current, "INPROGRESS")) \in Seq(Message)
    BY Zenon, <1>1, Created, PutLast DEF TypeOK, ControlTypeOK
  <1>5. CASE RecordOpen
    <2>1. timers_started' \in BOOLEAN
      BY Zenon, <1>5 DEF RecordOpen
    <2>4. audio_out' \in BOOLEAN
      <3>1. audio_out' = TRUE \/ audio_out' = FALSE \/ audio_out' = audio_out
        BY Zenon, <1>5 DEF RecordOpen
      <3>. QED BY Zenon, <3>1 DEF TypeOK
    <2>2. max_time' \in 0 .. TimeCap
      BY Zenon, <1>1, <1>5, TimeAssumption DEF RecordOpen, Message, TypeOK
    <2>3. todo' \in Seq(Message) /\ Len(todo') <= 1 /\ task_queue' \in Seq(Message)
      <3>1. \/ /\ todo' = <<[Current EXCEPT !.type = "record_reset"]>> \o Rest
               /\ task_queue' = task_queue
            \/ /\ todo' = Rest
               /\ task_queue' = Append(task_queue, Response(Current, "COMPLETE"))
        BY Zenon, <1>5 DEF RecordOpen, Signal
      <3>2. Rest \in Seq(Message) /\ Len(Rest) <= 1 /\ task_queue \in Seq(Message)
        BY <1>1, EmptySeq DEF TypeOK, ControlTypeOK
      <3>3. /\ <<[Current EXCEPT !.type = "record_reset"]>> \o Rest \in Seq(Message)
            /\ Len(<<[Current EXCEPT !.type = "record_reset"]>> \o Rest) <= 1
        BY <1>3 DEF MessageType
      <3>4. CASE todo' = Rest /\ task_queue' = Append(task_queue, Response(Current, "COMPLETE"))
        BY Zenon, <1>4, <3>2, <3>4
      <3>5. CASE /\ todo' = <<[Current EXCEPT !.type = "record_reset"]>> \o Rest
                 /\ task_queue' = task_queue
        BY Zenon, <3>2, <3>3, <3>5
      <3>. QED BY Zenon, <3>1, <3>4, <3>5
    <2>. QED BY <1>5, <2>1, <2>2, <2>3, <2>4 DEF RecordOpen, TypeOK, ControlTypeOK
  <1>6. CASE RecordReset
    <2>1. todo' \in Seq(Message) /\ Len(todo') <= 1
      BY <1>3, <1>6 DEF RecordReset, MessageType
    <2>2. cur_time' \in 0 .. TimeCap
      BY <1>6, TimeAssumption DEF RecordReset
    <2>. QED BY <1>6, <2>1, <2>2 DEF RecordReset, TypeOK, ControlTypeOK
  <1>7. CASE RecordRespond
    <2>1. todo' \in Seq(Message) /\ Len(todo') <= 1
      BY <1>3, <1>7 DEF RecordRespond, MessageType
    <2>. QED BY <1>4, <1>7, <2>1 DEF RecordRespond, TypeOK, ControlTypeOK, Signal
  <1>8. CASE RecordStart
    <2>1. record_request' \in Message
      BY Zenon, <1>2, <1>8 DEF RecordStart, MessageType
    <2>. QED BY <1>1, <1>8, <2>1, EmptySeq DEF RecordStart, TypeOK, ControlTypeOK
  <1>. QED BY Zenon, <1>5, <1>6, <1>7, <1>8

(* The handlers of engine responses and events keep the types. *)
LEMMA TypeEngine ==
    ASSUME TypeOK, ResponseUpdate \/ EventUpdate
    PROVE  TypeOK'
  <1>. USE DEF Running, sessionVars, clientVars, machineVars, pluginVars, mediaVars
  <1>1. Current \in Message /\ Rest = <<>>
    BY Zenon, OneInHand DEF ResponseUpdate, EventUpdate
  <1>2. CASE ResponseUpdate /\ Expected
    <2>1. PICK m \in Message : ResponseDispatch(m, Rest)
      <3>1. [Current EXCEPT !.param = properties] \in Message
        BY Zenon, <1>1, Created DEF TypeOK, ControlTypeOK
      <3>. QED BY Zenon, <1>1, <1>2, <3>1 DEF ResponseUpdate, ResponseParams, ResponseRecord, ResponseStop
    <2>2. record' \in Message \cup {NULL} /\ state' \in {"IDLE", "RECORDING"}
      BY Zenon, <1>2 DEF ResponseUpdate, ResponseParams, ResponseRecord, ResponseStop, TypeOK, ControlTypeOK
    <2>3. UNCHANGED <<task_queue, clientVars, pluginVars, mediaVars, properties>>
      BY Zenon, <1>2 DEF ResponseUpdate
    <2>. QED BY <1>1, <2>1, <2>2, <2>3, SendType DEF TypeOK, ControlTypeOK
  <1>3. CASE ResponseUpdate /\ ~Expected
    <2>1. /\ todo' = <<>>
          /\ UNCHANGED <<sessionVars, active, sm_request, properties, to_client, machineVars,
                         task_queue, clientVars, pluginVars, mediaVars>>
      BY Zenon, <1>1, <1>3 DEF ResponseUpdate, Ignore
    <2>. QED BY <2>1, EmptySeq DEF TypeOK, ControlTypeOK
  <1>4. CASE EventUpdate
    <2>1. /\ to_client' \in Seq(Message) /\ todo' = <<>>
          /\ UNCHANGED <<sessionVars, active, sm_request, properties>>
      <3>1. Append(to_client, Current) \in Seq(Message)
        BY Zenon, <1>1, PutLast DEF TypeOK, ControlTypeOK
      <3>2. EventDispatch(Current, Rest) \/ Ignore(Rest)
        BY Zenon, <1>4 DEF EventUpdate, EventStartOfInput, EventRecordComplete
      <3>. QED BY Zenon, <1>1, <1>4, <3>1, <3>2
               DEF EventUpdate, EventDispatch, Ignore, TypeOK, ControlTypeOK
    <2>2. record' \in Message \cup {NULL} /\ state' \in {"IDLE", "RECORDING"}
      BY Zenon, <1>4 DEF EventUpdate, EventStartOfInput, EventRecordComplete, TypeOK
    <2>3. UNCHANGED <<task_queue, clientVars, pluginVars, mediaVars>>
      BY Zenon, <1>4 DEF EventUpdate
    <2>. QED BY <2>1, <2>2, <2>3, EmptySeq DEF TypeOK, ControlTypeOK
  <1>. QED BY Zenon, <1>2, <1>3, <1>4

(* The end of the session keeps the types. *)
LEMMA TypeDeactivate ==
    ASSUME TypeOK, Deactivate
    PROVE  TypeOK'
  <1>. USE DEF Running, sessionVars, clientVars, machineVars, pluginVars, mediaVars
  <1>1. Rest = <<>>
    BY Zenon, OneInHand DEF Deactivate
  <1>. DEFINE stop == IF state = "RECORDING" /\ record # NULL
                      THEN Request("STOP", record.id + 1, NULL)
                      ELSE NULL
  <1>2. stop \in Message \cup {NULL} /\ (stop # NULL => Response(stop, "COMPLETE") \in Message)
    <2>1. ASSUME NEW m \in Message
          PROVE  Request("STOP", m.id + 1, NULL) \in Message
      BY Sent, IdOf DEF MethodName
    <2>2. stop \in Message \cup {NULL}
      BY Zenon, <2>1 DEF TypeOK
    <2>. QED BY Zenon, <2>2, Created
  <1>3. /\ DeactivateSession(stop, Rest)
        /\ stop_response' = IF stop = NULL THEN stop_response ELSE Response(stop, "COMPLETE")
        /\ UNCHANGED <<task_queue, clientVars, machineVars, record_request, timers_started,
                       max_time, cur_time, audio_out, mediaVars>>
    BY Zenon DEF Deactivate
  <1>. HIDE DEF stop
  <1>4. active' \in BOOLEAN
    BY Zenon, <1>3 DEF DeactivateSession
  <1>5. /\ todo' = <<>> /\ sm_request' \in Message \cup {NULL}
        /\ stop_response' \in Message \cup {NULL}
        /\ subrequest_count' \in 0 .. 1
        /\ session_state' \in {"INITIALIZING", "DEACTIVATING", "TERMINATING"}
        /\ UNCHANGED <<active_request, request_queue, properties, to_client>>
    BY <1>1, <1>2, <1>3 DEF DeactivateSession, TypeOK, ControlTypeOK
  <1>. QED BY <1>3, <1>4, <1>5, EmptySeq DEF TypeOK, ControlTypeOK

(* The media thread keeps the types. *)
LEMMA TypeMedia ==
    ASSUME TypeOK, MediaThread
    PROVE  TypeOK'
  <1>. USE DEF sessionVars, clientVars, machineVars, Media
  <1>1. record_request # NULL =>
           /\ Append(task_queue, Event(record_request, "RECORD-COMPLETE", "COMPLETE")) \in Seq(Message)
           /\ Append(task_queue, Event(record_request, "START-OF-INPUT", "INPROGRESS")) \in Seq(Message)
    <2>1. record_request # NULL =>
             /\ Event(record_request, "RECORD-COMPLETE", "COMPLETE") \in Message
             /\ Event(record_request, "START-OF-INPUT", "INPROGRESS") \in Message
      <3>1. record_request # NULL =>
               \A method \in MethodName : \A state_ \in {"COMPLETE", "INPROGRESS"} :
                  Event(record_request, method, state_) \in Message
        BY Zenon, Created DEF TypeOK
      <3>. QED BY Zenon, <3>1 DEF MethodName
    <2>. QED BY Zenon, <2>1, PutLast DEF TypeOK, ControlTypeOK
  <1>2. CASE MediaStopRespond
    <2>1. audio_out' \in BOOLEAN
      BY Zenon, <1>2 DEF MediaStopRespond
    <2>2. task_queue' \in Seq(Message)
      BY Zenon, <1>2, PutLast DEF MediaStopRespond, Signal, TypeOK, ControlTypeOK
    <2>3. /\ media_pc' = "stop_response"
          /\ UNCHANGED <<todo, sessionVars, active, sm_request, properties, to_client,
                         clientVars, machineVars, max_time, timers_started, record_request,
                         stop_response, cur_time, voice, crashed, overtaken>>
      BY Zenon, <1>2 DEF MediaStopRespond
    <2>. QED BY <2>1, <2>2, <2>3 DEF TypeOK, ControlTypeOK
  <1>3. CASE MediaStopClear
    BY <1>3 DEF MediaStopClear, TypeOK, ControlTypeOK
  <1>4. CASE MediaRecordClear
    BY <1>4 DEF MediaRecordClear, TypeOK, ControlTypeOK
  <1>5. CASE MediaDetect
    <2>1. audio_out' \in BOOLEAN /\ voice' \in BOOLEAN
      <3>1. audio_out' = FALSE \/ audio_out' = audio_out
        BY Zenon, <1>5 DEF MediaDetect, RecordComplete
      <3>2. voice' = FALSE \/ voice' = TRUE \/ voice' = voice
        BY Zenon, <1>5 DEF MediaDetect
      <3>. QED BY Zenon, <3>1, <3>2 DEF TypeOK
    <2>2. task_queue' \in Seq(Message) /\ record_request' \in Message \cup {NULL}
      BY Zenon, <1>1, <1>5 DEF MediaDetect, RecordComplete, Signal, TypeOK, ControlTypeOK
    <2>3. /\ media_pc' = "write"
          /\ UNCHANGED <<todo, sessionVars, active, sm_request, properties, to_client,
                         clientVars, machineVars, max_time, timers_started, stop_response,
                         cur_time, crashed, overtaken>>
      BY Zenon, <1>5 DEF MediaDetect
    <2>. QED BY <2>1, <2>2, <2>3 DEF TypeOK, ControlTypeOK
  <1>6. CASE MediaWrite
    <2>1. audio_out' \in BOOLEAN /\ crashed' \in BOOLEAN
      <3>1. audio_out' = FALSE \/ audio_out' = audio_out
        BY Zenon, <1>6 DEF MediaWrite, RecordComplete
      <3>2. crashed' = TRUE \/ crashed' = crashed
        BY Zenon, <1>6 DEF MediaWrite
      <3>. QED BY Zenon, <3>1, <3>2 DEF TypeOK
    <2>2. task_queue' \in Seq(Message) /\ record_request' \in Message \cup {NULL}
      BY Zenon, <1>1, <1>6 DEF MediaWrite, RecordComplete, Signal, TypeOK, ControlTypeOK
    <2>3. cur_time' \in 0 .. TimeCap
      BY <1>6, TimeAssumption DEF MediaWrite, TypeOK
    <2>4. /\ media_pc' = "start"
          /\ UNCHANGED <<todo, sessionVars, active, sm_request, properties, to_client,
                         clientVars, machineVars, max_time, timers_started, stop_response,
                         voice, overtaken>>
      BY Zenon, <1>6 DEF MediaWrite
    <2>. QED BY <2>1, <2>2, <2>3, <2>4 DEF TypeOK, ControlTypeOK
  <1>. QED BY Zenon, <1>2, <1>3, <1>4, <1>5, <1>6 DEF MediaThread

(* The client and the queue of the server task keep the types. *)
LEMMA TypeQueue ==
    ASSUME TypeOK, TakeMessage \/ Client
    PROVE  TypeOK'
  <1>. USE DEF sessionVars, clientVars, machineVars, pluginVars, mediaVars
  <1>1. CASE TakeMessage
    <2>1. task_queue # <<>> /\ task_queue' = Tail(task_queue)
      BY Zenon, <1>1 DEF TakeMessage, ReceiveSignaling, ReceiveEngineMessage, Take
    <2>2. Head(task_queue) \in Message /\ task_queue' \in Seq(Message)
      BY Zenon, <2>1, TakenFirst DEF TypeOK, ControlTypeOK
    <2>3. <<Head(task_queue)>> \in Seq(Message) /\ Len(<<Head(task_queue)>>) = 1
      BY Zenon, <2>2, PushOnEmpty
    <2>4. Append(request_queue, Head(task_queue)) \in Seq(Message)
      BY Zenon, <2>2, PutLast DEF TypeOK, ControlTypeOK
    <2>5. /\ todo' \in Seq(Message) /\ Len(todo') <= 1
          /\ active_request' \in Message \cup {NULL} /\ request_queue' \in Seq(Message)
      <3>1. todo' = <<Head(task_queue)>> \/ todo' = todo
        BY Zenon, <1>1 DEF TakeMessage, ReceiveSignaling, ReceiveEngineMessage
      <3>2. active_request' = Head(task_queue) \/ active_request' = active_request
        BY Zenon, <1>1 DEF TakeMessage, ReceiveSignaling, ReceiveEngineMessage
      <3>3. \/ request_queue' = Append(request_queue, Head(task_queue))
            \/ request_queue' = request_queue
        BY Zenon, <1>1 DEF TakeMessage, ReceiveSignaling, ReceiveEngineMessage
      <3>4. todo' \in Seq(Message) /\ Len(todo') <= 1
        <4>1. CASE todo' = <<Head(task_queue)>>
          BY <2>3, <4>1
        <4>2. CASE todo' = todo
          BY Zenon, <4>2 DEF TypeOK, ControlTypeOK
        <4>. QED BY Zenon, <3>1, <4>1, <4>2
      <3>. QED BY Zenon, <2>2, <2>4, <3>2, <3>3, <3>4 DEF TypeOK, ControlTypeOK
    <2>6. UNCHANGED <<session_state, subrequest_count, active, sm_request, properties,
                      to_client, clientVars, machineVars, pluginVars, voice, media_pc, crashed>>
      BY Zenon, <1>1 DEF TakeMessage, ReceiveSignaling, ReceiveEngineMessage, Take
    <2>7. overtaken' \in BOOLEAN
      BY Zenon, <1>1 DEF TakeMessage
    <2>. QED BY SMTT(40), <2>2, <2>5, <2>6, <2>7 DEF TypeOK, ControlTypeOK
  <1>2. ASSUME NEW method \in Method, NEW param \in Param \cup {NULL},
               ClientRequest(method, param), UNCHANGED <<machineVars, pluginVars, mediaVars>>
        PROVE  TypeOK'
    <2>1. Request(method, last_id + 1, param) \in Message
      BY SMTT(40), MethodAssumption, Sent DEF TypeOK, ControlTypeOK
    <2>2. task_queue' \in Seq(Message) /\ last_id' \in Nat
      BY SMTT(40), <1>2, <2>1, PutLast DEF ClientRequest, Signal, TypeOK, ControlTypeOK
    <2>. QED BY <1>2, <2>2 DEF ClientRequest, TypeOK, ControlTypeOK
  <1>3. ASSUME ClientTerminate, UNCHANGED <<machineVars, pluginVars, mediaVars>>
        PROVE  TypeOK'
    <2>1. Terminate \in Message
      BY Zenon, Sent
    <2>2. task_queue' \in Seq(Message)
      BY Zenon, <1>3, <2>1, PutLast DEF ClientTerminate, Signal, TypeOK, ControlTypeOK
    <2>3. hangup' \in BOOLEAN
      BY Zenon, <1>3 DEF ClientTerminate
    <2>4. UNCHANGED <<todo, sessionVars, active, sm_request, properties, to_client, last_id,
                      machineVars, pluginVars, mediaVars>>
      BY Zenon, <1>3 DEF ClientTerminate
    <2>. QED BY <2>2, <2>3, <2>4 DEF TypeOK, ControlTypeOK
  <1>. QED BY Zenon, <1>1, <1>2, <1>3 DEF Client

(* Every step keeps the types. *)
LEMMA TypeNext == TypeOK /\ [Next]_vars => TypeOK'
  <1>. SUFFICES ASSUME TypeOK, [Next]_vars PROVE TypeOK'
    BY Zenon
  <1>1. CASE UNCHANGED vars
    BY <1>1 DEF vars, controlVars, sessionVars, clientVars, machineVars, pluginVars, mediaVars,
       TypeOK, ControlTypeOK
  <1>. QED BY Zenon, <1>1, TypeRequest, TypeRecord, TypeEngine, TypeDeactivate, TypeMedia, TypeQueue
           DEF Next, ServerTask
-----------------------------------------------------------------------------
(* A message added to the queue of the task *)
LEMMA AnswerSignal ==
    ASSUME NEW q \in Seq(Message), NEW m \in Message
    PROVE  /\ NoAnswer(q) => OneAnswer(Append(q, m))
           /\ ~IsResponse(m) /\ OneAnswer(q) => OneAnswer(Append(q, m))
           /\ ~IsResponse(m) /\ NoAnswer(q) => NoAnswer(Append(q, m))
           /\ \A r : AllFit(r, q) /\ (IsResponse(m) => Fits(r, m)) => AllFit(r, Append(q, m))
           /\ \A r : NoAnswer(q) => AllFit(r, q)
           /\ NoAnswer(q) => OneAnswer(q)
  <1>. DEFINE t == Append(q, m)
  <1>1. /\ Len(t) = Len(q) + 1 /\ Len(q) \in Nat /\ t[Len(q) + 1] = m
        /\ \A i \in 1 .. Len(q) : t[i] = q[i]
    BY PutLast
  <1>2. \A i \in 1 .. Len(t) : i \in 1 .. Len(q) \/ i = Len(q) + 1
    BY <1>1
  <1>. HIDE DEF t
  <1>3. NoAnswer(q) => OneAnswer(t)
    BY Zenon, <1>1, <1>2 DEF NoAnswer, OneAnswer
  <1>4. ~IsResponse(m) /\ OneAnswer(q) => OneAnswer(t)
    BY Zenon, <1>1, <1>2 DEF OneAnswer
  <1>5. ~IsResponse(m) /\ NoAnswer(q) => NoAnswer(t)
    BY Zenon, <1>1, <1>2 DEF NoAnswer
  <1>6. \A r : AllFit(r, q) /\ (IsResponse(m) => Fits(r, m)) => AllFit(r, t)
    BY Zenon, <1>1, <1>2 DEF AllFit
  <1>7. (\A r : NoAnswer(q) => AllFit(r, q)) /\ (NoAnswer(q) => OneAnswer(q))
    BY Zenon DEF NoAnswer, AllFit, OneAnswer
  <1>. QED BY Zenon, <1>3, <1>4, <1>5, <1>6, <1>7 DEF t

(* A message taken from the queue of the task *)
LEMMA AnswerTake ==
    ASSUME NEW q \in Seq(Message), q # <<>>
    PROVE  /\ OneAnswer(q) => OneAnswer(Tail(q))
           /\ NoAnswer(q) => NoAnswer(Tail(q)) /\ ~IsResponse(Head(q))
           /\ OneAnswer(q) /\ IsResponse(Head(q)) => NoAnswer(Tail(q))
           /\ \A r : AllFit(r, q) =>
                 AllFit(r, Tail(q)) /\ (IsResponse(Head(q)) => Fits(r, Head(q)))
  <1>. DEFINE t == Tail(q)
  <1>1. /\ Head(q) = q[1] /\ Len(t) = Len(q) - 1 /\ Len(q) \in Nat \ {0}
        /\ \A i \in 1 .. Len(t) : t[i] = q[i + 1]
    BY Zenon, TakenFirst
  <1>2. \A i \in 1 .. Len(t) : i + 1 \in 1 .. Len(q) /\ i + 1 # 1
    BY <1>1
  <1>3. 1 \in 1 .. Len(q)
    BY <1>1
  <1>. HIDE DEF t
  <1>4. OneAnswer(q) => OneAnswer(t)
    BY SMTT(40), <1>1, <1>2 DEF OneAnswer
  <1>5. NoAnswer(q) => NoAnswer(t) /\ ~IsResponse(Head(q))
    BY Zenon, <1>1, <1>2, <1>3 DEF NoAnswer
  <1>6. OneAnswer(q) /\ IsResponse(Head(q)) => NoAnswer(t)
    BY Zenon, <1>1, <1>2, <1>3 DEF NoAnswer, OneAnswer
  <1>7. \A r : AllFit(r, q) => AllFit(r, t) /\ (IsResponse(Head(q)) => Fits(r, Head(q)))
    BY Zenon, <1>1, <1>2, <1>3 DEF AllFit
  <1>. QED BY Zenon, <1>4, <1>5, <1>6, <1>7 DEF t

(* A state machine that waits for nothing: no answer is under way. *)
LEMMA Quiet ==
    ASSUME Token, sm_request = NULL
    PROVE  NoAnswer(task_queue) /\ ~StopWaits /\ ~InHand(Unanswered \cup {"response"})
  BY Zenon DEF Token, AllFit, Fits, NoAnswer

(* What the server task has in hand after a step *)
LEMMA EmptyHand ==
    ASSUME todo' = <<>>
    PROVE  \A types : ~InHand(types)'
  BY Zenon DEF InHand

(* The message a step puts in hand *)
LEMMA NewHand ==
    ASSUME NEW m \in Message, todo' = <<m>>
    PROVE  Current' = m /\ \A types : InHand(types)' <=> m.type \in types
  <1>1. todo' # <<>> /\ Head(todo') = m
    BY Zenon, PushOnEmpty
  <1>. QED BY Zenon, <1>1 DEF InHand, Current

(* A message of the session has a type and is not NULL. *)
LEMMA NotNull == \A m \in Message : m # NULL
  BY Zenon, NullAssumption

(* The state machine answers the request it has been given. *)
LEMMA Dispatch ==
    ASSUME RecorderInv, NEW m \in Message, ResponseDispatch(m, <<>>),
           active => IsRequest(active_request) /\ m.id = active_request.id,
           NoAnswer(task_queue), ~StopWaits,
           UNCHANGED <<task_queue, last_id, stop_response, media_pc>>
    PROVE  Serial' /\ Token' /\ Order' /\ sm_request' = NULL
  <1>. USE DEF RecorderInv
  <1>0. ControlTypeOK
    BY Zenon DEF TypeOK
  <1>1. sm_request' = NULL /\ active' = active /\ NoAnswer(task_queue)' /\ ~StopWaits'
    BY Zenon DEF ResponseDispatch, NoAnswer, StopWaits
  <1>2. OneAnswer(task_queue)' /\ AllFit(sm_request, task_queue)'
    BY Zenon, <1>1 DEF NoAnswer, OneAnswer, AllFit
  <1>3. stop_response' # NULL => IsResponse(stop_response')
    BY Zenon DEF Token
  <1>4. ASSUME ~InHand(Unanswered \cup {"response"})'
        PROVE  Token'
    BY Zenon, <1>1, <1>2, <1>3, <1>4 DEF Token
  <1>5. CASE ~active
    <2>1. /\ todo' = <<>>
          /\ UNCHANGED <<active_request, request_queue, to_client>>
      BY Zenon, <1>5 DEF ResponseDispatch, OnDeactivate
    <2>2. Order'
      BY Zenon, <2>1 DEF Order
    <2>3. \A types : ~InHand(types)'
      BY Zenon, <2>1, EmptyHand
    <2>4. Serial'
      BY Zenon, <1>1, <1>5, <2>1, <2>3 DEF Serial
    <2>. QED BY Zenon, <1>1, <1>4, <2>2, <2>3, <2>4
  <1>6. CASE active /\ request_queue = <<>>
    <2>1. /\ todo' = <<>> /\ active_request' = NULL /\ request_queue' = request_queue
          /\ to_client' = Append(to_client, m)
      BY Zenon, <1>6 DEF ResponseDispatch, SendResponse
    <2>2. Order'
      BY Zenon, <1>0, <1>6, <2>1, OrderAnswer DEF Order, ControlTypeOK
    <2>3. \A types : ~InHand(types)'
      BY Zenon, <2>1, EmptyHand
    <2>4. Serial'
      BY Zenon, <1>1, <1>6, <2>1, <2>3 DEF Serial
    <2>. QED BY Zenon, <1>1, <1>4, <2>2, <2>3, <2>4
  <1>7. CASE active /\ request_queue # <<>>
    <2>. DEFINE h == Head(request_queue)
    <2>1. /\ todo' = <<h>> \o <<>> /\ active_request' = h
          /\ request_queue' = Tail(request_queue) /\ to_client' = Append(to_client, m)
      BY Zenon, <1>7 DEF ResponseDispatch, SendResponse
    <2>2. InOrder(to_client', NULL, request_queue, task_queue, last_id)
      BY Zenon, <1>0, <1>7, <2>1, OrderAnswer DEF Order, ControlTypeOK
    <2>3. to_client' \in Seq(Message)
      BY Zenon, <1>0, <2>1, PutLast DEF ControlTypeOK
    <2>4. Order'
      BY ZenonT(40), <1>0, <1>7, <2>1, <2>2, <2>3, OrderPop DEF Order, ControlTypeOK
    <2>5. /\ h \in Message /\ h = request_queue[1] /\ Len(request_queue) \in Nat \ {0}
          /\ Len(request_queue') = Len(request_queue) - 1
          /\ \A i \in 1 .. Len(request_queue') : request_queue'[i] = request_queue[i + 1]
      BY Zenon, <1>0, <1>7, <2>1, TakenFirst DEF ControlTypeOK
    <2>. HIDE DEF h
    <2>6. todo' = <<h>>
      BY Zenon, <2>1, <2>5, PushOnEmpty
    <2>7. Current' = h /\ \A types : InHand(types)' <=> h.type \in types
      BY Zenon, <2>5, <2>6, NewHand
    <2>8. h.type \in {"request", "terminate"} /\ h # NULL
      <3>1. h # NULL
        BY Zenon, <2>5, NotNull
      <3>2. 1 \in 1 .. Len(request_queue)
        BY SMTT(40), <2>5
      <3>3. \A i \in 1 .. Len(request_queue) : request_queue[i].type \in {"request", "terminate"}
        BY Zenon DEF Serial
      <3>. QED BY Zenon, <2>5, <3>1, <3>2, <3>3
    <2>9. \A i \in 1 .. Len(request_queue') : request_queue'[i].type \in {"request", "terminate"}
      BY <2>5 DEF Serial
    <2>10. Token'
      BY Zenon, <1>4, <2>7, <2>8 DEF Unanswered
    <2>11. Serial'
      BY ZenonT(40), <1>1, <1>7, <2>1, <2>7, <2>8, <2>9 DEF Serial, Unanswered, IsRequest
    <2>. QED BY Zenon, <1>1, <2>4, <2>10, <2>11
  <1>. QED BY Zenon, <1>5, <1>6, <1>7

(* The engine has answered: the response is in the queue of the task and   *)
(* nothing remains in hand.                                                *)
LEMMA Forward ==
    ASSUME RecorderInv, NEW m \in Message, IsResponse(m),
           Signal(m), todo' = <<>>, NoAnswer(task_queue), ~StopWaits,
           active, IsRequest(active_request), sm_request' \in Message,
           Fits(sm_request', m), m.id = active_request.id,
           UNCHANGED <<sessionVars, active, to_client, last_id, stop_response, media_pc>>
    PROVE  Serial' /\ Token' /\ Order'
  <1>. USE DEF RecorderInv, sessionVars
  <1>1. \A types : ~InHand(types)'
    BY Zenon, EmptyHand
  <1>0. task_queue \in Seq(Message) /\ task_queue' = Append(task_queue, m)
    BY Zenon DEF Signal, TypeOK, ControlTypeOK
  <1>2. Order'
    <2>1. ~IsRequest(m)
      BY Zenon DEF IsResponse, IsRequest
    <2>2. /\ to_client \in Seq(Message) /\ active_request \in Message \cup {NULL}
          /\ request_queue \in Seq(Message) /\ last_id \in Nat
      BY Zenon DEF TypeOK, ControlTypeOK
    <2>3. InOrder(to_client, active_request, request_queue, task_queue', last_id)
      BY Zenon, <1>0, <2>1, <2>2, OrderSignal DEF Order
    <2>. QED BY Zenon, <2>3 DEF Order
  <1>3. Serial'
    BY Zenon, <1>1 DEF Serial, Fits
  <1>4. OneAnswer(task_queue)' /\ AllFit(sm_request, task_queue)'
    <2>2. AllFit(sm_request', task_queue)
      BY Zenon, <1>0, AnswerSignal
    <2>3. OneAnswer(Append(task_queue, m)) /\ AllFit(sm_request', Append(task_queue, m))
      BY Zenon, <1>0, <2>2, AnswerSignal
    <2>. QED BY Zenon, <1>0, <2>3
  <1>5. ~StopWaits'
    BY Zenon DEF StopWaits
  <1>6. stop_response' # NULL => IsResponse(stop_response')
    BY Zenon DEF Token
  <1>. QED BY Zenon, <1>1, <1>2, <1>3, <1>4, <1>5, <1>6 DEF Token
-----------------------------------------------------------------------------

(* A request in hand is the one the session has in progress, and the state *)
(* machine waits for nothing yet.                                          *)
LEMMA InvRequest ==
    ASSUME RecorderInv, RequestUpdate
    PROVE  Serial' /\ Token' /\ Machine' /\ Order'
  <1>. USE DEF RecorderInv, sessionVars, clientVars, machineVars, pluginVars, mediaVars
  <1>1. Current \in Message /\ Rest = <<>> /\ Current.type = "request" /\ InHand({"request"})
    BY Zenon, OneInHand DEF RequestUpdate, Running, InHand
  <1>2. /\ active /\ IsRequest(active_request) /\ active_request.id = Current.id
        /\ sm_request = NULL /\ Current # NULL
    BY Zenon, <1>1, NotNull DEF Serial, InHand
  <1>3. NoAnswer(task_queue) /\ ~StopWaits
    BY Zenon, <1>2, Quiet
  <1>. DEFINE answer == Response(Current, "COMPLETE")
  <1>4. /\ answer \in Message /\ IsResponse(answer)
        /\ answer.id = Current.id /\ answer.method = Current.method
    BY Zenon, <1>1, Created
  <1>5. UNCHANGED <<last_id, media_pc>>
    BY Zenon DEF RequestUpdate
  <1>. HIDE DEF answer
  <1>6. ASSUME ResponseDispatch(answer, <<>>), UNCHANGED <<task_queue, stop_response, machineVars>>
        PROVE  Serial' /\ Token' /\ Machine' /\ Order'
    <2>1. Serial' /\ Token' /\ Order' /\ sm_request' = NULL
      BY Zenon, <1>2, <1>3, <1>4, <1>5, <1>6, Dispatch
    <2>2. Machine'
      BY Zenon, <1>6, <2>1 DEF Machine, StopPending
    <2>. QED BY Zenon, <2>1, <2>2
  <1>7. ASSUME Signal(answer), todo' = <<>>, sm_request' = Current, Current.method # "STOP",
               UNCHANGED <<sessionVars, active, to_client, stop_response, machineVars>>
        PROVE  Serial' /\ Token' /\ Machine' /\ Order'
    <2>1. Fits(sm_request', answer) /\ sm_request' \in Message
      BY Zenon, <1>1, <1>2, <1>4, <1>7 DEF Fits
    <2>2. Serial' /\ Token' /\ Order'
      BY Zenon, <1>2, <1>3, <1>4, <1>5, <1>7, <2>1, Forward
    <2>3. Machine'
      BY Zenon, <1>7 DEF Machine, StopPending
    <2>. QED BY Zenon, <2>2, <2>3
  <1>8. CASE RequestSetParams
    BY Zenon, <1>1, <1>7, <1>8 DEF RequestSetParams, answer
  <1>9. CASE RequestGetParams
    BY Zenon, <1>1, <1>7, <1>9 DEF RequestGetParams, answer
  <1>10. CASE RequestStartTimers
    BY Zenon, <1>1, <1>6, <1>7, <1>10 DEF RequestStartTimers, answer
  <1>11. CASE RequestStop
    <2>1. CASE state # "RECORDING"
      BY Zenon, <1>1, <1>6, <1>11, <2>1 DEF RequestStop, answer
    <2>2. CASE state = "RECORDING"
      <3>1. /\ sm_request' = Current /\ stop_response' = answer /\ todo' = <<>>
            /\ UNCHANGED <<sessionVars, active, to_client, task_queue, machineVars>>
        BY Zenon, <1>1, <1>11, <2>2 DEF RequestStop, answer
      <3>2. \A types : ~InHand(types)'
        BY Zenon, <3>1, EmptyHand
      <3>3. Serial'
        BY Zenon, <1>2, <3>1, <3>2 DEF Serial
      <3>4. Machine'
        BY Zenon, <2>2, <3>1 DEF Machine
      <3>5. Order'
        BY Zenon, <1>5, <3>1 DEF Order
      <3>6. Fits(sm_request', stop_response')
        BY Zenon, <1>2, <1>4, <3>1 DEF Fits
      <3>7. NoAnswer(task_queue') /\ OneAnswer(task_queue') /\ AllFit(sm_request', task_queue')
        BY Zenon, <1>3, <3>1 DEF NoAnswer, OneAnswer, AllFit
      <3>8. Token'
        BY Zenon, <1>4, <3>1, <3>2, <3>6, <3>7 DEF Token
      <3>. QED BY Zenon, <3>3, <3>4, <3>5, <3>8
    <2>. QED BY Zenon, <2>1, <2>2
  <1>12. CASE RequestRecord
    <2>1. CASE state = "RECORDING"
      BY Zenon, <1>1, <1>6, <1>12, <2>1 DEF RequestRecord, answer
    <2>2. CASE state # "RECORDING"
      <3>. DEFINE r == Inherit(Current)
                  n == [r EXCEPT !.type = "record_open"]
      <3>1. /\ r \in Message /\ r # NULL /\ n \in Message /\ n.type = "record_open"
            /\ n.id = r.id /\ n.method = r.method /\ r.id = Current.id /\ r.method = "RECORD"
        <4>1. r \in Message /\ r.id = Current.id /\ r.method = Current.method
          BY Zenon, <1>1, Created DEF Inherit, TypeOK, ControlTypeOK, Message
        <4>2. n \in Message
          BY ZenonT(40), <4>1, Created DEF MessageType
        <4>. QED BY Zenon, <1>12, <4>1, <4>2, NotNull DEF RequestRecord, Message
      <3>2. /\ sm_request' = r /\ todo' = <<n>> \o <<>>
            /\ UNCHANGED <<sessionVars, active, to_client, task_queue, machineVars, stop_response>>
        BY Zenon, <1>1, <1>12, <2>2 DEF RequestRecord
      <3>. HIDE DEF r, n
      <3>3. Current' = n /\ \A types : InHand(types)' <=> n.type \in types
        BY Zenon, <3>1, <3>2, NewHand, PushOnEmpty
      <3>4. Serial'
        BY Zenon, <1>2, <3>1, <3>2, <3>3 DEF Serial, Unanswered
      <3>5. Machine'
        BY Zenon, <3>1, <3>2 DEF Machine, StopPending
      <3>6. Order'
        BY Zenon, <1>5, <3>2 DEF Order
      <3>7. NoAnswer(task_queue') /\ OneAnswer(task_queue') /\ AllFit(sm_request', task_queue')
        BY Zenon, <1>3, <3>2 DEF NoAnswer, OneAnswer, AllFit
      <3>8. ~StopWaits' /\ (stop_response' # NULL => IsResponse(stop_response'))
        BY Zenon, <1>3, <1>5, <3>2 DEF StopWaits, Token
      <3>9. Fits(sm_request', Current')
        BY Zenon, <3>1, <3>2, <3>3 DEF Fits
      <3>10. Token'
        BY Zenon, <3>7, <3>8, <3>9 DEF Token
      <3>. QED BY Zenon, <3>4, <3>5, <3>6, <3>10
    <2>. QED BY Zenon, <2>1, <2>2
  <1>. QED BY Zenon, <1>8, <1>9, <1>10, <1>11, <1>12 DEF RequestUpdate

(* The RECORD handler carries the request along and answers it once. *)
LEMMA InvRecord ==
    ASSUME RecorderInv, RecordOpen \/ RecordReset \/ RecordRespond \/ RecordStart
    PROVE  Serial' /\ Token' /\ Machine' /\ Order'
  <1>. USE DEF RecorderInv, Running, sessionVars, clientVars, machineVars, pluginVars, mediaVars
  <1>1. /\ Current \in Message /\ Rest = <<>>
        /\ active /\ IsRequest(active_request) /\ active_request.id = Current.id
    BY Zenon, OneInHand DEF RecordOpen, RecordReset, RecordRespond, RecordStart, Serial, InHand,
                     Unanswered
  <1>2. /\ UNCHANGED <<sessionVars, active, sm_request, to_client, clientVars, machineVars,
                       stop_response, media_pc>>
        /\ Machine'
    BY Zenon DEF RecordOpen, RecordReset, RecordRespond, RecordStart, Machine, StopPending
  <1>3. StopWaits' = StopWaits /\ (stop_response' # NULL => IsResponse(stop_response'))
    BY Zenon, <1>2 DEF StopWaits, Token
  <1>4. Current.type \in Unanswered =>
           Fits(sm_request, Current) /\ NoAnswer(task_queue) /\ ~StopWaits
    BY Zenon DEF Token, InHand, RecordOpen, RecordReset, RecordRespond, RecordStart
  <1>. DEFINE n(type) == [Current EXCEPT !.type = type]
              answer(state_) == Response(Current, state_)
  <1>5. \A type \in MessageType :
           /\ n(type) \in Message /\ n(type).type = type
           /\ n(type).id = Current.id /\ n(type).method = Current.method
    BY Zenon, <1>1, Created DEF Message
  <1>6. \A state_ \in {"COMPLETE", "INPROGRESS"} :
           /\ answer(state_) \in Message /\ IsResponse(answer(state_))
           /\ answer(state_).id = Current.id /\ answer(state_).method = Current.method
    BY ZenonT(40), <1>1, Created
  <1>. HIDE DEF n, answer
  <1>7. ASSUME NEW type \in {"record_reset", "record_respond"}, Current.type \in Unanswered,
               todo' = <<n(type)>> \o <<>>, UNCHANGED task_queue
        PROVE  Serial' /\ Token' /\ Order'
    <2>1. type \in MessageType /\ type \in Unanswered
      BY Zenon, <1>7 DEF MessageType, Unanswered
    <2>2. Current' = n(type) /\ \A types : InHand(types)' <=> type \in types
      BY Zenon, <1>5, <1>7, <2>1, NewHand, PushOnEmpty
    <2>3. Serial'
      BY Zenon, <1>1, <1>2, <1>5, <1>7, <2>1, <2>2 DEF Serial
    <2>4. Fits(sm_request', Current')
      BY Zenon, <1>2, <1>4, <1>5, <1>7, <2>1, <2>2 DEF Fits
    <2>5. OneAnswer(task_queue') /\ NoAnswer(task_queue') /\ AllFit(sm_request', task_queue')
      BY Zenon, <1>2, <1>4, <1>7 DEF Token
    <2>6. Token'
      BY Zenon, <1>3, <1>4, <1>7, <2>4, <2>5 DEF Token
    <2>7. Order'
      BY Zenon, <1>2, <1>7 DEF Order
    <2>. QED BY Zenon, <2>3, <2>6, <2>7
  <1>8. CASE RecordOpen
    <2>1. Current.type \in Unanswered /\ sm_request \in Message
      <3>1. Current.type \in Unanswered
        BY Zenon, <1>8 DEF RecordOpen, Unanswered
      <3>. QED BY Zenon, <3>1, <1>4 DEF TypeOK, ControlTypeOK, Fits
    <2>2. CASE todo' = <<n("record_reset")>> \o Rest /\ UNCHANGED task_queue
      BY Zenon, <1>1, <1>2, <1>7, <2>1, <2>2
    <2>3. CASE Signal(answer("COMPLETE")) /\ todo' = Rest
      <3>1. Fits(sm_request', answer("COMPLETE"))
        BY Zenon, <1>2, <1>4, <1>6, <2>1 DEF Fits
      <3>2. Serial' /\ Token' /\ Order'
        BY Zenon, <1>1, <1>2, <1>4, <1>6, <2>1, <2>3, <3>1, Forward
      <3>. QED BY Zenon, <1>2, <3>2
    <2>. QED BY Zenon, <1>8, <2>2, <2>3 DEF RecordOpen, n, answer
  <1>9. CASE RecordReset
    <2>1. Current.type \in Unanswered
      BY Zenon, <1>9 DEF RecordReset, Unanswered
    <2>2. todo' = <<n("record_respond")>> \o <<>> /\ UNCHANGED task_queue
      BY Zenon, <1>1, <1>9 DEF RecordReset, n
    <2>. QED BY Zenon, <1>2, <1>7, <2>1, <2>2
  <1>10. CASE RecordRespond
    <2>1. Current.type \in Unanswered
      BY Zenon, <1>10 DEF RecordRespond, Unanswered
    <2>2. todo' = <<n("record_start")>> \o <<>> /\ Signal(answer("INPROGRESS"))
      BY Zenon, <1>1, <1>10 DEF RecordRespond, n, answer
    <2>3. "record_start" \in MessageType
      BY Zenon DEF MessageType
    <2>4. Current' = n("record_start") /\ \A types : InHand(types)' <=> "record_start" \in types
      BY Zenon, <1>5, <2>2, <2>3, NewHand, PushOnEmpty
    <2>5. Serial'
      BY Zenon, <1>1, <1>2, <1>5, <2>3, <2>4 DEF Serial, Unanswered
    <2>6. Order'
      BY ZenonT(40), <1>2, <1>6, <2>2, OrderSignal
         DEF Order, Signal, IsResponse, IsRequest, TypeOK, ControlTypeOK
    <2>7. OneAnswer(task_queue') /\ AllFit(sm_request', task_queue')
      <3>1. task_queue \in Seq(Message) /\ task_queue' = Append(task_queue, answer("INPROGRESS"))
        BY Zenon, <2>2 DEF Signal, TypeOK, ControlTypeOK
      <3>2. NoAnswer(task_queue) /\ AllFit(sm_request', task_queue)
        BY Zenon, <1>2, <1>4, <2>1 DEF Token
      <3>3. Fits(sm_request', answer("INPROGRESS"))
        BY Zenon, <1>2, <1>4, <1>6, <2>1 DEF Fits
      <3>. QED BY Zenon, <1>6, <3>1, <3>2, <3>3, AnswerSignal
    <2>8. Token'
      BY Zenon, <1>3, <1>4, <2>1, <2>4, <2>7 DEF Token, Unanswered
    <2>. QED BY Zenon, <1>2, <2>5, <2>6, <2>8
  <1>11. CASE RecordStart
    <2>1. todo' = <<>> /\ UNCHANGED task_queue
      BY Zenon, <1>1, <1>11 DEF RecordStart
    <2>2. \A types : ~InHand(types)'
      BY Zenon, <2>1, EmptyHand
    <2>3. Serial' /\ Order'
      BY Zenon, <1>2, <2>1, <2>2 DEF Serial, Order
    <2>4. OneAnswer(task_queue') /\ AllFit(sm_request', task_queue') /\ (StopWaits => NoAnswer(task_queue'))
      BY Zenon, <1>2, <2>1 DEF Token
    <2>5. StopWaits => Fits(sm_request', stop_response')
      BY Zenon, <1>2 DEF Token
    <2>6. Token'
      BY Zenon, <1>3, <2>2, <2>4, <2>5 DEF Token
    <2>. QED BY Zenon, <1>2, <2>3, <2>6
  <1>. QED BY Zenon, <1>8, <1>9, <1>10, <1>11

(* A response in hand is the one the state machine waits for; an event     *)
(* leaves the request in progress alone.                                   *)
LEMMA InvEngine ==
    ASSUME RecorderInv, ResponseUpdate \/ EventUpdate
    PROVE  Serial' /\ Token' /\ Machine' /\ Order'
  <1>. USE DEF RecorderInv, Running, sessionVars, clientVars, machineVars, pluginVars, mediaVars
  <1>1. Current \in Message /\ Rest = <<>>
    BY Zenon, OneInHand DEF ResponseUpdate, EventUpdate
  <1>2. CASE ResponseUpdate
    <2>1. InHand(Unanswered \cup {"response"})
      BY Zenon, <1>2 DEF ResponseUpdate, InHand
    <2>2. Fits(sm_request, Current) /\ NoAnswer(task_queue) /\ ~StopWaits
      BY Zenon, <2>1 DEF Token
    <2>3. active => IsRequest(active_request) /\ Current.id = active_request.id
      BY Zenon, <2>2 DEF Serial, Fits
    <2>4. UNCHANGED <<task_queue, last_id, stop_response, media_pc>>
      BY Zenon, <1>2 DEF ResponseUpdate
    <2>. DEFINE p == [Current EXCEPT !.param = properties]
    <2>5. p \in Message /\ p.id = Current.id
      BY Zenon, <1>1, Created DEF TypeOK, ControlTypeOK, Message
    <2>. HIDE DEF p
    <2>6. ResponseDispatch(Current, <<>>) \/ ResponseDispatch(p, <<>>)
      BY Zenon, <1>1, <1>2, <2>2
         DEF ResponseUpdate, ResponseParams, ResponseRecord, ResponseStop, Expected, Fits, p
    <2>7. Serial' /\ Token' /\ Order' /\ sm_request' = NULL
      BY Zenon, <1>1, <2>2, <2>3, <2>4, <2>5, <2>6, Dispatch
    <2>8. Machine'
      BY Zenon, <1>2, <2>2, <2>7
         DEF ResponseUpdate, ResponseParams, ResponseRecord, ResponseStop, Expected, Fits,
             Machine, StopPending
    <2>. QED BY Zenon, <2>7, <2>8
  <1>3. CASE EventUpdate
    <2>1. /\ todo' = <<>>
          /\ UNCHANGED <<sessionVars, active, sm_request, task_queue, last_id, stop_response,
                         media_pc>>
          /\ to_client' = to_client \/ to_client' = Append(to_client, Current)
      BY Zenon, <1>1, <1>3
         DEF EventUpdate, EventStartOfInput, EventRecordComplete, EventDispatch, Ignore
    <2>2. \A types : ~InHand(types)'
      BY Zenon, <2>1, EmptyHand
    <2>3. Serial'
      BY ZenonT(40), <2>1, <2>2 DEF Serial
    <2>4. Token'
      BY Zenon, <2>1, <2>2 DEF Token, StopWaits
    <2>5. ~IsResponse(Current)
      BY Zenon, <1>3 DEF EventUpdate, IsResponse
    <2>6. Order'
      BY ZenonT(40), <1>1, <2>1, <2>5, OrderEvent DEF Order, TypeOK, ControlTypeOK
    <2>7. Machine'
      BY Zenon, <1>3, <2>1
         DEF EventUpdate, EventStartOfInput, EventRecordComplete, Machine, StopPending
    <2>. QED BY Zenon, <2>3, <2>4, <2>6, <2>7
  <1>. QED BY Zenon, <1>2, <1>3

(* The session is deactivated when the state machine waits for nothing. *)
LEMMA InvDeactivate ==
    ASSUME RecorderInv, Deactivate
    PROVE  Serial' /\ Token' /\ Machine' /\ Order'
  <1>. USE DEF RecorderInv, Running, sessionVars, clientVars, machineVars, pluginVars, mediaVars
  <1>1. Rest = <<>> /\ InHand({"terminate"})
    BY Zenon, OneInHand DEF Deactivate, InHand
  <1>2. active_request # NULL /\ active_request.type = "terminate" /\ sm_request = NULL
    BY Zenon, <1>1 DEF Serial, IsRequest
  <1>3. NoAnswer(task_queue) /\ ~StopWaits
    BY Zenon, <1>2, Quiet
  <1>. DEFINE stop == IF state = "RECORDING" /\ record # NULL
                      THEN Request("STOP", record.id + 1, NULL)
                      ELSE NULL
  <1>4. stop # NULL => /\ state = "RECORDING" /\ IsResponse(Response(stop, "COMPLETE"))
                       /\ Fits(stop, Response(stop, "COMPLETE"))
    BY Zenon DEF IsResponse, Response, Fits, Request
  <1>5. /\ DeactivateSession(stop, <<>>)
        /\ stop_response' = IF stop = NULL THEN stop_response ELSE Response(stop, "COMPLETE")
        /\ UNCHANGED <<task_queue, clientVars, machineVars, mediaVars>>
    BY Zenon, <1>1 DEF Deactivate
  <1>. HIDE DEF stop
  <1>6. /\ active' = FALSE /\ todo' = <<>> /\ sm_request' = stop
        /\ UNCHANGED <<active_request, request_queue, to_client>>
    BY Zenon, <1>2, <1>5 DEF DeactivateSession
  <1>7. \A types : ~InHand(types)'
    BY Zenon, <1>6, EmptyHand
  <1>8. Serial'
    BY ZenonT(40), <1>2, <1>6, <1>7 DEF Serial
  <1>9. Order'
    BY Zenon, <1>5, <1>6 DEF Order
  <1>10. Machine'
    BY Zenon, <1>4, <1>5, <1>6 DEF Machine, StopPending
  <1>11. NoAnswer(task_queue') /\ OneAnswer(task_queue') /\ AllFit(sm_request', task_queue')
    BY Zenon, <1>3, <1>5 DEF NoAnswer, OneAnswer, AllFit
  <1>12. /\ StopWaits' => Fits(sm_request', stop_response')
         /\ stop_response' # NULL => IsResponse(stop_response')
    BY Zenon, <1>3, <1>4, <1>5, <1>6 DEF StopWaits, Token
  <1>13. Token'
    BY Zenon, <1>7, <1>11, <1>12 DEF Token
  <1>. QED BY Zenon, <1>8, <1>9, <1>10, <1>13

(* The media thread sends the answer to STOP once, and events. *)
LEMMA InvMedia ==
    ASSUME RecorderInv, MediaThread
    PROVE  Serial' /\ Token' /\ Machine' /\ Order'
  <1>. USE DEF RecorderInv, sessionVars, clientVars, machineVars
  <1>1. UNCHANGED <<todo, sessionVars, active, sm_request, to_client, clientVars, machineVars>>
    BY ZenonT(40) DEF MediaThread, MediaStopRespond, MediaStopClear, MediaRecordClear, MediaDetect,
           MediaWrite, Media
  <1>2. Serial' /\ Machine' /\ Current' = Current /\ \A types : InHand(types)' = InHand(types)
    BY ZenonT(40), <1>1 DEF Serial, Machine, StopPending, InHand, Current
  <1>3. task_queue \in Seq(Message)
    BY Zenon DEF TypeOK, ControlTypeOK
  <1>4. ASSUME UNCHANGED <<task_queue, stop_response>> \/ (UNCHANGED task_queue /\ stop_response' = NULL),
               StopWaits' => StopWaits
        PROVE  Token' /\ Order'
    <2>1. Order'
      BY Zenon, <1>1, <1>4 DEF Order
    <2>2. OneAnswer(task_queue') /\ AllFit(sm_request', task_queue') /\ NoAnswer(task_queue') = NoAnswer(task_queue)
      BY Zenon, <1>1, <1>4 DEF Token
    <2>3. StopWaits' => Fits(sm_request', stop_response')
      BY Zenon, <1>1, <1>4 DEF Token, StopWaits
    <2>. QED BY Zenon, <1>1, <1>2, <1>4, <2>1, <2>2, <2>3 DEF Token
  <1>5. ASSUME NEW m \in Message, ~IsResponse(m), ~IsRequest(m), Signal(m),
               UNCHANGED stop_response, StopWaits' = StopWaits
        PROVE  Token' /\ Order'
    <2>1. Order'
      BY Zenon, <1>1, <1>5, OrderSignal DEF Order, Signal, TypeOK, ControlTypeOK
    <2>2. /\ OneAnswer(task_queue') /\ AllFit(sm_request', task_queue')
          /\ NoAnswer(task_queue) => NoAnswer(task_queue')
      BY Zenon, <1>1, <1>3, <1>5, AnswerSignal DEF Signal, Token
    <2>. QED BY Zenon, <1>1, <1>2, <1>5, <2>1, <2>2 DEF Token
  <1>6. record_request # NULL =>
           \A method \in MethodName, state_ \in {"COMPLETE", "INPROGRESS"} :
              LET m == Event(record_request, method, state_)
              IN  m \in Message /\ ~IsResponse(m) /\ ~IsRequest(m)
    BY ZenonT(40), Created DEF TypeOK, IsResponse, IsRequest
  <1>. DEFINE done == Event(record_request, "RECORD-COMPLETE", "COMPLETE")
              begun == Event(record_request, "START-OF-INPUT", "INPROGRESS")
  <1>7. record_request # NULL =>
           /\ done \in Message /\ ~IsResponse(done) /\ ~IsRequest(done)
           /\ begun \in Message /\ ~IsResponse(begun) /\ ~IsRequest(begun)
    BY Zenon, <1>6 DEF MethodName
  <1>. HIDE DEF done, begun
  <1>8. CASE MediaStopRespond
    <2>1. /\ StopWaits /\ ~StopWaits' /\ Signal(stop_response) /\ UNCHANGED stop_response
          /\ stop_response # NULL /\ stop_response \in Message
      BY Zenon, <1>8 DEF MediaStopRespond, Media, StopWaits, TypeOK
    <2>2. /\ NoAnswer(task_queue) /\ Fits(sm_request, stop_response) /\ IsResponse(stop_response)
          /\ ~InHand(Unanswered \cup {"response"})
      BY Zenon, <2>1 DEF Token
    <2>3. Order'
      BY ZenonT(40), <1>1, <2>1, <2>2, OrderSignal
         DEF Order, Signal, IsResponse, IsRequest, TypeOK, ControlTypeOK
    <2>4. OneAnswer(task_queue') /\ AllFit(sm_request', task_queue')
      BY Zenon, <1>1, <1>3, <2>1, <2>2, AnswerSignal DEF Signal, Token
    <2>5. Token'
      BY Zenon, <1>2, <2>1, <2>2, <2>4 DEF Token
    <2>. QED BY Zenon, <1>2, <2>3, <2>5
  <1>9. CASE MediaStopClear
    BY Zenon, <1>2, <1>4, <1>9 DEF MediaStopClear, Media, StopWaits
  <1>10. CASE MediaRecordClear
    BY Zenon, <1>2, <1>4, <1>10 DEF MediaRecordClear, Media, StopWaits
  <1>11. CASE MediaDetect
    <2>1. UNCHANGED stop_response /\ StopWaits' = StopWaits /\ record_request # NULL
      BY Zenon, <1>11 DEF MediaDetect, Media, StopWaits
    <2>2. UNCHANGED task_queue \/ Signal(done) \/ Signal(begun)
      BY Zenon, <1>11 DEF MediaDetect, RecordComplete, done, begun
    <2>. QED BY Zenon, <1>2, <1>4, <1>5, <1>7, <2>1, <2>2
  <1>12. CASE MediaWrite
    <2>1. UNCHANGED stop_response /\ StopWaits' = StopWaits
      BY Zenon, <1>12 DEF MediaWrite, Media, StopWaits
    <2>2. UNCHANGED task_queue \/ (record_request # NULL /\ Signal(done))
      BY Zenon, <1>12 DEF MediaWrite, RecordComplete, done
    <2>. QED BY Zenon, <1>2, <1>4, <1>5, <1>7, <2>1, <2>2
  <1>. QED BY Zenon, <1>8, <1>9, <1>10, <1>11, <1>12 DEF MediaThread

(* New messages, and the message the task takes *)
LEMMA InvQueue ==
    ASSUME RecorderInv, TakeMessage \/ Client
    PROVE  Serial' /\ Token' /\ Machine' /\ Order'
  <1>. USE DEF RecorderInv, sessionVars, clientVars, machineVars, pluginVars, mediaVars
  <1>1. /\ UNCHANGED <<active, sm_request, to_client, machineVars, stop_response, media_pc>>
        /\ Machine' /\ StopWaits' = StopWaits
    BY Zenon DEF TakeMessage, ReceiveSignaling, ReceiveEngineMessage, Take, Client, ClientRequest,
           ClientTerminate, Machine, StopPending, StopWaits
  <1>2. /\ task_queue \in Seq(Message) /\ last_id \in Nat /\ to_client \in Seq(Message)
        /\ active_request \in Message \cup {NULL} /\ request_queue \in Seq(Message)
    BY Zenon DEF TypeOK, ControlTypeOK
  <1>3. CASE TakeMessage
    <2>. DEFINE h == Head(task_queue)
    <2>1. task_queue # <<>> /\ task_queue' = Tail(task_queue) /\ UNCHANGED last_id /\ todo = <<>>
      BY Zenon, <1>3 DEF TakeMessage, ReceiveSignaling, ReceiveEngineMessage, Take
    <2>2. h \in Message /\ h # NULL
      BY Zenon, <1>2, <2>1, TakenFirst, NotNull
    <2>3. /\ OneAnswer(task_queue') /\ AllFit(sm_request', task_queue')
          /\ NoAnswer(task_queue) => NoAnswer(task_queue') /\ ~IsResponse(h)
          /\ IsResponse(h) => NoAnswer(task_queue') /\ Fits(sm_request', h)
      BY Zenon, <1>1, <1>2, <2>1, AnswerTake DEF Token
    <2>4. /\ stop_response' # NULL => IsResponse(stop_response')
          /\ StopWaits => Fits(sm_request', stop_response') /\ NoAnswer(task_queue)
      BY Zenon, <1>1 DEF Token
    <2>5. CASE active_request # NULL /\ ReceiveSignaling
      <3>1. /\ request_queue' = Append(request_queue, h) /\ UNCHANGED <<active_request, todo>>
            /\ h.type \in {"request", "terminate"}
        BY Zenon, <2>5 DEF ReceiveSignaling, Take
      <3>2. \A types : ~InHand(types)'
        BY Zenon, <2>1, <3>1, EmptyHand
      <3>3. Token'
        BY Zenon, <1>1, <2>3, <2>4, <3>2 DEF Token
      <3>4. Order'
        BY Zenon, <1>1, <1>2, <2>1, <3>1, OrderQueue DEF Order
      <3>5. \A i \in 1 .. Len(request_queue') : request_queue'[i].type \in {"request", "terminate"}
        <4>1. \A i \in 1 .. Len(request_queue) : request_queue[i].type \in {"request", "terminate"}
          BY Zenon, <1>1 DEF Serial
        <4>2. /\ Len(request_queue') = Len(request_queue) + 1 /\ Len(request_queue) \in Nat
              /\ \A i \in 1 .. Len(request_queue) : request_queue'[i] = request_queue[i]
              /\ request_queue'[Len(request_queue) + 1] = h
          <5>1. request_queue \in Seq(Message) /\ h \in Message
            BY Zenon, <1>2, <2>2
          <5>. HIDE DEF h
          <5>2. request_queue' = Append(request_queue, h)
            BY Zenon, <3>1
          <5>. QED BY <5>1, <5>2, PutLast
        <4>3. \A i \in 1 .. Len(request_queue') :
                  i \in 1 .. Len(request_queue) \/ i = Len(request_queue) + 1
          BY SMTT(40), <4>2
        <4>. QED BY Zenon, <3>1, <4>1, <4>2, <4>3
      <3>6. Serial'
        BY Zenon, <1>1, <2>5, <3>1, <3>2, <3>5 DEF Serial
      <3>. QED BY Zenon, <1>1, <3>3, <3>4, <3>6
    <2>6. CASE active_request = NULL /\ ReceiveSignaling
      <3>1. /\ active_request' = h /\ todo' = <<h>> /\ UNCHANGED request_queue
            /\ h.type \in {"request", "terminate"}
        BY Zenon, <2>6 DEF ReceiveSignaling, Take
      <3>2. active /\ sm_request = NULL /\ request_queue = <<>>
        BY Zenon, <2>6 DEF Serial, IsRequest
      <3>3. Current' = h /\ \A types : InHand(types)' <=> h.type \in types
        BY Zenon, <2>2, <3>1, NewHand
      <3>4. Serial'
        BY Zenon, <1>1, <2>2, <3>1, <3>2, <3>3 DEF Serial, Unanswered, IsRequest
      <3>5. ~StopWaits
        BY Zenon, <3>2, Quiet
      <3>6. Token'
        BY Zenon, <1>1, <2>3, <2>4, <3>1, <3>3, <3>5 DEF Token, Unanswered
      <3>7. Order'
        BY Zenon, <1>1, <1>2, <2>1, <2>6, <3>1, <3>2, OrderActivate DEF Order
      <3>. QED BY Zenon, <1>1, <3>4, <3>6, <3>7
    <2>7. CASE ReceiveEngineMessage
      <3>1. /\ todo' = <<h>> /\ UNCHANGED <<active_request, request_queue>>
            /\ h.type \in {"response", "event"}
        BY Zenon, <2>7 DEF ReceiveEngineMessage, Take
      <3>2. Current' = h /\ \A types : InHand(types)' <=> h.type \in types
        BY Zenon, <2>2, <3>1, NewHand
      <3>3. Serial'
        BY Zenon, <1>1, <3>1, <3>2 DEF Serial, Unanswered
      <3>4. InHand(Unanswered \cup {"response"})' <=> IsResponse(h)
        BY Zenon, <3>1, <3>2 DEF Unanswered, IsResponse
      <3>5. Token'
        BY Zenon, <1>1, <2>3, <2>4, <3>2, <3>4 DEF Token
      <3>6. Order'
        BY ZenonT(40), <1>1, <1>2, <2>1, <3>1, OrderTake DEF Order
      <3>. QED BY Zenon, <1>1, <3>3, <3>5, <3>6
    <2>. QED BY Zenon, <1>3, <2>5, <2>6, <2>7 DEF TakeMessage
  <1>4. ASSUME NEW m \in Message, ~IsResponse(m), Signal(m), UNCHANGED <<todo, sessionVars>>
        PROVE  Serial' /\ Token'
    <2>1. Current' = Current /\ \A types : InHand(types)' = InHand(types)
      BY Zenon, <1>4 DEF InHand, Current
    <2>2. Serial'
      BY Zenon, <1>1, <1>4, <2>1 DEF Serial
    <2>3. /\ OneAnswer(task_queue') /\ AllFit(sm_request', task_queue')
          /\ NoAnswer(task_queue) => NoAnswer(task_queue')
      BY Zenon, <1>1, <1>2, <1>4, AnswerSignal DEF Signal, Token
    <2>. QED BY Zenon, <1>1, <2>1, <2>2, <2>3 DEF Token
  <1>5. ASSUME NEW method \in Method, NEW param \in Param \cup {NULL},
               ClientRequest(method, param)
        PROVE  Serial' /\ Token' /\ Order'
    <2>. DEFINE m == Request(method, last_id + 1, param)
    <2>1. m \in Message /\ ~IsResponse(m) /\ m.id = last_id + 1
      <3>1. ~IsResponse(m) /\ m.id = last_id + 1
        BY Zenon DEF Request, IsResponse
      <3>2. method \in MethodName /\ last_id + 1 \in Nat /\ param \in Param \cup {NULL}
        BY SMTT(40), <1>2, <1>5, MethodAssumption
      <3>3. m \in Message
        BY Zenon, <3>2, Sent
      <3>. QED BY Zenon, <3>1, <3>3
    <2>2. Signal(m) /\ UNCHANGED <<todo, sessionVars>> /\ last_id' = last_id + 1
      BY Zenon, <1>5 DEF ClientRequest
    <2>. HIDE DEF m
    <2>3. Order'
      BY ZenonT(40), <1>1, <1>2, <2>1, <2>2, OrderNewRequest DEF Order, Signal
    <2>. QED BY Zenon, <1>4, <2>1, <2>2, <2>3
  <1>6. ASSUME ClientTerminate
        PROVE  Serial' /\ Token' /\ Order'
    <2>1. Terminate \in Message /\ ~IsResponse(Terminate) /\ ~IsRequest(Terminate)
      BY Zenon, Sent DEF Terminate, IsResponse, IsRequest
    <2>2. Signal(Terminate) /\ UNCHANGED <<todo, sessionVars, last_id>>
      BY Zenon, <1>6 DEF ClientTerminate
    <2>3. Order'
      BY ZenonT(40), <1>1, <1>2, <2>1, <2>2, OrderSignal DEF Order, Signal
    <2>. QED BY Zenon, <1>4, <2>1, <2>2, <2>3
  <1>. QED BY Zenon, <1>1, <1>3, <1>5, <1>6 DEF Client
-----------------------------------------------------------------------------
(* Every step of the server task, of the media thread and of the client    *)
(* keeps the invariant.                                                    *)
LEMMA NextInv == RecorderInv /\ [Next]_vars => RecorderInv'
  <1>. SUFFICES ASSUME RecorderInv, [Next]_vars PROVE RecorderInv'
    OBVIOUS
  <1>1. TypeOK'
    BY Zenon, TypeNext DEF RecorderInv
  <1>2. CASE UNCHANGED vars
    <2>. USE <1>2 DEF vars, controlVars, sessionVars, clientVars, machineVars, pluginVars,
                      mediaVars, RecorderInv
    <2>1. Current' = Current /\ \A types : InHand(types)' = InHand(types)
      BY Zenon DEF InHand, Current
    <2>2. Serial'
      BY ZenonT(40), <2>1 DEF Serial
    <2>3. Token'
      BY Zenon, <2>1 DEF Token, StopWaits
    <2>4. Machine' /\ Order'
      BY Zenon DEF Machine, StopPending, Order
    <2>. QED BY Zenon, <1>1, <2>2, <2>3, <2>4
  <1>3. CASE Next
    BY Zenon, <1>1, <1>3, InvRequest, InvRecord, InvEngine, InvDeactivate, InvMedia, InvQueue
       DEF Next, ServerTask, RecorderInv
  <1>. QED BY Zenon, <1>2, <1>3

(* RecorderInv holds in every state of a recorder channel. *)
THEOREM Invariance == Spec => []RecorderInv
  <1>1. RecorderInit => RecorderInv
    BY Zenon, InitInv
  <1>2. RecorderInv /\ [Next]_vars => RecorderInv'
    BY Zenon, NextInv
  <1>. QED BY <1>1, <1>2, PTL DEF Spec

(* The fields of the session, the state machine and the plugin keep their  *)
(* types, and the server task never has two messages in hand.              *)
THEOREM TypeCorrect == Spec => []TypeOK
  <1>1. RecorderInv => TypeOK
    BY Zenon DEF RecorderInv
  <1>. QED BY <1>1, Invariance, PTL

(* recorder_response_stop always finds the recording it stops, whatever    *)
(* the media thread and the client do meanwhile.                           *)
THEOREM StopSafe == Spec => []StopFindsRecord
  <1>1. RecorderInv => StopFindsRecord
    <2>. SUFFICES ASSUME RecorderInv, Running("response"), Expected, Current.method = "STOP"
                  PROVE  record # NULL
      BY Zenon DEF StopFindsRecord
    <2>1. Fits(sm_request, Current)
      BY Zenon DEF RecorderInv, Token, Running, InHand
    <2>. QED BY Zenon, <2>1 DEF Fits, RecorderInv, Machine, StopPending
  <1>. QED BY <1>1, Invariance, PTL

(* No request is answered twice and no two answers change places, for any  *)
(* number of requests and any schedule of the threads.                     *)
THEOREM AnswersInOrder == Spec => []ResponsesInOrder
  <1>1. RecorderInv => ResponsesInOrder
    BY Zenon, OrderAnswers DEF RecorderInv, TypeOK, ControlTypeOK
  <1>. QED BY <1>1, Invariance, PTL
=============================================================================
