------------------------- MODULE InteractionsProofs -------------------------
(* Safety of the interactions, proved for every number of interaction ids,  *)
(* approval requests and HTTP requests served at the same time.             *)
EXTENDS Interactions, TLAPS

(* An answer is true and stays so: what it denies can no longer happen.     *)
IsTrue(i, a) ==
    /\ a.says = "recorded" => \E q \in Requests : approved[q] = i
    /\ a.says = "rejected" => /\ \A q \in Requests : approved[q] # i
                              /\ \A r \in inTransit : r.id # i
    /\ a.says = "disconnected" => posts[i] = 0

(* A button that approves stands below all terms, in answer to a review.    *)
IsBacked(a, p) == a.confirm => a.terms /\ p.action = "review"

(* Row, bridge and answers agree about one interaction: without a row there *)
(* is nothing else, and what was answered is what is stored.                *)
RowInv(i) ==
    /\ posts[i] <= 1
    /\ receipts[i].payload = None =>
         receipts[i].response = None /\ posts[i] = 0 /\ answered[i] = {}
    /\ receipts[i].response # None =>
         IsTrue(i, receipts[i].response) /\ IsBacked(receipts[i].response, receipts[i].payload)
    /\ \A a \in answered[i] : receipts[i].response = a

(* What a request knows when it is about to forward, to store, to answer.   *)
HandlerInv(h) ==
    LET i == handler[h].id
        a == handler[h].answer
    IN  /\ handler[h].at = "forward" => posts[i] = 0
        /\ handler[h].at = "finish" =>
             a \in Answers /\ IsTrue(i, a) /\ IsBacked(a, handler[h].payload)
        /\ handler[h].at = "answer" =>
             a \in Answers /\ (a.says \in Results => receipts[i].response = a)
        /\ handler[h] # Idle /\ handler[h].payload.action = "confirm" =>
             Offered(handler[h].payload.request)

(* A request on its way is the only one of its interaction, and its input   *)
(* is the one of the row.                                                   *)
TransitInv(r) ==
    /\ posts[r.id] = 1
    /\ receipts[r.id].payload = r.payload
    /\ r.payload.action = "confirm" => Offered(r.payload.request)
    /\ \A q \in Requests : approved[q] # r.id

(* An approval was recorded by a request that was sent for a button.        *)
ApprovalInv(q) ==
    approved[q] # None => Offered(q) /\ posts[approved[q]] = 1

InteractionsInv ==
    /\ InteractionsTypeOK
    /\ \A i \in Interactions : RowInv(i)
    /\ \A h \in Handlers : HandlerInv(h)
    /\ \A r \in inTransit : TransitInv(r)
    /\ \A q \in Requests : ApprovalInv(q)
-----------------------------------------------------------------------------
(* A request at work has an interaction and an input.                       *)
LEMMA AtWork ==
    ASSUME InteractionsTypeOK, NEW h \in Handlers, handler[h].at # "idle"
    PROVE  /\ handler[h] \in Busy /\ handler[h] # Idle
           /\ handler[h].id \in Interactions /\ handler[h].payload \in Payloads
  BY DEF InteractionsTypeOK, Idle, Busy

(* Texts are answers.                                                       *)
LEMMA Texts ==
    /\ \A t \in Results \cup Doubts :
         /\ Message(t) \in Answers /\ Message(t).says = t /\ ~Message(t).confirm
         /\ \A p : IsBacked(Message(t), p)
    /\ \A t \in Doubts : t \notin Results
  BY DEF Message, Answers, Results, Doubts, IsBacked

(* A receipt without a response was not answered with a result.             *)
LEMMA NotAnswered ==
    ASSUME InteractionsInv, NEW i \in Interactions, receipts[i].response = None
    PROVE  answered[i] = {}
  BY NoneAssumption DEF InteractionsInv, InteractionsTypeOK, RowInv

(* A button stays displayed: answers are kept, and so is the input of an    *)
(* interaction that was answered.                                           *)
LEMMA OfferedStays ==
    ASSUME NEW q, Offered(q),
           \A i \in Interactions : /\ answered[i] \subseteq answered'[i]
                                   /\ answered[i] # {} =>
                                        receipts'[i].payload = receipts[i].payload
    PROVE  Offered(q)'
  BY DEF Offered

(* Requests that only go on or end.                                         *)
LEMMA DeliverKeepsInv ==
    ASSUME InteractionsInv, NEW h \in Handlers, NEW i \in Interactions,
           NEW p \in Payloads, Deliver(h, i, p)
    PROVE  InteractionsInv'
  <1>1. \A q : Offered(q) <=> Offered(q)'
    BY DEF Deliver, Offered
  <1>2. handler' = [handler EXCEPT ![h] = [at |-> "begin", id |-> i, payload |-> p,
                                           answer |-> None]]
    BY DEF Deliver, Become
  <1>3. InteractionsTypeOK'
    BY <1>2 DEF InteractionsInv, InteractionsTypeOK, Deliver, Busy, Serving, Idle
  <1>4. \A k \in Interactions : RowInv(k)'
    BY DEF InteractionsInv, Deliver, RowInv, IsTrue, IsBacked
  <1>5. \A g \in Handlers : HandlerInv(g)'
    BY <1>1, <1>2 DEF InteractionsInv, InteractionsTypeOK, Deliver, HandlerInv, IsTrue, IsBacked
  <1>6. /\ \A r \in inTransit' : TransitInv(r)'
        /\ \A q \in Requests : ApprovalInv(q)'
    BY <1>1 DEF InteractionsInv, Deliver, TransitInv, ApprovalInv
  <1> QED
    BY <1>3, <1>4, <1>5, <1>6 DEF InteractionsInv

LEMMA AnswerKeepsInv ==
    ASSUME InteractionsInv, NEW h \in Handlers, Answer(h)
    PROVE  InteractionsInv'
  <1> DEFINE i == handler[h].id
  <1>1. i \in Interactions /\ handler' = [handler EXCEPT ![h] = Idle]
    BY AtWork DEF InteractionsInv, Answer, Become
  <1>2. /\ answered' \in [Interactions -> SUBSET Answers]
        /\ \A k \in Interactions : /\ answered[k] \subseteq answered'[k]
                                  /\ k # i => answered'[k] = answered[k]
        /\ \A a \in answered'[i] : receipts[i].response = a
    BY <1>1 DEF InteractionsInv, InteractionsTypeOK, Answer, HandlerInv, RowInv
  <1>3. \A q : Offered(q) => Offered(q)'
    BY <1>2, OfferedStays DEF Answer
  <1>4. InteractionsTypeOK'
    BY <1>1, <1>2 DEF InteractionsInv, InteractionsTypeOK, Answer, Serving, Idle
  <1>5. ASSUME NEW k \in Interactions PROVE RowInv(k)'
    <2>1. receipts[i].payload = None => answered'[i] = {}
      BY <1>1, <1>2, NoneAssumption DEF InteractionsInv, InteractionsTypeOK, RowInv
    <2> QED
      BY <1>1, <1>2, <2>1 DEF InteractionsInv, Answer, RowInv, IsTrue, IsBacked
  <1>6. ASSUME NEW g \in Handlers PROVE HandlerInv(g)'
    <2>1. g = h => handler'[g] = Idle
      BY <1>1 DEF InteractionsInv, InteractionsTypeOK
    <2>2. g # h => handler'[g] = handler[g]
      BY <1>1 DEF InteractionsInv, InteractionsTypeOK
    <2> QED
      BY <1>3, <2>1, <2>2 DEF InteractionsInv, Answer, HandlerInv, IsTrue, IsBacked, Idle
  <1>7. /\ \A r \in inTransit' : TransitInv(r)'
        /\ \A q \in Requests : ApprovalInv(q)'
    BY <1>3 DEF InteractionsInv, Answer, TransitInv, ApprovalInv
  <1> QED
    BY <1>4, <1>5, <1>6, <1>7 DEF InteractionsInv

LEMMA TimeOutKeepsInv ==
    ASSUME InteractionsInv, NEW h \in Handlers, TimeOut(h)
    PROVE  InteractionsInv'
  <1> DEFINE a == Message("unknown")
  <1>1. /\ handler[h] \in Busy /\ handler[h].id \in Interactions /\ Serving(h)
        /\ handler' = [handler EXCEPT ![h] = [handler[h] EXCEPT !.at = "finish", !.answer = a]]
    BY AtWork DEF InteractionsInv, TimeOut, Settle, Become, Serving
  <1>2. a \in Answers /\ IsTrue(handler[h].id, a) /\ IsBacked(a, handler[h].payload)
    BY Texts DEF Message, IsTrue, Results
  <1>3. \A q : Offered(q) <=> Offered(q)'
    BY DEF TimeOut, Offered
  <1>4. InteractionsTypeOK'
    BY <1>1, <1>2, ZenonT(30) DEF InteractionsInv, InteractionsTypeOK, TimeOut, Busy, Serving
  <1>5. \A k \in Interactions : RowInv(k)'
    BY DEF InteractionsInv, TimeOut, RowInv, IsTrue, IsBacked
  <1>6. ASSUME NEW g \in Handlers PROVE HandlerInv(g)'
    <2>1. CASE g # h
      BY <1>1, <1>3, <2>1
         DEF InteractionsInv, InteractionsTypeOK, TimeOut, HandlerInv, IsTrue, IsBacked
    <2>2. CASE g = h
      <3>1. /\ handler'[h].at = "finish" /\ handler'[h].answer = a
            /\ handler'[h].id = handler[h].id /\ handler'[h].payload = handler[h].payload
            /\ handler[h] # Idle
        BY <1>1 DEF InteractionsInv, InteractionsTypeOK, Busy, Idle
      <3> QED
        BY <1>2, <1>3, <2>2, <3>1 DEF InteractionsInv, TimeOut, HandlerInv, IsTrue, IsBacked
    <2> QED
      BY <2>1, <2>2
  <1>7. /\ \A r \in inTransit' : TransitInv(r)'
        /\ \A q \in Requests : ApprovalInv(q)'
    BY <1>3 DEF InteractionsInv, TimeOut, TransitInv, ApprovalInv
  <1> QED
    BY <1>4, <1>5, <1>6, <1>7 DEF InteractionsInv

LEMMA RestartKeepsInv ==
    ASSUME InteractionsInv, Restart
    PROVE  InteractionsInv'
  <1>1. \A q : Offered(q) <=> Offered(q)'
    BY DEF Restart, Offered
  <1>2. \A h \in Handlers : handler'[h] = Idle
    BY DEF Restart
  <1>3. InteractionsTypeOK'
    BY <1>2 DEF InteractionsInv, InteractionsTypeOK, Restart, Serving, Idle
  <1>4. \A k \in Interactions : RowInv(k)'
    BY DEF InteractionsInv, Restart, RowInv, IsTrue, IsBacked
  <1>5. \A h \in Handlers : HandlerInv(h)'
    BY <1>2 DEF HandlerInv, Idle
  <1>6. /\ \A r \in inTransit' : TransitInv(r)'
        /\ \A q \in Requests : ApprovalInv(q)'
    BY <1>1 DEF InteractionsInv, Restart, TransitInv, ApprovalInv
  <1> QED
    BY <1>3, <1>4, <1>5, <1>6 DEF InteractionsInv

(* Requests that write a receipt.                                           *)
LEMMA FirstKeepsInv ==
    ASSUME InteractionsInv, NEW h \in Handlers, handler[h].at = "begin",
           receipts[handler[h].id] = NoReceipt, First(h),
           UNCHANGED <<connected, inTransit, approved, posts, answered>>
    PROVE  InteractionsInv'
  <1> DEFINE i == handler[h].id
             p == handler[h].payload
  <1>1. /\ handler[h] \in Busy /\ handler[h] # Idle /\ i \in Interactions /\ p \in Payloads
        /\ handler' = [handler EXCEPT ![h] = [handler[h] EXCEPT !.at = "forward"]]
        /\ receipts' = [receipts EXCEPT ![i].payload = p]
    BY AtWork DEF InteractionsInv, First, Become
  <1>2. /\ receipts[i].payload = None /\ receipts[i].response = None
        /\ posts[i] = 0 /\ answered[i] = {}
    BY <1>1 DEF InteractionsInv, RowInv, NoReceipt
  <1>3. /\ receipts'[i] = [payload |-> p, response |-> None]
        /\ \A k \in Interactions : k # i => receipts'[k] = receipts[k]
    BY <1>1, <1>2 DEF InteractionsInv, InteractionsTypeOK
  <1>4. /\ handler'[h].at = "forward" /\ handler'[h].id = i /\ handler'[h].payload = p
        /\ handler'[h] \in Busy
        /\ \A g \in Handlers : g # h => handler'[g] = handler[g]
    BY <1>1 DEF InteractionsInv, InteractionsTypeOK, Busy
  <1>5. \A q : Offered(q) => Offered(q)'
    BY <1>2, <1>3, OfferedStays
  <1>6. ASSUME NEW g \in Handlers, Serving(g) PROVE handler[g].id # i
    <2>1. handler[g].payload \in Payloads
      BY <1>6, AtWork DEF InteractionsInv, Serving
    <2>2. receipts[handler[g].id] = [payload |-> handler[g].payload, response |-> None]
      BY <1>6 DEF InteractionsInv, InteractionsTypeOK
    <2> QED
      BY <1>2, <2>1, <2>2, NoneAssumption
  <1>7. \A r \in inTransit : r.id \in Interactions /\ r.id # i
    BY <1>2 DEF InteractionsInv, InteractionsTypeOK, TransitInv
  <1>8. InteractionsTypeOK'
    <2>1. receipts' \in [Interactions -> [payload : Payloads \cup {None},
                                          response : Answers \cup {None}]]
      BY <1>1 DEF InteractionsInv, InteractionsTypeOK
    <2>2. handler' \in [Handlers -> Busy \cup {Idle}]
      BY <1>1, <1>4 DEF InteractionsInv, InteractionsTypeOK
    <2>3. ASSUME NEW g \in Handlers, Serving(g)'
          PROVE  /\ receipts'[handler'[g].id]
                      = [payload |-> handler'[g].payload, response |-> None]
                 /\ \A f \in Handlers :
                      Serving(f)' /\ handler'[f].id = handler'[g].id => f = g
      <3>1. g # h => Serving(g) /\ handler[g].id \in Interactions /\ handler[g].id # i
        BY <1>4, <1>6, <2>3, AtWork DEF InteractionsInv, Serving
      <3>2. \A f \in Handlers : f # h /\ Serving(f)' =>
               Serving(f) /\ handler[f].id \in Interactions /\ handler[f].id # i
        BY <1>4, <1>6, AtWork DEF InteractionsInv, Serving
      <3> QED
        BY <1>3, <1>4, <3>1, <3>2 DEF InteractionsInv, InteractionsTypeOK
    <2> QED
      BY <2>1, <2>2, <2>3 DEF InteractionsInv, InteractionsTypeOK
  <1>9. ASSUME NEW k \in Interactions PROVE RowInv(k)'
    BY <1>2, <1>3, NoneAssumption DEF InteractionsInv, RowInv, IsTrue, IsBacked
  <1>10. ASSUME NEW g \in Handlers PROVE HandlerInv(g)'
    <2>1. CASE g = h
      BY <1>1, <1>2, <1>4, <1>5, <2>1 DEF InteractionsInv, HandlerInv
    <2>2. CASE g # h
      <3>1. handler[g].at = "answer" /\ handler[g].answer \in Answers
              /\ handler[g].answer.says \in Results => handler[g].id # i
        BY <1>2, NoneAssumption DEF InteractionsInv, HandlerInv
      <3>2. handler[g].at = "answer" => handler[g].id \in Interactions
        BY AtWork DEF InteractionsInv
      <3> QED
        BY <1>3, <1>4, <1>5, <2>2, <3>1, <3>2 DEF InteractionsInv, HandlerInv, IsTrue, IsBacked
    <2> QED
      BY <2>1, <2>2
  <1>11. ASSUME NEW r \in inTransit' PROVE TransitInv(r)'
    BY <1>3, <1>5, <1>7 DEF InteractionsInv, TransitInv
  <1>12. \A q \in Requests : ApprovalInv(q)'
    BY <1>5 DEF InteractionsInv, ApprovalInv
  <1> QED
    BY <1>8, <1>9, <1>10, <1>11, <1>12 DEF InteractionsInv

(* A request that ends with a doubt, or with the stored response.           *)
LEMMA TellKeepsInv ==
    ASSUME InteractionsInv, NEW h \in Handlers, handler[h].at \in {"begin", "finish"},
           NEW a \in Answers, Tell(h, a),
           a.says \in Results => receipts[handler[h].id].response = a,
           UNCHANGED <<receipts, connected, inTransit, approved, posts, answered>>
    PROVE  InteractionsInv'
  <1>1. /\ handler[h] \in Busy /\ handler[h] # Idle /\ handler[h].id \in Interactions
        /\ handler' = [handler EXCEPT ![h] = [handler[h] EXCEPT !.at = "answer", !.answer = a]]
    BY AtWork DEF InteractionsInv, Tell, Become
  <1>2. /\ handler'[h].at = "answer" /\ handler'[h].id = handler[h].id
        /\ handler'[h].payload = handler[h].payload /\ handler'[h].answer = a
        /\ handler'[h] \in Busy
        /\ \A g \in Handlers : g # h => handler'[g] = handler[g]
    BY <1>1 DEF InteractionsInv, InteractionsTypeOK, Busy
  <1>3. \A q : Offered(q) <=> Offered(q)'
    BY DEF Offered
  <1>4. InteractionsTypeOK'
    <2>1. handler' \in [Handlers -> Busy \cup {Idle}]
      BY <1>1, <1>2 DEF InteractionsInv, InteractionsTypeOK
    <2>2. \A g \in Handlers : Serving(g)' => g # h /\ Serving(g)
      BY <1>2 DEF Serving
    <2> QED
      BY <1>2, <2>1, <2>2 DEF InteractionsInv, InteractionsTypeOK
  <1>5. \A k \in Interactions : RowInv(k)'
    BY DEF InteractionsInv, RowInv, IsTrue, IsBacked
  <1>6. ASSUME NEW g \in Handlers PROVE HandlerInv(g)'
    BY <1>1, <1>2, <1>3 DEF InteractionsInv, HandlerInv, IsTrue, IsBacked
  <1>7. /\ \A r \in inTransit' : TransitInv(r)'
        /\ \A q \in Requests : ApprovalInv(q)'
    BY <1>3 DEF InteractionsInv, TransitInv, ApprovalInv
  <1> QED
    BY <1>4, <1>5, <1>6, <1>7 DEF InteractionsInv

LEMMA BeginKeepsInv ==
    ASSUME InteractionsInv, NEW h \in Handlers, Begin(h)
    PROVE  InteractionsInv'
  <1> DEFINE row == receipts[handler[h].id]
  <1>1. /\ handler[h].at = "begin" /\ handler[h].id \in Interactions
        /\ UNCHANGED <<connected, inTransit, approved, posts, answered>>
    BY AtWork DEF InteractionsInv, Begin, BeginOr
  <1>2. CASE row = NoReceipt /\ First(h)
    BY <1>1, <1>2, FirstKeepsInv
  <1>3. CASE Known(h)
    <2>1. CASE row.payload # handler[h].payload
      BY <1>1, <1>3, <2>1, Texts, TellKeepsInv DEF Known, Doubts
    <2>2. CASE row.payload = handler[h].payload /\ row.response = None
      BY <1>1, <1>3, <2>2, Texts, TellKeepsInv DEF Known, Doubts
    <2>3. CASE row.payload = handler[h].payload /\ row.response # None
      <3>1. row.response \in Answers
        BY <1>1, <2>3 DEF InteractionsInv, InteractionsTypeOK
      <3> QED
        BY <1>1, <1>3, <2>3, <3>1, TellKeepsInv DEF Known
    <2> QED
      BY <2>1, <2>2, <2>3
  <1>4. CASE Unsaved(h)
    BY <1>1, <1>4, Texts, TellKeepsInv DEF Unsaved, Doubts
  <1> QED
    BY <1>2, <1>3, <1>4 DEF Begin, BeginOr

LEMMA FinishKeepsInv ==
    ASSUME InteractionsInv, NEW h \in Handlers, Finish(h)
    PROVE  InteractionsInv'
  <1> DEFINE i == handler[h].id
             a == handler[h].answer
  <1>1. /\ handler[h].at = "finish" /\ i \in Interactions /\ handler[h] \in Busy
        /\ handler[h] # Idle /\ Serving(h)
        /\ UNCHANGED <<connected, inTransit, approved, posts, answered>>
    BY AtWork DEF InteractionsInv, Finish, Serving
  <1>2. CASE Unsaved(h)
    BY <1>1, <1>2, Texts, TellKeepsInv DEF Unsaved, Doubts
  <1>3. CASE /\ receipts' = [receipts EXCEPT ![i].response = a]
             /\ Become(h, [handler[h] EXCEPT !.at = "answer"])
    <2>1. /\ a \in Answers /\ IsTrue(i, a) /\ IsBacked(a, handler[h].payload)
          /\ receipts[i] = [payload |-> handler[h].payload, response |-> None]
          /\ handler[h].payload \in Payloads /\ answered[i] = {}
      BY <1>1, AtWork, NotAnswered DEF InteractionsInv, HandlerInv, InteractionsTypeOK
    <2>2. /\ receipts'[i] = [payload |-> handler[h].payload, response |-> a]
          /\ \A k \in Interactions : k # i => receipts'[k] = receipts[k]
      BY <1>1, <1>3, <2>1 DEF InteractionsInv, InteractionsTypeOK
    <2>3. /\ handler'[h].at = "answer" /\ handler'[h].id = i
          /\ handler'[h].payload = handler[h].payload /\ handler'[h].answer = a
          /\ handler'[h] \in Busy
          /\ \A g \in Handlers : g # h => handler'[g] = handler[g]
      BY <1>1, <1>3 DEF InteractionsInv, InteractionsTypeOK, Become, Busy
    <2>4. \A q : Offered(q) => Offered(q)'
      <3>1. \A k \in Interactions : /\ answered[k] \subseteq answered'[k]
                                    /\ answered[k] # {} =>
                                         receipts'[k].payload = receipts[k].payload
        BY <1>1, <2>1, <2>2
      <3> QED
        BY <3>1, OfferedStays
    <2>5. \A g \in Handlers : Serving(g) /\ g # h => handler[g].id # i
      BY <1>1 DEF InteractionsInv, InteractionsTypeOK
    <2>6. InteractionsTypeOK'
      <3>1. receipts' \in [Interactions -> [payload : Payloads \cup {None},
                                            response : Answers \cup {None}]]
        BY <1>1, <1>3, <2>1 DEF InteractionsInv, InteractionsTypeOK
      <3>2. handler' \in [Handlers -> Busy \cup {Idle}]
        BY <1>1, <1>3, <2>3 DEF InteractionsInv, InteractionsTypeOK, Become
      <3>3. ASSUME NEW g \in Handlers, Serving(g)'
            PROVE  g # h /\ Serving(g) /\ handler[g].id \in Interactions
                   /\ handler[g].id # i /\ handler'[g] = handler[g]
        BY <2>3, <2>5, <3>3, AtWork DEF InteractionsInv, Serving
      <3>4. ASSUME NEW g \in Handlers, Serving(g)'
            PROVE  /\ receipts'[handler'[g].id]
                        = [payload |-> handler'[g].payload, response |-> None]
                   /\ \A f \in Handlers :
                        Serving(f)' /\ handler'[f].id = handler'[g].id => f = g
        BY <2>2, <3>3, <3>4 DEF InteractionsInv, InteractionsTypeOK
      <3> QED
        BY <1>1, <3>1, <3>2, <3>4 DEF InteractionsInv, InteractionsTypeOK
    <2>7. ASSUME NEW k \in Interactions PROVE RowInv(k)'
      BY <1>1, <2>1, <2>2, NoneAssumption DEF InteractionsInv, RowInv, IsTrue, IsBacked
    <2>8. ASSUME NEW g \in Handlers PROVE HandlerInv(g)'
      <3>1. CASE g = h
        BY <1>1, <2>1, <2>2, <2>3, <2>4, <3>1 DEF InteractionsInv, HandlerInv
      <3>2. CASE g # h
        <4>1. handler[g].at = "answer" /\ handler[g].answer \in Answers
                /\ handler[g].answer.says \in Results => handler[g].id # i
          BY <2>1, <3>2, NoneAssumption DEF InteractionsInv, HandlerInv
        <4>2. handler[g].at = "answer" => handler[g].id \in Interactions
          BY AtWork DEF InteractionsInv
        <4> QED
          BY <1>1, <2>2, <2>3, <2>4, <3>2, <4>1, <4>2
             DEF InteractionsInv, HandlerInv, IsTrue, IsBacked
      <3> QED
        BY <3>1, <3>2
    <2>9. ASSUME NEW r \in inTransit' PROVE TransitInv(r)'
      <3>1. r \in inTransit /\ r.id \in Interactions
        BY <1>1, <2>9 DEF InteractionsInv, InteractionsTypeOK
      <3> QED
        BY <1>1, <2>1, <2>2, <2>4, <3>1 DEF InteractionsInv, TransitInv
    <2>10. \A q \in Requests : ApprovalInv(q)'
      BY <1>1, <2>4 DEF InteractionsInv, ApprovalInv
    <2> QED
      BY <2>6, <2>7, <2>8, <2>9, <2>10 DEF InteractionsInv
  <1> QED
    BY <1>2, <1>3 DEF Finish

(* Requests that speak to the bridge.                                       *)
LEMMA ForwardKeepsInv ==
    ASSUME InteractionsInv, NEW h \in Handlers, Forward(h)
    PROVE  InteractionsInv'
  <1> DEFINE i == handler[h].id
             p == handler[h].payload
             a == Message("disconnected")
  <1>1. /\ handler[h].at = "forward" /\ i \in Interactions /\ handler[h] \in Busy
        /\ handler[h] # Idle /\ Serving(h) /\ p \in Payloads /\ posts[i] = 0
        /\ receipts[i] = [payload |-> p, response |-> None] /\ answered[i] = {}
        /\ UNCHANGED <<receipts, connected, approved, answered>>
    BY AtWork, NotAnswered DEF InteractionsInv, InteractionsTypeOK, HandlerInv, Forward, Serving
  <1>2. \A q : Offered(q) <=> Offered(q)'
    BY <1>1 DEF Offered
  <1>3. \A r \in inTransit : r.id \in Interactions /\ r.id # i
    BY <1>1 DEF InteractionsInv, InteractionsTypeOK, TransitInv
  <1>4. \A q \in Requests : approved[q] # i
    BY <1>1, InteractionsAssumption DEF InteractionsInv, ApprovalInv
  <1>5. ASSUME NEW g \in Handlers, g # h
        PROVE  Serving(g) => handler[g].id # i
    BY <1>1, <1>5 DEF InteractionsInv, InteractionsTypeOK
  <1>6. CASE Settle(h, a) /\ UNCHANGED <<inTransit, posts>>
    <2>1. a \in Answers /\ a.says = "disconnected" /\ IsTrue(i, a) /\ IsBacked(a, p)
      BY <1>1, Texts DEF IsTrue, Results
    <2>2. /\ handler'[h].at = "finish" /\ handler'[h].id = i
          /\ handler'[h].payload = p /\ handler'[h].answer = a
          /\ handler'[h] \in Busy
          /\ \A g \in Handlers : g # h => handler'[g] = handler[g]
      BY <1>1, <1>6, <2>1 DEF InteractionsInv, InteractionsTypeOK, Settle, Become, Busy
    <2>3. InteractionsTypeOK'
      <3>1. handler' \in [Handlers -> Busy \cup {Idle}]
        BY <1>1, <1>6, <2>2 DEF InteractionsInv, InteractionsTypeOK, Settle, Become
      <3>2. \A g \in Handlers : /\ Serving(g)' => Serving(g)
                                /\ handler'[g].id = handler[g].id
                                /\ handler'[g].payload = handler[g].payload
        BY <1>1, <2>2 DEF Serving
      <3> QED
        BY <1>1, <1>6, <3>1, <3>2 DEF InteractionsInv, InteractionsTypeOK
    <2>4. \A k \in Interactions : RowInv(k)'
      BY <1>1, <1>6 DEF InteractionsInv, RowInv, IsTrue, IsBacked
    <2>5. ASSUME NEW g \in Handlers PROVE HandlerInv(g)'
      BY <1>1, <1>2, <1>6, <2>1, <2>2 DEF InteractionsInv, HandlerInv, IsTrue, IsBacked
    <2>6. /\ \A r \in inTransit' : TransitInv(r)'
          /\ \A q \in Requests : ApprovalInv(q)'
      BY <1>1, <1>2, <1>6 DEF InteractionsInv, TransitInv, ApprovalInv
    <2> QED
      BY <2>3, <2>4, <2>5, <2>6 DEF InteractionsInv
  <1>7. CASE /\ inTransit' = inTransit \cup {[id |-> i, payload |-> p]}
             /\ posts' = [posts EXCEPT ![i] = @ + 1]
             /\ Become(h, [handler[h] EXCEPT !.at = "await"])
    <2>1. /\ handler'[h].at = "await" /\ handler'[h].id = i /\ handler'[h].payload = p
          /\ handler'[h] \in Busy
          /\ \A g \in Handlers : g # h => handler'[g] = handler[g]
      BY <1>1, <1>7 DEF InteractionsInv, InteractionsTypeOK, Become, Busy
    <2>2. /\ posts' \in [Interactions -> Nat] /\ posts'[i] = 1
          /\ \A k \in Interactions : k # i => posts'[k] = posts[k]
      BY <1>1, <1>7 DEF InteractionsInv, InteractionsTypeOK
    <2>3. InteractionsTypeOK'
      <3>1. handler' \in [Handlers -> Busy \cup {Idle}]
        BY <1>1, <1>7, <2>1 DEF InteractionsInv, InteractionsTypeOK, Become
      <3>2. \A g \in Handlers : /\ Serving(g)' => Serving(g)
                                /\ handler'[g].id = handler[g].id
                                /\ handler'[g].payload = handler[g].payload
        BY <1>1, <2>1 DEF Serving
      <3>3. inTransit' \subseteq [id : Interactions, payload : Payloads]
        BY <1>1, <1>7 DEF InteractionsInv, InteractionsTypeOK
      <3> QED
        BY <1>1, <2>2, <3>1, <3>2, <3>3, SMTT(30) DEF InteractionsInv, InteractionsTypeOK
    <2>4. ASSUME NEW k \in Interactions PROVE RowInv(k)'
      BY <1>1, <1>7, <2>2, NoneAssumption DEF InteractionsInv, RowInv, IsTrue, IsBacked
    <2>5. ASSUME NEW g \in Handlers PROVE HandlerInv(g)'
      <3>1. CASE g = h
        BY <1>1, <1>2, <2>1, <3>1 DEF InteractionsInv, HandlerInv
      <3>2. CASE g # h
        <4>1. /\ handler[g].at \in {"forward", "finish"} =>
                   handler[g].id \in Interactions /\ handler[g].id # i
          BY <1>5, <3>2, AtWork DEF InteractionsInv, Serving
        <4> QED
          BY <1>1, <1>2, <1>7, <2>1, <2>2, <3>2, <4>1
             DEF InteractionsInv, HandlerInv, IsTrue, IsBacked
      <3> QED
        BY <3>1, <3>2
    <2>6. ASSUME NEW r \in inTransit' PROVE TransitInv(r)'
      <3>1. CASE r \in inTransit
        BY <1>1, <1>2, <1>3, <2>2, <3>1 DEF InteractionsInv, TransitInv
      <3>2. CASE r = [id |-> i, payload |-> p]
        BY <1>1, <1>2, <1>4, <2>2, <3>2 DEF InteractionsInv, TransitInv, HandlerInv
      <3> QED
        BY <1>7, <2>6, <3>1, <3>2
    <2>7. ASSUME NEW q \in Requests PROVE ApprovalInv(q)'
      <3>1. approved[q] \in Interactions \cup {None}
        BY DEF InteractionsInv, InteractionsTypeOK
      <3> QED
        BY <1>1, <1>2, <1>4, <2>2, <3>1 DEF InteractionsInv, ApprovalInv
    <2> QED
      BY <2>3, <2>4, <2>5, <2>6, <2>7 DEF InteractionsInv
  <1> QED
    BY <1>6, <1>7 DEF Forward

(* A bridge that records at most once, and answers the truth.               *)
LEMMA HandleKeepsInv ==
    ASSUME InteractionsInv, NEW r \in inTransit, Handle(r)
    PROVE  InteractionsInv'
  <1> DEFINE i == r.id
             p == r.payload
  <1>1. /\ i \in Interactions /\ p \in Payloads /\ p.request \in Requests
        /\ TransitInv(r) /\ Record(i, p) /\ inTransit' = inTransit \ {r}
        /\ UNCHANGED <<receipts, connected, posts, answered>>
    BY DEF InteractionsInv, InteractionsTypeOK, Handle, Payloads
  <1>2. \A q : Offered(q) <=> Offered(q)'
    BY <1>1 DEF Offered
  <1>3. /\ approved' \in [Requests -> Interactions \cup {None}]
        /\ \A q \in Requests : \/ approved'[q] = approved[q]
                              \/ /\ q = p.request /\ approved[q] = None /\ approved'[q] = i
                                 /\ p.action = "confirm"
    BY <1>1 DEF InteractionsInv, InteractionsTypeOK, Record
  <1>4. \A t \in inTransit' :
           t \in inTransit /\ t.id \in Interactions /\ t.id # i
    <2>1. \A t \in inTransit : t \in [id : Interactions, payload : Payloads]
      BY DEF InteractionsInv, InteractionsTypeOK
    <2>2. \A t \in inTransit : t.id = i => t.payload = p
      BY <1>1 DEF InteractionsInv, TransitInv
    <2>3. r \in inTransit
      OBVIOUS
    <2>4. \A t \in inTransit : t.id = i => t = r
      BY <2>1, <2>2, <2>3
    <2> QED
      BY <1>1, <2>1, <2>4
  <1>5. \A q \in Requests : approved[q] # i
    BY <1>1 DEF TransitInv
  <1>6. ASSUME NEW k \in Interactions, NEW a, IsTrue(k, a)
        PROVE  /\ a.says = "recorded" => \E q \in Requests : approved'[q] = k
               /\ a.says = "rejected" => /\ \A q \in Requests : approved'[q] # k
                                         /\ \A t \in inTransit' : t.id # k
               /\ a.says = "disconnected" => posts'[k] = 0
    <2>1. a.says = "recorded" => \E q \in Requests : approved'[q] = k
      BY <1>3, <1>6, InteractionsAssumption DEF IsTrue
    <2>2. a.says = "rejected" => k # i
      BY <1>6 DEF IsTrue
    <2>3. a.says = "rejected" => /\ \A q \in Requests : approved'[q] # k
                                 /\ \A t \in inTransit' : t.id # k
      BY <1>3, <1>4, <1>6, <2>2 DEF IsTrue
    <2> QED
      BY <1>1, <1>6, <2>1, <2>3 DEF IsTrue
  <1>7. ASSUME NEW k \in Interactions PROVE RowInv(k)'
    <2>1. RowInv(k)
      BY DEF InteractionsInv
    <2>2. receipts[k].response # None => IsTrue(k, receipts[k].response)
      BY <2>1 DEF RowInv
    <2>3. receipts'[k].response # None => IsTrue(k, receipts[k].response)'
      BY <1>1, <1>6, <2>2 DEF IsTrue
    <2> QED
      BY <1>1, <2>1, <2>3 DEF RowInv, IsBacked
  <1>8. ASSUME NEW t \in inTransit' PROVE TransitInv(t)'
    BY <1>1, <1>2, <1>3, <1>4 DEF InteractionsInv, TransitInv
  <1>9. ASSUME NEW q \in Requests PROVE ApprovalInv(q)'
    BY <1>1, <1>2, <1>3 DEF InteractionsInv, ApprovalInv, TransitInv
  <1>10. ASSUME NEW g \in Handlers, handler'[g] = handler[g] PROVE HandlerInv(g)'
    <2>1. HandlerInv(g)
      BY DEF InteractionsInv
    <2>2. handler'[g].at = "finish" => IsTrue(handler[g].id, handler[g].answer)'
      <3>1. handler[g].at = "finish" =>
              handler[g].id \in Interactions /\ IsTrue(handler[g].id, handler[g].answer)
        BY <2>1, AtWork DEF InteractionsInv, HandlerInv
      <3> QED
        BY <1>1, <1>6, <1>10, <3>1 DEF IsTrue
    <2> QED
      BY <1>1, <1>2, <1>10, <2>1, <2>2 DEF HandlerInv, IsBacked
  <1>11. CASE UNCHANGED handler
    <2>1. InteractionsTypeOK'
      BY <1>1, <1>3, <1>4, <1>11 DEF InteractionsInv, InteractionsTypeOK, Serving
    <2> QED
      BY <1>7, <1>8, <1>9, <1>10, <1>11, <2>1 DEF InteractionsInv
  <1>12. ASSUME NEW h \in Handlers, NEW reply \in Replies,
                handler[h].at = "await", handler[h].id = i, Truthful(reply, i, p),
                Settle(h, Rendered(reply, handler[h].payload.action))
         PROVE  InteractionsInv'
    <2> DEFINE a == Rendered(reply, p.action)
    <2>1. /\ handler[h] \in Busy /\ handler[h] # Idle /\ Serving(h)
          /\ handler[h].payload = p
      <3>1. handler[h] \in Busy /\ handler[h] # Idle /\ Serving(h)
        BY <1>12, AtWork DEF InteractionsInv, Serving
      <3>2. receipts[i] = [payload |-> handler[h].payload, response |-> None]
        BY <1>12, <3>1 DEF InteractionsInv, InteractionsTypeOK
      <3> QED
        BY <1>1, <3>1, <3>2 DEF TransitInv
    <2>2. a \in Answers /\ IsBacked(a, p)
      BY DEF Rendered, Card, Replies, Message, Answers, Results, IsBacked
    <2>3. IsTrue(i, a)'
      <3>1. a.says = "recorded" => reply.kind = "approval_recorded" /\ p.action = "confirm"
        BY DEF Rendered, Card, Message, Replies
      <3>2. a.says = "rejected" => reply.kind = "rejected"
        BY DEF Rendered, Card, Message, Replies
      <3>3. a.says # "disconnected"
        BY DEF Rendered, Card, Message, Replies
      <3>4. a.says = "recorded" => approved'[p.request] = i
        BY <1>12, <3>1 DEF Truthful
      <3>5. a.says = "rejected" => \A q \in Requests : approved'[q] # i
        BY <1>3, <1>5, <1>12, <3>2 DEF Truthful
      <3> QED
        BY <1>1, <1>4, <3>3, <3>4, <3>5 DEF IsTrue
    <2>4. /\ handler'[h].at = "finish" /\ handler'[h].id = i
          /\ handler'[h].payload = p /\ handler'[h].answer = a
          /\ handler'[h] \in Busy
          /\ handler' \in [Handlers -> Busy \cup {Idle}]
          /\ \A g \in Handlers : g # h => handler'[g] = handler[g]
      BY <1>12, <2>1, <2>2 DEF InteractionsInv, InteractionsTypeOK, Settle, Become, Busy
    <2>5. InteractionsTypeOK'
      <3>1. \A g \in Handlers : /\ Serving(g)' => Serving(g)
                                /\ handler'[g].id = handler[g].id
                                /\ handler'[g].payload = handler[g].payload
        BY <1>12, <2>1, <2>4 DEF Serving
      <3> QED
        BY <1>1, <1>3, <1>4, <2>4, <3>1 DEF InteractionsInv, InteractionsTypeOK
    <2>6. ASSUME NEW g \in Handlers PROVE HandlerInv(g)'
      <3>1. CASE g = h
        <4>1. p.action = "confirm" => Offered(p.request)'
          BY <1>1, <1>2 DEF TransitInv
        <4> QED
          BY <2>2, <2>3, <2>4, <3>1, <4>1 DEF HandlerInv
      <3>2. CASE g # h
        BY <1>10, <2>4, <3>2
      <3> QED
        BY <3>1, <3>2
    <2> QED
      BY <1>7, <1>8, <1>9, <2>5, <2>6 DEF InteractionsInv
  <1> QED
    BY <1>11, <1>12 DEF Handle
-----------------------------------------------------------------------------
LEMMA InteractionsInductive ==
    /\ InteractionsInit => InteractionsInv
    /\ InteractionsInv /\ [Next]_vars => InteractionsInv'
  <1>1. ASSUME InteractionsInit PROVE InteractionsInv
    <2>1. InteractionsTypeOK
      BY <1>1 DEF InteractionsInit, InteractionsTypeOK, NoReceipt, Serving, Idle
    <2>2. /\ \A i \in Interactions : RowInv(i)
          /\ \A h \in Handlers : HandlerInv(h)
      BY <1>1 DEF InteractionsInit, RowInv, HandlerInv, NoReceipt, Idle
    <2> QED
      BY <1>1, <2>1, <2>2 DEF InteractionsInit, InteractionsInv, ApprovalInv
  <1>2. ASSUME InteractionsInv, [Next]_vars PROVE InteractionsInv'
    <2>1. CASE Next
      BY <1>2, <2>1, DeliverKeepsInv, AnswerKeepsInv, TimeOutKeepsInv, RestartKeepsInv,
         BeginKeepsInv, FinishKeepsInv, ForwardKeepsInv, HandleKeepsInv DEF Next
    <2>2. CASE UNCHANGED vars
      BY <1>2, <2>2 DEF vars, InteractionsInv, InteractionsTypeOK, Serving, RowInv,
         HandlerInv, TransitInv, ApprovalInv, Offered, IsTrue, IsBacked
    <2> QED
      BY <1>2, <2>1, <2>2
  <1> QED
    BY <1>1, <1>2

THEOREM InteractionsInvariant == Spec => []InteractionsInv
  BY InteractionsInductive, PTL DEF Spec

(* The types of the state, and that one request serves a receipt.           *)
THEOREM InteractionsTypeCorrect == Spec => []InteractionsTypeOK
  BY InteractionsInvariant, PTL DEF InteractionsInv

(* An interaction is sent to the bridge at most once, whatever Discord, the *)
(* network and the process do.                                              *)
THEOREM ForwardedOnceHolds == Spec => []ForwardedOnce
  <1>1. InteractionsInv => ForwardedOnce
    BY DEF InteractionsInv, RowInv, ForwardedOnce
  <1> QED
    BY <1>1, InteractionsInvariant, PTL

(* What people were told about an approval stays true.                      *)
THEOREM AnswersAreTrueHolds == Spec => []AnswersAreTrue
  <1>1. ASSUME InteractionsInv, NEW i \in Interactions, NEW a \in answered[i]
        PROVE  /\ a.says = "recorded" => \E q \in Requests : approved[q] = i
               /\ a.says = "rejected" => \A q \in Requests : approved[q] # i
               /\ a.says = "disconnected" => posts[i] = 0
    <2>1. RowInv(i) /\ a \in Answers /\ receipts[i].response = a
      BY <1>1 DEF InteractionsInv, InteractionsTypeOK, RowInv
    <2> QED
      BY <2>1, NoneAssumption DEF RowInv, IsTrue
  <1>2. InteractionsInv => AnswersAreTrue
    BY <1>1 DEF AnswersAreTrue
  <1> QED
    BY <1>2, InteractionsInvariant, PTL

(* All deliveries of an interaction are answered with the same result.      *)
THEOREM AnswersAgreeHolds == Spec => []AnswersAgree
  <1>1. InteractionsInv => AnswersAgree
    BY DEF InteractionsInv, RowInv, AnswersAgree
  <1> QED
    BY <1>1, InteractionsInvariant, PTL

(* Nothing is approved whose plan was not displayed in full above the       *)
(* button.                                                                  *)
THEOREM ApprovedWasShownHolds == Spec => []ApprovedWasShown
  <1>1. ASSUME InteractionsInv, NEW q \in Requests, approved[q] # None
        PROVE  \E i \in Interactions : \E a \in answered[i] :
                 /\ receipts[i].payload = [action |-> "review", request |-> q]
                 /\ a.confirm /\ a.terms
    <2>1. PICK i \in Interactions : \E a \in answered[i] :
             a.confirm /\ receipts[i].payload = [action |-> "review", request |-> q]
      BY <1>1 DEF InteractionsInv, ApprovalInv, Offered
    <2>2. \A a \in answered[i] : a \in Answers /\ receipts[i].response = a
      BY <1>1 DEF InteractionsInv, InteractionsTypeOK, RowInv
    <2>3. \A a \in answered[i] : a.confirm => a.terms
      BY <1>1, <2>2, NoneAssumption DEF InteractionsInv, RowInv, IsBacked
    <2> QED
      BY <2>1, <2>3
  <1>2. InteractionsInv => ApprovedWasShown
    BY <1>1 DEF ApprovedWasShown
  <1> QED
    BY <1>2, InteractionsInvariant, PTL
=============================================================================
