---------------------------- MODULE Interactions ----------------------------
(***************************************************************************)
(* Commands and buttons of the Discord bot                                 *)
(* (apps/discord_bot/src/opsyne_discord/app.py, receipts.py, bridge.py):   *)
(* Discord may deliver an interaction again, also at the same time or      *)
(* after a restart; the bot keeps a receipt per interaction id, forwards   *)
(* the signed original to a bridge in front of Control, and tells the      *)
(* person what came back.  The bridge is external: it is modelled by what  *)
(* docs/control-bridge.md asks of it and by the replies bridge.py accepts. *)
(* Deliveries that fail a check on their own, and commands the bot does    *)
(* not know, are answered without touching any state and are left out.     *)
(***************************************************************************)
EXTENDS Naturals

CONSTANTS
    Interactions,   \* interaction ids that Discord gives out
    Actions,        \* what the commands and buttons in use ask for
    Requests,       \* approval requests, each with its plan and confirmation
    Handlers,       \* HTTP requests served at the same time
    None

ASSUME InteractionsAssumption ==
    /\ Actions \subseteq {"case", "plan", "review", "reject", "confirm"}
    /\ None \notin Interactions

VARIABLES
    receipts,       \* id -> [payload, response] of its row, NoReceipt without one
    handler,        \* what each request is doing, with its local variables
    connected,      \* settings.bridge_url is set in the running process
    inTransit,      \* requests on their way to the bridge
    approved,       \* request -> interaction that recorded its approval, or None
    posts,          \* id -> how many times it was sent to the bridge
    answered        \* id -> results that Discord showed for it

vars == <<receipts, handler, connected, inTransit, approved, posts, answered>>

Payloads == [action : Actions, request : Requests]

\* What the person reads: do all terms of a plan stand above its buttons, and is
\* the button that approves among them?  A notice is a case, or that Control is
\* still at work or unavailable: it is displayed as it came.
Message(text) == [says |-> text, terms |-> FALSE, confirm |-> FALSE]
Doubts == {"unconfirmed", "unsaved", "conflict"}
Results == {"notice", "plan", "recorded", "rejected", "unknown", "disconnected"}
Answers == [says : Results \cup Doubts, terms : BOOLEAN, confirm : BOOLEAN]

ASSUME NoneAssumption == None \notin Payloads /\ None \notin Answers

\* Replies of the bridge: full, if the plan can be displayed with all its terms;
\* bound, if it carries a well-formed confirmation id.
Replies ==
    [kind : {"notice", "approval_recorded", "rejected", "garbage"},
     full : {FALSE}, bound : {FALSE}]
    \cup [kind : {"plan"}, full : BOOLEAN, bound : {FALSE}]
    \cup [kind : {"review"}, full : BOOLEAN, bound : BOOLEAN]

NoReceipt == [payload |-> None, response |-> None]
Idle == [at |-> "idle", id |-> None, payload |-> None, answer |-> None]
Busy == [at : {"begin", "forward", "await", "finish", "answer"}, id : Interactions,
         payload : Payloads, answer : Answers \cup {None}]

InteractionsInit ==
    /\ receipts = [i \in Interactions |-> NoReceipt]
    /\ handler = [h \in Handlers |-> Idle]
    /\ connected \in BOOLEAN
    /\ inTransit = {}
    /\ approved = [q \in Requests |-> None]
    /\ posts = [i \in Interactions |-> 0]
    /\ answered = [i \in Interactions |-> {}]
-----------------------------------------------------------------------------
(* Discord. *)

Become(h, state) == handler' = [handler EXCEPT ![h] = state]

\* Cards show the buttons review and reject; confirm only appears in an answer.
Offered(q) ==
    \E i \in Interactions : \E a \in answered[i] :
        a.confirm /\ receipts[i].payload = [action |-> "review", request |-> q]

\* A person uses a command or a button, or Discord delivers an interaction again;
\* the id may come with the input it had before or with another one.
Deliver(h, i, p) ==
    /\ handler[h] = Idle
    /\ p.action = "confirm" => Offered(p.request)
    /\ Become(h, [at |-> "begin", id |-> i, payload |-> p, answer |-> None])
    /\ UNCHANGED <<receipts, connected, inTransit, approved, posts, answered>>

\* The answer reaches the person, or Discord no longer waits for it.
Answer(h) ==
    /\ handler[h].at = "answer"
    /\ Become(h, Idle)
    /\ \/ /\ handler[h].answer.says \in Results
          /\ answered' = [answered EXCEPT ![handler[h].id] = @ \cup {handler[h].answer}]
       \/ UNCHANGED answered
    /\ UNCHANGED <<receipts, connected, inTransit, approved, posts>>
-----------------------------------------------------------------------------
(* Receipts: one transaction each, which fails if the database stays locked. *)

Tell(h, answer) == Become(h, [handler[h] EXCEPT !.at = "answer", !.answer = answer])

Unsaved(h) == Tell(h, Message("unsaved")) /\ UNCHANGED receipts

First(h) ==
    /\ receipts' = [receipts EXCEPT ![handler[h].id].payload = handler[h].payload]
    /\ Become(h, [handler[h] EXCEPT !.at = "forward"])

\* Receipts.begin finds the row: the input has to be the same, and the response
\* is missing while the first delivery is at work and after it was interrupted.
Known(h) ==
    LET row == receipts[handler[h].id]
    IN  /\ Tell(h, IF row.payload # handler[h].payload THEN Message("conflict")
                   ELSE IF row.response = None THEN Message("unconfirmed")
                   ELSE row.response)
        /\ UNCHANGED receipts

BeginOr(h, again) ==
    /\ handler[h].at = "begin"
    /\ \/ receipts[handler[h].id] = NoReceipt /\ First(h)
       \/ receipts[handler[h].id] # NoReceipt /\ (Known(h) \/ again)
       \/ Unsaved(h)
    /\ UNCHANGED <<connected, inTransit, approved, posts, answered>>

BeginUnfinished(h) ==       \* faulty: an interrupted delivery is taken up again
    BeginOr(h, receipts[handler[h].id].response = None /\ First(h))

Begin(h) == BeginOr(h, FALSE)

Finish(h) ==
    /\ handler[h].at = "finish"
    /\ \/ /\ receipts' = [receipts EXCEPT ![handler[h].id].response = handler[h].answer]
          /\ Become(h, [handler[h] EXCEPT !.at = "answer"])
       \/ Unsaved(h)
    /\ UNCHANGED <<connected, inTransit, approved, posts, answered>>
-----------------------------------------------------------------------------
(* The bridge. *)

Settle(h, answer) == Become(h, [handler[h] EXCEPT !.at = "finish", !.answer = answer])

\* forward: nothing leaves the bot unless a bridge is configured.
Forward(h) ==
    LET i == handler[h].id
    IN  /\ handler[h].at = "forward"
        /\ \/ /\ ~connected
              /\ Settle(h, Message("disconnected"))
              /\ UNCHANGED <<inTransit, posts>>
           \/ /\ connected
              /\ inTransit' = inTransit \cup {[id |-> i, payload |-> handler[h].payload]}
              /\ posts' = [posts EXCEPT ![i] = @ + 1]
              /\ Become(h, [handler[h] EXCEPT !.at = "await"])
        /\ UNCHANGED <<receipts, connected, approved, answered>>

\* After 1.8 s, or when the request or its answer is lost; it is not sent again.
TimeOut(h) ==
    /\ handler[h].at = "await"
    /\ Settle(h, Message("unknown"))
    /\ UNCHANGED <<receipts, connected, inTransit, approved, posts, answered>>

Card(reply, confirm) == [says |-> "plan", terms |-> reply.full, confirm |-> confirm]

RenderedFreely(reply, action) ==    \* faulty: believes any reply to any action
    CASE reply.kind \in {"plan", "review"} -> Card(reply, reply.bound /\ reply.full)
      [] reply.kind = "approval_recorded" -> Message("recorded")
      [] reply.kind = "garbage" -> Message("unknown")
      [] OTHER -> Message(reply.kind)

RenderedBlind(reply, action) ==     \* faulty: a button also without all terms
    CASE reply.kind = "plan" -> Card(reply, FALSE)
      [] reply.kind = "review" /\ action = "review" /\ reply.bound -> Card(reply, TRUE)
      [] reply.kind = "approval_recorded" /\ action = "confirm" -> Message("recorded")
      [] reply.kind \in {"notice", "rejected"} -> Message(reply.kind)
      [] OTHER -> Message("unknown")

\* render_reply: a reply that does not fit the action is a result unknown.  A plan
\* that cannot be shown with all its terms has no buttons.
Rendered(reply, action) ==
    CASE reply.kind = "plan" -> Card(reply, FALSE)
      [] reply.kind = "review" /\ action = "review" /\ reply.bound -> Card(reply, reply.full)
      [] reply.kind = "approval_recorded" /\ action = "confirm" -> Message("recorded")
      [] reply.kind \in {"notice", "rejected"} -> Message(reply.kind)
      [] OTHER -> Message("unknown")

\* Control records the approval of a confirmed request once.
Record(i, p) ==
    \/ UNCHANGED approved
    \/ /\ p.action = "confirm" /\ approved[p.request] = None
       /\ approved' = [approved EXCEPT ![p.request] = i]

\* Which replies are true: recorded after recording, rejected if it did not.
Truthful(reply, i, p) ==
    LET mine == approved'[p.request] = i
    IN  /\ reply.kind = "approval_recorded" =>
             IF p.action = "confirm" THEN mine ELSE approved[p.request] # None
        /\ reply.kind = "rejected" => ~mine

\* The bridge handles a request, perhaps when nobody waits for its reply any more.
Handle(r) ==
    /\ inTransit' = inTransit \ {r}
    /\ Record(r.id, r.payload)
    /\ \/ UNCHANGED handler
       \/ \E h \in Handlers, reply \in Replies :
            /\ handler[h].at = "await" /\ handler[h].id = r.id
            /\ Truthful(reply, r.id, r.payload)
            /\ Settle(h, Rendered(reply, handler[h].payload.action))
    /\ UNCHANGED <<receipts, connected, posts, answered>>
-----------------------------------------------------------------------------
\* The bot dies and is started again, perhaps with other settings.
Restart ==
    /\ handler' = [h \in Handlers |-> Idle]
    /\ connected' \in BOOLEAN
    /\ UNCHANGED <<receipts, inTransit, approved, posts, answered>>

Next ==
    \/ \E h \in Handlers, i \in Interactions, p \in Payloads : Deliver(h, i, p)
    \/ \E h \in Handlers : Begin(h) \/ Forward(h) \/ TimeOut(h) \/ Finish(h) \/ Answer(h)
    \/ \E r \in inTransit : Handle(r)
    \/ Restart

Spec == InteractionsInit /\ [][Next]_vars
-----------------------------------------------------------------------------
(* Types, and the receipt: at most one request is past begin for an id, its *)
(* row names the input the request serves and has no response yet.          *)
Serving(h) == handler[h].at \in {"forward", "await", "finish"}

InteractionsTypeOK ==
    /\ receipts \in [Interactions -> [payload : Payloads \cup {None},
                                      response : Answers \cup {None}]]
    /\ handler \in [Handlers -> Busy \cup {Idle}]
    /\ connected \in BOOLEAN
    /\ inTransit \subseteq [id : Interactions, payload : Payloads]
    /\ approved \in [Requests -> Interactions \cup {None}]
    /\ posts \in [Interactions -> Nat]
    /\ answered \in [Interactions -> SUBSET Answers]
    /\ \A h \in Handlers : Serving(h) =>
         /\ receipts[handler[h].id] = [payload |-> handler[h].payload, response |-> None]
         /\ \A g \in Handlers : Serving(g) /\ handler[g].id = handler[h].id => g = h

(* However often Discord delivers an interaction, at once or after a crash, *)
(* and however its forwarding ends, it is sent to the bridge at most once   *)
(* (apps/discord_bot/src/opsyne_discord/bridge.py:107).                     *)
ForwardedOnce == \A i \in Interactions : posts[i] <= 1

(* What people are told stays true: an approval said to be recorded is one  *)
(* that this interaction recorded, a refused one never will be, and one     *)
(* answered without a connection never reaches Control, also not later when *)
(* a bridge is configured.                                                  *)
AnswersAreTrue ==
    \A i \in Interactions : \A a \in answered[i] :
        /\ a.says = "recorded" => \E q \in Requests : approved[q] = i
        /\ a.says = "rejected" => \A q \in Requests : approved[q] # i
        /\ a.says = "disconnected" => posts[i] = 0

(* Two results that one interaction was answered with are the same result:  *)
(* deliveries in parallel and after a restart only differ in doubts.        *)
AnswersAgree ==
    \A i \in Interactions : \A a, b \in answered[i] : a = b

(* An approval is only recorded for a request whose plan was displayed with *)
(* all its terms above the button that approves it, in answer to a review.  *)
ApprovedWasShown ==
    \A q \in Requests : approved[q] # None =>
        \E i \in Interactions : \E a \in answered[i] :
            /\ receipts[i].payload = [action |-> "review", request |-> q]
            /\ a.confirm /\ a.terms
=============================================================================
