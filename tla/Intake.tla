------------------------------- MODULE Intake -------------------------------
(***************************************************************************)
(* Intake (services/intake.py, handlers/intake.py, handlers/expiry.py,     *)
(* services/ai.py, services/transitions.py): the conversation with one     *)
(* customer, from his first message to a confirmed request.                *)
(*                                                                         *)
(* Customers share nothing here, so one is enough. Each message of his is  *)
(* a job; a worker handles it in one READ COMMITTED transaction whose      *)
(* writes are kept in tx[w] until Commit, while replies and model calls    *)
(* are not undone by a roll-back. The transaction begins by upserting the  *)
(* customer's contact_window row, and holds its lock to the end.           *)
(*                                                                         *)
(* What the customer says is abstracted to the facts it states (a trade,   *)
(* an area); what the model returns to the facts it extracts. The trust    *)
(* tier is never written by the code: the customer is not blocked. What    *)
(* happens to a dispatched request is seen as Introduction shows it.       *)
(*                                                                         *)
(* Nothing in the repository enqueues expire_unconfirmed: Expiring says    *)
(* whether something outside it keeps doing so.                            *)
(***************************************************************************)
EXTENDS Naturals, Sequences, FiniteSets

CONSTANTS
    Workers,
    Nobody,
    Phrases,        \* the texts the customer may write, see Text below
    Patient,        \* does he answer questions, by their buttons, and wait?
    ModelUp,        \* subset of BOOLEAN: how a model call may turn out
    Faithful,       \* does the model extract what the context says?
    Expiring,       \* does anything enqueue expire_unconfirmed?
    DailyRequests,  \* config daily_request_cap_per_customer
    ModelCap,       \* config daily_model_call_cap
    ContextLimit,   \* config bounded_context_messages
    MaxAttempts,    \* job.max_attempts
    MaxPending,     \* bound: messages of the customer waiting at once
    MaxMessages,    \* bound: messages an impatient customer sends
    MaxFaults,      \* bound: failed sends and database calls, lost answers of COMMIT
    MaxCrashes      \* bound: jobs a worker leaves claimed, mostly by dying

Facts == {"trade", "area"}
Buttons == {"confirm_yes", "confirm_no", "trade", "area"}

\* A greeting or "ok" (is_trivial), "yes" (trivial as well, but a confirmation
\* when one is asked for), a wish for contacts, or a text that states facts.
Text(kind, says) == [kind |-> kind, says |-> says, req |-> 0]

\* The button the customer taps knows the request it was shown for; what
\* WhatsApp returns, and the code looks at, is only its id, kind.
Tap(id, r) == [kind |-> id, says |-> {}, req |-> r]

ASSUME IntakeAssumption ==
    /\ Nobody \notin Workers
    /\ Phrases \subseteq {Text("trivial", {}), Text("yes", {}), Text("contacts", {})}
                         \cup {Text("text", says) : says \in SUBSET Facts}
    /\ {Patient, Faithful, Expiring} \subseteq BOOLEAN
    /\ ModelUp \subseteq BOOLEAN /\ ModelUp # {}
    /\ {DailyRequests, ContextLimit, MaxAttempts, MaxPending} \subseteq Nat \ {0}
    /\ {ModelCap, MaxMessages, MaxFaults, MaxCrashes} \subseteq Nat

Requests == 1 .. DailyRequests      \* in the order of created_at, of one day

VARIABLES
    request,        \* service_request.state, "none" before the row is there
    conv,           \* service_request.conversation
    overdue,        \* requests whose updated_at is before the expiry cutoff
    dispatches,     \* dispatch_request jobs enqueued for each request
    lastArea,       \* is customer.last_area_id set?
    logged,         \* rows of model_call_log for today
    jobs,           \* pending jobs
    tx,             \* the transaction of each worker
    window,         \* who holds the customer's contact_window row
    calls,          \* model calls made today
    buttons,        \* buttons delivered to the customer
    asked,          \* the buttons of the last reply
    promised,       \* requests he was told "We're finding a provider" for
    sent, faults, crashes

dbVars == <<request, conv, overdue, dispatches, lastArea, logged>>
worldVars == <<calls, buttons, asked, promised>>
bounds == <<sent, faults, crashes>>
vars == <<dbVars, jobs, tx, window, worldVars, bounds>>

-----------------------------------------------------------------------------
(* Requests and conversations                                              *)

RequestStates == {"none", "collecting", "awaiting_confirmation", "dispatching",
                  "assigned", "unfilled", "expired", "cancelled"}

OpenStates == {"collecting", "awaiting_confirmation", "dispatching", "assigned"}

Unconfirmed == {"collecting", "awaiting_confirmation"}

ConvSteps == {"initial", "cap_reached", "clarify_trade", "clarify_area",
              "fallback_trade", "fallback_area", "confirm"}

\* notes: trade_id, trade_name, pending_area and the like, once set.
NewConv == [messages |-> <<>>, step |-> "initial", fallback_mode |-> FALSE, notes |-> {}]

\* _get_open_request: the latest, 0 when there is none.
OpenRequest ==
    LET open == {r \in Requests : request[r] \in OpenStates}
    IN  IF open = {} THEN 0 ELSE CHOOSE r \in open : \A q \in open : q <= r

OpenState == IF OpenRequest = 0 THEN "none" ELSE request[OpenRequest]

Existing == {r \in Requests : request[r] # "none"}

\* The list is appended to in place, so that the conversation loaded with the
\* request changes with it. What is assigned is written only when it differs
\* from that: in another key, in details, or because the list was cut.
Stored(old, new, details) ==
    IF \/ details
       \/ [new EXCEPT !.messages = old.messages] # old
       \/ Len(new.messages) <= Len(old.messages)
    THEN new ELSE old

\* Mutant: the oldest message is cut one message too late.
InContextAndOne(messages, says) ==
    LET all == Append(messages, says)
    IN  IF Len(all) > ContextLimit + 1 THEN Tail(all) ELSE all

\* msgs[-context_limit:] after the append
InContext(messages, says) ==
    LET all == Append(messages, says)
    IN  IF Len(all) > ContextLimit THEN Tail(all) ELSE all

StatedIn(messages) == UNION {messages[i] : i \in DOMAIN messages}

-----------------------------------------------------------------------------
(* Jobs and transactions, as JobQueue promises them                        *)

MessageJob(m, n) == [msg |-> m, n |-> n, att |-> 0]
ExpireJob == MessageJob(Text("expire", {}), 0)

Keep == "keep"

Idle ==
    [pc |-> "idle", job |-> ExpireJob, req |-> 0, state |-> Keep, conv |-> NewConv,
     messages |-> <<>>, reply |-> "none", logs |-> 0, expire |-> {}]

At(w, step) == tx[w].pc = step
Msg(w) == tx[w].job.msg
IsTap(m) == m.kind \in Buttons
Goto(w, t) == tx' = [tx EXCEPT ![w] = t]

Unlock(w) == window' = IF window = w THEN Nobody ELSE window

Claim(w, j) ==
    /\ At(w, "idle")
    /\ j \in jobs
    /\ jobs' = jobs \ {j}
    /\ Goto(w, [Idle EXCEPT !.job = [j EXCEPT !.att = @ + 1],
                            !.pc = IF j.msg = ExpireJob.msg THEN "select" ELSE "window"])
    /\ UNCHANGED <<dbVars, window, worldVars, bounds>>

\* The worker takes its job for failed: it is due again, or has failed for good.
PutBack(w) ==
    LET j == tx[w].job
    IN  jobs' = IF j.att < MaxAttempts THEN jobs \cup {j} ELSE jobs

RollBack(w) == Goto(w, Idle) /\ Unlock(w) /\ PutBack(w)

\* A send or a database call raises, or the COMMIT fails and changes nothing.
Fault(w) ==
    /\ ~ At(w, "idle")
    /\ faults < MaxFaults
    /\ faults' = faults + 1
    /\ RollBack(w)
    /\ UNCHANGED <<dbVars, worldVars, sent, crashes>>

\* The process dies, or the transaction that would put its job back fails: the
\* job stays claimed for ever.
Crash(w) ==
    /\ ~ At(w, "idle")
    /\ crashes < MaxCrashes
    /\ crashes' = crashes + 1
    /\ Goto(w, Idle)
    /\ Unlock(w)
    /\ UNCHANGED <<dbVars, jobs, worldVars, sent, faults>>

-----------------------------------------------------------------------------
(* process_customer_message: the branches, in the order of the code        *)

\* Mutant: the window is upserted in a transaction of its own.
UpsertUnlocked(w) ==
    /\ At(w, "window")
    /\ Goto(w, [tx[w] EXCEPT !.pc = "read"])
    /\ UNCHANGED <<dbVars, jobs, window, worldVars, bounds>>

\* INSERT INTO contact_window ... ON CONFLICT DO UPDATE waits for any other
\* transaction that has done the same for this phone.
UpsertWindow(w) ==
    /\ At(w, "window")
    /\ window = Nobody
    /\ window' = w
    /\ Goto(w, [tx[w] EXCEPT !.pc = "read"])
    /\ UNCHANGED <<dbVars, jobs, worldVars, bounds>>

Reading(w, states) ==
    /\ At(w, "read")
    /\ OpenState \in states
    /\ UNCHANGED <<dbVars, jobs, window, worldVars, bounds>>

Respond(w, t, reply) == Goto(w, [t EXCEPT !.pc = "reply", !.reply = reply])

BeyondIntakeOnlyAssigned == {"assigned"}    \* mutant: not while dispatching
BeyondIntake == {"dispatching", "assigned"}
AwaitingOrCollecting == {"awaiting_confirmation", "collecting"}  \* mutant
Awaiting == {"awaiting_confirmation"}

\* The fixed status reply, whatever he wrote.
ReplyStatus(w) ==
    /\ Reading(w, BeyondIntake)
    /\ Respond(w, tx[w], "fixed")

\* _handle_confirmation. The transition is checked against the state read.
Confirm(w) ==
    /\ Reading(w, Awaiting)
    /\ Msg(w).kind \in {"confirm_yes", "yes"}
    /\ Respond(w, [tx[w] EXCEPT !.req = OpenRequest, !.state = "dispatching",
                                !.conv = conv[OpenRequest]], "finding")

Cancel(w) ==
    /\ Reading(w, Awaiting)
    /\ Msg(w).kind = "confirm_no"
    /\ Respond(w, [tx[w] EXCEPT !.req = OpenRequest, !.state = "cancelled",
                                !.conv = conv[OpenRequest]], "fixed")

AskAgain(w) ==
    /\ Reading(w, Awaiting)
    /\ Msg(w).kind \notin {"confirm_yes", "yes", "confirm_no"}
    /\ Respond(w, [tx[w] EXCEPT !.req = OpenRequest, !.conv = conv[OpenRequest]], "confirm")

\* What follows is for a request that is being collected, or none yet.
Collecting(w) ==
    /\ At(w, "read")
    /\ OpenState \notin BeyondIntake \cup Awaiting

Redirect(w) ==
    /\ Collecting(w)
    /\ Msg(w).kind = "contacts"
    /\ Respond(w, tx[w], "fixed")
    /\ UNCHANGED <<dbVars, jobs, window, worldVars, bounds>>

\* A greeting is answered when nothing is being collected, else ignored.
Greet(w) ==
    /\ Collecting(w)
    /\ Msg(w).kind \in {"trivial", "yes"}
    /\ IF OpenRequest = 0
       THEN Respond(w, tx[w], "fixed")
       ELSE Goto(w, [tx[w] EXCEPT !.pc = "commit"])
    /\ UNCHANGED <<dbVars, jobs, window, worldVars, bounds>>

Substantial(m) == m.kind = "text" \/ IsTap(m)

\* The daily cap. The limit on open requests is looked at only when there is
\* none, so that it never refuses anything.
RefuseRequest(w) ==
    /\ Collecting(w)
    /\ Substantial(Msg(w))
    /\ OpenRequest = 0 /\ Cardinality(Existing) >= DailyRequests
    /\ Respond(w, tx[w], "fixed")
    /\ UNCHANGED <<dbVars, jobs, window, worldVars, bounds>>

\* The request the message is about, created if there is none: its id is one
\* that no other transaction has drawn.
OpenOrNew(w) ==
    LET drawn == Existing \cup {tx[v].req : v \in Workers}
        new == CHOOSE r \in Requests \ drawn : \A q \in Requests \ drawn : r <= q
    IN  IF OpenRequest # 0
        THEN [tx[w] EXCEPT !.req = OpenRequest, !.conv = conv[OpenRequest]]
        ELSE [tx[w] EXCEPT !.req = new, !.state = "collecting"]

Admitted(w) ==
    /\ Collecting(w)
    /\ Substantial(Msg(w))
    /\ OpenRequest = 0 => Cardinality(Existing) < DailyRequests

InFallback(w) == IsTap(Msg(w)) /\ OpenRequest # 0 /\ conv[OpenRequest].fallback_mode

-----------------------------------------------------------------------------
(* _handle_fallback_reply                                                  *)

FallbackStays(c) == [c EXCEPT !.notes = @ \cup {"trade"}]    \* mutant
PickTrade(c) == [c EXCEPT !.notes = @ \cup {"trade"}, !.step = "fallback_area"]

TapTrade(w) ==
    LET t == OpenOrNew(w) IN
    /\ Admitted(w) /\ InFallback(w)
    /\ t.conv.step = "fallback_trade" /\ Msg(w).kind = "trade"
    /\ Respond(w, [t EXCEPT !.conv = PickTrade(@)], "area")
    /\ UNCHANGED <<dbVars, jobs, window, worldVars, bounds>>

TapArea(w) ==
    LET t == OpenOrNew(w) IN
    /\ Admitted(w) /\ InFallback(w)
    /\ t.conv.step = "fallback_area" /\ Msg(w).kind = "area"
    /\ Respond(w, [t EXCEPT !.conv = [@ EXCEPT !.notes = Facts, !.step = "confirm"],
                            !.state = "awaiting_confirmation"], "confirm")
    /\ UNCHANGED <<dbVars, jobs, window, worldVars, bounds>>

ExpectedTap(c, m) ==
    <<c.step, m.kind>> \in {<<"fallback_trade", "trade">>, <<"fallback_area", "area">>}

\* A tap of another question's button has no effect and no answer. One of an
\* old confirmation is handled as if it were awaited: No cancels the request,
\* Yes raises InvalidTransition.
TapOther(w) ==
    /\ Admitted(w) /\ InFallback(w)
    /\ ~ ExpectedTap(conv[OpenRequest], Msg(w))
    /\ CASE Msg(w).kind = "confirm_yes" -> RollBack(w)
         [] Msg(w).kind = "confirm_no" ->
              /\ Respond(w, [OpenOrNew(w) EXCEPT !.state = "cancelled"], "fixed")
              /\ UNCHANGED <<jobs, window>>
         [] OTHER ->
              /\ Goto(w, [tx[w] EXCEPT !.pc = "commit"])
              /\ UNCHANGED <<jobs, window>>
    /\ UNCHANGED <<dbVars, worldVars, bounds>>

-----------------------------------------------------------------------------
(* The model                                                               *)

UnderCapLate == logged <= ModelCap          \* mutant: off by one
UnderCap == logged < ModelCap

\* check_daily_cap, then the call itself or the fixed reply.
Consult(w) ==
    LET t == OpenOrNew(w)
        context == InContext(t.conv.messages, Msg(w).says)
    IN  /\ Admitted(w) /\ ~ InFallback(w)
        /\ IF UnderCap
           THEN Goto(w, [t EXCEPT !.messages = context, !.pc = "ask"])
           ELSE Respond(w, [t EXCEPT !.conv =
                    Stored(@, [@ EXCEPT !.messages = context, !.step = "cap_reached"], FALSE)],
                    "fixed")
        /\ UNCHANGED <<dbVars, jobs, window, worldVars, bounds>>

\* Both attempts of extract_with_retry fail: _start_fallback.
ModelFails(w) ==
    LET t == tx[w] IN
    /\ At(w, "ask")
    /\ FALSE \in ModelUp
    /\ calls' = calls + 2
    /\ Respond(w, [t EXCEPT
           !.conv = Stored(@, [@ EXCEPT !.messages = t.messages, !.fallback_mode = TRUE,
                                        !.step = "fallback_trade"], FALSE),
           !.logs = 2], "trade")
    /\ UNCHANGED <<dbVars, jobs, window, buttons, asked, promised, bounds>>

\* What the model may make of a context. A faithful one extracts the facts it
\* states, and takes it for a service request at the latest when it names a trade.
Extractions(messages) ==
    [is_service_request : BOOLEAN,
     facts : IF Faithful THEN {StatedIn(messages)} ELSE SUBSET Facts]

Plausible(result) == Faithful /\ "trade" \in result.facts => result.is_service_request

\* _process_extraction: ask for the trade, or for the area, or to confirm. The
\* last confirmed area is the default. details: does the model put urgency or
\* description differently from what the conversation holds?
Extracted(t, facts, details) ==
    LET known == IF lastArea THEN facts \cup {"area"} ELSE facts
        Moved(step, notes) ==
            Stored(t.conv, [t.conv EXCEPT !.messages = t.messages, !.step = step,
                                          !.notes = @ \cup notes], details)
    IN  IF "trade" \notin known
        THEN [t EXCEPT !.conv = Moved("clarify_trade", facts), !.reply = "trade"]
        ELSE IF "area" \notin known
        THEN [t EXCEPT !.conv = Moved("clarify_area", {"trade"}), !.reply = "area"]
        ELSE [t EXCEPT !.conv = Moved("confirm", Facts), !.reply = "confirm",
                       !.state = "awaiting_confirmation"]

\* The model answers, at the first or the second attempt. When it sees no
\* service request in the context, a greeting is sent and nothing is kept.
ModelAnswers(w) ==
    /\ At(w, "ask")
    /\ TRUE \in ModelUp
    /\ \E n \in {1} \cup (IF FALSE \in ModelUp THEN {2} ELSE {}),
          result \in Extractions(tx[w].messages), details \in BOOLEAN :
          LET t == [tx[w] EXCEPT !.logs = n, !.pc = "reply"] IN
          /\ Plausible(result)
          /\ calls' = calls + n
          /\ Goto(w, IF result.is_service_request
                     THEN Extracted(t, result.facts, details)
                     ELSE [t EXCEPT !.reply = "fixed"])
    /\ UNCHANGED <<dbVars, jobs, window, buttons, asked, promised, bounds>>

-----------------------------------------------------------------------------
(* The reply and the COMMIT                                                *)

ButtonsOf(reply, r) ==
    CASE reply = "confirm"           -> {Tap("confirm_yes", r), Tap("confirm_no", r)}
      [] reply \in {"trade", "area"} -> {Tap(reply, r)}
      [] OTHER                       -> {}

Reply(w) ==
    LET t == tx[w] IN
    /\ At(w, "reply")
    /\ asked' = ButtonsOf(t.reply, t.req)
    /\ buttons' = buttons \cup asked'
    /\ promised' = IF t.reply = "finding" THEN promised \cup {t.req} ELSE promised
    /\ Goto(w, [t EXCEPT !.pc = "commit"])
    /\ UNCHANGED <<dbVars, jobs, window, calls, bounds>>

NeverEnqueued(t, r) == 0            \* mutant: no dispatch_request job
Enqueued(t, r) == IF t.state = "dispatching" /\ t.req = r THEN 1 ELSE 0

Written(t, r) ==
    IF r \in t.expire THEN "expired"
    ELSE IF r = t.req /\ t.state # Keep THEN t.state
    ELSE request[r]

\* The writes take effect, whatever the rows hold by now.
TakeEffect(w) ==
    LET t == tx[w]
        r == t.req
    IN  /\ At(w, "commit")
        /\ request' = [q \in Requests |-> Written(t, q)]
        /\ conv' = [q \in Requests |-> IF q = r THEN t.conv ELSE conv[q]]
        /\ overdue' = IF r # 0 /\ (t.state # Keep \/ t.conv # conv[r])
                      THEN overdue \ {r} ELSE overdue
        /\ dispatches' = [q \in Requests |-> dispatches[q] + Enqueued(t, q)]
        /\ lastArea' = (lastArea \/ t.state = "dispatching")
        /\ logged' = logged + t.logs
        /\ Goto(w, Idle)
        /\ Unlock(w)
        /\ UNCHANGED worldVars

Commit(w) == TakeEffect(w) /\ UNCHANGED <<jobs, bounds>>

\* The COMMIT takes effect and its answer is lost: the worker takes it for a
\* failure, and the message is handled once more.
LoseAck(w) ==
    /\ TakeEffect(w)
    /\ PutBack(w)
    /\ faults < MaxFaults
    /\ faults' = faults + 1
    /\ UNCHANGED <<sent, crashes>>

-----------------------------------------------------------------------------
(* expire_unconfirmed                                                      *)

Expirable == Unconfirmed

\* The rows are read without a lock; state = expired is written at the end.
SelectUnconfirmed(w) ==
    /\ At(w, "select")
    /\ Goto(w, [tx[w] EXCEPT
           !.expire = {r \in overdue : request[r] \in Expirable}, !.pc = "commit"])
    /\ UNCHANGED <<dbVars, jobs, window, worldVars, bounds>>

ExpireDue ==
    /\ Expiring
    /\ \A j \in jobs : j.msg # ExpireJob.msg
    /\ jobs' = jobs \cup {ExpireJob}
    /\ UNCHANGED <<dbVars, tx, window, worldVars, bounds>>

\* updated_at falls behind the cutoff of confirmation_expiry_minutes.
Age(r) ==
    /\ request[r] \in Unconfirmed
    /\ r \notin overdue
    /\ overdue' = overdue \cup {r}
    /\ UNCHANGED <<request, conv, dispatches, lastArea, logged,
                   jobs, tx, window, worldVars, bounds>>

-----------------------------------------------------------------------------
(* The customer, and dispatch                                              *)

Waiting == {j \in jobs : j.msg # ExpireJob.msg}

Arrive(m) ==
    /\ Cardinality(Waiting) < MaxPending
    /\ \E n \in 1 .. MaxPending :
          /\ \A j \in Waiting : j.n # n
          /\ jobs' = jobs \cup {MessageJob(m, n)}
    /\ UNCHANGED <<dbVars, tx, window, calls, buttons, promised, faults, crashes>>

\* An impatient customer writes when he likes and taps any button he has.
Write(m) ==
    /\ ~ Patient /\ sent < MaxMessages
    /\ sent' = sent + 1
    /\ Arrive(m)
    /\ UNCHANGED asked

\* A patient one writes when all is quiet and no question is open, and answers
\* a question with one of its buttons.
Quiet == Waiting = {} /\ \A w \in Workers : At(w, "idle")

Begin(m) == Patient /\ Quiet /\ asked = {} /\ Arrive(m) /\ UNCHANGED <<sent, asked>>

Answer(b) == Patient /\ b \in asked /\ Quiet /\ Arrive(b) /\ asked' = {} /\ UNCHANGED sent

\* Dispatch assigns the request or leaves it unfilled.
Dispatched(r) ==
    /\ request[r] = "dispatching"
    /\ dispatches[r] > 0
    /\ \E outcome \in {"assigned", "unfilled"} : request' = [request EXCEPT ![r] = outcome]
    /\ UNCHANGED <<conv, overdue, dispatches, lastArea, logged,
                   jobs, tx, window, worldVars, bounds>>

-----------------------------------------------------------------------------
Init ==
    /\ request = [r \in Requests |-> "none"]
    /\ conv = [r \in Requests |-> NewConv]
    /\ overdue = {}
    /\ dispatches = [r \in Requests |-> 0]
    /\ lastArea = FALSE
    /\ logged = 0
    /\ jobs = {}
    /\ tx = [w \in Workers |-> Idle]
    /\ window = Nobody
    /\ calls = 0
    /\ buttons = {}
    /\ asked = {}
    /\ promised = {}
    /\ sent = 0
    /\ faults = 0
    /\ crashes = 0

Step(w) ==
    \/ \E j \in jobs : Claim(w, j)
    \/ UpsertWindow(w)
    \/ ReplyStatus(w)
    \/ Confirm(w)
    \/ Cancel(w)
    \/ AskAgain(w)
    \/ Redirect(w)
    \/ Greet(w)
    \/ RefuseRequest(w)
    \/ TapTrade(w)
    \/ TapArea(w)
    \/ TapOther(w)
    \/ Consult(w)
    \/ ModelFails(w)
    \/ ModelAnswers(w)
    \/ Reply(w)
    \/ Commit(w)
    \/ SelectUnconfirmed(w)

Next ==
    \/ \E w \in Workers : Step(w) \/ Fault(w) \/ LoseAck(w) \/ Crash(w)
    \/ ExpireDue
    \/ \E r \in Requests : Age(r) \/ Dispatched(r)
    \/ \E m \in Phrases \cup buttons : Write(m)
    \/ \E m \in Phrases : Begin(m)
    \/ \E b \in asked : Answer(b)

Spec == Init /\ [][Next]_vars

\* Workers work, time passes, and where there is Expiring its jobs fall due.
FairSpec ==
    /\ Spec
    /\ \A w \in Workers : WF_vars(Step(w))
    /\ WF_vars(ExpireDue)
    /\ \A r \in Requests : WF_vars(Age(r))

\* A patient customer answers every question in the end.
PatientSpec == FairSpec /\ WF_vars(\E b \in asked : Answer(b))

-----------------------------------------------------------------------------
(* Properties                                                              *)

Messages ==
    Phrases \cup {ExpireJob.msg} \cup {Tap(id, r) : id \in Buttons, r \in Requests}

JobType == [msg : Messages, n : 0 .. MaxPending, att : 0 .. MaxAttempts]

ConvType ==
    [messages : Seq(SUBSET Facts), step : ConvSteps, fallback_mode : BOOLEAN,
     notes : SUBSET Facts]

TxType ==
    [pc : {"idle", "window", "read", "ask", "reply", "commit", "select"},
     job : JobType, req : {0} \cup Requests, state : {Keep} \cup RequestStates,
     conv : ConvType, messages : Seq(SUBSET Facts),
     reply : {"none", "fixed", "finding", "confirm", "trade", "area"},
     logs : 0 .. 2, expire : SUBSET Requests]

\* The types of the tables, of the jobs and of the transactions; a context is
\* never longer than its limit (FR-AI-08).
TypeOK ==
    /\ request \in [Requests -> RequestStates]
    /\ conv \in [Requests -> ConvType]
    /\ \A r \in Requests : Len(conv[r].messages) <= ContextLimit
    /\ overdue \subseteq Requests
    /\ dispatches \in [Requests -> Nat]
    /\ lastArea \in BOOLEAN
    /\ jobs \subseteq JobType
    /\ tx \in [Workers -> TxType]
    /\ window \in Workers \cup {Nobody}
    /\ {logged, calls, sent, faults, crashes} \subseteq Nat
    /\ asked \subseteq buttons /\ buttons \subseteq Messages
    /\ promised \subseteq Requests

\* A customer has at most one open request (FR-INT-02), although nothing locks
\* it: the handlers of two of his messages exclude each other by the row of his
\* contact window, which both upsert before they look.
OneOpenRequest ==
    Cardinality({r \in Requests : request[r] \in OpenStates}) <= 1

\* A confirmed request is dispatched by exactly one job, however often and
\* however fast he confirms it, and though it may expire meanwhile; and none is
\* that was not stated back to him (FR-INT-05).
DispatchedOnce ==
    \A r \in Requests :
        /\ dispatches[r] <= 1
        /\ request[r] \in {"dispatching", "assigned", "unfilled"} => dispatches[r] = 1
        /\ dispatches[r] > 0 => Tap("confirm_yes", r) \in buttons

\* The daily cap on model calls (FR-AI-07) is passed by no more than the retry of
\* the last call and the two of each run that rolls back, or dies, after its
\* calls and takes their log with it; however many messages are handled at once.
CapOverrunBounded == calls <= ModelCap + 1 + 2 * (faults + crashes)

\* The model is never asked while a request is beyond confirmation (FR-INT-07).
ModelOnlyDuringIntake ==
    [][calls' # calls =>
         \A r \in Requests : request[r] \notin {"dispatching", "assigned"}]_vars

\* Only the transitions of requirements.md, section 4.1.
ValidStep(old, new) ==
    \/ old = new
    \/ <<old, new>> \in
         {<<"none", "collecting">>, <<"none", "awaiting_confirmation">>,
          <<"collecting", "awaiting_confirmation">>, <<"collecting", "expired">>,
          <<"collecting", "cancelled">>,
          <<"awaiting_confirmation", "dispatching">>, <<"awaiting_confirmation", "expired">>,
          <<"awaiting_confirmation", "cancelled">>,
          <<"dispatching", "assigned">>, <<"dispatching", "unfilled">>}
TransitionsValid ==
    [][\A r \in Requests : ValidStep(request[r], request'[r])]_vars

\* Whoever is told that a provider is being looked for is dispatched, also when
\* the handler fails after saying so and is retried.
PromisedIsDispatched ==
    \A r \in Requests : (r \in promised) ~> (dispatches[r] = 1)

\* A customer who answers each question by its button gets his request out of
\* the collecting state (FR-INT-03, NFR-REL-02).
QuestionsLeadOn ==
    \A r \in Requests :
        (request[r] = "collecting" /\ asked # {}) ~> (request[r] # "collecting")

\* An unconfirmed request expires unless the customer keeps writing (FR-INT-06).
UnconfirmedExpire ==
    \A r \in Requests :
        <>[](request[r] \in Unconfirmed) => []<>(Waiting # {})

=============================================================================
