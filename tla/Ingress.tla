------------------------------ MODULE Ingress ------------------------------
(***************************************************************************)
(* Messages in and out (main.py, handlers/inbound.py, handlers/media.py,   *)
(* services/sender.py, handlers/outbound.py): what the webhook keeps of a  *)
(* delivery of Meta, who gets an inbound message, what becomes of its      *)
(* media, and in which form an outbound message leaves.                    *)
(*                                                                         *)
(* Meta delivers at least once: a batch of messages, or the status of an   *)
(* outbound message, is posted until a post is answered 200, also while an *)
(* earlier post of it is still in progress. Each post runs in a READ       *)
(* COMMITTED transaction of the web process, kept in web[s] until it       *)
(* commits. INSERTs wait for the INSERT of the same meta_message_id in     *)
(* another open transaction, and fail once that one has committed. That a  *)
(* message comes back in the same batch, or a batch in the same order, is  *)
(* not assumed.                                                            *)
(*                                                                         *)
(* The handlers of the jobs make up one transaction each and, but for the  *)
(* call to WhatsApp and the clock, which is read when the job is claimed,  *)
(* one step. Their COMMIT may take effect and its answer be lost: then the *)
(* job runs again, and whatever it enqueues it enqueues once more. Of the  *)
(* queue JobQueue is assumed.                                              *)
(***************************************************************************)
EXTENDS Integers, Sequences, FiniteSets

CONSTANTS
    Servers,        \* the posts the web process has room for at once
    Workers,
    Nothing,        \* no job, no delivery
    Messages,       \* ids of the messages people write
    Batches,        \* how Meta puts them together: sequences of messages
    People,
    Providers,      \* people whose phone_hash is in table provider
    Contents,       \* what they may write: [Messages -> Content], see below
    Notices,        \* messages with buttons that other handlers send
    To,             \* [Notices -> People]
    Statuses,       \* the delivery statuses Meta reports
    Width,          \* WINDOW_HOURS
    MaxAttempts,    \* job.max_attempts
    MaxEvents       \* bound: failed calls, statements and answers, deaths of
                    \* a process, notices, statuses and ticks, all together

\* Who writes, and what: a text or a button; an image, an audio or a video,
\* with or without an id to download it by; a location, contacts, a document
\* or a sticker.
Content ==
    [from : People, type : {"text", "media", "media without id", "unsupported"}]

\* The jobs that come of a message are told apart by the run of its
\* process_inbound that enqueued them.
Rounds == 1 .. MaxAttempts

\* One for each send_message job, and for each that was sent in vain.
MaxOuts == Cardinality((Messages \cup Notices) \X Rounds) + MaxEvents

ASSUME IngressAssumption ==
    /\ Batches \subseteq Seq(Messages)
    /\ IsFiniteSet(Messages \cup Notices) /\ Messages \cap Notices = {}
    /\ Providers \subseteq People
    /\ Contents \subseteq [Messages -> Content]
    /\ To \in [Notices -> People]
    /\ Statuses \subseteq {"sent", "delivered", "read", "failed"}
    /\ MaxAttempts \in Nat \ {0}
    /\ {Width, MaxEvents} \subseteq Nat

VARIABLES
    content,        \* of each message
    message,        \* inbound rows of table message
    media,          \* media.status of the message's media
    job,            \* job.state
    attempts,       \* job.attempts
    window,         \* contact_window.last_inbound_at
    logged,         \* outbound rows of table message
    status,         \* their delivery_status
    web,            \* the posts in progress
    work,           \* the job each worker is at, since when, and what it has
                    \* sent for it
    outs,           \* messages WhatsApp has accepted, in order
    arrived,        \* when each was first posted
    reported,       \* the statuses Meta has to report, as deliveries
    acked,          \* deliveries answered 200
    routed,         \* how often each message was handed on
    doubts,         \* how often the COMMIT of that went unanswered
    now,
    events

dbVars == <<message, media, window, logged, status>>
queueVars == <<job, attempts>>
worldVars == <<outs, arrived, reported, acked>>
history == <<routed, doubts>>
vars == <<content, dbVars, queueVars, web, work, worldVars, history, now, events>>

-----------------------------------------------------------------------------
(* Jobs and deliveries                                                     *)

Inbound(m) == <<"process_inbound", m, 1>>
Download(m, k) == <<"download_media", m, k>>
Reply(m, k) == <<"send_message", m, k>>
Notice(n) == <<"send_message", n, 1>>
ToProvider(m, k) == <<"process_provider_message", m, k>>   \* see Dispatch, Payments
ToIntake(m, k) == <<"process_customer_intake", m, k>>      \* see Intake

Jobs ==
    {Inbound(m) : m \in Messages}
    \cup ({"download_media", "process_provider_message", "process_customer_intake"}
          \X Messages \X Rounds)
    \cup ({"send_message"} \X (Messages \cup Notices) \X Rounds)

Here == {j \in Jobs : j[1] \in {"process_inbound", "download_media", "send_message"}}

\* value["messages"] of a post, or the one of value["statuses"]
Batch(b) == [batch |-> b, out |-> 0, status |-> "none"]
Report(o, st) == [batch |-> <<>>, out |-> o, status |-> st]

Deliveries ==
    {Batch(b) : b \in Batches}
    \cup {Report(o, st) : o \in 1 .. MaxOuts, st \in Statuses}

ASSUME NothingAssumption == Nothing \notin Jobs \cup Deliveries

Never == -1
NoRow == "no row"

Free == [post |-> Nothing, pos |-> 1, inserted |-> {}, added |-> {}, seen |-> NoRow]
AtRest == [job |-> Nothing, at |-> Never, out |-> 0]

\* One of the things that happen only so often.
Event == events < MaxEvents /\ events' = events + 1

Busy(s) == web[s].post # Nothing
Working(w) == work[w].job # Nothing

-----------------------------------------------------------------------------
(* POST /webhook                                                           *)

From(m) == content[m].from
WithMedia == {m \in Messages : content[m].type \in {"media", "media without id"}}
WithoutId == {m \in Messages : content[m].type = "media without id"}
Unsupported == {m \in Messages : content[m].type = "unsupported"}

Holds(d, m) == \E i \in DOMAIN d.batch : d.batch[i] = m

\* A batch of messages, or the status of one that WhatsApp has accepted.
Post(s, d) ==
    /\ ~ Busy(s)
    /\ d \notin acked
    /\ d.out = 0 \/ d \in reported
    /\ web' = [web EXCEPT ![s] = [Free EXCEPT !.post = d]]
    /\ arrived' = [m \in Messages |->
           IF Holds(d, m) /\ arrived[m] = Never THEN now ELSE arrived[m]]
    /\ UNCHANGED <<content, dbVars, queueVars, work, outs, reported, acked, history, now, events>>

\* Those whose open transactions have inserted what s is about to insert.
Blockers(s) == {v \in Servers \ {s} : web[s].added \cap web[v].inserted # {}}

Deadlocked(s) ==
    \E S \in SUBSET Servers : s \in S /\ \A v \in S : Blockers(v) \cap S # {}

ConflictsNever(s) == FALSE      \* mutant: no unique key
Conflicts(s) == web[s].added \cap message # {}

Flushes(s) == Busy(s) /\ Blockers(s) = {} /\ ~ Conflicts(s)

\* _process_messages, one message: the SELECT first flushes what was added
\* before. A message that is there already is passed over.
PersistMessage(s) ==
    LET t == web[s]
        m == t.post.batch[t.pos]
        flushed == t.inserted \cup t.added
    IN  /\ Flushes(s)
        /\ t.pos \in DOMAIN t.post.batch
        /\ web' = [web EXCEPT ![s] = [t EXCEPT
               !.pos = @ + 1,
               !.inserted = flushed,
               !.added = IF m \in message \cup flushed THEN {} ELSE {m}]]
        /\ UNCHANGED <<content, dbVars, queueVars, work, worldVars, history, now, events>>

\* _process_statuses: the row is looked up; one that is not there is ignored.
FindOutbound(s) ==
    LET t == web[s]
        o == t.post.out
    IN  /\ Busy(s)
        /\ o # 0 /\ t.pos = 1
        /\ web' = [web EXCEPT ![s] = [t EXCEPT
               !.pos = @ + 1,
               !.seen = IF o \in logged THEN status[o] ELSE NoRow]]
        /\ UNCHANGED <<content, dbVars, queueVars, work, worldVars, history, now, events>>

AllDone(t) == t.pos > Len(t.post.batch) + (IF t.post.out = 0 THEN 0 ELSE 1)

\* The answer 200 may be lost on its way: then Meta posts again.
Answer(d) ==
    \/ acked' = acked \cup {d} /\ UNCHANGED events
    \/ Event /\ UNCHANGED acked

\* Messages are committed with their media and jobs. A status is written if
\* the row was there and had another one; last come, last recorded.
CommitPost(s) ==
    LET t == web[s]
        new == t.inserted \cup t.added
    IN  /\ Flushes(s) /\ AllDone(t)
        /\ message' = message \cup new
        /\ media' = [m \in Messages |-> IF m \in new \cap WithMedia THEN "pending" ELSE media[m]]
        /\ job' = [j \in Jobs |-> IF \E m \in new : j = Inbound(m) THEN "pending" ELSE job[j]]
        /\ status' = IF t.seen \in {NoRow, t.post.status} THEN status
                     ELSE [status EXCEPT ![t.post.out] = t.post.status]
        /\ web' = [web EXCEPT ![s] = Free]
        /\ Answer(t.post)
        /\ UNCHANGED <<content, window, logged, attempts, work, outs, arrived, reported, history, now>>

\* Mutant: the error is caught and the post answered 200.
RefuseQuietly(s) ==
    /\ Busy(s)
    /\ Conflicts(s) \/ Deadlocked(s)
    /\ web' = [web EXCEPT ![s] = Free]
    /\ acked' = acked \cup {web[s].post}
    /\ UNCHANGED <<content, dbVars, queueVars, work, outs, arrived, reported, history, now, events>>

\* An INSERT the unique key refuses, or that the database aborts to break a
\* cycle, fails the whole delivery: it is rolled back and answered 500.
RefusePost(s) ==
    /\ Busy(s)
    /\ Conflicts(s) \/ Deadlocked(s)
    /\ web' = [web EXCEPT ![s] = Free]
    /\ UNCHANGED <<content, dbVars, queueVars, work, worldVars, history, now, events>>

\* A statement raises, or the web process dies.
PostFails(s) ==
    /\ Busy(s)
    /\ Event
    /\ web' = [web EXCEPT ![s] = Free]
    /\ UNCHANGED <<content, dbVars, queueVars, work, worldVars, history, now>>

-----------------------------------------------------------------------------
(* The worker                                                              *)

Claim(w, j) ==
    /\ ~ Working(w)
    /\ job[j] = "pending"
    /\ job' = [job EXCEPT ![j] = "claimed"]
    /\ attempts' = [attempts EXCEPT ![j] = @ + 1]
    /\ work' = [work EXCEPT ![w] = [AtRest EXCEPT !.job = j, !.at = now]]
    /\ UNCHANGED <<content, dbVars, web, worldVars, history, now, events>>

\* Mutant: one attempt too many.
RetriedOnceMore(j) == IF attempts[j] <= MaxAttempts THEN "pending" ELSE "dead"
Retried(j) == IF attempts[j] < MaxAttempts THEN "pending" ELSE "dead"

\* An exception, a call that takes effect and then raises, or a COMMIT that
\* does not take effect.
Fail(w) ==
    LET j == work[w].job IN
    /\ Working(w)
    /\ Event
    /\ job' = [job EXCEPT ![j] = Retried(j)]
    /\ work' = [work EXCEPT ![w] = AtRest]
    /\ UNCHANGED <<content, dbVars, attempts, web, worldVars, history, now>>

\* The process dies, or the transaction that would put the job back fails.
Crash(w) ==
    /\ Working(w)
    /\ Event
    /\ work' = [work EXCEPT ![w] = AtRest]
    /\ UNCHANGED <<content, dbVars, queueVars, web, worldVars, history, now>>

Destination(m, k) ==
    IF m \in Unsupported THEN Reply(m, k)
    ELSE IF From(m) \in Providers THEN ToProvider(m, k)
    ELSE ToIntake(m, k)

\* A COMMIT that takes effect; what becomes of its job depends on its answer.
Finish(w, after, enqueued) ==
    /\ work' = [work EXCEPT ![w] = AtRest]
    /\ job' = [j \in Jobs |-> IF j = work[w].job THEN after
                              ELSE IF j \in enqueued THEN "pending" ELSE job[j]]
    /\ UNCHANGED <<content, attempts, web, arrived, reported, acked, now>>

\* Mutant: ON CONFLICT DO NOTHING.
OpenedFirst(w, p) == IF window[p] = Never THEN work[w].at ELSE window[p]
Opened(w, p) == work[w].at

\* process_inbound
RouteMessage(w, m, after) ==
    LET k == routed[m] + 1 IN
    /\ work[w].job = Inbound(m)
    /\ window' = [window EXCEPT ![From(m)] = Opened(w, From(m))]
    /\ routed' = [routed EXCEPT ![m] = k]
    /\ doubts' = IF after = "succeeded" THEN doubts ELSE [doubts EXCEPT ![m] = @ + 1]
    /\ Finish(w, after, {Destination(m, k)}
                        \cup (IF media[m] = "pending" THEN {Download(m, k)} ELSE {}))
    /\ UNCHANGED <<message, media, logged, status, outs>>

\* Mutant: the except branch does not raise.
DownloadOrGiveUp(w, m, after) ==
    /\ \E k \in Rounds : work[w].job = Download(m, k)
    /\ \E st \in {"stored", "failed"} : media' = [media EXCEPT ![m] = st]
    /\ Finish(w, after, {})
    /\ UNCHANGED <<message, window, logged, status, outs, history>>

\* download_media: a success, or no id to download by, or done before. The
\* except branch sets the status to failed and raises: the roll-back takes it
\* back, see Fail.
DownloadMedia(w, m, after) ==
    /\ \E k \in Rounds : work[w].job = Download(m, k)
    /\ media' = [media EXCEPT ![m] = IF @ # "pending" THEN @
                                     ELSE IF m \in WithoutId THEN "failed" ELSE "stored"]
    /\ Finish(w, after, {})
    /\ UNCHANGED <<message, window, logged, status, outs, history>>

Recipient(j) == IF j[2] \in Notices THEN To[j[2]] ELSE From(j[2])

Open(p) == window[p] # Never /\ now - window[p] < Width

\* send_outbound: buttons and free text only while the window is open.
Form(j) ==
    IF ~ Open(Recipient(j)) THEN "template"
    ELSE IF j[2] \in Notices THEN "interactive"
    ELSE "text"

\* The call to WhatsApp, ...
SendMessage(w) ==
    LET j == work[w].job IN
    /\ Working(w)
    /\ j[1] = "send_message" /\ work[w].out = 0
    /\ outs' = Append(outs, [job |-> j, form |-> Form(j)])
    /\ work' = [work EXCEPT ![w].out = Len(outs')]
    /\ UNCHANGED <<content, dbVars, queueVars, web, arrived, reported, acked, history, now, events>>

\* ... and the row that logs it.
LogMessage(w, after) ==
    /\ Working(w)
    /\ work[w].out # 0
    /\ logged' = logged \cup {work[w].out}
    /\ Finish(w, after, {})
    /\ UNCHANGED <<message, media, window, status, outs, history>>

TakeEffect(w, after) ==
    \/ \E m \in Messages : RouteMessage(w, m, after) \/ DownloadMedia(w, m, after)
    \/ LogMessage(w, after)

Commit(w) == TakeEffect(w, "succeeded") /\ UNCHANGED events

\* The COMMIT takes effect and its answer is lost: the worker takes it for a
\* failure, and puts back or gives up a job that has succeeded.
LoseAck(w) == TakeEffect(w, Retried(work[w].job)) /\ Event

-----------------------------------------------------------------------------
(* The other handlers, WhatsApp and time                                   *)

Notify(n) ==
    /\ Event
    /\ job[Notice(n)] = "none"
    /\ job' = [job EXCEPT ![Notice(n)] = "pending"]
    /\ UNCHANGED <<content, dbVars, attempts, web, work, worldVars, history, now>>

Tick ==
    /\ Event
    /\ now' = now + 1
    /\ UNCHANGED <<content, dbVars, queueVars, web, work, worldVars, history>>

\* Something becomes of a message WhatsApp has accepted.
MetaReports(o, st) ==
    /\ Event
    /\ o \in DOMAIN outs
    /\ Report(o, st) \notin reported
    /\ reported' = reported \cup {Report(o, st)}
    /\ UNCHANGED <<content, dbVars, queueVars, web, work, outs, arrived, acked, history, now>>

-----------------------------------------------------------------------------
Init ==
    /\ content \in Contents
    /\ message = {}
    /\ media = [m \in Messages |-> "none"]
    /\ job = [j \in Jobs |-> "none"]
    /\ attempts = [j \in Jobs |-> 0]
    /\ window = [p \in People |-> Never]
    /\ logged = {}
    /\ status = [o \in 1 .. MaxOuts |-> "none"]
    /\ web = [s \in Servers |-> Free]
    /\ work = [w \in Workers |-> AtRest]
    /\ outs = <<>>
    /\ arrived = [m \in Messages |-> Never]
    /\ reported = {}
    /\ acked = {}
    /\ routed = [m \in Messages |-> 0]
    /\ doubts = [m \in Messages |-> 0]
    /\ now = 0
    /\ events = 0

Serve(s) ==
    \/ PersistMessage(s)
    \/ FindOutbound(s)
    \/ CommitPost(s)
    \/ RefusePost(s)

Step(w) ==
    \/ \E j \in Here : Claim(w, j)
    \/ SendMessage(w)
    \/ Commit(w)

Next ==
    \/ \E s \in Servers : Serve(s) \/ PostFails(s) \/ \E d \in Deliveries : Post(s, d)
    \/ \E w \in Workers : Step(w) \/ Fail(w) \/ LoseAck(w) \/ Crash(w)
    \/ \E n \in Notices : Notify(n)
    \/ \E o \in 1 .. MaxOuts, st \in Statuses : MetaReports(o, st)
    \/ Tick

Spec == Init /\ [][Next]_vars

\* Meta posts until it is answered, a post comes to its end, and a worker that
\* can go on goes on. Meta waits before it posts again, longer each time: a post
\* that can commit because another was refused does so before that one is back.
FairSpec ==
    /\ Spec
    /\ \A b \in Batches : WF_vars(\E s \in Servers : Post(s, Batch(b)))
    /\ \A s \in Servers : WF_vars(Serve(s)) /\ SF_vars(CommitPost(s))
    /\ \A w \in Workers : WF_vars(Step(w))

-----------------------------------------------------------------------------
(* Properties                                                              *)

\* The types of the tables (models/message.py, models/job.py), of the posts and
\* of the workers.
TypeOK ==
    /\ content \in [Messages -> Content]
    /\ message \subseteq Messages
    /\ media \in [Messages -> {"none", "pending", "stored", "failed"}]
    /\ job \in [Jobs -> {"none", "pending", "claimed", "succeeded", "dead"}]
    /\ attempts \in [Jobs -> 0 .. MaxAttempts]
    /\ window \in [People -> Nat \cup {Never}]
    /\ arrived \in [Messages -> Nat \cup {Never}]
    /\ logged \subseteq 1 .. MaxOuts
    /\ status \in [1 .. MaxOuts -> {"none", "sent", "delivered", "read", "failed"}]
    /\ web \in [Servers -> [post : Deliveries \cup {Nothing}, pos : Nat \ {0},
                            inserted : SUBSET Messages, added : SUBSET Messages,
                            seen : {NoRow, "none", "sent", "delivered", "read", "failed"}]]
    /\ work \in [Workers -> [job : Here \cup {Nothing}, at : Nat \cup {Never}, out : 0 .. MaxOuts]]
    /\ outs \in Seq([job : Here, form : {"interactive", "text", "template"}])
    /\ acked \subseteq Deliveries /\ reported \subseteq Deliveries
    /\ {routed, doubts} \subseteq [Messages -> Nat]
    /\ {now, events} \subseteq Nat

\* Meta forgets what was answered 200: every message of such a delivery is
\* stored, whatever other posts of it run beside, conflict or fail (FR-MSG-02).
AckedIsStored ==
    \A d \in acked, m \in Messages : Holds(d, m) => m \in message

\* Media are never forgotten: as long as those of a routed message are not
\* stored, a job that is pending, claimed or dead stands for them, however
\* often the message is routed, and failed is said only of those that have no
\* id (FR-MSG-05).
Underway == {"pending", "claimed", "dead"}

MediaTracked ==
    \A m \in WithMedia : routed[m] > 0 =>
        /\ media[m] = "pending" => \E k \in Rounds : job[Download(m, k)] \in Underway
        /\ media[m] = "failed" => m \in WithoutId

\* Whoever has written less than a window's width ago, and was routed, gets
\* his buttons, however the routing of his messages and the sends to him are
\* ordered, retried and raced by the clock (FR-OUT-01, FR-OUT-02).
WroteLately(p) ==
    \E m \in Messages :
        From(m) = p /\ routed[m] > 0 /\ now - arrived[m] < Width

ButtonsWhileOpen ==
    [][Len(outs') > Len(outs) =>
         LET sent == outs'[Len(outs')]
         IN  sent.job[2] \in Notices /\ WroteLately(Recipient(sent.job))
             => sent.form = "interactive"]_vars

\* Its job is at an end, or claimed by nobody who lives.
Over(m) ==
    \/ job[Inbound(m)] \in {"succeeded", "dead"}
    \/ /\ job[Inbound(m)] = "claimed"
       /\ \A w \in Workers : work[w].job # Inbound(m)

\* The life of a message as the person sees it who wrote it: see Inbox.
Stage(m) ==
    IF arrived[m] = Never THEN "unsent"
    ELSE IF m \notin message THEN "sent"
    ELSE IF routed[m] = 0 THEN IF Over(m) THEN "abandoned" ELSE "kept"
    ELSE IF Over(m) THEN "handed on" ELSE "in doubt"

Abstract == INSTANCE Inbox
    WITH stage <- [m \in Messages |-> Stage(m)], times <- routed

\* Redelivery, concurrent posts, retries and crashes implement the life of a
\* message that is kept once and handed on once, and once more only if the
\* COMMIT that handed it on was not answered (FR-MSG-03, FR-MSG-04).
ImplementsInbox == Abstract!LiveSpec

=============================================================================
