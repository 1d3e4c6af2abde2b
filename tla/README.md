# FixAm in TLA+

FixAm matches customers who need a tradesman with providers over WhatsApp. A web
process receives Meta's webhooks and MTN's payment callbacks and inserts jobs; a worker
process drains the job table; everything they share is in one PostgreSQL database.
The program is sequential code almost everywhere. What makes it hard is what lies
between: transactions that read without locks, messages that no roll-back takes back,
retries of jobs that have half happened, timers that race answers, and workers that die.
These modules model that, check it with TLC, and prove the central facts with TLAPS.

Names and line numbers below refer to `src/fixam/`.

## 1. The system

| Component | State | Operations | Hard part | What makes it correct |
|---|---|---|---|---|
| Job queue and worker (`worker.py`, `services/jobs.py`) | table `job`; the claimed job in a worker's memory | `enqueue_job`, `_claim_one` (claim, run, settle), `run_worker` | three transactions per job, several workers, crashes, a lost answer to COMMIT | nobody works on a job with another; its effects once; no more runs than attempts; every job settles |
| Wave planning (`services/dispatch.py`) | none | `rank_providers`, `get_cold_start_providers`, `split_into_waves` | unknown outcomes, ties, boundaries of the cut | everyone once, waves full, cold starts first, then by rank |
| Dispatch (`handlers/dispatch.py`) | `service_request`, `offer`, `provider.consecutive_unanswered`, `.is_available` | `dispatch_request`, `advance_wave`, auto-OFF, unfilled | unlocked reads, sends in the middle of transactions, a chain of timer jobs, a job that runs again after its COMMIT | one driver per request, nobody skipped, ends assigned or unfilled, no offer outlives its request |
| Acceptance (`services/acceptance.py`) | the same, `assignment`, `credit_ledger` | `accept_offer` | two providers, one request; one provider, two requests | one assignment, one debit, no negative balance |
| Provider commands (`handlers/provider_commands.py`) | provider | accept, decline, AVAILABLE, OFF, TOP UP | stale taps | as above |
| Contact release (`handlers/dispatch.py`) | messages sent | `release_contacts`, `notify_withdrawn` | two sends in one job | contacts to the matched pair only, and to both |
| Payments (`services/payments.py`, `momo_callback`) | `payment`, `credit_ledger` | `get_bundles`, `initiate_payment`, `confirm_payment`, `poll_pending_payments` | callbacks early, late, twice, never; polling against callbacks | one credit per success, none without one, no callback forgotten, every payment leaves pending |
| Free credits (`services/payments.py`) | `credit_ledger` | `grant_activation_credits`, `remove_free_credits` | what was spent in between | one grant, removal of no more than is left |
| Intake (`services/intake.py`) | `service_request`, its `conversation`, `contact_window`, `customer.last_area_id` | `process_customer_message` and its branches | two messages at once, stale buttons, JSON mutated in place | one open request; nothing dispatched unless stated back and confirmed; questions lead on |
| Model calls (`services/ai.py`) | `model_call_log` | `check_daily_cap`, `extract_with_retry` | failure, retry, cap | calls capped, fallback when down |
| Expiry (`handlers/expiry.py`) | `service_request` | `expire_unconfirmed` | a confirmation in between | unconfirmed requests expire, confirmed ones do not |
| Webhook, inbound routing, media (`main.py`, `handlers/inbound.py`, `handlers/media.py`) | `message`, `media`, `contact_window` | `webhook_receive`, `process_inbound`, `download_media` | redelivery while the first delivery is open, an answer that is lost, order of statuses | what is answered is stored; each message is handed on once, and once more for a lost answer of COMMIT, or found by an operator; media are stored or a job stands for them |
| Outbound (`services/sender.py`) | `message` | `send_outbound` | the 24 hour window; a send is not undone | buttons go out while the window is open |
| Tables without code | `followup`, `bad_lead_report`, `operator` | none | | |

How they interact. The webhook persists a message and enqueues `process_inbound`, which
enqueues `process_provider_message` or `process_customer_intake`. Intake, on a
confirmation, enqueues `dispatch_request`; that one sends the first wave and enqueues
`advance_wave`, which enqueues itself until the waves are used up. A tap of Accept runs
`accept_offer`, which enqueues `release_contacts`, `notify_withdrawn` and perhaps
`send_low_balance_warning`. TOP UP leads to `initiate_payment`, MTN's callback enqueues
`confirm_payment`. The media of a message get a `download_media` job. The parts share rows of the database and
nothing else. Nothing in the
repository enqueues `poll_pending_payments` or `expire_unconfirmed`.

`docs/requirements.md`:41 deploys one worker process, and :114 and :247 and
`tests/test_worker.py` ask for correctness with several. Runs with `Workers = {w1}` show
the deployed system, runs with two what the code does when it is scaled as intended.

## 2. Modules

    JobLife      <-- refines --  JobQueue                 <--  JobQueueProofs
                                 Waves                    <--  WavesProofs
    Introduction <-- refines --  Dispatch (EXTENDS Waves) <--  DispatchProofs (EXTENDS WavesProofs)
                                                          <--  OneWorkerProofs (EXTENDS DispatchProofs)
    Inbox        <-- refines --  Ingress                  <--  IngressProofs
                                 Payments                 <--  PaymentsProofs
                                 Intake                   <--  IntakeProofs
    MCJobQueue, MCDispatch, MCIngress, MCPayments, MCIntake:  values for TLC

JobQueue is the queue the others assume: in their modules a job is claimed, its handler runs
in one transaction that commits, rolls back and is retried, commits without its worker's hearing
of it and is retried all the same, or is left claimed.

**JobQueue.** `state`, `attempts`, `due` are the columns of `job`; `pc`, `held`, `tries` are a
worker in `_claim_one` and its `_ClaimedJob`. `LockJob` and `CommitClaim` are phase 1 (the
lock of FOR UPDATE SKIP LOCKED is held between them), `RunHandler`, `CommitSuccess`, `Raise`
and `LoseAck` phase 2, `Retry` and `GiveUp` phase 3. `Crash` is the death of the process, `LoopError`
an error of the transactions around the handler (phase 1, the no-handler branch, phase 3), which
`run_worker` logs as "Worker loop error" and goes on; either may leave the job claimed, and they are
counted apart. A handler is only its effect: writes
that commit with the job (`effects`) and sends that no roll-back undoes (`sends`). Time is
the difference between `scheduled_at` and the clock, cut off at `-Lag`.
`unacked` are the jobs whose COMMIT took effect without the worker's hearing of it.
**JobLife** is what it promises: submitted, then done, abandoned, or stranded with a dead
worker or after an error around its handler; done once, unless the queue could not know it.

**Waves** has `RankProviders`, `ColdStartFirst` and `SplitIntoWaves`, the loops of the last two as
recursive functions (`Among`, `CutAll`), which can be proved about. A provider's history is what the subqueries count; where rates and last leads are equal
the database may return any order. `Plans` are the plans `dispatch_request` may come to. In Dispatch
the ranking is any order, as follow-ups, on which it rests, are written by no code.

**Dispatch.** The tables are `request`, `offer`, `assigned`, `debits`, `unanswered`,
`available`; `tx[w]` is the worker's transaction: where it is in the handler, the job, what it
has read (`seen`, `todo`) and what it has written and not committed. `Commit` makes the
writes effective whatever the rows hold by then, which is what an UPDATE by primary key does
under READ COMMITTED. Row locks are modelled where they decide something, in PostgreSQL's
modes (FOR UPDATE, UPDATE of a non-key column, the key-share lock of a foreign key); a wait
is a guard, and a cycle of waits is broken by `BreakDeadlock`, as the database does. Each
handler is a chain of steps in the order of the code; a handler that returns early commits
at once. `Fault` is a send or a database call that raises, or a COMMIT that fails; `LoseAck` a COMMIT that
takes effect and whose answer is lost, so that the job runs again after its writes and its followers
are there; `RefuseOffer` the unique key of offers, which such a second run may meet; `Crash` the
death of the process, or a handler that raised and phase 3 failing as well. `planned` remembers whom
a request was planned for, `doubtful` the requests whose driver's COMMIT went unanswered: history,
which no guard reads. `Distant` are the recipients whose 24 hour window is closed: an offer reaches
them without buttons, and the release of contacts without the details. Timers:
when an `advance_wave` falls due is left open, so that every race of timer and answer occurs.
Providers tap any button they were sent, or say AVAILABLE or OFF, as often as `MaxTaps`. `GrantFree`,
`CountFree` and `AdjustFree` are `grant_activation_credits` and `remove_free_credits`, which reads
twice; nothing in the repository calls them, so that they come at any time, as commands.
**Introduction** is what it promises: a request is matched with one qualified provider, who
pays in that step, or is left unmatched, and contacts go to the matched pair only.

**Ingress.** A delivery of Meta's is a batch of messages or the status of an outbound message, and
is posted until a post of it is answered 200. `web[s]` is a post in progress with its
transaction: what it has inserted, what it has added and not flushed, and the status it has
read. `PersistMessage` is one round of the loop; the flush waits for another transaction's
INSERT of the same `meta_message_id` (`Blockers`) and is refused once that one has committed
(`Conflicts`, `RefusePost`), which fails the whole batch. `CommitPost` makes messages, media rows
and jobs visible; the answer may be lost after it. `RouteMessage` is `process_inbound` with the
contact window, `DownloadMedia` is `download_media`, `SendMessage` and `LogMessage` are `send_outbound` up to
WhatsApp's answer and after it. A handler is one step where nothing can come between that
matters. `LoseAck` is as in Dispatch, and `doubts` counts it for each message. Time is a clock that ticks a bounded number of times; the window is `Width` wide.
**Inbox** is what it promises to whoever writes: a message is sent, kept, and then handed on once or
abandoned where an operator finds it; a message whose handing on went unanswered may be handed on once
more.

**Payments.** `payment` and `purchases` are the tables, `mtn` what MTN was asked and has
decided. `ChooseBundle` to `Commit` is `initiate_payment`, with MTN asked before the commit;
`LockPayment` and `VerifyPayment` are `confirm_payment` under FOR UPDATE; `SelectPending`,
`QueryStatus`, `Flush` are the poll, which reads without a lock and writes at the end or,
because of autoflush, earlier. `overtaken` remembers the payments a poll wrote when another run had moved
them on since it read them. `MomoCallback` is ignored for a payment that is not committed.

**Intake.** One customer, as customers share nothing. `UpsertWindow` takes the lock of his
contact window's row, which serialises the handlers of his messages although nothing else
would; then one action per branch of `process_customer_message`, in the order of the
code, then `Reply`, then `Commit`. What he writes is abstracted to the facts it states,
what the model returns to the facts it extracts: those of its context when `Faithful`, any
otherwise. The stored conversation follows SQLAlchemy: the list of messages is appended to
in place, so that the column is written only when something else in it differs (`Stored`).
Buttons keep the request they were shown for, which the code does not look at.
`SelectUnconfirmed` is `expire_unconfirmed`. A patient customer answers questions by their
buttons and waits; an impatient one does anything.

Definitions marked external in `PROJECT.json` are PostgreSQL's locks, MTN, the language model,
the customer, and schedulers outside the repository.

## 3. Runs

Passing runs (deadlock is not checked: each system may stop, when all jobs are done and
the bounds are used up; that waiting workers get on is what the liveness properties say).

| Run | Instance | Shows |
|---|---|---|
| `MCJobQueue` | 2 workers, 3 jobs, one of unknown kind, 2 attempts, 1 death, 1 error around a handler, lost acknowledgements | `MutualExclusion`, `WorkBounded`, `EffectsMatch`, `StrandedByFailures`, `SettledForGood`, and that JobLife is implemented, which includes that every job settles |
| `MCDispatch` | 1 worker, 1 request, 2 providers with 1 credit in waves 1 + rest, one of them outside the 24 hour window, a free credit, 2 taps or commands, 1 fault or lost answer, one fewer than attempts | dispatch and acceptance as deployed: `OneMatchOneDebit`, `ContactsOnlyToMatched`, `TablesAgree`, `BalanceNeverNegative`, `OneDriver`, `NobodySkipped`, `AutoOffHolds`, `TransitionsValid`; under fair workers `MatchedAreIntroduced`, and that Introduction is implemented, which includes that every request ends |
| `MCDispatchTwo` | 2 workers, 1 request, 2 providers, 1 crash, 1 fault or lost answer | `AcceptanceInv`, the invariant of the proofs, which contains `OneMatchOneDebit`; `OneDriver` |
| `MCIngress` | 2 posts at a time, 1 worker, 2 messages that come alone and behind each other, 1 notice, 2 events (failures, deaths, lost answers of a post or of a COMMIT, statuses, ticks) | `AckedIsStored`, `MediaTracked`, `ButtonsWhileOpen`, and that Inbox is implemented, which includes that what was sent is handed on or abandoned |
| `MCPayments` | 2 workers, 2 payments, 1 top-up that may be retried under a second reference, 2 callbacks each, polls, 1 fault (a failure, a lost answer or a death) | `AgreesWithMtn`, `CreditedOnce`, `CallbackKept`, `ConfirmSettlesOnce`, with waits and deadlocks of the row locks |
| `MCIntake` | 2 workers, 3 messages or taps, 2 waiting at once, 2 requests, model up or down, expiry, 1 fault or lost answer, 1 crash | `OneOpenRequest`, `DispatchedOnce` (and only what was stated back), `CapOverrunBounded`, `ModelOnlyDuringIntake` |
| `MCIntakeLive` | 1 worker, patient customer, model down, no expiry, 1 fault or lost answer | `QuestionsLeadOn`, `PromisedIsDispatched`, `TransitionsValid` |

Every run of MCDispatch also evaluates two ASSUMEs about Waves: `PrecedesByPercent` compares the
ranking with percentages, and `PlansChecked` looks at every plan for up to three providers, any
histories, cold starts and two sizes of 0 to 2: everyone once in full waves, cold starts first, then by rank.

`TypeOK` is checked in one run of each module with state of its own.

Runs that violate one property, each a disagreement of code and documents recorded with its
quotation under `findings`:

| Run | Property | What happens |
|---|---|---|
| `MCJobQueueCrash` | `WorkResumes` | a claimed job of a dead worker is never claimed again |
| `MCDispatchRerun` | `NoOfferOutlives` | `dispatch_request` runs again after a COMMIT whose answer was lost, finds nobody it has not asked, and writes unfilled over open offers |
| `MCPaymentsUnpolled` | `PendingSettles` | nothing enqueues `poll_pending_payments`: a payment whose callback was dropped or never comes stays pending |
| `MCIntakeAnswers` | `QuestionsLeadOn` | with the model up, a tapped answer is lost |
| `MCIntakeUnexpired` | `UnconfirmedExpire` | nothing enqueues `expire_unconfirmed`: a request never confirmed stays open |

With a scheduler that keeps enqueueing these jobs (`Polling`, `Expiring` set to TRUE in the two
configurations) `PendingSettles` and `UnconfirmedExpire` hold.

What else the code does that `docs/requirements.md` says otherwise, met while modelling
and reproduced by changing an instance or by a property of one line; none has a run of its own:

- A job whose COMMIT took effect without its worker's hearing of it runs again, and no handler looks
  whether it has done its work (NFR-COR-03). Besides `MCDispatchRerun`: `dispatch_request` or
  `advance_wave` leaves two chains of waves, so that `OneDriver`, `NobodySkipped` and `TablesAgree` except the
  requests in `doubtful`; two chains may offer the request to the same provider, the unique key refuses the
  later (`RefuseOffer`) until its job is dead, and when that happens to both the request stays
  dispatching (FR-DSP-08), which Introduction allows for these requests only. `process_inbound` hands its message on
  again; `initiate_payment` asks MTN a second time, under a second reference; a message is handled
  by intake once more.
- With two workers `BalanceNeverNegative` fails (one credit, two requests accepted at once:
  `acceptance.py`:66 sums the ledger without a lock of the provider; or a removal of free credits
  races an acceptance). `TransitionsValid` fails twice over: `dispatch.py`:425 checks an offer it has not
  locked, and declined is written over accepted; `advance_wave` reads the request without a lock,
  and unfilled is written over assigned, though the pair has been introduced. `AutoOffHolds` fails,
  as an increment of `consecutive_unanswered` may be lost. A contact window may go backwards, as
  `inbound.py`:42 reads the clock before the row is locked. Two acceptances of one request may
  deadlock, one of them being retried.
- A worker that dies while it advances a wave leaves its request dispatching; a retried job
  offers a request again, under new ids; outside the 24 hour window an offer has no buttons and
  counts as unanswered; the contacts of a match reach a recipient outside it as a template without details
  (`sender.py`:55); more cold starts than wave one holds wait for wave two; a wave's timeout
  does not depend on the customer's tier (FR-DSP-03), and a template
  whose delivery fails later is heard of by nobody (FR-MSG-07, FR-DSP-09).
- `remove_free_credits` takes what remains of the balance up to what was granted, without
  counting debits, so that purchased credits are taken where free ones were spent (FR-FRE-02).
- Delivery statuses are written as they come: one for a message whose row is not committed yet is
  answered 200 and lost, and an earlier status that comes later overwrites a later one
  (FR-MSG-07). The window counts from when a message was routed, not from when it was sent, so
  that free text may go out after Meta's window has closed (FR-OUT-02). A send whose transaction
  rolls back is not logged (FR-OUT-03). `download_media` sets `failed` and raises, which takes it
  back: the row stays pending for good with a dead job beside it.
- The payment's row is only flushed, not committed, when MTN is asked (FR-PAY-02): a roll-back after
  request-to-pay leaves MTN asking for a payment no row knows, which `AgreesWithMtn` bounds by the
  failures. With two workers and polls a payment may be credited twice, as
  `poll_pending_payments` reads without a lock and credits what a callback has credited:
  `CreditedOnce` excepts these payments (`overtaken`). A callback before the payment's COMMIT is
  ignored and nothing enqueues the poll; a stuck payment is not polled again; the first-purchase bundle can
  be bought twice.
- An old Yes button confirms a newer request; the daily cap of model calls can be passed, as
  `CapOverrunBounded` says; what the customer said may be missing from the context (`Stored`);
  expired may be written over dispatching; an assigned request counts as open for ever.

**Bounds.** Two workers are enough for every race of two transactions; a third could only
matter for a lock cycle of length three, and an acceptance holds at most an offer and the
request, so that cycles have length two. The two batches of `MCIngress`, `<<a>>` and `<<b, a>>`, wait for each
other and conflict; a cycle takes two orders of the same messages, and `<<a, b>>` with `<<b, a>>` passed
too when tried. Two providers compete for a request, in two waves or in one; what a third adds, a
second withdrawal and a second wave's list, is in the proofs, which hold for any number. The runs of
Dispatch have one request, as a lost answer multiplies the states; two would share a provider's
credit, and that the balance stays right then is proved (`BalanceNeverNegativeHolds`). `MaxAttempts = 2`
has a first run, a retry and the end. One fault or crash reaches every step, as it may strike at
each; where a liveness property holds only while a job is not dead, the faults stay below the
attempts. Three messages open a request, confirm it and confirm it
again, or open it twice. The retry of a top-up makes a second pending row, and a poll locks the two in
either order. In `MCIntakeLive` the cap of model calls is out of reach (`ModelCap = 5`): at the cap the
customer gets a fixed reply and no question (FR-AI-07), so that there is none to answer. Counters are bounded in the guards (`MaxTaps`, `MaxTopUps`,
`MaxCallbacks`, `MaxMessages`, `MaxFaults`, `MaxCrashes`, `MaxEvents`) and every bound is a CONSTANT that says
so. Symmetry is used in runs without liveness properties, of workers and, where they are
alike, of requests and providers.

**Fairness.** `run_worker` loops for ever and a handler's calls return or raise, so every
worker's next step is weakly fair. JobQueue says which further fairness a claim needs: jobs are
ordered by `scheduled_at`, which keeps one from waiting for ever behind the others, and Payments
uses that as strong fairness of each job's claim. Faults, crashes, taps, callbacks and messages
are never fair, MTN's callbacks neither; that a callback leads to its credits is the safety property
`CallbackKept`, a job is left for it, together with what JobQueue promises of a job. Meta posts until it is answered, and waits longer each time before it posts again: a post that
can commit once another one was refused therefore does so before that one is back, which is
the strong fairness of `CommitPost`. A
customer is assumed to answer only where the property is about one who does (`PatientSpec`). No
liveness property rests on polls or expiry being enqueued: where `Polling` and `Expiring` are TRUE
they may be, at any time, and only safety is checked.

## 4. Proofs

`JobQueueProofs`, `WavesProofs`, `DispatchProofs`, `OneWorkerProofs`, `IngressProofs`,
`PaymentsProofs` and `IntakeProofs` hold for every value of the constants that satisfies the named
assumptions of the modules: any number of workers, jobs, messages, payments, requests, providers,
attempts, faults and crashes. Every invariant and every action property that a passing run checks is
also the statement of a theorem, but for `NobodySkipped`; strengthenings were checked with TLC
before they were proved.

*JobQueue.* `TypeOK`, `MutualExclusion` and `WorkBounded` are not inductive together: that a
second worker cannot claim a job needs the row of a held job to be `claimed`, or locked and
pending, and that a retry stays within the attempts needs the worker's copy `tries` to equal the
row's `attempts`. `QueueInv` adds both (`ViewAgrees`, `AttemptLeft`). It holds with deaths, errors around
a handler and lost acknowledgements, and gives `TypeCorrect`, `NoJobTwice`, `HandlerRunsBounded`.
`EffectsExactlyOnce` and `SettledStaysSettled` are about the jobs whose COMMITs were answered:
for these a worker in phase 3 finds the row still `claimed`. `OnlyFailuresStrand` counts:
every step but a death or a `LoopError` leaves the set of stranded jobs as it is or smaller, and these add at
most the job their worker held, so that the set stays finite and no larger than `crashes + errors`.
`QueueImplementsLife` shows that each step of the queue is a step of JobLife or a stutter, with one
lemma per kind of step (`SubmitStep`, `DoStep`, `FailStep`, `ReopenStep`, `HiddenStep`): each names
the one job whose life changes, and `OtherLives` that no other does.

*Waves.* What planning computes is shown for every ranking, every set of cold starts and every list of
sizes. The induction theorems of the library take operators, which the provers cannot instantiate, so
`WavesProofs` does induction over sets: a set of numbers that has 0 and, with each number, the next
one has them all (`UpTo`), and by it a function that goes through a number of steps exists (`Recursion`). The loops
then get their invariants: `Among` keeps those chosen, in their order (`AmongPicks`), and the waves are the
ranking in pieces, none of which is empty, of the sizes configured (`CutInWaves`). `PlanAsksEveryoneOnce` and
`PlanFollowsTheRanking` say so of every plan in `Plans`, for any finite set of providers, any histories and
cold starts and any sizes.

*Dispatch.* `TypesHold` is inductive with what each transaction may be at (`GoodTx`, `Performs`): that
`SendOffer`, `ExpireOffer` and `WithdrawOffer` find somebody in the list whose head they take, that each step
belongs to its kind of job, and that waves are lists of providers, from `WavesProofs`. It showed that
`remainder` has to be an integer: what `get_free_credit_remainder` sums up may be below zero once two
workers have taken free credits back at the same time.

`OneMatchOneDebit` needs the reason why no second acceptance commits:
whoever has passed `LockRequest` holds the request's row FOR UPDATE (`ChargeUnderLock`), locks
exclude each other (`LocksExclusive`), a request that has a match is not `dispatching` any more
(`MatchedNotDispatching`), and only a transaction that holds the row's lock may write it
(`WriteUnderLock`). Their conjunction is `AcceptanceInv`, which TLC checks in `MCDispatchTwo` and
which with the little typing of `CoreType` is inductive. An unfilled written over assigned
does not break it: nothing leads back to `dispatching`. `ContactsHold` adds that a release job, pending or
running, is one of a matched pair. `OneMatchOneDebitHolds` and `AcceptanceUnderLock` are
independent of how the waves are cut and when timers fall due.

`OneDriverHolds` is about the chain of timeouts: a request in dispatch has a job that drives it,
pending, running, dead or left claimed, and only one as long as no COMMIT of a driver went unanswered. `Following` says what a driver's transaction owes: at most
one follower, for its own request, written in the step that decides on another wave, and none only
where the request is found ended or is ended. A follower takes the driver's place in the COMMIT that
ends the driver (`CommitDriver`); a roll-back and a death put the driver itself back (`PutDown`). That
no other COMMIT reopens the request comes from `WriteUnderLock`. Hence `OneDriverHolds`, for any
number of workers, and so also where the requirements ask for more than one.

`OneWorkerProofs` is about the deployed system: its theorems assume `OneWorker`, and with two workers TLC
violates each of them. What the worker has read nobody else writes, so that what it is about to write
can be judged by the rows as they are, from the read to the COMMIT: `Ledger` says so of what it adds to
a balance, `Counted` of counters and availability, `Found` of the state of a request.
`StepsOfTheWorker` sorts the steps into those that only go on, those that put the job down, and those
that write. Hence `BalanceNeverNegativeHolds`, `AutoOffIsKept` (for a threshold above zero),
`MatchedIsAssignedHolds` and `RequestsEndOnce`.

That offers, too, agree with the rest needs that a provider is in one wave of a request only (`AskOnce`),
or a later wave would open again an offer he has answered. `WaveInv` joins this to `TablesAgree`: the
providers a job has still to ask have no offer yet, and the offers that wait for an answer are those of
the wave it times out (`Ready`); the worker has written nothing of the request (`Resting`), or is in one of the four
passages that write offers, each with what it has written of whom and of whom it has still to
(`LettingExpire`, `Offering`, `Accepting`, `Declining`). Where a request's chain of waves is forked (`doubtful`) these say
less: the other chain may have asked first. Hence `TablesAgreeHolds`, `TransitionsAreValid` and
`DispatchImplementsIntroduction`: the COMMIT of an acceptance is the one-step match, that of a driver that
gives up leaves the request unmatched, and no other settles anything (`CommitMatches`, `CommitElse`); the sends
of a release introduce the pair (`ReleaseIntroduces`); all else is a stutter.

*Ingress.* `KeepInv` says why a message is stored once: two open transactions, and the table, hold
different keys (`UniqueKeys`), as an INSERT waits for its rival and then looks at the table; what a
post has passed over is in the table or among its own rows (`Handled`). Hence `AckedIsStoredHolds`.
`QueueInv` says that a worker has its job claimed and to itself (`Claims`), that a message's job
exists once the message does (`Started`), that it was handed on as often as a COMMIT of that went unanswered,
and once more if its job succeeded (`RoutedCounted`), and that what comes of it comes with these (`Fresh`):
hence `HandedOnAtMostOnce`, and with `MediaInv`, which ties the status of media to their
jobs, `MediaTrackedHolds`. `KeepsTheInbox` takes each step to one of Inbox or to a stutter; `Stages` reads the
abstract stage off the jobs.

`IngressTyped` has to count, as outbound messages are numbered up to `MaxOuts`: WhatsApp accepts one for
each send job, and one more for each mishap (`SentCounted`), which is why `IngressAssumption` says that
the messages are finite. `ButtonsWhileOpenHolds` rests on `WindowFollows`: a contact window is never behind the arrival of
any routed message of its writer, in whatever order they were routed; two workers may break that, so that
the theorem assumes `OneWorker`.

*Payments.* What a worker knows of a payment stays true as long as it holds the row's lock
(`Confirming`, `Written`) or has drawn a reference that nobody has seen (`ToppingUp`,
`OwnReference`). `Inv` says what that is at each stage of the three handlers, and `UndisturbedSound` that
no step of another worker, of MTN's or of a callback takes it away. `ConfirmSettlesOnceHolds` follows from
the lock that is held from the second look at the row to the commit. For `AgreesWithMtnHolds` the
payments MTN knows and no row does are counted: a step adds one only where it fails or dies.
A poll, which reads without a lock, may credit what another run has: `CreditedOnceHolds` excepts the payments
it wrote over (`overtaken`). There are none without polls, which is the repository as it is, with any number
of workers (`NotOvertakenUnpolled`), and none with polls and the one worker that is deployed
(`NotOvertakenByOneWorker`, which rests on `StillPending`: what the poll has read is still so when it
commits). `CallbackKeptHolds` follows a callback's job through retries, dead letters and deaths to
the COMMIT that credits.

*Intake.* Nothing locks a request; what serialises is the contact window's row, locked from the first
statement to the commit. `Handling` says that whoever is about a request, or has calls of the model to
log, holds it, that no other request is open, and what has been stated back; those who do not hold it
(expiry, dispatch) only close requests. `Rows` ties a request's state to its jobs and buttons, `Budget`
the calls to the log. Hence `OneOpenRequestHolds`, `DispatchedOnceHolds`, `CapOverrunBoundedHolds` and
`ModelOnlyDuringIntakeHolds`, without a bound on messages.

`IntakeTyped` includes that a context stays within its limit, that a pending job has an attempt left, and
that only a transaction that is about a request asks the model. `TransitionsValidHolds` assumes `Undisputed`: no expiry,
which is the repository as it is, or one worker. `expire_unconfirmed` reads requests without a lock and
writes them later, so that two workers may write expired over dispatching. `Steady` says that what a
transaction is about to write is a valid step from the row as it is.

Only model-checked: all liveness, as fairness and ENABLED are beyond the prover. That is
`QuestionsLeadOn`, `PromisedIsDispatched`, `MatchedAreIntroduced`, and what JobLife, Inbox and
Introduction say must happen; their initial states and steps are proved. Of the safety
properties, `NobodySkipped` is only model-checked. Where a theorem assumes one worker, no polls
or no expiry, TLC finds the property violated without that (section 3).

## 5. Not modelled

The signature of webhooks and the subscription handshake; the wording of messages; encryption and
hashing of phone numbers; configuration and wiring (`get_wave_config` is a constant of Dispatch);
migrations; the tables no code writes (follow-ups, bad leads, operators) and what would write
them. The clients of WhatsApp, MTN and the store are test doubles in the repository and are calls
that succeed or fail here. Customers are not blocked, as no code blocks one. One day passes in Intake
and Payments: the daily counters do not fall back to zero. The `max_open_requests` branch of intake
cannot be reached and is left out.

## 6. Plan

Done: JobQueue, Waves, Dispatch with free credits, Ingress, Payments and Intake, each with its
proofs. Next, in this order:

1. A composition of Intake and Dispatch over one request, for the state that nothing leaves
   (assigned counts as open for ever), and of Dispatch with AVAILABLE and OFF under two workers (auto-OFF
   written over a provider's own word).
2. `get_wave_config`, once sizes and timeouts are worth telling apart in a property.
