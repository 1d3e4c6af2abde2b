------------------------------ MODULE Dispatch ------------------------------
(***************************************************************************)
(* Dispatch and acceptance (handlers/dispatch.py, services/dispatch.py,    *)
(* services/acceptance.py, handlers/provider_commands.py): offering a      *)
(* request to providers in waves, and charging the one who accepts; giving *)
(* him credits for free and taking them back (services/payments.py).       *)
(*                                                                         *)
(* Each worker runs one handler in one READ COMMITTED transaction. What it *)
(* has written and not committed is kept in tx[w] and takes effect in one  *)
(* step, Commit; what it has read may be stale by then. Row locks are held *)
(* until the end of the transaction, in the three modes PostgreSQL uses:   *)
(*   "update"  SELECT ... FOR UPDATE       (with_for_update=True)          *)
(*   "write"   an UPDATE of non-key columns                                *)
(*   "share"   the key-share lock an INSERT takes on a row it refers to    *)
(* and an INSERT waits for another open one of the same unique key.        *)
(* A message, once sent, stays sent when the transaction rolls back.       *)
(*                                                                         *)
(* The job queue is seen as JobQueue shows it: a pending job is run by one *)
(* worker at a time, put back when its handler raises, and dead after      *)
(* MaxAttempts; a job whose COMMIT took effect and went unanswered is put  *)
(* back too, and runs again. When a job falls due is left open. Nothing in *)
(* the repository calls grant_activation_credits or remove_free_credits:   *)
(* they are taken as the handlers of jobs, with a transaction like any     *)
(* other.                                                                  *)
(***************************************************************************)
EXTENDS Integers, Sequences, FiniteSets, Waves

CONSTANTS
    Workers,
    Requests,       \* requests that have just been confirmed
    Providers,
    NoRequest, NoProvider,
    Qualified,      \* [Requests -> SUBSET Providers]: trade, quarter, active
    Distant,        \* providers, and requests whose customer's, 24 hour
                    \* contact window may be closed
    Credits,        \* [Providers -> Nat]: balance before these requests
    WaveSizes,      \* config wave_sizes
    ColdCap,        \* config cold_start_offer_cap
    AutoOffThreshold,  \* config auto_off_threshold
    LowBalance,     \* config low_balance_threshold
    FreeCap,        \* config free_credit_cap
    MaxAttempts,    \* job.max_attempts
    MaxFaults,      \* bound: failed sends and database calls, lost answers
    MaxCrashes,     \* bound: deaths of a worker process in mid-job
    MaxTaps         \* bound: button taps and commands of all providers,
                    \* activations and first jobs confirmed

ASSUME DispatchAssumption ==
    /\ NoRequest \notin Requests
    /\ NoProvider \notin Providers
    /\ IsFiniteSet(Providers)
    /\ Distant \subseteq Providers \cup Requests
    /\ Qualified \in [Requests -> SUBSET Providers]
    /\ Credits \in [Providers -> Nat]
    /\ WaveSizes \in Seq(Nat)
    /\ {ColdCap, AutoOffThreshold, FreeCap, MaxFaults, MaxCrashes, MaxTaps} \subseteq Nat
    /\ LowBalance \in Int
    /\ MaxAttempts \in Nat \ {0}

VARIABLES
    request,        \* service_request.state
    offer,          \* offer rows: [Requests -> [Providers -> Offer]]
    assigned,       \* assignment rows, as <<request, provider>>
    debits,         \* debit_accept rows of the ledger, counted
    balance,        \* sum of a provider's ledger rows
    free,           \* sum of his grant_free and adjustment rows
    unanswered,     \* provider.consecutive_unanswered
    available,      \* providers with is_available
    jobs,           \* pending jobs
    dead,           \* jobs that failed MaxAttempts times
    lost,           \* jobs left in state claimed by a dead worker
    buttons,        \* offers delivered with their Accept and Decline buttons
    contacts,       \* contact details delivered, as <<request, provider, to>>
    tx,             \* the transaction of each worker
    locks,          \* row locks held: [by, row, mode]
    planned,        \* history: whom a request's waves were last planned for
    doubtful,       \* history: requests whose driver's COMMIT took effect and
                    \* went unanswered
    faults, crashes, taps

dbVars == <<request, offer, assigned, debits, balance, free, unanswered, available>>
queueVars == <<jobs, dead, lost>>
worldVars == <<buttons, contacts>>
history == <<planned, doubtful>>
bounds == <<faults, crashes, taps>>
vars == <<dbVars, queueVars, worldVars, tx, locks, history, bounds>>

-----------------------------------------------------------------------------
(* Rows, jobs and transactions                                             *)

Keep == "keep"      \* a column the transaction does not write
Unset == -1         \* the same, for a counter

RequestStates == {"dispatching", "assigned", "unfilled"}

\* An offer is queued only inside the transaction that inserts and sends it.
OfferStates == {"none", "sent", "failed", "accepted", "declined", "expired",
                "withdrawn"}

\* An offer's primary key is drawn anew by every run of the handler that
\* inserts it, so the wave, the chain of waves and the attempt number tell the
\* keys apart.
NoOffer == [st |-> "none", id |-> <<0, 0, 0>>]
OfferId(j) == <<j.wave, j.n, j.att>>
WaveOf(id) == id[1]

Job(kind, r, p, id, wave, rest, n) ==
    [kind |-> kind, req |-> r, prov |-> p, id |-> id, wave |-> wave,
     rest |-> rest, n |-> n, att |-> 0]

DispatchJob(r) == Job("dispatch", r, NoProvider, NoOffer.id, 1, <<>>, 0)

\* n is the run of dispatch_request that began the chain of waves.
AdvanceJob(r, wave, rest, n) == Job("advance", r, NoProvider, NoOffer.id, wave, rest, n)
TapJob(kind, b, n) == Job(kind, b.req, b.prov, b.id, 0, <<>>, n)
CommandJob(kind, p, n) == Job(kind, NoRequest, p, NoOffer.id, 0, <<>>, n)
NoticeJob(kind, r, p) == Job(kind, r, p, NoOffer.id, 0, <<>>, 0)

Idle ==
    [pc |-> "idle",
     job |-> Job("none", NoRequest, NoProvider, NoOffer.id, 0, <<>>, 0),
     todo |-> <<>>,
     request |-> Keep,
     offers |-> [p \in Providers |-> Keep],
     unanswered |-> [p \in Providers |-> Unset],
     available |-> [p \in Providers |-> Keep],
     charge |-> FALSE,
     remainder |-> 0,
     entry |-> 0,
     out |-> {},
     seen |-> [unanswered |-> 0, available |-> TRUE]]

At(w, step) == tx[w].pc = step
Req(w) == tx[w].job.req
Prov(w) == tx[w].job.prov
Goto(w, t) == tx' = [tx EXCEPT ![w] = t]

-----------------------------------------------------------------------------
(* Row locks                                                               *)

Compatible(m1, m2) == "share" \in {m1, m2} /\ "update" \notin {m1, m2}

\* The row lock the next statement of a worker's transaction waits for.
Needs(w) ==
    LET r == Req(w)
        p == Prov(w)
        q == Head(tx[w].todo)
        counted == tx[w].seen.unanswered # 0
    IN  CASE At(w, "offer")       -> {[by |-> w, row |-> <<"newOffer", r, q>>, mode |-> "write"],
                                      [by |-> w, row |-> <<"request", r>>, mode |-> "share"]}
          [] At(w, "unfill")      -> {[by |-> w, row |-> <<"request", r>>, mode |-> "write"]}
          [] At(w, "expire")      -> {[by |-> w, row |-> <<"offer", r, q>>, mode |-> "write"]}
          [] At(w, "bump")        -> {[by |-> w, row |-> <<"provider", q>>, mode |-> "write"]}
          [] At(w, "lockOffer")   -> {[by |-> w, row |-> <<"offer", r, p>>, mode |-> "update"]}
          [] At(w, "lockRequest") -> {[by |-> w, row |-> <<"request", r>>, mode |-> "update"]}
          [] At(w, "withdraw")    -> {[by |-> w, row |-> <<"offer", r, q>>, mode |-> "write"]}
          [] At(w, "decline")     -> {[by |-> w, row |-> <<"offer", r, p>>, mode |-> "write"]}
          [] At(w, "reset") /\ counted
                                  -> {[by |-> w, row |-> <<"provider", p>>, mode |-> "write"]}
          [] At(w, "toggle")      -> {[by |-> w, row |-> <<"provider", p>>, mode |-> "write"]}
          [] OTHER                -> {}

\* Who makes w wait.
Blockers(w) ==
    {v \in Workers \ {w} :
        \E n \in Needs(w), l \in locks :
            l.by = v /\ l.row = n.row /\ ~ Compatible(l.mode, n.mode)}

Acquire(w) == Blockers(w) = {} /\ locks' = locks \cup Needs(w)
Unlock(w) == locks' = {l \in locks : l.by # w}

\* A cycle of transactions that wait for each other, w among them.
Deadlocked(w) ==
    \E S \in SUBSET Workers :
        w \in S /\ \A v \in S : /\ Blockers(v) \cap S # {}
                                /\ \E u \in S : v \in Blockers(u)

\* Mutant: enqueue_job commits its row in a session of its own.
RollBackKeepingJobs(w) ==
    LET j == tx[w].job
    IN  /\ Goto(w, Idle)
        /\ Unlock(w)
        /\ IF j.att < MaxAttempts
           THEN jobs' = jobs \cup {j} \cup tx[w].out /\ UNCHANGED dead
           ELSE dead' = dead \cup {j} /\ UNCHANGED jobs

\* The handler raised: its writes are gone, the job is retried or dead.
RollBack(w) ==
    LET j == tx[w].job
    IN  /\ Goto(w, Idle)
        /\ Unlock(w)
        /\ IF j.att < MaxAttempts
           THEN jobs' = jobs \cup {j} /\ UNCHANGED dead
           ELSE dead' = dead \cup {j} /\ UNCHANGED jobs

-----------------------------------------------------------------------------
(* The job queue, as JobQueue promises it                                  *)

\* The guards of the two dispatch handlers and of handle_decline, on rows read
\* without a lock; release_contacts returns when its assignment is not there.
StillDispatching(r) == request[r] = "dispatching"
DeclinableInAnyState(j) == offer[j.req][j.prov].id = j.id  \* mutant
Declinable(j) == offer[j.req][j.prov] = [st |-> "sent", id |-> j.id]

\* The handler's first reads: session.get(ServiceRequest) or, for a tap,
\* session.get(Provider) and, for a decline, session.get(Offer). Not locked.
FirstStep(j) ==
    CASE j.kind = "dispatch" -> IF StillDispatching(j.req) THEN "plan" ELSE "commit"
      [] j.kind = "advance"  -> IF StillDispatching(j.req) THEN "collect" ELSE "commit"
      [] j.kind = "accept"   -> "lockOffer"
      [] j.kind = "decline"  -> IF Declinable(j) THEN "reset" ELSE "commit"
      [] j.kind = "release"  -> IF <<j.req, j.prov>> \in assigned THEN "provider" ELSE "commit"
      [] j.kind = "available" -> IF j.prov \in available /\ unanswered[j.prov] = 0
                                 THEN "commit" ELSE "toggle"
      [] j.kind = "off"      -> IF j.prov \in available THEN "toggle" ELSE "commit"
      [] j.kind = "grant"    -> "grant"
      [] j.kind = "remove"   -> "remainder"
      [] OTHER               -> "commit"

\* Loaded with the provider of the job (session.get), used until the commit.
Seen(p) ==
    IF p \in Providers
    THEN [unanswered |-> unanswered[p], available |-> p \in available]
    ELSE Idle.seen

Claim(w, j) ==
    LET mine == [j EXCEPT !.att = @ + 1]
    IN  /\ At(w, "idle")
        /\ j \in jobs
        /\ jobs' = jobs \ {j}
        /\ Goto(w, [Idle EXCEPT !.pc = FirstStep(mine),
                                !.job = mine,
                                !.seen = Seen(mine.prov)])
        /\ UNCHANGED <<dbVars, dead, lost, worldVars, locks, history, bounds>>

Merge(old, new) == IF new = Keep THEN old ELSE new

\* Mutant: the state set after the send is not flushed.
WriteOfferQueued(old, t, p) ==
    IF t.offers[p] = Keep THEN old
    ELSE IF old = NoOffer THEN [st |-> "queued", id |-> OfferId(t.job)]
    ELSE [st |-> t.offers[p], id |-> old.id]

\* UPDATE ... WHERE id = ..., or INSERT when there is no such row yet.
WriteOffer(old, t, p) ==
    IF t.offers[p] = Keep THEN old
    ELSE [st |-> t.offers[p],
          id |-> IF old = NoOffer THEN OfferId(t.job) ELSE old.id]

\* The rows the transaction adds to p's ledger: a debit, or the amount of a
\* grant or an adjustment.
Entries(t) == t.entry - (IF t.charge THEN 1 ELSE 0)

\* The COMMIT of the handler's writes takes effect. No UPDATE looks at the
\* state it overwrites.
TakeEffect(w) ==
    LET t == tx[w]
        r == Req(w)
        p == Prov(w)
    IN  /\ At(w, "commit")
        /\ request' = [q \in Requests |->
               IF q = r THEN Merge(request[q], t.request) ELSE request[q]]
        /\ offer' = [q \in Requests |->
               IF q = r THEN [x \in Providers |-> WriteOffer(offer[q][x], t, x)]
               ELSE offer[q]]
        /\ IF t.charge
           THEN /\ assigned' = assigned \cup {<<r, p>>}
                /\ debits' = [debits EXCEPT ![r][p] = @ + 1]
           ELSE UNCHANGED <<assigned, debits>>
        /\ balance' = [x \in Providers |-> IF x = p THEN balance[x] + Entries(t) ELSE balance[x]]
        /\ free' = [x \in Providers |-> IF x = p THEN free[x] + t.entry ELSE free[x]]
        /\ unanswered' = [x \in Providers |->
               IF t.unanswered[x] = Unset THEN unanswered[x] ELSE t.unanswered[x]]
        /\ available' = {x \in Providers :
               IF t.available[x] = Keep THEN x \in available ELSE t.available[x] = "on"}
        /\ Goto(w, Idle)
        /\ Unlock(w)

\* With it commit the jobs the handler enqueued and its own job's success.
Commit(w) ==
    /\ TakeEffect(w)
    /\ jobs' = jobs \cup tx[w].out
    /\ UNCHANGED <<dead, lost, worldVars, history, bounds>>

Drives(j, r) == j.req = r /\ j.kind \in {"dispatch", "advance"}

\* The COMMIT takes effect and its answer is lost: the worker takes it for a
\* failure and puts its job back, or declares it dead, although it succeeded.
LoseAck(w) ==
    LET j == tx[w].job
    IN  /\ faults < MaxFaults
        /\ faults' = faults + 1
        /\ TakeEffect(w)
        /\ IF j.att < MaxAttempts
           THEN jobs' = jobs \cup {j} \cup tx[w].out /\ UNCHANGED dead
           ELSE dead' = dead \cup {j} /\ jobs' = jobs \cup tx[w].out
        /\ doubtful' = doubtful \cup {r \in Requests : Drives(j, r)}
        /\ UNCHANGED <<lost, worldVars, planned, crashes, taps>>

\* A send raises, a database call raises or the COMMIT fails without effect.
Fault(w) ==
    /\ ~ At(w, "idle")
    /\ faults < MaxFaults
    /\ faults' = faults + 1
    /\ RollBack(w)
    /\ UNCHANGED <<dbVars, lost, worldVars, history, crashes, taps>>

\* PostgreSQL aborts a transaction of a cycle: an exception like any other.
BreakDeadlock(w) ==
    /\ Deadlocked(w)
    /\ RollBack(w)
    /\ UNCHANGED <<dbVars, lost, worldVars, history, bounds>>

\* The process dies, or the handler raised and phase 3 fails as well (LoopError
\* of JobQueue): the job stays in state claimed, which nothing undoes.
Crash(w) ==
    /\ ~ At(w, "idle")
    /\ crashes < MaxCrashes
    /\ crashes' = crashes + 1
    /\ lost' = lost \cup {tx[w].job}
    /\ Goto(w, Idle)
    /\ Unlock(w)
    /\ UNCHANGED <<dbVars, jobs, dead, worldVars, history, faults, taps>>

-----------------------------------------------------------------------------
(* dispatch_request_handler                                                *)

\* get_eligible_providers
Eligible(r) ==
    {p \in Qualified[r] : /\ p \in available
                          /\ balance[p] >= 1
                          /\ offer[r][p] = NoOffer}

\* get_cold_start_providers: fewer than ColdCap offers so far
Cold(eligible) ==
    {p \in eligible : Cardinality({r \in Requests : offer[r][p] # NoOffer}) < ColdCap}

\* rank_providers: by completion rate, then by the time since the last lead.
\* Both come from follow-ups and assignments of other requests: any order.
Rankings(eligible) == SetToSeqs(eligible)

PlanWaves(w) ==
    /\ At(w, "plan")
    /\ LET eligible == Eligible(Req(w)) IN
       /\ planned' = [planned EXCEPT ![Req(w)] = eligible]
       /\ IF eligible = {}
          THEN Goto(w, [tx[w] EXCEPT !.pc = "unfill"])
          ELSE \E ranked \in Rankings(eligible) :
                 LET waves == SplitIntoWaves(ColdStartFirst(ranked, Cold(eligible)), WaveSizes)
                 IN  Goto(w, [tx[w] EXCEPT !.pc = "offer",
                                           !.todo = waves[1],
                                           !.out = {AdvanceJob(Req(w), 2, Tail(waves), tx[w].job.att)}])
    /\ UNCHANGED <<dbVars, queueVars, worldVars, locks, doubtful, bounds>>

\* uq_offer_request_provider: the INSERT of a second offer of a request to a
\* provider raises in session.flush(), which nothing catches.
RefuseOffer(w) ==
    /\ At(w, "offer")
    /\ offer[Req(w)][Head(tx[w].todo)] # NoOffer
    /\ RollBack(w)
    /\ UNCHANGED <<dbVars, lost, worldVars, history, bounds>>

\* INSERT of the offer, then _send_offer. Buttons need an open contact
\* window; outside it a template without buttons is sent. When sending
\* raises, the offer is marked failed and the wave goes on.
SendOffer(w) ==
    LET p == Head(tx[w].todo)
        Sent(st) ==
            Goto(w, [tx[w] EXCEPT !.offers[p] = st,
                                  !.todo = Tail(@),
                                  !.pc = IF Len(tx[w].todo) = 1 THEN "commit" ELSE @])
    IN  /\ At(w, "offer")
        /\ offer[Req(w)][p] = NoOffer
        /\ Acquire(w)
        /\ \/ /\ Sent("sent")
              /\ buttons' = buttons \cup
                   {[req |-> Req(w), prov |-> p, id |-> OfferId(tx[w].job)]}
              /\ UNCHANGED faults
           \/ p \in Distant /\ Sent("sent") /\ UNCHANGED <<buttons, faults>>
           \/ /\ faults < MaxFaults
              /\ faults' = faults + 1
              /\ Sent("failed")
              /\ UNCHANGED buttons
        /\ UNCHANGED <<dbVars, queueVars, contacts, history, crashes, taps>>

\* request.state = unfilled, flushed before the customer is told.
Unfill(w) ==
    /\ At(w, "unfill")
    /\ Acquire(w)
    /\ Goto(w, [tx[w] EXCEPT !.request = "unfilled", !.pc = "commit"])
    /\ UNCHANGED <<dbVars, queueVars, worldVars, history, bounds>>

-----------------------------------------------------------------------------
(* advance_wave_handler                                                    *)

\* Mutant: no timeout job follows the next wave.
AfterExpiryWithoutTimeout(t) ==
    IF t.job.rest = <<>>
    THEN [t EXCEPT !.pc = "unfill"]
    ELSE [t EXCEPT !.pc = "offer", !.todo = Head(t.job.rest)]

\* Mutant: the last wave is left out.
AfterExpiryTooSoon(t) ==
    IF Len(t.job.rest) <= 1
    THEN [t EXCEPT !.pc = "unfill"]
    ELSE [t EXCEPT !.pc = "offer",
                   !.todo = Head(t.job.rest),
                   !.out = {AdvanceJob(t.job.req, t.job.wave + 1, Tail(t.job.rest), t.job.n)}]

\* The next wave and its timeout, or unfilled when there is none.
AfterExpiry(t) ==
    IF t.job.rest = <<>>
    THEN [t EXCEPT !.pc = "unfill"]
    ELSE [t EXCEPT !.pc = "offer",
                   !.todo = Head(t.job.rest),
                   !.out = {AdvanceJob(t.job.req, t.job.wave + 1, Tail(t.job.rest), t.job.n)}]

CurrentWave(j) == j.wave        \* mutant: off by one
PrevWave(j) == j.wave - 1

\* SELECT the offers of the previous wave that are still unanswered.
CollectUnanswered(w) ==
    /\ At(w, "collect")
    /\ LET r == Req(w)
           open == {p \in Providers : /\ offer[r][p].st = "sent"
                                      /\ WaveOf(offer[r][p].id) = PrevWave(tx[w].job)}
       IN  IF open = {}
           THEN Goto(w, AfterExpiry(tx[w]))
           ELSE \E todo \in SetToSeqs(open) :
                  Goto(w, [tx[w] EXCEPT !.pc = "expire", !.todo = todo])
    /\ UNCHANGED <<dbVars, queueVars, worldVars, locks, history, bounds>>

\* UPDATE offer SET state = 'expired' WHERE id = ...: one row after the
\* other, in the first flush. Then the same offers again, for auto-OFF.
ExpireOffer(w) ==
    LET p == Head(tx[w].todo)
        t == [tx[w] EXCEPT !.offers[p] = "expired"]
    IN  /\ At(w, "expire")
        /\ Acquire(w)
        /\ IF Len(t.todo) > 1
           THEN Goto(w, [t EXCEPT !.todo = Tail(@)])
           ELSE \E todo \in SetToSeqs({x \in Providers : t.offers[x] = "expired"}) :
                  Goto(w, [t EXCEPT !.todo = todo, !.pc = "count"])
        /\ UNCHANGED <<dbVars, queueVars, worldVars, history, bounds>>

\* session.get(Provider): the counter is read here and written later.
CountUnanswered(w) ==
    /\ At(w, "count")
    /\ Goto(w, [tx[w] EXCEPT !.seen = Seen(Head(tx[w].todo)), !.pc = "bump"])
    /\ UNCHANGED <<dbVars, queueVars, worldVars, locks, history, bounds>>

\* _handle_auto_off: += 1, and OFF at the threshold, with a notice.
BumpUnanswered(w) ==
    LET p == Head(tx[w].todo)
        n == tx[w].seen.unanswered + 1
        off == n >= AutoOffThreshold /\ tx[w].seen.available
        t == [tx[w] EXCEPT !.unanswered[p] = n,
                           !.available[p] = IF off THEN "off" ELSE @,
                           !.todo = Tail(@),
                           !.pc = "count"]
    IN  /\ At(w, "bump")
        /\ Acquire(w)
        /\ Goto(w, IF t.todo = <<>> THEN AfterExpiry(t) ELSE t)
        /\ UNCHANGED <<dbVars, queueVars, worldVars, history, bounds>>

-----------------------------------------------------------------------------
(* handle_accept and accept_offer                                          *)

\* session.get(Offer, with_for_update=True). An offer that is not there (its
\* transaction rolled back, or has not committed) raises OfferNotFound, which
\* handle_accept does not catch.
LockOffer(w) ==
    LET o == offer[Req(w)][Prov(w)]
        there == o # NoOffer /\ o.id = tx[w].job.id
    IN  /\ At(w, "lockOffer")
        /\ IF there
           THEN /\ Acquire(w)
                /\ Goto(w, [tx[w] EXCEPT !.pc = IF o.st = "sent" THEN "lockRequest" ELSE "commit"])
                /\ UNCHANGED <<jobs, dead>>
           ELSE RollBack(w)
        /\ UNCHANGED <<dbVars, lost, worldVars, history, bounds>>

AcceptableAlways(r) == TRUE     \* mutant: the state is not looked at
Acceptable(r) == request[r] = "dispatching"

\* session.get(ServiceRequest, with_for_update=True). When it is no longer
\* dispatching the provider is told that the job is taken.
LockRequest(w) ==
    /\ At(w, "lockRequest")
    /\ Acquire(w)
    /\ Goto(w, [tx[w] EXCEPT !.pc = IF Acceptable(Req(w)) THEN "charge" ELSE "commit"])
    /\ UNCHANGED <<dbVars, queueVars, worldVars, history, bounds>>

CanPay(p) == balance[p] >= 1
KeepsDispatching(r) == Keep     \* mutant: the request is left as it was
AcceptedRequest(r) == "assigned"

\* The balance is read without a lock of its own. The debit, the assignment
\* and the two states are flushed before the UPDATE of the other offers,
\* which takes the rows its snapshot shows as queued or sent.
Charge(w) ==
    LET r == Req(w)
        p == Prov(w)
        others == {q \in Providers \ {p} : offer[r][q].st = "sent"}
    IN  /\ At(w, "charge")
        /\ IF ~ CanPay(p)
           THEN Goto(w, [tx[w] EXCEPT !.pc = "commit"])
           ELSE \E todo \in SetToSeqs(others) :
                  Goto(w, [tx[w] EXCEPT
                      !.charge = TRUE,
                      !.offers[p] = "accepted",
                      !.request = AcceptedRequest(r),
                      !.todo = todo,
                      !.out = {NoticeJob("release", r, p), NoticeJob("notify", r, NoProvider)}
                              \cup (IF balance[p] - 1 <= LowBalance
                                    THEN {NoticeJob("warn", r, p)} ELSE {}),
                      !.pc = IF others = {} THEN "reset" ELSE "withdraw"])
        /\ UNCHANGED <<dbVars, queueVars, worldVars, locks, history, bounds>>

Withdrawable(o) == o.st = "sent"

\* The UPDATE looks at each row again once it has its lock.
WithdrawOffer(w) ==
    LET q == Head(tx[w].todo)
        open == Withdrawable(offer[Req(w)][q])
    IN  /\ At(w, "withdraw")
        /\ Acquire(w)
        /\ Goto(w, [tx[w] EXCEPT !.offers[q] = IF open THEN "withdrawn" ELSE @,
                                 !.todo = Tail(@),
                                 !.pc = IF Len(tx[w].todo) = 1 THEN "reset" ELSE @])
        /\ UNCHANGED <<dbVars, queueVars, worldVars, history, bounds>>

ThenRelease(j) == IF j.kind = "decline" THEN "decline" ELSE "provider"  \* mutant
AfterReset(j) == IF j.kind = "decline" THEN "decline" ELSE "commit"

\* consecutive_unanswered = 0, written only when another value was loaded;
\* flushed before the reply is sent. Shared by accept and decline.
ResetUnanswered(w) ==
    LET p == Prov(w) IN
    /\ At(w, "reset")
    /\ Acquire(w)
    /\ Goto(w, [tx[w] EXCEPT
           !.unanswered[p] = IF tx[w].seen.unanswered = 0 THEN @ ELSE 0,
           !.pc = AfterReset(tx[w].job)])
    /\ UNCHANGED <<dbVars, queueVars, worldVars, history, bounds>>

-----------------------------------------------------------------------------
(* handle_decline, release_contacts and the availability commands          *)

\* The offer was sent when it was read; it is declined whatever it is now.
DeclineOffer(w) ==
    /\ At(w, "decline")
    /\ Acquire(w)
    /\ Goto(w, [tx[w] EXCEPT !.offers[Prov(w)] = "declined", !.pc = "commit"])
    /\ UNCHANGED <<dbVars, queueVars, worldVars, history, bounds>>

\* release_contacts: the customer's details go to the provider first. Outside
\* the recipient's contact window send_outbound sends a template without them.
Delivered(c, recipient) ==
    \/ contacts' = contacts \cup {c}
    \/ recipient \in Distant /\ UNCHANGED contacts

\* Mutant: the customer is never told.
ReleaseToProviderOnly(w) ==
    /\ At(w, "provider")
    /\ Delivered(<<Req(w), Prov(w), "provider">>, Prov(w))
    /\ Goto(w, [tx[w] EXCEPT !.pc = "commit"])
    /\ UNCHANGED <<dbVars, queueVars, buttons, locks, history, bounds>>

ReleaseToProvider(w) ==
    /\ At(w, "provider")
    /\ Delivered(<<Req(w), Prov(w), "provider">>, Prov(w))
    /\ Goto(w, [tx[w] EXCEPT !.pc = "customer"])
    /\ UNCHANGED <<dbVars, queueVars, buttons, locks, history, bounds>>

ReleaseToCustomer(w) ==
    /\ At(w, "customer")
    /\ Delivered(<<Req(w), Prov(w), "customer">>, Req(w))
    /\ Goto(w, [tx[w] EXCEPT !.pc = "commit"])
    /\ UNCHANGED <<dbVars, queueVars, buttons, locks, history, bounds>>

StillCounted(on, counted) == Unset      \* mutant: AVAILABLE leaves the counter
Forgotten(on, counted) == IF on /\ counted # 0 THEN 0 ELSE Unset

\* AVAILABLE also forgets the unanswered offers, OFF does not.
ToggleAvailable(w) ==
    LET p == Prov(w)
        on == tx[w].job.kind = "available"
    IN  /\ At(w, "toggle")
        /\ Acquire(w)
        /\ Goto(w, [tx[w] EXCEPT
               !.available[p] = IF on = tx[w].seen.available THEN Keep
                                ELSE IF on THEN "on" ELSE "off",
               !.unanswered[p] = Forgotten(on, tx[w].seen.unanswered),
               !.pc = "commit"])
        /\ UNCHANGED <<dbVars, queueVars, worldVars, history, bounds>>

-----------------------------------------------------------------------------
(* Free credits                                                            *)

\* grant_activation_credits. It does not ask whether it ran before.
GrantFree(w) ==
    /\ At(w, "grant")
    /\ Goto(w, [tx[w] EXCEPT !.entry = FreeCap, !.pc = "commit"])
    /\ UNCHANGED <<dbVars, queueVars, worldVars, locks, history, bounds>>

\* remove_free_credits: get_free_credit_remainder, which knows of no debits, ...
CountFree(w) ==
    LET n == free[Prov(w)] IN
    /\ At(w, "remainder")
    /\ Goto(w, [tx[w] EXCEPT !.remainder = n, !.pc = IF n > 0 THEN "adjust" ELSE "commit"])
    /\ UNCHANGED <<dbVars, queueVars, worldVars, locks, history, bounds>>

RemovableAll(p, remainder) == remainder     \* mutant: the balance is not asked
Removable(p, remainder) == IF balance[p] < remainder THEN balance[p] ELSE remainder

\* ... then get_provider_balance, the adjustment and the message.
AdjustFree(w) ==
    LET n == Removable(Prov(w), tx[w].remainder) IN
    /\ At(w, "adjust")
    /\ Goto(w, [tx[w] EXCEPT !.entry = IF n > 0 THEN - n ELSE 0, !.pc = "commit"])
    /\ UNCHANGED <<dbVars, queueVars, worldVars, locks, history, bounds>>

-----------------------------------------------------------------------------
(* The providers                                                           *)

Arrive(j) ==
    /\ taps < MaxTaps
    /\ taps' = taps + 1
    /\ jobs' = jobs \cup {j}
    /\ UNCHANGED <<dbVars, dead, lost, worldVars, tx, locks, history, faults, crashes>>

Tap(b, kind) == b \in buttons /\ Arrive(TapJob(kind, b, taps + 1))
Command(p, kind) == Arrive(CommandJob(kind, p, taps + 1))
Commands == {"available", "off", "grant", "remove"}

-----------------------------------------------------------------------------
Init ==
    /\ request = [r \in Requests |-> "dispatching"]
    /\ offer = [r \in Requests |-> [p \in Providers |-> NoOffer]]
    /\ assigned = {}
    /\ debits = [r \in Requests |-> [p \in Providers |-> 0]]
    /\ balance = Credits
    /\ free = Credits
    /\ unanswered = [p \in Providers |-> 0]
    /\ available = Providers
    /\ jobs = {DispatchJob(r) : r \in Requests}
    /\ dead = {}
    /\ lost = {}
    /\ buttons = {}
    /\ contacts = {}
    /\ tx = [w \in Workers |-> Idle]
    /\ locks = {}
    /\ planned = [r \in Requests |-> {}]
    /\ doubtful = {}
    /\ faults = 0
    /\ crashes = 0
    /\ taps = 0

Step(w) ==
    \/ \E j \in jobs : Claim(w, j)
    \/ Commit(w)
    \/ BreakDeadlock(w)
    \/ PlanWaves(w)
    \/ RefuseOffer(w)
    \/ SendOffer(w)
    \/ Unfill(w)
    \/ CollectUnanswered(w)
    \/ ExpireOffer(w)
    \/ CountUnanswered(w)
    \/ BumpUnanswered(w)
    \/ LockOffer(w)
    \/ LockRequest(w)
    \/ Charge(w)
    \/ WithdrawOffer(w)
    \/ ResetUnanswered(w)
    \/ DeclineOffer(w)
    \/ ReleaseToProvider(w)
    \/ ReleaseToCustomer(w)
    \/ ToggleAvailable(w)
    \/ GrantFree(w)
    \/ CountFree(w)
    \/ AdjustFree(w)

Next ==
    \/ \E w \in Workers : Step(w) \/ Fault(w) \/ LoseAck(w) \/ Crash(w)
    \/ \E b \in buttons, kind \in {"accept", "decline"} : Tap(b, kind)
    \/ \E p \in Providers, kind \in Commands : Command(p, kind)

\* A worker that can go on goes on; nothing obliges a provider to answer, a
\* send to fail or a process to die. Only finitely many jobs are ever
\* enqueued, so a job that is pending is claimed in the end.
Spec == Init /\ [][Next]_vars
FairSpec == Spec /\ \A w \in Workers : WF_vars(Step(w))

-----------------------------------------------------------------------------
(* Properties that hold for any number of workers                          *)

Kinds == {"none", "dispatch", "advance", "accept", "decline", "release",
          "notify", "warn", "available", "off", "grant", "remove"}

Steps == {"idle", "plan", "offer", "unfill", "collect", "expire", "count",
          "bump", "lockOffer", "lockRequest", "charge", "withdraw", "reset",
          "decline", "provider", "customer", "toggle", "grant", "remainder",
          "adjust", "commit"}

Ids == Nat \X Nat \X Nat

JobType ==
    [kind : Kinds, req : Requests \cup {NoRequest},
     prov : Providers \cup {NoProvider}, id : Ids, wave : Nat,
     rest : Seq(Seq(Providers)), n : Nat, att : Nat]

TxType ==
    [pc : Steps, job : JobType, todo : Seq(Providers),
     request : {Keep} \cup RequestStates,
     offers : [Providers -> {Keep} \cup OfferStates],
     unanswered : [Providers -> Nat \cup {Unset}],
     available : [Providers -> {Keep, "on", "off"}],
     charge : BOOLEAN, remainder : Int, entry : Int,
     out : SUBSET JobType,
     seen : [unanswered : Nat, available : BOOLEAN]]

Rows ==
    ({"request"} \X Requests) \cup ({"provider"} \X Providers) \cup
    ({"offer", "newOffer"} \X Requests \X Providers)

\* The types of the tables (models/), of the jobs and of the transactions.
TypeOK ==
    /\ request \in [Requests -> RequestStates]
    /\ offer \in [Requests -> [Providers -> [st : OfferStates, id : Ids]]]
    /\ assigned \subseteq Requests \X Providers
    /\ debits \in [Requests -> [Providers -> Nat]]
    /\ {balance, free} \subseteq [Providers -> Int]
    /\ unanswered \in [Providers -> Nat]
    /\ available \subseteq Providers
    /\ \A j \in jobs \cup dead \cup lost : j \in JobType
    /\ \A b \in buttons : b \in [req : Requests, prov : Providers, id : Ids]
    /\ contacts \subseteq Requests \X Providers \X {"provider", "customer"}
    /\ tx \in [Workers -> TxType]
    /\ \A l \in locks : l \in [by : Workers, row : Rows, mode : {"update", "write", "share"}]
    /\ planned \in [Requests -> SUBSET Providers]
    /\ doubtful \subseteq Requests
    /\ faults \in Nat /\ crashes \in Nat /\ taps \in Nat

\* However many workers run accepts, retries and wave timeouts at once, a
\* request is assigned to at most one provider, that provider is debited once
\* for it and nobody else is debited at all (FR-ACC-02). The database's
\* unique constraint on assignment.request_id is never what prevents it.
OneMatchOneDebit ==
    \A r \in Requests, p \in Providers :
        /\ debits[r][p] = IF <<r, p>> \in assigned THEN 1 ELSE 0
        /\ <<r, p>> \in assigned =>
               \A q \in Providers : <<r, q>> \in assigned => q = p

\* Nobody gets contact details but the two who are matched, and only once the
\* match and its debit are committed (FR-ACC-03, FR-ACC-04).
ContactsOnlyToMatched ==
    \A c \in contacts : <<c[1], c[2]>> \in assigned

\* What makes OneMatchOneDebit inductive: who is about to charge a provider
\* holds the request's row FOR UPDATE, and no lock admits a conflicting one,
\* so the state it found is still there when it commits; and whoever is about
\* to write the request's state holds its row as well.
RequestLock(w, mode) == [by |-> w, row |-> <<"request", Req(w)>>, mode |-> mode]

LocksExclusive ==
    \A k, l \in locks : k.row = l.row /\ k.by # l.by => Compatible(k.mode, l.mode)

ChargeUnderLock ==
    \A w \in Workers :
        /\ At(w, "charge") \/ tx[w].charge =>
               /\ RequestLock(w, "update") \in locks
               /\ Req(w) \in Requests => request[Req(w)] = "dispatching"
        /\ tx[w].charge =>
               /\ tx[w].request = "assigned"
               /\ tx[w].pc \in {"withdraw", "reset", "decline", "commit"}

WriteUnderLock ==
    \A w \in Workers : tx[w].request # Keep =>
        /\ tx[w].request \in {"assigned", "unfilled"}
        /\ \/ RequestLock(w, "update") \in locks
           \/ RequestLock(w, "write") \in locks

MatchedNotDispatching ==
    \A r \in Requests, p \in Providers :
        <<r, p>> \in assigned => request[r] # "dispatching"

AcceptanceInv ==
    /\ OneMatchOneDebit
    /\ MatchedNotDispatching
    /\ LocksExclusive
    /\ ChargeUnderLock
    /\ WriteUnderLock

\* A request in dispatch is driven by exactly one job, a dispatch or the
\* timeout of its current wave, which is pending, run by one worker, or left as
\* dead or claimed where an operator finds it: no failure, retry, death or race
\* with an acceptance forks the chain of waves. What does is a COMMIT of such a
\* job that goes unanswered; but not even that leaves the request without one.
OneDriver ==
    \A r \in Requests : request[r] = "dispatching" =>
        LET waiting == {j \in jobs \cup dead \cup lost : Drives(j, r)}
            running == {w \in Workers : Drives(tx[w].job, r)}
        IN  /\ waiting # {} \/ running # {}
            /\ r \notin doubtful => Cardinality(waiting) + Cardinality(running) = 1

\* Whoever the waves were planned for is asked before the request is given up
\* (FR-DSP-03, FR-DSP-08), over all the jobs of the chain, unless it was forked.
NobodySkipped ==
    \A r \in Requests \ doubtful : request[r] = "unfilled" =>
        \A p \in planned[r] : offer[r][p] # NoOffer

-----------------------------------------------------------------------------
(* Properties of the deployment with one worker process                    *)

\* The three tables agree on who has the job: a request is assigned if and
\* only if it has an assignment, whose offer is the only accepted one. And no
\* provider is left with an open offer of a request that is over, which would
\* be a promise the system cannot keep, unless its chain of waves was forked.
TablesAgree ==
    \A r \in Requests :
        /\ request[r] = "assigned" <=> \E p \in Providers : <<r, p>> \in assigned
        /\ \A p \in Providers :
               /\ offer[r][p].st = "accepted" <=> <<r, p>> \in assigned
               /\ offer[r][p].st = "sent" => request[r] = "dispatching" \/ r \in doubtful

\* "Jobs MUST be safe to run twice" (NFR-COR-03): then no offer would outlive
\* its request, however often a job that has committed is run again.
NoOfferOutlives ==
    \A r \in Requests, p \in Providers :
        offer[r][p].st = "sent" => request[r] = "dispatching"

\* A balance is never negative, whatever is accepted, given and taken back in
\* between, and no more is taken back than was given (FR-LED-04, FR-FRE-02).
BalanceNeverNegative == \A p \in Providers : balance[p] >= 0 /\ free[p] >= 0

\* Auto-OFF holds: whoever has left as many offers in a row unanswered as the
\* threshold is OFF, until he answers one or says AVAILABLE (FR-PRV-06).
AutoOffHolds == \A p \in available : unanswered[p] < AutoOffThreshold

\* Requests and offers take only the transitions transitions.py lists
\* (requirements.md, sections 4.1 and 4.2): an offer that was answered, expired
\* or withdrawn stays so, and a request is not reopened.
ValidRequestStep(old, new) ==
    old = new \/ <<old, new>> \in {<<"dispatching", "assigned">>,
                                   <<"dispatching", "unfilled">>,
                                   <<"unfilled", "assigned">>}
ValidOfferStep(old, new) == old = new \/ old = "sent" \/ old = "none"

TransitionsValid ==
    [][\A r \in Requests :
          /\ ValidRequestStep(request[r], request'[r])
          /\ \A p \in Providers : ValidOfferStep(offer[r][p].st, offer'[r][p].st)]_vars

\* Both sides of a match get the other's details (FR-ACC-03), as long as they
\* are within their contact windows.
MatchedAreIntroduced ==
    \A r \in Requests, p \in Providers :
        (<<r, p>> \in assigned) ~>
            /\ p \in Distant \/ <<r, p, "provider">> \in contacts
            /\ r \in Distant \/ <<r, p, "customer">> \in contacts

\* Dispatch seen by customers and providers: see Introduction.
Outcome(r) ==
    CASE request[r] = "dispatching" -> "open"
      [] request[r] = "assigned"    -> "matched"
      [] OTHER                      -> "unmatched"

Abstract == INSTANCE Introduction
    WITH outcome <- [r \in Requests |-> Outcome(r)], match <- assigned

\* Waves, taps, retries and row locks implement the one-step match, and a
\* request that is dispatched ends up assigned or unfilled (FR-DSP-08), unless
\* its chain of waves was forked.
ImplementsIntroduction == Abstract!FairSpec

=============================================================================
