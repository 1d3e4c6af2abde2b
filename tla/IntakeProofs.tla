---------------------------- MODULE IntakeProofs ----------------------------
(***************************************************************************)
(* Proofs about Intake, for any workers, messages, caps, failures and      *)
(* deaths: a customer has one open request, a confirmed one is dispatched  *)
(* once, the cap on model calls is overrun by a bounded number of calls,   *)
(* and the model is asked during intake only. Then the types of all of it, *)
(* and the transitions of a request, as long as the expirer does not run   *)
(* beside another worker.                                                  *)
(*                                                                         *)
(* Nothing locks a request. The argument is that whoever is about one, or  *)
(* has calls to log, holds the customer's contact_window row to his commit *)
(* (Handling): what he read of requests, jobs and the log stays true, as   *)
(* the others who do not hold it (the expirer, dispatch) only close        *)
(* requests (UndisturbedHandling).                                         *)
(***************************************************************************)
EXTENDS Intake, FiniteSetTheorems, WellFoundedInduction, TLAPS

USE IntakeAssumption

-----------------------------------------------------------------------------
(* The inductive invariant                                                 *)

Fields == {"pc", "job", "req", "state", "conv", "messages", "reply", "logs", "expire"}

Typed ==
    /\ tx = [w \in Workers |-> tx[w]]
    /\ \A w \in Workers : DOMAIN tx[w] = Fields /\ tx[w].logs \in 0 .. 2
    /\ request = [r \in Requests |-> request[r]]
    /\ dispatches \in [Requests -> Nat]
    /\ logged \in Nat /\ calls \in Nat /\ faults \in Nat /\ crashes \in Nat
    /\ sent \in Nat

\* OneOpenRequest, without counting.
NoTwoOpen ==
    \A r, q \in Requests :
        request[r] \in OpenStates /\ request[q] \in OpenStates => r = q

\* What the state of a request says about its job, and what the customer saw.
Rows ==
    \A r \in Requests :
        /\ request[r] \in {"none", "collecting", "awaiting_confirmation"} => dispatches[r] = 0
        /\ request[r] \in {"dispatching", "assigned", "unfilled"} => dispatches[r] = 1
        /\ dispatches[r] <= 1
        /\ dispatches[r] > 0 \/ request[r] = "awaiting_confirmation" =>
              Tap("confirm_yes", r) \in buttons

\* What transaction t of worker w may rely on, as it holds the window.
Handling(w, t) ==
    /\ t.pc \in {"read", "ask", "reply"} \/ t.req # 0 \/ t.logs # 0 => window = w
    /\ t.req # 0 => \A q \in Requests \ {t.req} : request[q] \notin OpenStates
    /\ t.pc \in {"idle", "window", "read", "select"} => t.req = 0 /\ t.logs = 0
    /\ t.req = 0 => t.state = Keep
    /\ t.state \in {Keep, "collecting", "awaiting_confirmation", "dispatching", "cancelled"}
    /\ t.state # Keep => t.req \in Requests /\ dispatches[t.req] = 0
    /\ t.state = "dispatching" => Tap("confirm_yes", t.req) \in buttons
    /\ t.state = "awaiting_confirmation" =>
          \/ t.pc = "reply" /\ t.reply = "confirm"
          \/ t.pc = "commit" /\ Tap("confirm_yes", t.req) \in buttons
    /\ t.pc = "ask" =>
          /\ logged < ModelCap /\ t.logs = 0
          /\ t.req \in Requests /\ dispatches[t.req] = 0
          /\ request[t.req] \notin {"dispatching", "assigned"}
          /\ t.state \in {Keep, "collecting"}
    /\ t.logs # 0 => logged + t.logs <= ModelCap + 1

\* The calls whose log is not committed yet.
Unlogged == IF window = Nobody THEN 0 ELSE tx[window].logs

Budget ==
    /\ logged <= ModelCap + 1
    /\ calls <= logged + Unlogged + 2 * (faults + crashes)

Inv ==
    /\ Typed
    /\ NoTwoOpen /\ Rows /\ Budget
    /\ window \in Workers \cup {Nobody}
    /\ \A w \in Workers : Handling(w, tx[w])

-----------------------------------------------------------------------------
(* The open request and the new one                                        *)

LEMMA Smallest ==
    ASSUME NEW S, S \subseteq Nat, S # {}
    PROVE  \E m \in S : \A n \in S : m <= n
<1>1. PICK m \in S : \A n \in S : ~ (<<n, m>> \in OpToRel(<, Nat))
  BY WFMin, NatLessThanWellFounded
<1>2. OpToRel(<, Nat) = {ss \in Nat \X Nat : ss[1] < ss[2]}
  BY DEF OpToRel
<1>3. ASSUME NEW n \in S PROVE m <= n
  <2>1. ~ (n < m)
    BY <1>1, <1>2
  <2> QED
    BY <2>1
<1> QED
  BY <1>3

LEMMA RequestsNat == 0 \notin Requests /\ Requests \subseteq Nat
BY DEF Requests

LEMMA OnlyOpen ==
    ASSUME NoTwoOpen
    PROVE  /\ \A q \in Requests : request[q] \in OpenStates => q = OpenRequest
           /\ OpenRequest # 0 => OpenRequest \in Requests /\ request[OpenRequest] \in OpenStates
           /\ OpenRequest = 0 => \A q \in Requests : request[q] \notin OpenStates
<1> DEFINE open == {r \in Requests : request[r] \in OpenStates}
<1>1. CASE open = {}
  BY <1>1 DEF OpenRequest
<1>2. ASSUME NEW r \in open PROVE OpenRequest = r
  <2>1. open = {r}
    BY <1>2 DEF NoTwoOpen
  <2>2. r <= r
    BY <1>2, RequestsNat
  <2> QED
    BY <2>1, <2>2 DEF OpenRequest
<1> QED
  BY <1>1, <1>2, RequestsNat

LEMMA NewRequest ==
    ASSUME Inv, NEW w \in Workers, tx[w].pc = "read", OpenRequest = 0,
           Cardinality(Existing) < DailyRequests
    PROVE  /\ OpenOrNew(w).req \in Requests
           /\ request[OpenOrNew(w).req] = "none"
<1> DEFINE drawn == Existing \cup {tx[v].req : v \in Workers}
           new == CHOOSE r \in Requests \ drawn : \A q \in Requests \ drawn : r <= q
<1>1. \A v \in Workers : tx[v].req = 0
  BY DEF Inv, Handling
<1>2. Requests \ drawn = Requests \ Existing
  BY <1>1, RequestsNat
<1>3. Requests \ Existing # {}
  <2>1. Cardinality(Requests) = DailyRequests
    <3>1. DailyRequests \in Nat \ {0}
      BY DEF IntakeAssumption
    <3>2. 1 \in Int /\ DailyRequests \in Int /\ ~ (1 > DailyRequests) /\ DailyRequests - 1 + 1 = DailyRequests
      BY <3>1
    <3> HIDE IntakeAssumption
    <3> QED
      BY <3>1, <3>2, FS_Interval DEF Requests
  <2>2. Existing \subseteq Requests
    BY DEF Existing
  <2> QED
    BY <2>1, <2>2
<1>4. \E r \in Requests \ drawn : \A q \in Requests \ drawn : r <= q
  BY <1>2, <1>3, RequestsNat, Smallest
<1>5. new \in Requests \ Existing
  BY <1>2, <1>4
<1>6. OpenOrNew(w) = [tx[w] EXCEPT !.req = new, !.state = "collecting"]
  BY DEF OpenOrNew
<1>7. OpenOrNew(w).req = new
  BY <1>6 DEF Inv, Typed, Fields
<1> QED
  BY <1>5, <1>7 DEF Existing

\* The request a message is about, at the step that reads it.
LEMMA ReadRequest ==
    ASSUME Inv, NEW w \in Workers, Admitted(w)
    PROVE  LET t == OpenOrNew(w) IN
           /\ DOMAIN t = Fields /\ t.logs = 0 /\ t.pc = "read"
           /\ t.req \in Requests /\ dispatches[t.req] = 0
           /\ request[t.req] \in {"none", "collecting"}
           /\ t.state \in {Keep, "collecting"}
           /\ \A q \in Requests \ {t.req} : request[q] \notin OpenStates
<1>1. tx[w].pc = "read" /\ Handling(w, tx[w]) /\ DOMAIN tx[w] = Fields
  BY DEF Admitted, Collecting, At, Inv, Typed
<1>2. tx[w].req = 0 /\ tx[w].logs = 0 /\ tx[w].state = Keep
  BY <1>1 DEF Handling
<1>3. CASE OpenRequest = 0
  <2>1. OpenOrNew(w).req \in Requests /\ request[OpenOrNew(w).req] = "none"
    BY <1>1, <1>3, NewRequest DEF Admitted
  <2>2. \A q \in Requests : request[q] \notin OpenStates
    BY <1>3, OnlyOpen DEF Inv
  <2>3. LET t == OpenOrNew(w) IN
        DOMAIN t = Fields /\ t.logs = 0 /\ t.pc = "read" /\ t.state = "collecting"
    BY <1>1, <1>2, <1>3 DEF OpenOrNew, Fields
  <2> QED
    BY <2>1, <2>2, <2>3 DEF Inv, Rows
<1>4. CASE OpenRequest # 0
  <2>1. LET t == OpenOrNew(w) IN
        /\ DOMAIN t = Fields /\ t.logs = 0 /\ t.pc = "read" /\ t.state = Keep
        /\ t.req = OpenRequest
    BY <1>1, <1>2, <1>4 DEF OpenOrNew, Fields
  <2>2. /\ OpenRequest \in Requests /\ request[OpenRequest] = "collecting"
        /\ \A q \in Requests \ {OpenRequest} : request[q] \notin OpenStates
    BY <1>4, OnlyOpen DEF Inv, Admitted, Collecting, OpenState, BeyondIntake, Awaiting, OpenStates
  <2> QED
    BY <2>1, <2>2 DEF Inv, Rows
<1> QED
  BY <1>3, <1>4

-----------------------------------------------------------------------------
(* What a step of somebody else leaves a worker to rely on                 *)

Undisturbed(v) ==
    /\ tx'[v] = tx[v]
    /\ buttons \subseteq buttons'
    /\ window = v =>
          /\ window' = v /\ logged' = logged /\ dispatches' = dispatches
          /\ \A q \in Requests :
                /\ request'[q] \in OpenStates => request[q] \in OpenStates
                /\ request'[q] \in {"dispatching", "assigned"} =>
                      request[q] \in {"dispatching", "assigned"}

LEMMA UndisturbedHandling ==
    ASSUME NEW v \in Workers, Handling(v, tx[v]), Undisturbed(v)
    PROVE  Handling(v, tx[v])'
<1>1. tx'[v] = tx[v] /\ Tap("confirm_yes", tx[v].req)' = Tap("confirm_yes", tx[v].req)
  BY DEF Undisturbed, Tap
<1>2. CASE window = v
  BY <1>1, <1>2 DEF Undisturbed, Handling
<1>3. CASE window # v
  BY <1>1, <1>3 DEF Undisturbed, Handling
<1> QED
  BY <1>2, <1>3

\* A step that leaves a part of the invariant's state alone keeps that part.
LEMMA SameBudget ==
    ASSUME Budget, UNCHANGED <<window, logged, calls, faults, crashes>>,
           \A v \in Workers : tx'[v].logs = tx[v].logs, window \in Workers \cup {Nobody}
    PROVE  Budget'
BY DEF Budget, Unlogged

LEMMA SameRows ==
    ASSUME Rows, UNCHANGED <<request, dispatches>>, buttons \subseteq buttons'
    PROVE  Rows'
<1>1. \A r : Tap("confirm_yes", r)' = Tap("confirm_yes", r)
  BY DEF Tap
<1> QED
  BY <1>1 DEF Rows

\* What a step may leave alone that this argument is about.
tables == <<request, dispatches, logged, calls, faults, crashes, buttons, sent>>

\* A step that moves a worker on and changes nothing but his transaction.
LEMMA QuietStep ==
    ASSUME Inv, NEW w \in Workers, NEW t, Goto(w, t), UNCHANGED <<tables, window>>,
           DOMAIN t = Fields, t.logs = tx[w].logs, Handling(w, t)
    PROVE  Inv'
<1>1. /\ tx' = [v \in Workers |-> tx'[v]]
      /\ tx'[w] = t /\ \A v \in Workers \ {w} : tx'[v] = tx[v]
  BY DEF Goto, Inv, Typed
<1>2. UNCHANGED <<request, dispatches, logged, calls, faults, crashes, buttons, sent, window>>
  BY DEF tables
<1>3. Typed'
  BY <1>1, <1>2 DEF Inv, Typed
<1>4. NoTwoOpen' /\ Rows' /\ Budget' /\ window' \in Workers \cup {Nobody}
  BY <1>1, <1>2, SameRows, SameBudget DEF Inv, NoTwoOpen
<1>5. \A v \in Workers \ {w} : Handling(v, tx[v])'
  BY <1>1, <1>2, UndisturbedHandling DEF Inv, Undisturbed
<1>6. Handling(w, tx[w])'
  <2>1. Tap("confirm_yes", t.req)' = Tap("confirm_yes", t.req)
    BY DEF Tap
  <2> QED
    BY <1>1, <1>2, <2>1 DEF Handling
<1> QED
  BY <1>3, <1>4, <1>5, <1>6 DEF Inv

LEMMA IdleHandling ==
    ASSUME NEW w \in Workers, NEW pc \in {"idle", "window", "select"}, NEW j
    PROVE  LET t == [Idle EXCEPT !.job = j, !.pc = pc] IN
           /\ DOMAIN t = Fields /\ t.logs = 0 /\ Handling(w, t)
           /\ DOMAIN Idle = Fields /\ Idle.logs = 0 /\ Handling(w, Idle)
<1> DEFINE t == [Idle EXCEPT !.job = j, !.pc = pc]
<1>1. DOMAIN t = Fields /\ t.logs = 0 /\ t.pc = pc /\ t.req = 0 /\ t.state = Keep
  BY DEF Idle, Fields
<1>2. DOMAIN Idle = Fields /\ Idle.logs = 0 /\ Idle.pc = "idle" /\ Idle.req = 0 /\ Idle.state = Keep
  BY DEF Idle, Fields
<1> HIDE DEF t
<1>3. Handling(w, t)
  BY <1>1 DEF Handling, Keep
<1>4. Handling(w, Idle)
  BY <1>2 DEF Handling, Keep
<1> QED
  BY <1>1, <1>2, <1>3, <1>4 DEF t

LEMMA InitInv == ASSUME Init PROVE Inv
<1>1. /\ tx = [w \in Workers |-> Idle]
      /\ \A w \in Workers : DOMAIN Idle = Fields /\ Idle.logs = 0 /\ Handling(w, Idle)
  BY IdleHandling DEF Init
<1>2. Typed
  BY <1>1 DEF Init, Typed
<1>3. NoTwoOpen /\ Rows
  BY DEF Init, NoTwoOpen, OpenStates, Rows
<1>4. Budget
  BY DEF Init, Budget, Unlogged
<1>5. \A w \in Workers : Handling(w, tx[w])
  BY <1>1
<1> QED
  BY <1>2, <1>3, <1>4, <1>5 DEF Inv, Init

LEMMA ClaimInv ==
    ASSUME Inv, NEW w \in Workers, NEW j \in jobs, Claim(w, j)
    PROVE  Inv'
<1>1. PICK pc \in {"select", "window"} :
          Goto(w, [Idle EXCEPT !.job = [j EXCEPT !.att = @ + 1], !.pc = pc])
  BY DEF Claim
<1>2. tx[w].logs = 0
  BY DEF Claim, At, Inv, Handling
<1> QED
  BY <1>1, <1>2, IdleHandling, QuietStep DEF Claim, dbVars, worldVars, bounds, tables

LEMMA WindowInv ==
    ASSUME Inv, NEW w \in Workers, UpsertWindow(w)
    PROVE  Inv'
<1> DEFINE t == [tx[w] EXCEPT !.pc = "read"]
<1>1. /\ UNCHANGED <<request, dispatches, logged, calls, faults, crashes, buttons, sent>>
      /\ window = Nobody /\ window' = w /\ tx[w].pc = "window" /\ Goto(w, t)
  BY DEF UpsertWindow, dbVars, worldVars, bounds, At
<1>2. /\ tx' = [v \in Workers |-> tx'[v]]
      /\ tx'[w] = t /\ \A v \in Workers \ {w} : tx'[v] = tx[v]
  BY <1>1 DEF Goto, Inv, Typed
<1>3. Handling(w, tx[w]) /\ DOMAIN tx[w] = Fields
  BY DEF Inv, Typed
<1>4. /\ DOMAIN t = Fields /\ t.pc = "read"
      /\ t.logs = 0 /\ t.req = 0 /\ t.state = Keep /\ tx[w].logs = 0
  BY <1>1, <1>3 DEF Handling, Fields
<1> HIDE DEF t
<1>5. Typed'
  BY <1>1, <1>2, <1>4 DEF Inv, Typed
<1>6. NoTwoOpen' /\ Rows' /\ window' \in Workers \cup {Nobody}
  BY <1>1, SameRows DEF Inv, NoTwoOpen
<1>7. Budget'
  BY <1>1, <1>2, <1>4 DEF Inv, Budget, Unlogged
<1>8. \A v \in Workers \ {w} : Handling(v, tx[v])'
  BY <1>1, <1>2, UndisturbedHandling DEF Inv, Undisturbed
<1>9. Handling(w, tx[w])'
  BY <1>1, <1>2, <1>4 DEF Handling, Keep
<1> QED
  BY <1>5, <1>6, <1>7, <1>8, <1>9 DEF Inv

-----------------------------------------------------------------------------
(* The branches                                                            *)

\* Where a transaction stands that has just read.
LEMMA AtRead ==
    ASSUME Inv, NEW w \in Workers, tx[w].pc = "read"
    PROVE  /\ window = w /\ DOMAIN tx[w] = Fields
           /\ tx[w].req = 0 /\ tx[w].logs = 0 /\ tx[w].state = Keep
BY DEF Inv, Typed, Handling

\* A transaction that is about one request, if any, and may go on.
About(t, reply) ==
    /\ DOMAIN t = Fields /\ t.logs = 0
    /\ t.state \in {Keep, "collecting", "awaiting_confirmation", "dispatching", "cancelled"}
    /\ t.req = 0 => t.state = Keep
    /\ t.req # 0 => t.req \in Requests /\ \A q \in Requests \ {t.req} : request[q] \notin OpenStates
    /\ t.state # Keep => dispatches[t.req] = 0
    /\ t.state = "dispatching" => Tap("confirm_yes", t.req) \in buttons
    /\ t.state = "awaiting_confirmation" => reply = "confirm"

LEMMA RespondInv ==
    ASSUME Inv, NEW w \in Workers, tx[w].pc = "read", NEW t, NEW reply,
           About(t, reply), Respond(w, t, reply), UNCHANGED <<tables, window>>
    PROVE  Inv'
<1> DEFINE u == [t EXCEPT !.pc = "reply", !.reply = reply]
<1>1. window = w /\ tx[w].logs = 0
  BY AtRead
<1>2. /\ DOMAIN u = Fields /\ u.pc = "reply" /\ u.reply = reply
      /\ u.logs = 0 /\ u.req = t.req /\ u.state = t.state
  BY DEF About, Fields
<1> HIDE DEF u
<1>3. Handling(w, u)
  BY <1>1, <1>2 DEF About, Handling
<1>4. Goto(w, u)
  BY DEF Respond, u
<1> QED
  BY <1>1, <1>2, <1>3, <1>4, QuietStep

\* The transaction ends without a reply and without a write.
LEMMA IgnoreInv ==
    ASSUME Inv, NEW w \in Workers, tx[w].pc = "read",
           Goto(w, [tx[w] EXCEPT !.pc = "commit"]), UNCHANGED <<tables, window>>
    PROVE  Inv'
<1> DEFINE u == [tx[w] EXCEPT !.pc = "commit"]
<1>1. /\ DOMAIN u = Fields /\ u.pc = "commit" /\ u.logs = 0 /\ u.req = 0 /\ u.state = Keep
      /\ tx[w].logs = 0
  BY AtRead DEF Fields
<1> HIDE DEF u
<1>2. Handling(w, u)
  BY <1>1 DEF Handling, Keep
<1> QED
  BY <1>1, <1>2, QuietStep DEF u

LEMMA ReadUnchanged ==
    ASSUME UNCHANGED <<dbVars, window, worldVars, bounds>>
    PROVE  UNCHANGED <<tables, window>>
BY DEF dbVars, worldVars, bounds, tables

LEMMA StatusInv ==
    ASSUME Inv, NEW w \in Workers, ReplyStatus(w) \/ Redirect(w) \/ RefuseRequest(w)
    PROVE  Inv'
<1>1. tx[w].pc = "read" /\ UNCHANGED <<tables, window>>
  BY ReadUnchanged DEF ReplyStatus, Redirect, RefuseRequest, Reading, Collecting, At
<1>2. About(tx[w], "fixed")
  BY <1>1, AtRead DEF About, Keep
<1> QED
  BY <1>1, <1>2, RespondInv DEF ReplyStatus, Redirect, RefuseRequest

LEMMA GreetInv ==
    ASSUME Inv, NEW w \in Workers, Greet(w)
    PROVE  Inv'
<1>1. tx[w].pc = "read" /\ UNCHANGED <<tables, window>>
  BY ReadUnchanged DEF Greet, Collecting, At
<1>2. About(tx[w], "fixed")
  BY <1>1, AtRead DEF About, Keep
<1> QED
  BY <1>1, <1>2, RespondInv, IgnoreInv DEF Greet

\* _handle_confirmation: the open request was stated to the customer, and has
\* no dispatch_request job yet.
LEMMA ConfirmationInv ==
    ASSUME Inv, NEW w \in Workers, Confirm(w) \/ Cancel(w) \/ AskAgain(w)
    PROVE  Inv'
<1> DEFINE base == [tx[w] EXCEPT !.req = OpenRequest, !.conv = conv[OpenRequest]]
<1>1. /\ tx[w].pc = "read" /\ UNCHANGED <<tables, window>>
      /\ OpenState = "awaiting_confirmation"
  BY ReadUnchanged DEF Confirm, Cancel, AskAgain, Reading, At, Awaiting
<1>2. /\ OpenRequest \in Requests /\ request[OpenRequest] = "awaiting_confirmation"
      /\ \A q \in Requests \ {OpenRequest} : request[q] \notin OpenStates
  BY <1>1, OnlyOpen DEF OpenState, Inv
<1>3. dispatches[OpenRequest] = 0 /\ Tap("confirm_yes", OpenRequest) \in buttons
  BY <1>2 DEF Inv, Rows
<1>4. ASSUME NEW state \in {"dispatching", "cancelled"}, NEW reply
      PROVE  About([tx[w] EXCEPT !.req = OpenRequest, !.state = state,
                                 !.conv = conv[OpenRequest]], reply)
  <2> DEFINE t == [tx[w] EXCEPT !.req = OpenRequest, !.state = state, !.conv = conv[OpenRequest]]
  <2>1. DOMAIN t = Fields /\ t.logs = 0 /\ t.req = OpenRequest /\ t.state = state
    BY <1>1, AtRead DEF Fields
  <2> HIDE DEF t
  <2>2. About(t, reply)
    BY <1>2, <1>3, <2>1, RequestsNat DEF About
  <2> QED
    BY <2>2 DEF t
<1>5. About(base, "confirm")
  <2>1. DOMAIN base = Fields /\ base.logs = 0 /\ base.req = OpenRequest /\ base.state = Keep
    BY <1>1, AtRead DEF Fields
  <2> HIDE DEF base
  <2> QED
    BY <1>2, <1>3, <2>1, RequestsNat DEF About, Keep
<1>6. CASE Confirm(w)
  BY <1>1, <1>4, <1>6, RespondInv DEF Confirm
<1>7. CASE Cancel(w)
  BY <1>1, <1>4, <1>7, RespondInv DEF Cancel
<1>8. CASE AskAgain(w)
  BY <1>1, <1>5, <1>8, RespondInv DEF AskAgain
<1> QED
  BY <1>6, <1>7, <1>8

\* A transaction as it was after reading, but for its conversation and, maybe,
\* the state it moves the request to.
LEMMA AdmittedAbout ==
    ASSUME Inv, NEW w \in Workers, Admitted(w), NEW c
    PROVE  LET t == OpenOrNew(w) IN
           /\ \A reply : About([t EXCEPT !.conv = c], reply)
           /\ About([t EXCEPT !.conv = c, !.state = "awaiting_confirmation"], "confirm")
           /\ \A reply : About([t EXCEPT !.state = "cancelled"], reply)
<1> DEFINE t == OpenOrNew(w)
           t1 == [t EXCEPT !.conv = c]
           t2 == [t EXCEPT !.conv = c, !.state = "awaiting_confirmation"]
           t3 == [t EXCEPT !.state = "cancelled"]
<1>1. /\ DOMAIN t = Fields /\ t.logs = 0
      /\ t.req \in Requests /\ dispatches[t.req] = 0 /\ t.state \in {Keep, "collecting"}
      /\ \A q \in Requests \ {t.req} : request[q] \notin OpenStates
  BY ReadRequest
<1> HIDE DEF t
<1>2. /\ DOMAIN t1 = Fields /\ t1.logs = 0 /\ t1.req = t.req /\ t1.state = t.state
      /\ DOMAIN t2 = Fields /\ t2.logs = 0 /\ t2.req = t.req /\ t2.state = "awaiting_confirmation"
      /\ DOMAIN t3 = Fields /\ t3.logs = 0 /\ t3.req = t.req /\ t3.state = "cancelled"
  BY <1>1 DEF Fields
<1> HIDE DEF t1, t2, t3
<1>3. /\ \A reply : About(t1, reply)
      /\ About(t2, "confirm")
      /\ \A reply : About(t3, reply)
  BY <1>1, <1>2, RequestsNat DEF About, Keep
<1> QED
  BY <1>3 DEF t, t1, t2, t3

LEMMA TapInv ==
    ASSUME Inv, NEW w \in Workers, TapTrade(w) \/ TapArea(w)
    PROVE  Inv'
<1>1. Admitted(w) /\ tx[w].pc = "read" /\ UNCHANGED <<tables, window>>
  BY ReadUnchanged DEF TapTrade, TapArea, Admitted, Collecting, At
<1>2. CASE TapTrade(w)
  <2>1. Respond(w, [OpenOrNew(w) EXCEPT !.conv = PickTrade(@)], "area")
    BY <1>2 DEF TapTrade
  <2> QED
    BY <1>1, <2>1, AdmittedAbout, RespondInv
<1>3. CASE TapArea(w)
  <2> DEFINE t == OpenOrNew(w)
             c == [t.conv EXCEPT !.notes = Facts, !.step = "confirm"]
  <2>1. Respond(w, [t EXCEPT !.conv = c, !.state = "awaiting_confirmation"], "confirm")
    BY <1>3 DEF TapArea
  <2> QED
    BY <1>1, <2>1, AdmittedAbout, RespondInv
<1> QED
  BY <1>2, <1>3

\* Whatever ends a transaction without its commit. What calls it made are not
\* logged any more; no more than two, for which there is an excuse.
LEMMA AbortInv ==
    ASSUME Inv, NEW w \in Workers, Goto(w, Idle), Unlock(w),
           UNCHANGED <<request, dispatches, logged, calls, buttons, sent>>,
           faults' \in Nat, crashes' \in Nat,
           \/ faults' + crashes' = faults + crashes + 1
           \/ faults' + crashes' = faults + crashes /\ tx[w].logs = 0
    PROVE  Inv'
<1>1. /\ tx' = [v \in Workers |-> tx'[v]]
      /\ tx'[w] = Idle /\ \A v \in Workers \ {w} : tx'[v] = tx[v]
      /\ DOMAIN Idle = Fields /\ Idle.logs = 0
  BY IdleHandling DEF Goto, Inv, Typed
<1>2. window' = IF window = w THEN Nobody ELSE window
  BY DEF Unlock
<1>3. Typed'
  BY <1>1 DEF Inv, Typed
<1>4. NoTwoOpen' /\ Rows' /\ window' \in Workers \cup {Nobody}
  BY <1>2, SameRows DEF Inv, NoTwoOpen
<1>5. Budget'
  <2>1. tx[w].logs \in 0 .. 2 /\ faults + crashes \in Nat
    BY DEF Inv, Typed
  <2>2. Unlogged' = IF window = w THEN 0 ELSE Unlogged
    BY <1>1, <1>2 DEF Inv, Unlogged
  <2>3. window = w => Unlogged = tx[w].logs
    BY DEF Unlogged
  <2>4. Unlogged \in 0 .. 2 /\ Budget /\ Typed
    BY DEF Unlogged, Inv, Typed
  <2>5. Unlogged' + 2 * (faults' + crashes') >= Unlogged + 2 * (faults + crashes)
    <3>1. CASE window = w
      BY <2>1, <2>2, <2>3, <3>1
    <3>2. CASE window # w
      BY <2>1, <2>2, <2>4, <3>2
    <3> QED
      BY <3>1, <3>2
  <2> QED
    BY <2>1, <2>2, <2>4, <2>5 DEF Budget, Typed
<1>6. \A v \in Workers \ {w} : Handling(v, tx[v])'
  BY <1>1, <1>2, UndisturbedHandling DEF Inv, Undisturbed
<1>7. Handling(w, tx[w])'
  BY <1>1 DEF Handling, Idle, Keep
<1> QED
  BY <1>3, <1>4, <1>5, <1>6, <1>7 DEF Inv

LEMMA FaultInv ==
    ASSUME Inv, NEW w \in Workers, Fault(w) \/ Crash(w)
    PROVE  Inv'
<1>1. /\ faults' \in Nat /\ crashes' \in Nat
      /\ faults' + crashes' = faults + crashes + 1
  BY DEF Fault, Crash, Inv, Typed
<1> QED
  BY <1>1, AbortInv DEF Fault, Crash, RollBack, dbVars, worldVars

LEMMA TapOtherInv ==
    ASSUME Inv, NEW w \in Workers, TapOther(w)
    PROVE  Inv'
<1>1. Admitted(w) /\ tx[w].pc = "read" /\ UNCHANGED tables
  BY DEF TapOther, Admitted, Collecting, At, dbVars, worldVars, bounds, tables
<1>2. CASE RollBack(w)
  <2>1. /\ faults' \in Nat /\ crashes' \in Nat
        /\ faults' + crashes' = faults + crashes /\ tx[w].logs = 0
    BY <1>1, AtRead DEF Inv, Typed, tables
  <2> QED
    BY <1>1, <1>2, <2>1, AbortInv DEF RollBack, tables
<1>3. CASE Respond(w, [OpenOrNew(w) EXCEPT !.state = "cancelled"], "fixed") /\ UNCHANGED window
  BY <1>1, <1>3, AdmittedAbout, RespondInv
<1>4. CASE Goto(w, [tx[w] EXCEPT !.pc = "commit"]) /\ UNCHANGED window
  BY <1>1, <1>4, IgnoreInv
<1> QED
  BY <1>2, <1>3, <1>4 DEF TapOther

LEMMA ConsultInv ==
    ASSUME Inv, NEW w \in Workers, Consult(w)
    PROVE  Inv'
<1> DEFINE t == OpenOrNew(w)
           context == InContext(t.conv.messages, Msg(w).says)
           u == [t EXCEPT !.messages = context, !.pc = "ask"]
           c == Stored(t.conv, [t.conv EXCEPT !.messages = context, !.step = "cap_reached"], FALSE)
<1>1. Admitted(w) /\ tx[w].pc = "read" /\ UNCHANGED <<tables, window>>
  BY ReadUnchanged DEF Consult, Admitted, Collecting, At
<1>2. CASE UnderCap /\ Goto(w, u)
  <2>1. /\ DOMAIN t = Fields /\ t.logs = 0
        /\ t.req \in Requests /\ dispatches[t.req] = 0 /\ t.state \in {Keep, "collecting"}
        /\ request[t.req] \in {"none", "collecting"}
        /\ \A q \in Requests \ {t.req} : request[q] \notin OpenStates
    BY <1>1, ReadRequest
  <2> HIDE DEF t, context
  <2>2. DOMAIN u = Fields /\ u.logs = 0 /\ u.req = t.req /\ u.state = t.state /\ u.pc = "ask"
    BY <2>1 DEF Fields
  <2>3. window = w /\ tx[w].logs = 0
    BY <1>1, AtRead
  <2> HIDE DEF u
  <2>4. Handling(w, u)
    BY <1>2, <2>1, <2>2, <2>3, RequestsNat DEF Handling, UnderCap, Keep
  <2> QED
    BY <1>1, <1>2, <2>2, <2>3, <2>4, QuietStep
<1>3. CASE Respond(w, [t EXCEPT !.conv = c], "fixed")
  BY <1>1, <1>3, AdmittedAbout, RespondInv
<1> QED
  BY <1>2, <1>3 DEF Consult

\* What the model answers moves a transaction no further than the confirmation.
LEMMA ExtractedShape ==
    ASSUME NEW t, DOMAIN t = Fields, NEW facts, NEW details
    PROVE  LET u == Extracted(t, facts, details) IN
           /\ DOMAIN u = Fields /\ u.job = t.job /\ u.expire = t.expire
           /\ u.pc = t.pc /\ u.req = t.req /\ u.logs = t.logs
           /\ u.state = t.state \/ (u.state = "awaiting_confirmation" /\ u.reply = "confirm")
<1> DEFINE known == IF lastArea THEN facts \cup {"area"} ELSE facts
           c(step, notes) == Stored(t.conv, [t.conv EXCEPT !.messages = t.messages,
                                 !.step = step, !.notes = @ \cup notes], details)
           c1 == c("clarify_trade", facts)
           c2 == c("clarify_area", {"trade"})
           c3 == c("confirm", Facts)
           u == Extracted(t, facts, details)
<1>1. u = IF "trade" \notin known THEN [t EXCEPT !.conv = c1, !.reply = "trade"]
          ELSE IF "area" \notin known THEN [t EXCEPT !.conv = c2, !.reply = "area"]
          ELSE [t EXCEPT !.conv = c3, !.reply = "confirm", !.state = "awaiting_confirmation"]
  BY Zenon DEF Extracted
<1> HIDE DEF u, c1, c2, c3, known
<1>2. ASSUME NEW c0, NEW reply, u = [t EXCEPT !.conv = c0, !.reply = reply]
      PROVE  /\ DOMAIN u = Fields /\ u.job = t.job /\ u.expire = t.expire
             /\ u.pc = t.pc /\ u.req = t.req /\ u.logs = t.logs /\ u.state = t.state
  <2>1. DOMAIN u = Fields
    BY <1>2
  <2> QED
    BY <1>2, <2>1 DEF Fields
<1>3. ASSUME NEW c0, u = [t EXCEPT !.conv = c0, !.reply = "confirm", !.state = "awaiting_confirmation"]
      PROVE  /\ DOMAIN u = Fields /\ u.job = t.job /\ u.expire = t.expire
             /\ u.pc = t.pc /\ u.req = t.req /\ u.logs = t.logs
             /\ u.state = "awaiting_confirmation" /\ u.reply = "confirm"
  <2>1. DOMAIN u = Fields
    BY <1>3
  <2> QED
    BY <1>3, <2>1 DEF Fields
<1>4. /\ DOMAIN u = Fields /\ u.job = t.job /\ u.expire = t.expire
      /\ u.pc = t.pc /\ u.req = t.req /\ u.logs = t.logs
      /\ u.state = t.state \/ (u.state = "awaiting_confirmation" /\ u.reply = "confirm")
  BY <1>1, <1>2, <1>3
<1> QED
  BY <1>4 DEF u

\* The calls are made: they are the holder's, to be logged when it commits.
LEMMA ModelInv ==
    ASSUME Inv, NEW w \in Workers, ModelFails(w) \/ ModelAnswers(w)
    PROVE  Inv'
<1>1. /\ UNCHANGED <<request, dispatches, logged, faults, crashes, buttons, sent, window>>
      /\ tx[w].pc = "ask"
  BY DEF ModelFails, ModelAnswers, dbVars, bounds, At
<1>2. DOMAIN tx[w] = Fields /\ Handling(w, tx[w])
  BY DEF Inv, Typed
<1>3. \E t : /\ Goto(w, t) /\ DOMAIN t = Fields /\ t.pc = "reply" /\ t.req = tx[w].req
             /\ t.logs \in 1 .. 2 /\ calls' = calls + t.logs
             /\ \/ t.state = tx[w].state
                \/ t.state = "awaiting_confirmation" /\ t.reply = "confirm"
  <2>1. CASE ModelFails(w)
    <3> DEFINE c == Stored(tx[w].conv, [tx[w].conv EXCEPT !.messages = tx[w].messages,
                        !.fallback_mode = TRUE, !.step = "fallback_trade"], FALSE)
               u == [tx[w] EXCEPT !.conv = c, !.logs = 2]
               t == [u EXCEPT !.pc = "reply", !.reply = "trade"]
    <3>1. Goto(w, t) /\ calls' = calls + 2
      BY <2>1 DEF ModelFails, Respond
    <3> HIDE DEF c
    <3>2. DOMAIN t = Fields /\ t.pc = "reply" /\ t.req = tx[w].req /\ t.logs = 2 /\ t.state = tx[w].state
      BY <1>2 DEF Fields
    <3> HIDE DEF t
    <3> QED
      BY <3>1, <3>2
  <2>2. CASE ModelAnswers(w)
    <3>0. {1} \cup (IF FALSE \in ModelUp THEN {2} ELSE {}) \subseteq 1 .. 2
      <4>1. {1} \subseteq 1 .. 2 /\ {2} \subseteq 1 .. 2
        OBVIOUS
      <4> QED
        BY <4>1
    <3>1. PICK n \in {1} \cup (IF FALSE \in ModelUp THEN {2} ELSE {}),
               result \in Extractions(tx[w].messages), details \in BOOLEAN :
              /\ calls' = calls + n
              /\ LET t == [tx[w] EXCEPT !.logs = n, !.pc = "reply"] IN
                 Goto(w, IF result.is_service_request
                         THEN Extracted(t, result.facts, details)
                         ELSE [t EXCEPT !.reply = "fixed"])
      BY <2>2 DEF ModelAnswers
    <3> DEFINE t == [tx[w] EXCEPT !.logs = n, !.pc = "reply"]
               u == IF result.is_service_request
                    THEN Extracted(t, result.facts, details)
                    ELSE [t EXCEPT !.reply = "fixed"]
    <3>2. DOMAIN t = Fields /\ t.pc = "reply" /\ t.req = tx[w].req /\ t.logs = n /\ t.state = tx[w].state
      BY <1>2 DEF Fields
    <3>3. Goto(w, u) /\ calls' = calls + n /\ n \in 1 .. 2
      BY <3>0, <3>1
    <3> HIDE DEF t
    <3>4. /\ DOMAIN u = Fields /\ u.pc = "reply" /\ u.req = tx[w].req /\ u.logs = n
          /\ u.state = tx[w].state \/ (u.state = "awaiting_confirmation" /\ u.reply = "confirm")
      <4>1. CASE result.is_service_request
        BY <3>2, <4>1, ExtractedShape
      <4>2. CASE ~ result.is_service_request
        BY <3>2, <4>2 DEF Fields
      <4> QED
        BY <4>1, <4>2
    <3> HIDE DEF u
    <3> QED
      BY <3>3, <3>4
  <2> QED
    BY <2>1, <2>2
<1>4. PICK t : /\ Goto(w, t) /\ DOMAIN t = Fields /\ t.pc = "reply" /\ t.req = tx[w].req
               /\ t.logs \in 1 .. 2 /\ calls' = calls + t.logs
               /\ \/ t.state = tx[w].state
                  \/ t.state = "awaiting_confirmation" /\ t.reply = "confirm"
  BY <1>3
<1>5. /\ tx' = [v \in Workers |-> tx'[v]]
      /\ tx'[w] = t /\ \A v \in Workers \ {w} : tx'[v] = tx[v]
  BY <1>4 DEF Goto, Inv, Typed
<1>6. window = w /\ tx[w].logs = 0 /\ logged < ModelCap /\ ModelCap \in Nat
  BY <1>1, <1>2 DEF Handling
<1>7. Typed'
  BY <1>1, <1>4, <1>5 DEF Inv, Typed
<1>8. NoTwoOpen' /\ Rows' /\ window' \in Workers \cup {Nobody}
  BY <1>1, SameRows DEF Inv, NoTwoOpen
<1>9. Budget'
  <2>1. Unlogged = 0 /\ Unlogged' = t.logs
    BY <1>1, <1>5, <1>6 DEF Unlogged
  <2>2. Budget /\ Typed
    BY DEF Inv
  <2> QED
    BY <1>1, <1>4, <2>1, <2>2 DEF Budget, Typed
<1>10. \A v \in Workers \ {w} : Handling(v, tx[v])'
  BY <1>1, <1>5, UndisturbedHandling DEF Inv, Undisturbed
<1>11. Handling(w, tx[w])'
  <2>1. logged + t.logs <= ModelCap + 1 /\ t.logs # 0
    BY <1>4, <1>6 DEF Inv, Typed
  <2>2. Handling(w, t)
    BY <1>1, <1>2, <1>4, <1>6, <2>1, RequestsNat DEF Handling, Keep
  <2>3. Tap("confirm_yes", t.req)' = Tap("confirm_yes", t.req)
    BY DEF Tap
  <2> QED
    BY <1>1, <1>5, <2>2, <2>3 DEF Handling
<1> QED
  BY <1>7, <1>8, <1>9, <1>10, <1>11 DEF Inv

\* The buttons are shown before the row that asks for them is committed.
LEMMA ReplyInv ==
    ASSUME Inv, NEW w \in Workers, Reply(w)
    PROVE  Inv'
<1> DEFINE t == [tx[w] EXCEPT !.pc = "commit"]
<1>1. /\ UNCHANGED <<request, dispatches, logged, calls, faults, crashes, sent, window>>
      /\ tx[w].pc = "reply" /\ Goto(w, t)
      /\ buttons' = buttons \cup ButtonsOf(tx[w].reply, tx[w].req)
  BY DEF Reply, dbVars, bounds, At
<1>2. DOMAIN tx[w] = Fields /\ Handling(w, tx[w])
  BY DEF Inv, Typed
<1>3. /\ DOMAIN t = Fields /\ t.pc = "commit" /\ t.req = tx[w].req
      /\ t.state = tx[w].state /\ t.logs = tx[w].logs
  BY <1>2 DEF Fields
<1>4. /\ tx' = [v \in Workers |-> tx'[v]]
      /\ tx'[w] = t /\ \A v \in Workers \ {w} : tx'[v] = tx[v]
  BY <1>1 DEF Goto, Inv, Typed
<1> HIDE DEF t
<1>5. Typed'
  BY <1>1, <1>3, <1>4 DEF Inv, Typed
<1>6. buttons \subseteq buttons'
  BY <1>1
<1>7. NoTwoOpen' /\ Rows' /\ window' \in Workers \cup {Nobody}
  BY <1>1, <1>6, SameRows DEF Inv, NoTwoOpen
<1>8. Budget'
  BY <1>1, <1>3, <1>4, SameBudget DEF Inv
<1>9. \A v \in Workers \ {w} : Handling(v, tx[v])'
  BY <1>1, <1>4, <1>6, UndisturbedHandling DEF Inv, Undisturbed
<1>10. t.state = "awaiting_confirmation" => Tap("confirm_yes", t.req) \in buttons'
  BY <1>1, <1>2, <1>3 DEF Handling, ButtonsOf
<1>11. Handling(w, tx[w])'
  <2>1. \A q : Tap("confirm_yes", q)' = Tap("confirm_yes", q)
    BY DEF Tap
  <2> QED
    BY <1>1, <1>2, <1>3, <1>4, <1>6, <1>10, <2>1 DEF Handling
<1> QED
  BY <1>5, <1>7, <1>8, <1>9, <1>11 DEF Inv

LEMMA SelectInv ==
    ASSUME Inv, NEW w \in Workers, SelectUnconfirmed(w)
    PROVE  Inv'
<1> DEFINE late == {r \in overdue : request[r] \in Expirable}
           t == [tx[w] EXCEPT !.expire = late, !.pc = "commit"]
<1>1. tx[w].pc = "select" /\ DOMAIN tx[w] = Fields /\ Handling(w, tx[w])
  BY DEF SelectUnconfirmed, At, Inv, Typed
<1>2. Goto(w, t) /\ UNCHANGED <<tables, window>>
  BY DEF SelectUnconfirmed, dbVars, worldVars, bounds, tables
<1> HIDE DEF late
<1>3. /\ DOMAIN t = Fields /\ t.pc = "commit" /\ t.req = 0
      /\ t.state = Keep /\ t.logs = 0 /\ tx[w].logs = 0
  BY <1>1 DEF Handling, Fields
<1> HIDE DEF t
<1>4. Handling(w, t)
  BY <1>3 DEF Handling, Keep
<1> QED
  BY <1>2, <1>3, <1>4, QuietStep

\* A COMMIT that takes effect, whether its answer arrives or is lost.
LEMMA CommitInv ==
    ASSUME Inv, NEW w \in Workers, Commit(w) \/ LoseAck(w)
    PROVE  Inv'
<1> DEFINE t == tx[w]
<1>1. /\ request' = [q \in Requests |-> Written(t, q)]
      /\ dispatches' = [q \in Requests |-> dispatches[q] + Enqueued(t, q)]
      /\ logged' = logged + t.logs
      /\ Goto(w, Idle) /\ Unlock(w) /\ t.pc = "commit"
      /\ UNCHANGED <<calls, buttons, crashes, sent>>
      /\ faults' \in {faults, faults + 1}
  BY DEF Commit, LoseAck, TakeEffect, worldVars, bounds, At
<1>2. /\ tx' = [v \in Workers |-> tx'[v]]
      /\ tx'[w] = Idle /\ \A v \in Workers \ {w} : tx'[v] = tx[v]
      /\ DOMAIN Idle = Fields /\ Idle.logs = 0
  BY <1>1, IdleHandling DEF Goto, Inv, Typed
<1>3. window' = IF window = w THEN Nobody ELSE window
  BY <1>1 DEF Unlock
<1>4. Handling(w, t) /\ t.logs \in 0 .. 2
  BY DEF Inv, Typed
<1>5. \A q \in Requests : request'[q] = request[q] \/ request'[q] = "expired"
                          \/ (q = t.req /\ t.state # Keep /\ request'[q] = t.state)
  BY <1>1 DEF Written
<1>6. \A q \in Requests : request'[q] \in OpenStates =>
          request[q] \in OpenStates \/ (q = t.req /\ q # 0)
  BY <1>5, RequestsNat DEF OpenStates
<1>7. NoTwoOpen'
  <2> SUFFICES ASSUME NEW r \in Requests, NEW q \in Requests,
                      request'[r] \in OpenStates, request'[q] \in OpenStates
               PROVE  r = q
    BY DEF NoTwoOpen
  <2>1. CASE t.req = 0
    BY <1>6, <2>1, RequestsNat DEF Inv, NoTwoOpen
  <2>2. CASE t.req # 0
    BY <1>4, <1>6, <2>2 DEF Handling
  <2> QED
    BY <2>1, <2>2
<1>8. \A q \in Requests :
          /\ Enqueued(t, q) = IF t.state = "dispatching" /\ t.req = q THEN 1 ELSE 0
          /\ dispatches'[q] = dispatches[q] + Enqueued(t, q)
          /\ dispatches[q] \in Nat
  BY <1>1 DEF Enqueued, Inv, Typed
<1>9. Rows'
  <2> SUFFICES ASSUME NEW r \in Requests
               PROVE  /\ request'[r] \in {"none", "collecting", "awaiting_confirmation"} => dispatches'[r] = 0
                      /\ request'[r] \in {"dispatching", "assigned", "unfilled"} => dispatches'[r] = 1
                      /\ dispatches'[r] <= 1
                      /\ dispatches'[r] > 0 \/ request'[r] = "awaiting_confirmation" =>
                            Tap("confirm_yes", r) \in buttons
    <3>1. buttons' = buttons
      BY <1>1
    <3>2. \A q : Tap("confirm_yes", q)' = Tap("confirm_yes", q)
      BY DEF Tap
    <3> QED
      BY <3>1, <3>2 DEF Rows
  <2>1. /\ request[r] \in {"none", "collecting", "awaiting_confirmation"} => dispatches[r] = 0
        /\ request[r] \in {"dispatching", "assigned", "unfilled"} => dispatches[r] = 1
        /\ dispatches[r] <= 1
        /\ dispatches[r] > 0 \/ request[r] = "awaiting_confirmation" =>
              Tap("confirm_yes", r) \in buttons
    BY DEF Inv, Rows
  <2>2. CASE r = t.req /\ t.state # Keep
    <3>1. /\ dispatches[r] = 0
          /\ t.state \in {"dispatching", "awaiting_confirmation"} => Tap("confirm_yes", r) \in buttons
          /\ request'[r] = "expired" \/ request'[r] = t.state
      BY <1>1, <1>4, <2>2 DEF Handling, Written
    <3>2. dispatches'[r] = IF t.state = "dispatching" THEN 1 ELSE 0
      BY <1>8, <2>2, <3>1
    <3>3. t.state \in {"assigned", "unfilled"} => FALSE
      BY <1>4, <2>2 DEF Handling
    <3> QED
      BY <3>1, <3>2, <3>3
  <2>3. CASE ~ (r = t.req /\ t.state # Keep)
    <3>1. dispatches'[r] = dispatches[r]
      BY <1>8, <2>3 DEF Keep
    <3> QED
      BY <1>5, <2>1, <2>3, <3>1
  <2> QED
    BY <2>2, <2>3
<1>10. Typed'
  <2>1. dispatches' \in [Requests -> Nat]
    BY <1>1, <1>8
  <2>2. request' = [r \in Requests |-> request'[r]]
    BY <1>1
  <2>3. logged' \in Nat /\ calls' \in Nat /\ faults' \in Nat /\ crashes' \in Nat /\ sent' \in Nat
    BY <1>1, <1>4 DEF Inv, Typed
  <2> QED
    BY <1>2, <2>1, <2>2, <2>3 DEF Inv, Typed
<1>11. Budget'
  <2>1. logged + t.logs <= ModelCap + 1
    BY <1>4 DEF Inv, Handling, Budget, Typed
  <2>2. Unlogged' = (IF window = w THEN 0 ELSE Unlogged) /\ (window = w => Unlogged = t.logs)
    BY <1>2, <1>3 DEF Inv, Unlogged
  <2>3. window # w => t.logs = 0
    BY <1>4 DEF Handling
  <2>4. logged' + Unlogged' = logged + Unlogged
    <3>1. Unlogged \in 0 .. 2 /\ logged \in Nat
      BY DEF Inv, Typed, Unlogged
    <3> QED
      BY <1>1, <1>4, <2>2, <2>3, <3>1
  <2>5. calls' <= logged' + Unlogged' + 2 * (faults + crashes)
    BY <1>1, <2>4 DEF Inv, Budget
  <2>6. calls' <= logged' + Unlogged' + 2 * (faults' + crashes')
    <3>1. Unlogged' \in Nat /\ logged' \in Nat /\ calls' \in Nat /\ faults \in Nat /\ crashes \in Nat
      BY <1>10, <2>2 DEF Inv, Typed, Unlogged
    <3> QED
      BY <1>1, <2>5, <3>1
  <2> QED
    BY <1>1, <2>1, <2>6 DEF Budget
<1>12. ASSUME NEW v \in Workers \ {w} PROVE Handling(v, tx[v])'
  <2>1. window = v => t.req = 0 /\ t.logs = 0 /\ t.state = Keep
    BY <1>4 DEF Handling
  <2>2. window = v => \A q \in Requests :
            /\ request'[q] \in OpenStates => request[q] \in OpenStates
            /\ request'[q] \in {"dispatching", "assigned"} => request[q] \in {"dispatching", "assigned"}
    BY <1>5, <2>1 DEF OpenStates
  <2>3. window = v => dispatches' = dispatches /\ logged' = logged
    <3>1. window = v => \A q \in Requests : dispatches'[q] = dispatches[q]
      BY <1>8, <2>1 DEF Keep
    <3> QED
      BY <1>1, <1>10, <2>1, <3>1 DEF Inv, Typed
  <2>4. Undisturbed(v)
    BY <1>1, <1>2, <1>3, <2>2, <2>3 DEF Undisturbed
  <2> QED
    BY <2>4, UndisturbedHandling DEF Inv
<1>13. Handling(w, tx[w])'
  BY <1>2 DEF Handling, Idle, Keep
<1>14. window' \in Workers \cup {Nobody}
  BY <1>3 DEF Inv
<1> QED
  BY <1>7, <1>9, <1>10, <1>11, <1>12, <1>13, <1>14 DEF Inv

-----------------------------------------------------------------------------
(* The customer, time and dispatch                                         *)

LEMMA WorldInv ==
    ASSUME Inv,
           \/ ExpireDue
           \/ \E r \in Requests : Age(r)
           \/ \E m \in Phrases \cup buttons : Write(m)
           \/ \E m \in Phrases : Begin(m)
           \/ \E b \in asked : Answer(b)
           \/ UNCHANGED vars
    PROVE  Inv'
<1>1. /\ UNCHANGED <<request, dispatches, logged, calls, faults, crashes, buttons, window, tx>>
      /\ sent' \in Nat
  BY DEF ExpireDue, Age, Write, Begin, Answer, Arrive, dbVars, worldVars, bounds, vars, Inv, Typed
<1>2. Typed'
  BY <1>1 DEF Inv, Typed
<1>3. NoTwoOpen' /\ Rows' /\ Budget' /\ window' \in Workers \cup {Nobody}
  BY <1>1, SameRows, SameBudget DEF Inv, NoTwoOpen
<1>4. \A v \in Workers : Handling(v, tx[v])'
  BY <1>1, UndisturbedHandling DEF Inv, Undisturbed
<1> QED
  BY <1>2, <1>3, <1>4 DEF Inv

LEMMA DispatchedInv ==
    ASSUME Inv, NEW r \in Requests, Dispatched(r)
    PROVE  Inv'
<1>1. /\ UNCHANGED <<dispatches, logged, calls, faults, crashes, buttons, sent, window, tx>>
      /\ request[r] = "dispatching"
  BY DEF Dispatched, worldVars, bounds
<1>2. PICK outcome \in {"assigned", "unfilled"} : request' = [request EXCEPT ![r] = outcome]
  BY DEF Dispatched
<1>3. /\ request'[r] = outcome
      /\ \A q \in Requests \ {r} : request'[q] = request[q]
      /\ request' = [q \in Requests |-> request'[q]]
  BY <1>2 DEF Inv, Typed
<1>4. Typed'
  BY <1>1, <1>3 DEF Inv, Typed
<1>5. NoTwoOpen'
  BY <1>1, <1>3 DEF Inv, NoTwoOpen, OpenStates
<1>6. Rows'
  <2>1. \A q : Tap("confirm_yes", q)' = Tap("confirm_yes", q)
    BY DEF Tap
  <2> QED
    BY <1>1, <1>3, <2>1 DEF Inv, Rows
<1>7. Budget' /\ window' \in Workers \cup {Nobody}
  BY <1>1, SameBudget DEF Inv
<1>8. \A v \in Workers : Handling(v, tx[v])'
  <2>1. \A v \in Workers : Undisturbed(v)
    BY <1>1, <1>3 DEF Undisturbed, OpenStates
  <2> QED
    BY <2>1, UndisturbedHandling DEF Inv
<1> QED
  BY <1>4, <1>5, <1>6, <1>7, <1>8 DEF Inv

LEMMA NextInv == ASSUME Inv, [Next]_vars PROVE Inv'
<1>1. ASSUME NEW w \in Workers, Step(w) \/ Fault(w) \/ LoseAck(w) \/ Crash(w) PROVE Inv'
  BY <1>1, ClaimInv, WindowInv, StatusInv, GreetInv, ConfirmationInv, TapInv, TapOtherInv,
     ConsultInv, ModelInv, ReplyInv, CommitInv, SelectInv, FaultInv DEF Step
<1> QED
  BY <1>1, WorldInv, DispatchedInv DEF Next

LEMMA SpecInv == Spec => []Inv
BY InitInv, NextInv, PTL DEF Spec

-----------------------------------------------------------------------------
(* What intake promises                                                    *)

\* A customer has at most one open request, however many of his messages are
\* handled at once: only the holder of his contact window opens one.
THEOREM OneOpenRequestHolds == Spec => []OneOpenRequest
<1>1. Inv => OneOpenRequest
  <2> SUFFICES ASSUME Inv PROVE OneOpenRequest
    OBVIOUS
  <2> DEFINE open == {r \in Requests : request[r] \in OpenStates}
  <2>1. open = {} \/ \E r \in Requests : open = {r}
    BY DEF Inv, NoTwoOpen
  <2> HIDE DEF open
  <2>2. Cardinality(open) = 0 \/ Cardinality(open) = 1
    BY <2>1, FS_EmptySet, FS_Singleton
  <2>3. Cardinality(open) <= 1
    BY <2>2
  <2> QED
    BY <2>3 DEF OneOpenRequest, open
<1> QED
  BY <1>1, SpecInv, PTL

\* A confirmed request has one dispatch_request job for good, and was stated to
\* the customer before, whatever expires or fails meanwhile.
THEOREM DispatchedOnceHolds == Spec => []DispatchedOnce
<1>1. Inv => DispatchedOnce
  BY DEF Inv, Rows, DispatchedOnce, Typed
<1> QED
  BY <1>1, SpecInv, PTL

\* The cap on model calls is overrun by the retry of its last call, and by the
\* calls of the runs that failed or died: whoever may call holds the window, so
\* that no second message of the customer reads the count before he has logged.
THEOREM CapOverrunBoundedHolds == Spec => []CapOverrunBounded
<1>1. Inv => CapOverrunBounded
  <2> SUFFICES ASSUME Inv PROVE CapOverrunBounded
    OBVIOUS
  <2>1. logged + Unlogged <= ModelCap + 1
    BY DEF Inv, Unlogged, Handling, Budget, Typed
  <2> QED
    BY <2>1 DEF Inv, Budget, Typed, CapOverrunBounded, Unlogged
<1> QED
  BY <1>1, SpecInv, PTL

\* The model is never asked while a provider is looked for or found.
THEOREM ModelOnlyDuringIntakeHolds == Spec => ModelOnlyDuringIntake
<1>1. ASSUME Inv, [Next]_vars, calls' # calls
      PROVE  \A r \in Requests : request[r] \notin {"dispatching", "assigned"}
  <2>1. PICK w \in Workers : ModelFails(w) \/ ModelAnswers(w)
    BY <1>1 DEF Next, vars, Step, Claim, UpsertWindow, ReplyStatus, Confirm, Cancel, AskAgain,
       Reading, Redirect, Greet, RefuseRequest, TapTrade, TapArea, TapOther, Consult, Reply,
       Commit, LoseAck, TakeEffect, SelectUnconfirmed, Fault, Crash, ExpireDue, Age, Dispatched, Write, Begin,
       Answer, Arrive, worldVars
  <2>2. Handling(w, tx[w]) /\ tx[w].pc = "ask"
    BY <1>1, <2>1 DEF Inv, ModelFails, ModelAnswers, At
  <2> QED
    BY <2>2, RequestsNat DEF Handling, OpenStates
<1>2. Inv /\ [Next]_vars => (calls' # calls =>
          \A r \in Requests : request[r] \notin {"dispatching", "assigned"})
  BY <1>1
<1> QED
  BY <1>2, SpecInv, PTL DEF Spec, ModelOnlyDuringIntake

-----------------------------------------------------------------------------
(* Types. A context is never longer than its limit, whatever is appended   *)
(* to it; a job in the queue has an attempt left; only who is about a      *)
(* request asks a question.                                                *)

Context == {s \in Seq(SUBSET Facts) : Len(s) <= ContextLimit}

ConvTypes ==
    [messages : Context, step : ConvSteps, fallback_mode : BOOLEAN, notes : SUBSET Facts]

TxTypes ==
    [pc : {"idle", "window", "read", "ask", "reply", "commit", "select"},
     job : JobType, req : {0} \cup Requests, state : {Keep} \cup RequestStates,
     conv : ConvTypes, messages : Context,
     reply : {"none", "fixed", "finding", "confirm", "trade", "area"},
     logs : 0 .. 2, expire : SUBSET Requests]

Questions == {"finding", "confirm", "trade", "area"}

TxTyped(t) == t \in TxTypes /\ (t.reply \in Questions => t.req \in Requests)

Taps == {Tap(id, r) : id \in Buttons, r \in Requests}

TypeInv ==
    /\ request \in [Requests -> RequestStates]
    /\ conv \in [Requests -> ConvTypes]
    /\ overdue \subseteq Requests
    /\ lastArea \in BOOLEAN
    /\ jobs \subseteq {j \in JobType : j.att < MaxAttempts}
    /\ tx = [w \in Workers |-> tx[w]] /\ \A w \in Workers : TxTyped(tx[w])
    /\ asked \subseteq buttons /\ buttons \subseteq Taps
    /\ promised \subseteq Requests

LEMMA ContextType == Context \subseteq Seq(SUBSET Facts) /\ <<>> \in Context
<1>1. <<>> \in Seq(SUBSET Facts) /\ Len(<<>>) = 0 /\ ContextLimit \in Nat
  OBVIOUS
<1> QED
  BY <1>1 DEF Context

LEMMA TypeInvIsEnough == ASSUME Inv, TypeInv PROVE TypeOK
<1>1. /\ ConvTypes \subseteq ConvType
      /\ \A c \in ConvTypes : Len(c.messages) <= ContextLimit
  BY DEF ConvTypes, ConvType, Context
<1>2. TxTypes \subseteq TxType
  BY <1>1, ContextType DEF TxTypes, TxType
<1>3. conv \in [Requests -> ConvType] /\ \A r \in Requests : Len(conv[r].messages) <= ContextLimit
  BY <1>1 DEF TypeInv
<1>4. tx \in [Workers -> TxType]
  BY <1>2 DEF TypeInv, TxTyped
<1>5. buttons \subseteq Messages
  BY DEF TypeInv, Taps, Messages
<1>6. {logged, calls, sent, faults, crashes} \subseteq Nat /\ dispatches \in [Requests -> Nat]
  BY DEF Inv, Typed
<1>7. window \in Workers \cup {Nobody} /\ jobs \subseteq JobType
  BY DEF Inv, TypeInv
<1> QED
  BY <1>3, <1>4, <1>5, <1>6, <1>7 DEF TypeInv, TypeOK

\* What can be said: nothing but facts.
LEMMA SaysFacts == ASSUME NEW m \in Messages PROVE m.says \in SUBSET Facts
<1>1. CASE m \in Phrases \cup {ExpireJob.msg}
  BY <1>1 DEF Text, ExpireJob, MessageJob
<1>2. CASE m \in Taps
  BY <1>2 DEF Taps, Tap
<1> QED
  BY <1>1, <1>2 DEF Messages, Taps

LEMMA InContextType ==
    ASSUME NEW messages \in Context, NEW says \in SUBSET Facts
    PROVE  InContext(messages, says) \in Context
<1> DEFINE all == Append(messages, says)
<1>1. /\ all \in Seq(SUBSET Facts) /\ Len(all) = Len(messages) + 1
      /\ Len(messages) \in Nat /\ Len(messages) <= ContextLimit /\ ContextLimit \in Nat
  BY DEF Context
<1> HIDE DEF all
<1>2. Tail(all) \in Seq(SUBSET Facts) /\ Len(Tail(all)) = Len(all) - 1
  <2>1. all # <<>>
    BY <1>1
  <2> QED
    BY <1>1, <2>1
<1>3. (IF Len(all) > ContextLimit THEN Tail(all) ELSE all) \in Context
  BY <1>1, <1>2 DEF Context
<1> QED
  BY <1>3 DEF InContext, all

LEMMA StatedFacts == ASSUME NEW messages \in Context PROVE StatedIn(messages) \in SUBSET Facts
BY ContextType DEF StatedIn

LEMMA StoredType ==
    ASSUME NEW old \in ConvTypes, NEW new \in ConvTypes, NEW details
    PROVE  Stored(old, new, details) \in ConvTypes
BY DEF Stored

LEMMA ExpireType == ExpireJob \in JobType /\ ExpireJob.msg \in Messages /\ ExpireJob.att = 0
<1>1. ExpireJob.msg \in Messages
  BY DEF Messages
<1>2. /\ ExpireJob = [msg |-> ExpireJob.msg, n |-> 0, att |-> 0]
      /\ 0 \in 0 .. MaxPending /\ 0 \in 0 .. MaxAttempts
  BY DEF ExpireJob, MessageJob
<1> QED
  BY <1>1, <1>2 DEF JobType

LEMMA IdleTyped == TxTyped(Idle) /\ Idle.reply = "none" /\ Idle.pc = "idle"
<1>1. NewConv \in ConvTypes
  BY ContextType DEF NewConv, ConvTypes, ConvSteps
<1> QED
  BY <1>1, ContextType, ExpireType DEF Idle, TxTyped, TxTypes, Questions

LEMMA TypeInit == ASSUME Init PROVE TypeInv
<1>1. NewConv \in ConvTypes
  BY ContextType DEF NewConv, ConvTypes, ConvSteps
<1> QED
  BY <1>1, IdleTyped DEF Init, TypeInv, RequestStates

\* A step that moves one worker on.
LEMMA MoveTyped ==
    ASSUME TypeInv, NEW w \in Workers, NEW t, TxTyped(t), Goto(w, t)
    PROVE  tx' = [v \in Workers |-> tx'[v]] /\ \A v \in Workers : TxTyped(tx'[v])
BY DEF TypeInv, Goto

\* One that writes nothing, enqueues nothing and shows nothing.
LEMMA SilentTyped ==
    ASSUME TypeInv, NEW w \in Workers, NEW t, TxTyped(t), Goto(w, t),
           UNCHANGED <<request, conv, overdue, lastArea, jobs, asked, buttons, promised>>
    PROVE  TypeInv'
<1>1. \A u : TxTyped(u)' = TxTyped(u)
  BY DEF TxTyped
<1> QED
  BY <1>1, MoveTyped DEF TypeInv

LEMMA PutBackTyped ==
    ASSUME TypeInv, NEW w \in Workers, PutBack(w)
    PROVE  jobs' \subseteq {j \in JobType : j.att < MaxAttempts}
BY DEF PutBack, TypeInv, TxTyped, TxTypes, JobType

LEMMA RollBackTyped ==
    ASSUME TypeInv, NEW w \in Workers, RollBack(w),
           UNCHANGED <<dbVars, worldVars>>
    PROVE  TypeInv'
<1>1. jobs' \subseteq {j \in JobType : j.att < MaxAttempts}
  BY PutBackTyped DEF RollBack
<1>2. tx' = [v \in Workers |-> tx'[v]] /\ \A v \in Workers : TxTyped(tx'[v])
  BY IdleTyped, MoveTyped DEF RollBack
<1> QED
  BY <1>1, <1>2 DEF TypeInv, dbVars, worldVars

\* Conversations go on from what they are to what the code writes of them.
LEMMA ConvNext ==
    ASSUME NEW c \in ConvTypes, NEW messages \in Context, NEW step \in ConvSteps,
           NEW notes \in SUBSET Facts
    PROVE  /\ [c EXCEPT !.messages = messages, !.step = step] \in ConvTypes
           /\ [c EXCEPT !.messages = messages, !.step = step,
                        !.notes = @ \cup notes] \in ConvTypes
           /\ [c EXCEPT !.messages = messages, !.fallback_mode = TRUE,
                        !.step = step] \in ConvTypes
           /\ [c EXCEPT !.notes = notes, !.step = step] \in ConvTypes
           /\ [c EXCEPT !.notes = @ \cup notes, !.step = step] \in ConvTypes
BY DEF ConvTypes

LEMMA RespondTyped ==
    ASSUME TypeInv, NEW w \in Workers, NEW t, TxTyped(t),
           NEW reply \in {"fixed", "finding", "confirm", "trade", "area"},
           reply \in Questions => t.req \in Requests,
           Respond(w, t, reply), UNCHANGED <<dbVars, jobs, asked, buttons, promised>>
    PROVE  TypeInv'
<1> DEFINE u == [t EXCEPT !.pc = "reply", !.reply = reply]
<1>1. u \in TxTypes /\ u.req = t.req /\ u.reply = reply
  BY DEF TxTyped, TxTypes
<1>2. Goto(w, u)
  BY DEF Respond
<1> HIDE DEF u
<1>3. TxTyped(u)
  BY <1>1 DEF TxTyped
<1> QED
  BY <1>2, <1>3, SilentTyped DEF dbVars

LEMMA ClaimTyped ==
    ASSUME Inv, TypeInv, NEW w \in Workers, NEW j \in jobs, Claim(w, j)
    PROVE  TypeInv'
<1> DEFINE k == [j EXCEPT !.att = @ + 1]
           pc == IF j.msg = ExpireJob.msg THEN "select" ELSE "window"
           t == [Idle EXCEPT !.job = k, !.pc = pc]
<1>1. Goto(w, t) /\ jobs' = jobs \ {j} /\ UNCHANGED <<dbVars, worldVars>>
  BY DEF Claim
<1>2. k \in JobType
  BY DEF TypeInv, JobType
<1> HIDE DEF k
<1>3. pc \in {"select", "window"}
  OBVIOUS
<1> HIDE DEF pc
<1>4. t \in TxTypes /\ t.reply = "none"
  BY <1>2, <1>3, IdleTyped DEF TxTyped, TxTypes
<1> HIDE DEF t
<1>5. TxTyped(t)
  BY <1>4 DEF TxTyped, Questions
<1>6. tx' = [v \in Workers |-> tx'[v]] /\ \A v \in Workers : TxTyped(tx'[v])
  BY <1>1, <1>5, MoveTyped
<1> QED
  BY <1>1, <1>6 DEF TypeInv, dbVars, worldVars

\* A worker that goes on with what it has.
LEMMA PcTyped ==
    ASSUME NEW t, TxTyped(t), NEW pc \in {"read", "commit"}
    PROVE  TxTyped([t EXCEPT !.pc = pc])
<1> DEFINE u == [t EXCEPT !.pc = pc]
<1>1. u \in TxTypes /\ u.req = t.req /\ u.reply = t.reply
  BY DEF TxTyped, TxTypes
<1> HIDE DEF u
<1>2. TxTyped(u)
  BY <1>1 DEF TxTyped
<1> QED
  BY <1>2 DEF u

LEMMA WindowTyped ==
    ASSUME TypeInv, NEW w \in Workers, UpsertWindow(w)
    PROVE  TypeInv'
<1>1. Goto(w, [tx[w] EXCEPT !.pc = "read"]) /\ TxTyped(tx[w])
  BY DEF UpsertWindow, TypeInv
<1> QED
  BY <1>1, PcTyped, SilentTyped DEF UpsertWindow, dbVars, worldVars

LEMMA FixedTyped ==
    ASSUME TypeInv, NEW w \in Workers, ReplyStatus(w) \/ Redirect(w) \/ RefuseRequest(w) \/ Greet(w)
    PROVE  TypeInv'
<1>1. TxTyped(tx[w]) /\ "fixed" \notin Questions
  BY DEF TypeInv, Questions
<1>2. /\ Respond(w, tx[w], "fixed") \/ Goto(w, [tx[w] EXCEPT !.pc = "commit"])
      /\ UNCHANGED <<dbVars, jobs, worldVars>>
  BY DEF ReplyStatus, Redirect, RefuseRequest, Greet, Reading
<1>3. CASE Respond(w, tx[w], "fixed")
  BY <1>1, <1>2, <1>3, RespondTyped DEF worldVars
<1>4. CASE Goto(w, [tx[w] EXCEPT !.pc = "commit"])
  BY <1>1, <1>2, <1>4, PcTyped, SilentTyped DEF dbVars, worldVars
<1> QED
  BY <1>2, <1>3, <1>4

LEMMA ConfirmationTyped ==
    ASSUME Inv, TypeInv, NEW w \in Workers, Confirm(w) \/ Cancel(w) \/ AskAgain(w)
    PROVE  TypeInv'
<1>1. /\ OpenState = "awaiting_confirmation"
      /\ UNCHANGED <<dbVars, jobs, worldVars>>
  BY DEF Confirm, Cancel, AskAgain, Reading, Awaiting
<1>2. OpenRequest \in Requests
  BY <1>1, OnlyOpen DEF OpenState, Inv
<1>3. conv[OpenRequest] \in ConvTypes /\ TxTyped(tx[w])
  BY <1>2 DEF TypeInv
<1>4. ASSUME NEW state \in {"dispatching", "cancelled"}
      PROVE  LET t == [tx[w] EXCEPT !.req = OpenRequest, !.state = state,
                                    !.conv = conv[OpenRequest]]
             IN  TxTyped(t) /\ t.req \in Requests
  BY <1>2, <1>3 DEF TxTyped, TxTypes, RequestStates
<1>5. LET t == [tx[w] EXCEPT !.req = OpenRequest, !.conv = conv[OpenRequest]]
      IN  TxTyped(t) /\ t.req \in Requests
  BY <1>2, <1>3 DEF TxTyped, TxTypes
<1>6. CASE Confirm(w)
  BY <1>1, <1>4, <1>6, RespondTyped DEF Confirm, worldVars
<1>7. CASE Cancel(w)
  BY <1>1, <1>4, <1>7, RespondTyped DEF Cancel, worldVars
<1>8. CASE AskAgain(w)
  BY <1>1, <1>5, <1>8, RespondTyped DEF AskAgain, worldVars
<1> QED
  BY <1>6, <1>7, <1>8

LEMMA AdmittedTyped ==
    ASSUME Inv, TypeInv, NEW w \in Workers, Admitted(w)
    PROVE  TxTyped(OpenOrNew(w)) /\ OpenOrNew(w).req \in Requests
<1>1. OpenOrNew(w).req \in Requests
  BY ReadRequest
<1>2. TxTyped(tx[w])
  BY DEF TypeInv
<1>3. CASE OpenRequest = 0
  <2>1. PICK new : OpenOrNew(w) = [tx[w] EXCEPT !.req = new, !.state = "collecting"]
    BY <1>3 DEF OpenOrNew
  <2>2. new \in Requests
    BY <1>1, <1>2, <2>1 DEF TxTyped, TxTypes
  <2> QED
    BY <1>2, <2>1, <2>2 DEF TxTyped, TxTypes, RequestStates
<1>4. CASE OpenRequest # 0
  <2>1. OpenOrNew(w) = [tx[w] EXCEPT !.req = OpenRequest, !.conv = conv[OpenRequest]]
    BY <1>4 DEF OpenOrNew
  <2>2. OpenRequest \in Requests /\ conv[OpenRequest] \in ConvTypes
    BY <1>4, OnlyOpen DEF Inv, TypeInv
  <2> QED
    BY <1>2, <2>1, <2>2 DEF TxTyped, TxTypes
<1> QED
  BY <1>1, <1>3, <1>4

LEMMA ConvTyped ==
    ASSUME NEW t, TxTyped(t), NEW c \in ConvTypes
    PROVE  /\ TxTyped([t EXCEPT !.conv = c]) /\ [t EXCEPT !.conv = c].req = t.req
           /\ TxTyped([t EXCEPT !.conv = c, !.state = "awaiting_confirmation"])
           /\ [t EXCEPT !.conv = c, !.state = "awaiting_confirmation"].req = t.req
           /\ TxTyped([t EXCEPT !.state = "cancelled"])
BY DEF TxTyped, TxTypes, RequestStates

LEMMA TapTyped ==
    ASSUME Inv, TypeInv, NEW w \in Workers, TapTrade(w) \/ TapArea(w) \/ TapOther(w)
    PROVE  TypeInv'
<1> DEFINE t == OpenOrNew(w)
<1>1. /\ Admitted(w) /\ UNCHANGED <<dbVars, worldVars>>
  BY DEF TapTrade, TapArea, TapOther
<1>2. TxTyped(t) /\ t.req \in Requests /\ t.conv \in ConvTypes
  BY <1>1, AdmittedTyped DEF TxTyped, TxTypes
<1> HIDE DEF t
<1>3. t.conv.messages \in Context
  BY <1>2 DEF ConvTypes
<1>4. CASE TapTrade(w)
  <2> DEFINE c == PickTrade(t.conv)
  <2>1. c \in ConvTypes
    BY <1>2, <1>3, ConvNext DEF PickTrade, ConvSteps, Facts
  <2>2. Respond(w, [t EXCEPT !.conv = c], "area") /\ UNCHANGED jobs
    BY <1>4 DEF TapTrade, t
  <2> HIDE DEF c
  <2> QED
    BY <1>1, <1>2, <2>1, <2>2, ConvTyped, RespondTyped DEF worldVars
<1>5. CASE TapArea(w)
  <2> DEFINE c == [t.conv EXCEPT !.notes = Facts, !.step = "confirm"]
  <2>1. c \in ConvTypes
    BY <1>2, <1>3, ConvNext DEF ConvSteps
  <2>2. /\ Respond(w, [t EXCEPT !.conv = c, !.state = "awaiting_confirmation"], "confirm")
        /\ UNCHANGED jobs
    BY <1>5 DEF TapArea, t
  <2> HIDE DEF c
  <2> QED
    BY <1>1, <1>2, <2>1, <2>2, ConvTyped, RespondTyped DEF worldVars
<1>6. CASE TapOther(w)
  <2>1. CASE RollBack(w)
    BY <1>1, <2>1, RollBackTyped
  <2>2. CASE Respond(w, [t EXCEPT !.state = "cancelled"], "fixed") /\ UNCHANGED jobs
    BY <1>1, <1>2, <2>2, ConvTyped, RespondTyped DEF worldVars, Questions
  <2>3. CASE Goto(w, [tx[w] EXCEPT !.pc = "commit"]) /\ UNCHANGED jobs
    BY <1>1, <2>3, PcTyped, SilentTyped DEF TypeInv, dbVars, worldVars
  <2> QED
    BY <1>6, <2>1, <2>2, <2>3 DEF TapOther, t
<1> QED
  BY <1>4, <1>5, <1>6

LEMMA ConsultTyped ==
    ASSUME Inv, TypeInv, NEW w \in Workers, Consult(w)
    PROVE  TypeInv'
<1> DEFINE t == OpenOrNew(w)
           context == InContext(t.conv.messages, Msg(w).says)
           c == Stored(t.conv, [t.conv EXCEPT !.messages = context, !.step = "cap_reached"], FALSE)
           u == [t EXCEPT !.messages = context, !.pc = "ask"]
<1>1. Admitted(w) /\ UNCHANGED <<dbVars, jobs, worldVars>>
  BY DEF Consult
<1>2. TxTyped(t) /\ t.req \in Requests /\ t.conv \in ConvTypes
  BY <1>1, AdmittedTyped DEF TxTyped, TxTypes
<1>3. Msg(w).says \in SUBSET Facts
  BY SaysFacts DEF TypeInv, TxTyped, TxTypes, JobType, Msg
<1>4. context \in Context
  BY <1>2, <1>3, InContextType DEF ConvTypes
<1>5. Goto(w, u) \/ Respond(w, [t EXCEPT !.conv = c], "fixed")
  BY DEF Consult
<1> HIDE DEF t, context
<1>6. c \in ConvTypes
  BY <1>2, <1>4, ConvNext, StoredType DEF ConvSteps
<1> HIDE DEF c
<1>7. CASE Goto(w, u)
  <2>1. u \in TxTypes /\ u.req = t.req /\ u.reply = t.reply
    BY <1>2, <1>4 DEF TxTyped, TxTypes
  <2> HIDE DEF u
  <2>2. TxTyped(u)
    BY <1>2, <2>1 DEF TxTyped
  <2> QED
    BY <1>1, <1>7, <2>2, SilentTyped DEF dbVars, worldVars
<1>8. CASE Respond(w, [t EXCEPT !.conv = c], "fixed")
  BY <1>1, <1>2, <1>6, <1>8, ConvTyped, RespondTyped DEF worldVars, Questions
<1> QED
  BY <1>5, <1>7, <1>8

\* A transaction that has read the model's answer.
LEMMA ExtractedTyped ==
    ASSUME NEW t, TxTyped(t), t.req \in Requests, NEW facts \in SUBSET Facts, NEW details
    PROVE  TxTyped(Extracted(t, facts, details))
<1> DEFINE known == IF lastArea THEN facts \cup {"area"} ELSE facts
           c(step, notes) == Stored(t.conv, [t.conv EXCEPT !.messages = t.messages,
                                 !.step = step, !.notes = @ \cup notes], details)
           c1 == c("clarify_trade", facts)
           c2 == c("clarify_area", {"trade"})
           c3 == c("confirm", Facts)
           u == Extracted(t, facts, details)
<1>1. u = IF "trade" \notin known THEN [t EXCEPT !.conv = c1, !.reply = "trade"]
          ELSE IF "area" \notin known THEN [t EXCEPT !.conv = c2, !.reply = "area"]
          ELSE [t EXCEPT !.conv = c3, !.reply = "confirm", !.state = "awaiting_confirmation"]
  BY Zenon DEF Extracted
<1>2. t \in TxTypes /\ t.conv \in ConvTypes /\ t.messages \in Context
  BY DEF TxTyped, TxTypes
<1>3. ASSUME NEW step \in ConvSteps, NEW notes \in SUBSET Facts PROVE c(step, notes) \in ConvTypes
  BY <1>2, <1>3, ConvNext, StoredType
<1>4. c1 \in ConvTypes /\ c2 \in ConvTypes /\ c3 \in ConvTypes
  BY <1>3 DEF ConvSteps, Facts
<1> HIDE DEF u, c1, c2, c3, known
<1>5. u \in TxTypes /\ u.req = t.req
  BY <1>1, <1>2, <1>4 DEF TxTypes, RequestStates
<1>6. TxTyped(u)
  BY <1>5 DEF TxTyped
<1> QED
  BY <1>6 DEF u

LEMMA ModelTyped ==
    ASSUME Inv, TypeInv, NEW w \in Workers, ModelFails(w) \/ ModelAnswers(w)
    PROVE  TypeInv'
<1>1. /\ tx[w].pc = "ask" /\ TxTyped(tx[w])
      /\ UNCHANGED <<dbVars, jobs, asked, buttons, promised>>
  BY DEF ModelFails, ModelAnswers, At, TypeInv
<1>2. tx[w].req \in Requests
  BY <1>1 DEF Inv, Handling
<1>3. tx[w] \in TxTypes /\ tx[w].conv \in ConvTypes /\ tx[w].messages \in Context
  BY <1>1 DEF TxTyped, TxTypes
<1>4. CASE ModelFails(w)
  <2> DEFINE c == Stored(tx[w].conv, [tx[w].conv EXCEPT !.messages = tx[w].messages,
                      !.fallback_mode = TRUE, !.step = "fallback_trade"], FALSE)
             t == [tx[w] EXCEPT !.conv = c, !.logs = 2]
  <2>1. c \in ConvTypes
    BY <1>3, ConvNext, StoredType DEF ConvSteps
  <2>2. Respond(w, t, "trade")
    BY <1>4 DEF ModelFails
  <2> HIDE DEF c
  <2>3. t \in TxTypes /\ t.req = tx[w].req
    <3>1. 2 \in 0 .. 2
      OBVIOUS
    <3> QED
      BY <1>3, <2>1, <3>1 DEF TxTypes
  <2> HIDE DEF t
  <2>4. TxTyped(t)
    BY <1>2, <2>3 DEF TxTyped
  <2> QED
    BY <1>1, <1>2, <2>2, <2>3, <2>4, RespondTyped
<1>5. CASE ModelAnswers(w)
  <2>1. PICK n \in {1} \cup (IF FALSE \in ModelUp THEN {2} ELSE {}),
             result \in Extractions(tx[w].messages), details \in BOOLEAN :
            LET t == [tx[w] EXCEPT !.logs = n, !.pc = "reply"] IN
            Goto(w, IF result.is_service_request
                    THEN Extracted(t, result.facts, details)
                    ELSE [t EXCEPT !.reply = "fixed"])
    BY <1>5 DEF ModelAnswers
  <2>2. result.facts \in SUBSET Facts
    BY <1>3, StatedFacts DEF Extractions
  <2>3. n \in 0 .. 2
    <3>1. {1} \subseteq 0 .. 2 /\ {2} \subseteq 0 .. 2
      OBVIOUS
    <3> QED
      BY <3>1
  <2> DEFINE t == [tx[w] EXCEPT !.logs = n, !.pc = "reply"]
             fixed == [t EXCEPT !.reply = "fixed"]
  <2>4. t \in TxTypes /\ t.req = tx[w].req
    BY <1>3, <2>3 DEF TxTypes
  <2>5. Goto(w, IF result.is_service_request THEN Extracted(t, result.facts, details) ELSE fixed)
    BY <2>1
  <2> HIDE DEF t
  <2>6. fixed \in TxTypes /\ fixed.req = t.req
    BY <2>4 DEF TxTypes
  <2> HIDE DEF fixed
  <2>7. TxTyped(t) /\ TxTyped(fixed)
    BY <1>2, <2>4, <2>6 DEF TxTyped
  <2>8. TxTyped(Extracted(t, result.facts, details))
    BY <1>2, <2>2, <2>4, <2>7, ExtractedTyped
  <2>9. \E u : TxTyped(u) /\ Goto(w, u)
    BY <2>5, <2>7, <2>8
  <2> QED
    BY <1>1, <2>9, SilentTyped DEF dbVars
<1> QED
  BY <1>4, <1>5

LEMMA ReplyTyped ==
    ASSUME TypeInv, NEW w \in Workers, Reply(w)
    PROVE  TypeInv'
<1> DEFINE t == tx[w]
<1>1. /\ asked' = ButtonsOf(t.reply, t.req) /\ buttons' = buttons \cup asked'
      /\ promised' = IF t.reply = "finding" THEN promised \cup {t.req} ELSE promised
      /\ Goto(w, [t EXCEPT !.pc = "commit"])
      /\ UNCHANGED <<dbVars, jobs>>
  BY DEF Reply
<1>2. TxTyped(t)
  BY DEF TypeInv
<1>3. ButtonsOf(t.reply, t.req) \subseteq Taps
  <2>1. t.reply \in {"confirm", "trade", "area"} => t.req \in Requests
    BY <1>2 DEF TxTyped, Questions
  <2>2. CASE t.reply = "confirm"
    BY <2>1, <2>2 DEF ButtonsOf, Taps, Buttons
  <2>3. CASE t.reply \in {"trade", "area"}
    BY <2>1, <2>3 DEF ButtonsOf, Taps, Buttons
  <2>4. CASE t.reply \notin {"confirm", "trade", "area"}
    BY <2>4 DEF ButtonsOf
  <2> QED
    BY <2>2, <2>3, <2>4
<1>4. promised' \subseteq Requests
  BY <1>1, <1>2 DEF TxTyped, Questions, TypeInv
<1>5. tx' = [v \in Workers |-> tx'[v]] /\ \A v \in Workers : TxTyped(tx'[v])
  BY <1>1, <1>2, PcTyped, MoveTyped
<1> HIDE DEF t
<1>6. asked' \subseteq buttons' /\ buttons' \subseteq Taps
  BY <1>1, <1>3 DEF TypeInv
<1> QED
  BY <1>1, <1>4, <1>5, <1>6 DEF TypeInv, dbVars

LEMMA SelectTyped ==
    ASSUME TypeInv, NEW w \in Workers, SelectUnconfirmed(w)
    PROVE  TypeInv'
<1> DEFINE late == {r \in overdue : request[r] \in Expirable}
           t == [tx[w] EXCEPT !.expire = late, !.pc = "commit"]
<1>1. late \in SUBSET Requests /\ TxTyped(tx[w])
  BY DEF TypeInv
<1>2. Goto(w, t) /\ UNCHANGED <<dbVars, jobs, worldVars>>
  BY DEF SelectUnconfirmed
<1> HIDE DEF late
<1>3. t \in TxTypes /\ t.req = tx[w].req /\ t.reply = tx[w].reply
  BY <1>1 DEF TxTyped, TxTypes
<1> HIDE DEF t
<1>4. TxTyped(t)
  BY <1>1, <1>3 DEF TxTyped
<1> QED
  BY <1>2, <1>4, SilentTyped DEF dbVars, worldVars

LEMMA CommitTyped ==
    ASSUME Inv, TypeInv, NEW w \in Workers, Commit(w) \/ LoseAck(w)
    PROVE  TypeInv'
<1> DEFINE t == tx[w]
<1>1. /\ request' = [q \in Requests |-> Written(t, q)]
      /\ conv' = [q \in Requests |-> IF q = t.req THEN t.conv ELSE conv[q]]
      /\ overdue' \subseteq overdue
      /\ lastArea' = (lastArea \/ t.state = "dispatching")
      /\ Goto(w, Idle)
      /\ UNCHANGED worldVars
  BY DEF Commit, LoseAck, TakeEffect
<1>6. jobs' \subseteq {j \in JobType : j.att < MaxAttempts}
  BY PutBackTyped DEF Commit, LoseAck, TypeInv
<1>2. t.state \in {Keep} \cup RequestStates /\ t.conv \in ConvTypes
  BY DEF TypeInv, TxTyped, TxTypes
<1> HIDE DEF t
<1>3. request' \in [Requests -> RequestStates]
  <2>1. \A q \in Requests : Written(t, q) \in RequestStates
    BY <1>2 DEF Written, RequestStates, TypeInv
  <2> QED
    BY <1>1, <2>1
<1>4. conv' \in [Requests -> ConvTypes] /\ overdue' \subseteq Requests /\ lastArea' \in BOOLEAN
  BY <1>1, <1>2 DEF TypeInv
<1>5. tx' = [v \in Workers |-> tx'[v]] /\ \A v \in Workers : TxTyped(tx'[v])
  BY <1>1, IdleTyped, MoveTyped
<1> QED
  BY <1>1, <1>3, <1>4, <1>5, <1>6 DEF TypeInv, worldVars

LEMMA FaultTyped ==
    ASSUME TypeInv, NEW w \in Workers, Fault(w) \/ Crash(w)
    PROVE  TypeInv'
<1>1. CASE Fault(w)
  BY <1>1, RollBackTyped DEF Fault
<1>2. CASE Crash(w)
  BY <1>2, IdleTyped, SilentTyped DEF Crash, dbVars, worldVars
<1> QED
  BY <1>1, <1>2

LEMMA ArriveTyped ==
    ASSUME TypeInv, NEW m \in Phrases \cup buttons, Arrive(m), asked' \subseteq asked
    PROVE  TypeInv'
<1>1. PICK n \in 1 .. MaxPending : jobs' = jobs \cup {MessageJob(m, n)}
  BY DEF Arrive
<1>2. m \in Messages
  BY DEF TypeInv, Taps, Messages
<1>3. MessageJob(m, n) \in JobType /\ MessageJob(m, n).att < MaxAttempts
  BY <1>2 DEF MessageJob, JobType
<1>4. UNCHANGED <<request, conv, overdue, lastArea, tx, buttons, promised>>
  BY DEF Arrive, dbVars
<1>5. \A t : TxTyped(t)' = TxTyped(t)
  BY DEF TxTyped
<1> QED
  BY <1>1, <1>3, <1>4, <1>5 DEF TypeInv

LEMMA WorldTyped ==
    ASSUME TypeInv,
           \/ ExpireDue
           \/ \E r \in Requests : Age(r) \/ Dispatched(r)
           \/ \E m \in Phrases \cup buttons : Write(m)
           \/ \E m \in Phrases : Begin(m)
           \/ \E b \in asked : Answer(b)
           \/ UNCHANGED vars
    PROVE  TypeInv'
<1>1. CASE ExpireDue
  <2>1. jobs' = jobs \cup {ExpireJob} /\ UNCHANGED <<dbVars, tx, worldVars>>
    BY <1>1 DEF ExpireDue
  <2>2. ExpireJob \in {j \in JobType : j.att < MaxAttempts}
    BY ExpireType
  <2> QED
    BY <2>1, <2>2 DEF TypeInv, dbVars, worldVars
<1>2. ASSUME NEW r \in Requests, Age(r) PROVE TypeInv'
  BY <1>2 DEF Age, TypeInv, worldVars
<1>3. ASSUME NEW r \in Requests, Dispatched(r) PROVE TypeInv'
  BY <1>3 DEF Dispatched, TypeInv, RequestStates, worldVars
<1>4. CASE \E m \in Phrases \cup buttons : Write(m)
  BY <1>4, ArriveTyped DEF Write
<1>5. CASE \E m \in Phrases : Begin(m)
  BY <1>5, ArriveTyped DEF Begin
<1>6. CASE \E b \in asked : Answer(b)
  BY <1>6, ArriveTyped DEF Answer, TypeInv
<1>7. CASE UNCHANGED vars
  BY <1>7 DEF TypeInv, vars, dbVars, worldVars
<1> QED
  BY <1>1, <1>2, <1>3, <1>4, <1>5, <1>6, <1>7

LEMMA TypeStep == ASSUME Inv, TypeInv, [Next]_vars PROVE TypeInv'
<1>1. ASSUME NEW w \in Workers, Step(w) \/ Fault(w) \/ LoseAck(w) \/ Crash(w) PROVE TypeInv'
  BY <1>1, ClaimTyped, WindowTyped, FixedTyped, ConfirmationTyped, TapTyped, ConsultTyped,
     ModelTyped, ReplyTyped, CommitTyped, SelectTyped, FaultTyped DEF Step
<1> QED
  BY <1>1, WorldTyped DEF Next

LEMMA TypeInvariant == Spec => []TypeInv
<1>1. Inv /\ TypeInv /\ [Next]_vars => TypeInv'
  BY TypeStep
<1> QED
  BY <1>1, TypeInit, SpecInv, PTL DEF Spec

\* Tables, jobs and transactions have their types, and no context sent to the
\* model or stored is longer than its limit (services/intake.py, services/ai.py).
THEOREM IntakeTyped == Spec => []TypeOK
BY TypeInvariant, SpecInv, TypeInvIsEnough, PTL

-----------------------------------------------------------------------------
(* The transitions. What a transaction is about to write follows from the  *)
(* state it has read, which nobody else moves on: the holder of the window *)
(* is alone in moving a request, but for dispatch, which moves none that   *)
(* intake is about to move, and for expire_unconfirmed, which looks at the *)
(* rows and writes them later without a lock. That one must not run beside *)
(* another job, or not at all: nothing in the repository enqueues it.      *)

Undisputed == ~ Expiring \/ \A v, w \in Workers : v = w

NoExpiry ==
    ~ Expiring =>
        /\ \A j \in jobs : j.msg # ExpireJob.msg
        /\ \A w \in Workers : /\ tx[w].pc # "select" /\ tx[w].expire = {}
                              /\ tx[w].pc # "idle" => tx[w].job.msg # ExpireJob.msg

\* What transaction t will write is a valid step from what is there.
Steady(t) ==
    /\ \A r \in t.expire : request[r] \in Unconfirmed
    /\ t.state # Keep => ValidStep(request[t.req], t.state)
    /\ t.pc = "ask" => request[t.req] \in {"none", "collecting"}

ValidInv == NoExpiry /\ \A w \in Workers : Steady(tx[w])

\* The customer never says what the expirer's jobs say.
LEMMA NeverExpire ==
    ASSUME TypeInv, NEW m \in Phrases \cup buttons
    PROVE  m # ExpireJob.msg
<1>1. ExpireJob.msg.kind = "expire"
  BY DEF ExpireJob, MessageJob, Text
<1>2. CASE m \in Phrases
  <2>1. m.kind \in {"trivial", "yes", "contacts", "text"}
    BY <1>2 DEF Text
  <2> QED
    BY <1>1, <2>1
<1>3. CASE m \in buttons
  <2>1. m.kind \in Buttons
    BY <1>3 DEF TypeInv, Taps, Tap
  <2> QED
    BY <1>1, <2>1 DEF Buttons
<1> QED
  BY <1>2, <1>3

LEMMA IdleSteady == Idle.expire = {} /\ Idle.state = Keep /\ Idle.pc = "idle" /\ Idle.req = 0
BY DEF Idle

LEMMA ValidInit == ASSUME Init PROVE ValidInv
BY IdleSteady DEF Init, ValidInv, NoExpiry, Steady

\* A step that moves one worker on and no request.
LEMMA MoveValid ==
    ASSUME Inv, ValidInv, NEW w \in Workers, NEW t, Goto(w, t), Steady(t), UNCHANGED request,
           ~ Expiring =>
               /\ \A j \in jobs' : j.msg # ExpireJob.msg
               /\ t.pc # "select" /\ t.expire = {}
               /\ t.pc # "idle" => t.job.msg # ExpireJob.msg
    PROVE  ValidInv'
<1>1. tx'[w] = t /\ \A v \in Workers \ {w} : tx'[v] = tx[v]
  BY DEF Goto, Inv, Typed
<1>2. \A u : Steady(u)' = Steady(u)
  BY DEF Steady
<1>3. ExpireJob' = ExpireJob
  BY DEF ExpireJob, MessageJob
<1> QED
  BY <1>1, <1>2, <1>3 DEF ValidInv, NoExpiry

\* It gives up, and maybe puts its job back.
LEMMA DropValid ==
    ASSUME Inv, ValidInv, NEW w \in Workers, tx[w].pc # "idle", Goto(w, Idle),
           jobs' \subseteq jobs \cup {tx[w].job}, UNCHANGED request
    PROVE  ValidInv'
<1>1. Steady(Idle)
  BY IdleSteady DEF Steady
<1>2. ~ Expiring => \A j \in jobs' : j.msg # ExpireJob.msg
  BY DEF ValidInv, NoExpiry
<1> QED
  BY <1>1, <1>2, IdleSteady, MoveValid

\* It goes on with the same job.
LEMMA GoOnValid ==
    ASSUME Inv, ValidInv, NEW w \in Workers, NEW t, Goto(w, t), UNCHANGED <<request, jobs>>,
           tx[w].pc \notin {"idle", "select"},
           t.job = tx[w].job, t.expire = tx[w].expire, t.pc \notin {"idle", "select"},
           t.state # Keep => ValidStep(request[t.req], t.state),
           t.pc = "ask" => request[t.req] \in {"none", "collecting"}
    PROVE  ValidInv'
<1>1. Steady(t)
  BY DEF ValidInv, Steady
<1>2. ~ Expiring => /\ \A j \in jobs' : j.msg # ExpireJob.msg
                    /\ t.pc # "select" /\ t.expire = {}
                    /\ t.pc # "idle" => t.job.msg # ExpireJob.msg
  BY DEF ValidInv, NoExpiry
<1> QED
  BY <1>1, <1>2, MoveValid

LEMMA RespondValid ==
    ASSUME Inv, ValidInv, NEW w \in Workers, tx[w].pc = "read", NEW t, NEW reply,
           DOMAIN t = Fields, t.job = tx[w].job, t.expire = tx[w].expire,
           t.state # Keep => ValidStep(request[t.req], t.state),
           Respond(w, t, reply), UNCHANGED <<request, jobs>>
    PROVE  ValidInv'
<1> DEFINE u == [t EXCEPT !.pc = "reply", !.reply = reply]
<1>1. /\ u.job = t.job /\ u.expire = t.expire /\ u.state = t.state /\ u.req = t.req
      /\ u.pc = "reply"
  BY DEF Fields
<1>2. Goto(w, u)
  BY DEF Respond
<1> HIDE DEF u
<1> QED
  BY <1>1, <1>2, GoOnValid

LEMMA ClaimValid ==
    ASSUME Inv, TypeInv, ValidInv, NEW w \in Workers, NEW j \in jobs, Claim(w, j)
    PROVE  ValidInv'
<1> DEFINE k == [j EXCEPT !.att = @ + 1]
           pc == IF j.msg = ExpireJob.msg THEN "select" ELSE "window"
           t == [Idle EXCEPT !.job = k, !.pc = pc]
<1>1. Goto(w, t) /\ jobs' = jobs \ {j} /\ UNCHANGED request
  BY DEF Claim, dbVars
<1>2. k.msg = j.msg
  BY DEF TypeInv, JobType
<1>3. t.job = k /\ t.pc = pc /\ t.expire = {} /\ t.state = Keep
  BY DEF Idle
<1>4. pc # "ask" /\ (~ Expiring => pc # "select")
  BY DEF ValidInv, NoExpiry
<1> HIDE DEF t, k, pc
<1>5. Steady(t)
  BY <1>3, <1>4 DEF Steady
<1>6. ~ Expiring => /\ \A i \in jobs' : i.msg # ExpireJob.msg
                    /\ t.pc # "select" /\ t.expire = {}
                    /\ t.pc # "idle" => t.job.msg # ExpireJob.msg
  BY <1>1, <1>2, <1>3, <1>4 DEF ValidInv, NoExpiry
<1> QED
  BY <1>1, <1>5, <1>6, MoveValid

LEMMA ReadValid ==
    ASSUME Inv, ValidInv, NEW w \in Workers,
           ReplyStatus(w) \/ Redirect(w) \/ RefuseRequest(w) \/ Greet(w)
    PROVE  ValidInv'
<1>1. tx[w].pc = "read" /\ UNCHANGED <<request, jobs>>
  BY DEF ReplyStatus, Redirect, RefuseRequest, Greet, Reading, Collecting, At, dbVars
<1>2. DOMAIN tx[w] = Fields /\ tx[w].state = Keep
  BY <1>1, AtRead
<1>3. CASE Respond(w, tx[w], "fixed")
  BY <1>1, <1>2, <1>3, RespondValid
<1>4. CASE Goto(w, [tx[w] EXCEPT !.pc = "commit"])
  <2> DEFINE u == [tx[w] EXCEPT !.pc = "commit"]
  <2>1. u.job = tx[w].job /\ u.expire = tx[w].expire /\ u.state = Keep /\ u.pc = "commit"
    BY <1>2 DEF Fields
  <2>2. Goto(w, u)
    BY <1>4
  <2> HIDE DEF u
  <2> QED
    BY <1>1, <2>1, <2>2, GoOnValid
<1> QED
  BY <1>3, <1>4 DEF ReplyStatus, Redirect, RefuseRequest, Greet

LEMMA ConfirmationValid ==
    ASSUME Inv, ValidInv, NEW w \in Workers, Confirm(w) \/ Cancel(w) \/ AskAgain(w)
    PROVE  ValidInv'
<1>1. /\ tx[w].pc = "read" /\ OpenState = "awaiting_confirmation"
      /\ UNCHANGED <<request, jobs>>
  BY DEF Confirm, Cancel, AskAgain, Reading, Awaiting, At, dbVars
<1>2. request[OpenRequest] = "awaiting_confirmation"
  BY <1>1 DEF OpenState
<1>3. DOMAIN tx[w] = Fields /\ tx[w].state = Keep
  BY <1>1, AtRead
<1>4. ASSUME NEW state \in {"dispatching", "cancelled"}, NEW reply,
             Respond(w, [tx[w] EXCEPT !.req = OpenRequest, !.state = state,
                                      !.conv = conv[OpenRequest]], reply)
      PROVE  ValidInv'
  <2> DEFINE t == [tx[w] EXCEPT !.req = OpenRequest, !.state = state, !.conv = conv[OpenRequest]]
  <2>1. /\ DOMAIN t = Fields /\ t.job = tx[w].job /\ t.expire = tx[w].expire
        /\ t.req = OpenRequest /\ t.state = state
    BY <1>3 DEF Fields
  <2>2. Respond(w, t, reply)
    BY <1>4
  <2> HIDE DEF t
  <2>3. ValidStep(request[t.req], t.state)
    BY <1>2, <2>1 DEF ValidStep
  <2> QED
    BY <1>1, <2>1, <2>2, <2>3, RespondValid
<1>5. ASSUME Respond(w, [tx[w] EXCEPT !.req = OpenRequest, !.conv = conv[OpenRequest]], "confirm")
      PROVE  ValidInv'
  <2> DEFINE t == [tx[w] EXCEPT !.req = OpenRequest, !.conv = conv[OpenRequest]]
  <2>1. DOMAIN t = Fields /\ t.job = tx[w].job /\ t.expire = tx[w].expire /\ t.state = Keep
    BY <1>3 DEF Fields
  <2>2. Respond(w, t, "confirm")
    BY <1>5
  <2> HIDE DEF t
  <2> QED
    BY <1>1, <2>1, <2>2, RespondValid
<1> QED
  BY <1>4, <1>5 DEF Confirm, Cancel, AskAgain

\* The request a message is about is not confirmed yet.
LEMMA AdmittedValid ==
    ASSUME Inv, NEW w \in Workers, Admitted(w)
    PROVE  LET t == OpenOrNew(w) IN
           /\ DOMAIN t = Fields /\ t.job = tx[w].job /\ t.expire = tx[w].expire
           /\ request[t.req] \in {"none", "collecting"}
           /\ OpenRequest # 0 => request[t.req] = "collecting"
           /\ t.state # Keep => ValidStep(request[t.req], t.state)
<1>1. tx[w].pc = "read"
  BY DEF Admitted, Collecting, At
<1>2. DOMAIN tx[w] = Fields /\ tx[w].state = Keep
  BY <1>1, AtRead
<1>3. CASE OpenRequest = 0
  <2>1. request[OpenOrNew(w).req] = "none"
    BY <1>1, <1>3, NewRequest DEF Admitted
  <2>2. LET t == OpenOrNew(w) IN
        DOMAIN t = Fields /\ t.job = tx[w].job /\ t.expire = tx[w].expire /\ t.state = "collecting"
    BY <1>2, <1>3 DEF OpenOrNew, Fields
  <2> QED
    BY <1>3, <2>1, <2>2 DEF ValidStep
<1>4. CASE OpenRequest # 0
  <2>1. LET t == OpenOrNew(w) IN
        /\ DOMAIN t = Fields /\ t.job = tx[w].job /\ t.expire = tx[w].expire
        /\ t.req = OpenRequest /\ t.state = Keep
    BY <1>2, <1>4 DEF OpenOrNew, Fields
  <2>2. request[OpenRequest] = "collecting"
    BY <1>4, OnlyOpen DEF Inv, Admitted, Collecting, OpenState, BeyondIntake, Awaiting, OpenStates
  <2> QED
    BY <2>1, <2>2
<1> QED
  BY <1>3, <1>4

LEMMA TapValid ==
    ASSUME Inv, ValidInv, NEW w \in Workers, TapTrade(w) \/ TapArea(w) \/ TapOther(w)
    PROVE  ValidInv'
<1> DEFINE t == OpenOrNew(w)
<1>1. Admitted(w) /\ tx[w].pc = "read" /\ OpenRequest # 0 /\ UNCHANGED request
  BY DEF TapTrade, TapArea, TapOther, InFallback, Admitted, Collecting, At, dbVars
<1>2. /\ DOMAIN t = Fields /\ t.job = tx[w].job /\ t.expire = tx[w].expire
      /\ request[t.req] = "collecting"
      /\ t.state # Keep => ValidStep(request[t.req], t.state)
  BY <1>1, AdmittedValid
<1>3. CASE TapTrade(w)
  <2> DEFINE u == [t EXCEPT !.conv = PickTrade(@)]
  <2>1. Respond(w, u, "area") /\ UNCHANGED jobs
    BY <1>3 DEF TapTrade
  <2> HIDE DEF t
  <2>2. /\ DOMAIN u = Fields /\ u.job = t.job /\ u.expire = t.expire /\ u.req = t.req
        /\ u.state = t.state
    BY <1>2 DEF Fields
  <2> HIDE DEF u
  <2> QED
    BY <1>1, <1>2, <2>1, <2>2, RespondValid
<1>4. CASE TapArea(w)
  <2> DEFINE u == [t EXCEPT !.conv = [@ EXCEPT !.notes = Facts, !.step = "confirm"],
                            !.state = "awaiting_confirmation"]
  <2>1. Respond(w, u, "confirm") /\ UNCHANGED jobs
    BY <1>4 DEF TapArea
  <2> HIDE DEF t
  <2>2. /\ DOMAIN u = Fields /\ u.job = t.job /\ u.expire = t.expire /\ u.req = t.req
        /\ u.state = "awaiting_confirmation"
    BY <1>2 DEF Fields
  <2> HIDE DEF u
  <2>3. ValidStep(request[u.req], u.state)
    BY <1>2, <2>2 DEF ValidStep
  <2> QED
    BY <1>1, <1>2, <2>1, <2>2, <2>3, RespondValid
<1>5. CASE TapOther(w)
  <2>1. CASE RollBack(w)
    BY <1>1, <2>1, DropValid DEF RollBack, PutBack
  <2>2. CASE Respond(w, [t EXCEPT !.state = "cancelled"], "fixed") /\ UNCHANGED jobs
    <3> DEFINE u == [t EXCEPT !.state = "cancelled"]
    <3>1. Respond(w, u, "fixed") /\ UNCHANGED jobs
      BY <2>2
    <3> HIDE DEF t
    <3>2. /\ DOMAIN u = Fields /\ u.job = t.job /\ u.expire = t.expire /\ u.req = t.req
          /\ u.state = "cancelled"
      BY <1>2 DEF Fields
    <3> HIDE DEF u
    <3>3. ValidStep(request[u.req], u.state)
      BY <1>2, <3>2 DEF ValidStep
    <3> QED
      BY <1>1, <1>2, <3>1, <3>2, <3>3, RespondValid
  <2>3. CASE Goto(w, [tx[w] EXCEPT !.pc = "commit"]) /\ UNCHANGED jobs
    <3> DEFINE u == [tx[w] EXCEPT !.pc = "commit"]
    <3>1. u.job = tx[w].job /\ u.expire = tx[w].expire /\ u.state = Keep /\ u.pc = "commit"
      BY <1>1, AtRead DEF Fields
    <3>2. Goto(w, u)
      BY <2>3
    <3> HIDE DEF u
    <3> QED
      BY <1>1, <2>3, <3>1, <3>2, GoOnValid
  <2> QED
    BY <1>5, <2>1, <2>2, <2>3 DEF TapOther
<1> QED
  BY <1>3, <1>4, <1>5

LEMMA ConsultValid ==
    ASSUME Inv, ValidInv, NEW w \in Workers, Consult(w)
    PROVE  ValidInv'
<1> DEFINE t == OpenOrNew(w)
           context == InContext(t.conv.messages, Msg(w).says)
           c == Stored(t.conv, [t.conv EXCEPT !.messages = context, !.step = "cap_reached"], FALSE)
           u == [t EXCEPT !.messages = context, !.pc = "ask"]
           v == [t EXCEPT !.conv = c]
<1>1. Admitted(w) /\ tx[w].pc = "read" /\ UNCHANGED <<request, jobs>>
  BY DEF Consult, Admitted, Collecting, At, dbVars
<1>2. /\ DOMAIN t = Fields /\ t.job = tx[w].job /\ t.expire = tx[w].expire
      /\ request[t.req] \in {"none", "collecting"}
      /\ t.state # Keep => ValidStep(request[t.req], t.state)
  BY <1>1, AdmittedValid
<1>3. Goto(w, u) \/ Respond(w, v, "fixed")
  BY DEF Consult
<1> HIDE DEF t, context, c
<1>4. /\ u.job = t.job /\ u.expire = t.expire /\ u.req = t.req /\ u.state = t.state /\ u.pc = "ask"
      /\ DOMAIN v = Fields /\ v.job = t.job /\ v.expire = t.expire /\ v.req = t.req /\ v.state = t.state
  BY <1>2 DEF Fields
<1> HIDE DEF u, v
<1>5. CASE Goto(w, u)
  BY <1>1, <1>2, <1>4, <1>5, GoOnValid
<1>6. CASE Respond(w, v, "fixed")
  BY <1>1, <1>2, <1>4, <1>6, RespondValid
<1> QED
  BY <1>3, <1>5, <1>6

LEMMA ModelValid ==
    ASSUME Inv, ValidInv, NEW w \in Workers, ModelFails(w) \/ ModelAnswers(w)
    PROVE  ValidInv'
<1>1. tx[w].pc = "ask" /\ UNCHANGED <<request, jobs>>
  BY DEF ModelFails, ModelAnswers, At, dbVars
<1>2. /\ DOMAIN tx[w] = Fields /\ request[tx[w].req] \in {"none", "collecting"}
      /\ tx[w].state # Keep => ValidStep(request[tx[w].req], tx[w].state)
  BY <1>1 DEF Inv, Typed, ValidInv, Steady
<1>3. \E t : /\ Goto(w, t) /\ t.pc = "reply" /\ t.req = tx[w].req
             /\ t.job = tx[w].job /\ t.expire = tx[w].expire
             /\ t.state = tx[w].state \/ t.state = "awaiting_confirmation"
  <2>1. CASE ModelFails(w)
    <3> DEFINE c == Stored(tx[w].conv, [tx[w].conv EXCEPT !.messages = tx[w].messages,
                        !.fallback_mode = TRUE, !.step = "fallback_trade"], FALSE)
               u == [tx[w] EXCEPT !.conv = c, !.logs = 2]
               t == [u EXCEPT !.pc = "reply", !.reply = "trade"]
    <3>1. Goto(w, t)
      BY <2>1 DEF ModelFails, Respond
    <3> HIDE DEF c
    <3>2. /\ t.pc = "reply" /\ t.req = tx[w].req /\ t.state = tx[w].state
          /\ t.job = tx[w].job /\ t.expire = tx[w].expire
      BY <1>2 DEF Fields
    <3> HIDE DEF t
    <3> QED
      BY <3>1, <3>2
  <2>2. CASE ModelAnswers(w)
    <3>1. PICK n, result, details :
              LET t == [tx[w] EXCEPT !.logs = n, !.pc = "reply"] IN
              Goto(w, IF result.is_service_request
                      THEN Extracted(t, result.facts, details)
                      ELSE [t EXCEPT !.reply = "fixed"])
      BY <2>2 DEF ModelAnswers
    <3> DEFINE t == [tx[w] EXCEPT !.logs = n, !.pc = "reply"]
               fixed == [t EXCEPT !.reply = "fixed"]
               seen == Extracted(t, result.facts, details)
    <3>2. /\ DOMAIN t = Fields /\ t.pc = "reply" /\ t.req = tx[w].req /\ t.state = tx[w].state
          /\ t.job = tx[w].job /\ t.expire = tx[w].expire
      BY <1>2 DEF Fields
    <3>3. Goto(w, seen) \/ Goto(w, fixed)
      BY <3>1
    <3> HIDE DEF t
    <3>4. /\ fixed.pc = "reply" /\ fixed.req = t.req /\ fixed.state = t.state
          /\ fixed.job = t.job /\ fixed.expire = t.expire
      BY <3>2 DEF Fields
    <3>5. /\ seen.pc = "reply" /\ seen.req = t.req /\ seen.job = t.job /\ seen.expire = t.expire
          /\ seen.state = t.state \/ seen.state = "awaiting_confirmation"
      BY <3>2, ExtractedShape
    <3> HIDE DEF fixed, seen
    <3> QED
      BY <3>2, <3>3, <3>4, <3>5
  <2> QED
    BY <2>1, <2>2
<1>4. PICK t : /\ Goto(w, t) /\ t.pc = "reply" /\ t.req = tx[w].req
               /\ t.job = tx[w].job /\ t.expire = tx[w].expire
               /\ t.state = tx[w].state \/ t.state = "awaiting_confirmation"
  BY <1>3
<1>5. t.state # Keep => ValidStep(request[t.req], t.state)
  BY <1>2, <1>4 DEF ValidStep
<1> QED
  BY <1>1, <1>4, <1>5, GoOnValid

LEMMA MoveOnValid ==
    ASSUME Inv, ValidInv, NEW w \in Workers, UpsertWindow(w) \/ Reply(w)
    PROVE  ValidInv'
<1>1. PICK pc \in {"read", "commit"} : Goto(w, [tx[w] EXCEPT !.pc = pc])
  BY DEF UpsertWindow, Reply
<1>2. tx[w].pc \in {"window", "reply"} /\ UNCHANGED <<request, jobs>>
  BY DEF UpsertWindow, Reply, At, dbVars
<1> DEFINE t == [tx[w] EXCEPT !.pc = pc]
<1>3. /\ t.job = tx[w].job /\ t.expire = tx[w].expire /\ t.pc = pc
      /\ t.state = tx[w].state /\ t.req = tx[w].req
  BY DEF Inv, Typed, Fields
<1>4. Goto(w, t) /\ (tx[w].state # Keep => ValidStep(request[tx[w].req], tx[w].state))
  BY <1>1 DEF ValidInv, Steady
<1> HIDE DEF t
<1> QED
  BY <1>2, <1>3, <1>4, GoOnValid

LEMMA SelectValid ==
    ASSUME Inv, ValidInv, NEW w \in Workers, SelectUnconfirmed(w)
    PROVE  ValidInv'
<1> DEFINE late == {r \in overdue : request[r] \in Expirable}
           t == [tx[w] EXCEPT !.expire = late, !.pc = "commit"]
<1>1. /\ tx[w].pc = "select" /\ DOMAIN tx[w] = Fields /\ Handling(w, tx[w])
      /\ Goto(w, t) /\ UNCHANGED <<request, jobs>>
  BY DEF SelectUnconfirmed, At, dbVars, Inv, Typed
<1>2. Expiring
  BY <1>1 DEF ValidInv, NoExpiry
<1>3. t.expire = late /\ t.state = Keep /\ t.pc = "commit"
  BY <1>1 DEF Handling, Fields
<1>4. \A r \in late : request[r] \in Unconfirmed
  BY DEF Expirable
<1> HIDE DEF t, late
<1>5. Steady(t)
  BY <1>3, <1>4 DEF Steady
<1> QED
  BY <1>1, <1>2, <1>5, MoveValid

LEMMA FaultValid ==
    ASSUME Inv, ValidInv, NEW w \in Workers, Fault(w) \/ Crash(w)
    PROVE  ValidInv'
BY DropValid DEF Fault, Crash, RollBack, PutBack, At, dbVars

\* Nobody else's commit, and none by the expirer, moves a request away from
\* what a transaction has read.
LEMMA CommitValid ==
    ASSUME Undisputed, Inv, ValidInv, NEW w \in Workers, Commit(w) \/ LoseAck(w)
    PROVE  /\ ValidInv'
           /\ \A r \in Requests : ValidStep(request[r], request'[r])
<1> DEFINE t == tx[w]
<1>1. /\ request' = [q \in Requests |-> Written(t, q)]
      /\ Goto(w, Idle) /\ t.pc = "commit"
      /\ jobs' \subseteq jobs \cup {t.job}
  BY DEF Commit, LoseAck, TakeEffect, PutBack, At
<1>2. tx'[w] = Idle /\ \A v \in Workers \ {w} : tx'[v] = tx[v]
  BY <1>1 DEF Goto, Inv, Typed
<1>3. Handling(w, t) /\ Steady(t)
  BY DEF Inv, ValidInv
<1>4. \A r \in Requests : ValidStep(request[r], request'[r])
  BY <1>1, <1>3 DEF Written, Steady, ValidStep, Unconfirmed
<1>5. NoExpiry'
  <2>1. ~ Expiring => \A j \in jobs' : j.msg # ExpireJob.msg
    BY <1>1 DEF ValidInv, NoExpiry
  <2> QED
    BY <1>2, <2>1, IdleSteady DEF ValidInv, NoExpiry, ExpireJob, MessageJob
<1>6. ASSUME NEW v \in Workers \ {w} PROVE Steady(tx[v])'
  <2>1. ~ Expiring /\ t.expire = {} /\ tx[v].expire = {}
    BY DEF Undisputed, ValidInv, NoExpiry
  <2>2. Handling(v, tx[v]) /\ Steady(tx[v])
    BY DEF Inv, ValidInv
  <2>3. CASE window = v
    <3>1. t.req = 0 /\ t.state = Keep
      BY <1>3, <2>3 DEF Handling
    <3>2. \A q \in Requests : request'[q] = request[q]
      BY <1>1, <2>1, <3>1 DEF Written
    <3>3. (tx[v].state # Keep \/ tx[v].pc = "ask") => tx[v].req \in Requests
      BY <2>2 DEF Handling
    <3> QED
      BY <1>2, <2>1, <2>2, <3>2, <3>3 DEF Steady
  <2>4. CASE window # v
    <3>1. tx[v].state = Keep /\ tx[v].pc # "ask"
      BY <2>2, <2>4 DEF Handling
    <3> QED
      BY <1>2, <2>1, <3>1 DEF Steady
  <2> QED
    BY <2>3, <2>4
<1>7. Steady(tx[w])'
  BY <1>2, IdleSteady DEF Steady
<1> QED
  BY <1>4, <1>5, <1>6, <1>7 DEF ValidInv

\* Dispatch moves none that intake may be about to move.
LEMMA DispatchedValid ==
    ASSUME Inv, TypeInv, ValidInv, NEW r \in Requests, Dispatched(r)
    PROVE  /\ ValidInv'
           /\ \A q \in Requests : ValidStep(request[q], request'[q])
<1>1. /\ request[r] = "dispatching" /\ UNCHANGED <<jobs, tx>>
      /\ \E outcome \in {"assigned", "unfilled"} : request' = [request EXCEPT ![r] = outcome]
  BY DEF Dispatched
<1>2. \A q \in Requests : q # r => request'[q] = request[q]
  BY <1>1 DEF Inv, Typed
<1>3. \A q \in Requests : ValidStep(request[q], request'[q])
  BY <1>1, <1>2 DEF Inv, Typed, ValidStep
<1>4. NoExpiry'
  BY <1>1 DEF ValidInv, NoExpiry, ExpireJob, MessageJob
<1>5. ASSUME NEW w \in Workers PROVE Steady(tx[w])'
  <2>1. Handling(w, tx[w]) /\ Steady(tx[w]) /\ dispatches[r] = 1
    BY <1>1 DEF Inv, ValidInv, Rows
  <2>2. tx[w].state # Keep \/ tx[w].pc = "ask" => tx[w].req \in Requests \ {r}
    BY <1>1, <2>1 DEF Handling
  <2>3. tx[w].expire \subseteq Requests \ {r}
    BY <1>1, <2>1 DEF Steady, Unconfirmed, TypeInv, TxTyped, TxTypes
  <2> QED
    BY <1>1, <1>2, <2>1, <2>2, <2>3 DEF Steady
<1> QED
  BY <1>3, <1>4, <1>5 DEF ValidInv

LEMMA WorldValid ==
    ASSUME Inv, TypeInv, ValidInv,
           \/ ExpireDue
           \/ \E r \in Requests : Age(r)
           \/ \E m \in Phrases \cup buttons : Write(m)
           \/ \E m \in Phrases : Begin(m)
           \/ \E b \in asked : Answer(b)
           \/ UNCHANGED vars
    PROVE  ValidInv' /\ UNCHANGED request
<1>1. UNCHANGED <<request, tx>>
  BY DEF ExpireDue, Age, Write, Begin, Answer, Arrive, dbVars, vars
<1>2. ~ Expiring => \A j \in jobs' : j.msg # ExpireJob.msg
  <2>1. ASSUME NEW m \in Phrases \cup buttons, Arrive(m), ~ Expiring
        PROVE  \A j \in jobs' : j.msg # ExpireJob.msg
    <3>1. PICK n : jobs' = jobs \cup {MessageJob(m, n)}
      BY <2>1 DEF Arrive
    <3>2. MessageJob(m, n).msg = m
      BY DEF MessageJob
    <3> QED
      BY <2>1, <3>1, <3>2, NeverExpire DEF ValidInv, NoExpiry
  <2>2. ASSUME ~ Expiring, UNCHANGED jobs PROVE \A j \in jobs' : j.msg # ExpireJob.msg
    BY <2>2 DEF ValidInv, NoExpiry
  <2>3. asked \subseteq buttons
    BY DEF TypeInv
  <2> QED
    BY <2>1, <2>2, <2>3 DEF ExpireDue, Age, Write, Begin, Answer, vars
<1>3. ExpireJob' = ExpireJob
  BY DEF ExpireJob, MessageJob
<1>4. NoExpiry'
  BY <1>1, <1>2, <1>3 DEF ValidInv, NoExpiry
<1>5. \A w \in Workers : Steady(tx[w])'
  BY <1>1 DEF ValidInv, Steady
<1> QED
  BY <1>1, <1>4, <1>5 DEF ValidInv

LEMMA ValidNext ==
    ASSUME Undisputed, Inv, TypeInv, ValidInv, [Next]_vars
    PROVE  /\ ValidInv'
           /\ \A r \in Requests : ValidStep(request[r], request'[r])
<1>1. UNCHANGED request => \A r \in Requests : ValidStep(request[r], request'[r])
  BY DEF ValidStep
<1>2. ASSUME NEW w \in Workers, Step(w) \/ Fault(w) \/ Crash(w), ~ Commit(w) PROVE UNCHANGED request
  BY <1>2 DEF Step, Claim, UpsertWindow, ReplyStatus, Confirm, Cancel, AskAgain, Reading, Redirect,
     Greet, RefuseRequest, TapTrade, TapArea, TapOther, Consult, ModelFails, ModelAnswers, Reply,
     SelectUnconfirmed, Fault, Crash, dbVars
<1>3. ASSUME NEW w \in Workers, Step(w) \/ Fault(w) \/ Crash(w), ~ Commit(w) PROVE ValidInv'
  BY <1>3, ClaimValid, ReadValid, ConfirmationValid, TapValid, ConsultValid, ModelValid,
     MoveOnValid, SelectValid, FaultValid DEF Step
<1> QED
  BY <1>1, <1>2, <1>3, CommitValid, DispatchedValid, WorldValid DEF Next

\* Requests move along the transitions of services/transitions.py only, if
\* nothing enqueues expire_unconfirmed, as is the case, or if one worker does
\* all (services/intake.py, handlers/expiry.py).
THEOREM TransitionsValidHolds == Undisputed => (Spec => TransitionsValid)
<1> SUFFICES ASSUME Undisputed PROVE Spec => TransitionsValid
  OBVIOUS
<1>1. Init => ValidInv
  BY ValidInit
<1>2. Inv /\ TypeInv /\ ValidInv /\ [Next]_vars => ValidInv'
  BY ValidNext
<1>3. Inv /\ TypeInv /\ ValidInv /\ [Next]_vars =>
          [\A r \in Requests : ValidStep(request[r], request'[r])]_vars
  BY ValidNext
<1> QED
  BY <1>1, <1>2, <1>3, SpecInv, TypeInvariant, PTL DEF Spec, TransitionsValid
=============================================================================
