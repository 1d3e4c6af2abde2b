--------------------------- MODULE IngressProofs ---------------------------
(***************************************************************************)
(* Proofs about Ingress, for any messages, batches, posts, workers, failed *)
(* calls and deaths: what Meta was told is kept is kept, every message is  *)
(* routed at most once, media are tracked, and the webhook with the queue  *)
(* behind it implements the life of a message (Inbox), but for liveness.   *)
(* Then the types of all of it, and that whoever wrote lately gets his     *)
(* buttons, which rests on them.                                           *)
(***************************************************************************)
EXTENDS Ingress, FiniteSetTheorems, TLAPS

USE IngressAssumption, NothingAssumption

-----------------------------------------------------------------------------
(* The webhook                                                             *)

PostType(t) ==
    /\ DOMAIN t = {"post", "pos", "inserted", "added", "seen"}
    /\ t.post \in Deliveries \cup {Nothing}
    /\ t.pos \in Nat
    /\ t.inserted \subseteq Messages /\ t.added \subseteq Messages

KeepType ==
    /\ message \subseteq Messages
    /\ web = [s \in Servers |-> web[s]]
    /\ \A s \in Servers : PostType(web[s])
    /\ arrived = [m \in Messages |-> arrived[m]]
    /\ acked \subseteq Deliveries
    /\ now \in Nat

\* The rows of two open transactions, and those of the table, have different
\* keys: an INSERT waits, and then looks at the table.
UniqueKeys ==
    \A s \in Servers :
        /\ web[s].inserted \cap message = {}
        /\ \A v \in Servers \ {s} : web[s].inserted \cap web[v].inserted = {}

\* Whatever is handled of a post is in the table or about to get there.
Handled ==
    \A s \in Servers : Busy(s) =>
        \A i \in DOMAIN web[s].post.batch : i < web[s].pos =>
            web[s].post.batch[i] \in message \cup web[s].inserted \cup web[s].added

OnlyArrived ==
    \A m \in Messages :
        \/ m \in message
        \/ \E s \in Servers : m \in web[s].inserted \cup web[s].added
        \/ \E s \in Servers : Busy(s) /\ Holds(web[s].post, m)
        => arrived[m] # Never

KeepInv == KeepType /\ UniqueKeys /\ Handled /\ OnlyArrived /\ AckedIsStored

LEMMA DeliveryType ==
    ASSUME NEW d \in Deliveries
    PROVE  /\ d.batch \in Seq(Messages)
           /\ d.out # 0 => d.batch = <<>>
<1>1. CASE \E b \in Batches : d = Batch(b)
  BY <1>1 DEF Batch
<1>2. CASE \E o \in 1 .. MaxOuts, st \in Statuses : d = Report(o, st)
  BY <1>2 DEF Report
<1> QED
  BY <1>1, <1>2 DEF Deliveries

LEMMA FreeType == PostType(Free) /\ Free.post = Nothing /\ Free.inserted = {} /\ Free.added = {}
BY DEF PostType, Free

LEMMA KeepInit == ASSUME Init PROVE KeepInv
<1>1. KeepType
  BY FreeType DEF Init, KeepType
<1>2. UniqueKeys
  BY FreeType DEF Init, UniqueKeys
<1>3. Handled /\ OnlyArrived
  BY FreeType DEF Init, Handled, OnlyArrived, Busy
<1>4. AckedIsStored
  BY DEF Init, AckedIsStored
<1> QED
  BY <1>1, <1>2, <1>3, <1>4 DEF KeepInv

LEMMA PostStep ==
    ASSUME KeepInv, NEW s \in Servers, NEW d \in Deliveries, Post(s, d)
    PROVE  KeepInv'
<1> USE DEF KeepInv
<1>1. /\ web' = [web EXCEPT ![s] = [Free EXCEPT !.post = d]]
      /\ UNCHANGED <<message, acked, now>>
      /\ arrived' = [m \in Messages |->
             IF Holds(d, m) /\ arrived[m] = Never THEN now ELSE arrived[m]]
  BY DEF Post, dbVars
<1> DEFINE t == [Free EXCEPT !.post = d]
<1>2. PostType(t) /\ t.post = d /\ t.inserted = {} /\ t.added = {} /\ t.pos = 1
  <2>1. /\ DOMAIN t = {"post", "pos", "inserted", "added", "seen"}
        /\ t.post = d /\ t.inserted = {} /\ t.added = {} /\ t.pos = 1
    BY DEF Free
  <2> HIDE DEF t
  <2> QED
    BY <2>1 DEF PostType
<1>3. /\ web' = [v \in Servers |-> web'[v]] /\ web'[s] = t
      /\ \A v \in Servers \ {s} : web'[v] = web[v]
  BY <1>1 DEF KeepType
<1> HIDE DEF t
<1>4. KeepType'
  BY <1>1, <1>2, <1>3 DEF KeepType, PostType
<1>5. UniqueKeys'
  BY <1>1, <1>2, <1>3 DEF UniqueKeys
<1>6. Handled'
  <2>1. \A i \in DOMAIN d.batch : ~ (i < 1)
    BY DeliveryType
  <2> QED
    BY <1>1, <1>2, <1>3, <2>1 DEF Handled, Busy
<1>7. OnlyArrived'
  <2>1. now # Never
    BY DEF KeepType, Never
  <2>2. \A m \in Messages : arrived[m] # Never \/ Holds(d, m) => arrived'[m] # Never
    BY <1>1, <2>1
  <2> QED
    BY <1>1, <1>2, <1>3, <2>2 DEF OnlyArrived, Busy
<1>8. AckedIsStored'
  BY <1>1 DEF AckedIsStored
<1> QED
  BY <1>4, <1>5, <1>6, <1>7, <1>8

LEMMA PersistStep ==
    ASSUME KeepInv, NEW s \in Servers, PersistMessage(s)
    PROVE  KeepInv'
<1> USE DEF KeepInv
<1> DEFINE t == web[s]
           m == t.post.batch[t.pos]
           flushed == t.inserted \cup t.added
           rest == IF m \in message \cup flushed THEN {} ELSE {m}
           u == [t EXCEPT !.pos = @ + 1, !.inserted = flushed, !.added = rest]
<1>1. /\ web' = [web EXCEPT ![s] = u]
      /\ Flushes(s) /\ t.pos \in DOMAIN t.post.batch
      /\ UNCHANGED <<message, acked, arrived, now>>
  BY DEF PersistMessage, dbVars, worldVars
<1>2. PostType(t) /\ Busy(s) /\ t.post \in Deliveries
  BY <1>1 DEF KeepType, Flushes, Busy, PostType
<1>3. m \in Messages
  BY <1>1, <1>2, DeliveryType
<1>4. /\ PostType(u) /\ u.post = t.post /\ u.pos = t.pos + 1 /\ u.inserted = flushed
      /\ u.added \subseteq {m} /\ m \in message \cup u.inserted \cup u.added
  <2>1. rest \subseteq {m} /\ m \in message \cup flushed \cup rest
    OBVIOUS
  <2>2. flushed \subseteq Messages /\ t.pos + 1 \in Nat
    BY <1>2 DEF PostType
  <2>3. /\ DOMAIN u = {"post", "pos", "inserted", "added", "seen"}
        /\ u.post = t.post /\ u.pos = t.pos + 1 /\ u.inserted = flushed /\ u.added = rest
    <3> HIDE DEF flushed, rest
    <3> QED
      BY <1>2 DEF PostType
  <2> HIDE DEF u, flushed, rest
  <2> QED
    BY <1>2, <1>3, <2>1, <2>2, <2>3 DEF PostType
<1>5. /\ web' = [v \in Servers |-> web'[v]] /\ web'[s] = u
      /\ \A v \in Servers \ {s} : web'[v] = web[v]
  BY <1>1 DEF KeepType
<1> HIDE DEF u
<1>6. KeepType'
  BY <1>1, <1>4, <1>5 DEF KeepType, PostType
<1>7. UniqueKeys'
  BY <1>1, <1>4, <1>5 DEF UniqueKeys, Flushes, Blockers, Conflicts
<1>8. Handled'
  <2>1. \A i \in DOMAIN t.post.batch : i < t.pos + 1 => i < t.pos \/ i = t.pos
    BY <1>2, DeliveryType DEF PostType
  <2>2. \A i \in DOMAIN t.post.batch : i < u.pos =>
            t.post.batch[i] \in message \cup u.inserted \cup u.added
    BY <1>2, <1>4, <2>1 DEF Handled
  <2> QED
    BY <1>1, <1>4, <1>5, <2>2 DEF Handled, Busy
<1>9. OnlyArrived'
  <2>1. arrived[m] # Never
    BY <1>1, <1>2, <1>3 DEF OnlyArrived, Holds
  <2> QED
    BY <1>1, <1>4, <1>5, <2>1 DEF OnlyArrived, Busy
<1>10. AckedIsStored'
  BY <1>1 DEF AckedIsStored
<1> QED
  BY <1>6, <1>7, <1>8, <1>9, <1>10

\* What commits is new to the table; nobody else has it in his transaction.
LEMMA CommitPostStep ==
    ASSUME KeepInv, NEW s \in Servers, CommitPost(s)
    PROVE  /\ KeepInv'
           /\ (web[s].inserted \cup web[s].added) \cap message = {}
<1> USE DEF KeepInv
<1> DEFINE t == web[s]
           new == t.inserted \cup t.added
<1>1. /\ web' = [web EXCEPT ![s] = Free]
      /\ Flushes(s) /\ AllDone(t)
      /\ message' = message \cup new
      /\ acked' = acked \cup {t.post} \/ UNCHANGED acked
      /\ UNCHANGED <<arrived, now>>
  BY DEF CommitPost, Answer
<1>2. PostType(t) /\ Busy(s) /\ t.post \in Deliveries
  BY <1>1 DEF KeepType, Flushes, Busy, PostType
<1>3. /\ web' = [v \in Servers |-> web'[v]] /\ web'[s] = Free
      /\ \A v \in Servers \ {s} : web'[v] = web[v]
  BY <1>1 DEF KeepType
<1>4. new \cap message = {} /\ \A v \in Servers \ {s} : web[v].inserted \cap new = {}
  BY <1>1 DEF UniqueKeys, Flushes, Conflicts, Blockers
<1>5. KeepType'
  BY <1>1, <1>2, <1>3, FreeType DEF KeepType, PostType
<1>6. UniqueKeys'
  BY <1>1, <1>3, <1>4, FreeType DEF UniqueKeys
<1>7. Handled'
  BY <1>1, <1>3, FreeType DEF Handled, Busy
<1>8. OnlyArrived'
  BY <1>1, <1>3, FreeType DEF OnlyArrived, Busy
<1>9. AckedIsStored'
  <2>1. \A i \in DOMAIN t.post.batch : i < t.pos
    <3> DEFINE n == Len(t.post.batch)
    <3>0. n \in Nat /\ t.pos \in Nat
      BY <1>2, DeliveryType DEF PostType
    <3>1. t.pos > n
      <4>1. t.pos > n + (IF t.post.out = 0 THEN 0 ELSE 1)
        BY <1>1 DEF AllDone
      <4> HIDE DEF n
      <4> QED
        BY <3>0, <4>1
    <3> QED
      BY <1>2, <3>1, DeliveryType DEF PostType
  <2>2. \A i \in DOMAIN t.post.batch : t.post.batch[i] \in message'
    BY <1>1, <1>2, <2>1 DEF Handled
  <2>3. \A x \in Messages : Holds(t.post, x) => x \in message'
    BY <2>2 DEF Holds
  <2> QED
    BY <1>1, <2>3 DEF AckedIsStored
<1> QED
  BY <1>4, <1>5, <1>6, <1>7, <1>8, <1>9

LEMMA FindStep ==
    ASSUME KeepInv, NEW s \in Servers, FindOutbound(s)
    PROVE  KeepInv'
<1> USE DEF KeepInv
<1> DEFINE t == web[s]
           u == [t EXCEPT !.pos = @ + 1,
                          !.seen = IF t.post.out \in logged THEN status[t.post.out] ELSE NoRow]
<1>1. /\ web' = [web EXCEPT ![s] = u]
      /\ Busy(s) /\ t.post.out # 0
      /\ UNCHANGED <<message, acked, arrived, now>>
  BY DEF FindOutbound, dbVars, worldVars
<1>2. PostType(t) /\ t.post \in Deliveries
  BY <1>1 DEF KeepType, Busy, PostType
<1>3. t.post.batch = <<>>
  BY <1>1, <1>2, DeliveryType
<1>4. /\ PostType(u) /\ u.post = t.post /\ u.inserted = t.inserted /\ u.added = t.added
  <2> DEFINE row == IF t.post.out \in logged THEN status[t.post.out] ELSE NoRow
  <2>1. /\ DOMAIN u = {"post", "pos", "inserted", "added", "seen"}
        /\ u.post = t.post /\ u.pos = t.pos + 1
        /\ u.inserted = t.inserted /\ u.added = t.added
    <3> HIDE DEF row
    <3> QED
      BY <1>2 DEF PostType
  <2> HIDE DEF u, row
  <2> QED
    BY <1>2, <2>1 DEF PostType
<1>5. /\ web' = [v \in Servers |-> web'[v]] /\ web'[s] = u
      /\ \A v \in Servers \ {s} : web'[v] = web[v]
  BY <1>1 DEF KeepType
<1> HIDE DEF u
<1>6. KeepType'
  BY <1>1, <1>4, <1>5 DEF KeepType, PostType
<1>7. UniqueKeys'
  BY <1>1, <1>4, <1>5 DEF UniqueKeys
<1>8. Handled'
  BY <1>1, <1>3, <1>4, <1>5 DEF Handled, Busy
<1>9. OnlyArrived'
  BY <1>1, <1>4, <1>5 DEF OnlyArrived, Busy
<1>10. AckedIsStored'
  BY <1>1 DEF AckedIsStored
<1> QED
  BY <1>6, <1>7, <1>8, <1>9, <1>10

LEMMA DropStep ==
    ASSUME KeepInv, NEW s \in Servers, RefusePost(s) \/ PostFails(s)
    PROVE  KeepInv'
<1> USE DEF KeepInv
<1>1. /\ web' = [web EXCEPT ![s] = Free]
      /\ UNCHANGED <<message, acked, arrived, now>>
  BY DEF RefusePost, PostFails, dbVars, worldVars
<1>2. /\ web' = [v \in Servers |-> web'[v]] /\ web'[s] = Free
      /\ \A v \in Servers \ {s} : web'[v] = web[v]
  BY <1>1 DEF KeepType
<1>3. KeepType'
  BY <1>1, <1>2, FreeType DEF KeepType, PostType
<1>4. UniqueKeys'
  BY <1>1, <1>2, FreeType DEF UniqueKeys
<1>5. Handled' /\ OnlyArrived'
  BY <1>1, <1>2, FreeType DEF Handled, OnlyArrived, Busy
<1>6. AckedIsStored'
  BY <1>1 DEF AckedIsStored
<1> QED
  BY <1>3, <1>4, <1>5, <1>6

\* The other actions leave all this alone.
LEMMA KeepFrame ==
    ASSUME KeepInv, UNCHANGED <<message, web, arrived, acked>>, now' \in Nat
    PROVE  KeepInv'
BY DEF KeepInv, KeepType, UniqueKeys, Handled, OnlyArrived, AckedIsStored, Busy

Elsewhere ==
    \/ \E w \in Workers : Step(w) \/ Fail(w) \/ LoseAck(w) \/ Crash(w)
    \/ \E n \in Notices : Notify(n)
    \/ \E o \in 1 .. MaxOuts, st \in Statuses : MetaReports(o, st)
    \/ Tick

\* A COMMIT that takes effect, answered or not.
Ends == {"succeeded", "pending", "dead"}

Told(after) == IF after = "succeeded" THEN UNCHANGED events ELSE Event

LEMMA Effective ==
    ASSUME NEW w \in Workers, Commit(w) \/ LoseAck(w)
    PROVE  \E after \in Ends :
               /\ TakeEffect(w, after) /\ Told(after)
               /\ after = "pending" => attempts[work[w].job] < MaxAttempts
<1>1. CASE Commit(w)
  BY <1>1 DEF Commit, Ends, Told
<1>2. CASE LoseAck(w)
  BY <1>2 DEF LoseAck, Retried, Ends, Told
<1> QED
  BY <1>1, <1>2

LEMMA EffectFrame ==
    ASSUME NEW w \in Workers, NEW after, TakeEffect(w, after)
    PROVE  UNCHANGED <<content, message, web, arrived, reported, acked, status, outs, now, attempts>>
<1>1. ASSUME NEW m \in Messages, RouteMessage(w, m, after)
      PROVE  UNCHANGED <<content, message, web, arrived, reported, acked, status, outs, now, attempts>>
  BY <1>1 DEF RouteMessage, Finish
<1>2. ASSUME NEW m \in Messages, DownloadMedia(w, m, after)
      PROVE  UNCHANGED <<content, message, web, arrived, reported, acked, status, outs, now, attempts>>
  BY <1>2 DEF DownloadMedia, Finish
<1>3. CASE LogMessage(w, after)
  BY <1>3 DEF LogMessage, Finish
<1> QED
  BY <1>1, <1>2, <1>3 DEF TakeEffect

LEMMA ElsewhereFrame ==
    ASSUME Elsewhere, now \in Nat
    PROVE  UNCHANGED <<message, web, arrived, acked>> /\ now' \in Nat
<1> USE DEF dbVars, worldVars
<1>1. ASSUME NEW w \in Workers, NEW j, Claim(w, j)
      PROVE  UNCHANGED <<message, web, arrived, acked, now>>
  BY <1>1 DEF Claim
<1>2. ASSUME NEW w \in Workers, Commit(w) \/ LoseAck(w)
      PROVE  UNCHANGED <<message, web, arrived, acked, now>>
  BY <1>2, Effective, EffectFrame
<1>3. ASSUME NEW w \in Workers, SendMessage(w) \/ Fail(w) \/ Crash(w)
      PROVE  UNCHANGED <<message, web, arrived, acked, now>>
  BY <1>3 DEF SendMessage, Fail, Crash
<1>4. ASSUME NEW n \in Notices, Notify(n)
      PROVE  UNCHANGED <<message, web, arrived, acked, now>>
  BY <1>4 DEF Notify
<1>5. ASSUME NEW o, NEW st, MetaReports(o, st)
      PROVE  UNCHANGED <<message, web, arrived, acked, now>>
  BY <1>5 DEF MetaReports
<1>6. CASE Tick
  BY <1>6 DEF Tick
<1> QED
  BY <1>1, <1>2, <1>3, <1>4, <1>5, <1>6 DEF Elsewhere, Step

LEMMA KeepStep == ASSUME KeepInv, [Next]_vars PROVE KeepInv'
<1>1. now \in Nat
  BY DEF KeepInv, KeepType
<1>2. CASE UNCHANGED vars
  BY <1>1, <1>2, KeepFrame DEF vars, dbVars, worldVars
<1>3. CASE Elsewhere
  BY <1>1, <1>3, ElsewhereFrame, KeepFrame
<1>4. ASSUME NEW s \in Servers, NEW d \in Deliveries, Post(s, d)
      PROVE  KeepInv'
  BY <1>4, PostStep
<1>5. ASSUME NEW s \in Servers, Serve(s) \/ PostFails(s)
      PROVE  KeepInv'
  BY <1>5, PersistStep, FindStep, CommitPostStep, DropStep DEF Serve
<1> QED
  BY <1>2, <1>3, <1>4, <1>5 DEF Next, Elsewhere

\* What is answered 200 is stored, whatever the posts do to each other: the web
\* process never tells Meta to forget a message it has not kept (main.py).
THEOREM AckedIsStoredHolds == Spec => []AckedIsStored
<1>1. Init => KeepInv
  BY KeepInit
<1>2. KeepInv /\ [Next]_vars => KeepInv'
  BY KeepStep
<1>3. KeepInv => AckedIsStored
  BY DEF KeepInv
<1> QED
  BY <1>1, <1>2, <1>3, PTL DEF Spec

-----------------------------------------------------------------------------
(* The queue: which job a message is at                                    *)

LEMMA JobTypes ==
    ASSUME NEW m \in Messages
    PROVE  /\ Inbound(m) \in Here
           /\ \A k \in Rounds : Download(m, k) \in Here /\ Destination(m, k) \in Jobs
BY DEF Inbound, Download, Reply, ToProvider, ToIntake, Destination, Jobs, Here

\* A job tells of which message it is, and of which round.
LEMMA JobNames ==
    ASSUME NEW m \in Messages, NEW n \in Messages, NEW k, NEW l
    PROVE  /\ Inbound(m) = Inbound(n) => m = n
           /\ Download(m, k) = Download(n, l) => m = n /\ k = l
           /\ Inbound(m) # Download(n, l)
           /\ Destination(m, k) \notin {Inbound(n), Download(n, l)}
           /\ Destination(m, k) = Destination(n, l) => m = n /\ k = l
<1>1. /\ Inbound(m)[1] = "process_inbound" /\ Inbound(n)[1] = "process_inbound"
      /\ Inbound(m)[2] = m /\ Inbound(n)[2] = n
  BY DEF Inbound
<1>2. /\ Download(m, k)[1] = "download_media" /\ Download(n, l)[1] = "download_media"
      /\ Download(m, k)[2] = m /\ Download(n, l)[2] = n
      /\ Download(m, k)[3] = k /\ Download(n, l)[3] = l
  BY DEF Download
<1>3. /\ Destination(m, k)[1] \in {"send_message", "process_provider_message",
                                    "process_customer_intake"}
      /\ Destination(m, k)[2] = m /\ Destination(n, l)[2] = n
      /\ Destination(m, k)[3] = k /\ Destination(n, l)[3] = l
  BY DEF Destination, Reply, ToProvider, ToIntake
<1> QED
  BY <1>1, <1>2, <1>3

LEMMA InboundNames ==
    ASSUME NEW m \in Messages, NEW n \in Messages
    PROVE  /\ Inbound(m) = Inbound(n) => m = n
           /\ \A k : Destination(m, k) # Inbound(n) /\ Download(m, k) # Inbound(n)
BY JobNames

LEMMA NoticeName ==
    ASSUME NEW n \in Notices, NEW m \in Messages, NEW k
    PROVE  Notice(n) \notin {Inbound(m), Download(m, k), Destination(m, k)}
<1>1. Notice(n)[1] = "send_message" /\ Notice(n)[2] = n
  BY DEF Notice
<1>2. Inbound(m)[1] = "process_inbound" /\ Download(m, k)[1] = "download_media"
  BY DEF Inbound, Download
<1>3. Destination(m, k)[2] = m
  BY DEF Destination, Reply, ToProvider, ToIntake
<1>4. n # m
  OBVIOUS
<1> QED
  BY <1>1, <1>2, <1>3, <1>4

QueueType ==
    /\ job = [j \in Jobs |-> job[j]]
    /\ work = [w \in Workers |-> work[w]]
    /\ \A w \in Workers : /\ DOMAIN work[w] = {"job", "at", "out"}
                           /\ work[w].job \in Here \cup {Nothing}

\* A worker has its job claimed, and nobody else is at it.
Claims ==
    \A w \in Workers : Working(w) =>
        /\ job[work[w].job] = "claimed"
        /\ \A v \in Workers \ {w} : work[v].job # work[w].job

\* A job comes with each message, and only with it.
Started == \A m \in Messages : m \notin message => job[Inbound(m)] = "none" /\ routed[m] = 0

\* A message was handed on as often as that was in doubt, and once more if its
\* job succeeded in the end.
RoutedCounted ==
    \A m \in Messages :
        routed[m] = doubts[m] + (IF job[Inbound(m)] = "succeeded" THEN 1 ELSE 0)

Routings == routed \in [Messages -> Nat] /\ doubts \in [Messages -> Nat]

\* The jobs that come of a message come with its routings.
Fresh ==
    \A m \in Messages, k \in Rounds : k > routed[m] =>
        job[Download(m, k)] = "none" /\ job[Destination(m, k)] = "none"

QueueInv == QueueType /\ Claims /\ Started /\ Routings /\ RoutedCounted /\ Fresh

\* A job has an attempt left while it is pending; each doubt has cost one.
States == {"none", "pending", "claimed", "succeeded", "dead"}

JobsTyped ==
    /\ job \in [Jobs -> States] /\ attempts \in [Jobs -> 0 .. MaxAttempts]
    /\ \A j \in Jobs :
           /\ job[j] = "none" => attempts[j] = 0
           /\ job[j] = "pending" => attempts[j] < MaxAttempts

DoubtsCost ==
    \A m \in Messages :
        /\ doubts[m] <= attempts[Inbound(m)]
        /\ job[Inbound(m)] = "claimed" => doubts[m] < attempts[Inbound(m)]

LEMMA FreshFrame ==
    ASSUME Fresh, UNCHANGED <<content, routed>>,
           \A m \in Messages, k \in Rounds :
               /\ job[Download(m, k)] = "none" => job'[Download(m, k)] = "none"
               /\ job[Destination(m, k)] = "none" => job'[Destination(m, k)] = "none"
    PROVE  Fresh'
<1>1. \A m \in Messages, k \in Rounds : Destination(m, k)' = Destination(m, k)
  BY DEF Destination, Reply, ToProvider, ToIntake, Unsupported, From
<1>2. \A m \in Messages, k \in Rounds : Download(m, k)' = Download(m, k)
  BY DEF Download
<1> QED
  BY <1>1, <1>2 DEF Fresh

AtRestType ==
    DOMAIN AtRest = {"job", "at", "out"} /\ AtRest.job = Nothing

LEMMA RestType == AtRestType
BY DEF AtRestType, AtRest

LEMMA HereIsJobs == Here \subseteq Jobs /\ Nothing \notin Jobs
BY DEF Here

LEMMA QueueInit == ASSUME Init PROVE QueueInv
<1>1. QueueType
  BY RestType DEF Init, QueueType, AtRestType
<1>2. Claims
  BY RestType DEF Init, Claims, Working, AtRestType
<1>3. \A m \in Messages : job[Inbound(m)] = "none"
  BY JobTypes, HereIsJobs DEF Init
<1>4. Fresh
  BY JobTypes, HereIsJobs DEF Init, Fresh
<1> QED
  BY <1>1, <1>2, <1>3, <1>4 DEF Init, QueueInv, Started, Routings, RoutedCounted

\* A worker puts its job down, and the job moves on.
LEMMA PutDown ==
    ASSUME QueueInv, NEW w \in Workers, Working(w),
           work' = [work EXCEPT ![w] = AtRest],
           job' = [j \in Jobs |-> job'[j]],
           \A j \in Jobs : job[j] = "claimed" /\ j # work[w].job => job'[j] = "claimed"
    PROVE  QueueType' /\ Claims'
<1> USE DEF QueueInv
<1>1. /\ work' = [v \in Workers |-> work'[v]] /\ work'[w] = AtRest
      /\ \A v \in Workers \ {w} : work'[v] = work[v]
  BY DEF QueueType
<1>2. QueueType'
  BY <1>1, RestType DEF QueueType, AtRestType
<1>3. \A v \in Workers \ {w} : Working(v) => job'[work[v].job] = "claimed"
  BY HereIsJobs DEF QueueType, Claims, Working
<1>4. Claims'
  BY <1>1, <1>3, RestType DEF Claims, Working, AtRestType
<1> QED
  BY <1>2, <1>4

LEMMA WorkingJob ==
    ASSUME QueueInv, NEW w \in Workers, Working(w)
    PROVE  work[w].job \in Here /\ work[w].job \in Jobs /\ job[work[w].job] = "claimed"
BY HereIsJobs DEF QueueInv, QueueType, Claims, Working

LEMMA ClaimStep ==
    ASSUME QueueInv, NEW w \in Workers, NEW j \in Here, Claim(w, j)
    PROVE  QueueInv'
<1> USE DEF QueueInv
<1> DEFINE taken == [AtRest EXCEPT !.job = j, !.at = now]
<1>1. /\ ~ Working(w) /\ job[j] = "pending" /\ j \in Jobs
      /\ job' = [job EXCEPT ![j] = "claimed"]
      /\ work' = [work EXCEPT ![w] = taken]
      /\ UNCHANGED <<message, routed, doubts, content>>
  BY HereIsJobs DEF Claim, dbVars, history
<1>2. DOMAIN taken = {"job", "at", "out"} /\ taken.job = j
  BY DEF AtRest
<1> HIDE DEF taken
<1>3. /\ work' = [v \in Workers |-> work'[v]] /\ work'[w] = taken
      /\ \A v \in Workers \ {w} : work'[v] = work[v]
  BY <1>1 DEF QueueType
<1>4. /\ job' = [i \in Jobs |-> job'[i]] /\ job'[j] = "claimed"
      /\ \A i \in Jobs \ {j} : job'[i] = job[i]
  BY <1>1 DEF QueueType
<1>5. QueueType'
  BY <1>2, <1>3, <1>4 DEF QueueType
<1>6. \A v \in Workers \ {w} : Working(v) =>
          job'[work[v].job] = "claimed" /\ work[v].job # j
  BY <1>1, <1>4, WorkingJob DEF Claims
<1>7. Claims'
  BY <1>2, <1>3, <1>4, <1>6 DEF Claims, Working
<1>8. Started' /\ Routings' /\ RoutedCounted'
  BY <1>1, <1>4, JobTypes, HereIsJobs DEF Started, Routings, RoutedCounted
<1>9. Fresh'
  BY <1>1, <1>4, FreshFrame, JobTypes, HereIsJobs
<1> QED
  BY <1>5, <1>7, <1>8, <1>9

\* A job that is not about routing, whose COMMIT takes effect.
LEMMA FinishStep ==
    ASSUME QueueInv, NEW w \in Workers, Working(w), NEW after \in Ends, Finish(w, after, {}),
           \A m \in Messages : work[w].job # Inbound(m),
           UNCHANGED <<message, routed, doubts>>
    PROVE  QueueInv'
<1> USE DEF QueueInv
<1>1. QueueType' /\ Claims'
  BY PutDown DEF Finish
<1>2. \A m \in Messages : job'[Inbound(m)] = job[Inbound(m)]
  BY JobTypes, HereIsJobs DEF Finish
<1>3. Started' /\ Routings' /\ RoutedCounted'
  BY <1>2 DEF Started, Routings, RoutedCounted
<1>4. \A j \in Jobs : job[j] = "none" => job'[j] = "none"
  BY WorkingJob DEF Finish
<1>5. Fresh'
  BY <1>4, FreshFrame, JobTypes, HereIsJobs DEF Finish
<1> QED
  BY <1>1, <1>3, <1>5

\* The round in which a message is routed is a new one, and there is room for it.
LEMMA NewRound ==
    ASSUME QueueInv, JobsTyped, DoubtsCost, NEW w \in Workers, NEW m \in Messages,
           work[w].job = Inbound(m)
    PROVE  /\ Working(w) /\ job[Inbound(m)] = "claimed"
           /\ routed[m] = doubts[m] /\ routed[m] \in Nat
           /\ routed[m] + 1 \in Rounds
           /\ job[Download(m, routed[m] + 1)] = "none"
           /\ job[Destination(m, routed[m] + 1)] = "none"
<1> USE DEF QueueInv
<1>1. Working(w)
  BY JobTypes, HereIsJobs DEF Working
<1>2. job[Inbound(m)] = "claimed"
  BY <1>1, WorkingJob
<1>3. routed[m] = doubts[m] /\ doubts[m] \in Nat
  BY <1>2 DEF RoutedCounted, Routings
<1>4. doubts[m] < attempts[Inbound(m)] /\ attempts[Inbound(m)] \in 0 .. MaxAttempts
  BY <1>2, JobTypes, HereIsJobs DEF DoubtsCost, JobsTyped
<1>5. routed[m] + 1 \in Rounds
  BY <1>3, <1>4 DEF Rounds
<1> QED
  BY <1>1, <1>2, <1>3, <1>5 DEF Fresh

\* What routing a message does to the jobs of the messages.
LEMMA RouteEffect ==
    ASSUME QueueInv, JobsTyped, DoubtsCost, NEW w \in Workers, NEW m \in Messages,
           NEW after \in Ends, RouteMessage(w, m, after)
    PROVE  LET r == routed[m] + 1
           IN  /\ Working(w) /\ work[w].job = Inbound(m)
               /\ job[Inbound(m)] = "claimed" /\ job'[Inbound(m)] = after
               /\ \A n \in Messages \ {m} : job'[Inbound(n)] = job[Inbound(n)]
               /\ \A n \in Messages, k \in Rounds : (n # m \/ k # r) =>
                      /\ job'[Download(n, k)] = job[Download(n, k)]
                      /\ job'[Destination(n, k)] = job[Destination(n, k)]
               /\ media[m] = "pending" => job'[Download(m, r)] = "pending"
               /\ \A j \in Jobs : j # Inbound(m) /\ job[j] # "none" => job'[j] = job[j]
               /\ routed' = [routed EXCEPT ![m] = r] /\ r \in Rounds
               /\ doubts' = IF after = "succeeded" THEN doubts
                            ELSE [doubts EXCEPT ![m] = @ + 1]
               /\ UNCHANGED <<message, media, arrived, content>>
<1> DEFINE r == routed[m] + 1
           more == {Destination(m, r)} \cup (IF media[m] = "pending" THEN {Download(m, r)} ELSE {})
<1>1. /\ Working(w) /\ work[w].job = Inbound(m) /\ job[Inbound(m)] = "claimed"
      /\ r \in Rounds /\ \A j \in more : job[j] = "none"
  BY NewRound DEF RouteMessage
<1>2. job' = [j \in Jobs |-> IF j = Inbound(m) THEN after
                             ELSE IF j \in more THEN "pending" ELSE job[j]]
  BY DEF RouteMessage, Finish
<1>3. /\ \A n \in Messages : Inbound(n) \in Jobs /\ (Inbound(n) = Inbound(m) => n = m)
      /\ \A n \in Messages : Inbound(n) \notin more
  BY InboundNames, JobTypes, HereIsJobs
<1>4. \A n \in Messages, k \in Rounds :
          /\ Download(n, k) \in Jobs /\ Destination(n, k) \in Jobs
          /\ Download(n, k) # Inbound(m) /\ Destination(n, k) # Inbound(m)
          /\ Download(n, k) \in more \/ Destination(n, k) \in more => n = m /\ k = r
  BY JobNames, JobTypes, HereIsJobs
<1>5. media[m] = "pending" => Download(m, r) \in more
  OBVIOUS
<1> HIDE DEF more, r
<1>6. /\ job'[Inbound(m)] = after
      /\ \A n \in Messages \ {m} : job'[Inbound(n)] = job[Inbound(n)]
  BY <1>2, <1>3
<1>7. \A n \in Messages, k \in Rounds : n # m \/ k # r =>
          /\ job'[Download(n, k)] = job[Download(n, k)]
          /\ job'[Destination(n, k)] = job[Destination(n, k)]
  BY <1>2, <1>4
<1>8. media[m] = "pending" => job'[Download(m, r)] = "pending"
  BY <1>1, <1>2, <1>4, <1>5
<1>9. \A j \in Jobs : j # Inbound(m) /\ job[j] # "none" => job'[j] = job[j]
  BY <1>1, <1>2
<1>10. /\ routed' = [routed EXCEPT ![m] = r]
       /\ doubts' = IF after = "succeeded" THEN doubts ELSE [doubts EXCEPT ![m] = @ + 1]
       /\ UNCHANGED <<message, media, arrived, content>>
  BY DEF RouteMessage, Finish, r
<1> QED
  BY <1>1, <1>6, <1>7, <1>8, <1>9, <1>10 DEF r

LEMMA RouteStep ==
    ASSUME QueueInv, JobsTyped, DoubtsCost, NEW w \in Workers, NEW m \in Messages,
           NEW after \in Ends, RouteMessage(w, m, after)
    PROVE  QueueInv'
<1> USE DEF QueueInv
<1> DEFINE r == routed[m] + 1
<1>1. /\ Working(w) /\ work[w].job = Inbound(m)
      /\ job[Inbound(m)] = "claimed" /\ job'[Inbound(m)] = after
      /\ \A n \in Messages \ {m} : job'[Inbound(n)] = job[Inbound(n)]
      /\ \A n \in Messages, k \in Rounds : n # m \/ k # r =>
             /\ job'[Download(n, k)] = job[Download(n, k)]
             /\ job'[Destination(n, k)] = job[Destination(n, k)]
      /\ \A j \in Jobs : j # Inbound(m) /\ job[j] # "none" => job'[j] = job[j]
      /\ routed' = [routed EXCEPT ![m] = r] /\ r \in Rounds
      /\ doubts' = IF after = "succeeded" THEN doubts ELSE [doubts EXCEPT ![m] = @ + 1]
      /\ UNCHANGED <<message, content>>
  BY RouteEffect
<1>2. routed[m] = doubts[m] /\ routed[m] \in Nat
  BY <1>1, NewRound
<1>3. QueueType' /\ Claims'
  <2>1. work' = [work EXCEPT ![w] = AtRest] /\ job' = [j \in Jobs |-> job'[j]]
    BY DEF RouteMessage, Finish
  <2>2. \A j \in Jobs : job[j] = "claimed" /\ j # work[w].job => job'[j] = "claimed"
    BY <1>1
  <2> QED
    BY <1>1, <2>1, <2>2, PutDown
<1>4. m \in message
  BY <1>1 DEF Started
<1>5. Started' /\ Routings'
  BY <1>1, <1>2, <1>4 DEF Started, Routings, Rounds
<1>6. RoutedCounted'
  <2>1. \A n \in Messages : Inbound(n)' = Inbound(n)
    BY DEF Inbound
  <2>2. \A n \in Messages \ {m} : /\ job'[Inbound(n)] = job[Inbound(n)]
                                  /\ routed'[n] = routed[n] /\ doubts'[n] = doubts[n]
    BY <1>1 DEF Routings
  <2>3. routed'[m] = doubts'[m] + (IF after = "succeeded" THEN 1 ELSE 0)
    BY <1>1, <1>2 DEF Routings
  <2> QED
    BY <1>1, <2>1, <2>2, <2>3 DEF RoutedCounted
<1>7. Fresh'
  <2>1. \A n \in Messages, k \in Rounds :
            Destination(n, k)' = Destination(n, k) /\ Download(n, k)' = Download(n, k)
    BY <1>1 DEF Destination, Reply, ToProvider, ToIntake, Unsupported, From, Download
  <2>2. ASSUME NEW n \in Messages, NEW k \in Rounds, k > routed'[n]
        PROVE  job'[Download(n, k)] = "none" /\ job'[Destination(n, k)] = "none"
    <3>1. (n # m \/ k # r) /\ k > routed[n]
      BY <1>1, <1>2, <2>2 DEF Routings, Rounds
    <3> QED
      BY <1>1, <3>1 DEF Fresh
  <2> QED
    BY <2>1, <2>2 DEF Fresh
<1> QED
  BY <1>3, <1>5, <1>6, <1>7

LEMMA FailStep ==
    ASSUME QueueInv, NEW w \in Workers, Fail(w)
    PROVE  /\ QueueInv'
           /\ \A j \in Jobs \ {work[w].job} : job'[j] = job[j]
           /\ job'[work[w].job] \in {"pending", "dead"}
<1> USE DEF QueueInv
<1> DEFINE j == work[w].job
<1>1. /\ Working(w) /\ work' = [work EXCEPT ![w] = AtRest]
      /\ UNCHANGED <<message, routed, doubts, content>>
      /\ job' = [job EXCEPT ![j] = Retried(j)]
  BY DEF Fail, dbVars, history
<1>2. j \in Jobs /\ job[j] = "claimed"
  BY <1>1, WorkingJob
<1>3. /\ job' = [i \in Jobs |-> job'[i]] /\ job'[j] \in {"pending", "dead"}
      /\ \A i \in Jobs \ {j} : job'[i] = job[i]
  <2> HIDE DEF j
  <2> QED
    BY <1>1, <1>2 DEF QueueType, Retried
<1>4. QueueType' /\ Claims'
  BY <1>1, <1>3, PutDown
<1>5. Started' /\ Routings' /\ RoutedCounted'
  <2>1. \A m \in Messages : /\ job[Inbound(m)] = "none" => job'[Inbound(m)] = "none"
                            /\ job'[Inbound(m)] = "succeeded" <=> job[Inbound(m)] = "succeeded"
    BY <1>2, <1>3, JobTypes, HereIsJobs
  <2>2. \A m \in Messages : Inbound(m)' = Inbound(m)
    BY DEF Inbound
  <2> QED
    BY <1>1, <2>1, <2>2 DEF Started, Routings, RoutedCounted
<1>6. Fresh'
  BY <1>1, <1>2, <1>3, FreshFrame, JobTypes, HereIsJobs
<1> QED
  BY <1>3, <1>4, <1>5, <1>6

LEMMA CrashStep ==
    ASSUME QueueInv, NEW w \in Workers, Crash(w)
    PROVE  QueueInv' /\ UNCHANGED job
<1> USE DEF QueueInv
<1>1. /\ Working(w) /\ work' = [work EXCEPT ![w] = AtRest]
      /\ UNCHANGED <<message, routed, doubts, job, content>>
  BY DEF Crash, dbVars, queueVars, history
<1>2. QueueType' /\ Claims'
  BY <1>1, PutDown DEF QueueType
<1>3. Started' /\ Routings' /\ RoutedCounted'
  BY <1>1 DEF Started, Routings, RoutedCounted
<1>4. Fresh'
  BY <1>1, FreshFrame
<1> QED
  BY <1>1, <1>2, <1>3, <1>4

\* What a commit does to the jobs and the media of the messages.
LEMMA CommitEffect ==
    ASSUME KeepInv, QueueInv, NEW s \in Servers, CommitPost(s)
    PROVE  LET new == web[s].inserted \cup web[s].added
           IN  /\ new \subseteq Messages /\ new \cap message = {}
               /\ message' = message \cup new
               /\ job' = [j \in Jobs |-> job'[j]]
               /\ \A m \in new : job[Inbound(m)] = "none" /\ job'[Inbound(m)] = "pending"
               /\ \A j \in Jobs : (\A m \in new : j # Inbound(m)) => job'[j] = job[j]
               /\ \A m \in Messages :
                      media'[m] = IF m \in new \cap WithMedia THEN "pending" ELSE media[m]
               /\ media' = [m \in Messages |-> media'[m]]
               /\ UNCHANGED <<content, work, routed, doubts, arrived>>
<1> DEFINE new == web[s].inserted \cup web[s].added
<1>1. new \subseteq Messages /\ new \cap message = {}
  BY CommitPostStep DEF KeepInv, KeepType, PostType
<1>2. /\ message' = message \cup new
      /\ job' = [j \in Jobs |-> IF \E m \in new : j = Inbound(m) THEN "pending" ELSE job[j]]
      /\ media' = [m \in Messages |-> IF m \in new \cap WithMedia THEN "pending" ELSE media[m]]
      /\ UNCHANGED <<content, work, routed, doubts, arrived>>
  BY DEF CommitPost, history
<1> HIDE DEF new
<1>3. \A m \in new : job[Inbound(m)] = "none" /\ job'[Inbound(m)] = "pending"
  BY <1>1, <1>2, JobTypes, HereIsJobs DEF QueueInv, Started
<1>4. /\ job' = [j \in Jobs |-> job'[j]]
      /\ \A j \in Jobs : (\A m \in new : j # Inbound(m)) => job'[j] = job[j]
  BY <1>2
<1>5. /\ \A m \in Messages :
             media'[m] = IF m \in new \cap WithMedia THEN "pending" ELSE media[m]
      /\ media' = [m \in Messages |-> media'[m]]
  BY <1>2
<1> QED
  BY <1>1, <1>2, <1>3, <1>4, <1>5 DEF new

LEMMA CommitQueueStep ==
    ASSUME KeepInv, QueueInv, NEW s \in Servers, CommitPost(s)
    PROVE  QueueInv'
<1> USE DEF QueueInv
<1> DEFINE new == web[s].inserted \cup web[s].added
<1>1. /\ new \subseteq Messages /\ new \cap message = {}
      /\ message' = message \cup new
      /\ job' = [j \in Jobs |-> job'[j]]
      /\ \A m \in new : job[Inbound(m)] = "none" /\ job'[Inbound(m)] = "pending"
      /\ \A j \in Jobs : (\A m \in new : j # Inbound(m)) => job'[j] = job[j]
      /\ UNCHANGED <<content, work, routed, doubts>>
  BY CommitEffect
<1> HIDE DEF new
<1>2. QueueType'
  BY <1>1 DEF QueueType
<1>3. \A j \in Jobs : job[j] = "claimed" => job'[j] = "claimed"
  BY <1>1
<1>4. Claims'
  BY <1>1, <1>3, WorkingJob DEF Claims, Working
<1>5. \A m \in Messages \ new : job'[Inbound(m)] = job[Inbound(m)]
  BY <1>1, InboundNames, JobTypes, HereIsJobs
<1>6. Started'
  BY <1>1, <1>5 DEF Started
<1>7. Routings' /\ RoutedCounted'
  <2>1. \A m \in Messages : Inbound(m)' = Inbound(m)
    BY DEF Inbound
  <2>2. \A m \in Messages :
            job'[Inbound(m)] = "succeeded" <=> job[Inbound(m)] = "succeeded"
    BY <1>1, <1>5
  <2> QED
    BY <1>1, <2>1, <2>2 DEF Routings, RoutedCounted
<1>8. \A m \in Messages, k \in Rounds : /\ job'[Download(m, k)] = job[Download(m, k)]
                                       /\ job'[Destination(m, k)] = job[Destination(m, k)]
  <2>1. \A m \in Messages, k \in Rounds, n \in new :
            Download(m, k) # Inbound(n) /\ Destination(m, k) # Inbound(n)
    BY <1>1, JobNames
  <2> QED
    BY <1>1, <2>1, JobTypes, HereIsJobs
<1>9. Fresh'
  BY <1>1, <1>8, FreshFrame
<1> QED
  BY <1>2, <1>4, <1>6, <1>7, <1>9

LEMMA NotifyStep ==
    ASSUME QueueInv, NEW n \in Notices, Notify(n)
    PROVE  /\ QueueInv'
           /\ \A j \in Jobs : j # Notice(n) => job'[j] = job[j]
<1> USE DEF QueueInv
<1>1. /\ job[Notice(n)] = "none"
      /\ job' = [job EXCEPT ![Notice(n)] = "pending"]
      /\ UNCHANGED <<message, routed, doubts, work, content>>
  BY DEF Notify, dbVars, history
<1>2. /\ job' = [j \in Jobs |-> job'[j]]
      /\ \A j \in Jobs : j # Notice(n) => job'[j] = job[j]
  BY <1>1 DEF QueueType
<1>3. QueueType'
  BY <1>1, <1>2 DEF QueueType
<1>4. Claims'
  BY <1>1, <1>2, WorkingJob DEF Claims, Working
<1>5. \A m \in Messages, k \in Rounds :
          /\ job'[Inbound(m)] = job[Inbound(m)]
          /\ job'[Download(m, k)] = job[Download(m, k)]
          /\ job'[Destination(m, k)] = job[Destination(m, k)]
  BY <1>2, NoticeName, JobTypes, HereIsJobs
<1>51. 1 \in Rounds
  BY DEF Rounds
<1>6. Started' /\ Routings' /\ RoutedCounted'
  BY <1>1, <1>5, <1>51 DEF Started, Routings, RoutedCounted
<1>7. Fresh'
  BY <1>1, <1>5, FreshFrame
<1> QED
  BY <1>2, <1>3, <1>4, <1>6, <1>7

\* A send keeps the worker at its job.
LEMMA SendStep ==
    ASSUME QueueInv, NEW w \in Workers, SendMessage(w)
    PROVE  /\ QueueInv'
           /\ \A v \in Workers : work'[v].job = work[v].job
           /\ UNCHANGED job
<1> USE DEF QueueInv
<1>1. /\ work' = [work EXCEPT ![w].out = Len(outs')]
      /\ UNCHANGED <<message, routed, doubts, job, content>>
  BY DEF SendMessage, dbVars, queueVars, history
<1>2. /\ work' = [v \in Workers |-> work'[v]]
      /\ \A v \in Workers : work'[v].job = work[v].job /\ DOMAIN work'[v] = {"job", "at", "out"}
  BY <1>1 DEF QueueType
<1>3. QueueType'
  BY <1>1, <1>2 DEF QueueType
<1>4. Claims'
  BY <1>1, <1>2 DEF Claims, Working
<1>5. Started' /\ Routings' /\ RoutedCounted' /\ Fresh'
  BY <1>1, FreshFrame DEF Started, Routings, RoutedCounted
<1> QED
  BY <1>1, <1>2, <1>3, <1>4, <1>5

LEMMA QueueFrame ==
    ASSUME QueueInv, UNCHANGED <<content, message, job, work, routed, doubts>>
    PROVE  QueueInv'
BY FreshFrame DEF QueueInv, QueueType, Claims, Working, Started, Routings, RoutedCounted

\* The steps of the webhook that commit nothing, WhatsApp's and the clock's.
Outside ==
    \/ \E s \in Servers : \/ PersistMessage(s) \/ FindOutbound(s)
                         \/ RefusePost(s) \/ PostFails(s)
    \/ \E o \in 1 .. MaxOuts, st \in Statuses : MetaReports(o, st)
    \/ Tick

LEMMA OutsideFrame ==
    ASSUME Outside
    PROVE  UNCHANGED <<content, message, media, queueVars, work, history, arrived>>
<1> USE DEF dbVars, worldVars
<1>1. ASSUME NEW s \in Servers,
             PersistMessage(s) \/ FindOutbound(s) \/ RefusePost(s) \/ PostFails(s)
      PROVE  UNCHANGED <<content, message, media, queueVars, work, history, arrived>>
  BY <1>1 DEF PersistMessage, FindOutbound, RefusePost, PostFails
<1>2. ASSUME NEW o, NEW st, MetaReports(o, st)
      PROVE  UNCHANGED <<content, message, media, queueVars, work, history, arrived>>
  BY <1>2 DEF MetaReports
<1>3. CASE Tick
  BY <1>3 DEF Tick
<1> QED
  BY <1>1, <1>2, <1>3 DEF Outside

\* The handlers that only finish their own job.
LEMMA HandlerFrame ==
    ASSUME QueueInv, NEW w \in Workers, NEW after,
           \/ \E m \in Messages : DownloadMedia(w, m, after)
           \/ LogMessage(w, after) /\ \A m \in Messages : work[w].job # Inbound(m)
    PROVE  /\ Working(w) /\ Finish(w, after, {})
           /\ \A m \in Messages : work[w].job # Inbound(m)
           /\ UNCHANGED <<message, routed, doubts, content, arrived, attempts>>
<1>1. ASSUME NEW m \in Messages, DownloadMedia(w, m, after)
      PROVE  /\ Working(w) /\ Finish(w, after, {})
             /\ \A n \in Messages : work[w].job # Inbound(n)
             /\ UNCHANGED <<message, routed, doubts, content, arrived, attempts>>
  BY <1>1, JobTypes, JobNames, HereIsJobs DEF DownloadMedia, Working, Finish, history
<1>2. CASE LogMessage(w, after) /\ \A m \in Messages : work[w].job # Inbound(m)
  BY <1>2 DEF LogMessage, Finish, history
<1> QED
  BY <1>1, <1>2

\* What was sent was sent for a send_message job.
Senders == \A w \in Workers : work[w].out # 0 => work[w].job[1] = "send_message"

Inv == KeepInv /\ QueueInv /\ Senders /\ JobsTyped /\ DoubtsCost

LEMMA SenderNames ==
    ASSUME NEW m \in Messages
    PROVE  /\ Inbound(m)[1] = "process_inbound"
           /\ \A k : Download(m, k)[1] = "download_media"
BY DEF Inbound, Download

LEMMA LoggerFrame ==
    ASSUME QueueInv, Senders, NEW w \in Workers, NEW after, LogMessage(w, after)
    PROVE  \A m \in Messages :
               work[w].job # Inbound(m) /\ \A k : work[w].job # Download(m, k)
BY SenderNames DEF Senders, LogMessage

LEMMA SendersStep == ASSUME Inv, [Next]_vars PROVE Senders'
<1> USE DEF Inv, QueueInv, QueueType
<1>1. ASSUME NEW w \in Workers, work' = [work EXCEPT ![w] = AtRest]
      PROVE  Senders'
  <2>1. AtRest.out = 0
    BY DEF AtRest
  <2> QED
    BY <1>1, <2>1 DEF Senders
<1>2. ASSUME UNCHANGED work
      PROVE  Senders'
  BY <1>2 DEF Senders
<1>3. ASSUME NEW w \in Workers, NEW j, Claim(w, j)
      PROVE  Senders'
  <2> DEFINE taken == [AtRest EXCEPT !.job = j, !.at = now]
  <2>1. taken.out = 0
    BY DEF AtRest
  <2>2. work' = [work EXCEPT ![w] = taken]
    BY <1>3 DEF Claim
  <2> HIDE DEF taken
  <2> QED
    BY <2>1, <2>2 DEF Senders
<1>4. ASSUME NEW w \in Workers, SendMessage(w)
      PROVE  Senders'
  BY <1>4 DEF Senders, SendMessage
<1>5. ASSUME NEW w \in Workers, Fail(w) \/ Crash(w)
      PROVE  Senders'
  BY <1>1, <1>5 DEF Fail, Crash
<1>6. ASSUME NEW w \in Workers, Commit(w) \/ LoseAck(w)
      PROVE  Senders'
  BY <1>1, <1>6, Effective DEF TakeEffect, RouteMessage, DownloadMedia, LogMessage, Finish
<1>7. ASSUME Outside PROVE Senders'
  BY <1>2, <1>7, OutsideFrame
<1>8. ASSUME NEW s \in Servers, CommitPost(s) PROVE Senders'
  BY <1>2, <1>8 DEF CommitPost
<1>9. ASSUME NEW s \in Servers, NEW d \in Deliveries, Post(s, d) PROVE Senders'
  BY <1>2, <1>9 DEF Post
<1>10. ASSUME NEW n \in Notices, Notify(n) PROVE Senders'
  BY <1>2, <1>10 DEF Notify
<1>11. CASE UNCHANGED vars
  BY <1>2, <1>11 DEF vars
<1> QED
  BY <1>3, <1>4, <1>5, <1>6, <1>7, <1>8, <1>9, <1>10, <1>11
  DEF Next, Serve, Step, Outside

LEMMA QueueStep == ASSUME Inv, [Next]_vars PROVE QueueInv'
<1> USE DEF Inv
<1>1. CASE UNCHANGED vars
  BY <1>1, QueueFrame DEF vars, dbVars, queueVars, history
<1>2. CASE Outside
  BY <1>2, OutsideFrame, QueueFrame DEF queueVars, history
<1>3. ASSUME NEW s \in Servers, NEW d \in Deliveries, Post(s, d)
      PROVE  QueueInv'
  BY <1>3, QueueFrame DEF Post, dbVars, queueVars, history
<1>4. ASSUME NEW s \in Servers, CommitPost(s)
      PROVE  QueueInv'
  BY <1>4, CommitQueueStep
<1>5. ASSUME NEW w \in Workers, NEW j \in Here, Claim(w, j)
      PROVE  QueueInv'
  BY <1>5, ClaimStep
<1>6. ASSUME NEW w \in Workers, Commit(w) \/ LoseAck(w)
      PROVE  QueueInv'
  <2>1. PICK after \in Ends : TakeEffect(w, after)
    BY <1>6, Effective
  <2>2. ASSUME NEW m \in Messages, RouteMessage(w, m, after) PROVE QueueInv'
    BY <2>2, RouteStep
  <2>3. ASSUME NEW m \in Messages, DownloadMedia(w, m, after) PROVE QueueInv'
    BY <2>3, HandlerFrame, FinishStep
  <2>4. CASE LogMessage(w, after)
    BY <2>4, LoggerFrame, HandlerFrame, FinishStep
  <2> QED
    BY <2>1, <2>2, <2>3, <2>4 DEF TakeEffect
<1>7. ASSUME NEW w \in Workers, SendMessage(w) \/ Fail(w) \/ Crash(w)
      PROVE  QueueInv'
  BY <1>7, SendStep, FailStep, CrashStep
<1>8. ASSUME NEW n \in Notices, Notify(n)
       PROVE  QueueInv'
  BY <1>8, NotifyStep
<1> QED
  BY <1>1, <1>2, <1>3, <1>4, <1>5, <1>6, <1>7, <1>8 DEF Next, Serve, Step, Outside

\* Jobs that were not there come with no attempts used up.
LEMMA FinishJobs ==
    ASSUME JobsTyped, NEW w, work[w].job \in Jobs, NEW after \in Ends, NEW more,
           Finish(w, after, more),
           after = "pending" => attempts[work[w].job] < MaxAttempts,
           \A j \in more : job[j] = "none"
    PROVE  JobsTyped'
<1>1. /\ job' = [j \in Jobs |-> IF j = work[w].job THEN after
                               ELSE IF j \in more THEN "pending" ELSE job[j]]
      /\ UNCHANGED attempts
  BY DEF Finish
<1>2. job' \in [Jobs -> States]
  BY <1>1 DEF JobsTyped, States, Ends
<1>3. ASSUME NEW j \in Jobs
      PROVE  /\ job'[j] = "none" => attempts[j] = 0
             /\ job'[j] = "pending" => attempts[j] < MaxAttempts
  BY <1>1, <1>3 DEF JobsTyped, Ends
<1> QED
  BY <1>1, <1>2, <1>3 DEF JobsTyped

LEMMA EffectJobs ==
    ASSUME Inv, NEW w \in Workers, Commit(w) \/ LoseAck(w)
    PROVE  JobsTyped' /\ DoubtsCost'
<1> USE DEF Inv
<1>1. PICK after \in Ends :
          TakeEffect(w, after) /\ (after = "pending" => attempts[work[w].job] < MaxAttempts)
  BY Effective
<1>2. \A m \in Messages : Inbound(m)' = Inbound(m)
  BY DEF Inbound
<1>3. ASSUME NEW m \in Messages, RouteMessage(w, m, after) PROVE JobsTyped' /\ DoubtsCost'
  <2> DEFINE r == routed[m] + 1
             more == {Destination(m, r)} \cup (IF media[m] = "pending" THEN {Download(m, r)} ELSE {})
  <2>1. Finish(w, after, more) /\ work[w].job = Inbound(m)
    BY <1>3 DEF RouteMessage
  <2>2. \A j \in more : job[j] = "none"
    BY <2>1, NewRound
  <2>3. work[w].job \in Jobs
    BY <2>1, JobTypes, HereIsJobs
  <2> HIDE DEF more
  <2>4. JobsTyped'
    BY <1>1, <2>1, <2>2, <2>3, FinishJobs
  <2>5. /\ job[Inbound(m)] = "claimed" /\ job'[Inbound(m)] = after
        /\ \A n \in Messages \ {m} : job'[Inbound(n)] = job[Inbound(n)]
        /\ doubts' = IF after = "succeeded" THEN doubts ELSE [doubts EXCEPT ![m] = @ + 1]
    BY <1>3, RouteEffect
  <2>6. UNCHANGED attempts
    BY <2>1 DEF Finish
  <2>7. \A n \in Messages \ {m} : doubts'[n] = doubts[n]
    BY <2>5 DEF QueueInv, Routings
  <2>8. doubts'[m] <= attempts[Inbound(m)]
    <3>1. attempts[Inbound(m)] \in Nat /\ doubts[m] \in Nat
      BY <2>1, <2>3 DEF JobsTyped, QueueInv, Routings
    <3>2. doubts[m] < attempts[Inbound(m)]
      BY <2>5 DEF DoubtsCost
    <3>3. doubts'[m] \in {doubts[m], doubts[m] + 1}
      BY <2>5 DEF QueueInv, Routings
    <3> QED
      BY <3>1, <3>2, <3>3
  <2>9. DoubtsCost'
    BY <1>2, <2>5, <2>6, <2>7, <2>8 DEF DoubtsCost, Ends
  <2> QED
    BY <2>4, <2>9
<1>4. ASSUME Working(w), Finish(w, after, {}), \A m \in Messages : work[w].job # Inbound(m),
             UNCHANGED doubts
      PROVE  JobsTyped' /\ DoubtsCost'
  <2>1. JobsTyped'
    BY <1>1, <1>4, WorkingJob, FinishJobs
  <2>2. \A m \in Messages : job'[Inbound(m)] = job[Inbound(m)]
    BY <1>4, JobTypes, HereIsJobs DEF Finish
  <2> QED
    BY <1>2, <1>4, <2>1, <2>2 DEF DoubtsCost, Finish
<1>5. ASSUME NEW m \in Messages, DownloadMedia(w, m, after) PROVE JobsTyped' /\ DoubtsCost'
  BY <1>4, <1>5, HandlerFrame
<1>6. CASE LogMessage(w, after)
  BY <1>4, <1>6, LoggerFrame, HandlerFrame
<1> QED
  BY <1>1, <1>3, <1>5, <1>6 DEF TakeEffect

LEMMA JobsStep == ASSUME Inv, [Next]_vars PROVE JobsTyped' /\ DoubtsCost'
<1> USE DEF Inv
<1>0. \A m \in Messages : Inbound(m)' = Inbound(m) /\ Inbound(m) \in Jobs
  BY JobTypes, HereIsJobs DEF Inbound
<1>1. CASE UNCHANGED <<queueVars, doubts>>
  BY <1>0, <1>1 DEF JobsTyped, DoubtsCost, queueVars
<1>2. ASSUME UNCHANGED <<attempts, doubts>>,
             \A m \in Messages : job'[Inbound(m)] = "claimed" => job[Inbound(m)] = "claimed"
      PROVE  DoubtsCost'
  BY <1>0, <1>2 DEF DoubtsCost
<1>3. ASSUME NEW s \in Servers, CommitPost(s) PROVE JobsTyped' /\ DoubtsCost'
  <2> DEFINE new == web[s].inserted \cup web[s].added
  <2>1. \A m \in new : job[Inbound(m)] = "none"
    BY <1>3, CommitEffect
  <2>2. /\ job' = [j \in Jobs |-> IF \E m \in new : j = Inbound(m) THEN "pending" ELSE job[j]]
        /\ UNCHANGED <<attempts, doubts>>
    BY <1>3 DEF CommitPost, history
  <2> HIDE DEF new
  <2>3. \A j \in Jobs : (job'[j] = "pending" /\ job[j] = "none") \/ job'[j] = job[j]
    BY <2>1, <2>2
  <2>4. job' \in [Jobs -> States]
    BY <2>2 DEF JobsTyped, States
  <2>5. JobsTyped'
    BY <2>2, <2>3, <2>4 DEF JobsTyped
  <2> QED
    BY <1>0, <1>2, <2>2, <2>3, <2>5
<1>4. ASSUME NEW w \in Workers, NEW j \in Here, Claim(w, j) PROVE JobsTyped' /\ DoubtsCost'
  <2>1. /\ j \in Jobs /\ job[j] = "pending"
        /\ job' = [job EXCEPT ![j] = "claimed"]
        /\ attempts' = [attempts EXCEPT ![j] = @ + 1]
        /\ UNCHANGED doubts
    BY <1>4, HereIsJobs DEF Claim, history
  <2>2. attempts[j] + 1 \in 0 .. MaxAttempts
    BY <2>1 DEF JobsTyped
  <2>3. JobsTyped'
    BY <2>1, <2>2 DEF JobsTyped, States
  <2>4. ASSUME NEW m \in Messages
        PROVE  /\ doubts'[m] <= attempts'[Inbound(m)]
               /\ job'[Inbound(m)] = "claimed" => doubts'[m] < attempts'[Inbound(m)]
    <3>1. doubts[m] <= attempts[Inbound(m)] /\ doubts[m] \in Nat /\ attempts[Inbound(m)] \in Nat
      BY <1>0 DEF DoubtsCost, QueueInv, Routings, JobsTyped
    <3>2. CASE Inbound(m) = j
      <4>1. attempts'[Inbound(m)] = attempts[Inbound(m)] + 1
        BY <2>1, <3>2 DEF JobsTyped
      <4> QED
        BY <2>1, <3>1, <4>1
    <3>3. CASE Inbound(m) # j
      <4>1. attempts'[Inbound(m)] = attempts[Inbound(m)] /\ job'[Inbound(m)] = job[Inbound(m)]
        BY <1>0, <2>1, <3>3 DEF JobsTyped
      <4> QED
        BY <2>1, <4>1 DEF DoubtsCost
    <3> QED
      BY <3>2, <3>3
  <2> QED
    BY <1>0, <2>3, <2>4 DEF DoubtsCost
<1>5. ASSUME NEW w \in Workers, Commit(w) \/ LoseAck(w) PROVE JobsTyped' /\ DoubtsCost'
  BY <1>5, EffectJobs
<1>6. ASSUME NEW w \in Workers, Fail(w) PROVE JobsTyped' /\ DoubtsCost'
  <2> DEFINE j == work[w].job
  <2>1. j \in Jobs /\ job[j] = "claimed"
    BY <1>6, WorkingJob DEF Fail
  <2>2. /\ job' = [job EXCEPT ![j] = IF attempts[j] < MaxAttempts THEN "pending" ELSE "dead"]
        /\ UNCHANGED <<attempts, doubts>>
    BY <1>6 DEF Fail, Retried, history
  <2> HIDE DEF j
  <2>3. JobsTyped'
    BY <2>1, <2>2 DEF JobsTyped, States
  <2>4. \A i \in Jobs : job'[i] = "claimed" => job[i] = "claimed"
    BY <2>1, <2>2 DEF JobsTyped
  <2> QED
    BY <1>0, <1>2, <2>2, <2>3, <2>4
<1>7. ASSUME NEW n \in Notices, Notify(n) PROVE JobsTyped' /\ DoubtsCost'
  <2>1. Notice(n) \in Jobs
    BY DEF Notice, Jobs, Rounds
  <2>2. /\ job[Notice(n)] = "none" /\ job' = [job EXCEPT ![Notice(n)] = "pending"]
        /\ UNCHANGED <<attempts, doubts>>
    BY <1>7 DEF Notify, history
  <2>3. JobsTyped'
    BY <2>1, <2>2 DEF JobsTyped, States
  <2>4. \A i \in Jobs : job'[i] = "claimed" => job[i] = "claimed"
    BY <2>1, <2>2 DEF JobsTyped
  <2> QED
    BY <1>0, <1>2, <2>2, <2>3, <2>4
<1>8. ASSUME NEW s \in Servers, NEW d \in Deliveries, Post(s, d) PROVE JobsTyped' /\ DoubtsCost'
  BY <1>1, <1>8 DEF Post, history
<1>9. ASSUME NEW w \in Workers, SendMessage(w) \/ Crash(w) PROVE JobsTyped' /\ DoubtsCost'
  BY <1>1, <1>9 DEF SendMessage, Crash, history
<1>10. CASE Outside
  BY <1>1, <1>10, OutsideFrame DEF history
<1>11. CASE UNCHANGED vars
  BY <1>1, <1>11 DEF vars, history
<1> QED
  BY <1>3, <1>4, <1>5, <1>6, <1>7, <1>8, <1>9, <1>10, <1>11 DEF Next, Serve, Step, Outside

LEMMA JobsInit == ASSUME Init PROVE JobsTyped /\ DoubtsCost
<1>1. \A m \in Messages : Inbound(m) \in Jobs
  BY JobTypes, HereIsJobs
<1> QED
  BY <1>1 DEF Init, JobsTyped, DoubtsCost, States

LEMMA Invariance == Spec => []Inv
<1>1. Init => Inv
  <2>1. ASSUME Init PROVE Senders
    BY <2>1 DEF Init, Senders, AtRest
  <2> QED
    BY <2>1, KeepInit, QueueInit, JobsInit DEF Inv
<1>2. Inv /\ [Next]_vars => Inv'
  BY KeepStep, QueueStep, SendersStep, JobsStep DEF Inv
<1> QED
  BY <1>1, <1>2, PTL DEF Spec

\* However often Meta delivers a message, and whatever becomes of the attempts
\* to route it, it is handed on at most once, and once more for each COMMIT of
\* its routing that was not answered; and only if it was kept
\* (handlers/inbound.py).
THEOREM HandedOnAtMostOnce ==
    Spec => []\A m \in Messages :
                  /\ routed[m] \in {doubts[m], doubts[m] + 1}
                  /\ routed[m] > 0 => m \in message
<1>1. Inv => \A m \in Messages :
                 /\ routed[m] \in {doubts[m], doubts[m] + 1}
                 /\ routed[m] > 0 => m \in message
  BY DEF Inv, QueueInv, RoutedCounted, Routings, Started
<1> QED
  BY <1>1, Invariance, PTL

-----------------------------------------------------------------------------
(* Media                                                                   *)

Stands(m) == \E k \in Rounds : job[Download(m, k)] \in Underway

MediaFollow(m) ==
    /\ m \notin message => media[m] = "none"
    /\ m \in message /\ routed[m] = 0 => media[m] = "pending"
    /\ routed[m] > 0 =>
          /\ media[m] = "pending" => Stands(m)
          /\ media[m] = "failed" => m \in WithoutId

MediaInv ==
    /\ media = [m \in Messages |-> media[m]]
    /\ \A m \in WithMedia : MediaFollow(m)

LEMMA MediaImplies == ASSUME MediaInv PROVE MediaTracked
BY DEF MediaInv, MediaFollow, MediaTracked, Stands

LEMMA MediaInit == ASSUME Init PROVE MediaInv
BY DEF Init, MediaInv, MediaFollow, WithMedia

LEMMA WithMediaFixed ==
    ASSUME UNCHANGED content
    PROVE  UNCHANGED <<WithMedia, WithoutId>> /\ WithMedia \subseteq Messages
BY DEF WithMedia, WithoutId

\* A step that leaves the media alone, and ends no download.
LEMMA MediaFrame ==
    ASSUME MediaInv, UNCHANGED <<content, message, media, routed>>,
           \A m \in Messages, k \in Rounds :
               job[Download(m, k)] \in Underway => job'[Download(m, k)] \in Underway
    PROVE  MediaInv'
<1>1. \A m \in Messages, k \in Rounds : Download(m, k)' = Download(m, k)
  BY DEF Download
<1>2. \A m \in WithMedia : MediaFollow(m)'
  BY <1>1, WithMediaFixed DEF MediaInv, MediaFollow, Stands, Underway
<1> QED
  BY <1>2, WithMediaFixed DEF MediaInv

LEMMA MediaRouted ==
    ASSUME Inv, MediaInv, NEW w \in Workers, NEW m \in Messages, NEW after \in Ends,
           RouteMessage(w, m, after)
    PROVE  MediaInv'
<1> USE DEF Inv
<1> DEFINE r == routed[m] + 1
<1>1. /\ job[Inbound(m)] = "claimed"
      /\ \A n \in Messages, k \in Rounds : (n # m \/ k # r) =>
             job'[Download(n, k)] = job[Download(n, k)]
      /\ media[m] = "pending" => job'[Download(m, r)] = "pending"
      /\ routed' = [routed EXCEPT ![m] = r] /\ r \in Rounds
      /\ UNCHANGED <<message, media, content>>
  BY RouteEffect
<1>2. \A n \in Messages, k \in Rounds : Download(n, k)' = Download(n, k)
  BY DEF Download
<1>3. routed[m] \in Nat /\ routed'[m] = r /\ \A n \in Messages \ {m} : routed'[n] = routed[n]
  BY <1>1 DEF QueueInv, Routings
<1>4. m \in message
  BY <1>1 DEF QueueInv, Started
<1>5. ASSUME NEW n \in WithMedia PROVE MediaFollow(n)'
  <2>1. n \in Messages
    BY DEF WithMedia
  <2>2. CASE n # m
    <3>1. Stands(n)' = Stands(n)
      BY <1>1, <1>2, <2>1, <2>2 DEF Stands, Underway
    <3> QED
      BY <1>1, <1>3, <2>1, <2>2, <3>1, WithMediaFixed DEF MediaInv, MediaFollow
  <2>3. CASE n = m
    <3>1. media[m] = "pending" => Stands(m)'
      BY <1>1, <1>2 DEF Stands, Underway
    <3>2. media[m] = "failed" => m \in WithoutId
      BY <1>3, <1>4, <2>3 DEF MediaInv, MediaFollow
    <3> QED
      BY <1>1, <1>3, <1>4, <2>3, <3>1, <3>2, WithMediaFixed DEF MediaFollow
  <2> QED
    BY <2>2, <2>3
<1> QED
  BY <1>1, <1>5, WithMediaFixed DEF MediaInv

LEMMA MediaDownloaded ==
    ASSUME Inv, MediaInv, NEW w \in Workers, NEW m \in Messages, NEW after \in Ends,
           DownloadMedia(w, m, after)
    PROVE  MediaInv'
<1> USE DEF Inv
<1>1. PICK l \in Rounds : work[w].job = Download(m, l)
  BY DEF DownloadMedia
<1>2. /\ media' = [media EXCEPT ![m] = IF @ # "pending" THEN @
                                       ELSE IF m \in WithoutId THEN "failed" ELSE "stored"]
      /\ Working(w)
      /\ job' = [j \in Jobs |-> IF j = Download(m, l) THEN after ELSE job[j]]
      /\ UNCHANGED <<content, message, routed>>
  BY <1>1, HandlerFrame DEF DownloadMedia, Finish
<1>3. job[Download(m, l)] = "claimed"
  BY <1>1, <1>2, WorkingJob
<1>4. \A n \in Messages \ {m}, k \in Rounds : job'[Download(n, k)] = job[Download(n, k)]
  <2>1. \A n \in Messages \ {m}, k \in Rounds : Download(n, k) # Download(m, l)
    BY JobNames
  <2> QED
    BY <1>2, <2>1, JobTypes, HereIsJobs
<1>5. \A n \in Messages, k \in Rounds : Download(n, k)' = Download(n, k)
  BY DEF Download
<1>6. m \in message /\ routed[m] > 0
  <2>1. ~ (l > routed[m]) /\ routed[m] \in Nat
    BY <1>3 DEF QueueInv, Fresh, Routings
  <2>2. routed[m] > 0
    BY <2>1 DEF Rounds
  <2> QED
    BY <2>2 DEF QueueInv, Started
<1>7. ASSUME NEW n \in WithMedia PROVE MediaFollow(n)'
  <2>1. n \in Messages
    BY DEF WithMedia
  <2>2. CASE n # m
    <3>1. Stands(n)' = Stands(n)
      BY <1>4, <1>5, <2>1, <2>2 DEF Stands, Underway
    <3> QED
      BY <1>2, <2>1, <2>2, <3>1, WithMediaFixed DEF MediaInv, MediaFollow
  <2>3. CASE n = m
    <3>1. media'[m] # "pending" /\ (media'[m] = "failed" => m \in WithoutId)
      BY <1>2, <1>6, <2>3 DEF MediaInv, MediaFollow
    <3> QED
      BY <1>2, <1>6, <2>3, <3>1, WithMediaFixed DEF MediaFollow
  <2> QED
    BY <2>2, <2>3
<1> QED
  BY <1>2, <1>7, WithMediaFixed DEF MediaInv

LEMMA MediaStep == ASSUME Inv, MediaInv, [Next]_vars PROVE MediaInv'
<1> USE DEF Inv
<1>1. CASE UNCHANGED vars
  BY <1>1, MediaFrame DEF vars, dbVars, queueVars, history
<1>2. CASE Outside
  BY <1>2, OutsideFrame, MediaFrame DEF queueVars, history
<1>3. ASSUME NEW s \in Servers, NEW d \in Deliveries, Post(s, d)
      PROVE  MediaInv'
  BY <1>3, MediaFrame DEF Post, dbVars, queueVars, history
<1>4. ASSUME NEW s \in Servers, CommitPost(s)
      PROVE  MediaInv'
  <2> DEFINE new == web[s].inserted \cup web[s].added
  <2>1. /\ new \subseteq Messages /\ new \cap message = {}
        /\ message' = message \cup new
        /\ \A j \in Jobs : (\A m \in new : j # Inbound(m)) => job'[j] = job[j]
        /\ \A m \in Messages :
               media'[m] = IF m \in new \cap WithMedia THEN "pending" ELSE media[m]
        /\ media' = [m \in Messages |-> media'[m]]
        /\ UNCHANGED <<content, routed>>
    BY <1>4, CommitEffect
  <2> HIDE DEF new
  <2>2. \A m \in Messages, k \in Rounds : Download(m, k)' = Download(m, k)
    BY DEF Download
  <2>3. \A m \in Messages, k \in Rounds : \A n \in new : Download(m, k) # Inbound(n)
    BY <2>1, InboundNames
  <2>4. \A m \in Messages, k \in Rounds : job'[Download(m, k)] = job[Download(m, k)]
    BY <2>1, <2>3, JobTypes, HereIsJobs
  <2>5. ASSUME NEW m \in WithMedia PROVE MediaFollow(m)'
    <3>1. m \in Messages /\ Stands(m)' = Stands(m)
      BY <2>2, <2>4 DEF WithMedia, Stands, Underway
    <3>2. CASE m \in new
      <4>1. routed[m] = 0
        BY <2>1, <3>1, <3>2 DEF QueueInv, Started
      <4> QED
        BY <2>1, <3>1, <3>2, <4>1 DEF MediaFollow
    <3>3. CASE m \notin new
      BY <2>1, <3>1, <3>3, WithMediaFixed DEF MediaInv, MediaFollow
    <3> QED
      BY <3>2, <3>3
  <2> QED
    BY <2>1, <2>5, WithMediaFixed DEF MediaInv
<1>5. ASSUME NEW w \in Workers, NEW j \in Here, Claim(w, j)
      PROVE  MediaInv'
  <2>1. /\ job[j] = "pending" /\ job' = [job EXCEPT ![j] = "claimed"]
        /\ UNCHANGED <<content, message, media, routed>>
    BY <1>5 DEF Claim, dbVars, history
  <2>2. \A i \in Jobs : job[i] \in Underway => job'[i] \in Underway
    BY <2>1 DEF QueueInv, QueueType, Underway
  <2> QED
    BY <2>1, <2>2, MediaFrame, JobTypes, HereIsJobs
<1>6. ASSUME NEW w \in Workers, Commit(w) \/ LoseAck(w)
      PROVE  MediaInv'
  <2>1. PICK after \in Ends : TakeEffect(w, after)
    BY <1>6, Effective
  <2>2. CASE LogMessage(w, after)
    <3>1. /\ job' = [j \in Jobs |-> IF j = work[w].job THEN after ELSE job[j]]
          /\ UNCHANGED <<content, message, media, routed>>
      BY <2>2 DEF LogMessage, Finish, history
    <3>2. \A m \in Messages, k \in Rounds : work[w].job # Download(m, k)
      BY <2>2, LoggerFrame
    <3>3. \A m \in Messages, k \in Rounds : job'[Download(m, k)] = job[Download(m, k)]
      BY <3>1, <3>2, JobTypes, HereIsJobs
    <3> QED
      BY <3>1, <3>3, MediaFrame
  <2> QED
    BY <2>1, <2>2, MediaRouted, MediaDownloaded DEF TakeEffect
<1>7. ASSUME NEW w \in Workers, Fail(w)
      PROVE  MediaInv'
  <2>1. UNCHANGED <<content, message, media, routed>>
    BY <1>7 DEF Fail, dbVars, history
  <2>2. \A i \in Jobs : job[i] \in Underway => job'[i] \in Underway
    BY <1>7, FailStep DEF Underway
  <2> QED
    BY <2>1, <2>2, MediaFrame, JobTypes, HereIsJobs
<1>8. ASSUME NEW w \in Workers, SendMessage(w) \/ Crash(w)
       PROVE  MediaInv'
  BY <1>8, MediaFrame DEF SendMessage, Crash, dbVars, queueVars, history
<1>9. ASSUME NEW n \in Notices, Notify(n)
       PROVE  MediaInv'
  <2>1. UNCHANGED <<content, message, media, routed>>
    BY <1>9 DEF Notify, dbVars, history
  <2>2. \A m \in Messages, k \in Rounds : job'[Download(m, k)] = job[Download(m, k)]
    BY <1>9, NotifyStep, NoticeName, JobTypes, HereIsJobs
  <2> QED
    BY <2>1, <2>2, MediaFrame
<1> QED
  BY <1>1, <1>2, <1>3, <1>4, <1>5, <1>6, <1>7, <1>8, <1>9 DEF Next, Serve, Step, Outside

\* No media of a routed message are forgotten: until they are stored some job
\* stands for them, however often the download fails or its worker dies
\* (handlers/media.py).
THEOREM MediaTrackedHolds == Spec => []MediaTracked
<1>1. Init => MediaInv
  BY MediaInit
<1>2. Inv /\ MediaInv /\ [Next]_vars => MediaInv'
  BY MediaStep
<1>3. MediaInv => MediaTracked
  BY MediaImplies
<1> QED
  BY <1>1, <1>2, <1>3, Invariance, PTL DEF Spec

-----------------------------------------------------------------------------
(* The life of a message                                                   *)

\* A step that none of this sees.
LEMMA StageFrame ==
    ASSUME UNCHANGED <<arrived, routed, doubts, message>>,
           \A m \in Messages :
               /\ job'[Inbound(m)] = job[Inbound(m)]
               /\ \A w \in Workers : work'[w].job = Inbound(m) <=> work[w].job = Inbound(m)
    PROVE  UNCHANGED Abstract!vars
<1>1. \A m \in Messages : Inbound(m)' = Inbound(m)
  BY DEF Inbound
<1>2. \A m \in Messages : Stage(m)' = Stage(m)
  BY <1>1 DEF Stage, Over
<1> QED
  BY <1>2 DEF Abstract!vars

LEMMA StageInit == ASSUME Init PROVE Abstract!Init
<1>1. \A m \in Messages : Stage(m) = "unsent"
  BY DEF Init, Stage
<1> QED
  BY <1>1 DEF Init, Abstract!Init

LEMMA PostSends ==
    ASSUME Inv, NEW s \in Servers, NEW d \in Deliveries, Post(s, d)
    PROVE  Abstract!Send
<1> DEFINE some == {m \in Messages : Holds(d, m) /\ arrived[m] = Never}
<1>1. /\ UNCHANGED <<routed, doubts, message, job, work>>
      /\ \A m \in Messages : arrived'[m] = IF m \in some THEN now ELSE arrived[m]
      /\ now # Never
  BY DEF Post, dbVars, queueVars, history, Inv, KeepInv, KeepType, Never
<1>2. \A m \in Messages : m \in some => Stage(m) = "unsent" /\ m \notin message
  BY DEF Stage, Inv, KeepInv, OnlyArrived
<1>3. \A m \in Messages : m \in some => Stage(m)' = "sent"
  BY <1>1, <1>2 DEF Stage
<1>4. \A m \in Messages : m \notin some => Stage(m)' = Stage(m)
  BY <1>1 DEF Stage, Over, Inbound
<1>5. some \in SUBSET Abstract!At("unsent")
  BY <1>2 DEF Abstract!At
<1> HIDE DEF some
<1>6. Abstract!Move(some, "sent")
  BY <1>3, <1>4 DEF Abstract!Move
<1> QED
  BY <1>1, <1>5, <1>6 DEF Abstract!Send

LEMMA CommitKeeps ==
    ASSUME Inv, NEW s \in Servers, CommitPost(s)
    PROVE  Abstract!Keep
<1> DEFINE new == web[s].inserted \cup web[s].added
<1>1. /\ new \subseteq Messages /\ new \cap message = {}
      /\ message' = message \cup new
      /\ \A m \in new : job'[Inbound(m)] = "pending"
      /\ \A j \in Jobs : (\A m \in new : j # Inbound(m)) => job'[j] = job[j]
      /\ UNCHANGED <<work, routed, doubts, arrived>>
  BY CommitEffect DEF Inv
<1>2. \A m \in new : arrived[m] # Never /\ routed[m] = 0
  BY <1>1 DEF Inv, KeepInv, OnlyArrived, QueueInv, Started
<1> HIDE DEF new
<1>3. \A m \in Messages \ new : job'[Inbound(m)] = job[Inbound(m)]
  BY <1>1, InboundNames, JobTypes, HereIsJobs
<1>4. \A m \in new : Stage(m) = "sent"
  BY <1>1, <1>2 DEF Stage
<1>5. \A m \in Messages : Inbound(m)' = Inbound(m)
  BY DEF Inbound
<1>6. \A m \in new : Stage(m)' = "kept"
  BY <1>1, <1>2, <1>5 DEF Stage, Over
<1>7. \A m \in Messages \ new : Stage(m)' = Stage(m)
  BY <1>1, <1>3, <1>5 DEF Stage, Over
<1>8. new \in SUBSET Abstract!At("sent")
  BY <1>1, <1>4 DEF Abstract!At
<1>9. Abstract!Move(new, "kept")
  BY <1>1, <1>6, <1>7 DEF Abstract!Move
<1> QED
  BY <1>1, <1>8, <1>9 DEF Abstract!Keep

\* A message whose job some worker is at.
LEMMA BeingRouted ==
    ASSUME Inv, NEW w \in Workers, NEW m \in Messages, work[w].job = Inbound(m)
    PROVE  /\ m \in message /\ arrived[m] # Never /\ job[Inbound(m)] = "claimed"
           /\ Stage(m) = IF routed[m] = 0 THEN "kept" ELSE "in doubt"
<1>1. job[Inbound(m)] = "claimed"
  BY NewRound DEF Inv
<1>2. m \in message
  BY <1>1 DEF Inv, QueueInv, Started
<1>3. arrived[m] # Never
  BY <1>2 DEF Inv, KeepInv, OnlyArrived
<1> QED
  BY <1>1, <1>2, <1>3 DEF Stage, Over

\* The other messages do not notice that a worker puts its job down.
LEMMA OthersStay ==
    ASSUME Inv, NEW w \in Workers, NEW m \in Messages, work[w].job = Inbound(m),
           work' = [work EXCEPT ![w] = AtRest], UNCHANGED <<message, arrived>>,
           \A n \in Messages \ {m} : job'[Inbound(n)] = job[Inbound(n)] /\ routed'[n] = routed[n]
    PROVE  \A n \in Messages \ {m} : Stage(n)' = Stage(n)
<1>1. \A n \in Messages : Inbound(n)' = Inbound(n) /\ AtRest.job # Inbound(n)
  BY JobTypes, HereIsJobs, RestType DEF AtRestType, Inbound
<1>2. \A n \in Messages \ {m} : work[w].job # Inbound(n)
  BY InboundNames
<1>3. \A n \in Messages \ {m} : \A v \in Workers :
          work'[v].job = Inbound(n) <=> work[v].job = Inbound(n)
  BY <1>1, <1>2 DEF Inv, QueueInv, QueueType
<1> QED
  BY <1>1, <1>3 DEF Stage, Over

LEMMA RouteHandsOn ==
    ASSUME Inv, NEW w \in Workers, NEW m \in Messages, NEW after \in Ends,
           RouteMessage(w, m, after)
    PROVE  Abstract!HandOn(m) \/ Abstract!Doubt(m)
<1>1. /\ work[w].job = Inbound(m) /\ job'[Inbound(m)] = after
      /\ \A n \in Messages \ {m} : job'[Inbound(n)] = job[Inbound(n)]
      /\ routed' = [routed EXCEPT ![m] = routed[m] + 1]
      /\ doubts' = IF after = "succeeded" THEN doubts ELSE [doubts EXCEPT ![m] = @ + 1]
      /\ UNCHANGED <<message, arrived>>
  BY RouteEffect DEF Inv
<1>2. work' = [work EXCEPT ![w] = AtRest]
  BY DEF RouteMessage, Finish
<1>3. /\ m \in message /\ arrived[m] # Never
      /\ Stage(m) \in {"kept", "in doubt"}
  BY <1>1, BeingRouted
<1>4. \A n \in Messages \ {m} : Stage(n)' = Stage(n)
  BY <1>1, <1>2, OthersStay DEF Inv, QueueInv, Routings
<1>5. Inbound(m)' = Inbound(m) /\ routed'[m] # 0
  BY <1>1 DEF Inbound, Inv, QueueInv, Routings
<1>6. Stage(m)' = IF after = "pending" THEN "in doubt" ELSE "handed on"
  BY <1>1, <1>3, <1>5 DEF Stage, Over, Ends
<1>7. Abstract!Move({m}, IF after = "pending" THEN "in doubt" ELSE "handed on")
  BY <1>4, <1>6 DEF Abstract!Move
<1>8. CASE after = "succeeded"
  BY <1>1, <1>3, <1>7, <1>8 DEF Abstract!HandOn
<1>9. CASE after # "succeeded"
  BY <1>1, <1>3, <1>7, <1>9 DEF Abstract!Doubt, Ends
<1> QED
  BY <1>8, <1>9

\* A worker that fails or dies gives up the message it was to route, or another
\* attempt is left: then nothing is seen of it.
LEMMA DownAbandons ==
    ASSUME Inv, NEW w \in Workers, Fail(w) \/ Crash(w)
    PROVE  \/ \E m \in Messages : Abstract!Abandon(m) \/ Abstract!LeaveIt(m)
           \/ UNCHANGED Abstract!vars
<1>1. /\ Working(w) /\ work' = [work EXCEPT ![w] = AtRest]
      /\ UNCHANGED <<message, routed, doubts, arrived>>
      /\ job[work[w].job] = "claimed"
      /\ \A j \in Jobs \ {work[w].job} : job'[j] = job[j]
  BY WorkingJob, FailStep, CrashStep DEF Inv, Fail, Crash, dbVars, worldVars, history
<1>2. CASE \A m \in Messages : work[w].job # Inbound(m)
  <2>1. \A m \in Messages : AtRest.job # Inbound(m)
    BY JobTypes, HereIsJobs, RestType DEF AtRestType
  <2>2. \A m \in Messages :
            /\ job'[Inbound(m)] = job[Inbound(m)]
            /\ \A v \in Workers : work'[v].job = Inbound(m) <=> work[v].job = Inbound(m)
    BY <1>1, <1>2, <2>1, JobTypes, HereIsJobs DEF Inv, QueueInv, QueueType
  <2> QED
    BY <1>1, <2>2, StageFrame
<1>3. ASSUME NEW m \in Messages, work[w].job = Inbound(m)
      PROVE  Abstract!Abandon(m) \/ Abstract!LeaveIt(m) \/ UNCHANGED Abstract!vars
  <2>1. \A n \in Messages \ {m} : job'[Inbound(n)] = job[Inbound(n)]
    BY <1>1, <1>3, InboundNames, JobTypes, HereIsJobs
  <2>2. \A n \in Messages \ {m} : Stage(n)' = Stage(n)
    BY <1>1, <1>3, <2>1, OthersStay
  <2>3. /\ m \in message /\ arrived[m] # Never
        /\ Stage(m) = IF routed[m] = 0 THEN "kept" ELSE "in doubt"
    BY <1>3, BeingRouted
  <2>4. Inbound(m)' = Inbound(m)
    BY DEF Inbound
  <2>5. Stage(m)' = IF routed[m] = 0 THEN (IF Over(m)' THEN "abandoned" ELSE "kept")
                   ELSE IF Over(m)' THEN "handed on" ELSE "in doubt"
    BY <1>1, <2>3, <2>4 DEF Stage
  <2>6. CASE ~ Over(m)'
    <3>1. \A n \in Messages : Stage(n)' = Stage(n)
      BY <2>2, <2>3, <2>5, <2>6
    <3> QED
      BY <1>1, <3>1 DEF Abstract!vars
  <2>7. CASE Over(m)' /\ routed[m] = 0
    <3>1. Abstract!Move({m}, "abandoned")
      BY <2>2, <2>5, <2>7 DEF Abstract!Move
    <3> QED
      BY <1>1, <2>3, <2>7, <3>1 DEF Abstract!Abandon
  <2>8. CASE Over(m)' /\ routed[m] # 0
    <3>1. Abstract!Move({m}, "handed on")
      BY <2>2, <2>5, <2>8 DEF Abstract!Move
    <3> QED
      BY <1>1, <2>3, <2>8, <3>1 DEF Abstract!LeaveIt
  <2> QED
    BY <2>6, <2>7, <2>8
<1> QED
  BY <1>2, <1>3

\* What remains: jobs that are not about routing, and claims.
LEMMA ClaimUnseen ==
    ASSUME Inv, NEW w \in Workers, NEW j \in Here, Claim(w, j)
    PROVE  UNCHANGED Abstract!vars
<1> DEFINE taken == [AtRest EXCEPT !.job = j, !.at = now]
<1>1. /\ ~ Working(w) /\ job[j] = "pending" /\ j \in Jobs
      /\ job' = [job EXCEPT ![j] = "claimed"]
      /\ work' = [work EXCEPT ![w] = taken]
      /\ UNCHANGED <<message, routed, doubts, arrived>>
  BY HereIsJobs DEF Claim, dbVars, worldVars, history
<1>2. taken.job = j
  BY DEF AtRest
<1> HIDE DEF taken
<1>3. /\ work'[w] = taken
      /\ \A v \in Workers \ {w} : work'[v] = work[v]
      /\ job'[j] = "claimed" /\ \A i \in Jobs \ {j} : job'[i] = job[i]
  BY <1>1 DEF Inv, QueueInv, QueueType
<1>4. \A m \in Messages : Inbound(m)' = Inbound(m) /\ work[w].job # Inbound(m)
  BY <1>1, JobTypes, HereIsJobs DEF Inbound, Working
<1>5. \A m \in Messages : Over(m)' <=> Over(m)
  <2>1. ASSUME NEW m \in Messages, j # Inbound(m) PROVE Over(m)' <=> Over(m)
    BY <1>2, <1>3, <1>4, <2>1, JobTypes, HereIsJobs DEF Over
  <2>2. ASSUME NEW m \in Messages, j = Inbound(m) PROVE Over(m)' <=> Over(m)
    BY <1>1, <1>2, <1>3, <1>4, <2>2 DEF Over
  <2> QED
    BY <2>1, <2>2
<1>6. \A m \in Messages : Stage(m)' = Stage(m)
  BY <1>1, <1>5 DEF Stage
<1> QED
  BY <1>1, <1>6 DEF Abstract!vars

LEMMA FinishUnseen ==
    ASSUME Inv, NEW w \in Workers, NEW after, Finish(w, after, {}),
           \A m \in Messages : work[w].job # Inbound(m),
           UNCHANGED <<message, routed, doubts, arrived>>
    PROVE  UNCHANGED Abstract!vars
<1>1. \A m \in Messages : job'[Inbound(m)] = job[Inbound(m)]
  BY JobTypes, HereIsJobs DEF Finish
<1>2. \A m \in Messages : AtRest.job # Inbound(m)
  BY JobTypes, HereIsJobs, RestType DEF AtRestType
<1>3. work' = [work EXCEPT ![w] = AtRest]
  BY DEF Finish
<1>4. \A m \in Messages, v \in Workers : work'[v].job = Inbound(m) <=> work[v].job = Inbound(m)
  BY <1>2, <1>3 DEF Inv, QueueInv, QueueType
<1> QED
  BY <1>1, <1>4, StageFrame

LEMMA StepRefines ==
    ASSUME Inv, [Next]_vars
    PROVE  [Abstract!Next]_(Abstract!vars)
<1>1. CASE UNCHANGED vars
  BY <1>1, StageFrame DEF vars, dbVars, queueVars, worldVars, history
<1>2. CASE Outside
  BY <1>2, OutsideFrame, StageFrame DEF queueVars, history
<1>3. ASSUME NEW s \in Servers, NEW d \in Deliveries, Post(s, d)
      PROVE  Abstract!Next
  BY <1>3, PostSends DEF Abstract!Next
<1>4. ASSUME NEW s \in Servers, CommitPost(s)
      PROVE  Abstract!Next
  BY <1>4, CommitKeeps DEF Abstract!Next
<1>5. ASSUME NEW w \in Workers, NEW j \in Here, Claim(w, j)
      PROVE  UNCHANGED Abstract!vars
  BY <1>5, ClaimUnseen
<1>6. ASSUME NEW w \in Workers, Commit(w) \/ LoseAck(w)
      PROVE  [Abstract!Next]_(Abstract!vars)
  <2>1. PICK after \in Ends : TakeEffect(w, after)
    BY <1>6, Effective
  <2>2. ASSUME NEW m \in Messages, RouteMessage(w, m, after) PROVE Abstract!Next
    BY <2>2, RouteHandsOn DEF Abstract!Next
  <2>3. ASSUME NEW m \in Messages, DownloadMedia(w, m, after) PROVE UNCHANGED Abstract!vars
    BY <2>3, HandlerFrame, FinishUnseen DEF Inv
  <2>4. CASE LogMessage(w, after)
    BY <2>4, LoggerFrame, HandlerFrame, FinishUnseen DEF Inv
  <2> QED
    BY <2>1, <2>2, <2>3, <2>4 DEF TakeEffect
<1>7. ASSUME NEW w \in Workers, SendMessage(w)
      PROVE  UNCHANGED Abstract!vars
  <2>1. UNCHANGED <<message, routed, doubts, arrived>>
    BY <1>7 DEF SendMessage, dbVars, history
  <2> QED
    BY <1>7, <2>1, SendStep, StageFrame DEF Inv
<1>8. ASSUME NEW w \in Workers, Fail(w) \/ Crash(w)
       PROVE  [Abstract!Next]_(Abstract!vars)
  BY <1>8, DownAbandons DEF Abstract!Next
<1>9. ASSUME NEW n \in Notices, Notify(n)
       PROVE  UNCHANGED Abstract!vars
  <2>1. UNCHANGED <<message, routed, doubts, arrived, work>>
    BY <1>9 DEF Notify, dbVars, worldVars, history
  <2>2. \A m \in Messages : job'[Inbound(m)] = job[Inbound(m)]
    BY <1>9, NotifyStep, NoticeName, JobTypes, HereIsJobs DEF Inv
  <2> QED
    BY <2>1, <2>2, StageFrame
<1> QED
  BY <1>1, <1>2, <1>3, <1>4, <1>5, <1>6, <1>7, <1>8, <1>9 DEF Next, Serve, Step, Outside

\* Redelivery, concurrent posts, failed attempts, lost answers and deaths
\* implement the life of a message in which it is sent, kept and handed on
\* once, and once more if that was in doubt, or abandoned as a job an operator
\* can see; that nothing stays under way is left to TLC.
THEOREM KeepsTheInbox == Spec => Abstract!Spec
<1>1. Init => Abstract!Init
  BY StageInit
<1>2. Inv /\ [Next]_vars => [Abstract!Next]_(Abstract!vars)
  BY StepRefines
<1> QED
  BY <1>1, <1>2, Invariance, PTL DEF Spec, Abstract!Spec

-----------------------------------------------------------------------------
(* Types. One of them counts: WhatsApp has accepted one message for each    *)
(* send_message job at most, and one more for each time it was sent in     *)
(* vain.                                                                   *)

Sends == (Messages \cup Notices) \X Rounds
SendJob(x) == <<"send_message", x[1], x[2]>>

\* For which there is a message out that was not sent in vain.
Sending(x) ==
    \/ job[SendJob(x)] = "succeeded"
    \/ \E w \in Workers : work[w].job = SendJob(x) /\ work[w].out # 0

Sendings == {x \in Sends : Sending(x)}

SentCounted == events <= MaxEvents /\ Len(outs) <= Cardinality(Sendings) + events

Reports == {"none", "sent", "delivered", "read", "failed"}

PostTypes ==
    [post : Deliveries \cup {Nothing}, pos : Nat \ {0},
     inserted : SUBSET Messages, added : SUBSET Messages, seen : {NoRow} \cup Reports]

WorkTypes == [job : Here \cup {Nothing}, at : Nat \cup {Never}, out : 0 .. MaxOuts]
OutTypes == [job : Here, form : {"interactive", "text", "template"}]

\* A worker at rest has nothing out.
RestingSent == \A w \in Workers : work[w].out # 0 => Working(w)

SendsTyped ==
    /\ RestingSent
    /\ work \in [Workers -> WorkTypes] /\ outs \in Seq(OutTypes)
    /\ events \in Nat /\ SentCounted

RowsTyped ==
    /\ content \in [Messages -> Content]
    /\ message \subseteq Messages
    /\ media \in [Messages -> {"none", "pending", "stored", "failed"}]
    /\ window \in [People -> Nat \cup {Never}]
    /\ arrived \in [Messages -> Nat \cup {Never}]
    /\ acked \subseteq Deliveries /\ reported \subseteq Deliveries
    /\ now \in Nat

LogTyped ==
    /\ web \in [Servers -> PostTypes]
    /\ logged \subseteq 1 .. MaxOuts
    /\ status \in [1 .. MaxOuts -> Reports]

TypeInv == SendsTyped /\ RowsTyped /\ LogTyped

LEMMA TypeInvIsEnough == ASSUME Inv, TypeInv PROVE TypeOK
<1> USE DEF TypeInv
<1>1. {NoRow} \cup Reports = {NoRow, "none", "sent", "delivered", "read", "failed"}
  BY DEF Reports
<1>2. web \in [Servers -> [post : Deliveries \cup {Nothing}, pos : Nat \ {0},
                           inserted : SUBSET Messages, added : SUBSET Messages,
                           seen : {NoRow, "none", "sent", "delivered", "read", "failed"}]]
  BY <1>1 DEF LogTyped, PostTypes
<1>3. {now, events} \subseteq Nat
  BY DEF RowsTyped, SendsTyped
<1>4. {routed, doubts} \subseteq [Messages -> Nat]
  BY DEF Inv, QueueInv, Routings
<1> QED
  BY <1>2, <1>3, <1>4 DEF Inv, TypeOK, JobsTyped, SendsTyped, RowsTyped, LogTyped, States,
                          Reports, WorkTypes, OutTypes

LEMMA SendsFinite == IsFiniteSet(Sends) /\ Cardinality(Sends) \in Nat
<1>1. IsFiniteSet(Rounds)
  BY FS_Interval DEF Rounds
<1> QED
  BY <1>1, FS_Product, FS_CardinalityType DEF Sends

LEMMA OutsBound == MaxOuts \in Nat /\ Cardinality(Sends) + MaxEvents = MaxOuts
BY SendsFinite DEF MaxOuts, Sends

\* Jobs that were not there come with no attempts used up.
LEMMA FreePost == Free \in PostTypes
BY DEF Free, PostTypes

\* The transaction of a post: its rows, and the status it has read.
LEMMA WebStep ==
    ASSUME Inv, RowsTyped, SendsTyped, LogTyped, [Next]_vars
    PROVE  web' \in [Servers -> PostTypes]
<1> USE DEF LogTyped
<1>1. ASSUME NEW s \in Servers, NEW d \in Deliveries, Post(s, d)
      PROVE  web' \in [Servers -> PostTypes]
  <2>1. [Free EXCEPT !.post = d] \in PostTypes
    BY FreePost DEF PostTypes
  <2> QED
    BY <1>1, <2>1 DEF Post
<1>2. ASSUME NEW s \in Servers, PersistMessage(s) PROVE web' \in [Servers -> PostTypes]
  <2> DEFINE t == web[s]
             m == t.post.batch[t.pos]
             flushed == t.inserted \cup t.added
             rest == IF m \in message \cup flushed THEN {} ELSE {m}
             next == t.pos + 1
             u == [t EXCEPT !.pos = next, !.inserted = flushed, !.added = rest]
  <2>1. /\ web' = [web EXCEPT ![s] = u]
        /\ t.post \in Deliveries /\ t.pos \in DOMAIN t.post.batch
    BY <1>2 DEF PersistMessage, Flushes, Busy, PostTypes
  <2>2. m \in Messages
    BY <2>1, DeliveryType
  <2>3. /\ flushed \in SUBSET Messages /\ rest \in SUBSET Messages
        /\ t \in PostTypes /\ next \in Nat \ {0}
    BY <2>2 DEF PostTypes
  <2> HIDE DEF flushed, rest, t, next
  <2>4. u \in PostTypes
    BY <2>3 DEF PostTypes
  <2> HIDE DEF u
  <2> QED
    BY <2>1, <2>4
<1>3. ASSUME NEW s \in Servers, FindOutbound(s) PROVE web' \in [Servers -> PostTypes]
  <2> DEFINE t == web[s]
             row == IF t.post.out \in logged THEN status[t.post.out] ELSE NoRow
             next == t.pos + 1
             u == [t EXCEPT !.pos = next, !.seen = row]
  <2>1. web' = [web EXCEPT ![s] = u] /\ t \in PostTypes
    BY <1>3 DEF FindOutbound
  <2>2. row \in {NoRow} \cup Reports /\ next \in Nat \ {0}
    BY <2>1 DEF PostTypes
  <2> HIDE DEF row, t, next
  <2>3. u \in PostTypes
    BY <2>1, <2>2 DEF PostTypes
  <2> HIDE DEF u
  <2> QED
    BY <2>1, <2>3
<1>4. ASSUME NEW s \in Servers, CommitPost(s) \/ RefusePost(s) \/ PostFails(s)
      PROVE  web' \in [Servers -> PostTypes]
  BY <1>4, FreePost DEF CommitPost, RefusePost, PostFails
<1>5. CASE Elsewhere
  <2>1. now \in Nat
    BY DEF RowsTyped
  <2> QED
    BY <1>5, <2>1, ElsewhereFrame
<1>6. CASE UNCHANGED vars
  BY <1>6 DEF vars
<1> QED
  BY <1>1, <1>2, <1>3, <1>4, <1>5, <1>6 DEF Next, Serve, Elsewhere

\* What is logged is a message WhatsApp has accepted; a status is one of Meta's.
LEMMA LogStep ==
    ASSUME Inv, RowsTyped, SendsTyped, LogTyped, [Next]_vars
    PROVE  LogTyped'
<1>1. web' \in [Servers -> PostTypes]
  BY WebStep
<1>2. CASE UNCHANGED <<logged, status>>
  BY <1>1, <1>2 DEF LogTyped
<1>3. ASSUME NEW s \in Servers, CommitPost(s) PROVE LogTyped'
  <2> DEFINE d == web[s].post
  <2>1. d \in Deliveries
    BY <1>3 DEF CommitPost, Flushes, Busy, LogTyped, PostTypes
  <2>2. d.status \in Reports
    <3>1. CASE \E b \in Batches : d = Batch(b)
      BY <3>1 DEF Batch, Reports
    <3>2. CASE \E o \in 1 .. MaxOuts, st \in Statuses : d = Report(o, st)
      BY <3>2 DEF Report, Reports
    <3>3. (\E b \in Batches : d = Batch(b))
          \/ (\E o \in 1 .. MaxOuts, st \in Statuses : d = Report(o, st))
      BY <2>1 DEF Deliveries
    <3> HIDE DEF d
    <3> QED
      BY <3>1, <3>2, <3>3
  <2>3. status' = status \/ status' = [status EXCEPT ![d.out] = d.status]
    BY <1>3 DEF CommitPost
  <2>4. UNCHANGED logged
    BY <1>3 DEF CommitPost
  <2> HIDE DEF d
  <2> QED
    BY <1>1, <2>2, <2>3, <2>4 DEF LogTyped
<1>4. ASSUME NEW w \in Workers, Commit(w) \/ LoseAck(w) PROVE LogTyped'
  <2>1. PICK after : TakeEffect(w, after)
    BY <1>4, Effective
  <2>2. CASE LogMessage(w, after)
    <3>1. work[w].out \in 1 .. MaxOuts
      BY <2>2, OutsBound DEF LogMessage, SendsTyped, WorkTypes
    <3> QED
      BY <1>1, <2>2, <3>1 DEF LogMessage, LogTyped
  <2>3. ASSUME NEW m \in Messages, RouteMessage(w, m, after) \/ DownloadMedia(w, m, after)
        PROVE  UNCHANGED <<logged, status>>
    BY <2>3 DEF RouteMessage, DownloadMedia
  <2> QED
    BY <1>2, <2>1, <2>2, <2>3 DEF TakeEffect
<1>5. ASSUME NEW s \in Servers,
             \/ PersistMessage(s) \/ FindOutbound(s) \/ RefusePost(s) \/ PostFails(s)
             \/ \E d \in Deliveries : Post(s, d)
      PROVE  UNCHANGED <<logged, status>>
  BY <1>5 DEF PersistMessage, FindOutbound, RefusePost, PostFails, Post, dbVars
<1>6. ASSUME NEW w \in Workers,
             \/ SendMessage(w) \/ Crash(w) \/ Fail(w) \/ \E j \in Here : Claim(w, j)
      PROVE  UNCHANGED <<logged, status>>
  BY <1>6 DEF SendMessage, Crash, Fail, Claim, dbVars
<1>7. ASSUME NEW n, Notify(n) PROVE UNCHANGED <<logged, status>>
  BY <1>7 DEF Notify, dbVars
<1>8. ASSUME NEW o, NEW st, MetaReports(o, st) PROVE UNCHANGED <<logged, status>>
  BY <1>8 DEF MetaReports, dbVars
<1>9. CASE Tick \/ UNCHANGED vars
  BY <1>2, <1>9 DEF Tick, vars, dbVars
<1> QED
  BY <1>2, <1>3, <1>4, <1>5, <1>6, <1>7, <1>8, <1>9 DEF Next, Serve, Step

\* Who has sent goes on being counted, unless he sends again.
LEMMA StillSending ==
    ASSUME \A x \in Sends : job[SendJob(x)] = "succeeded" => job'[SendJob(x)] = "succeeded",
           \A w \in Workers : work[w].out # 0 =>
               work'[w] = work[w] \/ job'[work[w].job] = "succeeded"
    PROVE  Sendings \subseteq Sendings'
BY DEF Sendings, Sending

LEMMA SendingsFinite ==
    /\ IsFiniteSet(Sendings) /\ Cardinality(Sendings) \in Nat
    /\ IsFiniteSet(Sendings') /\ Cardinality(Sendings') \in Nat
    /\ Cardinality(Sendings') <= Cardinality(Sends)
BY SendsFinite, FS_Subset, FS_CardinalityType DEF Sendings

LEMMA StillCounted ==
    ASSUME SendsTyped, Sendings \subseteq Sendings', UNCHANGED outs,
           Event \/ UNCHANGED events
    PROVE  events' \in Nat /\ SentCounted'
<1>1. events' \in {events, events + 1} /\ events' \in Nat /\ events' <= MaxEvents
  BY DEF Event, SendsTyped, SentCounted
<1>2. /\ Cardinality(Sendings) \in Nat /\ Cardinality(Sendings') \in Nat
      /\ Cardinality(Sendings) <= Cardinality(Sendings')
  BY SendingsFinite, FS_Subset
<1>3. Len(outs) \in Nat
  BY DEF SendsTyped
<1> QED
  BY <1>1, <1>2, <1>3 DEF SendsTyped, SentCounted

LEMMA AtRestTyped == AtRest \in WorkTypes /\ AtRest.out = 0
BY OutsBound DEF AtRest, WorkTypes

LEMMA SendJobs ==
    /\ \A j \in Here : j[1] = "send_message" => <<j[2], j[3]>> \in Sends /\ j = SendJob(<<j[2], j[3]>>)
    /\ \A x \in Sends : SendJob(x) \in Jobs
<1>1. ASSUME NEW j \in Here, j[1] = "send_message"
      PROVE  \E a \in Messages \cup Notices, k \in Rounds : j = <<"send_message", a, k>>
  BY <1>1 DEF Here, Jobs, Inbound
<1>2. ASSUME NEW j \in Here, j[1] = "send_message"
      PROVE  <<j[2], j[3]>> \in Sends /\ j = SendJob(<<j[2], j[3]>>)
  BY <1>1, <1>2 DEF Sends, SendJob
<1>3. \A x \in Sends : SendJob(x) \in Jobs
  BY DEF Sends, SendJob, Jobs
<1> QED
  BY <1>2, <1>3

\* A message goes out: its job is counted from now on.
LEMMA SendCounts ==
    ASSUME Inv, SendsTyped, NEW w \in Workers, SendMessage(w)
    PROVE  SendsTyped'
<1> DEFINE j == work[w].job
           x == <<j[2], j[3]>>
           sent == [job |-> j, form |-> Form(j)]
<1>1. /\ j \in Here /\ j[1] = "send_message" /\ work[w].out = 0 /\ job[j] = "claimed"
      /\ outs' = Append(outs, sent)
      /\ work' = [work EXCEPT ![w].out = Len(outs')]
      /\ UNCHANGED <<job, events>>
  BY WorkingJob DEF SendMessage, Inv, queueVars
<1>2. x \in Sends /\ j = SendJob(x)
  BY <1>1, SendJobs
<1>3. sent \in OutTypes
  BY <1>1 DEF OutTypes, Form
<1>4. /\ outs' \in Seq(OutTypes) /\ Len(outs) \in Nat /\ Len(outs') = Len(outs) + 1
  <2> HIDE DEF sent
  <2> QED
    BY <1>1, <1>3 DEF SendsTyped
<1>5. x \notin Sendings
  <2>1. job[SendJob(x)] # "succeeded"
    BY <1>1, <1>2
  <2>2. \A v \in Workers : ~ (work[v].job = j /\ work[v].out # 0)
    BY <1>1 DEF Inv, QueueInv, Claims, SendMessage
  <2> QED
    BY <1>2, <2>1, <2>2 DEF Sendings, Sending
<1>6. work'[w].job = j /\ work'[w].out # 0 /\ \A v \in Workers \ {w} : work'[v] = work[v]
  BY <1>1, <1>4 DEF SendsTyped, WorkTypes
<1>7. Sendings \cup {x} \subseteq Sendings'
  BY <1>1, <1>2, <1>6 DEF Sendings, Sending
<1>8. SentCounted'
  <2>1. /\ IsFiniteSet(Sendings) /\ IsFiniteSet(Sendings')
        /\ Cardinality(Sendings) \in Nat /\ Cardinality(Sendings') \in Nat
    BY SendingsFinite
  <2>2. Cardinality(Sendings \cup {x}) = Cardinality(Sendings) + 1
    BY <1>5, <2>1, FS_AddElement
  <2>3. Cardinality(Sendings) + 1 <= Cardinality(Sendings')
    BY <1>7, <2>1, <2>2, FS_Subset
  <2> QED
    BY <1>1, <1>4, <2>1, <2>3 DEF SendsTyped, SentCounted
<1>9. Len(outs') \in 0 .. MaxOuts
  <2> DEFINE all == Cardinality(Sends)
             some == Cardinality(Sendings')
  <2>1. some \in Nat /\ some <= all /\ all \in Nat
    BY SendingsFinite, SendsFinite
  <2>2. Len(outs') \in Nat /\ Len(outs') <= some + events' /\ events' <= MaxEvents
    BY <1>4, <1>8 DEF SentCounted
  <2>3. all + MaxEvents = MaxOuts /\ MaxOuts \in Nat /\ MaxEvents \in Nat /\ events' \in Nat
    BY <1>1, OutsBound DEF SendsTyped
  <2> HIDE DEF all, some
  <2> QED
    BY <2>1, <2>2, <2>3
<1>10. work' \in [Workers -> WorkTypes]
  BY <1>1, <1>9 DEF SendsTyped, WorkTypes
<1>11. RestingSent'
  BY <1>1, <1>6, HereIsJobs DEF SendsTyped, RestingSent, Working
<1> QED
  BY <1>1, <1>4, <1>8, <1>10, <1>11 DEF SendsTyped

\* A job that does not end well is counted no longer: an event pays for it.
LEMMA VainCounts ==
    ASSUME Inv, SendsTyped, NEW w \in Workers, Working(w),
           work' = [work EXCEPT ![w] = AtRest], Event, UNCHANGED outs,
           \A j \in Jobs \ {work[w].job} : job[j] = "succeeded" => job'[j] = "succeeded"
    PROVE  SendsTyped'
<1> DEFINE j == work[w].job
<1>1. /\ j \in Jobs /\ job[j] = "claimed"
      /\ work' = [work EXCEPT ![w] = AtRest]
      /\ events < MaxEvents /\ events' = events + 1 /\ UNCHANGED outs
  BY WorkingJob DEF Inv, Event
<1>2. \A i \in Jobs \ {j} : job[i] = "succeeded" => job'[i] = "succeeded"
  OBVIOUS
<1>3. work' \in [Workers -> WorkTypes] /\ \A v \in Workers \ {w} : work'[v] = work[v]
  BY <1>1, AtRestTyped DEF SendsTyped
<1> HIDE DEF j
<1>4. \A x \in Sendings \ Sendings' : SendJob(x) = j
  BY <1>1, <1>2, <1>3, SendJobs DEF Sendings, Sending, j
<1>5. \A x \in Sendings \ Sendings' : x = <<j[2], j[3]>>
  BY <1>4 DEF SendJob, Sendings, Sends
<1>6. Sendings \subseteq Sendings' \cup {<<j[2], j[3]>>}
  BY <1>5
<1>7. /\ IsFiniteSet(Sendings') /\ Cardinality(Sendings) \in Nat /\ Cardinality(Sendings') \in Nat
  BY SendingsFinite
<1>8. Cardinality(Sendings) <= Cardinality(Sendings') + 1
  <2> DEFINE S == Sendings'
             x == <<j[2], j[3]>>
             T == S \cup {x}
  <2>0. IsFiniteSet(S) /\ Cardinality(S) \in Nat
    BY <1>7
  <2> HIDE DEF S, x
  <2>1. IsFiniteSet(T) /\ Cardinality(T) \in {Cardinality(S), Cardinality(S) + 1}
    BY <2>0, FS_AddElement
  <2>2. Sendings \subseteq T
    BY <1>6 DEF S, x
  <2> HIDE DEF T
  <2>3. Cardinality(Sendings) <= Cardinality(T)
    BY <2>1, <2>2, FS_Subset
  <2>4. Cardinality(Sendings) <= Cardinality(S) + 1
    BY <1>7, <2>0, <2>1, <2>3
  <2> QED
    BY <2>4 DEF S
<1>9. RestingSent'
  BY <1>1, <1>3, AtRestTyped DEF SendsTyped, RestingSent, Working
<1> QED
  BY <1>1, <1>3, <1>7, <1>8, <1>9 DEF SendsTyped, SentCounted

\* A job that ends well keeps what it has sent.
LEMMA FinishCounts ==
    ASSUME SendsTyped, NEW w \in Workers, work' = [work EXCEPT ![w] = AtRest],
           \A j \in Jobs : j = work[w].job \/ job[j] = "succeeded" => job'[j] = "succeeded",
           UNCHANGED <<outs, events>>
    PROVE  SendsTyped'
<1>1. \A x \in Sends :
          /\ job[SendJob(x)] = "succeeded" => job'[SendJob(x)] = "succeeded"
          /\ work[w].job = SendJob(x) => job'[SendJob(x)] = "succeeded"
  BY SendJobs
<1>2. work' \in [Workers -> WorkTypes] /\ \A v \in Workers \ {w} : work'[v] = work[v]
  BY AtRestTyped DEF SendsTyped
<1>3. Sendings \subseteq Sendings'
  BY <1>1, <1>2 DEF Sendings, Sending
<1>4. RestingSent'
  BY <1>2, AtRestTyped DEF SendsTyped, RestingSent, Working
<1> QED
  BY <1>2, <1>3, <1>4, StillCounted DEF SendsTyped

LEMMA EffectCounts ==
    ASSUME Inv, SendsTyped, NEW w \in Workers, Commit(w) \/ LoseAck(w)
    PROVE  SendsTyped'
<1> USE DEF Inv
<1>1. PICK after \in Ends : TakeEffect(w, after) /\ Told(after)
  BY Effective
<1>2. /\ Working(w) /\ work' = [work EXCEPT ![w] = AtRest] /\ UNCHANGED outs
      /\ job'[work[w].job] = after
      /\ \A j \in Jobs \ {work[w].job} : job[j] = "succeeded" => job'[j] = "succeeded"
  <2>1. UNCHANGED outs
    BY <1>1, EffectFrame
  <2>2. ASSUME NEW m \in Messages, RouteMessage(w, m, after)
        PROVE  /\ Working(w) /\ work' = [work EXCEPT ![w] = AtRest]
               /\ job'[work[w].job] = after
               /\ \A j \in Jobs \ {work[w].job} : job[j] = "succeeded" => job'[j] = "succeeded"
    <3>1. /\ Working(w) /\ work[w].job = Inbound(m) /\ job'[Inbound(m)] = after
          /\ \A j \in Jobs : j # Inbound(m) /\ job[j] # "none" => job'[j] = job[j]
      BY <2>2, RouteEffect
    <3>2. work' = [work EXCEPT ![w] = AtRest]
      BY <2>2 DEF RouteMessage, Finish
    <3> QED
      BY <3>1, <3>2
  <2>3. ASSUME Working(w), Finish(w, after, {})
        PROVE  /\ Working(w) /\ work' = [work EXCEPT ![w] = AtRest]
               /\ job'[work[w].job] = after
               /\ \A j \in Jobs \ {work[w].job} : job[j] = "succeeded" => job'[j] = "succeeded"
    BY <2>3, WorkingJob DEF Finish
  <2>4. ASSUME NEW m \in Messages, DownloadMedia(w, m, after) PROVE Working(w) /\ Finish(w, after, {})
    BY <2>4, HandlerFrame
  <2>5. LogMessage(w, after) => Working(w) /\ Finish(w, after, {})
    BY DEF LogMessage
  <2> QED
    BY <1>1, <2>1, <2>2, <2>3, <2>4, <2>5 DEF TakeEffect
<1>3. CASE after = "succeeded"
  BY <1>1, <1>2, <1>3, FinishCounts DEF Told
<1>4. CASE after # "succeeded"
  BY <1>1, <1>2, <1>4, VainCounts DEF Told
<1> QED
  BY <1>3, <1>4

LEMMA SendsStep == ASSUME Inv, SendsTyped, [Next]_vars PROVE SendsTyped'
<1> USE DEF Inv
<1>1. ASSUME UNCHANGED <<work, outs>>, Event \/ UNCHANGED events,
             \A j \in Jobs : job[j] = "succeeded" => job'[j] = "succeeded"
      PROVE  SendsTyped'
  <2>1. Sendings \subseteq Sendings'
    BY <1>1, SendJobs, StillSending
  <2> QED
    BY <1>1, <2>1, StillCounted DEF SendsTyped, RestingSent, Working
<1>2. ASSUME NEW s \in Servers, CommitPost(s) PROVE SendsTyped'
  <2>1. \A j \in Jobs : job[j] = "succeeded" => job'[j] = "succeeded"
    BY <1>2, CommitEffect
  <2> QED
    BY <1>1, <1>2, <2>1 DEF CommitPost, Answer
<1>3. ASSUME NEW w \in Workers, NEW j \in Here, Claim(w, j) PROVE SendsTyped'
  <2> DEFINE taken == [AtRest EXCEPT !.job = j, !.at = now]
  <2>1. /\ job[j] = "pending" /\ job' = [job EXCEPT ![j] = "claimed"]
        /\ work' = [work EXCEPT ![w] = taken] /\ ~ Working(w)
        /\ UNCHANGED <<outs, events>>
    BY <1>3 DEF Claim, worldVars
  <2>2. taken \in WorkTypes
    <3>1. now \in Nat
      BY DEF KeepInv, KeepType
    <3> QED
      BY <3>1, AtRestTyped DEF WorkTypes
  <2> HIDE DEF taken
  <2>3. work' \in [Workers -> WorkTypes]
    BY <2>1, <2>2 DEF SendsTyped
  <2>4. work[w].out = 0 /\ taken.out = 0
    BY <2>1, AtRestTyped DEF SendsTyped, RestingSent, taken, AtRest
  <2>5. Sendings \subseteq Sendings'
    BY <2>1, <2>4, SendJobs, StillSending DEF SendsTyped, QueueInv, QueueType
  <2>6. RestingSent'
    BY <2>1, <2>4 DEF SendsTyped, RestingSent, Working
  <2> QED
    BY <2>1, <2>3, <2>5, <2>6, StillCounted DEF SendsTyped
<1>4. ASSUME NEW w \in Workers, Commit(w) \/ LoseAck(w) PROVE SendsTyped'
  BY <1>4, EffectCounts
<1>5. ASSUME NEW w \in Workers, Fail(w) \/ Crash(w) PROVE SendsTyped'
  <2>1. \A j \in Jobs \ {work[w].job} : job'[j] = job[j]
    BY <1>5, FailStep, CrashStep
  <2> QED
    BY <1>5, <2>1, VainCounts DEF Fail, Crash, worldVars
<1>6. ASSUME NEW n \in Notices, Notify(n) PROVE SendsTyped'
  <2>1. \A j \in Jobs : job[j] = "succeeded" => job'[j] = "succeeded"
    BY <1>6 DEF Notify, QueueInv, QueueType
  <2> QED
    BY <1>1, <1>6, <2>1 DEF Notify, worldVars
<1>7. ASSUME NEW s \in Servers,
             \/ PersistMessage(s) \/ FindOutbound(s) \/ RefusePost(s) \/ PostFails(s)
             \/ \E d \in Deliveries : Post(s, d)
      PROVE  UNCHANGED <<work, outs, queueVars>> /\ (Event \/ UNCHANGED events)
  BY <1>7 DEF PersistMessage, FindOutbound, RefusePost, PostFails, Post, worldVars
<1>8. ASSUME NEW o, NEW st, MetaReports(o, st)
      PROVE  UNCHANGED <<work, outs, queueVars>> /\ (Event \/ UNCHANGED events)
  BY <1>8 DEF MetaReports
<1>9. CASE Tick \/ UNCHANGED vars
  BY <1>1, <1>9 DEF Tick, vars, worldVars, queueVars
<1>10. ASSUME UNCHANGED <<work, outs, queueVars>>, Event \/ UNCHANGED events PROVE SendsTyped'
  BY <1>1, <1>10 DEF queueVars
<1> QED
  BY <1>2, <1>3, <1>4, <1>5, <1>6, <1>7, <1>8, <1>9, <1>10, SendCounts
  DEF Next, Serve, Step

LEMMA RowsStep ==
    ASSUME Inv, RowsTyped, SendsTyped, LogTyped, [Next]_vars
    PROVE  RowsTyped'
<1> USE DEF RowsTyped
<1>1. ASSUME NEW s \in Servers, NEW d \in Deliveries, Post(s, d) PROVE RowsTyped'
  BY <1>1 DEF Post, dbVars
<1>2. ASSUME NEW s \in Servers, PersistMessage(s) \/ FindOutbound(s) \/ RefusePost(s) \/ PostFails(s)
      PROVE  RowsTyped'
  BY <1>2 DEF PersistMessage, FindOutbound, RefusePost, PostFails, dbVars, worldVars
<1>3. ASSUME NEW s \in Servers, CommitPost(s) PROVE RowsTyped'
  <2> DEFINE t == web[s]
  <2>1. t.inserted \cup t.added \in SUBSET Messages
    BY DEF LogTyped, PostTypes
  <2>2. t.post \in Deliveries
    BY <1>3 DEF CommitPost, Flushes, Busy, LogTyped, PostTypes
  <2>3. acked' = acked \/ acked' = acked \cup {t.post}
    BY <1>3 DEF CommitPost, Answer
  <2>4. message' \in SUBSET Messages
    BY <1>3, <2>1 DEF CommitPost
  <2>5. media' \in [Messages -> {"none", "pending", "stored", "failed"}]
    BY <1>3 DEF CommitPost
  <2>6. UNCHANGED <<content, window, arrived, reported, now>>
    BY <1>3 DEF CommitPost
  <2> HIDE DEF t
  <2> QED
    BY <2>2, <2>3, <2>4, <2>5, <2>6
<1>4. ASSUME NEW w \in Workers, Commit(w) \/ LoseAck(w) PROVE RowsTyped'
  <2>1. PICK after : TakeEffect(w, after)
    BY <1>4, Effective
  <2>2. UNCHANGED <<content, message, arrived, acked, reported, now>>
    BY <2>1, EffectFrame
  <2>3. ASSUME NEW m \in Messages, RouteMessage(w, m, after) PROVE RowsTyped'
    <3>1. From(m) \in People
      BY DEF From, Content
    <3>2. work[w].at \in Nat \cup {Never}
      BY DEF SendsTyped, WorkTypes
    <3>3. window' = [window EXCEPT ![From(m)] = work[w].at] /\ UNCHANGED media
      BY <2>3 DEF RouteMessage, Opened
    <3> QED
      BY <2>2, <3>1, <3>2, <3>3
  <2>4. ASSUME NEW m \in Messages, DownloadMedia(w, m, after) PROVE RowsTyped'
    <3>1. media' \in [Messages -> {"none", "pending", "stored", "failed"}] /\ UNCHANGED window
      BY <2>4 DEF DownloadMedia
    <3> QED
      BY <2>2, <3>1
  <2>5. CASE LogMessage(w, after)
    BY <2>2, <2>5 DEF LogMessage
  <2> QED
    BY <2>1, <2>3, <2>4, <2>5 DEF TakeEffect
<1>5. ASSUME NEW w \in Workers,
             SendMessage(w) \/ Crash(w) \/ Fail(w) \/ \E j \in Here : Claim(w, j)
      PROVE  RowsTyped'
  BY <1>5 DEF SendMessage, Crash, Fail, Claim, dbVars, worldVars
<1>6. ASSUME NEW n, Notify(n) PROVE RowsTyped'
  BY <1>6 DEF Notify, dbVars, worldVars
<1>7. ASSUME NEW o \in 1 .. MaxOuts, NEW st \in Statuses, MetaReports(o, st) PROVE RowsTyped'
  BY <1>7 DEF MetaReports, dbVars, Deliveries
<1>8. CASE Tick
  BY <1>8 DEF Tick, dbVars, worldVars
<1>9. CASE UNCHANGED vars
  BY <1>9 DEF vars, dbVars, worldVars
<1> QED
  BY <1>1, <1>2, <1>3, <1>4, <1>5, <1>6, <1>7, <1>8, <1>9 DEF Next, Serve, Step

LEMMA TypeInit == ASSUME Init PROVE TypeInv
<1> USE DEF Init
<1>1. RowsTyped
  BY DEF RowsTyped, Deliveries
<1>2. LogTyped
  BY FreePost DEF LogTyped, Reports
<1>3. SendsTyped
  <2>1. Cardinality(Sendings) \in Nat
    BY SendingsFinite
  <2>2. outs \in Seq(OutTypes) /\ Len(outs) = 0
    OBVIOUS
  <2> QED
    BY <2>1, <2>2, AtRestTyped DEF SendsTyped, SentCounted, RestingSent
<1> QED
  BY <1>1, <1>2, <1>3 DEF TypeInv

LEMMA TypeInvariant == Spec => []TypeInv
<1>1. Inv /\ TypeInv /\ [Next]_vars => TypeInv'
  BY SendsStep, RowsStep, LogStep DEF TypeInv
<1> QED
  BY <1>1, TypeInit, Invariance, PTL DEF Spec

\* Every table, post, worker and message out has its type: no job is claimed
\* more often than its attempts allow (models/job.py), and no more messages
\* leave than there are send_message jobs and mishaps (handlers/outbound.py).
THEOREM IngressTyped == Spec => []TypeOK
BY Invariance, TypeInvariant, TypeInvIsEnough, PTL

-----------------------------------------------------------------------------
(* Buttons, with one worker. What the clock of the web process says of a   *)
(* message's arrival is never later than what the window says of its       *)
(* writer; and the worker, which has read the clock when it claimed its    *)
(* job, never writes an earlier time over a later one.                     *)

OneWorker == \A v, w \in Workers : v = w

WindowFollows ==
    /\ \A m \in Messages :
           /\ arrived[m] <= now
           /\ routed[m] > 0 => arrived[m] # Never /\ arrived[m] <= window[From(m)]
    /\ \A w \in Workers : Working(w) =>
           /\ work[w].at \in Nat /\ work[w].at <= now
           /\ \A p \in People : window[p] <= work[w].at
           /\ \A m \in Messages : work[w].job = Inbound(m) =>
                  arrived[m] # Never /\ arrived[m] <= work[w].at
    /\ \A p \in People : window[p] <= now

LEMMA WriterType == ASSUME RowsTyped, NEW m \in Messages PROVE From(m) \in People
BY DEF RowsTyped, From, Content

LEMMA WindowFrame ==
    ASSUME WindowFollows, UNCHANGED <<content, arrived, window, routed>>,
           now \in Nat, now' \in {now, now + 1},
           \A m \in Messages : arrived[m] \in Nat \cup {Never},
           \A p \in People : window[p] \in Nat \cup {Never},
           \A w \in Workers : Working(w)' =>
               Working(w) /\ work'[w].job = work[w].job /\ work'[w].at = work[w].at
    PROVE  WindowFollows'
<1> USE DEF WindowFollows
<1>1. \A m \in Messages : From(m)' = From(m) /\ Inbound(m)' = Inbound(m)
  BY DEF From, Inbound
<1>2. \A m \in Messages :
          /\ arrived'[m] <= now'
          /\ routed'[m] > 0 => arrived'[m] # Never /\ arrived'[m] <= window'[From(m)]
  BY DEF Never
<1>3. \A p \in People : window'[p] <= now'
  BY DEF Never
<1>4. ASSUME NEW w \in Workers, Working(w)'
      PROVE  /\ work'[w].at \in Nat /\ work'[w].at <= now'
             /\ \A p \in People : window'[p] <= work'[w].at
             /\ \A m \in Messages : work'[w].job = Inbound(m) =>
                    arrived'[m] # Never /\ arrived'[m] <= work'[w].at
  BY <1>4
<1> QED
  BY <1>1, <1>2, <1>3, <1>4

LEMMA WindowRouted ==
    ASSUME OneWorker, Inv, RowsTyped, WindowFollows, NEW w \in Workers, NEW m \in Messages,
           NEW after \in Ends, RouteMessage(w, m, after)
    PROVE  WindowFollows'
<1> USE DEF WindowFollows
<1> DEFINE t == work[w].at
<1>1. /\ Working(w) /\ work[w].job = Inbound(m)
      /\ routed' = [routed EXCEPT ![m] = routed[m] + 1]
      /\ UNCHANGED <<content, arrived>>
  BY RouteEffect DEF Inv
<1>2. /\ window' = [window EXCEPT ![From(m)] = t] /\ UNCHANGED now
      /\ work' = [work EXCEPT ![w] = AtRest]
  BY DEF RouteMessage, Opened, Finish
<1>3. \A v \in Workers : ~ Working(v)'
  <2>1. work'[w] = AtRest /\ AtRest.job = Nothing
    BY <1>2 DEF Inv, QueueInv, QueueType, AtRest
  <2> QED
    BY <2>1 DEF OneWorker, Working
<1>4. /\ t \in Nat /\ t <= now /\ (\A p \in People : window[p] <= t)
      /\ arrived[m] # Never /\ arrived[m] <= t
  BY <1>1
<1> HIDE DEF t
<1>5. \A n \in Messages : From(n) \in People /\ From(n)' = From(n)
  BY <1>1, WriterType DEF From
<1>6. \A p \in People : window'[p] \in {window[p], t}
  BY <1>2 DEF RowsTyped
<1>7. \A p \in People : window'[p] <= now
  BY <1>4, <1>6
<1>8. \A n \in Messages : routed'[n] > 0 => arrived[n] # Never /\ arrived[n] <= window'[From(n)]
  <2>1. ASSUME NEW n \in Messages, n # m, routed'[n] > 0
        PROVE  arrived[n] # Never /\ arrived[n] <= window'[From(n)]
    <3>1. routed[n] > 0
      BY <1>1, <2>1 DEF Inv, QueueInv, Routings
    <3>2. arrived[n] # Never /\ arrived[n] <= window[From(n)] /\ window[From(n)] <= t
      BY <1>4, <1>5, <3>1
    <3>3. window[From(n)] \in Nat \cup {Never} /\ arrived[n] \in Nat \cup {Never}
      BY <1>5 DEF RowsTyped
    <3> QED
      BY <1>4, <1>5, <1>6, <3>2, <3>3 DEF Never
  <2>2. window'[From(m)] = t
    BY <1>2, <1>5 DEF RowsTyped
  <2> QED
    BY <1>4, <2>1, <2>2
<1> QED
  BY <1>1, <1>2, <1>3, <1>5, <1>7, <1>8

LEMMA WindowStep ==
    ASSUME OneWorker, Inv, RowsTyped, WindowFollows, [Next]_vars
    PROVE  WindowFollows'
<1> USE DEF RowsTyped
<1>1. ASSUME UNCHANGED <<content, arrived, window, routed>>, now' \in {now, now + 1},
             \/ UNCHANGED work
             \/ \E w \in Workers : work' = [work EXCEPT ![w] = AtRest]
             \/ \E w \in Workers : \E o : work' = [work EXCEPT ![w].out = o]
      PROVE  WindowFollows'
  <2>1. ASSUME NEW w \in Workers, Working(w)'
        PROVE  Working(w) /\ work'[w].job = work[w].job /\ work'[w].at = work[w].at
    <3>1. CASE UNCHANGED work
      BY <2>1, <3>1 DEF Working
    <3>2. ASSUME NEW v \in Workers, work' = [work EXCEPT ![v] = AtRest]
          PROVE  Working(w) /\ work'[w] = work[w]
      BY <2>1, <3>2 DEF Working, AtRest, Inv, QueueInv, QueueType
    <3>3. ASSUME NEW v \in Workers, NEW o, work' = [work EXCEPT ![v].out = o]
          PROVE  work'[w].job = work[w].job /\ work'[w].at = work[w].at
      BY <3>3 DEF Inv, QueueInv, QueueType
    <3> QED
      BY <1>1, <2>1, <3>1, <3>2, <3>3 DEF Working
  <2> QED
    BY <1>1, <2>1, WindowFrame
<1>2. ASSUME NEW s \in Servers, NEW d \in Deliveries, Post(s, d) PROVE WindowFollows'
  <2> USE DEF WindowFollows
  <2>1. /\ \A m \in Messages : arrived'[m] = arrived[m] \/ (arrived[m] = Never /\ arrived'[m] = now)
        /\ UNCHANGED <<content, now, window, routed, work>>
    BY <1>2 DEF Post, dbVars, history
  <2>2. \A m \in Messages : From(m)' = From(m) /\ Inbound(m)' = Inbound(m)
    BY <2>1 DEF From, Inbound
  <2>3. \A m \in Messages : arrived'[m] <= now
    BY <2>1
  <2> QED
    BY <2>1, <2>2, <2>3 DEF Working
<1>3. ASSUME NEW w \in Workers, NEW j \in Here, Claim(w, j) PROVE WindowFollows'
  <2> USE DEF WindowFollows
  <2> DEFINE taken == [AtRest EXCEPT !.job = j, !.at = now]
  <2>1. /\ UNCHANGED <<content, arrived, window, routed, now>>
        /\ job[j] = "pending" /\ work' = [work EXCEPT ![w] = taken]
    BY <1>3 DEF Claim, dbVars, worldVars, history
  <2>2. taken.job = j /\ taken.at = now
    BY DEF AtRest
  <2> HIDE DEF taken
  <2>3. \A v \in Workers : v = w
    BY DEF OneWorker
  <2>4. work'[w] = taken
    BY <2>1 DEF Inv, QueueInv, QueueType
  <2>5. \A m \in Messages : Inbound(m)' = Inbound(m) /\ From(m)' = From(m)
    BY <2>1 DEF Inbound, From
  <2>6. ASSUME NEW m \in Messages, j = Inbound(m) PROVE arrived[m] # Never
    BY <2>1, <2>6 DEF Inv, QueueInv, Started, KeepInv, OnlyArrived
  <2> QED
    BY <2>1, <2>2, <2>3, <2>4, <2>5, <2>6
<1>4. ASSUME NEW w \in Workers, Commit(w) \/ LoseAck(w) PROVE WindowFollows'
  <2>1. PICK after \in Ends : TakeEffect(w, after)
    BY <1>4, Effective
  <2>2. ASSUME NEW m \in Messages, DownloadMedia(w, m, after) PROVE WindowFollows'
    BY <1>1, <2>2 DEF DownloadMedia, Finish, history
  <2>3. CASE LogMessage(w, after)
    BY <1>1, <2>3 DEF LogMessage, Finish, history
  <2> QED
    BY <2>1, <2>2, <2>3, WindowRouted DEF TakeEffect
<1>5. CASE Tick
  BY <1>1, <1>5 DEF Tick, dbVars, worldVars, history
<1>6. ASSUME NEW s \in Servers, Serve(s) \/ PostFails(s) PROVE WindowFollows'
  <2>1. UNCHANGED <<content, arrived, now, window, routed, work>>
    BY <1>6 DEF Serve, PersistMessage, FindOutbound, CommitPost, RefusePost, PostFails,
                dbVars, worldVars, history
  <2> QED
    BY <1>1, <2>1
<1>7. ASSUME NEW w \in Workers, SendMessage(w) \/ Fail(w) \/ Crash(w) PROVE WindowFollows'
  BY <1>1, <1>7 DEF SendMessage, Fail, Crash, dbVars, worldVars, history
<1>8. ASSUME NEW n, Notify(n) PROVE WindowFollows'
  BY <1>1, <1>8 DEF Notify, dbVars, worldVars, history
<1>9. ASSUME NEW o, NEW st, MetaReports(o, st) PROVE WindowFollows'
  BY <1>1, <1>9 DEF MetaReports, dbVars, history
<1>10. CASE UNCHANGED vars
  BY <1>1, <1>10 DEF vars, dbVars, worldVars, history
<1> QED
  BY <1>2, <1>3, <1>4, <1>5, <1>6, <1>7, <1>8, <1>9, <1>10 DEF Next, Step

\* Nothing else sends.
LEMMA OnlySends ==
    ASSUME SendsTyped, [Next]_vars, Len(outs') > Len(outs)
    PROVE  \E w \in Workers : SendMessage(w)
<1>1. outs' # outs
  BY DEF SendsTyped
<1>2. ASSUME NEW s \in Servers, Serve(s) \/ PostFails(s) \/ \E d \in Deliveries : Post(s, d)
      PROVE  FALSE
  BY <1>1, <1>2 DEF Serve, PersistMessage, FindOutbound, CommitPost, RefusePost, PostFails, Post,
              worldVars
<1>3. ASSUME NEW w \in Workers,
             \/ Commit(w) \/ LoseAck(w) \/ Fail(w) \/ Crash(w)
             \/ \E j \in Here : Claim(w, j)
      PROVE  FALSE
  <2>1. CASE Commit(w) \/ LoseAck(w)
    BY <1>1, <2>1, Effective, EffectFrame
  <2>2. CASE Fail(w) \/ Crash(w) \/ \E j \in Here : Claim(w, j)
    BY <1>1, <2>2 DEF Fail, Crash, Claim, worldVars
  <2> QED
    BY <1>3, <2>1, <2>2
<1>4. ASSUME NEW n, Notify(n) PROVE FALSE
  BY <1>1, <1>4 DEF Notify, worldVars
<1>5. ASSUME NEW o, NEW st, MetaReports(o, st) PROVE FALSE
  BY <1>1, <1>5 DEF MetaReports
<1>6. CASE Tick \/ UNCHANGED vars
  BY <1>1, <1>6 DEF Tick, vars, worldVars
<1> QED
  BY <1>2, <1>3, <1>4, <1>5, <1>6 DEF Next, Step

LEMMA LateWriterOpen ==
    ASSUME Inv, RowsTyped, WindowFollows, NEW p, WroteLately(p)
    PROVE  Open(p)
<1>1. PICK m \in Messages : From(m) = p /\ routed[m] > 0 /\ now - arrived[m] < Width
  BY DEF WroteLately
<1>2. arrived[m] \in Nat /\ arrived[m] <= window[p]
  BY <1>1 DEF RowsTyped, WindowFollows, Never
<1>3. p \in People /\ window[p] \in Nat \cup {Never} /\ now \in Nat /\ Width \in Nat
  BY <1>1, WriterType DEF RowsTyped
<1> QED
  BY <1>1, <1>2, <1>3 DEF Open, Never

LEMMA SendKeepsButtons ==
    ASSUME Inv, SendsTyped, RowsTyped, WindowFollows,
           NEW w \in Workers, SendMessage(w)
    PROVE  LET sent == outs'[Len(outs')]
           IN  sent.job[2] \in Notices /\ WroteLately(Recipient(sent.job))
               => sent.form = "interactive"
<1> DEFINE j == work[w].job
           new == [job |-> j, form |-> Form(j)]
<1>1. outs' = Append(outs, new) /\ j \in Here
  BY WorkingJob DEF SendMessage, Inv
<1>2. outs'[Len(outs')] = new
  BY <1>1 DEF SendsTyped
<1>3. ASSUME j[2] \in Notices, WroteLately(Recipient(j)) PROVE Form(j) = "interactive"
  BY <1>3, LateWriterOpen DEF Form
<1> QED
  BY <1>2, <1>3

\* With one worker, whoever has written less than a window's width ago, and was
\* routed, gets his buttons (handlers/outbound.py, services/sender.py). Two
\* workers may write the times of two messages in the wrong order.
THEOREM ButtonsWhileOpenHolds == ASSUME OneWorker PROVE Spec => ButtonsWhileOpen
<1>1. Init => WindowFollows
  BY DEF Init, WindowFollows, Never, Working, AtRest
<1>2. Inv /\ TypeInv /\ WindowFollows /\ [Next]_vars => WindowFollows'
  BY WindowStep DEF TypeInv
<1>3. Inv /\ TypeInv /\ WindowFollows /\ [Next]_vars =>
          [Len(outs') > Len(outs) =>
               LET sent == outs'[Len(outs')]
               IN  sent.job[2] \in Notices /\ WroteLately(Recipient(sent.job))
                   => sent.form = "interactive"]_vars
  BY OnlySends, SendKeepsButtons DEF TypeInv
<1> QED
  BY <1>1, <1>2, <1>3, Invariance, TypeInvariant, PTL DEF Spec, ButtonsWhileOpen
=============================================================================
