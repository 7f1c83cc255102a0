---------------------------- MODULE BatcherProofs ----------------------------
(* Proofs about Batcher, for any reports, retries and batch size.            *)
EXTENDS Batcher, WellFoundedInduction, TLAPS

Holds(q, s) == \E i \in DOMAIN q : q[i] = s
Distinct(q) == \A i, j \in DOMAIN q : q[i] = q[j] => i = j

------------------------------------------------------------------------------
(* Sequences and numbers *)

\* Sending into the channel and collecting from it append an element.
LEMMA Appended ==
    ASSUME NEW S, NEW q \in Seq(S), NEW e \in S
    PROVE  /\ Append(q, e) \in Seq(S) /\ Len(Append(q, e)) = Len(q) + 1
           /\ \A s : Holds(Append(q, e), s) <=> Holds(q, s) \/ s = e
           /\ Distinct(q) /\ ~Holds(q, e) => Distinct(Append(q, e))
<1>1. /\ Append(q, e) \in Seq(S) /\ Len(Append(q, e)) = Len(q) + 1 /\ Len(q) \in Nat
      /\ DOMAIN q = 1 .. Len(q) /\ DOMAIN Append(q, e) = 1 .. (Len(q) + 1)
      /\ Append(q, e)[Len(q) + 1] = e
      /\ \A i \in 1 .. Len(q) : Append(q, e)[i] = q[i]
    OBVIOUS
<1> DEFINE p == Append(q, e)
<1> HIDE DEF p
<1>2. \A i \in DOMAIN p : i = Len(q) + 1 \/ i \in DOMAIN q
    BY <1>1 DEF p
<1>3. \A i \in DOMAIN q : i \in DOMAIN p /\ i # Len(q) + 1 /\ p[i] = q[i]
    BY <1>1 DEF p
<1>4. Len(q) + 1 \in DOMAIN p /\ p[Len(q) + 1] = e
    BY <1>1 DEF p
<1>5. \A s : Holds(p, s) <=> Holds(q, s) \/ s = e
    BY <1>2, <1>3, <1>4 DEF Holds
<1>6. ASSUME Distinct(q), ~Holds(q, e), NEW i \in DOMAIN p, NEW j \in DOMAIN p, p[i] = p[j]
      PROVE  i = j
    BY <1>2, <1>3, <1>4, <1>6 DEF Holds, Distinct
<1> QED BY <1>1, <1>5, <1>6 DEF Distinct, p

\* Receiving from the channel takes its first element.
LEMMA HeadTaken ==
    ASSUME NEW S, NEW q \in Seq(S), q # <<>>
    PROVE  /\ Head(q) \in S /\ Tail(q) \in Seq(S) /\ Len(Tail(q)) <= Len(q) /\ Holds(q, Head(q))
           /\ \A s : Holds(Tail(q), s) => Holds(q, s)
           /\ Distinct(q) => Distinct(Tail(q)) /\ ~Holds(Tail(q), Head(q))
<1>1. /\ Head(q) \in S /\ Tail(q) \in Seq(S) /\ Len(q) \in Nat /\ Len(q) > 0
      /\ Len(Tail(q)) = Len(q) - 1 /\ Head(q) = q[1]
      /\ DOMAIN q = 1 .. Len(q) /\ DOMAIN Tail(q) = 1 .. (Len(q) - 1)
      /\ \A i \in 1 .. (Len(q) - 1) : Tail(q)[i] = q[i + 1]
    OBVIOUS
<1> DEFINE t == Tail(q)
<1> HIDE DEF t
<1>2. \A i \in DOMAIN t : i \in Nat /\ i + 1 # 1 /\ i + 1 \in DOMAIN q /\ t[i] = q[i + 1]
    BY <1>1 DEF t
<1>3. 1 \in DOMAIN q /\ Len(t) <= Len(q)
    BY <1>1 DEF t
<1>4. Holds(q, Head(q)) /\ \A s : Holds(t, s) => Holds(q, s)
    BY <1>1, <1>2, <1>3 DEF Holds
<1>5. ASSUME Distinct(q) PROVE Distinct(t) /\ ~Holds(t, Head(q))
    <2>1. ASSUME NEW i \in DOMAIN t, NEW j \in DOMAIN t, t[i] = t[j] PROVE i = j
        <3>1. i + 1 = j + 1
            BY <1>2, <1>5, <2>1 DEF Distinct
        <3> QED BY <1>2, <3>1
    <2>2. ~Holds(t, Head(q))
        BY <1>1, <1>2, <1>3, <1>5 DEF Holds, Distinct
    <2> QED BY <2>1, <2>2 DEF Distinct
<1> QED BY <1>1, <1>3, <1>4, <1>5 DEF t

\* A set of numbers has a least one.
LEMMA LeastNatural ==
    ASSUME NEW S \in SUBSET Nat, NEW n \in S
    PROVE  \E k \in S : \A j \in S : k <= j
<1> DEFINE Rel == OpToRel(<, Nat)
<1>1. IsWellFoundedOn(Rel, Nat)
    BY NatLessThanWellFounded
<1>2. \A a, b \in Nat : a < b => <<a, b>> \in Rel
    BY DEF OpToRel
<1> HIDE DEF Rel
<1>3. PICK k \in S : \A j \in S : ~(<<j, k>> \in Rel)
    BY <1>1, WFMin
<1>4. \A j \in S : ~(j < k)
    BY <1>2, <1>3
<1>5. \A j \in S : k <= j
    BY <1>4
<1> QED BY <1>5

------------------------------------------------------------------------------
(* The invariant *)

Before == {"none", "arrived", "sending"}

\* A submission enters the channel once, and is answered after it left.
Underway ==
    /\ \A d \in Deliveries, n \in 1 .. RetryLimit : n > tries[d] => sub[<<d, n>>] = "none"
    /\ \A s \in Submissions : Holds(in, s) \/ Holds(batch, s) => sub[s] \notin Before /\ result[s] = "none"
    /\ \A s \in Submissions : result[s] # "none" => sub[s] \notin Before
    /\ Distinct(in) /\ Distinct(batch)
    /\ \A s \in Submissions : ~(Holds(in, s) /\ Holds(batch, s))
    /\ run \notin {"commit", "final"} => verdict = <<>>

\* An answer is handed out after what it says has been committed.
Durable ==
    /\ \A s \in Submissions : sub[s] \in Outcome => result[s] = sub[s]
    /\ \A s \in Submissions : result[s] \in Outcome => db[Msg[s[1]]] \notin Open
    /\ verdict # <<>> => \A i \in DOMAIN batch :
          verdict[i] \in Outcome => db[Msg[batch[i][1]]] \notin Open
    /\ AckIsDurable

\* One report about a message is applied, in the verdict or in the results.
Once ==
    /\ \A s, t \in Submissions :
          result[s] = "applied" /\ result[t] = "applied" /\ Msg[s[1]] = Msg[t[1]] => s = t
    /\ verdict # <<>> => \A i \in DOMAIN batch : verdict[i] = "applied" =>
          /\ \A t \in Submissions : result[t] = "applied" => Msg[t[1]] # Msg[batch[i][1]]
          /\ \A j \in DOMAIN batch :
                verdict[j] = "applied" /\ Msg[batch[j][1]] = Msg[batch[i][1]] => i = j

BatcherInv == TypeOK /\ Underway /\ Durable /\ Once

DBStatus == {"none", "failed", "delivered", "undelivered"} \cup Open

------------------------------------------------------------------------------
(* Apply *)

\* Where the reports of a batch point.
LEMMA BatchTypes ==
    ASSUME TypeOK
    PROVE  /\ DOMAIN batch \subseteq Nat
           /\ \A i \in DOMAIN batch : /\ batch[i] \in Submissions /\ batch[i][1] \in Deliveries
                                      /\ Msg[batch[i][1]] \in Messages
<1>1. batch \in Seq(Submissions)
    BY DEF TypeOK
<1>2. DOMAIN batch \subseteq Nat /\ \A i \in DOMAIN batch : batch[i] \in Submissions
    BY <1>1
<1> QED BY <1>2 DEF Submissions, Messages

\* Of the reports about a message in a batch one is the first.
LEMMA FirstExists ==
    ASSUME TypeOK, NEW i \in DOMAIN batch
    PROVE  \E k \in DOMAIN batch : Msg[batch[k][1]] = Msg[batch[i][1]] /\ First(k)
<1> DEFINE S == {k \in DOMAIN batch : Msg[batch[k][1]] = Msg[batch[i][1]]}
<1>1. S \in SUBSET Nat /\ i \in S
    BY BatchTypes
<1>2. PICK k \in S : \A j \in S : k <= j
    BY <1>1, LeastNatural
<1>3. batch \in Seq(Submissions)
    BY DEF TypeOK
<1>4. ASSUME NEW j \in 1 .. (k - 1), Msg[batch[j][1]] = Msg[batch[k][1]] PROVE FALSE
    <2>1. k \in 1 .. Len(batch) /\ Len(batch) \in Nat /\ DOMAIN batch = 1 .. Len(batch)
        BY <1>2, <1>3
    <2>2. j \in DOMAIN batch /\ j < k /\ j \in Nat /\ k \in Nat
        BY <2>1
    <2>3. j \in S
        BY <1>2, <1>4, <2>2
    <2> QED BY <1>2, <2>2, <2>3
<1> QED BY <1>2, <1>4 DEF First

\* The transaction touches messages that wait for a report only, and each
\* message of the batch no longer waits for one (apply.go).
LEMMA AppliedEffect ==
    ASSUME TypeOK
    PROVE  /\ Applied \in [Messages -> DBStatus]
           /\ \A m \in Messages : db[m] \notin Open => Applied[m] = db[m]
           /\ \A i \in DOMAIN batch : Applied[Msg[batch[i][1]]] \notin Open
<1>1. ASSUME NEW m \in Messages, db[m] \in Open, NEW i \in DOMAIN batch, Msg[batch[i][1]] = m
      PROVE  Applied[m] \in {"delivered", "undelivered"}
    <2> DEFINE c == CHOOSE k \in DOMAIN batch : Msg[batch[k][1]] = m /\ First(k)
    <2>1. c \in DOMAIN batch
        BY <1>1, FirstExists
    <2>2. Applied[m] = Reported[batch[c][1]]
        BY <1>1 DEF Applied
    <2> HIDE DEF c
    <2>3. batch[c][1] \in Deliveries
        BY <2>1, BatchTypes
    <2> QED BY <2>2, <2>3, BatcherAssumption
<1>2. ASSUME NEW m \in Messages,
             ~(db[m] \in Open /\ \E i \in DOMAIN batch : Msg[batch[i][1]] = m)
      PROVE  Applied[m] = db[m]
    BY <1>2 DEF Applied
<1>3. \A m \in Messages : db[m] \in DBStatus
    BY DEF TypeOK, DBStatus
<1>4. \A m \in Messages : Applied[m] \in DBStatus
    BY <1>1, <1>2, <1>3 DEF DBStatus
<1>5. Applied \in [Messages -> DBStatus]
    BY <1>4 DEF Applied
<1>6. ASSUME NEW i \in DOMAIN batch PROVE Applied[Msg[batch[i][1]]] \notin Open
    <2>1. Msg[batch[i][1]] \in Messages
        BY BatchTypes
    <2>2. CASE db[Msg[batch[i][1]]] \in Open
        BY <1>1, <2>1, <2>2 DEF Open
    <2>3. CASE db[Msg[batch[i][1]]] \notin Open
        BY <1>2, <2>1, <2>3
    <2> QED BY <2>2, <2>3
<1> QED BY <1>2, <1>5, <1>6

\* Only the first report about a message that waits for one is applied.
LEMMA ClassifyEffect ==
    ASSUME NEW i \in DOMAIN batch
    PROVE  /\ Classify(i) \in Outcome
           /\ Classify(i) = "applied" => db[Msg[batch[i][1]]] \in Open /\ First(i)
BY DEF Classify, Outcome

\* Two first reports about one message are the same report.
LEMMA FirstIsUnique ==
    ASSUME TypeOK, NEW i \in DOMAIN batch, NEW j \in DOMAIN batch, First(i), First(j),
           Msg[batch[i][1]] = Msg[batch[j][1]]
    PROVE  i = j
<1>1. batch \in Seq(Submissions)
    BY DEF TypeOK
<1>2. i \in 1 .. Len(batch) /\ j \in 1 .. Len(batch) /\ Len(batch) \in Nat
    BY <1>1
<1>3. ~(i < j)
    <2>1. i < j => i \in 1 .. (j - 1)
        BY <1>2
    <2> QED BY <2>1 DEF First
<1>4. ~(j < i)
    <2>1. j < i => j \in 1 .. (i - 1)
        BY <1>2
    <2> QED BY <2>1 DEF First
<1> QED BY <1>2, <1>3, <1>4

\* Committing, failing or committing unseen keeps the invariant (batcher.go commit).
LEMMA ApplyStep ==
    ASSUME BatcherInv, Apply
    PROVE  BatcherInv'
<1>1. TypeOK /\ Underway /\ Durable /\ Once
    BY DEF BatcherInv
<1>2. /\ verdict = <<>> /\ run \in {"commit", "final"}
      /\ UNCHANGED <<tries, acked, sub, result, in, batch, run, ctxDone, stopped, done>>
    BY DEF Apply, subVars, stopVars
<1>3. PICK committed \in BOOLEAN, ok \in BOOLEAN :
        (ok => committed) /\ db' = (IF committed THEN Applied ELSE db) /\ verdict' = Verdicts(ok)
    BY DEF Apply
<1>4. db \in [Messages -> DBStatus]
    BY <1>1 DEF TypeOK, DBStatus
<1>5. /\ db' \in [Messages -> DBStatus]
      /\ \A m \in Messages : db[m] \notin Open => db'[m] \notin Open
      /\ ok => \A i \in DOMAIN batch : db'[Msg[batch[i][1]]] \notin Open
    BY <1>1, <1>3, <1>4, AppliedEffect
<1>6. /\ verdict' \in [DOMAIN batch -> {"error"} \cup Outcome]
      /\ \A i \in DOMAIN batch : verdict'[i] = (IF ok THEN Classify(i) ELSE "error")
    BY <1>3, ClassifyEffect DEF Verdicts
<1>7. TypeOK'
    BY <1>1, <1>2, <1>5, <1>6 DEF TypeOK, DBStatus
<1>8. Underway'
    BY <1>1, <1>2 DEF Underway, Holds, Distinct
<1>9. Durable'
    <2>1. \A s \in Submissions : Msg[s[1]] \in Messages
        BY DEF Submissions, Messages
    <2>2. \A d \in Deliveries : Msg[d] \in Messages
        BY DEF Messages
    <2>3. \A i \in DOMAIN batch : verdict'[i] \in Outcome => ok
        BY <1>6 DEF Outcome
    <2>4. AckIsDurable'
        BY <1>1, <1>2, <1>5, <2>2 DEF Durable, AckIsDurable
    <2> QED BY <1>1, <1>2, <1>5, <2>1, <2>3, <2>4 DEF Durable
<1>10. Once'
    <2>1. \A i \in DOMAIN batch : verdict'[i] = "applied" => db[Msg[batch[i][1]]] \in Open /\ First(i)
        BY <1>6, ClassifyEffect
    <2>2. ASSUME NEW i \in DOMAIN batch, verdict'[i] = "applied", NEW t \in Submissions,
                 result[t] = "applied"
          PROVE  Msg[t[1]] # Msg[batch[i][1]]
        BY <1>1, <2>1, <2>2 DEF Durable, Outcome
    <2>3. ASSUME NEW i \in DOMAIN batch, NEW j \in DOMAIN batch, verdict'[i] = "applied",
                 verdict'[j] = "applied", Msg[batch[j][1]] = Msg[batch[i][1]]
          PROVE  i = j
        BY <1>1, <2>1, <2>3, FirstIsUnique
    <2> QED BY <1>1, <1>2, <2>2, <2>3 DEF Once
<1> QED BY <1>7, <1>8, <1>9, <1>10 DEF BatcherInv

\* Handing out the results keeps the invariant (batcher.go commit).
LEMMA AnswerStep ==
    ASSUME BatcherInv, Answer
    PROVE  BatcherInv'
<1>1. TypeOK /\ Underway /\ Durable /\ Once
    BY DEF BatcherInv
<1>2. /\ verdict # <<>> /\ run \in {"commit", "final"} /\ batch' = <<>> /\ verdict' = <<>>
      /\ run' = (IF run = "final" THEN "returned" ELSE "loop") /\ done' = (run = "final")
      /\ UNCHANGED <<db, tries, acked, sub, in, ctxDone, stopped>>
    BY DEF Answer, Reset, subVars
<1>3. verdict \in [DOMAIN batch -> {"error"} \cup Outcome]
    BY <1>1, <1>2 DEF TypeOK
<1>4. \A s \in Submissions :
        \/ ~Holds(batch, s) /\ result'[s] = result[s]
        \/ \E i \in DOMAIN batch : batch[i] = s /\ result'[s] = verdict[i]
    <2> SUFFICES ASSUME NEW s \in Submissions
                 PROVE  \/ ~Holds(batch, s) /\ result'[s] = result[s]
                        \/ \E i \in DOMAIN batch : batch[i] = s /\ result'[s] = verdict[i]
        OBVIOUS
    <2>1. result'[s] = IF \E i \in DOMAIN batch : batch[i] = s
                       THEN verdict[CHOOSE i \in DOMAIN batch : batch[i] = s] ELSE result[s]
        BY DEF Answer
    <2>2. CASE Holds(batch, s)
        <3> DEFINE c == CHOOSE i \in DOMAIN batch : batch[i] = s
        <3>1. c \in DOMAIN batch /\ batch[c] = s
            BY <2>2 DEF Holds
        <3>2. result'[s] = verdict[c]
            BY <2>1, <2>2 DEF Holds
        <3> QED BY <3>1, <3>2
    <2>3. CASE ~Holds(batch, s)
        BY <2>1, <2>3 DEF Holds
    <2> QED BY <2>2, <2>3
<1>5. result' \in [Submissions -> {"none", "error"} \cup Outcome]
    <2>1. \A s \in Submissions : result'[s] \in {"none", "error"} \cup Outcome
        BY <1>1, <1>3, <1>4 DEF TypeOK
    <2>2. result' = [s \in Submissions |-> result'[s]]
        BY DEF Answer
    <2> QED BY <2>1, <2>2
<1>6. batch' \in Seq(Submissions) /\ Len(batch') = 0 /\ DOMAIN batch' = {}
    BY <1>2
<1>7. TypeOK'
    BY <1>1, <1>2, <1>5, <1>6, BatcherAssumption DEF TypeOK
<1>8. Underway'
    <2>1. ASSUME NEW s \in Submissions, Holds(in, s) PROVE sub[s] \notin Before /\ result'[s] = "none"
        BY <1>1, <1>4, <2>1 DEF Underway, Holds
    <2>2. ASSUME NEW s \in Submissions, result'[s] # "none" PROVE sub[s] \notin Before
        BY <1>1, <1>4, <2>2 DEF Underway, Holds
    <2>3. ~\E s : Holds(batch', s)
        BY <1>6 DEF Holds
    <2>4. Distinct(batch')
        BY <1>6 DEF Distinct
    <2>5. Distinct(in') /\ \A s : Holds(in', s) <=> Holds(in, s)
        BY <1>1, <1>2 DEF Underway, Holds, Distinct
    <2>6. /\ \A d \in Deliveries, n \in 1 .. RetryLimit : n > tries'[d] => sub'[<<d, n>>] = "none"
          /\ verdict' = <<>>
        BY <1>1, <1>2 DEF Underway
    <2>7. \A s \in Submissions :
            Holds(in', s) \/ Holds(batch', s) => sub'[s] \notin Before /\ result'[s] = "none"
        BY <1>2, <2>1, <2>3, <2>5
    <2>8. \A s \in Submissions : result'[s] # "none" => sub'[s] \notin Before
        BY <1>2, <2>2
    <2> QED BY <2>3, <2>4, <2>5, <2>6, <2>7, <2>8 DEF Underway
<1>9. Durable'
    <2>1. ASSUME NEW s \in Submissions, sub[s] \in Outcome PROVE result'[s] = sub[s]
        <3>1. result[s] = sub[s] /\ sub[s] # "none"
            BY <1>1, <2>1 DEF Durable, Outcome
        <3>2. ~Holds(batch, s)
            BY <1>1, <3>1 DEF Underway
        <3> QED BY <1>4, <3>1, <3>2 DEF Holds
    <2>2. ASSUME NEW s \in Submissions, result'[s] \in Outcome PROVE db[Msg[s[1]]] \notin Open
        BY <1>1, <1>2, <1>4, <2>2 DEF Durable
    <2>3. AckIsDurable'
        BY <1>1, <1>2 DEF Durable, AckIsDurable
    <2> QED BY <1>2, <2>1, <2>2, <2>3 DEF Durable
<1>10. Once'
    <2> SUFFICES ASSUME NEW s \in Submissions, NEW t \in Submissions, result'[s] = "applied",
                        result'[t] = "applied", Msg[s[1]] = Msg[t[1]]
                 PROVE  s = t
        BY <1>2 DEF Once
    <2>1. CASE result[s] = "applied" /\ result[t] = "applied"
        BY <1>1, <2>1 DEF Once
    <2>2. ASSUME NEW i \in DOMAIN batch, batch[i] = s, verdict[i] = "applied" PROVE s = t
        <3>1. result[t] # "applied"
            BY <1>1, <1>2, <2>2 DEF Once
        <3>2. PICK j \in DOMAIN batch : batch[j] = t /\ verdict[j] = "applied"
            BY <1>4, <3>1
        <3> QED BY <1>1, <1>2, <2>2, <3>2 DEF Once
    <2>3. ASSUME NEW j \in DOMAIN batch, batch[j] = t, verdict[j] = "applied" PROVE s = t
        <3>1. result[s] # "applied"
            BY <1>1, <1>2, <2>3 DEF Once
        <3>2. PICK i \in DOMAIN batch : batch[i] = s /\ verdict[i] = "applied"
            BY <1>4, <3>1
        <3> QED BY <2>2, <3>2
    <2> QED BY <1>4, <2>1, <2>2, <2>3
<1> QED BY <1>7, <1>8, <1>9, <1>10 DEF BatcherInv

------------------------------------------------------------------------------
(* Run and Submit *)

\* Receiving from the channel into the batch (batcher.go Run, drain).
LEMMA CollectStep ==
    ASSUME BatcherInv, Collect \/ Drain
    PROVE  BatcherInv'
<1>1. TypeOK /\ Underway /\ Durable /\ Once
    BY DEF BatcherInv
<1>2. /\ in # <<>> /\ batch' = Append(batch, Head(in)) /\ in' = Tail(in)
      /\ run \in {"loop", "drain"} /\ verdict = <<>>
      /\ UNCHANGED <<db, tries, acked, sub, result, verdict, ctxDone, stopped, done>>
    BY <1>1 DEF Collect, Drain, subVars, stopVars, Underway
<1>3. in \in Seq(Submissions) /\ batch \in Seq(Submissions)
    BY <1>1 DEF TypeOK
<1>4. /\ Head(in) \in Submissions /\ in' \in Seq(Submissions) /\ Len(in') <= Len(in) /\ Holds(in, Head(in))
      /\ \A s : Holds(in', s) => Holds(in, s)
      /\ Distinct(in') /\ ~Holds(in', Head(in))
    BY <1>1, <1>2, <1>3, HeadTaken DEF Underway
<1>5. ~Holds(batch, Head(in)) /\ Distinct(batch)
    BY <1>1, <1>4 DEF Underway
<1>6. /\ batch' \in Seq(Submissions) /\ Len(batch') = Len(batch) + 1
      /\ \A s : Holds(batch', s) <=> Holds(batch, s) \/ s = Head(in)
      /\ Distinct(batch')
    BY <1>2, <1>3, <1>4, <1>5, Appended
<1>7. TypeOK'
    <2>1. Len(in) \in Nat /\ Len(batch) \in Nat /\ Len(in') \in Nat /\ Len(in) <= Size
        BY <1>1, <1>3, <1>4 DEF TypeOK
    <2>2. Len(in') <= Size
        BY <1>4, <2>1, BatcherAssumption
    <2>3. /\ run' \in {"loop", "commit", "drain"}
          /\ run' = "loop" => Len(batch') < Size
          /\ run' = "commit" => Len(batch') <= Size
        BY <1>1, <1>6, <2>1, BatcherAssumption DEF Collect, Drain, Full, TypeOK
    <2> QED BY <1>1, <1>2, <1>4, <1>6, <2>2, <2>3 DEF TypeOK
<1>8. Underway'
    <2>1. \A s \in Submissions : Holds(in', s) \/ Holds(batch', s) => Holds(in, s) \/ Holds(batch, s)
        BY <1>4, <1>6
    <2>2. \A s \in Submissions : ~(Holds(in', s) /\ Holds(batch', s))
        BY <1>1, <1>4, <1>6 DEF Underway
    <2> QED BY <1>1, <1>2, <1>4, <1>6, <2>1, <2>2 DEF Underway
<1>9. Durable' /\ Once'
    BY <1>1, <1>2 DEF Durable, Once, AckIsDurable
<1> QED BY <1>7, <1>8, <1>9 DEF BatcherInv

\* Steps of Run that leave channel, batch and results alone.
LEMMA RunStepsInv ==
    ASSUME BatcherInv, Timer \/ SeeShutdown \/ DrainEnd \/ Shutdown
    PROVE  BatcherInv'
<1>1. TypeOK /\ Underway /\ Durable /\ Once
    BY DEF BatcherInv
<1>2. UNCHANGED <<db, tries, acked, sub, result, in, batch, verdict>>
    BY DEF Timer, SeeShutdown, DrainEnd, Shutdown, subVars, runVars, stopVars
<1>3. /\ run' \in {"loop", "commit", "drain", "final", "returned"}
      /\ run' = "loop" => run = "loop"
      /\ run' = "commit" => run \in {"loop", "commit"}
      /\ run' \notin {"commit", "final"} => run \notin {"commit", "final"}
      /\ ctxDone' \in BOOLEAN /\ stopped' \in BOOLEAN /\ done' \in BOOLEAN
    BY <1>1 DEF Timer, SeeShutdown, DrainEnd, Shutdown, runVars, stopVars, TypeOK
<1>4. run = "loop" => Len(batch) <= Size
    <2>1. Len(batch) \in Nat
        BY <1>1 DEF TypeOK
    <2> QED BY <1>1, <2>1, BatcherAssumption DEF TypeOK
<1>5. TypeOK'
    BY <1>1, <1>2, <1>3, <1>4 DEF TypeOK
<1>6. Underway'
    BY <1>1, <1>2, <1>3 DEF Underway, Holds, Distinct
<1>7. Durable' /\ Once'
    BY <1>1, <1>2 DEF Durable, Once, AckIsDurable
<1> QED BY <1>5, <1>6, <1>7 DEF BatcherInv

\* Posts and acknowledgements (fakeprovider/dlr.go deliver, handler.go).
LEMMA ProviderStep ==
    ASSUME BatcherInv, (\E d \in Deliveries : Post(d)) \/ \E s \in Submissions : Acknowledge(s)
    PROVE  BatcherInv'
<1>1. TypeOK /\ Underway /\ Durable /\ Once
    BY DEF BatcherInv
<1>2. ASSUME NEW d \in Deliveries, Post(d) PROVE BatcherInv'
    <2>1. /\ tries[d] \in Nat /\ tries[d] < RetryLimit /\ tries' = [tries EXCEPT ![d] = tries[d] + 1]
          /\ sub' = [sub EXCEPT ![<<d, tries[d] + 1>>] = "arrived"]
          /\ UNCHANGED <<db, acked, result, in, batch, run, verdict, ctxDone, stopped, done>>
        BY <1>1, <1>2, BatcherAssumption DEF Post, runVars, stopVars, TypeOK
    <2> DEFINE n == tries[d] + 1
               s == <<d, n>>
    <2>2. n \in 1 .. RetryLimit /\ n \in 0 .. RetryLimit /\ n > tries[d]
        BY <2>1, BatcherAssumption
    <2>3. s \in Submissions /\ sub[s] = "none"
        BY <1>1, <2>2 DEF Underway, Submissions
    <2>4. ~Holds(in, s) /\ ~Holds(batch, s) /\ result[s] = "none"
        BY <1>1, <2>3 DEF Underway, Before
    <2>5. \A t \in Submissions : t # s => sub'[t] = sub[t]
        BY <1>1, <2>1 DEF TypeOK
    <2>6. sub'[s] = "arrived"
        BY <1>1, <2>1, <2>3 DEF TypeOK
    <2>7. TypeOK'
        <3>1. tries' \in [Deliveries -> 0 .. RetryLimit]
            BY <1>1, <2>1, <2>2 DEF TypeOK
        <3>2. sub' \in [Submissions -> {"none", "arrived", "sending", "waiting"} \cup Ended]
            BY <1>1, <2>1, <2>3 DEF TypeOK
        <3> QED BY <1>1, <2>1, <3>1, <3>2 DEF TypeOK
    <2>8. \A e \in Deliveries, k \in 1 .. RetryLimit : k > tries'[e] => sub'[<<e, k>>] = "none"
        <3> SUFFICES ASSUME NEW e \in Deliveries, NEW k \in 1 .. RetryLimit, k > tries'[e]
                     PROVE  sub'[<<e, k>>] = "none"
            OBVIOUS
        <3>1. k > tries[e] /\ <<e, k>> # s
            <4>1. CASE e = d
                <5>1. tries'[e] = n
                    BY <1>1, <2>1, <4>1 DEF TypeOK
                <5> QED BY <2>1, <4>1, <5>1, BatcherAssumption
            <4>2. CASE e # d
                BY <1>1, <2>1, <4>2 DEF TypeOK
            <4> QED BY <4>1, <4>2
        <3>2. <<e, k>> \in Submissions
            BY DEF Submissions
        <3> QED BY <1>1, <2>5, <3>1, <3>2 DEF Underway
    <2> HIDE DEF s, n
    <2>9. Underway'
        <3>1. \A t \in Submissions : Holds(in, t) \/ Holds(batch, t) => sub'[t] \notin Before /\ result[t] = "none"
            BY <1>1, <2>4, <2>5 DEF Underway
        <3>2. \A t \in Submissions : result[t] # "none" => sub'[t] \notin Before
            BY <1>1, <2>4, <2>5 DEF Underway
        <3> QED BY <1>1, <2>1, <2>8, <3>1, <3>2 DEF Underway, Holds, Distinct
    <2>10. Durable'
        <3>1. \A t \in Submissions : sub'[t] \in Outcome => result[t] = sub'[t]
            BY <1>1, <2>5, <2>6 DEF Durable, Outcome
        <3> QED BY <1>1, <2>1, <3>1 DEF Durable, AckIsDurable
    <2>11. Once'
        BY <1>1, <2>1 DEF Once
    <2> QED BY <2>7, <2>9, <2>10, <2>11 DEF BatcherInv
<1>3. ASSUME NEW s \in Submissions, Acknowledge(s) PROVE BatcherInv'
    <2>1. /\ sub[s] \in Outcome /\ acked' = [acked EXCEPT ![s[1]] = TRUE] /\ s[1] \in Deliveries
          /\ UNCHANGED <<db, tries, sub, result, in, batch, run, verdict, ctxDone, stopped, done>>
        BY <1>3 DEF Acknowledge, runVars, stopVars, Submissions
    <2>2. db[Msg[s[1]]] \notin Open
        BY <1>1, <2>1 DEF Durable
    <2>3. AckIsDurable'
        BY <1>1, <2>1, <2>2 DEF Durable, AckIsDurable, TypeOK
    <2>4. TypeOK'
        BY <1>1, <2>1 DEF TypeOK
    <2>5. Underway' /\ Once'
        BY <1>1, <2>1 DEF Underway, Once, Holds, Distinct
    <2>6. Durable'
        BY <1>1, <2>1, <2>3 DEF Durable
    <2> QED BY <2>4, <2>5, <2>6 DEF BatcherInv
<1> QED BY <1>2, <1>3

\* The steps of a callback (batcher.go Submit).
LEMMA SubmitInv ==
    ASSUME BatcherInv, NEW s \in Submissions, SubmitStep(s) \/ Timeout(s)
    PROVE  BatcherInv'
<1>1. TypeOK /\ Underway /\ Durable /\ Once
    BY DEF BatcherInv
<1>2. /\ UNCHANGED <<db, tries, acked, result, batch, run, verdict, ctxDone, stopped, done>>
      /\ sub[s] # "none"
    BY DEF SubmitStep, Arrive, Send, SendStopped, Receive, SeeDone, Timeout, Move, stopVars
<1>3. PICK to \in {"sending", "waiting"} \cup Ended :
        /\ sub' = [sub EXCEPT ![s] = to]
        /\ to = "sending" => sub[s] = "arrived"
        /\ to \in Outcome => result[s] = to
    <2>1. result[s] # "none" => result[s] \in Ended
        BY <1>1 DEF TypeOK, Ended
    <2> QED BY <2>1 DEF SubmitStep, Arrive, Send, SendStopped, Receive, SeeDone, Timeout, Move, Outcome, Ended
<1>4. \/ in' = in
      \/ in' = Append(in, s) /\ sub[s] = "sending" /\ Len(in) < Size /\ to = "waiting"
    <2>1. CASE Send(s)
        <3>1. in' = Append(in, s) /\ sub[s] = "sending" /\ Len(in) < Size
              /\ sub' = [sub EXCEPT ![s] = "waiting"]
            BY <2>1 DEF Send, HasRoom, Move
        <3>2. to = "waiting"
            BY <1>1, <1>3, <3>1 DEF TypeOK
        <3> QED BY <3>1, <3>2
    <2>2. CASE ~Send(s)
        BY <2>2 DEF SubmitStep, Arrive, SendStopped, Receive, SeeDone, Timeout
    <2> QED BY <2>1, <2>2
<1>5. sub'[s] = to /\ \A t \in Submissions : t # s => sub'[t] = sub[t]
    BY <1>1, <1>3 DEF TypeOK
<1>6. sub[s] \in Before => ~Holds(in, s) /\ ~Holds(batch, s) /\ result[s] = "none"
    BY <1>1 DEF Underway
<1>7. in \in Seq(Submissions) /\ Len(in) \in Nat /\ Len(in) <= Size
    BY <1>1 DEF TypeOK
<1>8. /\ in' \in Seq(Submissions) /\ Len(in') <= Size /\ Distinct(in')
      /\ \A t : Holds(in', t) => Holds(in, t) \/ (t = s /\ sub[s] = "sending" /\ to = "waiting")
    <2>1. CASE in' = in
        BY <1>1, <1>7, <2>1 DEF Underway
    <2>2. CASE in' = Append(in, s) /\ sub[s] = "sending" /\ Len(in) < Size /\ to = "waiting"
        <3>1. ~Holds(in, s) /\ Distinct(in)
            BY <1>1, <1>6, <2>2 DEF Before, Underway
        <3>2. /\ in' \in Seq(Submissions) /\ Len(in') = Len(in) + 1 /\ Distinct(in')
              /\ \A t : Holds(in', t) <=> Holds(in, t) \/ t = s
            BY <1>7, <2>2, <3>1, Appended
        <3>3. Len(in') <= Size
            BY <1>7, <2>2, <3>2, BatcherAssumption
        <3> QED BY <2>2, <3>2, <3>3
    <2> QED BY <1>4, <2>1, <2>2
<1>9. TypeOK'
    <2>1. sub' \in [Submissions -> {"none", "arrived", "sending", "waiting"} \cup Ended]
        BY <1>1, <1>3 DEF TypeOK
    <2> QED BY <1>1, <1>2, <1>8, <2>1 DEF TypeOK
<1>10. Underway'
    <2>1. \A d \in Deliveries, n \in 1 .. RetryLimit : n > tries[d] => sub'[<<d, n>>] = "none"
        <3> SUFFICES ASSUME NEW d \in Deliveries, NEW n \in 1 .. RetryLimit, n > tries[d]
                     PROVE  sub'[<<d, n>>] = "none"
            OBVIOUS
        <3>1. <<d, n>> \in Submissions /\ sub[<<d, n>>] = "none"
            BY <1>1 DEF Underway, Submissions
        <3> QED BY <1>2, <1>5, <3>1
    <2>2. ASSUME NEW t \in Submissions, Holds(in', t) \/ Holds(batch, t)
          PROVE  sub'[t] \notin Before /\ result[t] = "none"
        <3>1. CASE t = s
            <4>1. to \notin Before /\ result[s] = "none"
                BY <1>1, <1>3, <1>6, <1>8, <2>2, <3>1 DEF Underway, Before, Ended, Outcome
            <4> QED BY <1>5, <3>1, <4>1
        <3>2. CASE t # s
            BY <1>1, <1>5, <1>8, <2>2, <3>2 DEF Underway
        <3> QED BY <3>1, <3>2
    <2>3. ASSUME NEW t \in Submissions, result[t] # "none" PROVE sub'[t] \notin Before
        <3>1. CASE t = s
            <4>1. to \notin Before
                BY <1>3, <1>6, <2>3, <3>1 DEF Before, Ended, Outcome
            <4> QED BY <1>5, <3>1, <4>1
        <3>2. CASE t # s
            BY <1>1, <1>5, <2>3, <3>2 DEF Underway
        <3> QED BY <3>1, <3>2
    <2>4. \A t \in Submissions : ~(Holds(in', t) /\ Holds(batch, t))
        BY <1>1, <1>6, <1>8 DEF Underway, Before
    <2> QED BY <1>1, <1>2, <1>8, <2>1, <2>2, <2>3, <2>4 DEF Underway
<1>11. Durable'
    <2>1. \A t \in Submissions : sub'[t] \in Outcome => result[t] = sub'[t]
        BY <1>1, <1>3, <1>5 DEF Durable
    <2> QED BY <1>1, <1>2, <2>1 DEF Durable, AckIsDurable
<1>12. Once'
    BY <1>1, <1>2 DEF Once
<1> QED BY <1>9, <1>10, <1>11, <1>12 DEF BatcherInv

------------------------------------------------------------------------------
(* Theorems *)

\* The invariant of the intake of reports, through failures, retries and shutdown.
THEOREM BatcherInvariant == Spec => []BatcherInv
<1>1. ASSUME Init PROVE BatcherInv
    <2>1. DOMAIN in = {} /\ DOMAIN batch = {} /\ in \in Seq(Submissions) /\ batch \in Seq(Submissions)
          /\ Len(in) = 0 /\ Len(batch) = 0
        BY <1>1 DEF Init
    <2>2. 0 \in 0 .. RetryLimit /\ 0 < Size /\ 0 <= Size
        BY BatcherAssumption
    <2>3. TypeOK
        BY <1>1, <2>1, <2>2 DEF Init, TypeOK, Open
    <2>4. Underway
        <3>1. \A s \in Submissions : sub[s] = "none" /\ result[s] = "none" /\ ~Holds(in, s) /\ ~Holds(batch, s)
            BY <1>1, <2>1 DEF Init, Holds
        <3>2. \A d \in Deliveries, n \in 1 .. RetryLimit : <<d, n>> \in Submissions
            BY DEF Submissions
        <3>3. Distinct(in) /\ Distinct(batch) /\ verdict = <<>>
            BY <1>1, <2>1 DEF Init, Distinct
        <3> QED BY <3>1, <3>2, <3>3 DEF Underway
    <2>5. Durable /\ Once
        BY <1>1 DEF Init, Durable, Once, AckIsDurable, Outcome
    <2> QED BY <2>3, <2>4, <2>5 DEF BatcherInv
<1>2. BatcherInv /\ [Next]_vars => BatcherInv'
    <2> SUFFICES ASSUME BatcherInv, [Next]_vars PROVE BatcherInv'
        OBVIOUS
    <2>1. CASE UNCHANGED vars
        <3>1. UNCHANGED <<db, tries, acked, sub, result, in, batch, run, verdict, ctxDone, stopped, done>>
            BY <2>1 DEF vars, subVars, runVars, stopVars
        <3>2. TypeOK' /\ Underway'
            BY <3>1 DEF BatcherInv, TypeOK, Underway, Holds, Distinct
        <3>3. Durable' /\ Once'
            BY <3>1 DEF BatcherInv, Durable, Once, AckIsDurable
        <3> QED BY <3>2, <3>3 DEF BatcherInv
    <2> QED BY <2>1, ApplyStep, AnswerStep, CollectStep, RunStepsInv, ProviderStep, SubmitInv DEF Next, RunStep
<1> QED BY <1>1, <1>2, PTL DEF Spec

\* An acknowledged report is durable (handler.go "once the report is durable").
THEOREM AcknowledgedIsDurable == Spec => []AckIsDurable
<1>1. BatcherInv => AckIsDurable
    BY DEF BatcherInv, Durable
<1> QED BY <1>1, BatcherInvariant, PTL

\* At most one report about a message is answered as applied (apply.go Apply).
THEOREM FirstReportWins == Spec => []AppliedOnce
<1>1. BatcherInv => AppliedOnce
    BY DEF BatcherInv, Durable, Once, AppliedOnce, Outcome
<1> QED BY <1>1, BatcherInvariant, PTL

\* Run never waits for a callback to take its result (batcher.go commit).
THEOREM RunNeverBlocks == Spec => []ResultsNeverBlock
<1>1. BatcherInv => ResultsNeverBlock
    <2> SUFFICES ASSUME BatcherInv PROVE ResultsNeverBlock
        OBVIOUS
    <2>1. TypeOK /\ Underway
        BY DEF BatcherInv
    <2>2. \A i \in DOMAIN batch : batch[i] \in Submissions /\ Holds(batch, batch[i])
        BY <2>1, BatchTypes DEF Holds
    <2> QED BY <2>1, <2>2 DEF Underway, Distinct, ResultsNeverBlock
<1> QED BY <1>1, BatcherInvariant, PTL

==============================================================================
