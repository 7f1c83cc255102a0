--------------------------- MODULE GatewayProofs ---------------------------
(***************************************************************************)
(* GatewayInv is inductive, for any number of messages, workers, providers *)
(* and attempts, and every step of Gateway is a step of Ledger.            *)
(*                                                                         *)
(* The invariant is split into what concerns types, the rows of a message  *)
(* (RowInv) and the claims on it (FenceInv).                               *)
(***************************************************************************)
EXTENDS Gateway, LedgerProofs

RowInv ==
    /\ QueueMatchesMessages
    /\ RefundIffFailedOrExpired
    /\ TimestampsConsistent
    /\ BreachRecorded

FenceInv ==
    /\ AttemptsBounded
    /\ OneHolderWithCurrentSnapshot
    /\ LeaseInv

\* What each part reads.
rowVars == <<debits, refunds, status, sentAt, completedAt, breached, queued, late>>
fenceVars == <<customers, deleted, status, attempts, queued, owner, version, jobs, outcomes>>

\* What is said of the rows depends on the rows only.
LEMMA RowFrame == ASSUME RowInv, UNCHANGED rowVars PROVE RowInv'
BY ZenonT(40) DEF rowVars, RowInv, QueueMatchesMessages, RefundIffFailedOrExpired,
       TimestampsConsistent, BreachRecorded

\* What is said of the claims depends on claims and rows only.
LEMMA FenceFrame == ASSUME FenceInv, UNCHANGED fenceVars PROVE FenceInv'
BY DEF fenceVars, FenceInv, AttemptsBounded, OneHolderWithCurrentSnapshot,
       LeaseInv, ClaimInv, Holds

\* The empty database satisfies the invariant.
LEMMA InitInv == Init => GatewayInv
<1> SUFFICES ASSUME Init PROVE GatewayInv
    OBVIOUS
<1>1. TypeOK
    BY LedgerInitInv DEF Init, TypeOK, LedgerInv, Status
<1>2. RowInv
    BY DEF Init, LedgerInit, RowInv, QueueMatchesMessages, RefundIffFailedOrExpired,
           TimestampsConsistent, BreachRecorded, Refundable, Terminal
<1>3. FenceInv
    BY GatewayAssumption DEF Init, LedgerInit, FenceInv, AttemptsBounded,
           OneHolderWithCurrentSnapshot, LeaseInv, ClaimInv, Holds
<1>. QED BY <1>1, <1>2, <1>3 DEF GatewayInv, RowInv, FenceInv

-----------------------------------------------------------------------------
(* Customers.                                                              *)

\* Creating a customer touches no message (customer.go Create).
LEMMA CreateCustomerInv ==
    ASSUME GatewayInv, NEW c \in Customers, CreateCustomer(c)
    PROVE  GatewayInv'
<1>1. /\ customers' = customers \cup {c} /\ c \notin deleted
      /\ UNCHANGED <<deleted, debits, refunds, messageVars, queueVars, clockVars, workerVars, taken>>
    BY DEF CreateCustomer, Create
<1>2. LedgerTypeOK'
    BY LedgerAssumption DEF CreateCustomer, Create, InsertCharge, GatewayInv, TypeOK, LedgerTypeOK, Charge
<1>3. TypeOK'
    BY <1>1, <1>2 DEF GatewayInv, TypeOK, messageVars, queueVars, clockVars, workerVars
<1>4. RowInv'
    BY ZenonT(40), <1>1, RowFrame DEF GatewayInv, RowInv, rowVars, messageVars, queueVars, clockVars
<1>5. FenceInv'
    BY <1>1 DEF GatewayInv, FenceInv, AttemptsBounded, OneHolderWithCurrentSnapshot,
           LeaseInv, ClaimInv, Holds, messageVars, queueVars, workerVars
<1>. QED BY <1>3, <1>4, <1>5 DEF GatewayInv, RowInv, FenceInv

\* A charge touches no message (ledger.go ChargeCustomer).
LEMMA AddCreditsInv ==
    ASSUME GatewayInv, NEW c \in Customers, NEW r \in ChargeRefs, NEW a \in Amounts,
           AddCredits(c, r, a)
    PROVE  GatewayInv'
<1>1. UNCHANGED <<customers, deleted, debits, refunds, messageVars, queueVars, clockVars, workerVars, taken>>
    BY ZenonT(40) DEF AddCredits, ChargeCustomer
<1>2. LedgerTypeOK'
    BY LedgerAssumption DEF AddCredits, ChargeCustomer, InsertCharge, GatewayInv, TypeOK, LedgerTypeOK, Charge
<1>3. TypeOK'
    BY <1>1, <1>2 DEF GatewayInv, TypeOK, messageVars, queueVars, clockVars, workerVars
<1>4. RowInv'
    BY <1>1, RowFrame DEF GatewayInv, RowInv, rowVars, messageVars, queueVars, clockVars
<1>5. FenceInv'
    BY <1>1, FenceFrame DEF GatewayInv, FenceInv, fenceVars, messageVars, queueVars, workerVars
<1>. QED BY <1>3, <1>4, <1>5 DEF GatewayInv, RowInv, FenceInv

\* Deleting a customer removes its rows and leaves what workers hold of
\* them without a lease (customer.go Delete).
LEMMA DeleteCustomerInv ==
    ASSUME GatewayInv, NEW c \in Customers, DeleteCustomer(c)
    PROVE  GatewayInv'
<1> DEFINE S == Of(c, Messages)
<1>1. S \in SUBSET Messages /\ \A m \in Messages : m \in S <=> Owner[m] = c
    BY ZenonT(40) DEF Of
<1>2. LedgerTypeOK'
    BY DEF GatewayInv, TypeOK, LedgerTypeOK, DeleteCustomer, Delete
<1>3. TypeOK'
    BY Zenon, <1>1, <1>2 DEF GatewayInv, TypeOK, DeleteCustomer, Cleared, ClearQueueRows, clockVars,
           workerVars, Status
<1>4. RowInv'
  <2>1. debits' = debits \ S /\ refunds' = refunds \ S
      BY ZenonT(40) DEF DeleteCustomer, Delete, Of, GatewayInv, TypeOK, LedgerTypeOK
  <2>2. \A m \in Messages : IF m \in S
            THEN status'[m] = "none" /\ ~sentAt'[m] /\ ~completedAt'[m] /\ ~breached'[m]
            ELSE /\ status'[m] = status[m] /\ sentAt'[m] = sentAt[m]
                 /\ completedAt'[m] = completedAt[m] /\ breached'[m] = breached[m]
      BY <1>1 DEF DeleteCustomer, Cleared
  <2>3. queued' = queued \ S /\ late' = late
      BY ZenonT(40) DEF DeleteCustomer, ClearQueueRows, clockVars
  <2> HIDE DEF S
  <2>4. QueueMatchesMessages'
      BY ZenonT(40), <2>1, <2>2, <2>3, <1>1 DEF GatewayInv, QueueMatchesMessages, TypeOK, LedgerTypeOK
  <2>5. RefundIffFailedOrExpired'
      BY <2>1, <2>2, <1>1 DEF GatewayInv, RefundIffFailedOrExpired, Refundable
  <2>6. TimestampsConsistent'
      BY ZenonT(40), <2>2, <2>3, <1>1 DEF GatewayInv, TimestampsConsistent, Terminal
  <2>7. BreachRecorded'
      BY <2>2, <2>3, <1>1 DEF GatewayInv, BreachRecorded, Refundable
  <2>. QED BY ZenonT(40), <2>4, <2>5, <2>6, <2>7 DEF RowInv
<1>5. FenceInv'
  <2>1. customers' = customers \ {c} /\ deleted' = deleted \cup {c}
      BY ZenonT(40) DEF DeleteCustomer, Delete
  <2>2. \A m \in Messages : IF m \in S
            THEN status'[m] = "none" /\ attempts'[m] = 0
            ELSE /\ status'[m] = status[m] /\ attempts'[m] = attempts[m]
                 /\ owner'[m] = owner[m] /\ version'[m] = version[m]
      BY <1>1 DEF DeleteCustomer, Cleared, ClearQueueRows
  <2>3. queued' = queued \ S /\ jobs' = jobs /\ outcomes' = outcomes
      BY DEF DeleteCustomer, ClearQueueRows, workerVars
  <2>4. \A r \in jobs \cup outcomes : r.msg \in Messages
      BY DEF GatewayInv, TypeOK, Job, Outcome
  <2> HIDE DEF S
  <2>5. \A r \in jobs \cup outcomes : Holds(r)' => Holds(r) /\ r.msg \notin S
      BY <2>2, <2>3, <2>4 DEF Holds
  <2>6. AttemptsBounded'
      BY <2>2, <2>3, <1>1, GatewayAssumption DEF GatewayInv, AttemptsBounded
  <2>7. OneHolderWithCurrentSnapshot'
      BY ZenonT(40), <2>2, <2>3, <2>4, <2>5 DEF GatewayInv, OneHolderWithCurrentSnapshot
  <2>8. \A r \in jobs \cup outcomes : ClaimInv(r) => ClaimInv(r)'
      BY ZenonT(40), <1>1, <2>1, <2>2, <2>3, <2>4, <2>5 DEF ClaimInv
  <2>9. LeaseInv'
      BY <2>1, <2>2, <2>3, <2>4, <2>8 DEF GatewayInv, LeaseInv
  <2>. QED BY <2>6, <2>7, <2>9 DEF FenceInv
<1>. QED BY <1>3, <1>4, <1>5 DEF GatewayInv, RowInv, FenceInv

\* Nobody holds a claim on a message that is accepted now: its ID is new and
\* its customer was never deleted.
LEMMA AcceptInv ==
    ASSUME GatewayInv, NEW c \in Customers, NEW S \in SUBSET Of(c, Messages), Accept(c, S)
    PROVE  GatewayInv'
<1>1. S \in SUBSET Messages /\ \A m \in S : Owner[m] = c /\ status[m] = "none"
    BY DEF Of, Accept, Fresh
<1>2. c \in customers /\ debits' = debits \cup S /\ UNCHANGED <<customers, deleted, charges, refunds>>
    BY ZenonT(40) DEF Accept, Debit, RecordDebits
<1>3. LedgerTypeOK'
  <2>1. TotalCost(S) \in Nat /\ balance[c] \in Nat
      BY ZenonT(40), <1>1, CostUnitsFinite DEF GatewayInv, TypeOK, LedgerTypeOK
  <2>2. balance[c] >= TotalCost(S) /\ balance' = [balance EXCEPT ![c] = @ - TotalCost(S)]
      BY ZenonT(40) DEF Accept, Debit, DebitBalance
  <2>. QED BY <1>1, <1>2, <2>1, <2>2 DEF GatewayInv, TypeOK, LedgerTypeOK
<1>4. TypeOK'
    BY <1>1, <1>3 DEF GatewayInv, TypeOK, Accept, clockVars, workerVars, Status
<1>5. \A m \in Messages : status'[m] = IF m \in S THEN "accepted" ELSE status[m]
    BY Zenon DEF Accept
<1>6. /\ queued' = queued \cup S
      /\ UNCHANGED <<sentAt, completedAt, breached, attempts, owner, version, late, jobs, outcomes>>
    BY Zenon DEF Accept, clockVars, workerVars
<1>7. RowInv'
  <2>1. QueueMatchesMessages'
    <3>1. \A m \in Messages : m \in debits' <=> status'[m] # "none"
        BY <1>1, <1>2, <1>5 DEF GatewayInv, QueueMatchesMessages
    <3>2. debits' \in SUBSET Messages
        BY <1>3 DEF LedgerTypeOK
    <3>3. debits' = {m \in Messages : status'[m] # "none"}
        BY ZenonT(40), <3>1, <3>2
    <3>. QED BY ZenonT(40), <1>1, <1>5, <1>6, <3>3 DEF GatewayInv, QueueMatchesMessages, TypeOK
  <2>2. RefundIffFailedOrExpired'
      BY ZenonT(40), <1>1, <1>2, <1>5 DEF GatewayInv, RefundIffFailedOrExpired, Refundable
  <2>3. TimestampsConsistent'
      BY <1>1, <1>5, <1>6 DEF GatewayInv, TimestampsConsistent, Terminal
  <2>4. BreachRecorded'
      BY <1>1, <1>5, <1>6 DEF GatewayInv, BreachRecorded, Refundable
  <2>. QED BY ZenonT(40), <2>1, <2>2, <2>3, <2>4 DEF RowInv
<1>8. FenceInv'
  <2>1. \A r \in jobs \cup outcomes : r.msg \in Messages /\ ClaimInv(r)
      BY ZenonT(40) DEF GatewayInv, TypeOK, Job, Outcome, LeaseInv
  <2>2. \A r \in jobs \cup outcomes : r.msg \notin S
      BY ZenonT(40), <1>1, <1>2, <2>1 DEF GatewayInv, LeaseInv, ClaimInv
  <2>3. \A r \in jobs \cup outcomes : Holds(r)' <=> Holds(r)
      BY ZenonT(40), <1>6, <2>2 DEF Holds
  <2>4. AttemptsBounded'
      BY SMTT(30), <1>1, <1>6, GatewayAssumption DEF GatewayInv, AttemptsBounded, LeaseInv, TypeOK
  <2>5. OneHolderWithCurrentSnapshot'
      BY <1>6, <2>3 DEF GatewayInv, OneHolderWithCurrentSnapshot
  <2>6. \A r \in jobs \cup outcomes : ClaimInv(r)'
      BY ZenonT(40), <1>2, <1>5, <1>6, <2>1, <2>2, <2>3 DEF ClaimInv
  <2>7. LeaseInv'
      BY <1>1, <1>2, <1>5, <1>6, <2>6 DEF GatewayInv, LeaseInv
  <2>. QED BY ZenonT(40), <2>4, <2>5, <2>7 DEF FenceInv
<1>. QED BY <1>4, <1>7, <1>8 DEF GatewayInv, RowInv, FenceInv

-----------------------------------------------------------------------------
(* Dispatch.                                                               *)

\* A new generation is ahead of every earlier claim, so the new job is alone.
LEMMA ClaimStepInv ==
    ASSUME GatewayInv, NEW w \in Workers, NEW S \in SUBSET queued, Claim(w, S)
    PROVE  GatewayInv'
<1>1. S \in SUBSET Messages /\ \A m \in S : m \in queued /\ status[m] = "accepted"
    BY ZenonT(40) DEF Claim, Ready, GatewayInv, TypeOK
<1>2. \A m \in Messages : /\ owner'[m] = IF m \in S THEN w ELSE owner[m]
                          /\ version'[m] = IF m \in S THEN version[m] + 1 ELSE version[m]
    BY DEF Claim, Cleared, NextVersion
<1>3. UNCHANGED <<ledgerVars, messageVars, queued, clockVars, outcomes, taken>>
    BY DEF Claim
<1>4. jobs' = jobs \cup {NewJob(w, m) : m \in S}
    BY ZenonT(40) DEF Claim
<1>5. \A m \in S : /\ NewJob(w, m) \in Job
                   /\ NewJob(w, m).msg = m /\ NewJob(w, m).version = version[m] + 1
                   /\ NewJob(w, m).snap = attempts[m] /\ NewJob(w, m).stage = "claimed"
    BY <1>1 DEF NewJob, NextVersion, Job, Stage, GatewayInv, TypeOK
<1>6. LedgerTypeOK'
    BY ZenonT(40), <1>3 DEF ledgerVars, GatewayInv, TypeOK, LedgerTypeOK
<1>7. TypeOK'
  <2>1. jobs' \subseteq Job
      BY <1>4, <1>5 DEF GatewayInv, TypeOK
  <2>2. owner' \in [Messages -> Workers \cup {NoWorker}] /\ version' \in [Messages -> Nat]
      BY DEF Claim, Cleared, NextVersion, GatewayInv, TypeOK
  <2>3. due' \in [Messages -> BOOLEAN]
      BY Zenon DEF Claim, Cleared, GatewayInv, TypeOK
  <2>. QED BY ZenonT(40), <1>3, <1>6, <2>1, <2>2, <2>3 DEF GatewayInv, TypeOK, messageVars, clockVars
<1>8. RowInv'
    BY <1>3, RowFrame DEF GatewayInv, RowInv, rowVars, ledgerVars, messageVars, clockVars
<1>9. FenceInv'
  <2>1. \A r \in jobs \cup outcomes : r.msg \in Messages /\ r.version \in Nat /\ ClaimInv(r)
      BY DEF GatewayInv, TypeOK, Job, Outcome, LeaseInv
  <2>2. \A m \in Messages : version[m] \in Nat /\ attempts[m] \in Nat
      BY ZenonT(40) DEF GatewayInv, TypeOK
  <2>3. \A r \in jobs \cup outcomes : Holds(r)' => Holds(r) /\ r.msg \notin S
      BY <1>1, <1>2, <1>3, <2>1, <2>2 DEF Holds, ClaimInv
  <2>4. \A r \in jobs' : r \in jobs \/ (\E m \in S : r = NewJob(w, m))
      BY ZenonT(40), <1>4
  <2>5. AttemptsBounded'
      BY SMTT(30), <1>1, <1>2, <1>3, <2>2 DEF GatewayInv, AttemptsBounded, messageVars
  <2>6. OneHolderWithCurrentSnapshot'
      BY SMTT(30), <1>3, <1>5, <2>3, <2>4 DEF GatewayInv, OneHolderWithCurrentSnapshot, messageVars
  <2>7. \A r \in jobs \cup outcomes : ClaimInv(r)'
      BY SMTT(30), <1>2, <1>3, <2>1, <2>2, <2>3 DEF ClaimInv, messageVars, ledgerVars
  <2>8. \A m \in S : \A r : r = NewJob(w, m) => ClaimInv(r)'
    <3> SUFFICES ASSUME NEW m \in S, NEW r, r = NewJob(w, m) PROVE ClaimInv(r)'
        BY ZenonT(40)
    <3>1. r.msg = m /\ r.version = version[m] + 1 /\ r.snap = attempts[m]
        BY ZenonT(40), <1>5
    <3>2. version'[m] = version[m] + 1 /\ attempts' = attempts /\ status'[m] = "accepted"
        BY <1>1, <1>2, <1>3 DEF messageVars
    <3>3. attempts[m] <= version[m] /\ attempts[m] < MaxAttempts
        BY ZenonT(40), <1>1 DEF GatewayInv, AttemptsBounded
    <3>. QED BY <1>1, <2>2, <3>1, <3>2, <3>3 DEF ClaimInv
  <2>9. LeaseInv'
      BY <1>3, <1>5, <2>4, <2>7, <2>8 DEF GatewayInv, LeaseInv, messageVars, ledgerVars
  <2>. QED BY ZenonT(40), <2>5, <2>6, <2>9 DEF FenceInv
<1>. QED BY ZenonT(40), <1>7, <1>8, <1>9 DEF GatewayInv, RowInv, FenceInv

\* Forgetting claims disturbs nothing: cut off, dropped or crashed.
LEMMA ForgetInv ==
    ASSUME GatewayInv, jobs' \in SUBSET jobs, outcomes' \in SUBSET outcomes,
           UNCHANGED <<ledgerVars, messageVars, queueVars, clockVars, taken>>
    PROVE  GatewayInv'
<1>1. LedgerTypeOK'
    BY ZenonT(40) DEF ledgerVars, GatewayInv, TypeOK, LedgerTypeOK
<1>2. TypeOK'
    BY <1>1 DEF GatewayInv, TypeOK, messageVars, queueVars, clockVars
<1>3. RowInv'
    BY RowFrame DEF GatewayInv, RowInv, rowVars, ledgerVars, messageVars, queueVars, clockVars
<1>4. FenceInv'
    BY Zenon DEF GatewayInv, FenceInv, AttemptsBounded, OneHolderWithCurrentSnapshot, LeaseInv,
           ClaimInv, Holds, ledgerVars, messageVars, queueVars
<1>. QED BY <1>2, <1>3, <1>4 DEF GatewayInv, RowInv, FenceInv

\* A job that moves on keeps its message, generation and snapshot.
LEMMA AdvanceInv ==
    ASSUME GatewayInv, NEW j \in jobs, NEW stage \in Stage, NEW p \in Providers,
           Advance(j, stage, p), taken' \subseteq Messages \X Providers
    PROVE  GatewayInv'
<1> DEFINE k == [j EXCEPT !.stage = stage, !.provider = p]
<1>1. k \in Job /\ k.worker = j.worker /\ k.msg = j.msg /\ k.version = j.version /\ k.snap = j.snap
      /\ k.provider = p
    BY Zenon DEF GatewayInv, TypeOK, Job
<1>2. jobs' = (jobs \ {j}) \cup {k} /\ UNCHANGED <<ledgerVars, messageVars, queueVars, clockVars, outcomes>>
    BY DEF Advance
<1> HIDE DEF k
<1>3. LedgerTypeOK'
    BY ZenonT(40), <1>2 DEF ledgerVars, GatewayInv, TypeOK, LedgerTypeOK
<1>4. TypeOK'
    BY ZenonT(40), <1>1, <1>2, <1>3 DEF GatewayInv, TypeOK, messageVars, queueVars, clockVars
<1>5. RowInv'
    BY <1>2, RowFrame DEF GatewayInv, RowInv, rowVars, ledgerVars, messageVars, queueVars, clockVars
<1>6. FenceInv'
  <2>1. \A r : (Holds(r)' <=> Holds(r)) /\ (ClaimInv(r)' <=> ClaimInv(r))
      BY ZenonT(40), <1>2 DEF Holds, ClaimInv, ledgerVars, messageVars, queueVars
  <2>2. (Holds(k) <=> Holds(j)) /\ (ClaimInv(k) <=> ClaimInv(j))
      BY ZenonT(40), <1>1 DEF Holds, ClaimInv
  <2>3. AttemptsBounded'
      BY ZenonT(40), <1>2 DEF GatewayInv, AttemptsBounded, messageVars, queueVars
  <2>4. OneHolderWithCurrentSnapshot'
    <3>1. ASSUME NEW r \in jobs' \cup outcomes', Holds(r) PROVE r.snap = attempts'[r.msg]
        BY ZenonT(40), <1>1, <1>2, <2>2, <3>1 DEF GatewayInv, OneHolderWithCurrentSnapshot, messageVars
    <3>2. ASSUME NEW r \in jobs', NEW s \in jobs', Holds(r), Holds(s), r.msg = s.msg PROVE r = s
        BY ZenonT(40), <1>1, <1>2, <2>2, <3>2 DEF GatewayInv, OneHolderWithCurrentSnapshot
    <3>3. ASSUME NEW r \in outcomes', NEW s \in outcomes', Holds(r), Holds(s), r.msg = s.msg PROVE r = s
        BY ZenonT(40), <1>1, <1>2, <2>2, <3>3 DEF GatewayInv, OneHolderWithCurrentSnapshot
    <3>4. ASSUME NEW r \in jobs', NEW s \in outcomes', Holds(r), Holds(s), r.msg = s.msg PROVE FALSE
        BY ZenonT(40), <1>1, <1>2, <2>2, <3>4 DEF GatewayInv, OneHolderWithCurrentSnapshot
    <3>. QED BY ZenonT(40), <2>1, <3>1, <3>2, <3>3, <3>4 DEF OneHolderWithCurrentSnapshot
  <2>5. LeaseInv'
      BY <1>1, <1>2, <2>1, <2>2 DEF GatewayInv, LeaseInv, ledgerVars, messageVars
  <2>. QED BY ZenonT(40), <2>3, <2>4, <2>5 DEF FenceInv
<1>. QED BY <1>4, <1>5, <1>6 DEF GatewayInv, RowInv, FenceInv

\* A job becomes an outcome; a retry was not the last attempt.
LEMMA FinishInv ==
    ASSUME GatewayInv, NEW j \in jobs, NEW kind \in Kind, NEW attempted \in BOOLEAN, NEW now \in BOOLEAN,
           kind = "retry" => j.snap + 1 < MaxAttempts,
           Finish(j, kind, attempted, now)
    PROVE  GatewayInv'
<1> DEFINE o == [worker |-> j.worker, msg |-> j.msg, version |-> j.version, snap |-> j.snap,
                 kind |-> kind, provider |-> IF attempted THEN j.provider ELSE NoProvider,
                 attempted |-> attempted, now |-> now]
<1>1. o \in Outcome /\ o.worker = j.worker /\ o.msg = j.msg /\ o.version = j.version
      /\ o.snap = j.snap /\ o.kind = kind
    BY ZenonT(40) DEF GatewayInv, TypeOK, Job, Outcome
<1>2. /\ jobs' = jobs \ {j} /\ outcomes' = outcomes \cup {o}
      /\ UNCHANGED <<ledgerVars, messageVars, queueVars, clockVars, taken>>
    BY ZenonT(40) DEF Finish
<1> HIDE DEF o
<1>3. LedgerTypeOK'
    BY <1>2 DEF ledgerVars, GatewayInv, TypeOK, LedgerTypeOK
<1>4. TypeOK'
    BY ZenonT(40), <1>1, <1>2, <1>3 DEF GatewayInv, TypeOK, messageVars, queueVars, clockVars
<1>5. RowInv'
    BY <1>2, RowFrame DEF GatewayInv, RowInv, rowVars, ledgerVars, messageVars, queueVars, clockVars
<1>6. FenceInv'
  <2>1. \A r : (Holds(r)' <=> Holds(r)) /\ (ClaimInv(r)' <=> ClaimInv(r))
      BY Zenon, <1>2 DEF Holds, ClaimInv, ledgerVars, messageVars, queueVars
  <2>2. (Holds(o) <=> Holds(j)) /\ (ClaimInv(o) <=> ClaimInv(j))
      BY Zenon, <1>1 DEF Holds, ClaimInv
  <2>3. AttemptsBounded'
      BY Zenon, <1>2 DEF GatewayInv, AttemptsBounded, messageVars, queueVars
  <2>4. OneHolderWithCurrentSnapshot'
    <3>1. ASSUME NEW r \in jobs' \cup outcomes', Holds(r) PROVE r.snap = attempts'[r.msg]
        BY ZenonT(40), <1>1, <1>2, <2>2, <3>1 DEF GatewayInv, OneHolderWithCurrentSnapshot, messageVars
    <3>2. ASSUME NEW r \in jobs', NEW s \in jobs', Holds(r), Holds(s), r.msg = s.msg PROVE r = s
        BY ZenonT(40), <1>1, <1>2, <2>2, <3>2 DEF GatewayInv, OneHolderWithCurrentSnapshot
    <3>3. ASSUME NEW r \in outcomes', NEW s \in outcomes', Holds(r), Holds(s), r.msg = s.msg PROVE r = s
        BY ZenonT(40), <1>1, <1>2, <2>2, <3>3 DEF GatewayInv, OneHolderWithCurrentSnapshot
    <3>4. ASSUME NEW r \in jobs', NEW s \in outcomes', Holds(r), Holds(s), r.msg = s.msg PROVE FALSE
        BY <1>1, <1>2, <2>2, <3>4 DEF GatewayInv, OneHolderWithCurrentSnapshot
    <3>. QED BY Zenon, <2>1, <3>1, <3>2, <3>3, <3>4 DEF OneHolderWithCurrentSnapshot
  <2>5. LeaseInv'
      BY Zenon, <1>1, <1>2, <2>1, <2>2 DEF GatewayInv, LeaseInv, ledgerVars, messageVars
  <2>. QED BY <2>3, <2>4, <2>5 DEF FenceInv
<1>. QED BY ZenonT(40), <1>4, <1>5, <1>6 DEF GatewayInv, RowInv, FenceInv

\* Every step of a dispatch goroutine keeps the invariant (send.go dispatch).
LEMMA DispatchInv ==
    ASSUME GatewayInv, NEW j \in jobs, DispatchStep(j) \/ ProviderStep(j)
    PROVE  GatewayInv'
<1>1. j \in Job /\ (j.stage # "claimed" => j.provider \in Providers) /\ j.snap \in Nat
    BY Zenon DEF GatewayInv, TypeOK, LeaseInv, Job
<1>2. MaxAttempts \in Nat
    BY GatewayAssumption
<1>3. CASE DispatchExpired(j)
    BY Zenon, <1>3, FinishInv DEF DispatchExpired, Kind
<1>4. CASE DispatchNoProvider(j)
    BY Zenon, <1>4, FinishInv DEF DispatchNoProvider, Kind
<1>5. ASSUME NEW p \in Providers, DispatchPick(j, p) PROVE GatewayInv'
    BY Zenon, <1>5, AdvanceInv DEF DispatchPick, Stage, GatewayInv, TypeOK
<1>6. CASE DispatchLeaseOver(j)
    BY Zenon, <1>6, FinishInv DEF DispatchLeaseOver, Kind
<1>7. CASE DispatchSend(j)
    BY Zenon, <1>1, <1>7, AdvanceInv DEF DispatchSend, Stage, GatewayInv, TypeOK
<1>8. CASE DispatchSent(j)
    BY Zenon, <1>8, FinishInv DEF DispatchSent, Kind
<1>9. CASE DispatchFailed(j)
    BY Zenon, <1>9, FinishInv DEF DispatchFailed, Kind
<1>10. CASE DispatchRetry(j)
  <2>1. j.snap + 1 < MaxAttempts
      BY <1>1, <1>2, <1>10 DEF DispatchRetry, LastAttempt
  <2>2. PICK kind \in {"retry", "expired"} : Finish(j, kind, TRUE, FALSE)
      BY Zenon, <1>10 DEF DispatchRetry
  <2>3. kind \in Kind
      BY DEF Kind
  <2>. QED BY Zenon, <2>1, <2>2, <2>3, FinishInv
<1>11. CASE DispatchCutOff(j)
    BY ZenonT(40), <1>11, ForgetInv DEF DispatchCutOff
<1>12. CASE ProviderAccepts(j)
  <2>1. <<j.msg, j.provider>> \in Messages \X Providers
      BY ZenonT(40), <1>1, <1>12 DEF ProviderAccepts, Job
  <2>2. taken' \subseteq Messages \X Providers
      BY ZenonT(40), <1>12, <2>1 DEF ProviderAccepts, GatewayInv, TypeOK
  <2>. QED BY <1>1, <1>12, <2>2, AdvanceInv DEF ProviderAccepts, Stage
<1>13. CASE ProviderRejects(j)
    BY <1>1, <1>13, AdvanceInv DEF ProviderRejects, Stage, GatewayInv, TypeOK
<1>. QED BY <1>3, <1>4, <1>5, <1>6, <1>7, <1>8, <1>9, <1>10, <1>11, <1>12, <1>13
         DEF DispatchStep, ProviderStep

-----------------------------------------------------------------------------
(* The completer.  O is what lockOwned leaves of a batch.                  *)

\* Outcomes that pass lockOwned hold their leases, so there is one per
\* message and its snapshot is current (completer.go lockOwned).
LEMMA OwnedOutcomes ==
    ASSUME GatewayInv, NEW w \in Workers, NEW B \in SUBSET OutcomesOf(w), NEW O, O = LockOwned(w, B)
    PROVE  /\ O \subseteq outcomes
           /\ \A o \in O : Holds(o) /\ o.msg \in queued /\ o.msg \in Messages
           /\ \A o, p \in O : o.msg = p.msg => o = p
           /\ \A o \in O : OutcomeFor(O, o.msg) = o
<1>1. O \subseteq outcomes /\ \A o \in O : o.worker = w
    BY ZenonT(40) DEF LockOwned, OutcomesOf
<1>2. \A o \in O : Holds(o) /\ o.msg \in queued /\ o.msg \in Messages
    BY ZenonT(40), <1>1 DEF LockOwned, Holds, GatewayInv, TypeOK
<1>3. \A o, p \in O : o.msg = p.msg => o = p
    BY <1>1, <1>2 DEF GatewayInv, OneHolderWithCurrentSnapshot
<1>4. \A o \in O : OutcomeFor(O, o.msg) = o
    BY <1>3 DEF OutcomeFor
<1>. QED BY <1>1, <1>2, <1>3, <1>4

\* The row of m is left alone.
SameRow(m) ==
    /\ m \in queued' <=> m \in queued
    /\ status'[m] = status[m] /\ attempts'[m] = attempts[m]
    /\ sentAt'[m] = sentAt[m] /\ completedAt'[m] = completedAt[m]
    /\ breached'[m] = breached[m] /\ owner'[m] = owner[m] /\ version'[m] = version[m]
    /\ m \in refunds' <=> m \in refunds

\* The row of o's message is what outcome o makes of it.
Completed(o) ==
    /\ status'[o.msg] = IF status[o.msg] # "accepted" THEN status[o.msg]
                        ELSE IF o.kind = "sent" THEN "sent"
                        ELSE IF o.kind \in Refundable THEN o.kind ELSE "accepted"
    /\ o.msg \in queued' <=> (o.kind = "retry" /\ status[o.msg] = "accepted") \/ o.kind = "deferred"
    /\ owner'[o.msg] = NoWorker
    /\ o.msg \in queued' => version'[o.msg] = version[o.msg]
    /\ attempts'[o.msg] \in {attempts[o.msg], attempts[o.msg] + 1}
    /\ o.kind = "deferred" => attempts'[o.msg] = attempts[o.msg]
    /\ sentAt'[o.msg] = (sentAt[o.msg] \/ o.kind = "sent")
    /\ completedAt'[o.msg] = (completedAt[o.msg] \/ (o.kind \in Refundable /\ status[o.msg] = "accepted"))
    /\ breached'[o.msg] = (breached[o.msg] \/ (o.msg \in Express /\
           ((o.kind \in Refundable /\ status[o.msg] = "accepted") \/ (o.kind = "sent" /\ late[o.msg]))))
    /\ o.msg \in refunds' <=> o.msg \in refunds \/ (o.kind \in Refundable /\ status[o.msg] = "accepted")

\* What the UPDATE statements leave, row by row.
LEMMA CommitEffect ==
    ASSUME GatewayInv, NEW w \in Workers, NEW B \in SUBSET OutcomesOf(w), Commit(w, B),
           NEW O, O = LockOwned(w, B)
    PROVE  /\ \A m \in Messages : (\A o \in O : o.msg # m) => SameRow(m)
           /\ \A o \in O : Completed(o)
<1> DEFINE sent == RecordSent(O)
           retry == RecordRetry(O)
           terminal == RecordTerminal(O)
           deferred == MsgsOf(O, {"deferred"})
           all == {o.msg : o \in O}
<1>1. /\ O \subseteq outcomes
      /\ \A o \in O : Holds(o) /\ o.msg \in queued /\ o.msg \in Messages
      /\ \A o, p \in O : o.msg = p.msg => o = p
      /\ \A o \in O : OutcomeFor(O, o.msg) = o
    BY ZenonT(40), OwnedOutcomes
<1>2. \A o \in O : o.kind \in Kind
    BY ZenonT(40), <1>1 DEF GatewayInv, TypeOK, Outcome
<1>3. \A o \in O : status[o.msg] \in {"accepted", "delivered", "undelivered"} /\ ~sentAt[o.msg]
    BY <1>1 DEF GatewayInv, QueueMatchesMessages, TimestampsConsistent, TypeOK
<1>4. \A o \in O : /\ o.msg \in sent <=> o.kind = "sent"
                   /\ o.msg \in retry <=> o.kind = "retry" /\ status[o.msg] = "accepted"
                   /\ o.msg \in terminal <=> o.kind \in Refundable /\ status[o.msg] = "accepted"
                   /\ o.msg \in deferred <=> o.kind = "deferred"
                   /\ o.msg \in all
    BY ZenonT(40), <1>1, <1>3 DEF RecordSent, RecordRetry, RecordTerminal, MsgsOf, Refundable
<1>5. \A m \in Messages : (\A o \in O : o.msg # m) =>
          m \notin sent /\ m \notin retry /\ m \notin terminal /\ m \notin deferred /\ m \notin all
    BY ZenonT(40) DEF RecordSent, RecordRetry, RecordTerminal, MsgsOf
<1>6. CommitMessages(O) /\ CommitQueue(O) /\ refunds' = refunds \cup terminal
    BY DEF Commit, ApplyRefunds
<1>7. \A m \in Messages :
          /\ status'[m] = IF m \in sent /\ status[m] = "accepted" THEN "sent"
                          ELSE IF m \in terminal THEN OutcomeFor(O, m).kind ELSE status[m]
          /\ sentAt'[m] = (sentAt[m] \/ m \in sent)
          /\ completedAt'[m] = (completedAt[m] \/ m \in terminal)
          /\ breached'[m] = (breached[m] \/ (m \in Express /\ (m \in terminal \/ (m \in sent /\ late[m]))))
    BY Zenon, <1>6 DEF CommitMessages, BecomesSent, Breaches
<1>8. \A m \in Messages : attempts'[m] =
          IF \E o \in O : o.msg = m /\ CountsAttempt(o, sent \cup retry \cup terminal)
          THEN attempts[m] + 1 ELSE attempts[m]
    BY Zenon, <1>6 DEF CommitMessages
<1>9. /\ queued' = queued \ (all \ (retry \cup deferred))
      /\ \A m \in Messages :
            /\ owner'[m] = IF m \in all \/ m \in retry \/ m \in deferred THEN NoWorker ELSE owner[m]
            /\ version'[m] = IF m \in all \ (retry \cup deferred) THEN 0 ELSE version[m]
    BY ZenonT(40), <1>6 DEF CommitQueue, Cleared
<1>10. \A o \in O : CountsAttempt(o, sent \cup retry \cup terminal) => o.kind # "deferred"
    BY DEF CountsAttempt, Refundable
<1>11. refunds' = refunds \cup terminal
    BY <1>6
<1> HIDE DEF sent, retry, terminal, deferred, all
<1>12. ASSUME NEW m \in Messages, \A o \in O : o.msg # m PROVE SameRow(m)
  <2>1. m \notin sent /\ m \notin retry /\ m \notin terminal /\ m \notin deferred /\ m \notin all
      BY ZenonT(40), <1>5, <1>12
  <2>2. sentAt[m] \in BOOLEAN /\ completedAt[m] \in BOOLEAN /\ breached[m] \in BOOLEAN
      BY ZenonT(40) DEF GatewayInv, TypeOK
  <2>3. sentAt'[m] = sentAt[m] /\ completedAt'[m] = completedAt[m] /\ breached'[m] = breached[m]
      BY ZenonT(40), <1>7, <2>1, <2>2
  <2>4. m \in queued' <=> m \in queued
      BY <1>9, <2>1
  <2>. QED BY Zenon, <1>7, <1>8, <1>9, <1>11, <1>12, <2>1, <2>3, <2>4 DEF SameRow
<1>13. ASSUME NEW o \in O
       PROVE  /\ status'[o.msg] = IF status[o.msg] # "accepted" THEN status[o.msg]
                                  ELSE IF o.kind = "sent" THEN "sent"
                                  ELSE IF o.kind \in Refundable THEN o.kind ELSE "accepted"
              /\ o.msg \in queued' <=> (o.kind = "retry" /\ status[o.msg] = "accepted") \/ o.kind = "deferred"
              /\ owner'[o.msg] = NoWorker
              /\ o.msg \in queued' => version'[o.msg] = version[o.msg]
              /\ o.msg \in refunds' <=> o.msg \in refunds \/ (o.kind \in Refundable /\ status[o.msg] = "accepted")
  <2>1. o.msg \in Messages /\ o.msg \in queued /\ OutcomeFor(O, o.msg) = o
      BY <1>1
  <2>. QED BY Zenon, <1>4, <1>7, <1>9, <1>11, <2>1 DEF Refundable
<1>14. ASSUME NEW o \in O
       PROVE  /\ attempts'[o.msg] \in {attempts[o.msg], attempts[o.msg] + 1}
              /\ o.kind = "deferred" => attempts'[o.msg] = attempts[o.msg]
  <2>1. o.msg \in Messages /\ \A p \in O : p.msg = o.msg => p = o
      BY <1>1
  <2>. QED BY Zenon, <1>8, <1>10, <2>1
<1>15. ASSUME NEW o \in O
       PROVE  /\ sentAt'[o.msg] = (sentAt[o.msg] \/ o.kind = "sent")
              /\ completedAt'[o.msg] = (completedAt[o.msg] \/ (o.kind \in Refundable /\ status[o.msg] = "accepted"))
              /\ breached'[o.msg] = (breached[o.msg] \/ (o.msg \in Express /\
                    ((o.kind \in Refundable /\ status[o.msg] = "accepted") \/ (o.kind = "sent" /\ late[o.msg]))))
  <2>1. o.msg \in Messages
      BY <1>1
  <2>. QED BY Zenon, <1>4, <1>7, <2>1
<1>16. \A o \in O : Completed(o)
    BY ZenonT(40), <1>13, <1>14, <1>15 DEF Completed
<1>. QED BY ZenonT(40), <1>12, <1>16

\* A commit leaves every column with a value of its type
\* (completer.go commit).
LEMMA CommitTypes ==
    ASSUME GatewayInv, NEW w \in Workers, NEW B \in SUBSET OutcomesOf(w), Commit(w, B),
           outcomes' \in SUBSET outcomes
    PROVE  TypeOK'
<1> DEFINE O == LockOwned(w, B)
           R == RecordTerminal(O)
<1>1. /\ O \subseteq outcomes
      /\ \A o \in O : o.msg \in queued /\ o.msg \in Messages
      /\ \A o \in O : OutcomeFor(O, o.msg) = o
    BY ZenonT(40), OwnedOutcomes
<1>2. \A o \in O : o.kind \in Kind /\ o.provider \in Providers \cup {NoProvider}
    BY ZenonT(40), <1>1 DEF GatewayInv, TypeOK, Outcome
<1>3. CommitMessages(O) /\ CommitQueue(O)
    BY ZenonT(40) DEF Commit
<1>4. /\ refunds' = refunds \cup R
      /\ balance' = [c \in Customers |-> balance[c] + TotalCost(Of(c, R \ refunds))]
      /\ UNCHANGED <<customers, deleted, charges, debits, clockVars, jobs, taken>>
    BY ZenonT(40) DEF Commit, ApplyRefunds
<1>5. R \in SUBSET Messages
    BY <1>1 DEF RecordTerminal, MsgsOf
<1> HIDE DEF O, R
<1>6. LedgerTypeOK'
  <2>1. \A c \in Customers : TotalCost(Of(c, R \ refunds)) \in Nat
      BY ZenonT(40), <1>5, OfSubset
  <2>2. \A c \in Customers : balance[c] \in Nat
      BY DEF GatewayInv, TypeOK, LedgerTypeOK
  <2>3. \A c \in Customers : balance[c] + TotalCost(Of(c, R \ refunds)) \in Nat
      BY <2>1, <2>2
  <2>4. balance' \in [Customers -> Nat]
      BY ZenonT(40), <1>4, <2>3
  <2>. QED BY Zenon, <1>4, <1>5, <2>4 DEF GatewayInv, TypeOK, LedgerTypeOK
<1>7. \A m \in Messages :
         /\ m \in RecordTerminal(O) => OutcomeFor(O, m).kind \in Refundable
         /\ m \in RecordSent(O) \cup RecordRetry(O) \cup RecordTerminal(O)
               => OutcomeFor(O, m).provider \in Providers \cup {NoProvider}
    BY <1>1, <1>2 DEF RecordTerminal, RecordSent, RecordRetry, MsgsOf
<1>8. status' \in [Messages -> Status]
    BY Zenon, <1>3, <1>7 DEF CommitMessages, GatewayInv, TypeOK, Status, Terminal, Refundable
<1>9. attempts' \in [Messages -> Nat]
  <2> DEFINE counted(m) == \E o \in O : o.msg = m /\ CountsAttempt(o, RecordSent(O) \cup RecordRetry(O) \cup RecordTerminal(O))
  <2>1. attempts' = [m \in Messages |-> IF counted(m) THEN attempts[m] + 1 ELSE attempts[m]]
      BY ZenonT(40), <1>3 DEF CommitMessages
  <2>2. \A m \in Messages : attempts[m] \in Nat /\ attempts[m] + 1 \in Nat
      BY DEF GatewayInv, TypeOK
  <2> HIDE DEF counted
  <2>. QED BY <2>1, <2>2
<1>10. /\ sentAt' \in [Messages -> BOOLEAN] /\ completedAt' \in [Messages -> BOOLEAN]
       /\ breached' \in [Messages -> BOOLEAN]
    BY Zenon, <1>3 DEF CommitMessages
<1>11. provider' \in [Messages -> Providers \cup {NoProvider}]
    BY Zenon, <1>3, <1>7 DEF CommitMessages, GatewayInv, TypeOK
<1>12. providerRef' \in [Messages -> Providers \cup {NoProvider}]
    BY Zenon, <1>3, <1>7 DEF CommitMessages, GatewayInv, TypeOK
<1>13. queued' \subseteq Messages /\ owner' \in [Messages -> Workers \cup {NoWorker}]
       /\ version' \in [Messages -> Nat]
    BY Zenon, <1>3 DEF CommitQueue, Cleared, GatewayInv, TypeOK
<1>14. due' \in [Messages -> BOOLEAN]
    BY Zenon, <1>3 DEF CommitQueue
<1>. QED BY <1>4, <1>6, <1>8, <1>9, <1>10, <1>11, <1>12, <1>13, <1>14
         DEF GatewayInv, TypeOK, clockVars

\* Counting one attempt more under a lease stays within both bounds.
LEMMA OneMore ==
    ASSUME NEW a \in Nat, NEW b, NEW v \in Nat, NEW M \in Nat,
           a < M, a + 1 <= v, b = a \/ b = a + 1
    PROVE  b <= M /\ b <= v
    OBVIOUS

\* A retry is not the last attempt, so its row keeps room for another.
LEMMA RoomForMore ==
    ASSUME NEW a \in Nat, NEW b, NEW M \in Nat, a < M, b = a \/ (b = a + 1 /\ a + 1 < M)
    PROVE  b < M
    OBVIOUS

\* A commit of any batch of outcomes keeps the invariant
\* (completer.go commit).
LEMMA CommitInv ==
    ASSUME GatewayInv, NEW w \in Workers, NEW B \in SUBSET OutcomesOf(w), Commit(w, B),
           outcomes' \in SUBSET outcomes
    PROVE  GatewayInv'
<1>1. PICK O : O = LockOwned(w, B)
    OBVIOUS
<1>2. /\ O \subseteq outcomes
      /\ \A o \in O : Holds(o) /\ o.msg \in queued /\ o.msg \in Messages
    BY <1>1, OwnedOutcomes
<1> DEFINE Untouched(m) == \A o \in O : o.msg # m
<1>3. \A m \in Messages : Untouched(m) => SameRow(m)
    BY ZenonT(40), <1>1, CommitEffect
<1>4. \A o \in O : Completed(o)
    BY <1>1, CommitEffect
<1>5. \A m \in Messages : Untouched(m) \/ \E o \in O : o.msg = m
    BY ZenonT(40)
<1>6. \A o \in O : o.kind \in Kind /\ status[o.msg] \in {"accepted", "delivered", "undelivered"}
    BY <1>2 DEF GatewayInv, TypeOK, Outcome, QueueMatchesMessages
<1>7. UNCHANGED <<customers, deleted, debits, late, jobs>>
    BY DEF Commit, clockVars
<1>8. TypeOK'
    BY ZenonT(40), CommitTypes
<1> HIDE DEF Untouched
<1>9. ASSUME NEW m \in Messages PROVE status'[m] = "none" <=> status[m] = "none"
  <2>1. CASE Untouched(m)
    <3>1. SameRow(m)
        BY <1>3, <2>1
    <3>. QED BY <3>1 DEF SameRow
  <2>2. ASSUME NEW o \in O, o.msg = m PROVE status'[m] = "none" <=> status[m] = "none"
    <3>1. Completed(o)
        BY <1>4
    <3>. QED BY Zenon, <1>6, <2>2, <3>1 DEF Completed, Refundable
  <2>. QED BY ZenonT(40), <1>5, <2>1, <2>2
<1>10. RowInv'
  <2>1. \A m \in Messages : status'[m] = "none" <=> status[m] = "none"
      BY <1>9
  <2>2. QueueMatchesMessages'
    <3>1. ASSUME NEW m \in Messages, status'[m] = "accepted" PROVE m \in queued'
      <4>1. CASE Untouched(m)
        <5>1. SameRow(m)
            BY <1>3, <4>1
        <5>. QED BY <3>1, <5>1 DEF SameRow, GatewayInv, QueueMatchesMessages
      <4>2. ASSUME NEW o \in O, o.msg = m PROVE m \in queued'
        <5>1. Completed(o)
            BY <1>4
        <5>. QED BY Zenon, <1>6, <3>1, <4>2, <5>1 DEF Completed, Kind, Refundable
      <4>. QED BY ZenonT(40), <1>5, <4>1, <4>2
    <3>2. ASSUME NEW m \in queued' PROVE status'[m] \in {"accepted", "delivered", "undelivered"}
      <4>1. m \in Messages
          BY ZenonT(40), <1>8 DEF TypeOK
      <4>2. CASE Untouched(m)
        <5>1. SameRow(m)
            BY <1>3, <4>1, <4>2
        <5>. QED BY <5>1 DEF SameRow, GatewayInv, QueueMatchesMessages
      <4>3. ASSUME NEW o \in O, o.msg = m PROVE status'[m] \in {"accepted", "delivered", "undelivered"}
        <5>1. Completed(o)
            BY <1>4
        <5>. QED BY Zenon, <1>6, <4>3, <5>1 DEF Completed, Refundable
      <4>. QED BY ZenonT(40), <1>5, <4>1, <4>2, <4>3
    <3>3. debits' = {m \in Messages : status'[m] # "none"}
        BY ZenonT(40), <1>7, <2>1 DEF GatewayInv, QueueMatchesMessages
    <3>. QED BY <3>1, <3>2, <3>3 DEF QueueMatchesMessages
  <2>3. RefundIffFailedOrExpired'
    <3> SUFFICES ASSUME NEW m \in Messages PROVE m \in refunds' <=> status'[m] \in Refundable
        BY DEF RefundIffFailedOrExpired
    <3>1. m \in refunds <=> status[m] \in Refundable
        BY ZenonT(40) DEF GatewayInv, RefundIffFailedOrExpired
    <3>2. CASE Untouched(m)
      <4>1. SameRow(m)
          BY <1>3, <3>2
      <4>. QED BY <3>1, <4>1 DEF SameRow
    <3>3. ASSUME NEW o \in O, o.msg = m PROVE m \in refunds' <=> status'[m] \in Refundable
      <4>1. Completed(o)
          BY <1>4
      <4>. QED BY Zenon, <1>6, <3>1, <3>3, <4>1 DEF Completed, Refundable
    <3>. QED BY <1>5, <3>2, <3>3
  <2>4. TimestampsConsistent'
    <3> SUFFICES ASSUME NEW m \in Messages
                 PROVE  /\ status'[m] = "sent" => sentAt'[m]
                        /\ status'[m] \in Terminal <=> completedAt'[m]
                        /\ sentAt'[m] => status'[m] \in {"sent", "delivered", "undelivered"} /\ m \notin queued'
        BY ZenonT(40) DEF TimestampsConsistent
    <3>1. /\ status[m] = "sent" => sentAt[m]
          /\ status[m] \in Terminal <=> completedAt[m]
          /\ sentAt[m] => status[m] \in {"sent", "delivered", "undelivered"} /\ m \notin queued
        BY ZenonT(40) DEF GatewayInv, TimestampsConsistent
    <3>2. CASE Untouched(m)
      <4>1. SameRow(m)
          BY <1>3, <3>2
      <4>. QED BY <3>1, <4>1 DEF SameRow
    <3>3. ASSUME NEW o \in O, o.msg = m
          PROVE  /\ status'[m] = "sent" => sentAt'[m]
                 /\ status'[m] \in Terminal <=> completedAt'[m]
                 /\ sentAt'[m] => status'[m] \in {"sent", "delivered", "undelivered"} /\ m \notin queued'
      <4>1. Completed(o) /\ m \in queued
          BY <1>2, <1>4, <3>3
      <4>. QED BY Zenon, <1>6, <3>1, <3>3, <4>1 DEF Completed, Kind, Terminal, Refundable
    <3>. QED BY ZenonT(40), <1>5, <3>2, <3>3
  <2>5. BreachRecorded'
    <3> SUFFICES ASSUME NEW m \in Messages
                 PROVE  /\ m \in Express /\ (status'[m] \in Refundable \/ (sentAt'[m] /\ late[m])) => breached'[m]
                        /\ breached'[m] => m \in Express
        BY ZenonT(40), <1>7 DEF BreachRecorded
    <3>1. /\ m \in Express /\ (status[m] \in Refundable \/ (sentAt[m] /\ late[m])) => breached[m]
          /\ breached[m] => m \in Express
        BY ZenonT(40) DEF GatewayInv, BreachRecorded
    <3>2. CASE Untouched(m)
      <4>1. SameRow(m)
          BY <1>3, <3>2
      <4>. QED BY <3>1, <4>1 DEF SameRow
    <3>3. ASSUME NEW o \in O, o.msg = m
          PROVE  /\ m \in Express /\ (status'[m] \in Refundable \/ (sentAt'[m] /\ late[m])) => breached'[m]
                 /\ breached'[m] => m \in Express
      <4>1. Completed(o)
          BY <1>4
      <4>. QED BY Zenon, <1>6, <3>1, <3>3, <4>1 DEF Completed, Refundable
    <3>. QED BY ZenonT(40), <1>5, <3>2, <3>3
  <2>. QED BY <2>2, <2>3, <2>4, <2>5 DEF RowInv
<1>11. FenceInv'
  <2>1. \A r \in jobs \cup outcomes : r.msg \in Messages /\ r.worker \in Workers /\ ClaimInv(r)
      BY Zenon DEF GatewayInv, TypeOK, Job, Outcome, LeaseInv
  <2>2. ASSUME NEW r \in jobs \cup outcomes, Holds(r)' PROVE Holds(r) /\ SameRow(r.msg)
    <3>1. ASSUME NEW o \in O, o.msg = r.msg PROVE FALSE
      <4>1. Completed(o)
          BY <1>4
      <4>2. owner'[r.msg] = NoWorker
          BY ZenonT(40), <3>1, <4>1 DEF Completed
      <4>3. owner'[r.msg] \in Workers
          BY ZenonT(40), <2>1, <2>2 DEF Holds
      <4>. QED BY Zenon, <4>2, <4>3, GatewayAssumption
    <3>2. SameRow(r.msg)
        BY ZenonT(40), <1>3, <1>5, <2>1, <3>1
    <3>. QED BY Zenon, <2>2, <3>2 DEF SameRow, Holds
  <2>3. AttemptsBounded'
    <3> SUFFICES ASSUME NEW m \in Messages
                 PROVE  /\ attempts'[m] <= MaxAttempts
                        /\ m \in queued' => attempts'[m] <= version'[m] /\ attempts'[m] < MaxAttempts
        BY ZenonT(40) DEF AttemptsBounded
    <3>1. /\ attempts[m] <= MaxAttempts /\ attempts[m] \in Nat /\ version[m] \in Nat /\ MaxAttempts \in Nat
          /\ m \in queued => attempts[m] <= version[m] /\ attempts[m] < MaxAttempts
        BY GatewayAssumption DEF GatewayInv, AttemptsBounded, TypeOK
    <3>2. CASE Untouched(m)
      <4>1. SameRow(m)
          BY <1>3, <3>2
      <4>. QED BY ZenonT(40), <3>1, <4>1 DEF SameRow
    <3>3. ASSUME NEW o \in O, o.msg = m
          PROVE  /\ attempts'[m] <= MaxAttempts
                 /\ m \in queued' => attempts'[m] <= version'[m] /\ attempts'[m] < MaxAttempts
      <4>1. o.snap = attempts[m] /\ attempts[m] < version[m] /\ m \in queued
          BY ZenonT(40), <1>2, <2>1, <3>3 DEF ClaimInv
      <4>2. o.kind = "retry" => attempts[m] + 1 < MaxAttempts
          BY ZenonT(40), <1>2, <4>1 DEF GatewayInv, LeaseInv
      <4>3. Completed(o)
          BY <1>4
      <4>4. attempts[m] < MaxAttempts /\ attempts[m] + 1 <= version[m]
          BY <3>1, <4>1
      <4>5. attempts'[m] = attempts[m] \/ attempts'[m] = attempts[m] + 1
          BY Zenon, <3>3, <4>3 DEF Completed
      <4>6. m \in queued' => version'[m] = version[m] /\ (o.kind = "retry" \/ attempts'[m] = attempts[m])
          BY ZenonT(40), <3>3, <4>3 DEF Completed
      <4>7. attempts'[m] <= MaxAttempts /\ attempts'[m] <= version[m]
          BY Zenon, <3>1, <4>4, <4>5, OneMore
      <4>8. m \in queued' => attempts'[m] < MaxAttempts
          BY Zenon, <3>1, <4>2, <4>4, <4>5, <4>6, RoomForMore
      <4>. QED BY ZenonT(40), <4>6, <4>7, <4>8
    <3>. QED BY ZenonT(40), <1>5, <3>2, <3>3
  <2>4. OneHolderWithCurrentSnapshot'
    <3>1. ASSUME NEW r \in jobs \cup outcomes, Holds(r)' PROVE attempts'[r.msg] = attempts[r.msg]
        BY Zenon, <2>2, <3>1 DEF SameRow
    <3>2. ASSUME NEW r \in jobs \cup outcomes, Holds(r)' PROVE Holds(r)
        BY ZenonT(40), <2>2, <3>2
    <3>. QED BY Zenon, <1>7, <3>1, <3>2 DEF GatewayInv, OneHolderWithCurrentSnapshot
  <2>5. ASSUME NEW r \in jobs \cup outcomes PROVE ClaimInv(r)'
    <3>1. status'[r.msg] = "none" <=> status[r.msg] = "none"
        BY Zenon, <1>9, <2>1
    <3>2. r.msg \in queued' => r.msg \in queued /\ version'[r.msg] = version[r.msg]
      <4>1. CASE Untouched(r.msg)
        <5>1. SameRow(r.msg)
            BY <1>3, <2>1, <4>1
        <5>. QED BY Zenon, <5>1 DEF SameRow
      <4>2. ASSUME NEW o \in O, o.msg = r.msg, r.msg \in queued'
            PROVE  r.msg \in queued /\ version'[r.msg] = version[r.msg]
        <5>1. Completed(o) /\ o.msg \in queued
            BY <1>2, <1>4
        <5>. QED BY Zenon, <4>2, <5>1 DEF Completed
      <4>. QED BY Zenon, <1>5, <2>1, <4>1, <4>2
    <3>3. Holds(r)' => /\ Holds(r) /\ attempts'[r.msg] = attempts[r.msg]
                       /\ version'[r.msg] = version[r.msg]
        BY Zenon, <2>2 DEF SameRow
    <3>4. /\ status'[r.msg] = "none" => Owner[r.msg] \in deleted'
          /\ r.msg \in queued' => r.version <= version'[r.msg]
          /\ r.snap < MaxAttempts
        BY ZenonT(40), <1>7, <2>1, <3>1, <3>2 DEF ClaimInv
    <3>5. Holds(r)' => r.snap = attempts'[r.msg] /\ attempts'[r.msg] < version'[r.msg]
        BY ZenonT(40), <2>1, <3>3 DEF ClaimInv
    <3>. QED BY ZenonT(40), <3>4, <3>5 DEF ClaimInv
  <2>6. ASSUME NEW m \in Messages, status'[m] = "none" PROVE attempts'[m] = 0
    <3>1. status[m] = "none" /\ Untouched(m)
        BY <1>5, <1>6, <1>9, <2>6
    <3>2. SameRow(m)
        BY ZenonT(40), <1>3, <3>1
    <3>. QED BY ZenonT(40), <3>1, <3>2 DEF SameRow, GatewayInv, LeaseInv
  <2>7. LeaseInv'
      BY <1>7, <2>5, <2>6 DEF GatewayInv, LeaseInv
  <2>. QED BY <2>3, <2>4, <2>7 DEF FenceInv
<1>. QED BY <1>8, <1>10, <1>11 DEF GatewayInv, RowInv, FenceInv

\* So does a flush, whether its answer arrives, is lost or never was
\* (completer.go flush).
LEMMA FlushInv ==
    ASSUME GatewayInv, NEW w \in Workers, FlushStep(w)
    PROVE  GatewayInv'
<1>1. PICK B \in SUBSET OutcomesOf(w) :
          FlushCommitted(w, B) \/ FlushUnacknowledged(w, B) \/ FlushDropped(w, B)
    BY DEF FlushStep
<1>2. CASE FlushCommitted(w, B)
    BY <1>2, CommitInv DEF FlushCommitted
<1>3. CASE FlushUnacknowledged(w, B)
    BY <1>3, CommitInv DEF FlushUnacknowledged
<1>4. CASE FlushDropped(w, B)
    BY <1>4, ForgetInv DEF FlushDropped
<1>. QED BY <1>1, <1>2, <1>3, <1>4

\* A crash only forgets claims and outcomes.
LEMMA CrashInv ==
    ASSUME GatewayInv, NEW w \in Workers, Crash(w)
    PROVE  GatewayInv'
BY ZenonT(40), ForgetInv DEF Crash

-----------------------------------------------------------------------------
(* Delivery reports, the sweeper and time.                                 *)

\* Reports move messages only out of accepted and sent, and touch no claim.
LEMMA ApplyReportsInv ==
    ASSUME GatewayInv, NEW R \in SUBSET PossibleReports, ApplyReports(R)
    PROVE  GatewayInv'
<1> DEFINE known == {r \in R : status[r.msg] \in Reportable}
           applied == {r.msg : r \in known}
           For(m) == CHOOSE r \in known : r.msg = m
<1>1. \A m \in applied : For(m) \in known /\ For(m).msg = m
    OBVIOUS
<1>2. R \subseteq Report
    BY ZenonT(40) DEF PossibleReports
<1>3. \A m \in applied : /\ m \in Messages /\ status[m] \in {"accepted", "sent"}
                         /\ For(m).status \in {"delivered", "undelivered"}
                         /\ For(m).provider \in Providers
    BY <1>1, <1>2 DEF Report, Reportable
<1>4. status' = [m \in Messages |-> IF m \in applied THEN For(m).status ELSE status[m]]
    BY Zenon DEF ApplyReports
<1>5. completedAt' = [m \in Messages |-> completedAt[m] \/ m \in applied]
    BY Zenon DEF ApplyReports
<1>6. /\ provider' = [m \in Messages |-> IF m \in applied /\ provider[m] = NoProvider
                                         THEN For(m).provider ELSE provider[m]]
      /\ providerRef' = [m \in Messages |-> IF m \in applied /\ providerRef[m] = NoProvider
                                            THEN For(m).provider ELSE providerRef[m]]
    BY Zenon DEF ApplyReports
<1>7. UNCHANGED <<ledgerVars, attempts, sentAt, breached, queueVars, clockVars, workerVars, taken>>
    BY ZenonT(40) DEF ApplyReports
<1> HIDE DEF known, applied, For
<1>8. LedgerTypeOK'
    BY ZenonT(40), <1>7 DEF ledgerVars, GatewayInv, TypeOK, LedgerTypeOK
<1>9. TypeOK'
  <2>1. status' \in [Messages -> Status]
      BY <1>3, <1>4 DEF GatewayInv, TypeOK, Status, Terminal
  <2>2. completedAt' \in [Messages -> BOOLEAN]
      BY ZenonT(40), <1>5
  <2>3. /\ provider' \in [Messages -> Providers \cup {NoProvider}]
        /\ providerRef' \in [Messages -> Providers \cup {NoProvider}]
      BY <1>3, <1>6 DEF GatewayInv, TypeOK
  <2>. QED BY ZenonT(40), <1>7, <1>8, <2>1, <2>2, <2>3 DEF GatewayInv, TypeOK, queueVars, clockVars, workerVars
<1>10. \A m \in Messages : IF m \in applied
           THEN /\ status[m] \in {"accepted", "sent"} /\ status'[m] \in {"delivered", "undelivered"}
                /\ completedAt'[m]
           ELSE status'[m] = status[m] /\ (completedAt'[m] <=> completedAt[m])
    BY Zenon, <1>3, <1>4, <1>5
<1>11. RowInv'
  <2>1. UNCHANGED <<debits, refunds, sentAt, breached, queued, late>>
      BY <1>7 DEF ledgerVars, queueVars, clockVars
  <2>2. QueueMatchesMessages'
    <3>1. debits' = {m \in Messages : status'[m] # "none"}
      <4>1. \A m \in Messages : status'[m] # "none" <=> status[m] # "none"
          BY ZenonT(40), <1>10
      <4>. QED BY ZenonT(40), <2>1, <4>1 DEF GatewayInv, QueueMatchesMessages
    <3>. QED BY ZenonT(40), <1>10, <2>1, <3>1 DEF GatewayInv, QueueMatchesMessages, TypeOK
  <2>3. RefundIffFailedOrExpired'
      BY SMTT(30), <1>10, <2>1 DEF GatewayInv, RefundIffFailedOrExpired, Refundable
  <2>4. TimestampsConsistent'
      BY ZenonT(40), <1>10, <2>1 DEF GatewayInv, TimestampsConsistent, Terminal
  <2>5. BreachRecorded'
      BY <1>10, <2>1 DEF GatewayInv, BreachRecorded, Refundable
  <2>. QED BY <2>2, <2>3, <2>4, <2>5 DEF RowInv
<1>12. FenceInv'
  <2>1. UNCHANGED <<customers, deleted, attempts, queued, owner, version, jobs, outcomes>>
      BY ZenonT(40), <1>7 DEF ledgerVars, queueVars, workerVars
  <2>2. \A m \in Messages : status'[m] = "none" <=> status[m] = "none"
      BY <1>10
  <2>3. \A r \in jobs \cup outcomes : r.msg \in Messages
      BY ZenonT(40) DEF GatewayInv, TypeOK, Job, Outcome
  <2>4. \A r \in jobs \cup outcomes : ClaimInv(r) => ClaimInv(r)'
      BY <2>1, <2>2, <2>3 DEF ClaimInv, Holds
  <2>5. AttemptsBounded' /\ OneHolderWithCurrentSnapshot'
      BY Zenon, <2>1 DEF GatewayInv, AttemptsBounded, OneHolderWithCurrentSnapshot, Holds
  <2>6. LeaseInv'
      BY Zenon, <2>1, <2>2, <2>4 DEF GatewayInv, LeaseInv
  <2>. QED BY ZenonT(40), <2>5, <2>6 DEF FenceInv
<1>. QED BY ZenonT(40), <1>9, <1>11, <1>12 DEF GatewayInv, RowInv, FenceInv

\* Removing queue rows of messages that are not accepted any more afterwards.
LEMMA ClearedRows ==
    ASSUME GatewayInv, NEW S \in SUBSET queued, ClearQueueRows(S),
           UNCHANGED <<customers, deleted, attempts, jobs, outcomes>>,
           \A m \in Messages : status'[m] = "none" <=> status[m] = "none"
    PROVE  /\ FenceInv'
           /\ queued' \subseteq Messages /\ owner' \in [Messages -> Workers \cup {NoWorker}]
           /\ version' \in [Messages -> Nat] /\ due' \in [Messages -> BOOLEAN]
<1>1. queued' = queued \ S /\ \A m \in Messages : m \notin S => owner'[m] = owner[m] /\ version'[m] = version[m]
    BY DEF ClearQueueRows, Cleared
<1>2. \A r \in jobs \cup outcomes : r.msg \in Messages
    BY Zenon DEF GatewayInv, TypeOK, Job, Outcome
<1>3. \A r \in jobs \cup outcomes : Holds(r)' => Holds(r) /\ r.msg \notin S
    BY Zenon, <1>1, <1>2 DEF Holds
<1>4. \A r \in jobs \cup outcomes : ClaimInv(r) => ClaimInv(r)'
    BY Zenon, <1>1, <1>2, <1>3 DEF ClaimInv
<1>5. AttemptsBounded'
    BY Zenon, <1>1 DEF GatewayInv, AttemptsBounded
<1>6. OneHolderWithCurrentSnapshot'
    BY ZenonT(40), <1>3 DEF GatewayInv, OneHolderWithCurrentSnapshot
<1>7. LeaseInv'
    BY Zenon, <1>4 DEF GatewayInv, LeaseInv
<1>8. /\ queued' \subseteq Messages /\ owner' \in [Messages -> Workers \cup {NoWorker}]
      /\ version' \in [Messages -> Nat] /\ due' \in [Messages -> BOOLEAN]
    BY ZenonT(40) DEF ClearQueueRows, Cleared, GatewayInv, TypeOK
<1>. QED BY ZenonT(40), <1>5, <1>6, <1>7, <1>8 DEF FenceInv

\* Removing orphans keeps the invariant (sweeper tasks.go removeOrphans).
LEMMA SweepOrphansInv ==
    ASSUME GatewayInv, NEW S \in SUBSET queued, SweepOrphans(S)
    PROVE  GatewayInv'
<1>1. /\ ClearQueueRows(S) /\ UNCHANGED <<ledgerVars, messageVars, clockVars, workerVars, taken>>
      /\ \A m \in S : status[m] # "accepted"
    BY ZenonT(40) DEF SweepOrphans, Orphan
<1>2. /\ FenceInv'
      /\ queued' \subseteq Messages /\ owner' \in [Messages -> Workers \cup {NoWorker}]
      /\ version' \in [Messages -> Nat] /\ due' \in [Messages -> BOOLEAN]
    BY ZenonT(40), <1>1, ClearedRows DEF ledgerVars, messageVars, workerVars
<1>3. LedgerTypeOK'
    BY ZenonT(40), <1>1 DEF ledgerVars, GatewayInv, TypeOK, LedgerTypeOK
<1>4. TypeOK'
    BY <1>1, <1>2, <1>3 DEF GatewayInv, TypeOK, messageVars, clockVars, workerVars
<1>5. RowInv'
    BY ZenonT(40), <1>1 DEF ClearQueueRows, GatewayInv, RowInv, QueueMatchesMessages, RefundIffFailedOrExpired,
           TimestampsConsistent, BreachRecorded, ledgerVars, messageVars, clockVars
<1>. QED BY <1>2, <1>4, <1>5 DEF GatewayInv, RowInv, FenceInv

\* Expiry keeps the invariant (sweeper tasks.go expire).
LEMMA SweepExpireInv ==
    ASSUME GatewayInv, NEW S \in SUBSET queued, SweepExpire(S)
    PROVE  GatewayInv'
<1> DEFINE E == {m \in S : status[m] = "accepted"}
<1>1. E \in SUBSET queued /\ E \in SUBSET Messages /\ \A m \in E : status[m] = "accepted"
    BY DEF GatewayInv, TypeOK
<1>2. /\ status' = Cleared(status, E, "expired") /\ completedAt' = Cleared(completedAt, E, TRUE)
      /\ breached' = Cleared(breached, E \cap Express, TRUE)
      /\ refunds' = refunds \cup E
      /\ balance' = [c \in Customers |-> balance[c] + TotalCost(Of(c, E \ refunds))]
      /\ ClearQueueRows(E)
      /\ UNCHANGED <<customers, deleted, charges, debits, attempts, sentAt, provider, providerRef,
                     clockVars, workerVars, taken>>
    BY Zenon DEF SweepExpire, ApplyRefunds
<1> HIDE DEF E
<1>3. \A m \in Messages : IF m \in E
          THEN status'[m] = "expired" /\ completedAt'[m] /\ (breached'[m] <=> breached[m] \/ m \in Express)
          ELSE /\ status'[m] = status[m] /\ (completedAt'[m] <=> completedAt[m])
               /\ (breached'[m] <=> breached[m])
    BY Zenon, <1>2 DEF Cleared
<1>4. /\ FenceInv'
      /\ queued' \subseteq Messages /\ owner' \in [Messages -> Workers \cup {NoWorker}]
      /\ version' \in [Messages -> Nat] /\ due' \in [Messages -> BOOLEAN]
  <2>1. \A m \in Messages : status'[m] = "none" <=> status[m] = "none"
      BY Zenon, <1>1, <1>3
  <2>. QED BY Zenon, <1>1, <1>2, <2>1, ClearedRows DEF workerVars
<1>5. LedgerTypeOK'
  <2>1. \A c \in Customers : TotalCost(Of(c, E \ refunds)) \in Nat
      BY ZenonT(40), <1>1, OfSubset
  <2>2. \A c \in Customers : balance[c] \in Nat
      BY ZenonT(40) DEF GatewayInv, TypeOK, LedgerTypeOK
  <2>3. \A c \in Customers : balance[c] + TotalCost(Of(c, E \ refunds)) \in Nat
      BY <2>1, <2>2
  <2>4. balance' \in [Customers -> Nat]
      BY Zenon, <1>2, <2>3
  <2>. QED BY Zenon, <1>1, <1>2, <2>4 DEF GatewayInv, TypeOK, LedgerTypeOK
<1>6. TypeOK'
  <2>1. status' \in [Messages -> Status]
      BY <1>2 DEF Cleared, GatewayInv, TypeOK, Status, Terminal
  <2>2. completedAt' \in [Messages -> BOOLEAN] /\ breached' \in [Messages -> BOOLEAN]
      BY Zenon, <1>2 DEF Cleared, GatewayInv, TypeOK
  <2>. QED BY ZenonT(40), <1>2, <1>4, <1>5, <2>1, <2>2 DEF GatewayInv, TypeOK, clockVars, workerVars
<1>7. RowInv'
  <2>1. queued' = queued \ E /\ late' = late /\ sentAt' = sentAt /\ debits' = debits /\ refunds' = refunds \cup E
      BY Zenon, <1>2 DEF ClearQueueRows, clockVars
  <2>2. QueueMatchesMessages'
    <3>1. \A m \in Messages : status'[m] # "none" <=> status[m] # "none"
        BY ZenonT(40), <1>1, <1>3
    <3>2. debits' = {m \in Messages : status'[m] # "none"}
        BY <2>1, <3>1 DEF GatewayInv, QueueMatchesMessages
    <3>. QED BY Zenon, <1>1, <1>3, <2>1, <3>2 DEF GatewayInv, QueueMatchesMessages, TypeOK
  <2>3. RefundIffFailedOrExpired'
      BY ZenonT(40), <1>3, <2>1 DEF GatewayInv, RefundIffFailedOrExpired, Refundable
  <2>4. TimestampsConsistent'
      BY ZenonT(40), <1>1, <1>3, <2>1 DEF GatewayInv, TimestampsConsistent, Terminal
  <2>5. BreachRecorded'
      BY Zenon, <1>3, <2>1 DEF GatewayInv, BreachRecorded, Refundable
  <2>. QED BY <2>2, <2>3, <2>4, <2>5 DEF RowInv
<1>. QED BY <1>4, <1>6, <1>7 DEF GatewayInv, RowInv, FenceInv

\* Flagging late Express messages keeps the invariant
\* (sweeper tasks.go flagSLA).
LEMMA SweepFlagSLAInv ==
    ASSUME GatewayInv, NEW S \in SUBSET queued, SweepFlagSLA(S)
    PROVE  GatewayInv'
<1>1. /\ breached' = Cleared(breached, S, TRUE) /\ \A m \in S : m \in Express
      /\ UNCHANGED <<ledgerVars, status, attempts, sentAt, completedAt, provider, providerRef,
                     queueVars, clockVars, workerVars, taken>>
    BY ZenonT(40) DEF SweepFlagSLA
<1>2. LedgerTypeOK'
    BY <1>1 DEF ledgerVars, GatewayInv, TypeOK, LedgerTypeOK
<1>3. breached' \in [Messages -> BOOLEAN] /\ \A m \in Messages : breached'[m] <=> breached[m] \/ m \in S
    BY Zenon, <1>1 DEF Cleared, GatewayInv, TypeOK
<1>4. TypeOK'
    BY Zenon, <1>1, <1>2, <1>3 DEF GatewayInv, TypeOK, queueVars, clockVars, workerVars
<1>5. RowInv'
    BY ZenonT(40), <1>1, <1>3 DEF GatewayInv, RowInv, QueueMatchesMessages, RefundIffFailedOrExpired,
           TimestampsConsistent, BreachRecorded, ledgerVars, queueVars, clockVars
<1>6. FenceInv'
    BY ZenonT(40), <1>1, FenceFrame DEF GatewayInv, FenceInv, fenceVars, ledgerVars, queueVars, workerVars
<1>. QED BY <1>4, <1>5, <1>6 DEF GatewayInv, RowInv, FenceInv

\* Deadlines may pass at any time.
LEMMA TimeInv ==
    ASSUME GatewayInv, NEW m \in Messages, Elapse(m) \/ PassTTL(m) \/ PassSLA(m)
    PROVE  GatewayInv'
<1>1. UNCHANGED <<ledgerVars, messageVars, queued, owner, version, workerVars, taken>>
    BY ZenonT(40) DEF Elapse, PassTTL, PassSLA, queueVars
<1>2. LedgerTypeOK'
    BY <1>1 DEF ledgerVars, GatewayInv, TypeOK, LedgerTypeOK
<1>3. TypeOK'
    BY ZenonT(40), <1>1, <1>2 DEF Elapse, PassTTL, PassSLA, GatewayInv, TypeOK, messageVars, queueVars, clockVars, workerVars
<1>4. \A n \in Messages : n \notin queued => late'[n] = late[n]
    BY DEF Elapse, PassTTL, PassSLA, clockVars, GatewayInv, TypeOK
<1>5. RowInv'
    BY ZenonT(40), <1>1, <1>4 DEF GatewayInv, RowInv, QueueMatchesMessages, RefundIffFailedOrExpired,
           TimestampsConsistent, BreachRecorded, ledgerVars, messageVars
<1>6. FenceInv'
    BY ZenonT(40), <1>1, FenceFrame DEF GatewayInv, FenceInv, fenceVars, ledgerVars, messageVars, workerVars
<1>. QED BY ZenonT(40), <1>3, <1>5, <1>6 DEF GatewayInv, RowInv, FenceInv

-----------------------------------------------------------------------------
\* Every step of the gateway keeps the invariant.
LEMMA StepInv == GatewayInv /\ [Next]_vars => GatewayInv'
<1> SUFFICES ASSUME GatewayInv, [Next]_vars PROVE GatewayInv'
    OBVIOUS
<1>1. CASE UNCHANGED vars
    BY ZenonT(40), <1>1, ForgetInv DEF vars, workerVars
<1>2. CASE CustomerStep
    BY <1>2, CreateCustomerInv, DeleteCustomerInv, AddCreditsInv, AcceptInv DEF CustomerStep
<1>3. ASSUME NEW w \in Workers, NEW S \in SUBSET queued, Claim(w, S) PROVE GatewayInv'
    BY <1>3, ClaimStepInv
<1>4. ASSUME NEW w \in Workers, FlushStep(w) \/ Crash(w) PROVE GatewayInv'
    BY <1>4, FlushInv, CrashInv
<1>5. ASSUME NEW j \in jobs, DispatchStep(j) \/ ProviderStep(j) PROVE GatewayInv'
    BY <1>5, DispatchInv
<1>6. ASSUME NEW R \in SUBSET PossibleReports, ApplyReports(R) PROVE GatewayInv'
    BY <1>6, ApplyReportsInv
<1>7. CASE SweepStep
    BY <1>7, SweepExpireInv, SweepFlagSLAInv, SweepOrphansInv DEF SweepStep
<1>8. CASE TimeStep
    BY <1>8, TimeInv DEF TimeStep
<1>. QED BY <1>1, <1>2, <1>3, <1>4, <1>5, <1>6, <1>7, <1>8 DEF Next

\* Every behaviour keeps the inductive invariant.
THEOREM GatewayInvariant == Spec => []GatewayInv
<1>. QED BY InitInv, StepInv, PTL DEF Spec

\* Exactly the failed and expired messages are refunded, for any number of
\* workers, messages and lost, repeated or late commits.
THEOREM RefundsExact == Spec => []RefundIffFailedOrExpired
<1>1. GatewayInv => RefundIffFailedOrExpired
    BY DEF GatewayInv
<1>. QED BY <1>1, GatewayInvariant, PTL

\* At most one claim holds a lease and its attempt count is current.
THEOREM LeaseExclusive == Spec => []OneHolderWithCurrentSnapshot
<1>1. GatewayInv => OneHolderWithCurrentSnapshot
    BY DEF GatewayInv
<1>. QED BY <1>1, GatewayInvariant, PTL

\* No message is attempted more often than the policy allows, and no lease
\* counts more than one attempt.
THEOREM AttemptsStayBounded == Spec => []AttemptsBounded
<1>1. GatewayInv => AttemptsBounded
    BY ZenonT(40) DEF GatewayInv
<1>. QED BY <1>1, GatewayInvariant, PTL

-----------------------------------------------------------------------------
(* Refinement: every step of Gateway is a step of Ledger or leaves it alone. *)

\* A transaction that refunds accepted messages is the ledger's Refund.
LEMMA RefundIsLedgerStep ==
    ASSUME GatewayInv, NEW S \in SUBSET Messages, \A m \in S : status[m] = "accepted",
           ApplyRefunds(S), UNCHANGED <<customers, deleted, charges, debits>>
    PROVE  LedgerNext
<1>1. S \in SUBSET debits
    BY DEF GatewayInv, QueueMatchesMessages
<1>2. Refund(S)
    BY ZenonT(40), <1>1 DEF Refund
<1>. QED BY ZenonT(40), <1>1, <1>2 DEF LedgerNext

\* Every step of the gateway is a step of the ledger or leaves it alone.
LEMMA StepRefinesLedger == GatewayInv /\ [Next]_vars => [LedgerNext]_ledgerVars
<1> SUFFICES ASSUME GatewayInv, [Next]_vars PROVE [LedgerNext]_ledgerVars
    OBVIOUS
<1>1. CASE UNCHANGED vars
    BY <1>1 DEF vars
<1>2. ASSUME NEW c \in Customers, CreateCustomer(c) PROVE LedgerNext
    BY <1>2 DEF CreateCustomer, LedgerNext
<1>3. ASSUME NEW c \in Customers, DeleteCustomer(c) PROVE LedgerNext
    BY Zenon, <1>3 DEF DeleteCustomer, LedgerNext
<1>4. ASSUME NEW c \in Customers, NEW r \in ChargeRefs, NEW a \in Amounts, AddCredits(c, r, a)
      PROVE  LedgerNext
    BY ZenonT(40), <1>4 DEF AddCredits, LedgerNext
<1>5. ASSUME NEW c \in Customers, NEW S \in SUBSET Of(c, Messages), Accept(c, S) PROVE LedgerNext
  <2>1. S \in SUBSET Of(c, Messages \ debits)
      BY Zenon, <1>5 DEF Accept, Fresh, Of, GatewayInv, QueueMatchesMessages
  <2>2. Debit(c, S)
      BY ZenonT(40), <1>5 DEF Accept
  <2>. QED BY <2>1, <2>2 DEF LedgerNext
<1>6. ASSUME NEW w \in Workers, NEW S \in SUBSET queued, Claim(w, S) PROVE UNCHANGED ledgerVars
    BY ZenonT(40), <1>6 DEF Claim
<1>7. ASSUME NEW w \in Workers, FlushStep(w) PROVE [LedgerNext]_ledgerVars
  <2>1. PICK B \in SUBSET OutcomesOf(w) :
            FlushCommitted(w, B) \/ FlushUnacknowledged(w, B) \/ FlushDropped(w, B)
      BY ZenonT(40), <1>7 DEF FlushStep
  <2>2. CASE Commit(w, B)
    <3>1. PICK O : O = LockOwned(w, B)
        BY ZenonT(40)
    <3>2. \A o \in O : o.msg \in Messages
        BY ZenonT(40), <3>1, OwnedOutcomes
    <3>3. RecordTerminal(O) \in SUBSET Messages /\ \A m \in RecordTerminal(O) : status[m] = "accepted"
        BY ZenonT(40), <3>2 DEF RecordTerminal, MsgsOf
    <3>4. ApplyRefunds(RecordTerminal(O)) /\ UNCHANGED <<customers, deleted, charges, debits>>
        BY <2>2, <3>1 DEF Commit
    <3>. QED BY Zenon, <3>3, <3>4, RefundIsLedgerStep
  <2>3. CASE FlushDropped(w, B)
      BY <2>3 DEF FlushDropped
  <2>. QED BY ZenonT(40), <2>1, <2>2, <2>3 DEF FlushCommitted, FlushUnacknowledged
<1>8. ASSUME NEW w \in Workers, Crash(w) PROVE UNCHANGED ledgerVars
    BY <1>8 DEF Crash
<1>9. ASSUME NEW j \in jobs, DispatchStep(j) \/ ProviderStep(j) PROVE UNCHANGED ledgerVars
    BY Zenon, <1>9 DEF DispatchStep, ProviderStep, DispatchExpired, DispatchNoProvider, DispatchPick,
           DispatchLeaseOver, DispatchSend, DispatchSent, DispatchFailed, DispatchRetry, DispatchCutOff,
           ProviderAccepts, ProviderRejects, Finish, Advance
<1>10. ASSUME NEW R \in SUBSET PossibleReports, ApplyReports(R) PROVE UNCHANGED ledgerVars
    BY Zenon, <1>10 DEF ApplyReports
<1>11. ASSUME NEW S \in SUBSET queued, SweepExpire(S) PROVE LedgerNext
  <2> DEFINE E == {m \in S : status[m] = "accepted"}
  <2>1. E \in SUBSET Messages /\ \A m \in E : status[m] = "accepted"
      BY DEF GatewayInv, TypeOK
  <2>2. ApplyRefunds(E) /\ UNCHANGED <<customers, deleted, charges, debits>>
      BY Zenon, <1>11 DEF SweepExpire
  <2>. QED BY ZenonT(40), <2>1, <2>2, RefundIsLedgerStep
<1>12. ASSUME NEW S \in SUBSET queued, SweepFlagSLA(S) \/ SweepOrphans(S) PROVE UNCHANGED ledgerVars
    BY ZenonT(40), <1>12 DEF SweepFlagSLA, SweepOrphans
<1>13. CASE TimeStep
    BY <1>13 DEF TimeStep, Elapse, PassTTL, PassSLA
<1>. QED BY <1>1, <1>2, <1>3, <1>4, <1>5, <1>6, <1>7, <1>8, <1>9, <1>10, <1>11, <1>12, <1>13
         DEF Next, CustomerStep, SweepStep

\* The gateway implements the ledger: acceptance is its Debit, every refund
\* the completer or the sweeper makes is its Refund of existing debits.
THEOREM ImplementsLedger == Spec => LedgerSpec
<1>1. Init => LedgerInit
    BY DEF Init
<1>. QED BY <1>1, GatewayInvariant, StepRefinesLedger, PTL DEF Spec, LedgerSpec

\* Hence, in the whole system, balances equal the sum of their transactions.
THEOREM GatewayBalancesMatch == Spec => []BalanceMatchesTransactions
<1>. QED BY ImplementsLedger, BalancesMatch, PTL

-----------------------------------------------------------------------------
(* Action properties.                                                      *)

Moved(m) ==
    status'[m] # status[m] =>
        \/ status[m] = "none" /\ status'[m] = "accepted"
        \/ status[m] = "accepted" /\ status'[m] \in {"sent"} \cup Terminal
        \/ status[m] = "sent" /\ status'[m] \in {"delivered", "undelivered"}
        \/ status'[m] = "none" /\ Owner[m] \notin customers'

Respected(m) ==
    m \in queued /\ InFlight(m) =>
        \/ m \in queued' /\ owner'[m] = owner[m] /\ version'[m] = version[m]
        \/ \E o \in outcomes : Holds(o) /\ o.msg = m
        \/ Owner[m] \notin customers'

\* Every step moves a status along the lifecycle and respects live leases.
LEMMA StepMoves ==
    ASSUME GatewayInv, [Next]_vars, NEW m \in Messages
    PROVE  Moved(m) /\ Respected(m)
<1>1. CASE UNCHANGED <<messageVars, queued, owner, version>>
    BY Zenon, <1>1 DEF Moved, Respected, messageVars
<1>2. CASE UNCHANGED vars
    BY ZenonT(40), <1>1, <1>2 DEF vars, queueVars
<1>3. ASSUME NEW c \in Customers, CreateCustomer(c) PROVE Moved(m) /\ Respected(m)
    BY ZenonT(40), <1>1, <1>3 DEF CreateCustomer, queueVars
<1>4. ASSUME NEW c \in Customers, NEW r \in ChargeRefs, NEW a \in Amounts, AddCredits(c, r, a)
      PROVE  Moved(m) /\ Respected(m)
    BY <1>1, <1>4 DEF AddCredits, queueVars
<1>5. ASSUME NEW c \in Customers, DeleteCustomer(c) PROVE Moved(m) /\ Respected(m)
  <2>1. CASE Owner[m] = c
      BY Zenon, <1>5, <2>1 DEF DeleteCustomer, Delete, Cleared, Of, Moved, Respected
  <2>2. CASE Owner[m] # c
      BY Zenon, <1>5, <2>2 DEF DeleteCustomer, Cleared, ClearQueueRows, Of, Moved, Respected
  <2>. QED BY <2>1, <2>2
<1>6. ASSUME NEW c \in Customers, NEW S \in SUBSET Of(c, Messages), Accept(c, S)
      PROVE  Moved(m) /\ Respected(m)
    BY Zenon, <1>6 DEF Accept, Fresh, Moved, Respected
<1>7. ASSUME NEW w \in Workers, NEW S \in SUBSET queued, Claim(w, S) PROVE Moved(m) /\ Respected(m)
  <2>1. m \in S => ~InFlight(m)
      BY Zenon, <1>7 DEF Claim, Ready, InFlight
  <2>2. m \notin S => owner'[m] = owner[m] /\ version'[m] = version[m]
      BY Zenon, <1>7 DEF Claim, Cleared
  <2>. QED BY Zenon, <1>7, <2>1, <2>2 DEF Claim, Moved, Respected, messageVars
<1>8. ASSUME NEW w \in Workers, FlushStep(w) PROVE Moved(m) /\ Respected(m)
  <2>1. PICK B \in SUBSET OutcomesOf(w) :
            FlushCommitted(w, B) \/ FlushUnacknowledged(w, B) \/ FlushDropped(w, B)
      BY ZenonT(40), <1>8 DEF FlushStep
  <2>2. CASE FlushDropped(w, B)
      BY <1>1, <2>2 DEF FlushDropped, queueVars
  <2>3. CASE Commit(w, B)
    <3>1. PICK O : O = LockOwned(w, B)
        OBVIOUS
    <3>2. CASE \A o \in O : o.msg # m
      <4>1. SameRow(m)
          BY <2>3, <3>1, <3>2, CommitEffect
      <4>. QED BY Zenon, <4>1 DEF SameRow, Moved, Respected
    <3>3. ASSUME NEW o \in O, o.msg = m PROVE Moved(m) /\ Respected(m)
      <4>1. Holds(o) /\ o \in outcomes
          BY <3>1, OwnedOutcomes
      <4>2. Completed(o)
          BY Zenon, <2>3, <3>1, CommitEffect
      <4>3. Moved(m)
          BY Zenon, <3>3, <4>2 DEF Completed, Moved, Refundable, Terminal
      <4>4. Respected(m)
          BY ZenonT(40), <3>3, <4>1 DEF Respected
      <4>. QED BY ZenonT(40), <4>3, <4>4
    <3>. QED BY <3>2, <3>3
  <2>. QED BY <2>1, <2>2, <2>3 DEF FlushCommitted, FlushUnacknowledged
<1>9. ASSUME NEW w \in Workers, Crash(w) PROVE Moved(m) /\ Respected(m)
    BY <1>1, <1>9 DEF Crash, queueVars
<1>10. ASSUME NEW j \in jobs, DispatchStep(j) \/ ProviderStep(j) PROVE Moved(m) /\ Respected(m)
  <2>1. UNCHANGED <<messageVars, queueVars>>
      BY Zenon, <1>10 DEF DispatchStep, ProviderStep, DispatchExpired, DispatchNoProvider, DispatchPick,
             DispatchLeaseOver, DispatchSend, DispatchSent, DispatchFailed, DispatchRetry,
             DispatchCutOff, ProviderAccepts, ProviderRejects, Finish, Advance
  <2>. QED BY <1>1, <2>1 DEF queueVars
<1>11. ASSUME NEW R \in SUBSET PossibleReports, ApplyReports(R) PROVE Moved(m) /\ Respected(m)
  <2> DEFINE known == {r \in R : status[r.msg] \in Reportable}
             For == CHOOSE r \in known : r.msg = m
  <2>1. CASE \E r \in known : r.msg = m
    <3>1. For \in known /\ For.msg = m
        BY <2>1
    <3>2. For.status \in {"delivered", "undelivered"} /\ status[m] \in {"accepted", "sent"}
        BY Zenon, <3>1 DEF PossibleReports, Report, Reportable
    <3>3. status'[m] = For.status
        BY Zenon, <1>11, <2>1 DEF ApplyReports
    <3>. QED BY ZenonT(40), <1>11, <3>2, <3>3 DEF ApplyReports, Moved, Respected, queueVars, Terminal
  <2>2. CASE ~ \E r \in known : r.msg = m
      BY Zenon, <1>11, <2>2 DEF ApplyReports, Moved, Respected, queueVars
  <2>. QED BY Zenon, <2>1, <2>2
<1>12. ASSUME NEW S \in SUBSET queued, SweepExpire(S) PROVE Moved(m) /\ Respected(m)
  <2>1. m \in S => ~InFlight(m)
      BY Zenon, <1>12 DEF SweepExpire, Expirable
  <2>. QED BY Zenon, <1>12, <2>1 DEF SweepExpire, Cleared, ClearQueueRows, Moved, Respected, Terminal
<1>13. ASSUME NEW S \in SUBSET queued, SweepFlagSLA(S) PROVE Moved(m) /\ Respected(m)
    BY Zenon, <1>13 DEF SweepFlagSLA, Moved, Respected, queueVars
<1>14. ASSUME NEW S \in SUBSET queued, SweepOrphans(S) PROVE Moved(m) /\ Respected(m)
  <2>1. m \in S => ~InFlight(m)
      BY ZenonT(40), <1>14 DEF SweepOrphans, Orphan
  <2>. QED BY Zenon, <1>14, <2>1 DEF SweepOrphans, Cleared, ClearQueueRows, Moved, Respected, messageVars
<1>15. CASE TimeStep
    BY <1>1, <1>15 DEF TimeStep, Elapse, PassTTL, PassSLA, queueVars
<1>. QED BY Zenon, <1>2, <1>3, <1>4, <1>5, <1>6, <1>7, <1>8, <1>9, <1>10, <1>11, <1>12, <1>13, <1>14, <1>15
         DEF Next, CustomerStep, SweepStep

\* Statuses move only along the lifecycle, whoever moves them.
THEOREM LifecycleKept == Spec => StatusMoves
<1>1. GatewayInv /\ [Next]_vars => [\A m \in Messages : Moved(m)]_vars
    BY StepMoves
<1>2. Spec => [][\A m \in Messages : Moved(m)]_vars
    BY <1>1, GatewayInvariant, PTL DEF Spec
<1>. QED BY <1>2 DEF StatusMoves, Moved

\* No sweeper task, claim or other worker takes a message from a live lease.
THEOREM LeasesRespected == Spec => LiveLeaseIsRespected
<1>1. GatewayInv /\ [Next]_vars => [\A m \in Messages : Respected(m)]_vars
    BY StepMoves
<1>2. GatewayInv /\ [Next]_vars =>
        [\A m \in queued : InFlight(m) =>
          \/ m \in queued' /\ owner'[m] = owner[m] /\ version'[m] = version[m]
          \/ \E o \in outcomes : Holds(o) /\ o.msg = m
          \/ Owner[m] \notin customers']_vars
    BY Zenon, <1>1 DEF Respected, GatewayInv, TypeOK
<1>. QED BY <1>2, GatewayInvariant, PTL DEF Spec, LiveLeaseIsRespected
=============================================================================
