----------------------------- MODULE Acceptance -----------------------------
(* Submitting messages: the handlers of internal/api/messages.go and        *)
(* Service.accept of internal/message/accept.go, for one customer.          *)
(*                                                                          *)
(* A request is a sequence of items.  The handler authenticates it and      *)
(* takes its tokens; accept validates it, runs the accept                   *)
(* transaction, and, when the INSERT ... ON CONFLICT DO NOTHING skipped a   *)
(* row, rolls back and reads the existing rows to tell a replay from a      *)
(* conflict.  The INSERT is modelled row by row, since that is where        *)
(* concurrent requests meet: a row whose client_ref another open            *)
(* transaction has inserted makes the statement wait for that transaction   *)
(* (the unique index messages_customer_client_ref_key).  Several waiting    *)
(* requests may form a cycle, which PostgreSQL breaks by aborting one.      *)
EXTENDS Integers, Sequences, FiniteSets, SequencesExt, FiniteSetsExt

CONSTANTS
    Requests,      \* calls of accept
    Refs,          \* client_ref values
    NoRef,         \* an item without a client_ref
    Bodies,        \* what sameRequest compares: recipient, text and type
    Segments,      \* Segments[b]: the segments of its text (Count of module Segment)
    PerSegment,    \* PerSegment[b]: the price of a segment of its type
    MaxSegments,   \* Config.MaxSegments
    MaxItems,      \* bound: items per request
    Credits,       \* the customer's balance at the start
    None           \* no row, no request

ASSUME AcceptanceAssumption ==
    /\ NoRef \notin Refs
    /\ Segments \in [Bodies -> Nat] /\ PerSegment \in [Bodies -> Nat \ {0}]
    /\ MaxItems \in Nat \ {0}
    /\ Credits \in Nat

\* accept.go:81 "for range 3"
MaxTries == 3

VARIABLES
    items,      \* items[r]: the items of request r
    pc,         \* where request r is
    next,       \* next[r]: the item the INSERT of r looks at
    inserted,   \* inserted[r]: the items r's open transaction has inserted
    tries,      \* tries[r]: iterations of the loop in accept
    answer,     \* answer[r]: what the caller of accept is told
    customer,   \* the customers row: not yet there, there, or deleted
    balance,    \* its balance
    rows,       \* rows[f]: the committed message with client_ref f
    plain,      \* committed messages without a client_ref, as <<request, item>>
    repeats     \* history: requests that repeated committed rows when they began

vars == <<items, pc, next, inserted, tries, answer, customer, balance, rows,
          plain, repeats>>

Item == [ref : Refs \cup {NoRef}, body : Bodies]
Row == [body : Bodies, by : Requests]

Stage == {"idle", "accept", "insert", "charge", "resolve", "answered"}
Answer == {"unauthorized", "limited", "invalid", "accepted", "replayed", "conflict", "insufficient",
           "notfound", "unsettled", "error"}

\* The price of a body.
Cost == [b \in Bodies |-> PerSegment[b] * Segments[b]]

Item0(r) == items[r][next[r]]
Total(r) == FoldSeq(LAMBDA it, sum : Cost[it.body] + sum, 0, items[r])

TypeOK ==
    /\ items \in [Requests -> BoundedSeq(Item, MaxItems)]
    /\ pc \in [Requests -> Stage]
    /\ next \in [Requests -> 1 .. (MaxItems + 1)]
    /\ inserted \in [Requests -> SUBSET (1 .. MaxItems)]
    /\ tries \in [Requests -> 0 .. MaxTries]
    /\ answer \in [Requests -> Answer \cup {None}]
    /\ customer \in {"absent", "present", "deleted"}
    /\ balance \in 0 .. Credits
    /\ rows \in [Refs -> Row \cup {None}]
    /\ plain \subseteq Requests \X (1 .. MaxItems)
    /\ repeats \subseteq Requests

Init ==
    /\ items \in [Requests -> {s \in BoundedSeq(Item, MaxItems) : s # <<>>}]
    /\ pc = [r \in Requests |-> "idle"]
    /\ next = [r \in Requests |-> 1]
    /\ inserted = [r \in Requests |-> {}]
    /\ tries = [r \in Requests |-> 0]
    /\ answer = [r \in Requests |-> None]
    /\ customer = "absent"
    /\ balance = 0
    /\ rows = [f \in Refs |-> None]
    /\ plain = {}
    /\ repeats = {}

------------------------------------------------------------------------------
(* Steps of a request *)

\* The transaction, if one is open, ends without effect and r is answered.
Reply(r, what) ==
    /\ pc' = [pc EXCEPT ![r] = "answered"]
    /\ answer' = [answer EXCEPT ![r] = what]
    /\ inserted' = [inserted EXCEPT ![r] = {}]

\* One iteration of the loop begins: a new accept transaction.
Attempt(r) ==
    /\ pc' = [pc EXCEPT ![r] = "insert"]
    /\ next' = [next EXCEPT ![r] = 1]
    /\ tries' = [tries EXCEPT ![r] = @ + 1]

\* Every item has a client_ref whose committed row came from the same request
\* (sameRequest): the replay condition of resolveExisting.
AllMatch(r) ==
    \A it \in ToSet(items[r]) :
        it.ref # NoRef /\ rows[it.ref] # None /\ rows[it.ref].body = it.body

\* prepare: texts are neither empty nor too long, and no client_ref comes twice.
Valid(r) ==
    /\ \A it \in ToSet(items[r]) : Segments[it.body] \in 1 .. MaxSegments
    /\ \A i, j \in 1 .. Len(items[r]) :
          i # j /\ items[r][i].ref # NoRef => items[r][i].ref # items[r][j].ref

\* authed and rateLimit: the key may be unknown and the bucket empty.  A key
\* comes with its customer, and the key cache may still answer for a deleted one.
Admit(r) ==
    /\ pc[r] = "idle"
    /\ \/ /\ customer # "absent"
          /\ pc' = [pc EXCEPT ![r] = "accept"]
          /\ UNCHANGED <<inserted, answer>>
       \/ \E what \in {"unauthorized", "limited"} : Reply(r, what)
    /\ UNCHANGED <<items, next, tries, customer, balance, rows, plain, repeats>>

Begin(r) ==
    /\ pc[r] = "accept"
    /\ \/ /\ ~Valid(r)
          /\ Reply(r, "invalid")
          /\ UNCHANGED <<next, tries, repeats>>
       \/ /\ Valid(r)
          /\ Attempt(r)
          /\ repeats' = IF AllMatch(r) THEN repeats \cup {r} ELSE repeats
          /\ UNCHANGED <<inserted, answer>>
    /\ UNCHANGED <<items, customer, balance, rows, plain>>

\* Mutant: no unique constraint, so nobody holds a client_ref.
HolderNever(r) == {}

\* The open transaction that holds the client_ref of r's current item.
HolderOf(r) ==
    {s \in Requests \ {r} : \E i \in inserted[s] :
        items[s][i].ref # NoRef /\ items[s][i].ref = Item0(r).ref}

Inserting(r) == pc[r] = "insert" /\ next[r] <= Len(items[r])

\* A row is taken if its client_ref is committed, or inserted by r itself.
Taken(r) ==
    /\ Item0(r).ref # NoRef
    /\ \/ rows[Item0(r).ref] # None
       \/ \E i \in inserted[r] : items[r][i].ref = Item0(r).ref

InsertRow(r) ==
    /\ Inserting(r)
    /\ HolderOf(r) = {}
    /\ inserted' = IF Taken(r) THEN inserted
                   ELSE [inserted EXCEPT ![r] = @ \cup {next[r]}]
    /\ next' = [next EXCEPT ![r] = @ + 1]
    /\ UNCHANGED <<items, pc, tries, answer, customer, balance, rows, plain, repeats>>

\* The end of the INSERT.  The foreign key is checked only for rows that were
\* inserted; from then on the transaction holds a key lock on the customer.
InsertDone(r) == pc[r] = "insert" /\ next[r] > Len(items[r])

\* Mutant: the balance is debited before the number of rows is looked at.
InsertedDebitFirst(r) ==
    /\ InsertDone(r)
    /\ \/ /\ inserted[r] # {} /\ customer # "present"
          /\ Reply(r, "notfound")
       \/ /\ inserted[r] = {} \/ customer = "present"
          /\ balance < Total(r)
          /\ Reply(r, "insufficient")
       \/ /\ inserted[r] = {} \/ customer = "present"
          /\ balance >= Total(r)
          /\ Cardinality(inserted[r]) < Len(items[r])
          /\ pc' = [pc EXCEPT ![r] = "resolve"]
          /\ inserted' = [inserted EXCEPT ![r] = {}]
          /\ UNCHANGED answer
       \/ /\ customer = "present"
          /\ balance >= Total(r)
          /\ Cardinality(inserted[r]) = Len(items[r])
          /\ pc' = [pc EXCEPT ![r] = "charge"]
          /\ UNCHANGED <<inserted, answer>>
    /\ UNCHANGED <<items, next, tries, customer, balance, rows, plain, repeats>>

\* Mutant: the rows that could be inserted are kept when others were skipped.
InsertedPartly(r) ==
    /\ InsertDone(r)
    /\ \/ /\ inserted[r] # {} /\ customer # "present"
          /\ Reply(r, "notfound")
       \/ /\ inserted[r] = {} \/ customer = "present"
          /\ inserted[r] = {}
          /\ pc' = [pc EXCEPT ![r] = "resolve"]
          /\ UNCHANGED <<inserted, answer>>
       \/ /\ customer = "present"
          /\ inserted[r] # {}
          /\ pc' = [pc EXCEPT ![r] = "charge"]
          /\ UNCHANGED <<inserted, answer>>
    /\ UNCHANGED <<items, next, tries, customer, balance, rows, plain, repeats>>

Inserted(r) ==
    /\ InsertDone(r)
    /\ \/ /\ inserted[r] # {} /\ customer # "present"
          /\ Reply(r, "notfound")
       \/ /\ inserted[r] = {} \/ customer = "present"
          /\ Cardinality(inserted[r]) < Len(items[r])
          /\ pc' = [pc EXCEPT ![r] = "resolve"]          \* errClientRefTaken
          /\ inserted' = [inserted EXCEPT ![r] = {}]
          /\ UNCHANGED answer
       \/ /\ customer = "present"
          /\ Cardinality(inserted[r]) = Len(items[r])
          /\ pc' = [pc EXCEPT ![r] = "charge"]
          /\ UNCHANGED <<inserted, answer>>
    /\ UNCHANGED <<items, next, tries, customer, balance, rows, plain, repeats>>

\* RecordDebits, the queue rows, DebitBalance and the commit.  The commit may
\* succeed while its acknowledgement is lost: the caller is told of an error.
CommitRows(r) ==
    /\ balance' = balance - Total(r)
    /\ rows' = [f \in Refs |->
                  IF \E i \in inserted[r] : items[r][i].ref = f
                  THEN [by |-> r,
                        body |-> items[r][CHOOSE i \in inserted[r] : items[r][i].ref = f].body]
                  ELSE rows[f]]
    /\ plain' = plain \cup {<<r, i>> : i \in {j \in inserted[r] : items[r][j].ref = NoRef}}

Charge(r) ==
    /\ pc[r] = "charge"
    /\ \/ /\ balance < Total(r)
          /\ Reply(r, "insufficient")
          /\ UNCHANGED <<balance, rows, plain>>
       \/ /\ balance >= Total(r)
          /\ CommitRows(r)
          /\ \E what \in {"accepted", "error"} : Reply(r, what)
    /\ UNCHANGED <<items, next, tries, customer, repeats>>

\* resolveExisting; nothing found means another iteration, at most MaxTries.
ExistsAny(r) == \E it \in ToSet(items[r]) : it.ref # NoRef /\ rows[it.ref] # None

\* Mutant: a batch is a replay as soon as the rows that exist match.
ExistingPartly(r) ==
    /\ ExistsAny(r)
    /\ Reply(r, IF \A it \in ToSet(items[r]) :
                        it.ref # NoRef /\ rows[it.ref] # None => rows[it.ref].body = it.body
                THEN "replayed" ELSE "conflict")
    /\ UNCHANGED <<next, tries>>

Existing(r) ==
    /\ ExistsAny(r)
    /\ Reply(r, IF AllMatch(r) THEN "replayed" ELSE "conflict")
    /\ UNCHANGED <<next, tries>>

\* Mutant: anything but a replay is tried again, without a limit.
ResolveUnbounded(r) ==
    /\ pc[r] = "resolve"
    /\ \/ /\ AllMatch(r)
          /\ Reply(r, "replayed")
          /\ UNCHANGED next
       \/ /\ ~AllMatch(r)
          /\ pc' = [pc EXCEPT ![r] = "insert"]
          /\ next' = [next EXCEPT ![r] = 1]
          /\ UNCHANGED <<inserted, answer>>
    /\ UNCHANGED <<items, tries, customer, balance, rows, plain, repeats>>

Resolve(r) ==
    /\ pc[r] = "resolve"
    /\ \/ Existing(r)
       \/ /\ ~ExistsAny(r)
          /\ IF tries[r] < MaxTries
             THEN Attempt(r) /\ UNCHANGED <<inserted, answer>>
             ELSE Reply(r, "unsettled") /\ UNCHANGED <<next, tries>>
    /\ UNCHANGED <<items, customer, balance, rows, plain, repeats>>

------------------------------------------------------------------------------
(* The database and the rest of the world *)

WaitsFor(r) == IF Inserting(r) THEN HolderOf(r) ELSE {}

\* r waits, through others, for itself.
InCycle(r) ==
    LET reach[n \in 0 .. Cardinality(Requests)] ==
            IF n = 0 THEN WaitsFor(r)
            ELSE reach[n - 1] \cup UNION {WaitsFor(s) : s \in reach[n - 1]}
    IN r \in reach[Cardinality(Requests)]

Open(r) == pc[r] \in {"accept", "insert", "charge", "resolve"}

\* The deadlock detector aborts one transaction of a cycle.
DeadlockAbort(r) ==
    /\ InCycle(r)
    /\ Reply(r, "error")
    /\ UNCHANGED <<items, next, tries, customer, balance, rows, plain, repeats>>

\* The connection, the request's context or the process fails: rollback.
Fail(r) ==
    /\ Open(r)
    /\ Reply(r, "error")
    /\ UNCHANGED <<items, next, tries, customer, balance, rows, plain, repeats>>

\* Customer.Create, with its initial credits as the first charge.
CreateCustomer ==
    /\ customer = "absent"
    /\ customer' = "present"
    /\ balance' = Credits
    /\ UNCHANGED <<items, pc, next, inserted, tries, answer, rows, plain, repeats>>

\* DELETE FROM customers waits for key locks, then cascades to the messages.
DeleteCustomer ==
    /\ customer = "present"
    /\ \A r \in Requests : pc[r] # "charge"
    /\ customer' = "deleted"
    /\ balance' = 0
    /\ rows' = [f \in Refs |-> None]
    /\ plain' = {}
    /\ UNCHANGED <<items, pc, next, inserted, tries, answer, repeats>>

Finished ==
    /\ \A r \in Requests : pc[r] = "answered"
    /\ UNCHANGED vars

Next ==
    \/ \E r \in Requests :
        \/ Admit(r) \/ Begin(r) \/ InsertRow(r) \/ Inserted(r) \/ Charge(r) \/ Resolve(r)
        \/ DeadlockAbort(r) \/ Fail(r)
    \/ CreateCustomer \/ DeleteCustomer
    \/ Finished

Spec == Init /\ [][Next]_vars

\* The service and the database go on with what they have begun; no client is
\* obliged to submit, nothing is obliged to fail.
FairSpec ==
    /\ Spec
    /\ \A r \in Requests :
        /\ WF_vars(Begin(r))
        /\ WF_vars(InsertRow(r))
        /\ WF_vars(Inserted(r))
        /\ WF_vars(Charge(r))
        /\ WF_vars(Resolve(r))
        /\ WF_vars(DeadlockAbort(r))

------------------------------------------------------------------------------
(* Properties *)

\* A request answered as accepted created every one of its messages, and one
\* answered as a replay finds each of its items stored as it was sent; so two
\* requests that share a client_ref are never both told they created it.
AnswersAreTrue ==
    customer = "present" => \A r \in Requests : \A it \in ToSet(items[r]) :
        /\ answer[r] = "accepted" /\ it.ref # NoRef =>
             rows[it.ref] = [body |-> it.body, by |-> r]
        /\ answer[r] = "replayed" =>
             it.ref # NoRef /\ rows[it.ref] # None /\ rows[it.ref].body = it.body

\* The response of toHTTPError, WriteJSON: what the status tells the client.
\* A failure is a 500, or a 503 when the database cannot be reached.
HTTPStatus(a) ==
    CASE a \in {"accepted", "replayed"} -> 202
      [] a \in {"unauthorized", "notfound"} -> 401
      [] a = "insufficient" -> 402
      [] a = "conflict" -> 409
      [] a = "invalid" -> 422
      [] a = "limited" -> 429
      [] a \in {"unsettled", "error"} -> 500

Stored(r) == {i \in 1 .. Len(items[r]) :
                 \/ <<r, i>> \in plain
                 \/ items[r][i].ref # NoRef /\ rows[items[r][i].ref] # None
                                          /\ rows[items[r][i].ref].by = r}

\* The ledger as this transaction sees it: a message is an item of a request,
\* and has its debit row from the commit until the customer is deleted.
Cust == "customer"
Billing == INSTANCE Ledger WITH
    Customers <- {Cust},
    Messages <- Requests \X (1 .. MaxItems) \X Bodies,
    ChargeRefs <- {"initial"},
    Amounts <- {Credits},
    Owner <- [m \in Requests \X (1 .. MaxItems) \X Bodies |-> Cust],
    Cost <- [m \in Requests \X (1 .. MaxItems) \X Bodies |-> Cost[m[3]]],
    customers <- {c \in {Cust} : customer = "present"},
    deleted <- {c \in {Cust} : customer = "deleted"},
    balance <- [c \in {Cust} |-> balance],
    charges <- {t \in [customer : {Cust}, ref : {"initial"}, amount : {Credits}] :
                    customer = "present"},
    debits <- UNION {{<<r, i, items[r][i].body>> : i \in Stored(r)} : r \in Requests},
    refunds <- {}

\* The handler implements the ledger: however requests with the same client_refs
\* interleave, fail between two statements, lose an acknowledgement and are
\* retried, the balance and the stored messages move together, each batch debited
\* once and as a whole, with the money there (insert's transaction).
ImplementsLedger == Billing!LedgerSpec

\* A batch is a unit: all of its messages are stored or none is, and a response
\* that refuses it (4xx) means none; only after an error may it be either.
AllOrNothing ==
    \A r \in Requests :
        /\ Stored(r) \in {{}, 1 .. Len(items[r])}
        /\ answer[r] # None /\ HTTPStatus(answer[r]) \in 400 .. 499 => Stored(r) = {}

\* Retrying is safe: a request that repeats messages already stored is replayed
\* unless something fails or the customer goes; it is never refused as a
\* conflict or for lack of credits, even when the balance is now too low.
RepeatIsReplayed ==
    \A r \in repeats :
        answer[r] \in {None, "replayed", "error"} \cup (IF customer = "present" THEN {} ELSE {"notfound"})

\* Every request that began is answered, also when two batches name the same
\* client_refs in opposite orders and wait for each other.
EveryRequestAnswered == \A r \in Requests : pc[r] = "accept" ~> pc[r] = "answered"

\* accept.go:94-96 "the customer row is the only row concurrent requests
\* contend on": requests never wait for each other in a cycle.
RequestsNeverCycle == \A r \in Requests : ~InCycle(r)

==============================================================================
