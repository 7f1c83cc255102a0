------------------------------- MODULE Ledger -------------------------------
(***************************************************************************)
(* The credit ledger: internal/billing/ledger.go, the customer operations  *)
(* that touch it (internal/customer/customer.go) and the transactions and  *)
(* customers tables they run on.                                           *)
(*                                                                         *)
(* A transactions row is identified by what its unique index allows once:  *)
(* a debit or a refund by its message (transactions_message_kind_uidx), a  *)
(* charge by its customer and client_ref (transactions_charge_ref_uidx).   *)
(* Amounts of debits and refunds are the message's cost.                   *)
(*                                                                         *)
(* Every action is one database transaction.  The module is used twice:    *)
(* on its own, with callers that may ask for any debit and any refund, and *)
(* extended by Gateway, whose actions take these as conjuncts.             *)
(***************************************************************************)
EXTENDS Naturals, FiniteSets

CONSTANTS
    Customers,      \* customer IDs
    Messages,       \* message IDs
    ChargeRefs,     \* client_refs of charges
    Amounts,        \* amounts a charge may have
    Owner,          \* Owner[m]: the customer that submits message m
    Cost            \* Cost[m]: the credits message m costs

ASSUME LedgerAssumption ==
    /\ IsFiniteSet(Customers) /\ IsFiniteSet(Messages) /\ IsFiniteSet(ChargeRefs)
    /\ IsFiniteSet(Amounts) /\ Amounts \subseteq Nat \ {0}
    /\ Owner \in [Messages -> Customers]
    /\ Cost \in [Messages -> Nat \ {0}]

VARIABLES
    customers,      \* the customers rows that exist
    deleted,        \* customers that were deleted; IDs are never reused
    balance,        \* customers.balance, 0 where there is no row
    charges,        \* transactions rows of kind charge
    debits,         \* messages that have a debit row
    refunds         \* messages that have a refund row

ledgerVars == <<customers, deleted, balance, charges, debits, refunds>>

Charge == [customer : Customers, ref : ChargeRefs, amount : Amounts]

(***************************************************************************)
(* A sum of credits is the number of credit units: Units pairs each row    *)
(* with 1, 2, ... up to its amount.                                        *)
(***************************************************************************)
CostUnits(S) == UNION {{m} \X (1 .. Cost[m]) : m \in S}
TotalCost(S) == Cardinality(CostUnits(S))

ChargeUnits(C) == UNION {{t} \X (1 .. t.amount) : t \in C}
TotalCharged(C) == Cardinality(ChargeUnits(C))

Of(c, S) == {m \in S : Owner[m] = c}
ChargesOf(c) == {t \in charges : t.customer = c}

-----------------------------------------------------------------------------
(* Conjuncts shared with the transactions that embed them.                 *)

\* Total of a batch against the balance, as the conditional UPDATE sees it
\* under the row lock.  Callers run it in the transaction of RecordDebits.
DebitBalance(c, S) ==
    /\ balance[c] >= TotalCost(S)
    /\ balance' = [balance EXCEPT ![c] = @ - TotalCost(S)]

RecordDebits(S) == debits' = debits \cup S

\* Refund rows that conflict are skipped, and only inserted rows are credited.
ApplyRefunds(S) ==
    /\ refunds' = refunds \cup S
    /\ balance' = [c \in Customers |->
                      balance[c] + TotalCost(Of(c, S \ refunds))]

-----------------------------------------------------------------------------
(* The operations.                                                         *)

\* The accept transaction's part in the ledger.
Debit(c, S) ==
    /\ c \in customers
    /\ RecordDebits(S)
    /\ DebitBalance(c, S)
    /\ UNCHANGED <<customers, deleted, charges, refunds>>

InsertCharge(c, r, a) ==
    /\ charges' = charges \cup {[customer |-> c, ref |-> r, amount |-> a]}
    /\ balance' = [balance EXCEPT ![c] = @ + a]

\* A repeated client_ref inserts nothing: it is answered as a replay or, with
\* another amount, as a conflict.  Neither writes.
ChargeCustomer(c, r, a) ==
    /\ c \in customers
    /\ \A t \in ChargesOf(c) : t.ref # r
    /\ InsertCharge(c, r, a)
    /\ UNCHANGED <<customers, deleted, debits, refunds>>

\* InitialCredits may be zero; otherwise they are a charge with a fresh ref.
Create(c) ==
    /\ c \notin customers \cup deleted
    /\ customers' = customers \cup {c}
    /\ \/ UNCHANGED <<charges, balance>>
       \/ \E r \in ChargeRefs, a \in Amounts : InsertCharge(c, r, a)
    /\ UNCHANGED <<deleted, debits, refunds>>

\* ON DELETE CASCADE removes the customer's messages and transactions.
Delete(c) ==
    /\ c \in customers
    /\ customers' = customers \ {c}
    /\ deleted' = deleted \cup {c}
    /\ balance' = [balance EXCEPT ![c] = 0]
    /\ charges' = charges \ ChargesOf(c)
    /\ debits' = debits \ Of(c, debits)
    /\ refunds' = refunds \ Of(c, refunds)

\* The caller of ApplyRefunds names messages that exist; a refund row that is
\* already there does not stop it from naming the message again.
Refund(S) ==
    /\ S \subseteq debits
    /\ ApplyRefunds(S)
    /\ UNCHANGED <<customers, deleted, charges, debits>>

-----------------------------------------------------------------------------
LedgerInit ==
    /\ customers = {} /\ deleted = {}
    /\ balance = [c \in Customers |-> 0]
    /\ charges = {} /\ debits = {} /\ refunds = {}

LedgerNext ==
    \/ \E c \in Customers : Create(c) \/ Delete(c)
    \/ \E c \in Customers, r \in ChargeRefs, a \in Amounts : ChargeCustomer(c, r, a)
    \/ \E c \in Customers : \E S \in SUBSET Of(c, Messages \ debits) : Debit(c, S)
    \/ \E S \in SUBSET debits : Refund(S)

LedgerSpec == LedgerInit /\ [][LedgerNext]_ledgerVars

-----------------------------------------------------------------------------
LedgerTypeOK ==
    /\ customers \subseteq Customers
    /\ deleted \subseteq Customers
    /\ balance \in [Customers -> Nat]
    /\ charges \subseteq Charge
    /\ debits \subseteq Messages
    /\ refunds \subseteq Messages

\* Every balance is the sum of its customer's transactions: charges plus
\* refunds minus debits (invariant.go, balance_matches_transactions).  With
\* LedgerTypeOK it also says that concurrent debits never overspend.
BalanceMatchesTransactions ==
    \A c \in Customers :
        balance[c] + TotalCost(Of(c, debits))
            = TotalCharged(ChargesOf(c)) + TotalCost(Of(c, refunds))

\* What a customer has spent and not been refunded is covered by what was
\* charged, whatever debits, refunds and charges run at the same time
\* (ledger.go DebitBalance: "concurrent debits can never overspend").
NeverOverspent ==
    \A c \in Customers : TotalCost(Of(c, debits \ refunds)) <= TotalCharged(ChargesOf(c))

=============================================================================
