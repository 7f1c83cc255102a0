---------------------------- MODULE LedgerProofs ----------------------------
(***************************************************************************)
(* The ledger's invariants for every set of customers, messages, charges   *)
(* and every cost.  Sums are cardinalities of sets of credit units, so     *)
(* that they can be taken apart with the theorems on finite sets.          *)
(***************************************************************************)
EXTENDS Ledger, FiniteSetTheorems, TLAPS

\* The units of a finite set of messages are finite in number.
LEMMA CostUnitsFinite ==
    ASSUME NEW S \in SUBSET Messages
    PROVE  IsFiniteSet(CostUnits(S)) /\ TotalCost(S) \in Nat
<1> DEFINE Row(m) == {m} \X (1 .. Cost[m])
           F == [m \in S |-> Row(m)]
           T == {Row(m) : m \in S}
<1>1. IsFiniteSet(S)
    BY FS_Subset, LedgerAssumption
<1>2. F \in Surjection(S, T)
    BY DEF Surjection
<1>3. IsFiniteSet(T)
    BY <1>1, <1>2, FS_Surjection
<1>4. \A R \in T : IsFiniteSet(R)
  <2> SUFFICES ASSUME NEW m \in S PROVE IsFiniteSet(Row(m))
      OBVIOUS
  <2>1. Cost[m] \in Int
      BY LedgerAssumption
  <2>2. IsFiniteSet(1 .. Cost[m])
      BY <2>1, FS_Interval
  <2>. QED BY <2>2, FS_Singleton, FS_Product
<1>5. IsFiniteSet(UNION T)
    BY <1>3, <1>4, FS_UNION
<1>6. CostUnits(S) = UNION T
    BY DEF CostUnits
<1>. QED BY <1>5, <1>6, FS_CardinalityType DEF TotalCost

\* The cost of disjoint sets of messages adds up.
LEMMA TotalCostAdds ==
    ASSUME NEW A \in SUBSET Messages, NEW B \in SUBSET Messages, A \cap B = {}
    PROVE  TotalCost(A \cup B) = TotalCost(A) + TotalCost(B)
<1>1. CostUnits(A \cup B) = CostUnits(A) \cup CostUnits(B)
    BY DEF CostUnits
<1>2. CostUnits(A) \cap CostUnits(B) = {}
  <2> SUFFICES ASSUME NEW u \in CostUnits(A), u \in CostUnits(B) PROVE FALSE
      OBVIOUS
  <2>1. PICK a \in A : u \in {a} \X (1 .. Cost[a])
      BY DEF CostUnits
  <2>2. PICK b \in B : u \in {b} \X (1 .. Cost[b])
      BY DEF CostUnits
  <2>3. u[1] = a /\ u[1] = b
      BY <2>1, <2>2
  <2>. QED BY <2>3
<1>3. IsFiniteSet(CostUnits(A)) /\ IsFiniteSet(CostUnits(B))
    BY CostUnitsFinite
<1>4. TotalCost(A) \in Nat /\ TotalCost(B) \in Nat
    BY CostUnitsFinite
<1>5. Cardinality(CostUnits(A) \cup CostUnits(B)) = TotalCost(A) + TotalCost(B) - 0
    BY <1>2, <1>3, FS_Union, FS_EmptySet DEF TotalCost
<1>. QED BY <1>1, <1>4, <1>5 DEF TotalCost

\* No messages cost nothing.
LEMMA TotalCostOfNone == TotalCost({}) = 0
<1>1. CostUnits({}) = {}
    BY DEF CostUnits
<1>. QED BY <1>1, FS_EmptySet DEF TotalCost

\* The same three facts for charges.
LEMMA ChargeUnitsFinite ==
    ASSUME NEW C \in SUBSET Charge, IsFiniteSet(C)
    PROVE  IsFiniteSet(ChargeUnits(C)) /\ TotalCharged(C) \in Nat
<1> DEFINE Row(t) == {t} \X (1 .. t.amount)
           F == [t \in C |-> Row(t)]
           T == {Row(t) : t \in C}
<1>1. F \in Surjection(C, T)
    BY DEF Surjection
<1>2. IsFiniteSet(T)
    BY <1>1, FS_Surjection
<1>3. \A R \in T : IsFiniteSet(R)
  <2> SUFFICES ASSUME NEW t \in C PROVE IsFiniteSet(Row(t))
      OBVIOUS
  <2>1. t.amount \in Int
      BY LedgerAssumption DEF Charge
  <2>2. IsFiniteSet(1 .. t.amount)
      BY <2>1, FS_Interval
  <2>. QED BY <2>2, FS_Singleton, FS_Product
<1>4. IsFiniteSet(UNION T)
    BY <1>2, <1>3, FS_UNION
<1>5. ChargeUnits(C) = UNION T
    BY DEF ChargeUnits
<1>. QED BY <1>4, <1>5, FS_CardinalityType DEF TotalCharged

\* A charge that is not yet in the table adds its amount to the total
\* (ledger.go Charge).
LEMMA TotalChargedAdds ==
    ASSUME NEW C \in SUBSET Charge, IsFiniteSet(C), NEW t \in Charge, t \notin C
    PROVE  TotalCharged(C \cup {t}) = TotalCharged(C) + t.amount
<1>1. PICK n \in Nat : n = t.amount /\ n > 0
    BY LedgerAssumption DEF Charge
<1> DEFINE Row == {t} \X (1 .. n)
<1>2. ChargeUnits(C \cup {t}) = ChargeUnits(C) \cup Row
    BY <1>1 DEF ChargeUnits
<1>3. ChargeUnits(C) \cap Row = {}
  <2> SUFFICES ASSUME NEW u \in ChargeUnits(C), u \in Row PROVE FALSE
      OBVIOUS
  <2>1. PICK a \in C : u \in {a} \X (1 .. a.amount)
      BY DEF ChargeUnits
  <2>2. u[1] = a /\ u[1] = t
      BY <2>1
  <2>. QED BY <2>2
<1>4. IsFiniteSet(1 .. n) /\ Cardinality(1 .. n) = n
  <2>1. 1 \in Int /\ n \in Int /\ ~(1 > n) /\ n - 1 + 1 = n
      BY <1>1
  <2>. QED BY <2>1, FS_Interval
<1>5. IsFiniteSet(Row) /\ Cardinality(Row) = n
  <2>1. IsFiniteSet({t}) /\ Cardinality({t}) = 1
      BY FS_Singleton
  <2>2. IsFiniteSet(Row) /\ Cardinality(Row) = Cardinality({t}) * Cardinality(1 .. n)
      BY <1>4, <2>1, FS_Product
  <2>. QED BY <1>4, <2>1, <2>2
<1>6. IsFiniteSet(ChargeUnits(C)) /\ TotalCharged(C) \in Nat
    BY ChargeUnitsFinite
<1> HIDE DEF Row
<1>7. Cardinality(ChargeUnits(C) \cup Row)
         = Cardinality(ChargeUnits(C)) + Cardinality(Row) - Cardinality(ChargeUnits(C) \cap Row)
    BY <1>5, <1>6, FS_Union
<1>8. TotalCharged(C \cup {t}) = TotalCharged(C) + n
  <2>1. Cardinality(ChargeUnits(C) \cap Row) = 0
      BY <1>3, FS_EmptySet
  <2>2. Cardinality(ChargeUnits(C)) \in Nat
      BY <1>6 DEF TotalCharged
  <2>3. Cardinality(ChargeUnits(C) \cup Row) = Cardinality(ChargeUnits(C)) + n
      BY <1>5, <1>7, <2>1, <2>2
  <2>. QED BY <1>2, <2>3 DEF TotalCharged
<1>. QED BY <1>1, <1>8

\* No charges add up to zero.
LEMMA TotalChargedOfNone == TotalCharged({}) = 0
<1>1. ChargeUnits({}) = {}
    BY DEF ChargeUnits
<1>. QED BY <1>1, FS_EmptySet DEF TotalCharged

-----------------------------------------------------------------------------
(***************************************************************************)
(* The inductive invariant.  A new charge must be a new row for the sum to *)
(* grow by its amount, so charges belong to existing customers; refunds    *)
(* are of debits, which gives NeverOverspent.                              *)
(***************************************************************************)
LedgerInv ==
    /\ LedgerTypeOK
    /\ IsFiniteSet(charges)
    /\ \A t \in charges : t.customer \in customers
    /\ refunds \subseteq debits
    /\ BalanceMatchesTransactions

\* The messages of a customer among S are some of S.
LEMMA OfSubset ==
    ASSUME NEW c, NEW S \in SUBSET Messages
    PROVE  Of(c, S) \in SUBSET Messages /\ TotalCost(Of(c, S)) \in Nat
<1>1. Of(c, S) \in SUBSET Messages
    BY DEF Of
<1>. QED BY <1>1, CostUnitsFinite

\* The empty tables satisfy the invariant.
LEMMA LedgerInitInv == LedgerInit => LedgerInv
<1> SUFFICES ASSUME LedgerInit PROVE LedgerInv
    OBVIOUS
<1>1. LedgerTypeOK
    BY DEF LedgerInit, LedgerTypeOK
<1>2. IsFiniteSet(charges)
    BY FS_EmptySet DEF LedgerInit
<1>3. BalanceMatchesTransactions
  <2> SUFFICES ASSUME NEW c \in Customers
               PROVE  balance[c] + TotalCost(Of(c, debits))
                         = TotalCharged(ChargesOf(c)) + TotalCost(Of(c, refunds))
      BY DEF BalanceMatchesTransactions
  <2>1. Of(c, debits) = {} /\ Of(c, refunds) = {} /\ ChargesOf(c) = {} /\ balance[c] = 0
      BY DEF LedgerInit, Of, ChargesOf
  <2>. QED BY <2>1, TotalCostOfNone, TotalChargedOfNone
<1>. QED BY <1>1, <1>2, <1>3 DEF LedgerInit, LedgerInv

\* Inserting a charge that is a new row adds its amount on both sides.
LEMMA InsertChargeInv ==
    ASSUME LedgerInv, NEW c \in Customers, NEW r \in ChargeRefs, NEW a \in Amounts,
           InsertCharge(c, r, a), \A t \in ChargesOf(c) : t.ref # r,
           customers \subseteq customers', c \in customers', customers' \subseteq Customers,
           UNCHANGED <<deleted, debits, refunds>>
    PROVE  LedgerInv'
<1> DEFINE t == [customer |-> c, ref |-> r, amount |-> a]
<1>1. t \in Charge /\ t \notin charges /\ t.customer = c /\ t.amount = a
    BY DEF Charge, ChargesOf
<1>2. a \in Nat /\ a > 0
    BY LedgerAssumption
<1>3. charges' = charges \cup {t} /\ balance' = [balance EXCEPT ![c] = @ + a]
    BY DEF InsertCharge
<1> HIDE DEF t
<1>4. LedgerTypeOK'
    BY <1>1, <1>2, <1>3 DEF LedgerInv, LedgerTypeOK
<1>5. IsFiniteSet(charges')
    BY <1>3, FS_AddElement DEF LedgerInv
<1>6. (\A x \in charges : x.customer \in customers)'
    BY <1>1, <1>3 DEF LedgerInv
<1>7. BalanceMatchesTransactions'
  <2> SUFFICES ASSUME NEW d \in Customers
               PROVE  balance'[d] + TotalCost(Of(d, debits))
                         = TotalCharged(ChargesOf(d)') + TotalCost(Of(d, refunds))
      BY DEF BalanceMatchesTransactions, Of
  <2>1. balance[d] + TotalCost(Of(d, debits)) = TotalCharged(ChargesOf(d)) + TotalCost(Of(d, refunds))
      BY DEF LedgerInv, BalanceMatchesTransactions
  <2>2. balance[d] \in Nat /\ TotalCost(Of(d, debits)) \in Nat /\ TotalCost(Of(d, refunds)) \in Nat
      BY OfSubset DEF LedgerInv, LedgerTypeOK
  <2>3. ChargesOf(d) \in SUBSET Charge /\ IsFiniteSet(ChargesOf(d)) /\ t \notin ChargesOf(d)
      BY <1>1, FS_Subset DEF ChargesOf, LedgerInv, LedgerTypeOK
  <2>4. TotalCharged(ChargesOf(d)) \in Nat
      BY <2>3, ChargeUnitsFinite
  <2>5. CASE d = c
    <3>1. ChargesOf(d)' = ChargesOf(d) \cup {t}
        BY <1>1, <1>3, <2>5 DEF ChargesOf
    <3>2. TotalCharged(ChargesOf(d)') = TotalCharged(ChargesOf(d)) + a
        BY <1>1, <2>3, <3>1, TotalChargedAdds
    <3>3. balance'[d] = balance[d] + a
        BY <1>3, <2>5 DEF LedgerInv, LedgerTypeOK
    <3>. QED BY <1>2, <2>1, <2>2, <2>4, <3>2, <3>3
  <2>6. CASE d # c
    <3>1. ChargesOf(d)' = ChargesOf(d) /\ balance'[d] = balance[d]
        BY <1>1, <1>3, <2>6 DEF ChargesOf, LedgerInv, LedgerTypeOK
    <3>. QED BY <2>1, <3>1
  <2>. QED BY <2>5, <2>6
<1>. QED BY <1>4, <1>5, <1>6, <1>7 DEF LedgerInv

\* Creating a customer, with or without initial credits, keeps the
\* invariant (customer.go Create).
LEMMA CreateInv ==
    ASSUME LedgerInv, NEW c \in Customers, Create(c)
    PROVE  LedgerInv'
<1>1. CASE UNCHANGED <<charges, balance>>
    BY <1>1 DEF LedgerInv, LedgerTypeOK, BalanceMatchesTransactions, Of, ChargesOf, Create
<1>2. CASE \E r \in ChargeRefs, a \in Amounts : InsertCharge(c, r, a)
  <2>1. PICK r \in ChargeRefs, a \in Amounts : InsertCharge(c, r, a)
      BY <1>2
  <2>2. \A t \in ChargesOf(c) : t.ref # r
      BY DEF ChargesOf, Create, LedgerInv
  <2>. QED BY <2>1, <2>2, InsertChargeInv DEF Create, LedgerInv, LedgerTypeOK
<1>. QED BY <1>1, <1>2 DEF Create

\* A charge keeps the invariant (ledger.go ChargeCustomer).
LEMMA ChargeCustomerInv ==
    ASSUME LedgerInv, NEW c \in Customers, NEW r \in ChargeRefs, NEW a \in Amounts,
           ChargeCustomer(c, r, a)
    PROVE  LedgerInv'
BY InsertChargeInv DEF ChargeCustomer, LedgerInv, LedgerTypeOK

\* A debit takes from the balance what it adds to the debits, and only what
\* the balance covers.
LEMMA DebitInv ==
    ASSUME LedgerInv, NEW c \in Customers, NEW S \in SUBSET Of(c, Messages \ debits), Debit(c, S)
    PROVE  LedgerInv'
<1>1. S \in SUBSET Messages /\ S \cap debits = {} /\ Of(c, S) = S
    BY DEF Of
<1>2. TotalCost(S) \in Nat
    BY <1>1, CostUnitsFinite
<1>3. /\ balance[c] >= TotalCost(S) /\ balance' = [balance EXCEPT ![c] = @ - TotalCost(S)]
      /\ debits' = debits \cup S
      /\ UNCHANGED <<customers, deleted, charges, refunds>>
    BY DEF Debit, DebitBalance, RecordDebits
<1>4. LedgerTypeOK'
    BY <1>1, <1>2, <1>3 DEF LedgerInv, LedgerTypeOK
<1>5. BalanceMatchesTransactions'
  <2> SUFFICES ASSUME NEW d \in Customers
               PROVE  balance'[d] + TotalCost(Of(d, debits'))
                         = TotalCharged(ChargesOf(d)) + TotalCost(Of(d, refunds))
      BY <1>3 DEF BalanceMatchesTransactions, Of, ChargesOf
  <2>1. balance[d] + TotalCost(Of(d, debits)) = TotalCharged(ChargesOf(d)) + TotalCost(Of(d, refunds))
      BY DEF LedgerInv, BalanceMatchesTransactions
  <2>2. balance[d] \in Nat /\ Of(d, debits) \in SUBSET Messages /\ TotalCost(Of(d, debits)) \in Nat
      BY OfSubset DEF LedgerInv, LedgerTypeOK
  <2>3. CASE d = c
    <3>1. Of(d, debits') = Of(d, debits) \cup S /\ Of(d, debits) \cap S = {}
        BY <1>1, <1>3, <2>3 DEF Of
    <3>2. TotalCost(Of(d, debits')) = TotalCost(Of(d, debits)) + TotalCost(S)
        BY <1>1, <2>2, <3>1, TotalCostAdds
    <3>3. balance'[d] = balance[d] - TotalCost(S)
        BY <1>3, <2>3 DEF LedgerInv, LedgerTypeOK
    <3>. QED BY <1>2, <2>1, <2>2, <3>2, <3>3
  <2>4. CASE d # c
    <3>1. Of(d, debits') = Of(d, debits)
        BY <1>1, <1>3, <2>4 DEF Of
    <3>2. balance'[d] = balance[d]
        BY <1>3, <2>4 DEF LedgerInv, LedgerTypeOK
    <3>. QED BY <2>1, <3>1, <3>2
  <2>. QED BY <2>3, <2>4
<1>. QED BY <1>3, <1>4, <1>5 DEF LedgerInv

\* A refund credits exactly the rows it inserts.
LEMMA RefundInv ==
    ASSUME LedgerInv, NEW S \in SUBSET debits, Refund(S)
    PROVE  LedgerInv'
<1> DEFINE New == S \ refunds
<1>1. S \in SUBSET Messages /\ New \in SUBSET Messages /\ refunds \in SUBSET Messages
    BY DEF LedgerInv, LedgerTypeOK
<1>2. /\ refunds' = refunds \cup S
      /\ balance' = [d \in Customers |-> balance[d] + TotalCost(Of(d, New))]
      /\ UNCHANGED <<customers, deleted, charges, debits>>
    BY DEF Refund, ApplyRefunds
<1>3. \A d \in Customers : TotalCost(Of(d, New)) \in Nat
    BY <1>1, OfSubset
<1>4. LedgerTypeOK'
  <2>1. \A d \in Customers : balance[d] + TotalCost(Of(d, New)) \in Nat
      BY <1>3 DEF LedgerInv, LedgerTypeOK
  <2>2. balance' \in [Customers -> Nat]
      BY <1>2, <2>1
  <2>. QED BY <1>1, <1>2, <2>2 DEF LedgerInv, LedgerTypeOK
<1>5. BalanceMatchesTransactions'
  <2> SUFFICES ASSUME NEW d \in Customers
               PROVE  balance'[d] + TotalCost(Of(d, debits))
                         = TotalCharged(ChargesOf(d)) + TotalCost(Of(d, refunds'))
      BY <1>2 DEF BalanceMatchesTransactions, Of, ChargesOf
  <2>1. balance[d] + TotalCost(Of(d, debits)) = TotalCharged(ChargesOf(d)) + TotalCost(Of(d, refunds))
      BY DEF LedgerInv, BalanceMatchesTransactions
  <2>2. balance[d] \in Nat /\ TotalCost(Of(d, debits)) \in Nat
      BY OfSubset DEF LedgerInv, LedgerTypeOK
  <2>3. TotalCost(Of(d, refunds)) \in Nat
      BY <1>1, OfSubset
  <2>4. ChargesOf(d) \in SUBSET Charge /\ IsFiniteSet(ChargesOf(d))
      BY FS_Subset DEF ChargesOf, LedgerInv, LedgerTypeOK
  <2>5. TotalCharged(ChargesOf(d)) \in Nat
      BY <2>4, ChargeUnitsFinite
  <2>6. Of(d, refunds') = Of(d, refunds) \cup Of(d, New) /\ Of(d, refunds) \cap Of(d, New) = {}
      BY <1>2 DEF Of
  <2>7. TotalCost(Of(d, refunds')) = TotalCost(Of(d, refunds)) + TotalCost(Of(d, New))
      BY <1>1, <2>6, OfSubset, TotalCostAdds
  <2>8. balance'[d] = balance[d] + TotalCost(Of(d, New))
      BY <1>2
  <2>. QED BY <1>3, <2>1, <2>2, <2>3, <2>5, <2>7, <2>8
<1>. QED BY <1>2, <1>4, <1>5 DEF LedgerInv

\* Deleting a customer takes both sides to zero and touches nobody else.
LEMMA DeleteInv ==
    ASSUME LedgerInv, NEW c \in Customers, Delete(c)
    PROVE  LedgerInv'
<1>1. LedgerTypeOK'
    BY DEF LedgerInv, LedgerTypeOK, Delete
<1>2. IsFiniteSet(charges')
    BY FS_Subset DEF LedgerInv, Delete
<1>3. (\A t \in charges : t.customer \in customers)'
    BY DEF LedgerInv, LedgerTypeOK, Delete, ChargesOf
<1>5. (refunds \subseteq debits)'
    BY DEF LedgerInv, Delete, Of
<1>4. BalanceMatchesTransactions'
  <2> SUFFICES ASSUME NEW d \in Customers
               PROVE  balance'[d] + TotalCost(Of(d, debits'))
                         = TotalCharged(ChargesOf(d)') + TotalCost(Of(d, refunds'))
      BY DEF BalanceMatchesTransactions, Of
  <2>1. CASE d = c
    <3>1. /\ Of(d, debits') = {} /\ Of(d, refunds') = {} /\ ChargesOf(d)' = {}
          /\ balance'[d] = 0
        BY <2>1 DEF Delete, Of, ChargesOf, LedgerInv, LedgerTypeOK
    <3>. QED BY <3>1, TotalCostOfNone, TotalChargedOfNone
  <2>2. CASE d # c
    <3>1. /\ Of(d, debits') = Of(d, debits) /\ Of(d, refunds') = Of(d, refunds)
          /\ ChargesOf(d)' = ChargesOf(d) /\ balance'[d] = balance[d]
        BY <2>2 DEF Delete, Of, ChargesOf, LedgerInv, LedgerTypeOK
    <3>. QED BY <3>1 DEF LedgerInv, BalanceMatchesTransactions
  <2>. QED BY <2>1, <2>2
<1>. QED BY <1>1, <1>2, <1>3, <1>4, <1>5 DEF LedgerInv

\* Every transaction on the ledger keeps the invariant.
LEMMA LedgerStepInv == LedgerInv /\ [LedgerNext]_ledgerVars => LedgerInv'
<1> SUFFICES ASSUME LedgerInv, [LedgerNext]_ledgerVars PROVE LedgerInv'
    OBVIOUS
<1>1. CASE UNCHANGED ledgerVars
    BY <1>1 DEF ledgerVars, LedgerInv, LedgerTypeOK, BalanceMatchesTransactions, Of, ChargesOf
<1>2. ASSUME NEW c \in Customers, Create(c) \/ Delete(c) PROVE LedgerInv'
    BY <1>2, CreateInv, DeleteInv
<1>3. ASSUME NEW c \in Customers, NEW r \in ChargeRefs, NEW a \in Amounts, ChargeCustomer(c, r, a)
      PROVE  LedgerInv'
    BY <1>3, ChargeCustomerInv
<1>4. ASSUME NEW c \in Customers, NEW S \in SUBSET Of(c, Messages \ debits), Debit(c, S)
      PROVE  LedgerInv'
    BY <1>4, DebitInv
<1>5. ASSUME NEW S \in SUBSET debits, Refund(S) PROVE LedgerInv'
    BY <1>5, RefundInv
<1>. QED BY <1>1, <1>2, <1>3, <1>4, <1>5 DEF LedgerNext

\* The ledger's operations keep the inductive invariant.
THEOREM LedgerInvariant == LedgerSpec => []LedgerInv
<1>. QED BY LedgerInitInv, LedgerStepInv, PTL DEF LedgerSpec

\* Every balance is a natural number and every row well formed, so no debit
\* ever overdraws (ledger.go DebitBalance).
THEOREM LedgerTypeCorrect == LedgerSpec => []LedgerTypeOK
<1>1. LedgerInv => LedgerTypeOK
    BY DEF LedgerInv
<1>. QED BY <1>1, LedgerInvariant, PTL

\* Every balance is the sum of its customer's transactions, for any number of
\* customers, messages and charges and any costs.
THEOREM BalancesMatch == LedgerSpec => []BalanceMatchesTransactions
<1>1. LedgerInv => BalanceMatchesTransactions
    BY DEF LedgerInv
<1>. QED BY <1>1, LedgerInvariant, PTL

\* Net spending is covered by charges: debits split into refunded and
\* unrefunded ones, and the balance is not negative.
THEOREM SpendingIsCovered == LedgerSpec => []NeverOverspent
<1>1. LedgerInv => NeverOverspent
  <2> SUFFICES ASSUME LedgerInv, NEW c \in Customers
               PROVE  TotalCost(Of(c, debits \ refunds)) <= TotalCharged(ChargesOf(c))
      BY DEF NeverOverspent
  <2>1. debits \in SUBSET Messages /\ refunds \in SUBSET Messages /\ balance[c] \in Nat
      BY DEF LedgerInv, LedgerTypeOK
  <2>2. /\ Of(c, debits) = Of(c, debits \ refunds) \cup Of(c, refunds)
        /\ Of(c, debits \ refunds) \cap Of(c, refunds) = {}
      BY DEF Of, LedgerInv
  <2>3. TotalCost(Of(c, refunds)) \in Nat /\ TotalCost(Of(c, debits \ refunds)) \in Nat
      BY <2>1, OfSubset
  <2>4. TotalCost(Of(c, debits)) = TotalCost(Of(c, debits \ refunds)) + TotalCost(Of(c, refunds))
      BY <2>1, <2>2, OfSubset, TotalCostAdds
  <2>5. balance[c] + TotalCost(Of(c, debits)) = TotalCharged(ChargesOf(c)) + TotalCost(Of(c, refunds))
      BY DEF LedgerInv, BalanceMatchesTransactions
  <2>6. ChargesOf(c) \in SUBSET Charge /\ IsFiniteSet(ChargesOf(c))
      BY FS_Subset DEF ChargesOf, LedgerInv, LedgerTypeOK
  <2>7. TotalCharged(ChargesOf(c)) \in Nat
      BY <2>6, ChargeUnitsFinite
  <2>. QED BY <2>1, <2>3, <2>4, <2>5, <2>7
<1>. QED BY <1>1, LedgerInvariant, PTL
=============================================================================
