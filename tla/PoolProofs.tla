------------------------------ MODULE PoolProofs ------------------------------
(* Proofs about Pool, for any number of lanes, slots and rows.               *)
EXTENDS Pool, TLAPS

\* Slots are taken for a claim only, and a claim is made with at least one.
ClaimHasSlots ==
    /\ pc \notin {"claim", "claimed"} => taken = 0
    /\ pc = "claim" => taken > 0
    /\ pc # "claimed" => got = 0

\* What NoLostWakeup says while the pool waits has to hold all the time, also
\* of a lane whose empty claim is on its way back.
Told ==
    ~wake /\ notifications = 0 =>
        /\ \A l \in found : announced[l] = 0
        /\ pc = "claimed" /\ got = 0 => announced[last] = 0

AnnouncedAreReady == \A l \in Lanes : announced[l] <= ready[l]

PoolInv == AnnouncedAreReady /\ TypeOK /\ SlotsAccountedFor /\ ClaimHasSlots /\ Told

\* Taking rows of a lane: announced rows never become more (claim, sweeper).
LEMMA TakeRowsStep ==
    ASSUME TypeOK, AnnouncedAreReady, NEW l \in Lanes, NEW n \in Nat, n <= ready[l], TakeRows(l, n)
    PROVE  /\ ready' \in [Lanes -> 0 .. MaxReady]
           /\ announced' \in [Lanes -> 0 .. MaxReady]
           /\ \A k \in Lanes : announced[k] = 0 => announced'[k] = 0
           /\ n = ready[l] => announced'[l] = 0
           /\ AnnouncedAreReady'
<1>1. ready[l] \in 0 .. MaxReady /\ announced[l] \in 0 .. MaxReady
    BY DEF TypeOK
<1>2. ready[l] - n \in 0 .. MaxReady
    BY <1>1, PoolAssumption
<1> DEFINE a == Smaller(announced[l], ready[l] - n)
<1>3. a \in 0 .. MaxReady /\ (announced[l] = 0 => a = 0) /\ (n = ready[l] => a = 0) /\ a <= ready[l] - n
    BY <1>1, <1>2, PoolAssumption DEF Smaller
<1>4. ready' = [ready EXCEPT ![l] = ready[l] - n] /\ announced' = [announced EXCEPT ![l] = a]
    BY DEF TakeRows
<1> HIDE DEF a
<1> QED BY <1>2, <1>3, <1>4 DEF TypeOK, AnnouncedAreReady

\* The rest of the system keeps the invariant (accepts, thieves, providers).
LEMMA OthersStep ==
    ASSUME PoolInv, (\E l \in Lanes : Accept(l) \/ Due(l) \/ Steal(l)) \/ ProvidersChange \/ Shutdown
    PROVE  PoolInv'
<1>1. AnnouncedAreReady /\ TypeOK /\ SlotsAccountedFor /\ ClaimHasSlots /\ Told
    BY DEF PoolInv
<1>2. ASSUME NEW l \in Lanes, Accept(l) PROVE PoolInv'
    <2>1. ready[l] \in Nat /\ announced[l] \in Nat /\ ready[l] < MaxReady /\ announced[l] <= ready[l]
        BY <1>1, <1>2, PoolAssumption DEF Accept, TypeOK, AnnouncedAreReady
    <2>2. ready' = [ready EXCEPT ![l] = ready[l] + 1] /\ ready[l] + 1 \in 0 .. MaxReady
        BY <1>2, <2>1, PoolAssumption DEF Accept
    <2>3. PICK a \in {announced[l], announced[l] + 1} : announced' = [announced EXCEPT ![l] = a]
        BY <1>2 DEF Accept
    <2>4. a \in 0 .. MaxReady /\ a <= ready[l] + 1
        BY <2>1, <2>3, PoolAssumption
    <2>5. /\ ready' \in [Lanes -> 0 .. MaxReady] /\ announced' \in [Lanes -> 0 .. MaxReady]
          /\ AnnouncedAreReady'
        BY <1>1, <2>2, <2>3, <2>4 DEF TypeOK, AnnouncedAreReady
    <2>6. notifications' \in 0 .. MaxReady
        BY <1>1, <1>2, PoolAssumption DEF Accept, TypeOK
    <2>7. Told'
        <3>1. CASE listening
            BY <1>1, <1>2, <3>1 DEF Accept, TypeOK, Told
        <3>2. CASE ~listening
            BY <1>1, <1>2, <3>2 DEF Accept, TypeOK, Told, loopVars
        <3> QED BY <3>1, <3>2
    <2> QED BY <1>1, <1>2, <2>5, <2>6, <2>7 DEF PoolInv, Accept, loopVars, TypeOK, SlotsAccountedFor, ClaimHasSlots
<1>3. ASSUME NEW l \in Lanes, Due(l) PROVE PoolInv'
    BY <1>1, <1>3, PoolAssumption
    DEF PoolInv, AnnouncedAreReady, Due, loopVars, TypeOK, SlotsAccountedFor, ClaimHasSlots, Told
<1>4. ASSUME NEW l \in Lanes, Steal(l) PROVE PoolInv'
    <2>1. 1 <= ready[l] /\ TakeRows(l, 1)
        BY <1>1, <1>4 DEF Steal, TypeOK
    <2>2. /\ ready' \in [Lanes -> 0 .. MaxReady] /\ announced' \in [Lanes -> 0 .. MaxReady]
          /\ \A k \in Lanes : announced[k] = 0 => announced'[k] = 0
          /\ AnnouncedAreReady'
        BY <1>1, <2>1, TakeRowsStep
    <2> QED BY <1>1, <1>4, <2>2
            DEF PoolInv, AnnouncedAreReady, Steal, loopVars, TypeOK, SlotsAccountedFor, ClaimHasSlots, Told
<1>5. CASE ProvidersChange
    BY <1>1, <1>5 DEF PoolInv, AnnouncedAreReady, ProvidersChange, laneVars, loopVars, TypeOK, SlotsAccountedFor,
                      ClaimHasSlots, Told
<1>6. CASE Shutdown
    BY <1>1, <1>6 DEF PoolInv, AnnouncedAreReady, Shutdown, laneVars, loopVars, TypeOK, SlotsAccountedFor,
                      ClaimHasSlots, Told
<1> QED BY <1>2, <1>3, <1>4, <1>5, <1>6

\* The listener keeps the invariant: a notification it reads becomes a wake-up,
\* and those it loses are no longer announced (listener.go).
LEMMA ListenerStep ==
    ASSUME PoolInv, Notified \/ ListenFails \/ Listen
    PROVE  PoolInv'
<1>1. AnnouncedAreReady /\ TypeOK /\ SlotsAccountedFor /\ ClaimHasSlots /\ Told
    BY DEF PoolInv
<1>2. CASE Notified
    BY <1>1, <1>2, PoolAssumption
    DEF PoolInv, AnnouncedAreReady, Notified, Signal, loopVars, TypeOK, SlotsAccountedFor, ClaimHasSlots, Told
<1>3. CASE ListenFails
    <2>1. announced' \in [Lanes -> 0 .. MaxReady] /\ \A l \in Lanes : announced'[l] = 0
        BY <1>3, PoolAssumption DEF ListenFails
    <2>2. AnnouncedAreReady' /\ notifications' \in 0 .. MaxReady /\ ready' = ready
        BY <1>1, <1>3, <2>1, PoolAssumption DEF ListenFails, AnnouncedAreReady, TypeOK
    <2>3. Told'
        BY <1>1, <1>3, <2>1 DEF ListenFails, Told, TypeOK, loopVars
    <2>4. TypeOK'
        BY <1>1, <1>3, <2>1, <2>2 DEF ListenFails, TypeOK, loopVars
    <2> QED BY <1>1, <1>3, <2>2, <2>3, <2>4
            DEF PoolInv, ListenFails, loopVars, SlotsAccountedFor, ClaimHasSlots
<1>4. CASE Listen
    BY <1>1, <1>4 DEF PoolInv, AnnouncedAreReady, Listen, laneVars, loopVars, TypeOK, SlotsAccountedFor,
                      ClaimHasSlots, Told
<1> QED BY <1>2, <1>3, <1>4

\* The rotation stays among the lanes (runPool).
LEMMA AdvanceStays ==
    ASSUME TypeOK, NEW n
    PROVE  Advance(n) \in Lanes
<1>1. next + 1 \in Nat
    BY DEF TypeOK, Lanes
<1>2. \A a \in Nat, b \in Nat \ {0} : a % b \in 0 .. (b - 1)
    OBVIOUS
<1> QED BY <1>1, <1>2, PoolAssumption DEF Advance, Lanes

\* The claim loop keeps the invariant (runPool).
LEMMA LoopInv ==
    ASSUME PoolInv, LoopStep \/ JobEnds
    PROVE  PoolInv'
<1>1. AnnouncedAreReady /\ TypeOK /\ SlotsAccountedFor /\ ClaimHasSlots /\ Told
    BY DEF PoolInv
<1>2. CASE Loop
    BY <1>1, <1>2 DEF PoolInv, AnnouncedAreReady, Loop, LoopsTo, Quiet, laneVars, TypeOK, SlotsAccountedFor,
                      ClaimHasSlots, Told
<1>3. CASE Wakes \/ SlotCancelled
    BY <1>1, <1>3 DEF PoolInv, AnnouncedAreReady, Wakes, SlotCancelled, Quiet, laneVars, TypeOK, SlotsAccountedFor,
                      ClaimHasSlots, Told
<1>4. CASE TakeSlots
    <2>1. Want \in Nat
        BY <1>1, PoolAssumption DEF Want, Smaller, TypeOK
    <2>2. slots \in Nat /\ slots < Concurrency /\ taken = 0 /\ got = 0
        BY <1>1, <1>4, PoolAssumption DEF TakeSlots, TypeOK, ClaimHasSlots
    <2>3. CASE Want < 1
        BY <1>1, <1>4, <2>3 DEF PoolInv, AnnouncedAreReady, TakeSlots, Quiet, laneVars, TypeOK, SlotsAccountedFor,
                                ClaimHasSlots, Told
    <2>4. CASE ~(Want < 1)
        <3>1. /\ taken' = Smaller(Want, Concurrency - slots) /\ slots' = slots + taken'
              /\ pc' = "claim" /\ active' = active
            BY <1>4, <2>4 DEF TakeSlots
        <3>2. taken' \in 1 .. (Concurrency - slots)
            BY <2>1, <2>2, <2>4, <3>1, PoolAssumption DEF Smaller
        <3>3. /\ taken' \in 0 .. Concurrency /\ slots' \in 0 .. Concurrency /\ taken' > 0
              /\ 0 \in 0 .. taken' /\ slots' = active' + taken'
            BY <1>1, <2>2, <3>1, <3>2, PoolAssumption DEF TypeOK, SlotsAccountedFor
        <3> QED BY <1>1, <1>4, <2>2, <3>1, <3>3
                DEF PoolInv, AnnouncedAreReady, TakeSlots, Quiet, laneVars, TypeOK, SlotsAccountedFor, ClaimHasSlots, Told
    <2> QED BY <2>3, <2>4
<1>5. CASE Claim
    <2>1. /\ taken \in 1 .. Concurrency /\ next \in Lanes /\ ready[next] \in 0 .. MaxReady
        BY <1>1, <1>5, PoolAssumption DEF Claim, TypeOK, ClaimHasSlots
    <2>2. got' \in 0 .. taken /\ got' <= ready[next] /\ (got' = 0 => ready[next] = 0) /\ got' \in Nat
        BY <1>5, <2>1, PoolAssumption DEF Claim, Smaller
    <2>3. TakeRows(next, got')
        BY <1>5 DEF Claim
    <2>4. /\ ready' \in [Lanes -> 0 .. MaxReady] /\ announced' \in [Lanes -> 0 .. MaxReady]
          /\ \A k \in Lanes : announced[k] = 0 => announced'[k] = 0
          /\ got' = ready[next] => announced'[next] = 0
          /\ AnnouncedAreReady'
        <3> DEFINE n == got'
        <3>1. n \in Nat /\ n <= ready[next] /\ TakeRows(next, n)
            BY <2>2, <2>3
        <3> HIDE DEF n
        <3>2. /\ ready' \in [Lanes -> 0 .. MaxReady] /\ announced' \in [Lanes -> 0 .. MaxReady]
              /\ \A k \in Lanes : announced[k] = 0 => announced'[k] = 0
              /\ n = ready[next] => announced'[next] = 0
              /\ AnnouncedAreReady'
            BY <1>1, <2>1, <3>1, TakeRowsStep
        <3> QED BY <3>2 DEF n
    <2>5. next' \in Lanes /\ last' = next
        BY <1>1, <1>5, AdvanceStays DEF Claim
    <2>6. TypeOK'
        BY <1>1, <1>5, <2>2, <2>4, <2>5 DEF Claim, TypeOK
    <2>7. SlotsAccountedFor' /\ ClaimHasSlots'
        BY <1>1, <1>5 DEF Claim, SlotsAccountedFor, ClaimHasSlots
    <2>8. Told'
        <3>1. \A l \in found : l \in Lanes
            BY <1>1 DEF TypeOK
        <3> QED BY <1>1, <1>5, <2>2, <2>4, <2>5, <3>1 DEF Claim, Told
    <2> QED BY <2>4, <2>6, <2>7, <2>8 DEF PoolInv
<1>6. CASE Claimed
    <2>1. /\ slots' = slots - (taken - got) /\ taken' = 0 /\ active' = active + got /\ got' = 0
          /\ pc' \in {"idle", "loop"} /\ got \in 0 .. taken /\ taken \in 0 .. Concurrency
          /\ slots = active + taken /\ slots \in 0 .. Concurrency /\ active \in 0 .. Concurrency
        BY <1>1, <1>6 DEF Claimed, SlotsAfter, TypeOK, SlotsAccountedFor
    <2>2. /\ slots' \in 0 .. Concurrency /\ active' \in 0 .. Concurrency /\ slots' = active' + taken'
          /\ taken' \in 0 .. Concurrency /\ got' \in 0 .. taken'
        BY <2>1, PoolAssumption
    <2>3. emptyLanes' \in Lanes /\ found' \subseteq Lanes
        BY <1>1, <1>6, PoolAssumption DEF Claimed, TypeOK, Lanes
    <2>4. Told'
        BY <1>1, <1>6, <2>1 DEF Claimed, Quiet, laneVars, Told
    <2> QED BY <1>1, <1>6, <2>1, <2>2, <2>3, <2>4
            DEF PoolInv, AnnouncedAreReady, Claimed, Quiet, laneVars, TypeOK, SlotsAccountedFor, ClaimHasSlots
<1>7. CASE ClaimFails
    <2>1. /\ slots' = slots - (taken - 0) /\ taken' = 0 /\ pc' \in {"loop", "sleep"} /\ got = 0
          /\ taken \in 0 .. Concurrency /\ slots = active + taken /\ slots \in 0 .. Concurrency
          /\ active \in 0 .. Concurrency
        BY <1>1, <1>7 DEF ClaimFails, SlotsAfter, TypeOK, SlotsAccountedFor, ClaimHasSlots
    <2>2. /\ slots' \in 0 .. Concurrency /\ slots' = active + taken'
          /\ taken' \in 0 .. Concurrency /\ got \in 0 .. taken'
        BY <2>1, PoolAssumption
    <2>3. next' \in Lanes /\ last' \in Lanes
        BY <1>1, <1>7, AdvanceStays DEF ClaimFails, TypeOK
    <2> QED BY <1>1, <1>7, <2>1, <2>2, <2>3
            DEF PoolInv, AnnouncedAreReady, ClaimFails, Quiet, laneVars, TypeOK, SlotsAccountedFor, ClaimHasSlots, Told
<1>8. CASE Idle
    BY <1>1, <1>8 DEF PoolInv, AnnouncedAreReady, Idle, Quiet, laneVars, TypeOK, SlotsAccountedFor, ClaimHasSlots, Told
<1>9. CASE JobEnds
    <2>1. /\ active > 0 /\ active' = active - 1 /\ slots' = slots - 1 /\ taken' = taken
          /\ slots = active + taken /\ slots \in 0 .. Concurrency /\ active \in 0 .. Concurrency
          /\ taken \in 0 .. Concurrency
        BY <1>1, <1>9 DEF JobEnds, TypeOK, SlotsAccountedFor
    <2>2. slots' \in 0 .. Concurrency /\ active' \in 0 .. Concurrency /\ slots' = active' + taken'
        BY <2>1, PoolAssumption
    <2> QED BY <1>1, <1>9, <2>2
            DEF PoolInv, AnnouncedAreReady, JobEnds, Quiet, laneVars, TypeOK, SlotsAccountedFor, ClaimHasSlots, Told
<1> QED BY <1>2, <1>3, <1>4, <1>5, <1>6, <1>7, <1>8, <1>9 DEF LoopStep

\* The invariant of a pool, whatever the listener, the thieves and the clock do.
THEOREM PoolInvariant == Spec => []PoolInv
<1>1. ASSUME Init PROVE PoolInv
    <2>1. 0 \in 0 .. MaxReady /\ 0 \in Lanes /\ 0 \in 0 .. Concurrency /\ ClaimBatchSize \in 0 .. ClaimBatchSize
        BY PoolAssumption DEF Lanes
    <2>2. ready \in [Lanes -> 0 .. MaxReady] /\ announced \in [Lanes -> 0 .. MaxReady]
        BY <1>1, <2>1 DEF Init
    <2>3. TypeOK
        <3>1. /\ notifications \in 0 .. MaxReady /\ budget \in 0 .. ClaimBatchSize
              /\ slots \in 0 .. Concurrency /\ active \in 0 .. Concurrency
              /\ taken \in 0 .. Concurrency /\ got \in 0 .. taken
            BY <1>1, <2>1 DEF Init
        <3>2. /\ listening \in BOOLEAN /\ wake \in BOOLEAN /\ usable \in BOOLEAN /\ ctxDone \in BOOLEAN
              /\ next \in Lanes /\ last \in Lanes /\ emptyLanes \in Lanes /\ found \subseteq Lanes
              /\ pc = "loop"
            BY <1>1, <2>1 DEF Init
        <3> QED BY <2>2, <3>1, <3>2 DEF TypeOK
    <2>4. AnnouncedAreReady /\ SlotsAccountedFor /\ ClaimHasSlots /\ Told
        BY <1>1, <2>1 DEF Init, AnnouncedAreReady, SlotsAccountedFor, ClaimHasSlots, Told
    <2> QED BY <2>3, <2>4 DEF PoolInv
<1>2. PoolInv /\ [Next]_vars => PoolInv'
    <2> SUFFICES ASSUME PoolInv, [Next]_vars PROVE PoolInv'
        OBVIOUS
    <2>1. CASE UNCHANGED vars
        BY <2>1 DEF vars, laneVars, loopVars, PoolInv, AnnouncedAreReady, TypeOK, SlotsAccountedFor, ClaimHasSlots, Told
    <2> QED BY <2>1, OthersStep, ListenerStep, LoopInv DEF Next
<1> QED BY <1>1, <1>2, PTL DEF Spec

\* No slot is lost, for any number of slots and lanes (pool.go runPool).
THEOREM SlotsAreNeverLost == Spec => []SlotsAccountedFor
<1>1. PoolInv => SlotsAccountedFor
    BY DEF PoolInv
<1> QED BY <1>1, PoolInvariant, PTL

\* No wake-up is lost, for any number of lanes (pool.go signal, idle).
THEOREM WakeupsAreNeverLost == Spec => []NoLostWakeup
<1>1. PoolInv => NoLostWakeup
    BY DEF PoolInv, Told, NoLostWakeup
<1> QED BY <1>1, PoolInvariant, PTL

==============================================================================
