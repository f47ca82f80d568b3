--------------------------- MODULE PaymentsProofs ---------------------------
(***************************************************************************)
(* What is proved of payments and refunds: for every number of schedules,  *)
(* payments and refunds, of concurrent requests, and of deliveries of      *)
(* their events.                                                           *)
(***************************************************************************)
EXTENDS Refunds, FiniteSetTheorems, TLAPS

-----------------------------------------------------------------------------
(***************************************************************************)
(* Money.  An amount is counted as that many pairs.                        *)
(***************************************************************************)

\* The minor units f gives to the members of S, none more than m.
Units(K, m, f, S) == {u \in K \X (1..m) : u[1] \in S /\ u[2] <= f[u[1]]}

\* They are finitely many.
LEMMA UnitsType ==
    ASSUME NEW K, IsFiniteSet(K), NEW m \in Nat, NEW f, NEW S
    PROVE  IsFiniteSet(Units(K, m, f, S)) /\ Cardinality(Units(K, m, f, S)) \in Nat
<1>1. IsFiniteSet(1..m)
  BY FS_Interval
<1>2. IsFiniteSet(K \X (1..m))
  BY <1>1, FS_Product
<1>3. IsFiniteSet(Units(K, m, f, S))
  BY <1>2, FS_Subset DEF Units
<1> QED BY <1>3, FS_CardinalityType

\* Those of one member are as many as f says.
LEMMA UnitsOne ==
    ASSUME NEW K, NEW m \in Nat, NEW f \in [K -> 0..m], NEW k \in K
    PROVE  Cardinality(Units(K, m, f, {k})) = f[k]
<1> DEFINE n == f[k]
           U == Units(K, m, f, {k})
           g == [i \in 1..n |-> <<k, i>>]
<1>1. n \in Nat /\ n <= m
  OBVIOUS
<1>2. U = {<<k, i>> : i \in 1..n}
  BY <1>1 DEF Units
<1>3. g \in Bijection(1..n, U)
  <2>1. g \in [1..n -> U]
    BY <1>2
  <2>2. \A i, j \in 1..n : g[i] = g[j] => i = j
    OBVIOUS
  <2>3. \A u \in U : \E i \in 1..n : g[i] = u
    BY <1>2
  <2> QED BY <2>1, <2>2, <2>3 DEF Bijection, Injection, Surjection, IsInjective
<1>4. IsFiniteSet(1..n) /\ Cardinality(1..n) = n
  <2> HIDE DEF n
  <2>1. 1 \in Int /\ n \in Int
    BY <1>1
  <2>2. IsFiniteSet(1..n) /\ Cardinality(1..n) = IF 1 > n THEN 0 ELSE n - 1 + 1
    BY <2>1, FS_Interval
  <2> QED BY <1>1, <2>2
<1>5. ExistsBijection(1..n, U)
  BY <1>3 DEF ExistsBijection
<1> HIDE DEF g, U
<1> QED BY <1>4, <1>5, FS_Bijection DEF U

\* Those of disjoint sets add up.
LEMMA UnitsUnion ==
    ASSUME NEW K, IsFiniteSet(K), NEW m \in Nat, NEW f, NEW S, NEW T, S \cap T = {}
    PROVE  Cardinality(Units(K, m, f, S \cup T)) =
             Cardinality(Units(K, m, f, S)) + Cardinality(Units(K, m, f, T))
<1> DEFINE A == Units(K, m, f, S)
           B == Units(K, m, f, T)
<1>1. Units(K, m, f, S \cup T) = A \cup B
  BY DEF Units
<1>2. A \cap B = {}
  BY DEF Units
<1>3. IsFiniteSet(A) /\ IsFiniteSet(B) /\ Cardinality(A) \in Nat /\ Cardinality(B) \in Nat
  BY UnitsType
<1>4. Cardinality(A \cap B) = 0
  BY <1>2, FS_EmptySet
<1> HIDE DEF A, B
<1>5. Cardinality(A \cup B) = Cardinality(A) + Cardinality(B) - Cardinality(A \cap B)
  BY <1>3, FS_Union
<1>6. Cardinality(A \cup B) = Cardinality(A) + Cardinality(B)
  BY <1>3, <1>4, <1>5
<1> QED BY <1>1, <1>6 DEF A, B

\* More members have at least as many.
LEMMA UnitsMonotone ==
    ASSUME NEW K, IsFiniteSet(K), NEW m \in Nat, NEW f, NEW S, NEW T, S \subseteq T
    PROVE  Cardinality(Units(K, m, f, S)) <= Cardinality(Units(K, m, f, T))
<1>1. Units(K, m, f, S) \subseteq Units(K, m, f, T)
  BY DEF Units
<1> QED BY <1>1, UnitsType, FS_Subset

\* One more member adds what f gives it.
LEMMA UnitsAdd ==
    ASSUME NEW K, IsFiniteSet(K), NEW m \in Nat, NEW f \in [K -> 0..m], NEW S, NEW k \in K,
           k \notin S
    PROVE  Cardinality(Units(K, m, f, S \cup {k})) = Cardinality(Units(K, m, f, S)) + f[k]
<1>1. S \cap {k} = {}
  OBVIOUS
<1>2. Cardinality(Units(K, m, f, S \cup {k})) =
        Cardinality(Units(K, m, f, S)) + Cardinality(Units(K, m, f, {k}))
  BY <1>1, UnitsUnion
<1> QED BY <1>2, UnitsOne

\* The charges of sessions are such units, before a step and after it.
LEMMA ChargedUnits ==
    ASSUME NEW S
    PROVE  /\ Charged(S) = Cardinality(Units(Sessions, MaxAmount, amount, S))
           /\ Charged(S)' = Cardinality(Units(Sessions, MaxAmount, amount', S'))
BY DEF Charged, Units

\* The charges of a set of sessions are a natural number.
LEMMA ChargedType == ASSUME NEW S PROVE Charged(S) \in Nat
BY UnitsType, ChargedUnits, PaymentsAssumption

-----------------------------------------------------------------------------
(***************************************************************************)
(* Types.                                                                  *)
(***************************************************************************)

\* A delivery that is not idle works on an event.
HandlerWorks == \A w \in Receivers : handler[w] # "idle" => working[w] \in Events

\* What schedules still owe is a natural number, and so is what a credit note
\* takes off each.
LEMMA CreditType ==
    ASSUME TypeOK
    PROVE  /\ \A s \in Schedules : Outstanding(s) \in 0..MaxAmount
           /\ \A S : OutstandingIn(S) \in Nat
           /\ \A n \in CreditNotes, s \in Schedules : CreditFor(n, s) \in Nat
<1>1. \A s \in Schedules : Outstanding(s) \in 0..MaxAmount
  BY PaymentsAssumption DEF TypeOK, Outstanding, Settled, Remaining
<1>2. ASSUME NEW S PROVE OutstandingIn(S) \in Nat
  <2> DEFINE U == {u \in Schedules \X (1..MaxAmount) : u[1] \in S /\ u[2] <= Outstanding(u[1])}
  <2>1. IsFiniteSet(Schedules) /\ IsFiniteSet(1..MaxAmount)
    BY PaymentsAssumption, FS_Interval DEF Schedules
  <2>2. IsFiniteSet(Schedules \X (1..MaxAmount))
    BY <2>1, FS_Product
  <2>3. IsFiniteSet(U)
    BY <2>2, FS_Subset
  <2> QED BY <2>3, FS_CardinalityType DEF OutstandingIn
<1>3. ASSUME NEW n \in CreditNotes, NEW s \in Schedules PROVE CreditFor(n, s) \in Nat
  <2>1. OutstandingIn(1..(s - 1)) \in Nat /\ CreditAmount[n] \in Nat /\ Outstanding(s) \in Nat
    BY <1>1, <1>2, PaymentsAssumption
  <2> QED BY <2>1 DEF CreditFor
<1> QED BY <1>1, <1>2, <1>3

\* A checkout request leaves every variable in its type.
LEMMA RequestTyped ==
    ASSUME TypeOK, HandlerWorks, NEW r \in Requests, RequestStep(r) \/ RequestCrash(r)
    PROVE  TypeOK' /\ HandlerWorks'
<1> USE DEF scheduleVars, lockVars, invoiceVars, providerVars, requestVars, handlerVars,
            HandlerWorks
<1>0. KeyOf(r) \in Sessions /\ Target(r) \in Schedules
  BY PaymentsAssumption DEF KeyOf, Target
<1>11. 0 \in 0..MaxAmount
  BY PaymentsAssumption
<1>1. CASE CheckoutStart(r)
  BY <1>1 DEF TypeOK, CheckoutStart
<1>2. CASE CheckoutLock(r)
  BY <1>0, <1>2 DEF TypeOK, CheckoutLock
<1>3. CASE CheckoutPrice(r)
  <2>1. ~Settled(Target(r)) => Remaining(Target(r)) \in 0..MaxAmount
    BY <1>0, PaymentsAssumption DEF TypeOK, Settled, Remaining
  <2> QED BY <1>3, <2>1 DEF TypeOK, CheckoutPrice
<1>4. CASE CheckoutOpen(r)
  <2>1. checkout' \in [Sessions -> {"none", "open", "paid", "failed"}]
        /\ amount' \in [Sessions -> 0..MaxAmount]
    <3>1. /\ checkout \in [Sessions -> {"none", "open", "paid", "failed"}]
          /\ amount \in [Sessions -> 0..MaxAmount] /\ price[r] \in 0..MaxAmount
      BY DEF TypeOK
    <3> QED BY <1>0, <1>4, <3>1 DEF CheckoutOpen
  <2>2. request' \in [Requests ->
          {"idle", "started", "locked", "priced", "opened", "inserted", "failing"}]
    BY <1>4 DEF TypeOK, CheckoutOpen
  <2> QED BY <1>4, <2>1, <2>2 DEF TypeOK, CheckoutOpen
<1>5. CASE CheckoutRefused(r)
  BY <1>5 DEF TypeOK, CheckoutRefused
<1>6. CASE CheckoutInsert(r)
  BY <1>6 DEF TypeOK, CheckoutInsert
<1>7. CASE CheckoutRetain(r)
  <2>1. /\ lockUntil' \in [Schedules -> {"request", "session", "past"}]
        /\ request' \in [Requests ->
             {"idle", "started", "locked", "priced", "opened", "inserted", "failing"}]
    <3>1. /\ lockUntil \in [Schedules -> {"request", "session", "past"}]
          /\ request \in [Requests ->
               {"idle", "started", "locked", "priced", "opened", "inserted", "failing"}]
      BY DEF TypeOK
    <3> QED BY <1>7, <3>1 DEF CheckoutRetain
  <2>2. price' \in [Requests -> 0..MaxAmount]
    BY <1>7, <1>11 DEF TypeOK, CheckoutRetain
  <2> QED BY <1>7, <2>1, <2>2 DEF TypeOK, CheckoutRetain
<1>8. CASE CheckoutRelease(r)
  <2>1. /\ lockKey' \in [Schedules -> Sessions \cup {None}]
        /\ lockUntil' \in [Schedules -> {"request", "session", "past"}]
    BY <1>8 DEF TypeOK, CheckoutRelease, Unlocked
  <2>2. price' \in [Requests -> 0..MaxAmount]
    BY <1>8, <1>11 DEF TypeOK, CheckoutRelease
  <2>3. request' \in [Requests ->
          {"idle", "started", "locked", "priced", "opened", "inserted", "failing"}]
    BY <1>8 DEF TypeOK, CheckoutRelease
  <2> QED BY <1>8, <2>1, <2>2, <2>3 DEF TypeOK, CheckoutRelease
<1>9. CASE RequestCrash(r)
  BY <1>9, <1>11, PaymentsAssumption DEF TypeOK, RequestCrash
<1> QED BY <1>1, <1>2, <1>3, <1>4, <1>5, <1>6, <1>7, <1>8, <1>9 DEF RequestStep

\* So does the delivery of an event.
LEMMA ReceiverTyped ==
    ASSUME TypeOK, HandlerWorks, NEW w \in Receivers,
           ReceiverStep(w) \/ ReceiverCrash(w) \/ \E e \in Events : EventClaim(w, e)
    PROVE  TypeOK' /\ HandlerWorks'
<1> USE DEF scheduleVars, lockVars, invoiceVars, providerVars, requestVars, handlerVars,
            HandlerWorks
<1>0. NothingSeen \in [allocated : BOOLEAN, paid : Nat, credited : Nat, invoicePaid : Nat,
                       invoiceCredited : Nat]
  BY DEF NothingSeen
<1>1. handler[w] # "idle" => Paying(w) \in Sessions /\ PayingFor(w) \in Schedules
  BY PaymentsAssumption DEF Paying, PayingFor
<1>2. ASSUME NEW e \in Events, EventClaim(w, e) PROVE TypeOK' /\ HandlerWorks'
  BY <1>2 DEF TypeOK, EventClaim
<1>3. ASSUME NEW status \in {"PROCESSED", "FAILED"}, Answered(w, status)
      PROVE  /\ event' \in [Events -> {"NONE", "PROCESSING", "PROCESSED", "FAILED"}]
             /\ handler' \in [Receivers -> {"idle", "claimed", "read"}]
             /\ working' \in [Receivers -> Events \cup {None}]
             /\ seen' \in [Receivers -> [allocated : BOOLEAN, paid : Nat, credited : Nat,
                                         invoicePaid : Nat, invoiceCredited : Nat]]
             /\ HandlerWorks'
  BY <1>0, <1>3 DEF TypeOK, Answered
<1>4. CASE PayFailed(w)
  <2>1. session' \in [Sessions -> {"NONE", "PENDING", "COMPLETED", "FAILED"}]
    BY <1>4 DEF TypeOK, PayFailed
  <2>2. /\ lockKey' \in [Schedules -> Sessions \cup {None}]
        /\ lockUntil' \in [Schedules -> {"request", "session", "past"}]
    <3>1. /\ lockKey \in [Schedules -> Sessions \cup {None}]
          /\ lockUntil \in [Schedules -> {"request", "session", "past"}]
      BY DEF TypeOK
    <3> QED BY <1>4, <3>1 DEF PayFailed, Unlocked
  <2>3. Answered(w, "PROCESSED")
    BY <1>4 DEF PayFailed
  <2> QED BY <1>3, <1>4, <2>1, <2>2, <2>3 DEF TypeOK, PayFailed
<1>5. CASE PayRead(w)
  <2>1. [allocated |-> Paying(w) \in allocated,
         paid |-> paid[PayingFor(w)], credited |-> credited[PayingFor(w)],
         invoicePaid |-> invoicePaid, invoiceCredited |-> invoiceCredited]
           \in [allocated : BOOLEAN, paid : Nat, credited : Nat, invoicePaid : Nat,
                invoiceCredited : Nat]
    BY <1>1, <1>5 DEF TypeOK, PayRead
  <2> QED BY <1>1, <1>5, <2>1 DEF TypeOK, PayRead
<1>6. CASE PayReplay(w)
  BY <1>3, <1>6 DEF TypeOK, PayReplay
<1>7. CASE PayReject(w)
  BY <1>3, <1>7 DEF TypeOK, PayReject
<1>8. CASE PayCommit(w)
  <2>1. Paying(w) \in Sessions /\ PayingFor(w) \in Schedules /\ amount[Paying(w)] \in Nat
    BY <1>1, <1>8 DEF TypeOK, PayCommit
  <2>2. Pay(Paying(w), seen[w]) /\ Answered(w, "PROCESSED")
    BY <1>8 DEF PayCommit
  <2>3. /\ paid' \in [Schedules -> Nat]
        /\ scheduleStatus' \in [Schedules -> {"DUE", "PARTIALLY_PAID", "PAID"}]
        /\ lockKey' \in [Schedules -> Sessions \cup {None}]
        /\ lockUntil' \in [Schedules -> {"request", "session", "past"}]
        /\ invoicePaid' \in Nat
        /\ invoiceStatus' \in {"ISSUED", "PARTIALLY_PAID", "PAID"}
        /\ booking' \in {"AWAITING_PAYMENT", "CONFIRMED"}
        /\ session' \in [Sessions -> {"NONE", "PENDING", "COMPLETED", "FAILED"}]
        /\ allocated' \subseteq Sessions
    BY <2>1, <2>2 DEF TypeOK, Pay, PayingFor, Unlocked
  <2> QED BY <1>3, <1>8, <2>2, <2>3 DEF TypeOK, PayCommit
<1>9. CASE PayAbort(w)
  BY <1>3, <1>9 DEF TypeOK, PayAbort
<1>10. CASE ReceiverCrash(w)
  BY <1>0, <1>10, PaymentsAssumption DEF TypeOK, ReceiverCrash
<1> QED BY <1>2, <1>4, <1>5, <1>6, <1>7, <1>8, <1>9, <1>10 DEF ReceiverStep

\* So does every step.
LEMMA StepTyped ==
    ASSUME TypeOK, HandlerWorks, [Next]_vars
    PROVE  TypeOK' /\ HandlerWorks'
<1> USE PaymentsAssumption
        DEF scheduleVars, lockVars, invoiceVars, providerVars, requestVars, handlerVars,
            HandlerWorks
<1>1. ASSUME NEW s \in Schedules, LockLapse(s) PROVE TypeOK' /\ HandlerWorks'
  BY <1>1 DEF TypeOK, LockLapse
<1>2. ASSUME NEW k \in Sessions, SessionLapse(k) \/ Capture(k) \/ CheckoutFails(k)
      PROVE  TypeOK' /\ HandlerWorks'
  BY <1>2 DEF TypeOK, SessionLapse, Capture, CheckoutFails
<1>3. ASSUME NEW n \in CreditNotes, CreditNote(n) PROVE TypeOK' /\ HandlerWorks'
  <2>1. \A s \in Schedules : CreditFor(n, s) \in Nat
    BY CreditType
  <2>2. /\ credited' \in [Schedules -> Nat]
        /\ scheduleStatus' \in [Schedules -> {"DUE", "PARTIALLY_PAID", "PAID"}]
        /\ invoiceCredited' \in Nat
        /\ invoiceStatus' \in {"ISSUED", "PARTIALLY_PAID", "PAID"}
        /\ issued' \subseteq CreditNotes
    BY <1>3, <2>1 DEF TypeOK, CreditNote, CreditRows
  <2> QED BY <1>3, <2>2 DEF TypeOK, CreditNote
<1>4. CASE UNCHANGED vars
  BY <1>4 DEF TypeOK, vars
<1> QED BY <1>1, <1>2, <1>3, <1>4, RequestTyped, ReceiverTyped DEF Next

\* The first state is typed.
LEMMA InitTyped == Init => TypeOK /\ HandlerWorks
<1> SUFFICES ASSUME Init PROVE TypeOK /\ HandlerWorks
  OBVIOUS
<1>1. seen \in [Receivers -> [allocated : BOOLEAN, paid : Nat, credited : Nat,
                              invoicePaid : Nat, invoiceCredited : Nat]]
  BY DEF Init, NothingSeen
<1>2. amount \in [Sessions -> 0..MaxAmount] /\ price \in [Requests -> 0..MaxAmount]
      /\ crashes \in 0..MaxCrashes
  BY PaymentsAssumption DEF Init
<1> QED BY <1>1, <1>2 DEF Init, TypeOK, HandlerWorks

\* Every variable has its type in every behaviour of an invoice
\* (createPaymentSession, receiveProviderEvent, processSuccessfulPayment,
\* creditNote).
THEOREM PaymentsTyped == Spec => [](TypeOK /\ HandlerWorks)
<1>1. Init => TypeOK /\ HandlerWorks
  BY InitTyped
<1>2. (TypeOK /\ HandlerWorks) /\ [Next]_vars => (TypeOK /\ HandlerWorks)'
  BY StepTyped
<1> QED BY <1>1, <1>2, PTL DEF Spec

-----------------------------------------------------------------------------
(***************************************************************************)
(* What a step may never do.                                               *)
(***************************************************************************)

\* A checkout is opened once, with its amount; a session and an allocation
\* stay; what a schedule owes never grows.
Forward ==
    /\ \A k \in Sessions :
         /\ checkout[k] # "none" => checkout'[k] # "none" /\ amount'[k] = amount[k]
         /\ session[k] # "NONE" => session'[k] # "NONE"
    /\ allocated \subseteq allocated'
    /\ \A s \in Schedules : Remaining(s)' <= Remaining(s)

\* A step that touches neither money nor checkouts.
Idling == UNCHANGED <<paid, credited, checkout, amount, session, allocated>>

\* Such a step goes forward.
LEMMA IdlingForward == ASSUME TypeOK, Idling PROVE Forward
BY PaymentsAssumption DEF TypeOK, Idling, Forward, Remaining

\* Every step goes forward.
LEMMA StepForward ==
    ASSUME TypeOK, HandlerWorks, [Next]_vars
    PROVE  Forward
<1> USE DEF vars, scheduleVars, lockVars, invoiceVars, providerVars, requestVars, handlerVars
<1>1. CASE Idling
  BY <1>1, IdlingForward
<1>2. ASSUME NEW r \in Requests, CheckoutOpen(r) PROVE Forward
  <2>1. UNCHANGED <<paid, credited, session, allocated>>
    BY <1>2 DEF CheckoutOpen
  <2>2. \A k \in Sessions : checkout[k] # "none" => checkout'[k] # "none" /\ amount'[k] = amount[k]
    BY <1>2, PaymentsAssumption DEF CheckoutOpen, TypeOK, KeyOf
  <2> QED BY <2>1, <2>2, PaymentsAssumption DEF Forward, TypeOK, Remaining
<1>3. ASSUME NEW r \in Requests, CheckoutInsert(r) PROVE Forward
  <2>1. UNCHANGED <<paid, credited, checkout, amount, allocated>>
    BY <1>3 DEF CheckoutInsert
  <2>2. \A k \in Sessions : session[k] # "NONE" => session'[k] # "NONE"
    BY <1>3 DEF CheckoutInsert, TypeOK
  <2> QED BY <2>1, <2>2, PaymentsAssumption DEF Forward, TypeOK, Remaining
<1>4. ASSUME NEW k \in Sessions, Capture(k) \/ CheckoutFails(k) PROVE Forward
  <2>1. UNCHANGED <<paid, credited, amount, session, allocated>>
    BY <1>4 DEF Capture, CheckoutFails
  <2>2. \A j \in Sessions : checkout[j] # "none" => checkout'[j] # "none"
    BY <1>4 DEF Capture, CheckoutFails, TypeOK
  <2> QED BY <2>1, <2>2, PaymentsAssumption DEF Forward, TypeOK, Remaining
<1>5. ASSUME NEW w \in Receivers, PayFailed(w) PROVE Forward
  <2>1. UNCHANGED <<paid, credited, checkout, amount, allocated>>
    BY <1>5 DEF PayFailed
  <2>2. \A k \in Sessions : session[k] # "NONE" => session'[k] # "NONE"
    BY <1>5 DEF PayFailed, TypeOK
  <2> QED BY <2>1, <2>2, PaymentsAssumption DEF Forward, TypeOK, Remaining
<1>6. ASSUME NEW w \in Receivers, PayCommit(w) PROVE Forward
  <2>1. Paying(w) \in Sessions /\ PayingFor(w) \in Schedules /\ amount[Paying(w)] \in Nat
    BY <1>6, PaymentsAssumption DEF PayCommit, HandlerWorks, Paying, PayingFor, TypeOK
  <2>2. UNCHANGED <<credited, checkout, amount>> /\ Pay(Paying(w), seen[w])
    BY <1>6 DEF PayCommit
  <2>3. \A k \in Sessions : session[k] # "NONE" => session'[k] # "NONE"
    BY <2>2 DEF Pay, TypeOK
  <2>4. allocated \subseteq allocated'
    BY <2>2 DEF Pay
  <2>5. \A s \in Schedules : paid'[s] \in Nat /\ paid'[s] >= paid[s]
    BY <2>1, <2>2 DEF Pay, TypeOK, PayingFor
  <2> QED BY <2>2, <2>3, <2>4, <2>5, PaymentsAssumption DEF Forward, TypeOK, Remaining
<1>7. ASSUME NEW n \in CreditNotes, CreditNote(n) PROVE Forward
  <2>1. UNCHANGED <<paid, checkout, amount, session, allocated>>
    BY <1>7 DEF CreditNote
  <2>2. \A s \in Schedules : credited'[s] = credited[s] + CreditFor(n, s)
    BY <1>7 DEF CreditNote, CreditRows
  <2>3. \A s \in Schedules : CreditFor(n, s) \in Nat
    BY CreditType
  <2>4. \A s \in Schedules : credited[s] \in Nat /\ paid[s] \in Nat /\ ScheduleAmount[s] \in Nat
    BY PaymentsAssumption DEF TypeOK
  <2>5. \A s \in Schedules : Remaining(s)' <= Remaining(s)
    BY <2>1, <2>2, <2>3, <2>4 DEF Remaining
  <2> QED BY <2>1, <2>5 DEF Forward
<1> QED
  BY <1>1, <1>2, <1>3, <1>4, <1>5, <1>6, <1>7
     DEF Idling, Next, RequestStep, CheckoutStart, CheckoutLock, CheckoutPrice, CheckoutRefused,
         CheckoutRetain, CheckoutRelease, RequestCrash, LockLapse, SessionLapse, EventClaim,
         ReceiverStep, PayRead, PayReplay, PayReject, PayAbort, ReceiverCrash

-----------------------------------------------------------------------------
(***************************************************************************)
(* The money that was captured.                                            *)
(***************************************************************************)

\* A delivery is about a stored session whose checkout was opened, and one that
\* saw an allocation was not mistaken.
HandlersBacked ==
    \A w \in Receivers :
        /\ handler[w] # "idle" => session[Paying(w)] # "NONE" /\ checkout[Paying(w)] # "none"
        /\ handler[w] = "read" /\ seen[w].allocated => Paying(w) \in allocated

\* What was allocated had a checkout.
AllocatedCharged == \A k \in allocated : checkout[k] # "none"

\* The inductive invariant of the money.
MoneyInv == HandlersBacked /\ AllocatedCharged /\ PaidMatchesAllocations /\ CapturedRetained

\* The charges of sessions whose amount does not change do not change.
LEMMA ChargedKept ==
    ASSUME NEW S, \A k \in S \cap Sessions : amount'[k] = amount[k]
    PROVE  Cardinality(Units(Sessions, MaxAmount, amount', S)) = Charged(S)
<1>1. Units(Sessions, MaxAmount, amount', S) = Units(Sessions, MaxAmount, amount, S)
  BY DEF Units
<1> QED BY <1>1, ChargedUnits

\* A step without allocation keeps the charges of what was allocated.
LEMMA ChargesKept ==
    ASSUME AllocatedCharged, Forward, UNCHANGED allocated
    PROVE  /\ Charged(allocated)' = Charged(allocated)
           /\ \A s \in Schedules :
                Charged(allocated \cap SessionsOf(s))' = Charged(allocated \cap SessionsOf(s))
<1>1. \A k \in allocated \cap Sessions : amount'[k] = amount[k]
  BY DEF AllocatedCharged, Forward
<1>2. Charged(allocated)' = Charged(allocated)
  BY <1>1, ChargedKept, ChargedUnits
<1>3. ASSUME NEW s \in Schedules
      PROVE  Charged(allocated \cap SessionsOf(s))' = Charged(allocated \cap SessionsOf(s))
  <2>1. SessionsOf(s)' = SessionsOf(s)
    BY DEF SessionsOf
  <2>2. Cardinality(Units(Sessions, MaxAmount, amount', allocated \cap SessionsOf(s))) =
          Charged(allocated \cap SessionsOf(s))
    BY <1>1, ChargedKept
  <2> QED BY <2>1, <2>2, ChargedUnits
<1> QED BY <1>2, <1>3

\* So the balances stay equal to the allocations.
LEMMA BalancesKept ==
    ASSUME PaidMatchesAllocations, AllocatedCharged, Forward,
           UNCHANGED <<paid, invoicePaid, allocated>>
    PROVE  PaidMatchesAllocations'
BY ChargesKept DEF PaidMatchesAllocations

\* An allocation adds to the charges and to the balances alike.
LEMMA ChargesPaid ==
    ASSUME TypeOK, NEW k \in Sessions, NEW z, k \notin allocated, Pay(k, z), amount' = amount
    PROVE  /\ amount[k] \in Nat
           /\ invoicePaid' = invoicePaid + amount[k]
           /\ Charged(allocated)' = Charged(allocated) + amount[k]
           /\ \A s \in Schedules :
                LET A == allocated \cap SessionsOf(s) IN
                IF s = SessionSchedule[k]
                THEN paid'[s] = paid[s] + amount[k] /\ Charged(A)' = Charged(A) + amount[k]
                ELSE paid'[s] = paid[s] /\ Charged(A)' = Charged(A)
<1> DEFINE t == SessionSchedule[k]
<1>0. /\ IsFiniteSet(Sessions) /\ MaxAmount \in Nat /\ amount \in [Sessions -> 0..MaxAmount]
      /\ t \in Schedules
  BY PaymentsAssumption DEF TypeOK
<1>1. allocated' = allocated \cup {k} /\ invoicePaid' = invoicePaid + amount[k]
  BY DEF Pay
<1>2. \A s \in Schedules : paid'[s] = IF s = t THEN paid[s] + amount[k] ELSE paid[s]
  BY <1>0 DEF Pay, TypeOK
<1>3. \A S : k \notin S => Charged(S \cup {k}) = Charged(S) + amount[k]
  BY <1>0, UnitsAdd, ChargedUnits
<1>4. Charged(allocated)' = Charged(allocated) + amount[k]
  <2>1. Charged(allocated \cup {k}) = Charged(allocated) + amount[k]
    BY <1>3
  <2> QED BY <1>1, <2>1, ChargedUnits
<1>5. ASSUME NEW s \in Schedules
      PROVE  Charged(allocated \cap SessionsOf(s))' =
               IF s = t THEN Charged(allocated \cap SessionsOf(s)) + amount[k]
                        ELSE Charged(allocated \cap SessionsOf(s))
  <2> DEFINE A == allocated \cap SessionsOf(s)
  <2>1. SessionsOf(s)' = SessionsOf(s)
    BY DEF SessionsOf
  <2>2. Charged(A)' = Charged((allocated \cup {k}) \cap SessionsOf(s))
    BY <1>1, <2>1, ChargedUnits
  <2>3. CASE s = t
    <3>1. (allocated \cup {k}) \cap SessionsOf(s) = A \cup {k} /\ k \notin A
      BY <2>3 DEF SessionsOf
    <3> QED BY <1>3, <2>2, <2>3, <3>1
  <2>4. CASE s # t
    <3>1. (allocated \cup {k}) \cap SessionsOf(s) = A
      BY <2>4 DEF SessionsOf
    <3> QED BY <2>2, <2>4, <3>1
  <2> QED BY <2>3, <2>4
<1>6. amount[k] \in Nat
  BY <1>0
<1> QED BY <1>1, <1>2, <1>4, <1>5, <1>6

\* So the balances are still equal to the allocations.
LEMMA BalancesPaid ==
    ASSUME TypeOK, PaidMatchesAllocations, NEW k \in Sessions, NEW z, k \notin allocated,
           Pay(k, z), amount' = amount
    PROVE  PaidMatchesAllocations'
<1>1. invoicePaid' = Charged(allocated)'
  BY ChargesPaid DEF PaidMatchesAllocations
<1>2. \A s \in Schedules : paid'[s] = Charged(allocated \cap SessionsOf(s))'
  BY ChargesPaid DEF PaidMatchesAllocations
<1> QED BY <1>1, <1>2 DEF PaidMatchesAllocations

\* A delivery preserves the invariant of the money.
LEMMA ReceiverMoney ==
    ASSUME TypeOK, HandlerWorks, MoneyInv, Forward, NEW w \in Receivers,
           ReceiverStep(w) \/ ReceiverCrash(w) \/ \E e \in Events : EventClaim(w, e)
    PROVE  MoneyInv'
<1> USE DEF scheduleVars, lockVars, invoiceVars, providerVars, requestVars, handlerVars, MoneyInv,
            HandlersBacked, AllocatedCharged, CapturedRetained
<1>0. handler[w] # "idle" => working[w] \in Events /\ Paying(w) \in Sessions
  BY PaymentsAssumption DEF HandlerWorks, Paying
<1>1. ASSUME NEW e \in Events, EventClaim(w, e) PROVE MoneyInv'
  <2>1. HandlersBacked'
    <3>1. \A v \in Receivers : v # w =>
            handler'[v] = handler[v] /\ working'[v] = working[v] /\ seen'[v] = seen[v]
      BY <1>1 DEF EventClaim
    <3>2. handler'[w] = "claimed" /\ working'[w] = e
      BY <1>1 DEF EventClaim, TypeOK
    <3>3. session[EventSession[e]] # "NONE" /\ checkout[EventSession[e]] # "none"
      BY <1>1 DEF EventClaim, Outcome
    <3>4. UNCHANGED <<session, checkout, allocated>>
      BY <1>1 DEF EventClaim
    <3> QED BY <3>1, <3>2, <3>3, <3>4 DEF Paying
  <2>2. AllocatedCharged' /\ PaidMatchesAllocations'
    BY <1>1, BalancesKept DEF EventClaim
  <2>3. CapturedRetained'
    BY <1>1 DEF EventClaim, TypeOK
  <2> QED BY <2>1, <2>2, <2>3
<1>2. ASSUME NEW status, Answered(w, status), Forward, checkout' = checkout
      PROVE  HandlersBacked'
  <2>1. \A v \in Receivers : v # w =>
          handler'[v] = handler[v] /\ working'[v] = working[v] /\ seen'[v] = seen[v]
    BY <1>2 DEF Answered
  <2>2. handler'[w] = "idle"
    BY <1>2 DEF Answered, TypeOK
  <2>3. \A v \in Receivers : handler[v] # "idle" => Paying(v) \in Sessions
    BY PaymentsAssumption DEF HandlerWorks, Paying
  <2>4. \A v \in Receivers : v # w => Paying(v)' = Paying(v)
    BY <2>1 DEF Paying
  <2> QED BY <1>2, <2>1, <2>2, <2>3, <2>4 DEF Forward
<1>3. ASSUME NEW status, Answered(w, status), handler[w] # "idle", allocated \subseteq allocated',
             status = "PROCESSED" /\ EventKind[working[w]] = "success" => Paying(w) \in allocated'
      PROVE  CapturedRetained'
  BY <1>0, <1>3 DEF Answered, TypeOK, Paying
<1>4. CASE PayFailed(w)
  <2>1. /\ Answered(w, "PROCESSED") /\ EventKind[working[w]] = "failed"
        /\ UNCHANGED <<checkout, allocated, paid, invoicePaid>>
    BY <1>4 DEF PayFailed
  <2>2. CapturedRetained'
    BY <1>3, <1>4, <2>1 DEF PayFailed
  <2> QED BY <1>2, <2>1, <2>2, BalancesKept
<1>5. CASE PayRead(w)
  <2>1. HandlersBacked'
    BY <1>5 DEF PayRead, TypeOK, Paying
  <2> QED BY <1>5, <2>1, BalancesKept DEF PayRead
<1>6. CASE PayReplay(w)
  <2>1. /\ Answered(w, "PROCESSED") /\ handler[w] = "read" /\ Paying(w) \in allocated
        /\ UNCHANGED <<checkout, allocated, paid, invoicePaid>>
    BY <1>6 DEF PayReplay
  <2>2. CapturedRetained'
    BY <1>3, <2>1
  <2> QED BY <1>2, <2>1, <2>2, BalancesKept
<1>7. CASE PayReject(w) \/ PayAbort(w)
  <2>1. /\ Answered(w, "FAILED") /\ handler[w] # "idle"
        /\ UNCHANGED <<checkout, allocated, paid, invoicePaid>>
    BY <1>7 DEF PayReject, PayAbort
  <2>2. CapturedRetained'
    BY <1>3, <2>1
  <2> QED BY <1>2, <2>1, <2>2, BalancesKept
<1>8. CASE PayCommit(w)
  <2>1. /\ Answered(w, "PROCESSED") /\ handler[w] = "read" /\ Paying(w) \in Sessions
        /\ Paying(w) \notin allocated /\ Pay(Paying(w), seen[w])
        /\ UNCHANGED <<checkout, amount>>
    BY <1>0, <1>8 DEF PayCommit
  <2>2. allocated' = allocated \cup {Paying(w)}
    BY <2>1 DEF Pay
  <2>3. CapturedRetained'
    BY <1>3, <2>1, <2>2
  <2>4. PaidMatchesAllocations'
    BY <2>1, BalancesPaid
  <2> QED BY <1>2, <2>1, <2>2, <2>3, <2>4
<1>9. CASE ReceiverCrash(w)
  <2>1. HandlersBacked'
    BY <1>9 DEF ReceiverCrash, TypeOK, Paying
  <2> QED BY <1>9, <2>1, BalancesKept DEF ReceiverCrash
<1> QED BY <1>1, <1>4, <1>5, <1>6, <1>7, <1>8, <1>9 DEF ReceiverStep

\* So does every step.
LEMMA MoneyStep ==
    ASSUME TypeOK, HandlerWorks, MoneyInv, [Next]_vars
    PROVE  MoneyInv'
<1> USE DEF vars, scheduleVars, lockVars, invoiceVars, providerVars, requestVars, handlerVars
<1>1. Forward
  BY StepForward
<1>2. ASSUME UNCHANGED <<paid, invoicePaid, allocated, event, handlerVars>> PROVE MoneyInv'
  <2>1. \A w \in Receivers : handler[w] # "idle" => Paying(w) \in Sessions
    BY PaymentsAssumption DEF HandlerWorks, Paying
  <2>2. \A w \in Receivers : Paying(w)' = Paying(w)
    BY <1>2 DEF Paying
  <2>3. HandlersBacked'
    BY <1>1, <1>2, <2>1, <2>2 DEF MoneyInv, HandlersBacked, Forward
  <2>4. allocated \subseteq Sessions
    BY DEF TypeOK
  <2>5. AllocatedCharged'
    BY <1>1, <1>2, <2>4 DEF MoneyInv, AllocatedCharged, Forward
  <2>6. PaidMatchesAllocations'
    BY <1>1, <1>2, BalancesKept DEF MoneyInv
  <2>7. CapturedRetained'
    BY <1>2 DEF MoneyInv, CapturedRetained
  <2> QED BY <2>3, <2>5, <2>6, <2>7 DEF MoneyInv
<1> QED
  BY <1>1, <1>2, ReceiverMoney
     DEF Next, RequestStep, CheckoutStart, CheckoutLock, CheckoutPrice, CheckoutOpen,
         CheckoutRefused, CheckoutInsert, CheckoutRetain, CheckoutRelease, RequestCrash, LockLapse,
         SessionLapse, Capture, CheckoutFails, CreditNote

\* Nothing is charged before anything is allocated.
LEMMA NothingCharged == Charged({}) = 0
<1>1. Units(Sessions, MaxAmount, amount, {}) = {}
  BY DEF Units
<1> QED BY <1>1, FS_EmptySet, ChargedUnits

\* The invariant holds in every state.
LEMMA PaymentsMoney == Spec => []MoneyInv
<1>1. Init => MoneyInv
  <2> SUFFICES ASSUME Init PROVE MoneyInv
    OBVIOUS
  <2>1. HandlersBacked /\ AllocatedCharged /\ CapturedRetained
    BY DEF Init, HandlersBacked, AllocatedCharged, CapturedRetained
  <2>2. \A s \in Schedules : allocated \cap SessionsOf(s) = {}
    BY DEF Init
  <2>3. PaidMatchesAllocations
    BY <2>2, NothingCharged DEF Init, PaidMatchesAllocations
  <2> QED BY <2>1, <2>3 DEF MoneyInv
<1>2. (TypeOK /\ HandlerWorks) /\ MoneyInv /\ [Next]_vars => MoneyInv'
  BY MoneyStep
<1> QED BY <1>1, <1>2, PaymentsTyped, PTL DEF Spec

\* The balances of schedules and invoice are the sums of the allocations, and a
\* success event is acknowledged for good only if its money was allocated,
\* however many deliveries of however many events race each other and crash
\* (receiveProviderEvent, processSuccessfulPayment).
THEOREM CapturedMoneyAccounted == Spec => []MoneyAccounted
<1>1. (TypeOK /\ HandlerWorks) /\ MoneyInv => MoneyAccounted
  BY DEF MoneyInv, MoneyAccounted
<1> QED BY <1>1, PaymentsTyped, PaymentsMoney, PTL

-----------------------------------------------------------------------------
(***************************************************************************)
(* The booking.  Each checkout of a schedule asks for all the schedule     *)
(* owes, so that any one payment settles it.                               *)
(***************************************************************************)

\* A request that has a price, and a checkout, ask for no less than is owed.
PricesCover ==
    /\ \A r \in Requests :
         request[r] = "priced" => price[r] >= Remaining(Target(r)) /\ price[r] > 0
    /\ \A k \in Sessions :
         checkout[k] # "none" => amount[k] >= Remaining(SessionSchedule[k]) /\ amount[k] > 0

\* The inductive invariant of the booking.
BookingInv == PricesCover /\ ConfirmedBookingIsPaid

\* What the schedules owe is a number.
LEMMA RemainingType == ASSUME TypeOK PROVE \A s \in Schedules : Remaining(s) \in Int
BY PaymentsAssumption DEF TypeOK, Remaining

\* A payment settles its schedule.
LEMMA PaymentSettles ==
    ASSUME TypeOK, HandlerWorks, HandlersBacked, PricesCover, NEW w \in Receivers, PayCommit(w),
           NEW s \in Schedules, s = PayingFor(w)
    PROVE  Settled(s)'
<1>1. Paying(w) \in Sessions
  BY PaymentsAssumption DEF PayCommit, HandlerWorks, Paying
<1>2. amount[Paying(w)] >= Remaining(s) /\ amount[Paying(w)] \in Int
  BY <1>1 DEF PayCommit, HandlersBacked, PricesCover, PayingFor, TypeOK
<1>3. paid'[s] = paid[s] + amount[Paying(w)] /\ credited' = credited
  BY <1>1 DEF PayCommit, Pay, PayingFor, TypeOK
<1>4. ScheduleAmount[s] \in Int /\ paid[s] \in Int /\ credited[s] \in Int
  BY PaymentsAssumption DEF TypeOK
<1> QED BY <1>2, <1>3, <1>4 DEF Remaining, Settled

\* Only a payment confirms the booking, and only that of the first schedule.
LEMMA ConfirmedByPayment ==
    ASSUME [Next]_vars, booking' = "CONFIRMED"
    PROVE  booking = "CONFIRMED" \/ \E w \in Receivers : PayCommit(w) /\ PayingFor(w) = 1
<1> USE DEF vars, scheduleVars, lockVars, invoiceVars, providerVars, requestVars, handlerVars
<1>1. ASSUME NEW w \in Receivers, PayCommit(w), booking # "CONFIRMED" PROVE PayingFor(w) = 1
  BY <1>1 DEF PayCommit, Pay, PayingFor
<1> QED
  BY <1>1
     DEF Next, RequestStep, CheckoutStart, CheckoutLock, CheckoutPrice, CheckoutOpen,
         CheckoutRefused, CheckoutInsert, CheckoutRetain, CheckoutRelease, RequestCrash, LockLapse,
         SessionLapse, Capture, CheckoutFails, CreditNote, EventClaim, ReceiverStep, PayFailed,
         PayRead, PayReplay, PayReject, PayAbort, ReceiverCrash

\* Where a new price and a new checkout come from.
LEMMA NewPrices ==
    ASSUME TypeOK, [Next]_vars
    PROVE  /\ \A r \in Requests : request'[r] = "priced" =>
                \/ request[r] = "priced" /\ price'[r] = price[r]
                \/ price'[r] = Remaining(Target(r)) /\ price'[r] > 0
           /\ \A k \in Sessions : checkout[k] = "none" /\ checkout'[k] # "none" =>
                \E r \in Requests :
                    KeyOf(r) = k /\ request[r] = "priced" /\ amount'[k] = price[r]
<1> USE DEF vars, scheduleVars, lockVars, invoiceVars, providerVars, requestVars, handlerVars,
            TypeOK
<1> DEFINE Prices == \A r \in Requests : request'[r] = "priced" =>
                       \/ request[r] = "priced" /\ price'[r] = price[r]
                       \/ price'[r] = Remaining(Target(r)) /\ price'[r] > 0
           Checkouts == \A k \in Sessions : checkout[k] = "none" /\ checkout'[k] # "none" =>
                          \E r \in Requests :
                              KeyOf(r) = k /\ request[r] = "priced" /\ amount'[k] = price[r]
<1>1. ASSUME NEW r \in Requests, CheckoutPrice(r) PROVE Prices /\ Checkouts
  <2>1. Target(r) \in Schedules
    BY PaymentsAssumption DEF Target
  <2>2. Remaining(Target(r)) > 0 \/ Settled(Target(r))
    BY <2>1, RemainingType DEF Settled
  <2> QED BY <1>1, <2>2 DEF CheckoutPrice
<1>2. ASSUME NEW r \in Requests, CheckoutOpen(r) PROVE Prices /\ Checkouts
  BY <1>2, PaymentsAssumption DEF CheckoutOpen, KeyOf
<1>3. ASSUME NEW r \in Requests, CheckoutRetain(r) \/ CheckoutRelease(r) \/ RequestCrash(r)
      PROVE  Prices /\ Checkouts
  BY <1>3 DEF CheckoutRetain, CheckoutRelease, RequestCrash
<1>4. ASSUME NEW r \in Requests, CheckoutStart(r) \/ CheckoutLock(r)
      PROVE  Prices /\ Checkouts
  BY <1>4 DEF CheckoutStart, CheckoutLock
<1>5. ASSUME NEW r \in Requests, CheckoutRefused(r) \/ CheckoutInsert(r)
      PROVE  Prices /\ Checkouts
  BY <1>5 DEF CheckoutRefused, CheckoutInsert
<1>6. ASSUME NEW k \in Sessions, Capture(k) \/ CheckoutFails(k) PROVE Prices /\ Checkouts
  BY <1>6 DEF Capture, CheckoutFails
<1>7. CASE UNCHANGED <<requestVars, checkout>>
  BY <1>7
<1> QED
  BY <1>1, <1>2, <1>3, <1>4, <1>5, <1>6, <1>7
     DEF Next, RequestStep, LockLapse, SessionLapse, CreditNote, EventClaim, ReceiverStep,
         PayFailed, PayRead, PayReplay, PayReject, PayCommit, PayAbort, ReceiverCrash

\* The invariant of the booking holds with every step.
LEMMA BookingStep ==
    ASSUME TypeOK, TypeOK', HandlerWorks, MoneyInv, BookingInv, [Next]_vars
    PROVE  BookingInv'
<1>0. \A s \in Schedules : Remaining(s) \in Int /\ Remaining(s)' \in Int
  <2>1. \A s \in Schedules : Remaining(s)' \in Int
    BY PaymentsAssumption DEF TypeOK, Remaining
  <2> QED BY <2>1, RemainingType
<1>1. Forward
  BY StepForward
<1>2. \A r \in Requests : Target(r) \in Schedules /\ Target(r)' = Target(r)
  BY PaymentsAssumption DEF Target
<1>3. ASSUME NEW r \in Requests, request'[r] = "priced"
      PROVE  price'[r] >= Remaining(Target(r))' /\ price'[r] > 0
  <2>1. price'[r] \in Int /\ price[r] \in Int
    BY DEF TypeOK
  <2>2. price'[r] >= Remaining(Target(r)) /\ price'[r] > 0
    BY <1>0, <1>2, <1>3, <2>1, NewPrices DEF BookingInv, PricesCover
  <2>3. ASSUME NEW s \in Schedules, s = Target(r) PROVE price'[r] >= Remaining(s)'
    BY <1>0, <1>1, <2>1, <2>2, <2>3 DEF Forward
  <2>4. ASSUME NEW s \in Schedules, s = Target(r) PROVE Remaining(s)' = Remaining(Target(r))'
    BY <1>2, <2>4 DEF Remaining
  <2> QED BY <1>2, <2>2, <2>3, <2>4
<1>4. ASSUME NEW k \in Sessions, checkout'[k] # "none"
      PROVE  amount'[k] >= Remaining(SessionSchedule[k])' /\ amount'[k] > 0
  <2>1. SessionSchedule[k] \in Schedules /\ amount'[k] \in Int
    BY PaymentsAssumption DEF TypeOK
  <2>2. amount'[k] >= Remaining(SessionSchedule[k]) /\ amount'[k] > 0
    <3>1. CASE checkout[k] # "none"
      BY <1>1, <3>1 DEF BookingInv, PricesCover, Forward
    <3>2. CASE checkout[k] = "none"
      <4>1. PICK r \in Requests : KeyOf(r) = k /\ request[r] = "priced" /\ amount'[k] = price[r]
        BY <1>4, <3>2, NewPrices
      <4> QED BY <4>1 DEF BookingInv, PricesCover, KeyOf, Target
    <3> QED BY <3>1, <3>2
  <2>3. Remaining(SessionSchedule[k])' <= Remaining(SessionSchedule[k])
    BY <1>1, <2>1 DEF Forward
  <2> QED BY <1>0, <2>1, <2>2, <2>3
<1>5. ConfirmedBookingIsPaid'
  <2> SUFFICES ASSUME booking' = "CONFIRMED" PROVE Settled(1)'
    BY DEF ConfirmedBookingIsPaid
  <2>1. 1 \in Schedules
    BY PaymentsAssumption DEF Schedules
  <2>2. CASE booking = "CONFIRMED"
    BY <1>0, <1>1, <2>1, <2>2 DEF BookingInv, ConfirmedBookingIsPaid, Settled, Forward
  <2>3. ASSUME NEW w \in Receivers, PayCommit(w), PayingFor(w) = 1 PROVE Settled(1)'
    BY <2>1, <2>3, PaymentSettles DEF BookingInv, MoneyInv
  <2> QED BY <2>2, <2>3, ConfirmedByPayment
<1> QED BY <1>3, <1>4, <1>5 DEF BookingInv, PricesCover

\* The invariant of the booking holds in every state.
LEMMA PaymentsBooking == Spec => []BookingInv
<1>1. Init => BookingInv
  BY DEF Init, BookingInv, PricesCover, ConfirmedBookingIsPaid
<1>2. (TypeOK /\ HandlerWorks) /\ (TypeOK /\ HandlerWorks)' /\ MoneyInv /\ BookingInv
        /\ [Next]_vars => BookingInv'
  BY BookingStep
<1> QED BY <1>1, <1>2, PaymentsTyped, PaymentsMoney, PTL DEF Spec

\* A freight booking is confirmed only once its first schedule owes nothing,
\* although the webhook that confirms it looks at an old snapshot
\* (processSuccessfulPayment).
THEOREM ConfirmedBookingsPaid == Spec => []ConfirmedBookingIsPaid
<1>1. BookingInv => ConfirmedBookingIsPaid
  BY DEF BookingInv
<1> QED BY <1>1, PaymentsBooking, PTL

-----------------------------------------------------------------------------
(***************************************************************************)
(* The lock of a schedule.  It is given up under a running request only    *)
(* when a payment of another session settles the schedule; from then on no *)
(* request finds anything to pay.                                          *)
(***************************************************************************)

\* A request between its lock and its end.
Busy(r) == request[r] \in {"locked", "priced", "opened", "inserted", "failing"}

\* A busy request whose session is not stored yet.
Fresh(r) == Busy(r) /\ session[KeyOf(r)] = "NONE"

\* The lock of the schedule of request r is its own.
LockHeld(r) == lockKey[Target(r)] = KeyOf(r) /\ lockUntil[Target(r)] = "request"

\* A request that has stored its session knows it is stored.
InsertedStored == \A r \in Requests : request[r] = "inserted" => session[KeyOf(r)] # "NONE"

\* A fresh request has the lock, or there is nothing to pay any more.
FreshLocked == \A r \in Requests : Fresh(r) => LockHeld(r) \/ Settled(Target(r))

\* Two requests of one key are busy at once only if there is nothing to pay.
FreshAlone ==
    \A r, q \in Requests :
        r # q /\ KeyOf(r) = KeyOf(q) /\ Fresh(r) /\ Busy(q) => Settled(Target(r))

\* Fresh requests that have seen something to pay are of one key.
PricedAlike ==
    \A r, q \in Requests :
        /\ Fresh(r) /\ request[r] \in {"priced", "opened"}
        /\ Fresh(q) /\ request[q] \in {"priced", "opened"}
        /\ Target(r) = Target(q)
        => KeyOf(r) = KeyOf(q)

\* A fresh request that has opened a checkout is the only one.
OpenedClear ==
    \A r \in Requests : Fresh(r) /\ request[r] = "opened" => LiveSessions(Target(r)) = {}

\* No two sessions of a schedule are live.
LiveAlike == \A s \in Schedules : \A j, k \in LiveSessions(s) : j = k

\* The inductive invariant of the lock.
LockInv ==
    InsertedStored /\ FreshLocked /\ FreshAlone /\ PricedAlike /\ OpenedClear /\ LiveAlike

\* The targets of requests do not change, and what is settled stays settled.
LEMMA SettledStays ==
    ASSUME TypeOK, TypeOK', HandlerWorks, [Next]_vars
    PROVE  /\ \A r \in Requests : /\ KeyOf(r) \in Sessions /\ KeyOf(r)' = KeyOf(r)
                                  /\ Target(r) \in Schedules /\ Target(r)' = Target(r)
                                  /\ Settled(Target(r)) => Settled(Target(r))'
           /\ \A s \in Schedules : Settled(s) => Settled(s)'
           /\ \A k \in Sessions : session'[k] = "NONE" => session[k] = "NONE"
<1>1. Forward
  BY StepForward
<1>2. \A s \in Schedules : Remaining(s) \in Int /\ Remaining(s)' \in Int
  <2>1. \A s \in Schedules : Remaining(s)' \in Int
    BY PaymentsAssumption DEF TypeOK, Remaining
  <2> QED BY <2>1, RemainingType
<1>3. \A s \in Schedules : Settled(s) => Settled(s)'
  BY <1>1, <1>2 DEF Forward, Settled
<1>4. ASSUME NEW r \in Requests
      PROVE  /\ KeyOf(r) \in Sessions /\ KeyOf(r)' = KeyOf(r)
             /\ Target(r) \in Schedules /\ Target(r)' = Target(r)
  BY PaymentsAssumption DEF KeyOf, Target
<1>5. ASSUME NEW r \in Requests, Settled(Target(r)) PROVE Settled(Target(r))'
  <2>1. ASSUME NEW s \in Schedules, s = Target(r) PROVE Settled(s)' <=> Settled(Target(r))'
    BY <1>4, <2>1 DEF Settled, Remaining
  <2> QED BY <1>3, <1>4, <1>5, <2>1
<1> QED BY <1>1, <1>3, <1>4, <1>5 DEF Forward

\* A step that leaves locks and sessions alone, and starts no request, preserves
\* the invariant.
LEMMA LockQuiet ==
    ASSUME TypeOK, TypeOK', HandlerWorks, LockInv, [Next]_vars,
           UNCHANGED <<lockVars, session>>, lapsed \subseteq lapsed',
           \A r \in Requests :
             \/ request'[r] = request[r]
             \/ request'[r] \in {"idle", "started"}
             \/ request'[r] = "failing" /\ Busy(r)
    PROVE  LockInv'
<1>1. \A r \in Requests : (Busy(r)' => Busy(r)) /\ (Fresh(r)' => Fresh(r))
  BY DEF Busy, Fresh, KeyOf
<1>2. \A r \in Requests : \A p \in {"priced", "opened", "inserted"} :
        request'[r] = p => request[r] = p
  OBVIOUS
<1>3. \A s \in Schedules : LiveSessions(s)' \subseteq LiveSessions(s)
  BY DEF LiveSessions, SessionsOf
<1>4. ASSUME NEW r \in Requests
      PROVE  /\ LockHeld(r)' <=> LockHeld(r)
             /\ LiveSessions(Target(r))' \subseteq LiveSessions(Target(r))
  BY DEF LockHeld, Target, KeyOf, LiveSessions, SessionsOf, lockVars
<1>5. (InsertedStored /\ FreshLocked /\ FreshAlone)'
  BY <1>1, <1>2, <1>4, SettledStays DEF LockInv, InsertedStored, FreshLocked, FreshAlone
<1>6. (PricedAlike /\ OpenedClear)'
  BY <1>1, <1>2, <1>4, SettledStays DEF LockInv, PricedAlike, OpenedClear
<1>7. LiveAlike'
  BY <1>3 DEF LockInv, LiveAlike
<1> QED BY <1>5, <1>6, <1>7 DEF LockInv

\* A request takes the lock.
LEMMA LockTaken ==
    ASSUME TypeOK, TypeOK', HandlerWorks, LockInv, [Next]_vars, NEW r \in Requests,
           CheckoutLock(r), ~LockLive(Target(r))
    PROVE  LockInv'
<1>1. /\ request[r] = "started" /\ request'[r] = "locked"
      /\ \A q \in Requests : q # r => request'[q] = request[q]
      /\ lockKey' = [lockKey EXCEPT ![Target(r)] = KeyOf(r)]
      /\ lockUntil' = [lockUntil EXCEPT ![Target(r)] = "request"]
      /\ UNCHANGED <<session, lapsed>>
  BY DEF CheckoutLock, TypeOK, providerVars
<1>2. ASSUME NEW q \in Requests, Fresh(q), Target(q) = Target(r) PROVE Settled(Target(q))
  <2>1. ~LockHeld(q)
    BY <1>2, PaymentsAssumption DEF LockHeld, LockLive, KeyOf
  <2> QED BY <1>2, <2>1 DEF LockInv, FreshLocked
<1>3. \A q \in Requests : q # r => (Busy(q)' <=> Busy(q)) /\ (Fresh(q)' <=> Fresh(q))
  BY <1>1 DEF Busy, Fresh, KeyOf
<1>4. InsertedStored'
  BY <1>1, SettledStays DEF LockInv, InsertedStored
<1>5. FreshLocked'
  <2> SUFFICES ASSUME NEW q \in Requests, Fresh(q)' PROVE LockHeld(q)' \/ Settled(Target(q))'
    BY DEF FreshLocked
  <2>1. CASE q = r
    BY <1>1, <2>1, SettledStays DEF LockHeld, TypeOK
  <2>2. CASE q # r /\ Target(q) = Target(r)
    BY <1>2, <1>3, <2>2, SettledStays
  <2>3. CASE q # r /\ Target(q) # Target(r)
    <3>1. LockHeld(q)' <=> LockHeld(q)
      BY <1>1, <2>3, SettledStays DEF LockHeld, TypeOK
    <3> QED BY <1>3, <2>3, <3>1, SettledStays DEF LockInv, FreshLocked
  <2> QED BY <2>1, <2>2, <2>3
<1>6. FreshAlone'
  <2> SUFFICES ASSUME NEW p \in Requests, NEW q \in Requests, p # q, KeyOf(p) = KeyOf(q),
                      Fresh(p)', Busy(q)'
               PROVE  Settled(Target(p))'
    BY SettledStays DEF FreshAlone
  <2>1. Target(p) = Target(q)
    BY DEF KeyOf, Target
  <2>2. CASE p # r
    <3>1. Fresh(p)
      BY <1>3, <2>2
    <3>2. CASE q = r
      BY <1>2, <2>1, <3>1, <3>2, SettledStays
    <3>3. CASE q # r
      BY <1>3, <3>1, <3>3, SettledStays DEF LockInv, FreshAlone
    <3> QED BY <3>2, <3>3
  <2>3. CASE p = r
    <3>1. Fresh(q)
      BY <1>1, <1>3, <2>3 DEF Fresh, Busy, KeyOf
    <3>2. Settled(Target(q))
      BY <1>2, <2>1, <2>3, <3>1
    <3> QED BY <2>1, <3>2, SettledStays
  <2> QED BY <2>2, <2>3
<1>7. PricedAlike'
  BY <1>1, <1>3, SettledStays DEF LockInv, PricedAlike
<1>8. OpenedClear' /\ LiveAlike'
  <2>1. \A s : LiveSessions(s)' = LiveSessions(s)
    BY <1>1 DEF LiveSessions, SessionsOf
  <2>2. ASSUME NEW q \in Requests, Fresh(q)', request'[q] = "opened"
        PROVE  LiveSessions(Target(q))' = {}
    <3>1. Fresh(q) /\ request[q] = "opened"
      BY <1>1, <1>3, <2>2
    <3>2. LiveSessions(Target(q))' = LiveSessions(Target(q))
      BY <1>1 DEF LiveSessions, SessionsOf, Target
    <3> QED BY <3>1, <3>2 DEF LockInv, OpenedClear
  <2>3. LiveAlike'
    BY <2>1 DEF LockInv, LiveAlike
  <2> QED BY <2>2, <2>3 DEF OpenedClear
<1> QED BY <1>4, <1>5, <1>6, <1>7, <1>8 DEF LockInv

\* A request goes on to a price or a checkout.
LEMMA LockUsed ==
    ASSUME TypeOK, TypeOK', HandlerWorks, LockInv, [Next]_vars, NEW r \in Requests,
           \/ CheckoutPrice(r) /\ request'[r] = "priced"
           \/ CheckoutOpen(r)
    PROVE  LockInv'
<1>1. /\ UNCHANGED <<lockVars, session, lapsed>>
      /\ \A q \in Requests : q # r => request'[q] = request[q]
      /\ \/ /\ request[r] = "locked"
            /\ request'[r] = "priced"
            /\ ~Settled(Target(r))
         \/ /\ request[r] = "priced"
            /\ request'[r] = "opened"
            /\ LiveSessions(Target(r)) = {}
  <2>1. CASE CheckoutPrice(r) /\ request'[r] = "priced"
    BY <2>1 DEF CheckoutPrice, TypeOK, lockVars, providerVars
  <2>2. CASE CheckoutOpen(r)
    BY <2>2 DEF CheckoutOpen, TypeOK, lockVars, providerVars
  <2> QED BY <2>1, <2>2
<1>2. \A q \in Requests : (Busy(q)' <=> Busy(q)) /\ (Fresh(q)' <=> Fresh(q))
  BY <1>1 DEF Busy, Fresh, KeyOf
<1>3. ASSUME NEW q \in Requests
      PROVE  /\ LockHeld(q)' <=> LockHeld(q)
             /\ LiveSessions(Target(q))' = LiveSessions(Target(q))
  BY <1>1 DEF LockHeld, Target, KeyOf, LiveSessions, SessionsOf, lockVars
<1>4. InsertedStored' /\ FreshLocked' /\ FreshAlone'
  BY <1>1, <1>2, <1>3, SettledStays DEF LockInv, InsertedStored, FreshLocked, FreshAlone
<1>5. PricedAlike'
  <2> SUFFICES ASSUME NEW p \in Requests, NEW q \in Requests, Target(p) = Target(q),
                      Fresh(p), request'[p] \in {"priced", "opened"},
                      Fresh(q), request'[q] \in {"priced", "opened"}
               PROVE  KeyOf(p) = KeyOf(q)
    BY <1>2, SettledStays DEF PricedAlike
  <2>1. CASE request[r] = "priced"
    BY <1>1, <2>1 DEF LockInv, PricedAlike
  <2>2. CASE request[r] = "locked"
    <3>1. ~Settled(Target(r))
      BY <1>1, <2>2
    <3>2. CASE p # r /\ q # r
      BY <1>1, <3>2 DEF LockInv, PricedAlike
    <3>3. CASE p = r \/ q = r
      BY <3>1, <3>3 DEF LockInv, FreshLocked, LockHeld
    <3> QED BY <3>2, <3>3
  <2> QED BY <1>1, <2>1, <2>2
<1>6. OpenedClear'
  BY <1>1, <1>2, <1>3 DEF LockInv, OpenedClear
<1>7. LiveAlike'
  <2>1. \A s : LiveSessions(s)' = LiveSessions(s)
    BY <1>1 DEF LiveSessions, SessionsOf
  <2> QED BY <2>1 DEF LockInv, LiveAlike
<1> QED BY <1>4, <1>5, <1>6, <1>7 DEF LockInv

\* A request stores its session, or finds it stored.
LEMMA SessionStored ==
    ASSUME TypeOK, TypeOK', HandlerWorks, LockInv, [Next]_vars, NEW r \in Requests,
           CheckoutInsert(r)
    PROVE  LockInv'
<1> DEFINE k == KeyOf(r)
<1>1. /\ UNCHANGED <<lockVars, lapsed>> /\ request[r] = "opened"
      /\ \A q \in Requests : q # r => request'[q] = request[q]
      /\ request'[r] \in {"inserted", "failing"}
      /\ k \in Sessions /\ session'[k] # "NONE"
      /\ \A j \in Sessions : j # k => session'[j] = session[j]
      /\ session[k] # "NONE" => session'[k] = session[k]
  BY SettledStays DEF CheckoutInsert, TypeOK, lockVars, providerVars
<1>2. \A q \in Requests : (Busy(q)' <=> Busy(q)) /\ (Fresh(q)' <=> Fresh(q) /\ KeyOf(q) # k)
  BY <1>1, SettledStays DEF Busy, Fresh
<1>3. ASSUME NEW q \in Requests PROVE LockHeld(q)' <=> LockHeld(q)
  BY <1>1 DEF LockHeld, Target, KeyOf, lockVars
<1>4. InsertedStored' /\ FreshLocked' /\ FreshAlone'
  BY <1>1, <1>2, <1>3, SettledStays DEF LockInv, InsertedStored, FreshLocked, FreshAlone
<1>5. PricedAlike'
  BY <1>1, <1>2, SettledStays DEF LockInv, PricedAlike
<1>6. \A s \in Schedules : s # Target(r) \/ session[k] # "NONE" =>
        LiveSessions(s)' = LiveSessions(s)
  BY <1>1 DEF LiveSessions, SessionsOf, Target, KeyOf
<1>7. session[k] = "NONE" => LiveSessions(Target(r)) = {}
  BY <1>1 DEF LockInv, OpenedClear, Fresh, Busy
<1>8. OpenedClear'
  <2> SUFFICES ASSUME NEW q \in Requests, Fresh(q)', request'[q] = "opened"
               PROVE  LiveSessions(Target(q))' = {}
    BY DEF OpenedClear
  <2>1. Fresh(q) /\ KeyOf(q) # k /\ q # r /\ request[q] = "opened"
    BY <1>1, <1>2
  <2>2. Target(q) # Target(r) \/ session[k] # "NONE"
    BY <1>1, <2>1 DEF LockInv, PricedAlike, Fresh, Busy
  <2>3. LiveSessions(Target(q)) = {}
    BY <2>1 DEF LockInv, OpenedClear
  <2>4. ASSUME NEW s \in Schedules, s = Target(q) PROVE LiveSessions(s)' = LiveSessions(Target(q))'
    BY <2>4, SettledStays DEF LiveSessions, SessionsOf
  <2> QED BY <1>6, <2>2, <2>3, <2>4, SettledStays
<1>9. LiveAlike'
  <2> SUFFICES ASSUME NEW s \in Schedules, NEW i \in LiveSessions(s)', NEW j \in LiveSessions(s)'
               PROVE  i = j
    BY DEF LiveAlike
  <2>1. CASE s # Target(r) \/ session[k] # "NONE"
    BY <1>6, <2>1 DEF LockInv, LiveAlike
  <2>2. CASE s = Target(r) /\ session[k] = "NONE"
    <3>1. LiveSessions(s)' \subseteq LiveSessions(s) \cup {k}
      BY <1>1 DEF LiveSessions, SessionsOf
    <3> QED BY <1>7, <2>2, <3>1
  <2> QED BY <2>1, <2>2
<1> QED BY <1>4, <1>5, <1>8, <1>9 DEF LockInv

\* A step that gives up or keeps locks, and leaves those of fresh requests alone
\* unless there is nothing to pay any more, preserves the invariant.
LEMMA LockReleased ==
    ASSUME TypeOK, TypeOK', HandlerWorks, LockInv, [Next]_vars, lapsed \subseteq lapsed',
           \A k \in Sessions : session'[k] # session[k] =>
             session[k] # "NONE" /\ session'[k] \notin {"NONE", "PENDING"},
           \A r \in Requests :
             \/ request'[r] = request[r]
             \/ request'[r] = "idle"
             \/ request'[r] = "failing" /\ Busy(r),
           \A r \in Requests : Fresh(r)' => LockHeld(r)' \/ Settled(Target(r))'
    PROVE  LockInv'
<1>1. \A r \in Requests : (Busy(r)' => Busy(r)) /\ (Fresh(r)' => Fresh(r))
  BY SettledStays DEF Busy, Fresh
<1>2. \A r \in Requests : \A p \in {"priced", "opened", "inserted"} :
        request'[r] = p => request[r] = p
  OBVIOUS
<1>3. \A s \in Schedules : LiveSessions(s)' \subseteq LiveSessions(s)
  BY DEF LiveSessions, SessionsOf
<1>4. InsertedStored' /\ FreshLocked' /\ FreshAlone'
  BY <1>1, <1>2, SettledStays DEF LockInv, InsertedStored, FreshLocked, FreshAlone
<1>5. PricedAlike'
  BY <1>1, <1>2, SettledStays DEF LockInv, PricedAlike
<1>6. OpenedClear'
  <2> SUFFICES ASSUME NEW r \in Requests, Fresh(r)', request'[r] = "opened"
               PROVE  LiveSessions(Target(r))' = {}
    BY DEF OpenedClear
  <2>1. LiveSessions(Target(r)) = {}
    BY <1>1, <1>2 DEF LockInv, OpenedClear
  <2>2. ASSUME NEW s \in Schedules, s = Target(r) PROVE LiveSessions(s)' = LiveSessions(Target(r))'
    BY <2>2, SettledStays DEF LiveSessions, SessionsOf
  <2> QED BY <1>3, <2>1, <2>2, SettledStays
<1>7. LiveAlike'
  BY <1>3 DEF LockInv, LiveAlike
<1> QED BY <1>4, <1>5, <1>6, <1>7 DEF LockInv

\* What a step of a checkout request does to the lock.
LEMMA RequestLocks ==
    ASSUME TypeOK, TypeOK', HandlerWorks, LockInv, [Next]_vars, NEW r \in Requests,
           RequestStep(r) \/ RequestCrash(r)
    PROVE  LockInv'
<1> USE DEF scheduleVars, invoiceVars, providerVars, requestVars, handlerVars
<1>0. request \in [Requests -> {"idle", "started", "locked", "priced", "opened", "inserted",
                                "failing"}]
  BY DEF TypeOK
<1>1. CASE \/ CheckoutStart(r) \/ CheckoutRefused(r) \/ RequestCrash(r)
           \/ CheckoutLock(r) /\ LockLive(Target(r))
           \/ CheckoutPrice(r) /\ request'[r] # "priced"
  <2>1. UNCHANGED <<lockVars, session>> /\ lapsed \subseteq lapsed'
    BY <1>1 DEF CheckoutStart, CheckoutRefused, RequestCrash, CheckoutLock, CheckoutPrice
  <2>2. \A q \in Requests : \/ request'[q] = request[q]
                            \/ request'[q] \in {"idle", "started"}
                            \/ request'[q] = "failing" /\ Busy(q)
    BY <1>0, <1>1 DEF CheckoutStart, CheckoutRefused, RequestCrash, CheckoutLock, CheckoutPrice,
                      Busy
  <2> QED BY <2>1, <2>2, LockQuiet
<1>2. CASE CheckoutLock(r) /\ ~LockLive(Target(r))
  BY <1>2, LockTaken
<1>3. CASE (CheckoutPrice(r) /\ request'[r] = "priced") \/ CheckoutOpen(r)
  BY <1>3, LockUsed
<1>4. CASE CheckoutInsert(r)
  BY <1>4, SessionStored
<1>5. CASE CheckoutRetain(r) \/ CheckoutRelease(r)
  <2>1. lapsed \subseteq lapsed' /\ UNCHANGED session
    BY <1>5 DEF CheckoutRetain, CheckoutRelease
  <2>2. \A q \in Requests : \/ request'[q] = request[q]
                            \/ request'[q] = "idle"
                            \/ request'[q] = "failing" /\ Busy(q)
    BY <1>0, <1>5 DEF CheckoutRetain, CheckoutRelease, Busy
  <2>3. ASSUME NEW q \in Requests, Fresh(q)' PROVE LockHeld(q)' \/ Settled(Target(q))'
    <3>1. Fresh(q) /\ KeyOf(q) \in Sessions /\ Target(q) \in Schedules /\ Target(r) \in Schedules
      BY <2>1, <2>2, <2>3, SettledStays DEF Fresh, Busy
    <3>2. CASE Settled(Target(q))
      BY <3>2, SettledStays
    <3>3. CASE KeyOf(q) # KeyOf(r) /\ LockHeld(q)
      BY <1>5, <3>1, <3>3, SettledStays
         DEF CheckoutRetain, CheckoutRelease, Unlocked, lockVars, LockHeld, TypeOK
    <3>4. CASE KeyOf(q) = KeyOf(r) /\ CheckoutRetain(r)
      BY <3>1, <3>4 DEF LockInv, InsertedStored, CheckoutRetain, Fresh
    <3>5. CASE KeyOf(q) = KeyOf(r) /\ CheckoutRelease(r)
      <4>1. q # r
        BY <1>0, <2>3, <3>5 DEF CheckoutRelease, Fresh, Busy
      <4> QED BY <3>1, <3>5, <4>1, SettledStays DEF LockInv, FreshAlone, CheckoutRelease, Busy
    <3> QED BY <1>5, <3>1, <3>2, <3>3, <3>4, <3>5 DEF LockInv, FreshLocked
  <2> QED BY <2>1, <2>2, <2>3, LockReleased
<1> QED BY <1>1, <1>2, <1>3, <1>4, <1>5 DEF RequestStep

\* What a delivery does to the lock.
LEMMA ReceiverLocks ==
    ASSUME TypeOK, TypeOK', HandlerWorks, HandlersBacked, PricesCover, LockInv, [Next]_vars,
           NEW w \in Receivers,
           ReceiverStep(w) \/ ReceiverCrash(w) \/ \E e \in Events : EventClaim(w, e)
    PROVE  LockInv'
<1> USE DEF scheduleVars, invoiceVars, providerVars, requestVars, handlerVars
<1>1. UNCHANGED <<request, lapsed>>
  BY DEF ReceiverStep, PayFailed, PayRead, PayReplay, PayReject, PayCommit, PayAbort,
         ReceiverCrash, EventClaim
<1>2. CASE UNCHANGED <<lockVars, session>>
  BY <1>1, <1>2, LockQuiet
<1>3. CASE PayFailed(w) \/ PayCommit(w)
  <2>1. /\ Paying(w) \in Sessions /\ PayingFor(w) \in Schedules
        /\ session[Paying(w)] # "NONE"
    BY <1>3, PaymentsAssumption
       DEF PayFailed, PayCommit, HandlerWorks, HandlersBacked, Paying, PayingFor
  <2>2. \A k \in Sessions : session'[k] # session[k] =>
          session[k] # "NONE" /\ session'[k] \notin {"NONE", "PENDING"}
    BY <1>3, <2>1 DEF PayFailed, PayCommit, Pay, TypeOK
  <2>3. ASSUME NEW q \in Requests, Fresh(q)' PROVE LockHeld(q)' \/ Settled(Target(q))'
    <3>1. Fresh(q)
      BY <1>1, <2>3, SettledStays DEF Fresh, Busy
    <3>2. Target(q) \in Schedules /\ KeyOf(q) # Paying(w)
      BY <2>1, <3>1, SettledStays DEF Fresh
    <3>3. CASE Settled(Target(q))
      BY <3>3, SettledStays
    <3>4. CASE LockHeld(q) /\ PayFailed(w)
      BY <2>1, <3>2, <3>4, SettledStays DEF PayFailed, Unlocked, lockVars, LockHeld, TypeOK
    <3>5. CASE LockHeld(q) /\ PayCommit(w) /\ Target(q) # PayingFor(w)
      BY <2>1, <3>2, <3>5, SettledStays
         DEF PayCommit, Pay, PayingFor, Unlocked, LockHeld, TypeOK
    <3>6. CASE PayCommit(w) /\ Target(q) = PayingFor(w)
      <4>1. ASSUME NEW s \in Schedules, s = PayingFor(w) PROVE Settled(s)'
        BY <3>6, <4>1, PaymentSettles
      <4>2. ASSUME NEW s \in Schedules, s = Target(q) PROVE Settled(s)' <=> Settled(Target(q))'
        BY <4>2, SettledStays DEF Settled, Remaining
      <4> QED BY <3>2, <3>6, <4>1, <4>2
    <3> QED BY <1>3, <3>1, <3>3, <3>4, <3>5, <3>6 DEF LockInv, FreshLocked
  <2> QED BY <1>1, <2>2, <2>3, LockReleased
<1> QED
  BY <1>2, <1>3 DEF ReceiverStep, PayRead, PayReplay, PayReject, PayAbort, ReceiverCrash, EventClaim

\* The invariant of the lock holds with every step, unless requests are slower
\* than their lock.
LEMMA LockStep ==
    ASSUME ~SlowRequests, TypeOK, TypeOK', HandlerWorks, HandlersBacked, PricesCover, LockInv,
           [Next]_vars
    PROVE  LockInv'
<1> USE DEF scheduleVars, invoiceVars, providerVars, requestVars, handlerVars
<1>1. ASSUME NEW s \in Schedules, LockLapse(s) PROVE LockInv'
  <2>1. UNCHANGED <<request, lapsed, session, lockKey>>
        /\ lockUntil' = [lockUntil EXCEPT ![s] = "past"]
    BY <1>1 DEF LockLapse
  <2>2. ASSUME NEW q \in Requests, Fresh(q)' PROVE LockHeld(q)' \/ Settled(Target(q))'
    <3>1. Fresh(q)
      BY <2>1, <2>2, SettledStays DEF Fresh, Busy
    <3>2. CASE Settled(Target(q))
      BY <3>2, SettledStays
    <3>3. CASE LockHeld(q)
      <4>1. Target(q) # s
        BY <1>1, <3>1, <3>3 DEF LockLapse, LockHeld, Fresh, Busy
      <4> QED BY <2>1, <3>3, <4>1, SettledStays DEF LockHeld, TypeOK
    <3> QED BY <3>1, <3>2, <3>3 DEF LockInv, FreshLocked
  <2> QED BY <2>1, <2>2, LockReleased
<1>2. CASE UNCHANGED <<lockVars, session, request>> /\ lapsed \subseteq lapsed'
  BY <1>2, LockQuiet
<1>3. ASSUME NEW k \in Sessions, SessionLapse(k) \/ Capture(k) \/ CheckoutFails(k)
      PROVE  UNCHANGED <<lockVars, session, request>> /\ lapsed \subseteq lapsed'
  BY <1>3 DEF SessionLapse, Capture, CheckoutFails
<1>4. ASSUME NEW n \in CreditNotes, CreditNote(n)
      PROVE  UNCHANGED <<lockVars, session, request>> /\ lapsed \subseteq lapsed'
  BY <1>4 DEF CreditNote
<1>5. CASE UNCHANGED vars
  BY <1>2, <1>5 DEF vars
<1> QED BY <1>1, <1>2, <1>3, <1>4, <1>5, RequestLocks, ReceiverLocks DEF Next

\* The invariant of the lock holds in every state.
LEMMA PaymentsLock == ~SlowRequests => (Spec => []LockInv)
<1> SUFFICES ASSUME ~SlowRequests PROVE Spec => []LockInv
  OBVIOUS
<1>1. Init => LockInv
  <2> SUFFICES ASSUME Init PROVE LockInv
    OBVIOUS
  <2>1. \A r \in Requests : ~Busy(r)
    BY DEF Init, Busy
  <2>2. \A s : LiveSessions(s) = {}
    BY DEF Init, LiveSessions, SessionsOf
  <2>3. InsertedStored
    BY DEF Init, InsertedStored
  <2> QED BY <2>1, <2>2, <2>3
          DEF LockInv, FreshLocked, FreshAlone, PricedAlike, OpenedClear, LiveAlike, Fresh
<1>2. (TypeOK /\ HandlerWorks) /\ (TypeOK /\ HandlerWorks)' /\ MoneyInv /\ BookingInv /\ LockInv
        /\ [Next]_vars => LockInv'
  BY LockStep DEF MoneyInv, BookingInv
<1> QED BY <1>1, <1>2, PaymentsTyped, PaymentsMoney, PaymentsBooking, PTL DEF Spec

\* At most one checkout of a schedule can be paid at a time, if no request is
\* slower than its lock of 120 seconds: then a request loses its lock only to a
\* payment that leaves nothing to pay (createPaymentSession).
THEOREM OneCheckoutLive == ~SlowRequests => (Spec => []AtMostOneLiveCheckout)
<1> SUFFICES ASSUME ~SlowRequests PROVE Spec => []AtMostOneLiveCheckout
  OBVIOUS
<1>1. LockInv => AtMostOneLiveCheckout
  <2> SUFFICES ASSUME LockInv, NEW s \in Schedules PROVE Cardinality(LiveSessions(s)) <= 1
    BY DEF AtMostOneLiveCheckout
  <2>1. CASE LiveSessions(s) = {}
    BY <2>1, FS_EmptySet
  <2>2. ASSUME NEW k \in LiveSessions(s) PROVE Cardinality(LiveSessions(s)) <= 1
    <3>1. LiveSessions(s) = {k}
      BY DEF LockInv, LiveAlike
    <3> QED BY <3>1, FS_Singleton
  <2> QED BY <2>1, <2>2
<1> QED BY <1>1, PaymentsLock, PTL

-----------------------------------------------------------------------------
(***************************************************************************)
(* What the session that keeps the lock asks for.  Nothing changes what a  *)
(* schedule owes while its lock is live but a payment, which gives it up.  *)
(***************************************************************************)

\* No two requests repeat one key.
RequestsDistinct == \A r, q \in Requests : KeyOf(r) = KeyOf(q) => r = q

\* What happens to the lock of schedule s in a step.
LockFree(s) == lockKey'[s] = None /\ lockUntil'[s] = "past"
LockSame(s) == lockKey'[s] = lockKey[s] /\ lockUntil'[s] = lockUntil[s]
LockTakenBy(s, r) ==
    /\ Target(r) = s /\ request'[r] = "locked"
    /\ lockKey'[s] = KeyOf(r) /\ lockUntil'[s] = "request"
LockLapsed(s) ==
    /\ lockKey'[s] = lockKey[s] /\ lockUntil'[s] = "past" /\ UNCHANGED request
    /\ \A r \in Requests : KeyOf(r) = lockKey[s] => ~Busy(r)
LockRetainedBy(s, r) ==
    /\ Target(r) = s /\ request[r] = "inserted" /\ request'[r] = "idle"
    /\ lockKey[s] = KeyOf(r) /\ lockKey'[s] = KeyOf(r) /\ lockUntil'[s] = "session"

LockMoves ==
    \A s \in Schedules :
        \/ LockFree(s) \/ LockSame(s) \/ LockLapsed(s)
        \/ \E r \in Requests : LockTakenBy(s, r) \/ LockRetainedBy(s, r)

\* How the lock of a schedule moves in a step.
LEMMA StepMovesLocks ==
    ASSUME ~SlowRequests, TypeOK, HandlerWorks, [Next]_vars
    PROVE  LockMoves
<1> USE DEF vars, scheduleVars, invoiceVars, providerVars, requestVars, handlerVars
<1>0. \A r \in Requests : Target(r) \in Schedules
  BY PaymentsAssumption DEF Target
<1>1. CASE UNCHANGED lockVars
  BY <1>1 DEF lockVars, LockMoves, LockSame
<1>2. ASSUME NEW t \in Schedules, Unlocked(t) PROVE LockMoves
  BY <1>2 DEF Unlocked, LockMoves, LockFree, LockSame, TypeOK
<1>3. ASSUME NEW r \in Requests, CheckoutLock(r) PROVE LockMoves
  <2>1. CASE UNCHANGED lockVars
    BY <1>1, <2>1
  <2>2. CASE ~UNCHANGED lockVars
    <3>1. LockTakenBy(Target(r), r)
      BY <1>0, <1>3, <2>2 DEF CheckoutLock, LockTakenBy, TypeOK
    <3>2. \A s \in Schedules : s # Target(r) => LockSame(s)
      BY <1>0, <1>3, <2>2 DEF CheckoutLock, LockSame, TypeOK
    <3> QED BY <3>1, <3>2 DEF LockMoves
  <2> QED BY <2>1, <2>2
<1>4. ASSUME NEW r \in Requests, CheckoutRetain(r) PROVE LockMoves
  <2>1. CASE lockKey[Target(r)] # KeyOf(r)
    BY <1>1, <1>4, <2>1 DEF CheckoutRetain, lockVars
  <2>2. CASE lockKey[Target(r)] = KeyOf(r)
    <3>1. LockRetainedBy(Target(r), r)
      BY <1>0, <1>4, <2>2 DEF CheckoutRetain, LockRetainedBy, TypeOK
    <3>2. \A s \in Schedules : s # Target(r) => LockSame(s)
      BY <1>0, <1>4, <2>2 DEF CheckoutRetain, LockSame, TypeOK
    <3> QED BY <3>1, <3>2 DEF LockMoves
  <2> QED BY <2>1, <2>2
<1>5. ASSUME NEW r \in Requests, CheckoutRelease(r) PROVE LockMoves
  BY <1>0, <1>1, <1>2, <1>5 DEF CheckoutRelease
<1>6. ASSUME NEW t \in Schedules, LockLapse(t) PROVE LockMoves
  <2>1. LockLapsed(t)
    BY <1>6 DEF LockLapse, LockLapsed, TypeOK, Busy
  <2>2. \A s \in Schedules : s # t => LockSame(s)
    BY <1>6 DEF LockLapse, LockSame, TypeOK
  <2> QED BY <2>1, <2>2 DEF LockMoves
<1>7. ASSUME NEW w \in Receivers, PayFailed(w) \/ PayCommit(w) PROVE LockMoves
  <2>1. PayingFor(w) \in Schedules
    BY <1>7, PaymentsAssumption DEF PayFailed, PayCommit, HandlerWorks, PayingFor, Paying
  <2>2. Unlocked(PayingFor(w)) \/ UNCHANGED lockVars
    BY <1>7 DEF PayFailed, PayCommit, Pay, PayingFor
  <2> QED BY <1>1, <1>2, <2>1, <2>2
<1> QED
  BY <1>1, <1>3, <1>4, <1>5, <1>6, <1>7
     DEF lockVars, Next, RequestStep, CheckoutStart, CheckoutPrice, CheckoutOpen, CheckoutRefused,
         CheckoutInsert, RequestCrash, SessionLapse, Capture, CheckoutFails, CreditNote,
         EventClaim, ReceiverStep, PayRead, PayReplay, PayReject, PayAbort, ReceiverCrash

\* What a schedule owes changes only while its lock is free, or with a payment.
LEMMA LockFreezes ==
    ASSUME TypeOK, HandlerWorks, [Next]_vars, NEW s \in Schedules
    PROVE  Remaining(s)' = Remaining(s) \/ ~LockLive(s) \/ LockFree(s)
<1> USE DEF vars, scheduleVars, lockVars, invoiceVars, providerVars, requestVars, handlerVars
<1>1. CASE UNCHANGED <<paid, credited>>
  BY <1>1 DEF Remaining
<1>2. ASSUME NEW w \in Receivers, PayCommit(w)
      PROVE  Remaining(s)' = Remaining(s) \/ ~LockLive(s) \/ LockFree(s)
  <2>1. PayingFor(w) \in Schedules
    BY <1>2, PaymentsAssumption DEF PayCommit, HandlerWorks, PayingFor, Paying
  <2>2. CASE s = PayingFor(w)
    BY <1>2, <2>1, <2>2 DEF PayCommit, Pay, PayingFor, Unlocked, LockFree, TypeOK
  <2>3. CASE s # PayingFor(w)
    <3>1. paid'[s] = paid[s] /\ credited'[s] = credited[s]
      BY <1>2, <2>1, <2>3 DEF PayCommit, Pay, PayingFor, TypeOK
    <3> QED BY <3>1 DEF Remaining
  <2> QED BY <2>2, <2>3
<1>3. ASSUME NEW n \in CreditNotes, CreditNote(n)
      PROVE  Remaining(s)' = Remaining(s) \/ ~LockLive(s) \/ LockFree(s)
  <2>1. paid' = paid /\ credited'[s] = credited[s] + CreditFor(n, s) /\ CreditFor(n, s) \in Nat
    BY <1>3, CreditType DEF CreditNote, CreditRows
  <2>2. CASE CreditFor(n, s) = 0
    BY <2>1, <2>2 DEF Remaining, TypeOK
  <2>3. CASE CreditFor(n, s) > 0
    BY <1>3, <2>3 DEF CreditNote
  <2> QED BY <2>1, <2>2, <2>3
<1> QED
  BY <1>1, <1>2, <1>3
     DEF Next, RequestStep, CheckoutStart, CheckoutLock, CheckoutPrice, CheckoutOpen,
         CheckoutRefused, CheckoutInsert, CheckoutRetain, CheckoutRelease, RequestCrash, LockLapse,
         SessionLapse, Capture, CheckoutFails, EventClaim, ReceiverStep, PayFailed, PayRead,
         PayReplay, PayReject, PayAbort, ReceiverCrash

\* How a checkout request r goes on in a step.
RequestMoves(r) ==
    /\ Busy(r)' => Busy(r) \/ LockTakenBy(Target(r), r)
    /\ request'[r] = "opened" =>
         \/ request[r] = "opened"
         \/ request[r] = "priced" /\ amount'[KeyOf(r)] = price[r] /\ checkout'[KeyOf(r)] # "none"
    /\ request'[r] = "inserted" =>
         \/ request[r] = "inserted"
         \/ request[r] = "opened" /\ session'[KeyOf(r)] # "NONE"

\* Where a new session comes from.
SessionMoves(k) ==
    /\ session'[k] = "PENDING" => session[k] \in {"NONE", "PENDING"}
    /\ session[k] = "NONE" /\ session'[k] # "NONE" =>
         \E r \in Requests : KeyOf(r) = k /\ request[r] = "opened" /\ request'[r] = "inserted"

\* A delivery is about a session that is stored.
HandlersStored == \A w \in Receivers : handler[w] # "idle" => session[Paying(w)] # "NONE"

\* How requests and sessions go on in a step.
LEMMA StepMovesStored ==
    ASSUME TypeOK, HandlerWorks, HandlersStored, [Next]_vars
    PROVE  /\ \A r \in Requests : RequestMoves(r)
           /\ \A k \in Sessions : SessionMoves(k)
<1> USE DEF vars, scheduleVars, lockVars, invoiceVars, providerVars, requestVars, handlerVars
<1> DEFINE G == /\ \A r \in Requests : RequestMoves(r)
                /\ \A k \in Sessions : SessionMoves(k)
<1>0. /\ \A r \in Requests : Target(r) \in Schedules /\ KeyOf(r) \in Sessions
      /\ request \in [Requests -> {"idle", "started", "locked", "priced", "opened", "inserted",
                                   "failing"}]
      /\ session \in [Sessions -> {"NONE", "PENDING", "COMPLETED", "FAILED"}]
  BY PaymentsAssumption DEF Target, KeyOf, TypeOK
<1>1. CASE UNCHANGED <<request, session>>
  BY <1>0, <1>1 DEF RequestMoves, SessionMoves, Busy
<1>2. ASSUME NEW r \in Requests, CheckoutLock(r) PROVE G
  <2>1. CASE request'[r] = "locked"
    <3>1. LockTakenBy(Target(r), r)
      BY <1>0, <1>2, <2>1 DEF CheckoutLock, LockTakenBy, TypeOK
    <3> QED BY <1>0, <1>2, <2>1, <3>1 DEF CheckoutLock, RequestMoves, SessionMoves, Busy
  <2>2. CASE request'[r] # "locked"
    BY <1>0, <1>2, <2>2 DEF CheckoutLock, RequestMoves, SessionMoves, Busy
  <2> QED BY <2>1, <2>2
<1>3. ASSUME NEW r \in Requests, CheckoutOpen(r) PROVE G
  <2>1. /\ request[r] = "priced" /\ amount'[KeyOf(r)] = price[r]
        /\ checkout'[KeyOf(r)] # "none"
    BY <1>0, <1>3 DEF CheckoutOpen, TypeOK
  <2> QED BY <1>0, <1>3, <2>1 DEF CheckoutOpen, RequestMoves, SessionMoves, Busy
<1>4. ASSUME NEW r \in Requests, CheckoutInsert(r) PROVE G
  <2>1. \A q \in Requests : RequestMoves(q)
    BY <1>0, <1>4 DEF CheckoutInsert, RequestMoves, Busy
  <2>2. \A k \in Sessions : SessionMoves(k)
    BY <1>0, <1>4 DEF CheckoutInsert, SessionMoves
  <2> QED BY <2>1, <2>2
<1>5. ASSUME NEW r \in Requests,
             \/ CheckoutStart(r) \/ CheckoutPrice(r) \/ CheckoutRefused(r)
             \/ CheckoutRetain(r) \/ CheckoutRelease(r) \/ RequestCrash(r)
      PROVE  G
  BY <1>0, <1>5
     DEF CheckoutStart, CheckoutPrice, CheckoutRefused, CheckoutRetain, CheckoutRelease,
         RequestCrash, RequestMoves, SessionMoves, Busy
<1>6. ASSUME NEW w \in Receivers, PayFailed(w) \/ PayCommit(w) PROVE G
  <2>1. Paying(w) \in Sessions /\ session[Paying(w)] # "NONE" /\ UNCHANGED request
    BY <1>6, PaymentsAssumption DEF PayFailed, PayCommit, HandlerWorks, HandlersStored, Paying
  <2>2. \A k \in Sessions : SessionMoves(k)
    BY <1>0, <1>6, <2>1 DEF PayFailed, PayCommit, Pay, SessionMoves
  <2> QED BY <1>0, <2>1, <2>2 DEF RequestMoves, Busy
<1> QED
  BY <1>1, <1>2, <1>3, <1>4, <1>5, <1>6
     DEF Next, RequestStep, LockLapse, SessionLapse, Capture, CheckoutFails, CreditNote,
         EventClaim, ReceiverStep, PayRead, PayReplay, PayReject, PayAbort, ReceiverCrash

\* The same, of deliveries that are backed.
LEMMA StepMovesRequests ==
    ASSUME TypeOK, HandlerWorks, HandlersBacked, [Next]_vars
    PROVE  /\ \A r \in Requests : RequestMoves(r)
           /\ \A k \in Sessions : SessionMoves(k)
<1>1. HandlersStored
  BY DEF HandlersBacked, HandlersStored
<1> QED BY <1>1, StepMovesStored

\* What was opened was charged for, and is there before its session is.
OpenedCharged == \A r \in Requests : request[r] \in {"opened", "inserted"} =>
                                       checkout[KeyOf(r)] # "none"
StoredCharged == \A k \in Sessions : session[k] # "NONE" => checkout[k] # "none"

\* The lock is kept for a session that is stored.
KeptStored ==
    \A s \in Schedules : lockUntil[s] = "session" =>
        lockKey[s] \in Sessions /\ session[lockKey[s]] # "NONE"

\* The lock of a busy request has not run out.
BusyHolds ==
    \A r \in Requests : Busy(r) /\ lockKey[Target(r)] = KeyOf(r) =>
                          lockUntil[Target(r)] = "request"

\* A request that has the lock works with what the schedule owes.
HeldCurrent ==
    \A r \in Requests : LockHeld(r) =>
        /\ request[r] = "priced" => price[r] = Remaining(Target(r))
        /\ request[r] \in {"opened", "inserted"} => amount[KeyOf(r)] = Remaining(Target(r))

\* The inductive invariant of what a locked checkout asks for.
CurrentInv ==
    /\ OpenedCharged /\ StoredCharged /\ KeptStored /\ InsertedStored /\ BusyHolds /\ HeldCurrent
    /\ LockedCheckoutIsCurrent

\* The checkouts of requests and sessions stay open, and sessions that keep the
\* lock stay stored.
LEMMA ChargedStep ==
    ASSUME ~SlowRequests, TypeOK, TypeOK', HandlerWorks, HandlersBacked, CurrentInv, [Next]_vars
    PROVE  OpenedCharged' /\ StoredCharged' /\ KeptStored' /\ InsertedStored'
<1> USE DEF CurrentInv
<1>1. Forward /\ LockMoves /\ \A r \in Requests : KeyOf(r) \in Sessions /\ KeyOf(r)' = KeyOf(r)
  BY StepForward, StepMovesLocks, SettledStays
<1>2. OpenedCharged'
  BY <1>1, StepMovesRequests DEF OpenedCharged, RequestMoves, Forward
<1>3. StoredCharged'
  BY <1>1, StepMovesRequests DEF OpenedCharged, StoredCharged, SessionMoves, Forward
<1>4. KeptStored'
  <2> SUFFICES ASSUME NEW s \in Schedules, lockUntil'[s] = "session"
               PROVE  lockKey'[s] \in Sessions /\ session'[lockKey'[s]] # "NONE"
    BY DEF KeptStored
  <2>1. CASE LockSame(s) \/ LockLapsed(s)
    BY <1>1, <2>1 DEF LockSame, LockLapsed, KeptStored, Forward
  <2>2. ASSUME NEW r \in Requests, LockTakenBy(s, r) \/ LockRetainedBy(s, r)
        PROVE  lockKey'[s] \in Sessions /\ session'[lockKey'[s]] # "NONE"
    BY <1>1, <2>2 DEF LockTakenBy, LockRetainedBy, InsertedStored, Forward
  <2>3. ~LockFree(s)
    BY DEF LockFree
  <2> QED BY <1>1, <2>1, <2>2, <2>3 DEF LockMoves
<1>5. InsertedStored'
  BY <1>1, StepMovesRequests DEF InsertedStored, RequestMoves, Forward
<1> QED BY <1>2, <1>3, <1>4, <1>5

\* The lock of a busy request still does not run out.
LEMMA BusyStep ==
    ASSUME ~SlowRequests, RequestsDistinct, TypeOK, TypeOK', HandlerWorks, HandlersBacked,
           BusyHolds, [Next]_vars
    PROVE  BusyHolds'
<1>1. \A r \in Requests : /\ KeyOf(r) \in Sessions /\ KeyOf(r)' = KeyOf(r)
                          /\ Target(r) \in Schedules /\ Target(r)' = Target(r)
  BY SettledStays
<1> SUFFICES ASSUME NEW r \in Requests, NEW s \in Schedules, s = Target(r),
                    Busy(r)', lockKey'[s] = KeyOf(r)
             PROVE  lockUntil'[s] = "request"
  BY <1>1 DEF BusyHolds
<1>2. RequestMoves(r) /\ LockMoves
  BY StepMovesRequests, StepMovesLocks
<1>3. CASE LockTakenBy(s, r)
  BY <1>3 DEF LockTakenBy
<1>4. CASE Busy(r) /\ LockSame(s)
  BY <1>4 DEF BusyHolds, LockSame
<1>5. ~LockFree(s)
  BY <1>1, PaymentsAssumption DEF LockFree
<1>6. ~(Busy(r) /\ LockLapsed(s))
  BY DEF LockLapsed
<1>7. ASSUME NEW q \in Requests, LockTakenBy(s, q) \/ LockRetainedBy(s, q)
      PROVE  LockTakenBy(s, q)
  <2>1. CASE LockRetainedBy(s, q)
    <3>1. q = r
      BY <2>1 DEF LockRetainedBy, RequestsDistinct
    <3> QED BY <2>1, <3>1 DEF LockRetainedBy, Busy
  <2> QED BY <1>7, <2>1
<1>8. ASSUME NEW q \in Requests, LockTakenBy(s, q) PROVE lockUntil'[s] = "request"
  BY <1>8 DEF LockTakenBy
<1> QED BY <1>2, <1>3, <1>4, <1>5, <1>6, <1>7, <1>8 DEF RequestMoves, LockMoves

\* A request that has the lock still works with what the schedule owes.
LEMMA HeldStep ==
    ASSUME ~SlowRequests, RequestsDistinct, TypeOK, TypeOK', HandlerWorks, HandlersBacked,
           OpenedCharged, HeldCurrent, [Next]_vars
    PROVE  HeldCurrent'
<1>1. \A r \in Requests : /\ KeyOf(r) \in Sessions /\ KeyOf(r)' = KeyOf(r)
                          /\ Target(r) \in Schedules /\ Target(r)' = Target(r)
  BY SettledStays
<1> SUFFICES ASSUME NEW r \in Requests, NEW s \in Schedules, s = Target(r),
                    lockKey'[s] = KeyOf(r), lockUntil'[s] = "request",
                    request'[r] \in {"priced", "opened", "inserted"}
             PROVE  /\ request'[r] = "priced" => price'[r] = Remaining(s)'
                    /\ request'[r] \in {"opened", "inserted"} => amount'[KeyOf(r)] = Remaining(s)'
  <2>1. ASSUME NEW r \in Requests, NEW s \in Schedules, s = Target(r)
        PROVE  Remaining(s)' = Remaining(Target(r))'
    BY <1>1, <2>1 DEF Remaining
  <2> QED BY <1>1, <2>1 DEF HeldCurrent, LockHeld
<1>2. RequestMoves(r) /\ LockMoves /\ Forward
  BY StepMovesRequests, StepMovesLocks, StepForward
<1>3. LockHeld(r) /\ ~LockFree(s)
  <2>1. ~LockFree(s) /\ ~LockLapsed(s)
    BY DEF LockFree, LockLapsed
  <2>2. ASSUME NEW q \in Requests, LockTakenBy(s, q) \/ LockRetainedBy(s, q) PROVE FALSE
    <3>1. LockTakenBy(s, q) /\ q = r
      BY <2>2 DEF LockTakenBy, LockRetainedBy, RequestsDistinct
    <3> QED BY <3>1 DEF LockTakenBy
  <2>3. LockSame(s)
    BY <1>2, <2>1, <2>2 DEF LockMoves
  <2> QED BY <2>1, <2>3 DEF LockSame, LockHeld
<1>4. Remaining(s)' = Remaining(s)
  <2>1. LockLive(s)
    BY <1>1, <1>3, PaymentsAssumption DEF LockHeld, LockLive
  <2> QED BY <1>3, <2>1, LockFreezes
<1>5. CASE request'[r] = "priced"
  BY <1>3, <1>4, <1>5, NewPrices DEF HeldCurrent
<1>6. CASE request'[r] \in {"opened", "inserted"}
  <2>1. CASE request[r] \in {"opened", "inserted"}
    BY <1>1, <1>2, <1>3, <1>4, <1>6, <2>1 DEF HeldCurrent, OpenedCharged, Forward
  <2>2. CASE request[r] = "priced" /\ amount'[KeyOf(r)] = price[r]
    BY <1>3, <1>4, <1>6, <2>2 DEF HeldCurrent
  <2> QED BY <1>2, <1>6, <2>1, <2>2 DEF RequestMoves
<1> QED BY <1>5, <1>6

\* What the session that keeps the lock asks for is still what is owed.
LEMMA LockedStep ==
    ASSUME ~SlowRequests, RequestsDistinct, TypeOK, TypeOK', HandlerWorks, HandlersBacked,
           CurrentInv, [Next]_vars
    PROVE  LockedCheckoutIsCurrent'
<1> USE DEF CurrentInv
<1> SUFFICES ASSUME NEW k \in Sessions, NEW s \in Schedules, s = SessionSchedule[k],
                    session'[k] = "PENDING", lockKey'[s] = k, lockUntil'[s] = "session",
                    LockLive(s)'
             PROVE  amount'[k] = Remaining(s)'
  BY PaymentsAssumption DEF LockedCheckoutIsCurrent
<1>1. SessionMoves(k) /\ LockMoves /\ Forward
  BY StepMovesRequests, StepMovesLocks, StepForward
<1>2. ~LockFree(s) /\ ~LockLapsed(s)
  BY DEF LockFree, LockLapsed
<1>3. lapsed \subseteq lapsed'
  BY DEF Next, vars, providerVars, RequestStep, CheckoutStart, CheckoutLock, CheckoutPrice,
         CheckoutOpen, CheckoutRefused, CheckoutInsert, CheckoutRetain, CheckoutRelease,
         RequestCrash, LockLapse, SessionLapse, Capture, CheckoutFails, CreditNote, EventClaim,
         ReceiverStep, PayFailed, PayRead, PayReplay, PayReject, PayCommit, PayAbort, ReceiverCrash
<1>4. CASE LockSame(s)
  <2>1. LockLive(s)
    BY <1>3, <1>4 DEF LockSame, LockLive
  <2>2. session[k] = "PENDING"
    BY <1>1, <1>4 DEF LockSame, KeptStored, SessionMoves
  <2>3. amount[k] = Remaining(s)
    BY <1>4, <2>1, <2>2 DEF LockSame, LockedCheckoutIsCurrent
  <2>4. amount'[k] = amount[k]
    BY <1>1, <2>2 DEF StoredCharged, Forward
  <2> QED BY <1>2, <2>1, <2>3, <2>4, LockFreezes
<1>5. ASSUME NEW r \in Requests, LockRetainedBy(s, r) PROVE amount'[k] = Remaining(s)'
  <2>1. KeyOf(r) = k /\ Target(r) = s /\ request[r] = "inserted" /\ lockKey[s] = k
    BY <1>5 DEF LockRetainedBy
  <2>2. lockUntil[s] = "request"
    BY <2>1 DEF BusyHolds, Busy
  <2>3. amount[k] = Remaining(s)
    BY <2>1, <2>2 DEF HeldCurrent, LockHeld
  <2>4. LockLive(s)
    BY <2>1, <2>2, PaymentsAssumption DEF LockLive
  <2>5. amount'[k] = amount[k]
    BY <1>1, <2>1 DEF OpenedCharged, Forward
  <2> QED BY <1>2, <2>3, <2>4, <2>5, LockFreezes
<1>6. ASSUME NEW r \in Requests, LockTakenBy(s, r) PROVE FALSE
  BY <1>6 DEF LockTakenBy
<1> QED BY <1>1, <1>2, <1>4, <1>5, <1>6 DEF LockMoves

\* The invariant of the locked checkout holds in every state.
LEMMA PaymentsCurrent == ~SlowRequests /\ RequestsDistinct => (Spec => []CurrentInv)
<1> SUFFICES ASSUME ~SlowRequests, RequestsDistinct PROVE Spec => []CurrentInv
  OBVIOUS
<1>1. Init => CurrentInv
  <2> SUFFICES ASSUME Init PROVE CurrentInv
    OBVIOUS
  <2>1. \A r \in Requests : request[r] = "idle"
    BY DEF Init
  <2>2. \A s \in Schedules : lockKey[s] = None /\ lockUntil[s] = "past"
    BY DEF Init
  <2>3. \A k \in Sessions : session[k] = "NONE"
    BY DEF Init
  <2> QED BY <2>1, <2>2, <2>3
          DEF CurrentInv, OpenedCharged, StoredCharged, KeptStored, InsertedStored, BusyHolds,
              HeldCurrent, LockedCheckoutIsCurrent, Busy
<1>2. (TypeOK /\ HandlerWorks) /\ (TypeOK /\ HandlerWorks)' /\ MoneyInv /\ CurrentInv
        /\ [Next]_vars => CurrentInv'
  BY ChargedStep, BusyStep, HeldStep, LockedStep DEF MoneyInv, CurrentInv
<1> QED BY <1>1, <1>2, PaymentsTyped, PaymentsMoney, PTL DEF Spec

\* One checkout of a schedule at a time can be paid, and while it keeps the lock
\* it asks for what the schedule owes, if no request is slower than its lock and
\* none is repeated under its key while the first still runs (createPaymentSession,
\* creditNote, processSuccessfulPayment).
THEOREM CheckoutsExclusive == ~SlowRequests /\ RequestsDistinct => (Spec => []CheckoutExclusive)
<1> SUFFICES ASSUME ~SlowRequests, RequestsDistinct PROVE Spec => []CheckoutExclusive
  OBVIOUS
<1>1. Spec => []AtMostOneLiveCheckout
  BY OneCheckoutLive
<1>2. Spec => []CurrentInv
  BY PaymentsCurrent
<1>3. AtMostOneLiveCheckout /\ CurrentInv => CheckoutExclusive
  BY DEF CheckoutExclusive, CurrentInv
<1> QED BY <1>1, <1>2, <1>3, PTL

-----------------------------------------------------------------------------
(***************************************************************************)
(* Overpayment.  A delivery writes statuses computed from its snapshot,    *)
(* which other deliveries and credit notes may overtake.                   *)
(***************************************************************************)

\* A snapshot is never ahead of the rows, and the checkout of an open delivery
\* asked for all its schedule owed by then.
SeenBehind ==
    \A w \in Receivers : handler[w] = "read" =>
        /\ seen[w].paid <= paid[PayingFor(w)] /\ seen[w].credited <= credited[PayingFor(w)]
        /\ seen[w].invoicePaid <= invoicePaid /\ seen[w].invoiceCredited <= invoiceCredited
        /\ amount[Paying(w)] >= ScheduleAmount[PayingFor(w)] - seen[w].paid - seen[w].credited

\* The inductive invariant of concurrent payments.
RaceInv == SeenBehind /\ PaidMeansSettled

\* The total of an invoice is a positive number.
LEMMA TotalPositive == InvoiceTotal \in Nat \ {0}
<1> DEFINE U == Units(Schedules, MaxAmount, ScheduleAmount, Schedules)
<1>1. IsFiniteSet(Schedules)
  BY PaymentsAssumption, FS_Interval DEF Schedules
<1>2. IsFiniteSet(U) /\ Cardinality(U) \in Nat
  BY <1>1, PaymentsAssumption, UnitsType
<1>3. InvoiceTotal = Cardinality(U)
  BY DEF InvoiceTotal, Units
<1>4. <<1, 1>> \in U
  <2>1. 1 \in Schedules
    BY PaymentsAssumption DEF Schedules
  <2>2. ScheduleAmount[1] \in 1..MaxAmount
    BY <2>1, PaymentsAssumption
  <2> QED BY <2>1, <2>2, PaymentsAssumption DEF Units
<1>5. Cardinality(U) # 0
  BY <1>2, <1>4, FS_EmptySet
<1> QED BY <1>2, <1>3, <1>5

\* What a payment does to the rows of its schedule and of the invoice.
LEMMA PaymentEffect ==
    ASSUME TypeOK, HandlerWorks, NEW w \in Receivers, PayCommit(w)
    PROVE  \E k \in Sessions, s \in Schedules :
             /\ k = Paying(w) /\ s = PayingFor(w) /\ handler[w] = "read"
             /\ amount' = amount /\ credited' = credited /\ invoiceCredited' = invoiceCredited
             /\ paid'[s] = paid[s] + amount[k]
             /\ invoicePaid' = invoicePaid + amount[k]
             /\ amount[k] <= ScheduleAmount[s] - seen[w].paid - seen[w].credited
             /\ scheduleStatus'[s] =
                  IF seen[w].paid + seen[w].credited + amount[k] >= ScheduleAmount[s]
                  THEN "PAID" ELSE "PARTIALLY_PAID"
             /\ invoiceStatus' =
                  IF seen[w].invoicePaid + amount[k] + seen[w].invoiceCredited >= InvoiceTotal
                  THEN "PAID" ELSE "PARTIALLY_PAID"
             /\ \A t \in Schedules : t # s =>
                  paid'[t] = paid[t] /\ scheduleStatus'[t] = scheduleStatus[t]
             /\ handler' = [handler EXCEPT ![w] = "idle"]
             /\ seen' = [seen EXCEPT ![w] = NothingSeen]
             /\ working' = [working EXCEPT ![w] = None]
<1>0. PICK k \in Sessions, s \in Schedules :
          k = Paying(w) /\ s = SessionSchedule[k] /\ s = PayingFor(w)
  BY PaymentsAssumption DEF PayCommit, HandlerWorks, Paying, PayingFor
<1> DEFINE z == seen[w]
<1>1. Pay(k, z) /\ Answered(w, "PROCESSED") /\ handler[w] = "read" /\ ~Exceeds(w)
      /\ UNCHANGED <<amount, credited, invoiceCredited>>
  BY <1>0 DEF PayCommit, providerVars
<1>2. z.paid \in Nat /\ z.credited \in Nat /\ ScheduleAmount[s] \in Nat /\ amount[k] \in Nat
  BY PaymentsAssumption DEF TypeOK
<1> HIDE DEF z
<1>3. amount[k] <= ScheduleAmount[s] - z.paid - z.credited
  <2>1. ~(amount[k] > ScheduleAmount[s] - z.paid - z.credited)
    BY <1>0, <1>1 DEF Exceeds, z
  <2> QED BY <1>2, <2>1
<1>4. SessionSchedule[k] = s
  BY <1>0
<1>5. /\ paid'[s] = paid[s] + amount[k]
      /\ scheduleStatus'[s] = IF z.paid + z.credited + amount[k] >= ScheduleAmount[s]
                              THEN "PAID" ELSE "PARTIALLY_PAID"
      /\ \A t \in Schedules : t # s =>
           paid'[t] = paid[t] /\ scheduleStatus'[t] = scheduleStatus[t]
      /\ invoicePaid' = invoicePaid + amount[k]
      /\ invoiceStatus' = IF z.invoicePaid + amount[k] + z.invoiceCredited >= InvoiceTotal
                          THEN "PAID" ELSE "PARTIALLY_PAID"
  BY <1>1, <1>4 DEF Pay, TypeOK
<1>6. /\ handler' = [handler EXCEPT ![w] = "idle"]
      /\ seen' = [seen EXCEPT ![w] = NothingSeen]
      /\ working' = [working EXCEPT ![w] = None]
  BY <1>1 DEF Answered
<1> QED BY <1>0, <1>1, <1>3, <1>5, <1>6 DEF z

\* A credit note takes no more off a schedule than it owes.
LEMMA CreditEffect ==
    ASSUME TypeOK, NEW n \in CreditNotes, CreditNote(n), NEW s \in Schedules
    PROVE  /\ paid' = paid /\ CreditFor(n, s) \in Nat
           /\ credited'[s] = credited[s] + CreditFor(n, s)
           /\ Remaining(s)' = Remaining(s) - CreditFor(n, s)
           /\ CreditFor(n, s) > 0 => CreditFor(n, s) <= Remaining(s)
<1>1. Remaining(s) \in Int /\ Outstanding(s) \in Nat /\ ScheduleAmount[s] \in Nat
      /\ paid[s] \in Nat /\ credited[s] \in Nat
  BY RemainingType, PaymentsAssumption DEF Outstanding, Settled, TypeOK
<1>2. CreditFor(n, s) \in Nat
  BY CreditType
<1>3. paid' = paid /\ credited'[s] = credited[s] + CreditFor(n, s)
  BY DEF CreditNote, CreditRows
<1>4. Remaining(s)' = Remaining(s) - CreditFor(n, s)
  BY <1>1, <1>2, <1>3 DEF Remaining
<1>5. CreditFor(n, s) > 0 => CreditFor(n, s) <= Outstanding(s)
  <2>1. OutstandingIn(1..(s - 1)) \in Nat
    <3>1. IsFiniteSet(Schedules \X (1..MaxAmount))
      <4>1. IsFiniteSet(Schedules) /\ IsFiniteSet(1..MaxAmount)
        BY PaymentsAssumption, FS_Interval DEF Schedules
      <4> QED BY <4>1, FS_Product
    <3>2. {u \in Schedules \X (1..MaxAmount) :
              u[1] \in 1..(s - 1) /\ u[2] <= Outstanding(u[1])}
            \subseteq Schedules \X (1..MaxAmount)
      OBVIOUS
    <3> QED BY <3>1, <3>2, FS_Subset, FS_CardinalityType DEF OutstandingIn
  <2>2. CreditAmount[n] \in Nat
    BY PaymentsAssumption
  <2> QED BY <1>1, <2>1, <2>2 DEF CreditFor
<1>6. CreditFor(n, s) > 0 => CreditFor(n, s) <= Remaining(s)
  BY <1>1, <1>2, <1>5 DEF Outstanding
<1> QED BY <1>2, <1>3, <1>4, <1>6

\* The invoice of a credit note is marked by what it owes afterwards.
LEMMA CreditMarks ==
    ASSUME TypeOK, NEW n \in CreditNotes, CreditNote(n)
    PROVE  /\ invoicePaid' = invoicePaid /\ invoiceCredited' \in Nat
           /\ invoiceCredited' >= invoiceCredited
           /\ invoiceStatus' = "PAID" <=> invoicePaid' + invoiceCredited' >= InvoiceTotal
<1>1. CreditAmount[n] \in Nat /\ invoicePaid \in Nat /\ invoiceCredited \in Nat
      /\ InvoiceTotal \in Nat
  BY PaymentsAssumption, TotalPositive DEF TypeOK
<1> QED BY <1>1 DEF CreditNote, CreditRows

\* Only payments and credit notes write balances and their statuses.
MoneyRows == <<scheduleVars, invoicePaid, invoiceCredited, invoiceStatus>>

LEMMA MoneyWriters ==
    ASSUME [Next]_vars,
           \A w \in Receivers : ~PayCommit(w), \A n \in CreditNotes : ~CreditNote(n)
    PROVE  UNCHANGED MoneyRows
BY DEF vars, scheduleVars, lockVars, invoiceVars, providerVars, requestVars, handlerVars,
       MoneyRows, Next, RequestStep, CheckoutStart, CheckoutLock, CheckoutPrice, CheckoutOpen,
       CheckoutRefused, CheckoutInsert, CheckoutRetain, CheckoutRelease, RequestCrash, LockLapse,
       SessionLapse, Capture, CheckoutFails, EventClaim, ReceiverStep, PayFailed, PayRead,
       PayReplay, PayReject, PayAbort, ReceiverCrash

\* Balances only grow.
LEMMA MoneyGrows ==
    ASSUME TypeOK, HandlerWorks, [Next]_vars
    PROVE  /\ \A s \in Schedules : paid'[s] >= paid[s] /\ credited'[s] >= credited[s]
           /\ invoicePaid' >= invoicePaid /\ invoiceCredited' >= invoiceCredited
<1>0. /\ \A s \in Schedules : paid[s] \in Nat /\ credited[s] \in Nat
      /\ invoicePaid \in Nat /\ invoiceCredited \in Nat
      /\ \A k \in Sessions : amount[k] \in Nat
  BY PaymentsAssumption DEF TypeOK
<1>1. ASSUME NEW w \in Receivers, PayCommit(w)
      PROVE  /\ \A s \in Schedules : paid'[s] >= paid[s] /\ credited'[s] >= credited[s]
             /\ invoicePaid' >= invoicePaid /\ invoiceCredited' >= invoiceCredited
  <2>1. PICK k \in Sessions, s \in Schedules :
            /\ credited' = credited /\ invoiceCredited' = invoiceCredited
            /\ paid'[s] = paid[s] + amount[k] /\ invoicePaid' = invoicePaid + amount[k]
            /\ \A t \in Schedules : t # s => paid'[t] = paid[t]
    BY <1>1, PaymentEffect
  <2> QED BY <1>0, <2>1
<1>2. ASSUME NEW n \in CreditNotes, CreditNote(n)
      PROVE  /\ \A s \in Schedules : paid'[s] >= paid[s] /\ credited'[s] >= credited[s]
             /\ invoicePaid' >= invoicePaid /\ invoiceCredited' >= invoiceCredited
  BY <1>0, <1>2, CreditEffect, CreditMarks
<1> QED BY <1>0, <1>1, <1>2, MoneyWriters DEF MoneyRows, scheduleVars

\* How deliveries come to have read: only by reading what there is.
LEMMA ReadsWhatIs ==
    ASSUME TypeOK, HandlerWorks, [Next]_vars, NEW w \in Receivers, handler'[w] = "read"
    PROVE  \/ UNCHANGED <<handler[w], working[w], seen[w]>>
           \/ /\ handler[w] # "idle" /\ working'[w] = working[w]
              /\ seen'[w].paid = paid[PayingFor(w)] /\ seen'[w].credited = credited[PayingFor(w)]
              /\ seen'[w].invoicePaid = invoicePaid /\ seen'[w].invoiceCredited = invoiceCredited
              /\ UNCHANGED MoneyRows
<1> DEFINE Goal ==
      \/ UNCHANGED <<handler[w], working[w], seen[w]>>
      \/ /\ handler[w] # "idle" /\ working'[w] = working[w]
         /\ seen'[w].paid = paid[PayingFor(w)] /\ seen'[w].credited = credited[PayingFor(w)]
         /\ seen'[w].invoicePaid = invoicePaid /\ seen'[w].invoiceCredited = invoiceCredited
         /\ UNCHANGED MoneyRows
<1> USE DEF vars, scheduleVars, lockVars, invoiceVars, providerVars, requestVars, handlerVars
<1>1. CASE UNCHANGED handlerVars
  BY <1>1
<1>2. ASSUME NEW v \in Receivers, PayRead(v) PROVE Goal
  <2>1. CASE v = w
    <3>1. seen'[w] = [allocated |-> Paying(w) \in allocated,
                      paid |-> paid[PayingFor(w)], credited |-> credited[PayingFor(w)],
                      invoicePaid |-> invoicePaid, invoiceCredited |-> invoiceCredited]
      BY <1>2, <2>1 DEF PayRead, TypeOK
    <3> QED BY <1>2, <2>1, <3>1 DEF PayRead, MoneyRows
  <2>2. CASE v # w
    BY <1>2, <2>2 DEF PayRead, TypeOK
  <2> QED BY <2>1, <2>2
<1>3. ASSUME NEW v \in Receivers, NEW e \in Events, EventClaim(v, e) PROVE Goal
  BY <1>3 DEF EventClaim, TypeOK
<1>4. ASSUME NEW v \in Receivers, NEW status, Answered(v, status) PROVE Goal
  BY <1>4 DEF Answered, TypeOK
<1>5. ASSUME NEW v \in Receivers, ReceiverCrash(v) PROVE Goal
  BY <1>5 DEF ReceiverCrash, TypeOK
<1> QED
  BY <1>1, <1>2, <1>3, <1>4, <1>5
     DEF Next, RequestStep, CheckoutStart, CheckoutLock, CheckoutPrice, CheckoutOpen,
         CheckoutRefused, CheckoutInsert, CheckoutRetain, CheckoutRelease, RequestCrash, LockLapse,
         SessionLapse, Capture, CheckoutFails, CreditNote, ReceiverStep, PayFailed,
         PayReplay, PayReject, PayCommit, PayAbort

\* Snapshots stay behind, and a checkout stays large enough for them.
LEMMA SeenStep ==
    ASSUME TypeOK, TypeOK', HandlerWorks, HandlersBacked, PricesCover, SeenBehind, [Next]_vars
    PROVE  SeenBehind'
<1> SUFFICES ASSUME NEW w \in Receivers, handler'[w] = "read"
             PROVE  /\ seen'[w].paid <= paid'[PayingFor(w)']
                    /\ seen'[w].credited <= credited'[PayingFor(w)']
                    /\ seen'[w].invoicePaid <= invoicePaid'
                    /\ seen'[w].invoiceCredited <= invoiceCredited'
                    /\ amount'[Paying(w)'] >=
                         ScheduleAmount[PayingFor(w)'] - seen'[w].paid - seen'[w].credited
  BY DEF SeenBehind
<1> DEFINE k == Paying(w)
           s == PayingFor(w)
<1>1. handler[w] # "idle" /\ working'[w] = working[w]
  BY ReadsWhatIs
<1>2. k \in Sessions /\ s \in Schedules /\ Paying(w)' = k /\ PayingFor(w)' = s
  BY <1>1, PaymentsAssumption DEF HandlerWorks, Paying, PayingFor
<1>3. checkout[k] # "none" /\ amount'[k] = amount[k] /\ amount[k] >= Remaining(s)
  BY <1>1, <1>2, StepForward DEF Forward, HandlersBacked, PricesCover, PayingFor
<1>4. /\ paid'[s] >= paid[s] /\ credited'[s] >= credited[s]
      /\ invoicePaid' >= invoicePaid /\ invoiceCredited' >= invoiceCredited
  BY <1>2, MoneyGrows
<1>5. /\ paid[s] \in Nat /\ credited[s] \in Nat /\ paid'[s] \in Nat /\ credited'[s] \in Nat
      /\ invoicePaid \in Nat /\ invoiceCredited \in Nat
      /\ invoicePaid' \in Nat /\ invoiceCredited' \in Nat
      /\ ScheduleAmount[s] \in Nat /\ amount[k] \in Nat
  BY <1>2, PaymentsAssumption DEF TypeOK
<1>6. /\ seen[w].paid \in Nat /\ seen[w].credited \in Nat
      /\ seen[w].invoicePaid \in Nat /\ seen[w].invoiceCredited \in Nat
  BY DEF TypeOK
<1>7. CASE UNCHANGED <<handler[w], working[w], seen[w]>>
  <2>1. /\ seen[w].paid <= paid[s] /\ seen[w].credited <= credited[s]
        /\ seen[w].invoicePaid <= invoicePaid /\ seen[w].invoiceCredited <= invoiceCredited
        /\ amount[k] >= ScheduleAmount[s] - seen[w].paid - seen[w].credited
    BY <1>7 DEF SeenBehind
  <2>2. seen'[w] = seen[w]
    BY <1>7
  <2> HIDE DEF k, s
  <2> QED BY <1>2, <1>3, <1>4, <1>5, <1>6, <2>1, <2>2
<1>8. CASE /\ seen'[w].paid = paid[s] /\ seen'[w].credited = credited[s]
           /\ seen'[w].invoicePaid = invoicePaid /\ seen'[w].invoiceCredited = invoiceCredited
  <2>1. amount[k] >= ScheduleAmount[s] - paid[s] - credited[s]
    BY <1>3 DEF Remaining
  <2> HIDE DEF k, s
  <2> QED BY <1>2, <1>3, <1>4, <1>5, <1>8, <2>1
<1> QED BY <1>7, <1>8, ReadsWhatIs

\* A payment marks what it settles, and nothing that still owes.
LEMMA PaymentMarks ==
    ASSUME TypeOK, HandlerWorks, HandlersBacked, PricesCover, RaceInv,
           NEW w \in Receivers, PayCommit(w)
    PROVE  PaidMeansSettled' /\ ExceededOnlyInARace /\ UnmarkedOnlyInARace
<1>1. PICK k \in Sessions, s \in Schedules :
             /\ k = Paying(w) /\ s = PayingFor(w) /\ handler[w] = "read"
             /\ amount' = amount /\ credited' = credited /\ invoiceCredited' = invoiceCredited
             /\ paid'[s] = paid[s] + amount[k]
             /\ invoicePaid' = invoicePaid + amount[k]
             /\ amount[k] <= ScheduleAmount[s] - seen[w].paid - seen[w].credited
             /\ scheduleStatus'[s] =
                  IF seen[w].paid + seen[w].credited + amount[k] >= ScheduleAmount[s]
                  THEN "PAID" ELSE "PARTIALLY_PAID"
             /\ invoiceStatus' =
                  IF seen[w].invoicePaid + amount[k] + seen[w].invoiceCredited >= InvoiceTotal
                  THEN "PAID" ELSE "PARTIALLY_PAID"
             /\ \A t \in Schedules : t # s =>
                  paid'[t] = paid[t] /\ scheduleStatus'[t] = scheduleStatus[t]
  BY PaymentEffect
<1>2. /\ ScheduleAmount[s] \in Nat /\ paid[s] \in Nat /\ credited[s] \in Nat
      /\ amount[k] \in Nat /\ invoicePaid \in Nat /\ invoiceCredited \in Nat
      /\ InvoiceTotal \in Nat /\ InvoiceTotal' = InvoiceTotal
      /\ seen[w].paid \in Nat /\ seen[w].credited \in Nat
      /\ seen[w].invoicePaid \in Nat /\ seen[w].invoiceCredited \in Nat
  BY PaymentsAssumption, TotalPositive DEF TypeOK, InvoiceTotal
<1>3. /\ seen[w].invoicePaid <= invoicePaid /\ seen[w].invoiceCredited <= invoiceCredited
      /\ amount[k] >= ScheduleAmount[s] - seen[w].paid - seen[w].credited
  BY <1>1 DEF RaceInv, SeenBehind
<1>4. scheduleStatus'[s] = "PAID"
  BY <1>1, <1>2, <1>3
<1>5. Settled(s)'
  BY <1>1, PaymentSettles
<1>6. \A t \in Schedules : t # s => Remaining(t)' = Remaining(t)
  BY <1>1 DEF Remaining
<1>7. \A t \in Schedules : scheduleStatus'[t] = "PAID" <=> Settled(t)'
  BY <1>1, <1>4, <1>5, <1>6 DEF RaceInv, PaidMeansSettled, Settled
<1>8. invoiceStatus' = "PAID" => invoicePaid' + invoiceCredited' >= InvoiceTotal
  BY <1>1, <1>2, <1>3
<1>9. PaidMeansSettled'
  BY <1>2, <1>7, <1>8 DEF PaidMeansSettled
<1>10. ASSUME NEW t \in Schedules, Remaining(t)' < 0, Remaining(t)' < Remaining(t)
       PROVE  handler[w] = "read" /\ PayingFor(w) = t /\ ScheduleOvertaken(w)
  <2>1. t = s
    BY <1>6, <1>10, RemainingType
  <2>2. ~(paid[s] = seen[w].paid /\ credited[s] = seen[w].credited)
    <3> SUFFICES ASSUME paid[s] = seen[w].paid, credited[s] = seen[w].credited PROVE FALSE
      OBVIOUS
    <3>1. amount[k] <= ScheduleAmount[s] - paid[s] - credited[s]
      BY <1>1
    <3>2. Remaining(s)' = ScheduleAmount[s] - (paid[s] + amount[k]) - credited[s]
      BY <1>1 DEF Remaining
    <3>3. Remaining(s)' >= 0
      BY <1>2, <3>1, <3>2
    <3>4. Remaining(s)' \in Int
      BY <1>2, <3>2
    <3> QED BY <1>10, <2>1, <3>3, <3>4
  <2> QED BY <1>1, <2>1, <2>2 DEF ScheduleOvertaken
<1>11. ASSUME invoicePaid' + invoiceCredited' >= InvoiceTotal, invoiceStatus' # "PAID"
       PROVE  InvoiceOvertaken(w)
  <2>1. ~(seen[w].invoicePaid = invoicePaid /\ seen[w].invoiceCredited = invoiceCredited)
    <3> SUFFICES ASSUME seen[w].invoicePaid = invoicePaid,
                        seen[w].invoiceCredited = invoiceCredited
                 PROVE  FALSE
      OBVIOUS
    <3>1. ~(invoicePaid + amount[k] + invoiceCredited >= InvoiceTotal)
      BY <1>1, <1>11
    <3> QED BY <1>1, <1>2, <1>11, <3>1
  <2> QED BY <1>1, <2>1 DEF InvoiceOvertaken
<1> QED BY <1>2, <1>9, <1>10, <1>11 DEF ExceededOnlyInARace, UnmarkedOnlyInARace

\* A credit note marks what it settles, and exceeds nothing.
LEMMA NoteMarks ==
    ASSUME TypeOK, TypeOK', RaceInv, NEW n \in CreditNotes, CreditNote(n)
    PROVE  PaidMeansSettled' /\ ExceededOnlyInARace /\ UnmarkedOnlyInARace
<1>1. InvoiceTotal' = InvoiceTotal
  BY DEF InvoiceTotal
<1>2. \A s \in Schedules : Remaining(s) \in Int
  BY RemainingType
<1>3. ASSUME NEW s \in Schedules
      PROVE  /\ scheduleStatus'[s] = "PAID" <=> Settled(s)'
             /\ Remaining(s)' < 0 => ~(Remaining(s)' < Remaining(s))
  <2>1. /\ CreditFor(n, s) \in Nat /\ Remaining(s)' = Remaining(s) - CreditFor(n, s)
        /\ CreditFor(n, s) > 0 => CreditFor(n, s) <= Remaining(s)
    BY CreditEffect
  <2>2. scheduleStatus'[s] = IF CreditFor(n, s) = 0 THEN scheduleStatus[s]
                             ELSE IF CreditFor(n, s) = Remaining(s) THEN "PAID"
                             ELSE "PARTIALLY_PAID"
    BY DEF CreditNote, CreditRows
  <2>3. scheduleStatus[s] = "PAID" <=> Remaining(s) <= 0
    BY DEF RaceInv, PaidMeansSettled, Settled
  <2>4. Settled(s)' <=> Remaining(s)' <= 0
    BY DEF Settled
  <2> QED BY <1>2, <2>1, <2>2, <2>3, <2>4
<1>4. invoiceStatus' = "PAID" <=> invoicePaid' + invoiceCredited' >= InvoiceTotal
  BY CreditMarks
<1> QED
  BY <1>1, <1>3, <1>4 DEF PaidMeansSettled, ExceededOnlyInARace, UnmarkedOnlyInARace

\* The invariant of concurrent payments holds with every step, and no step
\* exceeds or leaves unmarked but one that was overtaken.
LEMMA RaceStep ==
    ASSUME TypeOK, TypeOK', HandlerWorks, MoneyInv, BookingInv, RaceInv, [Next]_vars
    PROVE  RaceInv' /\ ExceededOnlyInARace /\ UnmarkedOnlyInARace
<1> USE DEF MoneyInv, BookingInv
<1>1. SeenBehind'
  BY SeenStep DEF RaceInv
<1>2. CASE UNCHANGED MoneyRows
  <2>1. \A s \in Schedules : Remaining(s)' = Remaining(s) /\ Remaining(s) \in Int
    BY <1>2, RemainingType DEF MoneyRows, scheduleVars, Remaining
  <2>2. InvoiceTotal' = InvoiceTotal
    BY DEF InvoiceTotal
  <2>3. PaidMeansSettled'
    BY <1>2, <2>1, <2>2 DEF MoneyRows, scheduleVars, RaceInv, PaidMeansSettled, Settled
  <2>4. ExceededOnlyInARace
    BY <2>1 DEF ExceededOnlyInARace
  <2>5. UnmarkedOnlyInARace
    BY <1>2, <2>2 DEF MoneyRows, UnmarkedOnlyInARace
  <2> QED BY <1>1, <2>3, <2>4, <2>5 DEF RaceInv
<1> QED BY <1>1, <1>2, PaymentMarks, NoteMarks, MoneyWriters DEF RaceInv

\* For any number of deliveries, requests, sessions, schedules and credit notes:
\* what is PAID owes nothing, and a schedule is overpaid, or a settled invoice
\* not marked, only by a delivery that was overtaken between its read and its
\* commit (processSuccessfulPayment, creditNote).
THEOREM PaymentsOverpaidOnlyInARace == Spec => OverpaidOnlyInARace
<1>1. Init => RaceInv
  <2> SUFFICES ASSUME Init PROVE RaceInv
    OBVIOUS
  <2>1. \A s \in Schedules : Remaining(s) = ScheduleAmount[s] /\ Remaining(s) \in Nat \ {0}
    BY PaymentsAssumption DEF Init, Remaining
  <2>2. SeenBehind
    BY DEF Init, SeenBehind
  <2>3. PaidMeansSettled
    BY <2>1 DEF Init, PaidMeansSettled, Settled
  <2> QED BY <2>2, <2>3 DEF RaceInv
<1>2. (TypeOK /\ HandlerWorks) /\ (TypeOK /\ HandlerWorks)' /\ MoneyInv /\ BookingInv /\ RaceInv
        /\ [Next]_vars => RaceInv' /\ ExceededOnlyInARace /\ UnmarkedOnlyInARace
  BY RaceStep
<1>3. RaceInv => PaidMeansSettled
  BY DEF RaceInv
<1> QED
  BY <1>1, <1>2, <1>3, PaymentsTyped, PaymentsMoney, PaymentsBooking, PTL
     DEF Spec, OverpaidOnlyInARace

-----------------------------------------------------------------------------
(***************************************************************************)
(* Types.                                                                  *)
(***************************************************************************)

\* The types of the variables of refunds.
RowsTyped ==
    /\ refundStatus \in [Refunds -> {"NONE", "PENDING", "COMPLETED", "FAILED"}]
    /\ referenced \subseteq Refunds
    /\ applied \subseteq Refunds
    /\ atProvider \in [Refunds -> {"none", "pending", "succeeded", "failed"}]
    /\ refundEvent \in [RefundEvents -> {"NONE", "PROCESSING", "PROCESSED", "FAILED"}]
ActorsTyped ==
    /\ actor \in [Actors -> {"idle", "intended", "answered", "claimed", "applying", "read"}]
    /\ handling \in [Actors -> Refunds \cup RefundEvents \cup {None}]
    /\ answer \in [Actors -> {"PENDING", "COMPLETED", None}]
    /\ snapshot \in [Actors -> [completed : BOOLEAN, paid : Nat, credited : Nat,
                                invoicePaid : Nat, invoiceCredited : Nat]]

\* An actor works on a refund or on an event, as its progress says.
ActorWorks ==
    \A a \in Actors :
        /\ actor[a] \in {"intended", "answered"} => a \notin Hooks /\ handling[a] \in Refunds
        /\ actor[a] = "answered" => answer[a] \in {"PENDING", "COMPLETED"}
        /\ actor[a] = "claimed" => a \in Hooks /\ handling[a] \in RefundEvents
        /\ actor[a] \in {"applying", "read"} =>
             IF a \in Hooks THEN handling[a] \in RefundEvents ELSE handling[a] \in Refunds

\* The inductive invariant of the types.
RefundTyped == TypeOK /\ HandlerWorks /\ RowsTyped /\ ActorsTyped /\ ActorWorks

\* The refund of an actor.
LEMMA RefundOfType ==
    ASSUME ActorWorks, ActorsTyped, NEW a \in Actors, actor[a] # "idle"
    PROVE  RefundOf(a) \in Refunds
<1>1. actor[a] \in {"intended", "answered", "claimed", "applying", "read"}
  BY DEF ActorsTyped
<1> QED BY <1>1, RefundsAssumption DEF ActorWorks, RefundOf

\* An actor that goes on keeps the types of the variables of actors.
LEMMA GoingTyped ==
    ASSUME ActorsTyped, ActorWorks, NEW a \in Actors, NEW phase, NEW job, Goes(a, phase, job),
           UNCHANGED answer,
           snapshot' \in [Actors -> [completed : BOOLEAN, paid : Nat, credited : Nat,
                                     invoicePaid : Nat, invoiceCredited : Nat]],
           phase \in {"intended", "claimed", "applying", "read"},
           phase = "intended" => a \notin Hooks /\ job \in Refunds,
           phase = "claimed" => a \in Hooks /\ job \in RefundEvents,
           phase \in {"applying", "read"} =>
             IF a \in Hooks THEN job \in RefundEvents ELSE job \in Refunds
    PROVE  ActorsTyped' /\ ActorWorks'
<1>1. job \in Refunds \cup RefundEvents
  OBVIOUS
<1>2. ActorsTyped'
  BY <1>1 DEF Goes, ActorsTyped
<1>3. ActorWorks'
  BY DEF Goes, ActorsTyped, ActorWorks
<1> QED BY <1>2, <1>3

\* So does one that leaves.
LEMMA LeavingTyped ==
    ASSUME ActorsTyped, ActorWorks, NEW a \in Actors, Leaves(a)
    PROVE  ActorsTyped' /\ ActorWorks'
<1>1. NoSnapshot \in [completed : BOOLEAN, paid : Nat, credited : Nat, invoicePaid : Nat,
                      invoiceCredited : Nat]
  BY DEF NoSnapshot
<1>2. ActorsTyped'
  BY <1>1 DEF Leaves, Goes, ActorsTyped
<1>3. ActorWorks'
  BY DEF Leaves, Goes, ActorsTyped, ActorWorks
<1> QED BY <1>2, <1>3

\* A request for a refund leaves every variable in its type.
LEMMA CallerTyped ==
    ASSUME RefundTyped, NEW a \in Callers, CallerStep(a)
    PROVE  RefundTyped'
<1> USE DEF RefundTyped, rowVars
<1>0. a \in Actors /\ a \notin Hooks
  BY RefundsAssumption DEF Actors
<1>1. UNCHANGED vars => TypeOK' /\ HandlerWorks'
  BY StepTyped
<1>2. ASSUME NEW q \in Refunds, RefundIntent(a, q) PROVE RefundTyped'
  <2>1. RowsTyped'
    BY <1>2 DEF RefundIntent, RowsTyped
  <2>2. ActorsTyped' /\ ActorWorks'
    <3>1. Goes(a, "intended", q) /\ UNCHANGED <<answer, snapshot>>
      BY <1>2 DEF RefundIntent
    <3> QED BY <1>0, <3>1, GoingTyped DEF ActorsTyped
  <2> QED BY <1>1, <1>2, <2>1, <2>2 DEF RefundIntent
<1>3. ASSUME NEW q \in Refunds, RefundResume(a, q) PROVE RefundTyped'
  <2>1. RowsTyped'
    BY <1>3 DEF RefundResume, RowsTyped
  <2>2. ActorsTyped' /\ ActorWorks'
    <3>1. Goes(a, "applying", q) /\ UNCHANGED <<answer, snapshot>>
      BY <1>3 DEF RefundResume
    <3> QED BY <1>0, <3>1, GoingTyped DEF ActorsTyped
  <2> QED BY <1>1, <1>3, <2>1, <2>2 DEF RefundResume
<1>4. CASE RefundCall(a)
  <2>1. RowsTyped'
    <3>1. PICK s \in {"pending", "succeeded"} :
              atProvider' = IF atProvider[handling[a]] = "none"
                            THEN [atProvider EXCEPT ![handling[a]] = s] ELSE atProvider
      BY <1>4 DEF RefundCall
    <3>2. atProvider' \in [Refunds -> {"none", "pending", "succeeded", "failed"}]
      BY <3>1 DEF RowsTyped
    <3> QED BY <1>4, <3>2 DEF RefundCall, RowsTyped
  <2>2. ActorsTyped'
    BY <1>0, <1>4 DEF RefundCall, Goes, ActorsTyped
  <2>3. ActorWorks'
    BY <1>0, <1>4 DEF RefundCall, Goes, ActorsTyped, ActorWorks
  <2> QED BY <1>1, <1>4, <2>1, <2>2, <2>3 DEF RefundCall
<1>5. CASE RefundError(a)
  <2>1. RowsTyped' /\ ActorsTyped' /\ ActorWorks'
    BY <1>0, <1>5, LeavingTyped DEF RefundError, RowsTyped
  <2> QED BY <1>1, <1>5, <2>1 DEF RefundError
<1>6. CASE RefundRecord(a)
  <2>1. answer[a] \in {"PENDING", "COMPLETED"} /\ handling[a] \in Refunds
    BY <1>0, <1>6 DEF RefundRecord, ActorWorks
  <2>2. RowsTyped'
    BY <1>6, <2>1 DEF RefundRecord, RowsTyped
  <2>3. CASE answer[a] = "COMPLETED"
    <3>1. Goes(a, "applying", handling[a]) /\ UNCHANGED <<answer, snapshot>>
      BY <1>6, <2>3 DEF RefundRecord
    <3>2. ActorsTyped' /\ ActorWorks'
      BY <1>0, <2>1, <3>1, GoingTyped DEF ActorsTyped
    <3> QED BY <1>1, <1>6, <2>2, <3>2 DEF RefundRecord
  <2>4. CASE answer[a] # "COMPLETED"
    <3>1. ActorsTyped' /\ ActorWorks'
      BY <1>0, <1>6, <2>4, LeavingTyped DEF RefundRecord
    <3> QED BY <1>1, <1>6, <2>2, <3>1 DEF RefundRecord
  <2> QED BY <2>3, <2>4
<1> QED BY <1>2, <1>3, <1>4, <1>5, <1>6 DEF CallerStep

\* So does the delivery of a refund event.
LEMMA HookTyped ==
    ASSUME RefundTyped, NEW h \in Hooks, HookStep(h)
    PROVE  RefundTyped'
<1> USE DEF RefundTyped, rowVars
<1>0. h \in Actors /\ (actor[h] # "idle" => RefundOf(h) \in Refunds)
  BY RefundOfType DEF Actors
<1>1. UNCHANGED vars => TypeOK' /\ HandlerWorks'
  BY StepTyped
<1>2. ASSUME NEW e \in RefundEvents, HookClaim(h, e) PROVE RefundTyped'
  <2>1. RowsTyped'
    BY <1>2 DEF HookClaim, RowsTyped
  <2>2. ActorsTyped' /\ ActorWorks'
    <3>1. Goes(h, "claimed", e) /\ UNCHANGED <<answer, snapshot>>
      BY <1>2 DEF HookClaim
    <3> QED BY <1>0, <3>1, GoingTyped DEF ActorsTyped
  <2> QED BY <1>1, <1>2, <2>1, <2>2 DEF HookClaim
<1>3. CASE HookUnknown(h) \/ HookPending(h) \/ HookFailed(h)
  <2>1. UNCHANGED vars /\ HookAnswers(h, "PROCESSED")
    BY <1>3 DEF HookUnknown, HookPending, HookFailed
  <2>2. RowsTyped'
    <3>1. refundEvent' \in [RefundEvents -> {"NONE", "PROCESSING", "PROCESSED", "FAILED"}]
      BY <2>1 DEF HookAnswers, RowsTyped
    <3>2. /\ refundStatus' \in [Refunds -> {"NONE", "PENDING", "COMPLETED", "FAILED"}]
          /\ referenced' \subseteq Refunds /\ UNCHANGED <<applied, atProvider>>
      BY <1>0, <1>3 DEF HookUnknown, HookPending, HookFailed, RowsTyped
    <3> QED BY <3>1, <3>2 DEF RowsTyped
  <2>3. ActorsTyped' /\ ActorWorks'
    BY <1>0, <2>1, LeavingTyped DEF HookAnswers
  <2> QED BY <1>1, <2>1, <2>2, <2>3
<1>4. CASE HookSucceeded(h)
  <2>1. RowsTyped'
    BY <1>0, <1>4 DEF HookSucceeded, RowsTyped
  <2>2. ActorsTyped' /\ ActorWorks'
    <3>1. Goes(h, "applying", handling[h]) /\ UNCHANGED <<answer, snapshot>>
          /\ handling[h] \in RefundEvents
      BY <1>0, <1>4 DEF HookSucceeded, ActorWorks
    <3> QED BY <1>0, <3>1, GoingTyped DEF ActorsTyped
  <2> QED BY <1>1, <1>4, <2>1, <2>2 DEF HookSucceeded
<1> QED BY <1>2, <1>3, <1>4 DEF HookStep

\* So does applyRefund, and the crash of an actor.
LEMMA ApplyTyped ==
    ASSUME RefundTyped, NEW a \in Actors, ApplyStep(a) \/ ActorCrash(a)
    PROVE  RefundTyped'
<1> USE DEF RefundTyped, rowVars
<1>0. actor[a] # "idle" => RefundOf(a) \in Refunds
  BY RefundOfType
<1>1. UNCHANGED vars => TypeOK' /\ HandlerWorks'
  BY StepTyped
<1>2. ASSUME NEW status \in {"PROCESSED", "FAILED"}, Finishes(a, status)
      PROVE  /\ refundEvent' \in [RefundEvents -> {"NONE", "PROCESSING", "PROCESSED", "FAILED"}]
             /\ ActorsTyped' /\ ActorWorks'
  BY <1>2, LeavingTyped DEF Finishes, RowsTyped
<1>3. CASE ApplyRead(a)
  <2>1. RefundSchedule(a) \in Schedules
    BY <1>0, <1>3, RefundsAssumption, PaymentsAssumption DEF ApplyRead, RefundSchedule
  <2>2. snapshot' \in [Actors -> [completed : BOOLEAN, paid : Nat, credited : Nat,
                                  invoicePaid : Nat, invoiceCredited : Nat]]
    BY <1>3, <2>1 DEF ApplyRead, ActorsTyped, TypeOK
  <2>3. Goes(a, "read", handling[a]) /\ UNCHANGED answer
    BY <1>3 DEF ApplyRead
  <2>4. IF a \in Hooks THEN handling[a] \in RefundEvents ELSE handling[a] \in Refunds
    BY <1>3 DEF ApplyRead, ActorWorks
  <2>5. ActorsTyped' /\ ActorWorks'
    BY <2>2, <2>3, <2>4, GoingTyped
  <2>6. RowsTyped'
    BY <1>3 DEF ApplyRead, RowsTyped
  <2> QED BY <1>1, <1>3, <2>5, <2>6 DEF ApplyRead
<1>4. CASE ApplySkip(a) \/ ApplyFail(a)
  <2>1. UNCHANGED <<vars, rowVars, atProvider>>
        /\ \E status \in {"PROCESSED", "FAILED"} : Finishes(a, status)
    BY <1>4 DEF ApplySkip, ApplyFail
  <2> QED BY <1>1, <1>2, <2>1 DEF RowsTyped
<1>5. CASE ApplyCommit(a)
  <2> DEFINE q == RefundOf(a)
             z == snapshot[a]
             s == SessionSchedule[RefundSession[q]]
  <2>1. q \in Refunds /\ s \in Schedules
        /\ z \in [completed : BOOLEAN, paid : Nat, credited : Nat, invoicePaid : Nat,
                  invoiceCredited : Nat]
        /\ RefundAmount[q] \in Nat
    BY <1>0, <1>5, RefundsAssumption, PaymentsAssumption DEF ApplyCommit, ActorsTyped
  <2>2. z.paid - RefundAmount[q] \in Nat /\ z.invoicePaid - RefundAmount[q] \in Nat
    BY <1>5, <2>1 DEF ApplyCommit, Insufficient
  <2>3. Deduct(q, z) /\ Finishes(a, "PROCESSED")
    BY <1>5 DEF ApplyCommit
  <2> HIDE DEF q, z
  <2>4. paid' \in [Schedules -> Nat] /\ invoicePaid' \in Nat
    BY <2>1, <2>2, <2>3 DEF Deduct, TypeOK
  <2>5. scheduleStatus' \in [Schedules -> {"DUE", "PARTIALLY_PAID", "PAID"}]
    BY <2>1, <2>3 DEF Deduct, TypeOK
  <2>6. invoiceStatus' \in {"ISSUED", "PARTIALLY_PAID", "PAID"}
    BY <2>1, <2>3 DEF Deduct
  <2>7. RowsTyped'
    BY <1>2, <1>5, <2>1, <2>3 DEF ApplyCommit, RowsTyped, q
  <2>8. TypeOK' /\ HandlerWorks'
    BY <1>5, <2>4, <2>5, <2>6
       DEF ApplyCommit, TypeOK, HandlerWorks, lockVars, providerVars, requestVars, handlerVars
  <2> QED BY <1>2, <2>3, <2>7, <2>8
<1>6. CASE ActorCrash(a)
  <2>1. TypeOK' /\ HandlerWorks'
    BY <1>6, PaymentsAssumption
       DEF ActorCrash, TypeOK, HandlerWorks, scheduleVars, invoiceVars, lockVars, providerVars,
           requestVars, handlerVars
  <2>2. RowsTyped'
    BY <1>6 DEF ActorCrash, RowsTyped
  <2>3. ActorsTyped' /\ ActorWorks'
    BY <1>6, LeavingTyped DEF ActorCrash
  <2> QED BY <2>1, <2>2, <2>3
<1> QED BY <1>3, <1>4, <1>5, <1>6 DEF ApplyStep

\* So does every step.
LEMMA RefundStepTyped ==
    ASSUME RefundTyped, [RefundNext]_allVars
    PROVE  RefundTyped'
<1>1. ASSUME UNCHANGED refundVars, [Next]_vars PROVE RefundTyped'
  <2>1. TypeOK' /\ HandlerWorks'
    BY <1>1, StepTyped DEF RefundTyped
  <2> QED BY <1>1, <2>1
          DEF RefundTyped, refundVars, rowVars, actorVars, RowsTyped, ActorsTyped, ActorWorks
<1>2. ASSUME NEW q \in Refunds, ProviderSettles(q) PROVE RefundTyped'
  <2>1. TypeOK' /\ HandlerWorks'
    BY <1>2, StepTyped DEF RefundTyped, ProviderSettles
  <2>2. RowsTyped' /\ ActorsTyped' /\ ActorWorks'
    BY <1>2 DEF RefundTyped, ProviderSettles, rowVars, actorVars, RowsTyped, ActorsTyped,
                ActorWorks
  <2> QED BY <2>1, <2>2 DEF RefundTyped
<1> QED BY <1>1, <1>2, CallerTyped, HookTyped, ApplyTyped DEF RefundNext, allVars

\* Every variable has its type in every behaviour of refunds (refund,
\* receiveStripeRefundEvent, reconcileCoinbaseRefunds, applyRefund).
THEOREM RefundsTyped == RefundSpec => []RefundTyped
<1>1. RefundInit => RefundTyped
  <2> SUFFICES ASSUME RefundInit PROVE RefundTyped
    OBVIOUS
  <2>1. TypeOK /\ HandlerWorks
    BY InitTyped DEF RefundInit
  <2>2. NoSnapshot \in [completed : BOOLEAN, paid : Nat, credited : Nat, invoicePaid : Nat,
                        invoiceCredited : Nat]
    BY DEF NoSnapshot
  <2> QED BY <2>1, <2>2 DEF RefundInit, RefundTyped, RowsTyped, ActorsTyped, ActorWorks
<1>2. RefundTyped /\ [RefundNext]_allVars => RefundTyped'
  BY RefundStepTyped
<1> QED BY <1>1, <1>2, PTL DEF RefundSpec

-----------------------------------------------------------------------------
(***************************************************************************)
(* The payments below the refunds.  A session that is stored keeps what it *)
(* charges, and one that is completed stays so.                            *)
(***************************************************************************)

\* A completed session was allocated.
CompletedAllocated == \A k \in Sessions : session[k] = "COMPLETED" => k \in allocated

\* The inductive invariant of stored sessions.
StoredInv ==
    HandlersStored /\ OpenedCharged /\ StoredCharged /\ CompletedAllocated /\ AllocatedCharged

\* What a step never does to a session.
SessionsKeep ==
    \A k \in Sessions :
        /\ session[k] # "NONE" => session'[k] # "NONE" /\ amount'[k] = amount[k]
        /\ session[k] = "COMPLETED" => session'[k] = "COMPLETED"

\* The invariant of stored sessions holds with every step of a payment.
LEMMA StoredStep ==
    ASSUME TypeOK, HandlerWorks, StoredInv, [Next]_vars
    PROVE  StoredInv' /\ SessionsKeep
<1> USE DEF StoredInv
<1>1. Forward /\ \A r \in Requests : KeyOf(r) \in Sessions /\ KeyOf(r)' = KeyOf(r)
  BY StepForward, PaymentsAssumption DEF KeyOf
<1>2. OpenedCharged'
  BY <1>1, StepMovesStored DEF OpenedCharged, RequestMoves, Forward
<1>3. StoredCharged'
  BY <1>1, StepMovesStored DEF OpenedCharged, StoredCharged, SessionMoves, Forward
<1>4. \/ UNCHANGED <<session, allocated>>
      \/ /\ allocated' = allocated
         /\ \A k \in Sessions : /\ session'[k] = "COMPLETED" => session[k] = "COMPLETED"
                                /\ session[k] = "COMPLETED" => session'[k] = "COMPLETED"
      \/ \E w \in Receivers :
            /\ PayCommit(w) /\ Paying(w) \in Sessions /\ allocated' = allocated \cup {Paying(w)}
            /\ session' = [session EXCEPT ![Paying(w)] = "COMPLETED"]
  <2>1. ASSUME NEW r \in Requests, CheckoutInsert(r)
        PROVE  /\ allocated' = allocated
               /\ \A k \in Sessions : /\ session'[k] = "COMPLETED" => session[k] = "COMPLETED"
                                      /\ session[k] = "COMPLETED" => session'[k] = "COMPLETED"
    BY <1>1, <2>1 DEF CheckoutInsert, TypeOK
  <2>2. ASSUME NEW w \in Receivers, PayFailed(w)
        PROVE  /\ allocated' = allocated
               /\ \A k \in Sessions : /\ session'[k] = "COMPLETED" => session[k] = "COMPLETED"
                                      /\ session[k] = "COMPLETED" => session'[k] = "COMPLETED"
    BY <2>2 DEF PayFailed, TypeOK
  <2>3. ASSUME NEW w \in Receivers, PayCommit(w)
        PROVE  /\ Paying(w) \in Sessions /\ allocated' = allocated \cup {Paying(w)}
               /\ session' = [session EXCEPT ![Paying(w)] = "COMPLETED"]
    BY <2>3, PaymentsAssumption DEF PayCommit, Pay, HandlerWorks, Paying
  <2> QED
    BY <2>1, <2>2, <2>3
       DEF Next, vars, RequestStep, CheckoutStart, CheckoutLock, CheckoutPrice, CheckoutOpen,
           CheckoutRefused, CheckoutRetain, CheckoutRelease, RequestCrash, LockLapse,
           SessionLapse, Capture, CheckoutFails, CreditNote, EventClaim, ReceiverStep, PayRead,
           PayReplay, PayReject, PayAbort, ReceiverCrash
<1>5. CompletedAllocated' /\ \A k \in Sessions : session[k] = "COMPLETED" =>
                                                   session'[k] = "COMPLETED"
  BY <1>4 DEF CompletedAllocated, TypeOK
<1>6. AllocatedCharged'
  <2>1. CASE allocated' = allocated
    BY <1>1, <2>1 DEF AllocatedCharged, Forward, TypeOK
  <2>2. ASSUME NEW w \in Receivers, PayCommit(w), Paying(w) \in Sessions,
               allocated' = allocated \cup {Paying(w)}
        PROVE  AllocatedCharged'
    <3>1. checkout[Paying(w)] # "none"
      BY <2>2 DEF PayCommit, HandlersStored, StoredCharged
    <3> QED BY <1>1, <2>2, <3>1 DEF AllocatedCharged, Forward, TypeOK
  <2> QED BY <1>4, <2>1, <2>2
<1>7. HandlersStored'
  <2>1. ASSUME NEW w \in Receivers, handler'[w] # "idle"
        PROVE  \/ handler[w] # "idle" /\ working'[w] = working[w]
               \/ \E e \in Events : working'[w] = e /\ session[EventSession[e]] # "NONE"
    <3>1. CASE UNCHANGED handlerVars
      BY <2>1, <3>1 DEF handlerVars
    <3>2. ASSUME NEW v \in Receivers, NEW e \in Events, EventClaim(v, e)
          PROVE  \/ handler[w] # "idle" /\ working'[w] = working[w]
                 \/ \E d \in Events : working'[w] = d /\ session[EventSession[d]] # "NONE"
      BY <2>1, <3>2 DEF EventClaim, TypeOK
    <3>3. ASSUME NEW v \in Receivers, ReceiverStep(v) \/ ReceiverCrash(v)
          PROVE  handler[w] # "idle" /\ working'[w] = working[w]
      BY <2>1, <3>3
         DEF ReceiverStep, ReceiverCrash, PayFailed, PayRead, PayReplay, PayReject, PayCommit,
             PayAbort, Answered, TypeOK
    <3> QED
      BY <3>1, <3>2, <3>3
         DEF Next, vars, handlerVars, RequestStep, CheckoutStart, CheckoutLock, CheckoutPrice,
             CheckoutOpen, CheckoutRefused, CheckoutInsert, CheckoutRetain, CheckoutRelease,
             RequestCrash, LockLapse, SessionLapse, Capture, CheckoutFails, CreditNote
  <2>2. ASSUME NEW w \in Receivers, handler'[w] # "idle" PROVE session'[Paying(w)'] # "NONE"
    <3>1. CASE handler[w] # "idle" /\ working'[w] = working[w]
      <4>1. Paying(w) \in Sessions /\ Paying(w)' = Paying(w)
        BY <3>1, PaymentsAssumption DEF Paying, HandlerWorks
      <4> QED BY <1>1, <3>1, <4>1 DEF HandlersStored, Forward
    <3>2. ASSUME NEW e \in Events, working'[w] = e, session[EventSession[e]] # "NONE"
          PROVE  session'[Paying(w)'] # "NONE"
      <4>1. EventSession[e] \in Sessions /\ Paying(w)' = EventSession[e]
        BY <3>2, PaymentsAssumption DEF Paying
      <4> QED BY <1>1, <3>2, <4>1 DEF Forward
    <3> QED BY <2>1, <2>2, <3>1, <3>2
  <2> QED BY <2>2 DEF HandlersStored
<1>8. SessionsKeep
  BY <1>1, <1>5 DEF SessionsKeep, StoredCharged, Forward
<1> QED BY <1>2, <1>3, <1>5, <1>6, <1>7, <1>8

\* What a step of a refund leaves alone.
RefundFrame ==
    UNCHANGED <<session, amount, checkout, allocated, request, handler, working>>

\* Such a step keeps the invariant.
LEMMA StoredFrame ==
    ASSUME StoredInv, RefundFrame
    PROVE  StoredInv' /\ SessionsKeep
BY DEF StoredInv, RefundFrame, HandlersStored, OpenedCharged, StoredCharged, CompletedAllocated,
       AllocatedCharged, SessionsKeep, Paying, KeyOf

\* So it holds with every step.
LEMMA RefundStoredStep ==
    ASSUME RefundTyped, StoredInv, [RefundNext]_allVars
    PROVE  StoredInv' /\ SessionsKeep
<1>1. CASE [Next]_vars
  BY <1>1, StoredStep DEF RefundTyped
<1>2. ASSUME NEW a \in Actors, ApplyCommit(a) \/ ActorCrash(a) PROVE RefundFrame
  BY <1>2 DEF ApplyCommit, ActorCrash, RefundFrame, providerVars, requestVars, handlerVars
<1>3. CASE UNCHANGED vars
  BY <1>1, <1>3
<1> QED
  BY <1>1, <1>2, <1>3, StoredFrame
     DEF RefundNext, allVars, CallerStep, HookStep, ApplyStep, RefundIntent, RefundResume,
         RefundCall, RefundError, RefundRecord, HookClaim, HookUnknown, HookPending, HookFailed,
         HookSucceeded, ApplyRead, ApplySkip, ApplyFail, ProviderSettles

\* The invariant of stored sessions holds in every state.
LEMMA RefundsStored == RefundSpec => []StoredInv
<1>1. RefundInit => StoredInv
  BY DEF RefundInit, Init, StoredInv, HandlersStored, OpenedCharged, StoredCharged,
         CompletedAllocated, AllocatedCharged
<1>2. RefundTyped /\ StoredInv /\ [RefundNext]_allVars => StoredInv'
  BY RefundStoredStep
<1> QED BY <1>1, <1>2, RefundsTyped, PTL DEF RefundSpec

-----------------------------------------------------------------------------
(***************************************************************************)
(* What the provider gives back.  A refund is alive from its intent until  *)
(* it failed at the provider, whatever status a late answer writes over    *)
(* its row; the refunds of a payment that are alive fit the payment.       *)
(***************************************************************************)

Alive(q) == refundStatus[q] \notin {"NONE", "FAILED"} /\ atProvider[q] # "failed"

\* The refunds of a payment that are alive are not more than was captured.
AliveFits ==
    \A k \in Sessions : Refunded({q \in RefundsOf(k) : Alive(q)}) <= amount[k]

\* The row of a refund says no more than the provider knows, and is there first.
RowsTrue ==
    \A q \in Refunds :
        /\ refundStatus[q] # "NONE" => session[RefundSession[q]] = "COMPLETED"
        /\ atProvider[q] # "none" => refundStatus[q] # "NONE"
        /\ refundStatus[q] = "FAILED" => atProvider[q] = "failed"
        /\ refundStatus[q] = "COMPLETED" => atProvider[q] = "succeeded"

\* What an actor was told of its refund is true.
ActorsTold ==
    \A a \in Actors :
        /\ actor[a] # "idle" => refundStatus[RefundOf(a)] # "NONE"
        /\ actor[a] = "answered" /\ answer[a] = "COMPLETED" =>
             atProvider[RefundOf(a)] = "succeeded"
        /\ actor[a] = "claimed" /\ EventStatus[handling[a]] # "pending" =>
             atProvider[RefundOf(a)] = EventStatus[handling[a]]
        /\ actor[a] \in {"applying", "read"} => atProvider[RefundOf(a)] = "succeeded"

\* The inductive invariant of refunds.
RefundedInv == RowsTrue /\ ActorsTold /\ AliveFits /\ AppliedOnlyIfRefunded

\* A new intent of refund q.
Intends(q) ==
    /\ refundStatus[q] = "NONE" /\ Fits(q) /\ session[RefundSession[q]] = "COMPLETED"
    /\ refundStatus' = [refundStatus EXCEPT ![q] = "PENDING"]
    /\ UNCHANGED <<atProvider, applied>>

\* Any other change of the row of a refund, or of the refund at the provider.
Settles(q) ==
    /\ \/ refundStatus'[q] = refundStatus[q]
       \/ refundStatus[q] # "NONE" /\ refundStatus'[q] = "PENDING"
            /\ atProvider[q] = atProvider'[q]
       \/ refundStatus[q] # "NONE" /\ refundStatus'[q] = "COMPLETED"
            /\ atProvider[q] = "succeeded"
       \/ refundStatus[q] # "NONE" /\ refundStatus'[q] = "FAILED" /\ atProvider[q] = "failed"
    /\ \/ atProvider'[q] = atProvider[q]
       \/ atProvider[q] = "none" /\ refundStatus[q] # "NONE"
            /\ atProvider'[q] \in {"pending", "succeeded"}
       \/ atProvider[q] = "pending" /\ atProvider'[q] \in {"succeeded", "failed"}
    /\ q \in applied' => q \in applied \/ atProvider[q] = "succeeded"

\* What a step does to refunds.
RefundMoves == (\E q \in Refunds : Intends(q)) \/ (\A q \in Refunds : Settles(q))

\* Every step settles refunds, or is a new intent.
LEMMA StepMovesRefunds ==
    ASSUME RefundTyped, ActorsTold, [RefundNext]_allVars
    PROVE  RefundMoves
<1> USE DEF RefundTyped, rowVars, refundVars
<1>0. /\ \A a \in Actors : actor[a] # "idle" => RefundOf(a) \in Refunds
      /\ \A a \in Callers : a \in Actors /\ a \notin Hooks /\ RefundOf(a) = handling[a]
      /\ \A h \in Hooks : h \in Actors
  BY RefundOfType, RefundsAssumption DEF Actors, RefundOf
<1>1. CASE UNCHANGED <<refundStatus, atProvider, applied>>
  BY <1>1 DEF RefundMoves, Settles
<1>2. ASSUME NEW a \in Callers, NEW q \in Refunds, RefundIntent(a, q) PROVE RefundMoves
  <2>1. CASE refundStatus[q] = "NONE"
    BY <1>2, <2>1 DEF RefundIntent, RefundMoves, Intends
  <2>2. CASE refundStatus[q] # "NONE"
    BY <1>1, <1>2, <2>2 DEF RefundIntent
  <2> QED BY <2>1, <2>2
<1>3. ASSUME NEW a \in Callers, RefundCall(a) PROVE RefundMoves
  <2>1. actor[a] = "intended" /\ handling[a] \in Refunds /\ refundStatus[handling[a]] # "NONE"
    BY <1>0, <1>3 DEF RefundCall, ActorsTold
  <2>2. PICK s \in {"pending", "succeeded"} :
            atProvider' = IF atProvider[handling[a]] = "none"
                          THEN [atProvider EXCEPT ![handling[a]] = s] ELSE atProvider
    BY <1>3 DEF RefundCall
  <2>3. UNCHANGED <<refundStatus, applied>>
    BY <1>3 DEF RefundCall
  <2> QED BY <2>1, <2>2, <2>3 DEF RefundMoves, Settles, RowsTyped
<1>4. ASSUME NEW a \in Callers, RefundRecord(a) PROVE RefundMoves
  <2>1. /\ handling[a] \in Refunds /\ refundStatus[handling[a]] # "NONE"
        /\ answer[a] \in {"PENDING", "COMPLETED"}
        /\ answer[a] = "COMPLETED" => atProvider[handling[a]] = "succeeded"
    BY <1>0, <1>4 DEF RefundRecord, ActorsTold, ActorWorks
  <2>2. refundStatus' = [refundStatus EXCEPT ![handling[a]] = answer[a]]
        /\ UNCHANGED <<atProvider, applied>>
    BY <1>4 DEF RefundRecord
  <2> QED BY <2>1, <2>2 DEF RefundMoves, Settles, RowsTyped
<1>5. ASSUME NEW h \in Hooks, HookFailed(h) \/ HookSucceeded(h) PROVE RefundMoves
  <2>1. /\ RefundOf(h) \in Refunds /\ refundStatus[RefundOf(h)] # "NONE"
        /\ atProvider[RefundOf(h)] = EventStatus[handling[h]]
    BY <1>0, <1>5 DEF HookFailed, HookSucceeded, ActorsTold
  <2>2. UNCHANGED <<atProvider, applied>>
    BY <1>5 DEF HookFailed, HookSucceeded
  <2> QED BY <1>5, <2>1, <2>2 DEF HookFailed, HookSucceeded, RefundMoves, Settles, RowsTyped
<1>6. ASSUME NEW a \in Actors, ApplyCommit(a) PROVE RefundMoves
  <2>1. RefundOf(a) \in Refunds /\ atProvider[RefundOf(a)] = "succeeded"
    BY <1>0, <1>6 DEF ApplyCommit, ActorsTold
  <2> QED BY <1>6, <2>1 DEF ApplyCommit, RefundMoves, Settles
<1>7. ASSUME NEW q \in Refunds, ProviderSettles(q) PROVE RefundMoves
  BY <1>7 DEF ProviderSettles, RefundMoves, Settles, RowsTyped
<1> QED
  BY <1>1, <1>2, <1>3, <1>4, <1>5, <1>6, <1>7
     DEF RefundNext, allVars, CallerStep, HookStep, ApplyStep, RefundResume, RefundError,
         HookClaim, HookUnknown, HookPending, ApplyRead, ApplySkip, ApplyFail, ActorCrash

\* The units of refunds.
LEMMA RefundedUnits ==
    ASSUME NEW S
    PROVE  /\ Refunded(S) = Cardinality(Units(Refunds, MaxAmount, RefundAmount, S))
           /\ Refunded(S) \in Nat
<1>1. Refunded(S) = Cardinality(Units(Refunds, MaxAmount, RefundAmount, S))
  BY DEF Refunded, Units
<1> QED BY <1>1, UnitsType, RefundsAssumption, PaymentsAssumption

\* Fewer refunds are no more, and one more adds its amount.
LEMMA RefundedMore ==
    /\ \A S, T : S \subseteq T => Refunded(S) <= Refunded(T)
    /\ \A S : \A q \in Refunds : q \notin S => Refunded(S \cup {q}) = Refunded(S) + RefundAmount[q]
<1>1. /\ IsFiniteSet(Refunds) /\ MaxAmount \in Nat /\ RefundAmount \in [Refunds -> 0..MaxAmount]
  BY RefundsAssumption, PaymentsAssumption
<1> QED BY <1>1, UnitsMonotone, UnitsAdd, RefundedUnits

\* The refunds of a payment that are alive still fit it.
LEMMA AliveStep ==
    ASSUME RefundTyped, RefundTyped', StoredInv, RefundedInv, [RefundNext]_allVars
    PROVE  AliveFits'
<1> USE DEF RefundedInv
<1>0. SessionsKeep /\ RefundMoves
  BY RefundStoredStep, StepMovesRefunds
<1> DEFINE A(k) == {q \in RefundsOf(k) : Alive(q)}
<1> SUFFICES ASSUME NEW k \in Sessions
             PROVE  Refunded({q \in RefundsOf(k) : Alive(q)'}) <= amount'[k]
  BY DEF AliveFits, Refunded, RefundsOf
<1>1. /\ Refunded(A(k)) <= amount[k] /\ amount[k] \in Nat /\ amount'[k] \in Nat
      /\ Refunded(A(k)) \in Nat /\ Refunded({q \in RefundsOf(k) : Alive(q)'}) \in Nat
  BY PaymentsAssumption, RefundedUnits DEF AliveFits, RefundTyped, TypeOK
<1>2. CASE \A q \in Refunds : Settles(q)
  <2>1. ASSUME NEW q \in RefundsOf(k), Alive(q)' PROVE Alive(q)
    BY <1>2, <2>1 DEF RefundsOf, Alive, Settles, RowsTrue, RefundTyped, RowsTyped
  <2>2. CASE A(k) = {}
    <3>1. {q \in RefundsOf(k) : Alive(q)'} = {}
      BY <2>1, <2>2
    <3>2. Refunded({}) = 0
      <4>1. Units(Refunds, MaxAmount, RefundAmount, {}) = {}
        BY DEF Units
      <4> QED BY <4>1, RefundedUnits, FS_EmptySet
    <3> QED BY <1>1, <3>1, <3>2
  <2>3. CASE A(k) # {}
    <3>1. session[k] # "NONE"
      BY <2>3 DEF RefundsOf, Alive, RowsTrue
    <3>2. {q \in RefundsOf(k) : Alive(q)'} \subseteq A(k)
      BY <2>1
    <3>3. Refunded({q \in RefundsOf(k) : Alive(q)'}) <= Refunded(A(k))
      BY <3>2, RefundedMore
    <3> QED BY <1>0, <1>1, <3>1, <3>3 DEF SessionsKeep
  <2> QED BY <2>2, <2>3
<1>3. ASSUME NEW p \in Refunds, Intends(p)
      PROVE  Refunded({q \in RefundsOf(k) : Alive(q)'}) <= amount'[k]
  <2>1. \A q \in Refunds : q # p => (Alive(q)' <=> Alive(q))
    BY <1>3 DEF Intends, Alive, RefundTyped, RowsTyped
  <2>2. CASE k # RefundSession[p]
    <3>1. {q \in RefundsOf(k) : Alive(q)'} = A(k)
      BY <2>1, <2>2 DEF RefundsOf
    <3>2. amount'[k] = amount[k] \/ session[k] = "NONE"
      BY <1>0 DEF SessionsKeep
    <3>3. session[k] = "NONE" => A(k) = {}
      BY DEF RefundsOf, Alive, RowsTrue
    <3>4. Refunded({}) = 0
      <4>1. Units(Refunds, MaxAmount, RefundAmount, {}) = {}
        BY DEF Units
      <4> QED BY <4>1, RefundedUnits, FS_EmptySet
    <3> QED BY <1>1, <3>1, <3>2, <3>3, <3>4
  <2>3. CASE k = RefundSession[p]
    <3> DEFINE R == {q \in RefundsOf(k) : refundStatus[q] \notin {"NONE", "FAILED"}}
    <3>1. p \notin R /\ {q \in RefundsOf(k) : Alive(q)'} \subseteq R \cup {p}
      BY <1>3, <2>1, <2>3 DEF Intends, RefundsOf, Alive
    <3>2. Refunded(R) + RefundAmount[p] <= amount[k]
      BY <1>3, <2>3 DEF Intends, Fits
    <3>3. Refunded(R \cup {p}) = Refunded(R) + RefundAmount[p]
      BY <3>1, RefundedMore
    <3>4. Refunded({q \in RefundsOf(k) : Alive(q)'}) <= Refunded(R \cup {p})
      BY <3>1, RefundedMore
    <3>5. amount'[k] = amount[k]
      BY <1>0, <1>3, <2>3 DEF Intends, SessionsKeep
    <3>6. Refunded(R \cup {p}) \in Nat
      BY RefundedUnits
    <3> QED BY <1>1, <3>2, <3>3, <3>4, <3>5, <3>6
  <2> QED BY <2>2, <2>3
<1> QED BY <1>0, <1>2, <1>3 DEF RefundMoves

\* What is final about a refund.
Final ==
    \A q \in Refunds :
        /\ refundStatus[q] # "NONE" => refundStatus'[q] # "NONE"
        /\ atProvider[q] = "succeeded" => atProvider'[q] = "succeeded"
        /\ atProvider[q] = "failed" => atProvider'[q] = "failed"

\* Rows still say no more than the provider knows, and only what it gave back
\* is applied.
LEMMA RowsStep ==
    ASSUME RefundTyped, RefundTyped', StoredInv, RefundedInv, [RefundNext]_allVars
    PROVE  RowsTrue' /\ AppliedOnlyIfRefunded' /\ Final
<1> USE DEF RefundedInv, RefundTyped, RowsTyped
<1>0. SessionsKeep /\ RefundMoves /\ \A q \in Refunds : RefundSession[q] \in Sessions
  BY RefundStoredStep, StepMovesRefunds, RefundsAssumption
<1>1. CASE \A q \in Refunds : Settles(q)
  <2>1. Final
    BY <1>1 DEF Settles, Final
  <2>2. RowsTrue'
    <3> SUFFICES ASSUME NEW q \in Refunds
                 PROVE  /\ refundStatus'[q] # "NONE" => session'[RefundSession[q]] = "COMPLETED"
                        /\ atProvider'[q] # "none" => refundStatus'[q] # "NONE"
                        /\ refundStatus'[q] = "FAILED" => atProvider'[q] = "failed"
                        /\ refundStatus'[q] = "COMPLETED" => atProvider'[q] = "succeeded"
      BY DEF RowsTrue
    <3>1. session[RefundSession[q]] = "COMPLETED" => session'[RefundSession[q]] = "COMPLETED"
      BY <1>0 DEF SessionsKeep
    <3>2. refundStatus'[q] # "NONE" => refundStatus[q] # "NONE"
      BY <1>1 DEF Settles
    <3>3. atProvider'[q] # "none" => refundStatus[q] # "NONE"
      BY <1>1 DEF Settles, RowsTrue
    <3>4. refundStatus'[q] = "FAILED" => atProvider[q] = "failed"
      BY <1>1 DEF Settles, RowsTrue
    <3>5. refundStatus'[q] = "COMPLETED" => atProvider[q] = "succeeded"
      BY <1>1 DEF Settles, RowsTrue
    <3> QED BY <2>1, <3>1, <3>2, <3>3, <3>4, <3>5 DEF Final, RowsTrue
  <2>3. AppliedOnlyIfRefunded'
    BY <1>1, <2>1 DEF Settles, Final, AppliedOnlyIfRefunded
  <2> QED BY <2>1, <2>2, <2>3
<1>2. ASSUME NEW p \in Refunds, Intends(p) PROVE RowsTrue' /\ AppliedOnlyIfRefunded' /\ Final
  <2>1. \A q \in Refunds : refundStatus'[q] = IF q = p THEN "PENDING" ELSE refundStatus[q]
    BY <1>2 DEF Intends
  <2>2. UNCHANGED <<atProvider, applied>> /\ session[RefundSession[p]] = "COMPLETED"
    BY <1>2 DEF Intends
  <2>3. RowsTrue'
    BY <1>0, <2>1, <2>2 DEF RowsTrue, SessionsKeep
  <2> QED BY <2>1, <2>2, <2>3 DEF AppliedOnlyIfRefunded, Final
<1> QED BY <1>0, <1>1, <1>2 DEF RefundMoves

\* What one actor was told.
Told(a) ==
    /\ actor[a] # "idle" => refundStatus[RefundOf(a)] # "NONE"
    /\ actor[a] = "answered" /\ answer[a] = "COMPLETED" => atProvider[RefundOf(a)] = "succeeded"
    /\ actor[a] = "claimed" /\ EventStatus[handling[a]] # "pending" =>
         atProvider[RefundOf(a)] = EventStatus[handling[a]]
    /\ actor[a] \in {"applying", "read"} => atProvider[RefundOf(a)] = "succeeded"

\* What an actor that rests was told stays true.
LEMMA ToldKept ==
    ASSUME RefundTyped, Final, NEW a \in Actors, Told(a),
           UNCHANGED <<actor[a], handling[a], answer[a]>>
    PROVE  Told(a)'
<1>1. RefundOf(a)' = RefundOf(a)
  BY DEF RefundOf
<1>2. actor[a] # "idle" => RefundOf(a) \in Refunds
  BY RefundOfType DEF RefundTyped
<1>3. actor[a] = "claimed" => EventStatus[handling[a]] \in {"pending", "succeeded", "failed"}
  BY RefundsAssumption DEF RefundTyped, ActorWorks
<1>4. actor[a] # "idle" => refundStatus'[RefundOf(a)] # "NONE"
  BY <1>2 DEF Told, Final
<1>5. actor[a] = "answered" /\ answer[a] = "COMPLETED" => atProvider'[RefundOf(a)] = "succeeded"
  BY <1>2 DEF Told, Final
<1>6. actor[a] = "claimed" /\ EventStatus[handling[a]] # "pending" =>
         atProvider'[RefundOf(a)] = EventStatus[handling[a]]
  BY <1>2, <1>3 DEF Told, Final
<1>7. actor[a] \in {"applying", "read"} => atProvider'[RefundOf(a)] = "succeeded"
  BY <1>2 DEF Told, Final
<1> QED BY <1>1, <1>4, <1>5, <1>6, <1>7 DEF Told

\* One actor moves, and the others rest.
Alone(a) ==
    \A b \in Actors : b # a => UNCHANGED <<actor[b], handling[b], answer[b]>>

\* What the others were told, and what an actor that moves is told, is true.
LEMMA ToldAlone ==
    ASSUME RefundTyped, Final, ActorsTold, NEW a \in Actors, Alone(a), Told(a)'
    PROVE  ActorsTold'
<1>1. \A b \in Actors : Told(b)
  BY DEF ActorsTold, Told
<1>2. \A b \in Actors : Told(b)'
  BY <1>1, ToldKept DEF Alone
<1> QED BY <1>2 DEF ActorsTold, Told

\* What actors were told stays true with every step.
LEMMA ToldStep ==
    ASSUME RefundTyped, RefundTyped', StoredInv, RefundedInv, [RefundNext]_allVars
    PROVE  ActorsTold'
<1> USE DEF RefundTyped, rowVars, refundVars, actorVars
<1>0. /\ \A a \in Actors : actor[a] # "idle" => RefundOf(a) \in Refunds
      /\ \A a \in Callers : a \in Actors /\ a \notin Hooks
      /\ \A h \in Hooks : h \in Actors
      /\ Final /\ ActorsTold /\ RowsTrue
  BY RefundOfType, RefundsAssumption, RowsStep DEF Actors, RefundedInv
<1>1. CASE UNCHANGED <<actor, handling, answer>>
  <2>1. \A a \in Actors : Told(a)
    BY <1>0 DEF ActorsTold, Told
  <2>2. \A a \in Actors : Told(a)'
    BY <1>0, <1>1, <2>1, ToldKept
  <2> QED BY <2>2 DEF ActorsTold, Told
<1>2. ASSUME NEW a \in Actors, Leaves(a) PROVE ActorsTold'
  <2>1. Alone(a) /\ actor'[a] = "idle"
    BY <1>2 DEF Leaves, Goes, Alone, ActorsTyped
  <2>2. Told(a)'
    BY <2>1 DEF Told
  <2> QED BY <1>0, <2>1, <2>2, ToldAlone
<1>3. ASSUME NEW a \in Actors, NEW phase, NEW job, Goes(a, phase, job), UNCHANGED answer
      PROVE  /\ Alone(a) /\ actor'[a] = phase /\ handling'[a] = job
             /\ RefundOf(a)' = IF a \in Hooks THEN EventRefund[job] ELSE job
  BY <1>3 DEF Goes, Alone, ActorsTyped, RefundOf
<1>4. ASSUME NEW a \in Callers, NEW q \in Refunds, RefundIntent(a, q) PROVE ActorsTold'
  <2>1. Alone(a) /\ actor'[a] = "intended" /\ RefundOf(a)' = q
    BY <1>0, <1>3, <1>4 DEF RefundIntent
  <2>2. refundStatus'[q] # "NONE"
    BY <1>4 DEF RefundIntent, RowsTyped
  <2>3. Told(a)'
    BY <2>1, <2>2 DEF Told
  <2> QED BY <1>0, <2>1, <2>3, ToldAlone
<1>5. ASSUME NEW a \in Callers, NEW q \in Refunds, RefundResume(a, q) PROVE ActorsTold'
  <2>1. Alone(a) /\ actor'[a] = "applying" /\ RefundOf(a)' = q
    BY <1>0, <1>3, <1>5 DEF RefundResume
  <2>2. refundStatus[q] # "NONE" /\ atProvider[q] = "succeeded"
    BY <1>0, <1>5 DEF RefundResume, RowsTrue
  <2>3. Told(a)'
    BY <1>0, <2>1, <2>2 DEF Told, Final
  <2> QED BY <1>0, <2>1, <2>3, ToldAlone
<1>6. ASSUME NEW a \in Callers, RefundCall(a) PROVE ActorsTold'
  <2> DEFINE q == handling[a]
  <2>1. q \in Refunds /\ refundStatus[q] # "NONE" /\ RefundOf(a) = q
    BY <1>0, <1>6 DEF RefundCall, ActorsTold, RefundOf
  <2>2. Alone(a) /\ actor'[a] = "answered" /\ RefundOf(a)' = q
    <3>1. Alone(a) /\ actor'[a] = "answered" /\ handling'[a] = q
      BY <1>0, <1>6 DEF RefundCall, Goes, Alone, ActorsTyped
    <3> QED BY <1>0, <3>1 DEF RefundOf
  <2>3. answer'[a] = "COMPLETED" => atProvider'[q] = "succeeded"
    BY <1>0, <1>6 DEF RefundCall, ActorsTyped
  <2>4. refundStatus'[q] # "NONE"
    BY <1>0, <2>1 DEF Final
  <2> HIDE DEF q
  <2>5. Told(a)'
    BY <2>2, <2>3, <2>4 DEF Told
  <2> QED BY <1>0, <2>2, <2>5, ToldAlone
<1>7. ASSUME NEW a \in Callers, RefundRecord(a) PROVE ActorsTold'
  <2>1. CASE answer[a] = "COMPLETED"
    <3>1. Alone(a) /\ actor'[a] = "applying" /\ RefundOf(a)' = handling[a]
      BY <1>0, <1>3, <1>7, <2>1 DEF RefundRecord
    <3>2. /\ handling[a] \in Refunds /\ refundStatus[handling[a]] # "NONE"
          /\ atProvider[handling[a]] = "succeeded"
      BY <1>0, <1>7, <2>1 DEF RefundRecord, ActorsTold, RefundOf
    <3>3. Told(a)'
      BY <1>0, <3>1, <3>2 DEF Told, Final
    <3> QED BY <1>0, <3>1, <3>3, ToldAlone
  <2>2. CASE answer[a] # "COMPLETED"
    BY <1>0, <1>2, <1>7, <2>2 DEF RefundRecord
  <2> QED BY <2>1, <2>2
<1>8. ASSUME NEW h \in Hooks, NEW e \in RefundEvents, HookClaim(h, e) PROVE ActorsTold'
  <2>1. Alone(h) /\ actor'[h] = "claimed" /\ handling'[h] = e /\ RefundOf(h)' = EventRefund[e]
    BY <1>0, <1>3, <1>8 DEF HookClaim
  <2>2. /\ refundStatus'[EventRefund[e]] # "NONE"
        /\ EventStatus[e] # "pending" => atProvider'[EventRefund[e]] = EventStatus[e]
    BY <1>8 DEF HookClaim
  <2>3. Told(h)'
    BY <2>1, <2>2 DEF Told
  <2> QED BY <1>0, <2>1, <2>3, ToldAlone
<1>9. ASSUME NEW h \in Hooks, HookSucceeded(h) PROVE ActorsTold'
  <2>1. Alone(h) /\ actor'[h] = "applying" /\ RefundOf(h)' = RefundOf(h)
    <3>1. Alone(h) /\ actor'[h] = "applying" /\ RefundOf(h)' = EventRefund[handling[h]]
      BY <1>0, <1>3, <1>9 DEF HookSucceeded
    <3> QED BY <3>1 DEF RefundOf
  <2>2. /\ RefundOf(h) \in Refunds /\ refundStatus[RefundOf(h)] # "NONE"
        /\ atProvider[RefundOf(h)] = "succeeded"
    BY <1>0, <1>9 DEF HookSucceeded, ActorsTold
  <2>3. Told(h)'
    BY <1>0, <2>1, <2>2 DEF Told, Final
  <2> QED BY <1>0, <2>1, <2>3, ToldAlone
<1>10. ASSUME NEW a \in Actors, ApplyRead(a) PROVE ActorsTold'
  <2>1. Alone(a) /\ actor'[a] = "read" /\ RefundOf(a)' = RefundOf(a)
    <3>1. /\ Alone(a) /\ actor'[a] = "read"
          /\ RefundOf(a)' = IF a \in Hooks THEN EventRefund[handling[a]] ELSE handling[a]
      BY <1>3, <1>10 DEF ApplyRead
    <3> QED BY <3>1 DEF RefundOf
  <2>2. /\ RefundOf(a) \in Refunds /\ refundStatus[RefundOf(a)] # "NONE"
        /\ atProvider[RefundOf(a)] = "succeeded"
    BY <1>0, <1>10 DEF ApplyRead, ActorsTold
  <2>3. Told(a)'
    BY <1>0, <2>1, <2>2 DEF Told, Final
  <2> QED BY <1>0, <2>1, <2>3, ToldAlone
<1> QED
  BY <1>0, <1>1, <1>2, <1>4, <1>5, <1>6, <1>7, <1>8, <1>9, <1>10
     DEF RefundNext, allVars, CallerStep, HookStep, ApplyStep, RefundError, HookUnknown,
         HookPending, HookFailed, HookAnswers, ApplySkip, ApplyFail, ApplyCommit, Finishes,
         ActorCrash, ProviderSettles

\* The invariant of refunds holds in every state.
LEMMA RefundsRefunded == RefundSpec => []RefundedInv
<1>1. RefundInit => RefundedInv
  <2> SUFFICES ASSUME RefundInit PROVE RefundedInv
    OBVIOUS
  <2>1. RowsTrue /\ ActorsTold /\ AppliedOnlyIfRefunded
    BY DEF RefundInit, RowsTrue, ActorsTold, AppliedOnlyIfRefunded
  <2>2. AliveFits
    <3>1. \A k : {q \in RefundsOf(k) : Alive(q)} = {}
      BY DEF RefundInit, RefundsOf, Alive
    <3>2. Units(Refunds, MaxAmount, RefundAmount, {}) = {}
      BY DEF Units
    <3>3. Refunded({}) = 0
      BY <3>2, RefundedUnits, FS_EmptySet
    <3>4. ASSUME NEW k \in Sessions
          PROVE  Refunded({q \in RefundsOf(k) : Alive(q)}) <= amount[k]
      <4>1. Refunded({q \in RefundsOf(k) : Alive(q)}) = 0
        BY <3>1, <3>3
      <4> QED BY <4>1 DEF RefundInit, Init
    <3> QED BY <3>4 DEF AliveFits
  <2> QED BY <2>1, <2>2 DEF RefundedInv
<1>2. RefundTyped /\ RefundTyped' /\ StoredInv /\ RefundedInv /\ [RefundNext]_allVars
        => RefundedInv'
  BY AliveStep, RowsStep, ToldStep DEF RefundedInv
<1> QED BY <1>1, <1>2, RefundsTyped, RefundsStored, PTL DEF RefundSpec

\* The provider never gives back more than a payment captured: an intent counts
\* every refund that has not failed, and no late answer revives one that failed
\* there, whatever is retried, repeated, reordered or lost (refund,
\* receiveStripeRefundEvent, reconcileCoinbaseRefunds).
THEOREM NeverOverRefunded == RefundSpec => []NoOverRefund
<1>1. RefundTyped /\ RefundedInv => NoOverRefund
  <2> SUFFICES ASSUME RefundTyped, RefundedInv, NEW k \in Sessions
               PROVE  Refunded({q \in RefundsOf(k) : atProvider[q] \in {"pending", "succeeded"}})
                        <= amount[k]
    BY DEF NoOverRefund
  <2> DEFINE G == {q \in RefundsOf(k) : atProvider[q] \in {"pending", "succeeded"}}
             A == {q \in RefundsOf(k) : Alive(q)}
  <2>1. G \subseteq A
    BY DEF RefundedInv, RowsTrue, RefundsOf, Alive
  <2>2. Refunded(G) <= Refunded(A) /\ Refunded(G) \in Nat /\ Refunded(A) \in Nat
    BY <2>1, RefundedMore, RefundedUnits
  <2>3. Refunded(A) <= amount[k] /\ amount[k] \in Nat
    BY PaymentsAssumption DEF RefundedInv, AliveFits, RefundTyped, TypeOK
  <2> QED BY <2>2, <2>3
<1> QED BY <1>1, RefundsTyped, RefundsRefunded, PTL

\* No more is given back than was captured, nothing is taken off the invoice that was
\* not given back, and every variable keeps its type (refund, receiveStripeRefundEvent,
\* applyRefund).
THEOREM RefundsAreAccounted == RefundSpec => []RefundsAccounted
<1>1. RefundTyped /\ RefundedInv /\ NoOverRefund => RefundsAccounted
  BY DEF RefundTyped, RowsTyped, ActorsTyped, RefundedInv, RefundsAccounted, RefundTypeOK
<1> QED BY <1>1, RefundsTyped, RefundsRefunded, NeverOverRefunded, PTL

-----------------------------------------------------------------------------
(***************************************************************************)
(* The balances against the journals.  applyRefund writes absolute values  *)
(* from its snapshot, so that two of them, or one and a payment, may lose  *)
(* an update.  Every other step leaves ScheduleOff and InvoiceOff alone,   *)
(* and an applied refund moves them by what its snapshot missed.           *)
(***************************************************************************)

\* What a step leaves of the difference between the balances and the journals.
OffsKept == InvoiceOff' = InvoiceOff /\ \A s \in Schedules : ScheduleOff(s)' = ScheduleOff(s)

\* Both terms of a difference are natural numbers.
LEMMA OffsTyped ==
    ASSUME TypeOK
    PROVE  /\ Refunded(applied) \in Nat /\ Charged(allocated) \in Nat /\ invoicePaid \in Nat
           /\ \A s \in Schedules : /\ Refunded(AppliedOf(s)) \in Nat
                                   /\ Charged(allocated \cap SessionsOf(s)) \in Nat
                                   /\ paid[s] \in Nat
BY RefundedUnits, ChargedType DEF TypeOK

\* A step that changes no balance, no allocation and nothing applied keeps the
\* differences.
LEMMA OffsAlone ==
    ASSUME TypeOK, UNCHANGED <<paid, invoicePaid, applied, allocated>>,
           \A k \in allocated : amount'[k] = amount[k]
    PROVE  OffsKept
<1>1. Charged(allocated)' = Charged(allocated)
  BY ChargedKept, ChargedUnits
<1>2. ASSUME NEW s \in Schedules
      PROVE  Charged(allocated \cap SessionsOf(s))' = Charged(allocated \cap SessionsOf(s))
  <2>1. SessionsOf(s)' = SessionsOf(s)
    BY DEF SessionsOf
  <2>2. Cardinality(Units(Sessions, MaxAmount, amount', allocated \cap SessionsOf(s))) =
          Charged(allocated \cap SessionsOf(s))
    BY ChargedKept
  <2> QED BY <2>1, <2>2, ChargedUnits
<1>3. Refunded(applied)' = Refunded(applied)
  BY DEF Refunded
<1>4. \A s \in Schedules : Refunded(AppliedOf(s))' = Refunded(AppliedOf(s))
  BY DEF Refunded, AppliedOf
<1> QED BY <1>1, <1>2, <1>3, <1>4 DEF OffsKept, InvoiceOff, ScheduleOff

\* A payment adds the same amount to the balances and to the journals.
LEMMA OffsPaid ==
    ASSUME RefundTyped, StoredInv, NEW w \in Receivers, PayCommit(w), UNCHANGED refundVars
    PROVE  OffsKept
<1> USE DEF RefundTyped
<1> DEFINE k == Paying(w)
<1>1. k \in Sessions /\ k \notin allocated /\ Pay(k, seen[w]) /\ amount' = amount
  BY PaymentsAssumption DEF PayCommit, HandlerWorks, Paying, providerVars
<1>2. /\ amount[k] \in Nat
      /\ invoicePaid' = invoicePaid + amount[k]
      /\ Charged(allocated)' = Charged(allocated) + amount[k]
      /\ \A s \in Schedules :
           LET A == allocated \cap SessionsOf(s) IN
           IF s = SessionSchedule[k]
           THEN paid'[s] = paid[s] + amount[k] /\ Charged(A)' = Charged(A) + amount[k]
           ELSE paid'[s] = paid[s] /\ Charged(A)' = Charged(A)
  BY <1>1, ChargesPaid
<1>3. \A s \in Schedules : Refunded(AppliedOf(s))' = Refunded(AppliedOf(s))
  BY DEF Refunded, AppliedOf, refundVars, rowVars
<1>4. Refunded(applied)' = Refunded(applied)
  BY DEF Refunded, refundVars, rowVars
<1> HIDE DEF k
<1>5. InvoiceOff' = InvoiceOff
  BY <1>2, <1>4, OffsTyped DEF InvoiceOff
<1>6. ASSUME NEW s \in Schedules PROVE ScheduleOff(s)' = ScheduleOff(s)
  <2>1. /\ paid[s] \in Nat /\ Refunded(AppliedOf(s)) \in Nat
        /\ Charged(allocated \cap SessionsOf(s)) \in Nat
    BY OffsTyped
  <2>2. \/ /\ paid'[s] = paid[s] + amount[k]
           /\ Charged(allocated \cap SessionsOf(s))' = Charged(allocated \cap SessionsOf(s)) + amount[k]
        \/ /\ paid'[s] = paid[s]
           /\ Charged(allocated \cap SessionsOf(s))' = Charged(allocated \cap SessionsOf(s))
    BY <1>2
  <2>3. Refunded(AppliedOf(s))' = Refunded(AppliedOf(s)) /\ amount[k] \in Nat
    BY <1>2, <1>3
  <2> QED BY <2>1, <2>2, <2>3 DEF ScheduleOff
<1> QED BY <1>5, <1>6 DEF OffsKept

\* An applied refund takes its amount off the journals, and off the balances
\* of its snapshot.
LEMMA OffsApplied ==
    ASSUME RefundTyped, NEW a \in Actors, ApplyCommit(a)
    PROVE  /\ actor[a] = "read"
           /\ InvoiceOff' = InvoiceOff + snapshot[a].invoicePaid - invoicePaid
           /\ \A s \in Schedules :
                ScheduleOff(s)' = IF s = RefundSchedule(a)
                                  THEN ScheduleOff(s) + snapshot[a].paid - paid[s]
                                  ELSE ScheduleOff(s)
<1> USE DEF RefundTyped
<1>0. PICK q \in Refunds, s \in Schedules :
          q = RefundOf(a) /\ s = SessionSchedule[RefundSession[q]] /\ s = RefundSchedule(a)
  BY RefundOfType, RefundsAssumption, PaymentsAssumption DEF ApplyCommit, RefundSchedule
<1> DEFINE z == snapshot[a]
           n == RefundAmount[q]
<1>1. /\ q \notin applied /\ applied' = applied \cup {q}
      /\ paid' = [paid EXCEPT ![s] = z.paid - n] /\ invoicePaid' = z.invoicePaid - n
      /\ UNCHANGED <<amount, allocated>>
  <2>1. Deduct(q, z) /\ Claimable(q) /\ applied' = applied \cup {q}
        /\ UNCHANGED <<amount, allocated>>
    BY <1>0 DEF ApplyCommit, providerVars
  <2>2. SessionSchedule[RefundSession[q]] = s
    BY <1>0
  <2> HIDE DEF z, n
  <2> QED BY <2>1, <2>2 DEF Deduct, Claimable, n
<1>2. n \in Nat /\ z.paid \in Nat /\ z.invoicePaid \in Nat
  BY RefundsAssumption, PaymentsAssumption DEF ActorsTyped
<1>3. \A t \in Schedules : paid'[t] = IF t = s THEN z.paid - n ELSE paid[t]
  BY <1>1 DEF TypeOK
<1> HIDE DEF z, n
<1>5. Refunded(applied)' = Refunded(applied) + n
  <2>1. Refunded(applied \cup {q}) = Refunded(applied) + n
    BY <1>1, RefundedMore DEF n
  <2> QED BY <1>1, <2>1 DEF Refunded
<1>6. \A t \in Schedules :
        Refunded(AppliedOf(t))' = IF t = s THEN Refunded(AppliedOf(t)) + n
                                           ELSE Refunded(AppliedOf(t))
  <2> SUFFICES ASSUME NEW t \in Schedules
               PROVE  Refunded(AppliedOf(t))' = IF t = s THEN Refunded(AppliedOf(t)) + n
                                                         ELSE Refunded(AppliedOf(t))
    OBVIOUS
  <2>1. Refunded(AppliedOf(t))' = Refunded(AppliedOf(t)')
    BY DEF Refunded
  <2>2. AppliedOf(t)' = IF t = s THEN AppliedOf(t) \cup {q} ELSE AppliedOf(t)
    BY <1>0, <1>1 DEF AppliedOf
  <2>3. q \notin AppliedOf(t)
    BY <1>1 DEF AppliedOf
  <2> QED BY <2>1, <2>2, <2>3, RefundedMore DEF n
<1>7. /\ Charged(allocated)' = Charged(allocated)
      /\ \A t \in Schedules :
           Charged(allocated \cap SessionsOf(t))' = Charged(allocated \cap SessionsOf(t))
  BY <1>1 DEF Charged, SessionsOf
<1>8. InvoiceOff' = InvoiceOff + z.invoicePaid - invoicePaid
  BY <1>1, <1>2, <1>5, <1>7, OffsTyped DEF InvoiceOff
<1>9. ASSUME NEW t \in Schedules
      PROVE  ScheduleOff(t)' = IF t = s THEN ScheduleOff(t) + z.paid - paid[t]
                                        ELSE ScheduleOff(t)
  <2>1. /\ paid[t] \in Nat /\ Refunded(AppliedOf(t)) \in Nat
        /\ Charged(allocated \cap SessionsOf(t)) \in Nat
    BY OffsTyped
  <2>2. CASE t = s
    <3>1. paid'[t] = z.paid - n /\ Refunded(AppliedOf(t))' = Refunded(AppliedOf(t)) + n
      BY <1>3, <1>6, <2>2
    <3> QED BY <1>2, <1>7, <2>1, <2>2, <3>1 DEF ScheduleOff
  <2>3. CASE t # s
    <3>1. paid'[t] = paid[t] /\ Refunded(AppliedOf(t))' = Refunded(AppliedOf(t))
      BY <1>3, <1>6, <2>3
    <3> QED BY <1>7, <2>1, <2>3, <3>1 DEF ScheduleOff
  <2> QED BY <2>2, <2>3
<1> QED BY <1>0, <1>8, <1>9 DEF z, ApplyCommit

\* Every step but an applied refund keeps the differences.
LEMMA OffsStep ==
    ASSUME RefundTyped, StoredInv, RefundedInv, [RefundNext]_allVars,
           ~\E a \in Actors : ApplyCommit(a)
    PROVE  OffsKept
<1> USE DEF RefundTyped
<1>0. \A k \in allocated : amount'[k] = amount[k]
  <2>1. allocated \subseteq Sessions
    BY DEF TypeOK
  <2>2. \A k \in allocated : checkout[k] # "none"
    BY <2>1 DEF StoredInv, AllocatedCharged
  <2>3. [Next]_vars => \A k \in allocated : amount'[k] = amount[k]
    <3>1. [Next]_vars => Forward
      BY StepForward
    <3> QED BY <2>1, <2>2, <3>1 DEF Forward
  <2> QED
    BY <2>3
       DEF RefundNext, allVars, vars, providerVars, CallerStep, HookStep, ApplyStep, RefundIntent,
           RefundResume, RefundCall, RefundError, RefundRecord, HookClaim, HookUnknown,
           HookPending, HookFailed, HookSucceeded, ApplyRead, ApplySkip, ApplyFail,
           ActorCrash, ProviderSettles
<1>1. ASSUME NEW w \in Receivers, PayCommit(w), UNCHANGED refundVars PROVE OffsKept
  BY <1>1, OffsPaid
<1>2. ASSUME UNCHANGED <<paid, invoicePaid, applied, allocated>> PROVE OffsKept
  BY <1>0, <1>2, OffsAlone
<1>3. ASSUME [Next]_vars, UNCHANGED refundVars, ~\E w \in Receivers : PayCommit(w)
      PROVE  OffsKept
  <2>1. UNCHANGED <<paid, invoicePaid, allocated>>
    BY <1>3
       DEF Next, vars, scheduleVars, invoiceVars, RequestStep, CheckoutStart, CheckoutLock,
           CheckoutPrice, CheckoutOpen, CheckoutRefused, CheckoutInsert, CheckoutRetain,
           CheckoutRelease, RequestCrash, LockLapse, SessionLapse, Capture, CheckoutFails,
           CreditNote, EventClaim, ReceiverStep, PayFailed, PayRead, PayReplay, PayReject,
           PayAbort, ReceiverCrash
  <2> QED BY <1>2, <1>3, <2>1 DEF refundVars, rowVars
<1>4. ASSUME NEW a \in Callers, CallerStep(a) PROVE OffsKept
  BY <1>2, <1>4 DEF CallerStep, RefundIntent, RefundResume, RefundCall, RefundError, RefundRecord,
                    rowVars, vars, scheduleVars, invoiceVars
<1>5. ASSUME NEW h \in Hooks, HookStep(h) PROVE OffsKept
  BY <1>2, <1>5 DEF HookStep, HookClaim, HookUnknown, HookPending, HookFailed, HookSucceeded,
                    rowVars, vars, scheduleVars, invoiceVars
<1>6. ASSUME NEW a \in Actors, ApplyRead(a) \/ ApplySkip(a) \/ ApplyFail(a) \/ ActorCrash(a)
      PROVE  OffsKept
  BY <1>2, <1>6 DEF ApplyRead, ApplySkip, ApplyFail, ActorCrash, rowVars, vars, scheduleVars,
                    invoiceVars
<1>7. ASSUME NEW q \in Refunds, ProviderSettles(q) PROVE OffsKept
  BY <1>2, <1>7 DEF ProviderSettles, rowVars, vars, scheduleVars, invoiceVars
<1>8. ASSUME UNCHANGED allVars PROVE OffsKept
  BY <1>2, <1>8 DEF allVars, refundVars, rowVars, vars, scheduleVars, invoiceVars
<1> QED
  BY <1>1, <1>3, <1>4, <1>5, <1>6, <1>7, <1>8 DEF RefundNext, ApplyStep

\* A paid balance parts from the journals only when a refund is applied over
\* what another refund, or a payment, wrote after its read, and then by just
\* that, however many refunds, callers and deliveries overlap (applyRefund).
THEOREM RefundsLostOnlyInARace == RefundSpec => DeductionLostOnlyInARace
<1> DEFINE Moved ==
             /\ \A s \in Schedules : ScheduleOff(s)' # ScheduleOff(s) =>
                   \E a \in Actors :
                       /\ actor[a] = "read" /\ RefundSchedule(a) = s
                       /\ ScheduleOff(s)' = ScheduleOff(s) + snapshot[a].paid - paid[s]
             /\ InvoiceOff' # InvoiceOff =>
                   \E a \in Actors :
                       /\ actor[a] = "read"
                       /\ InvoiceOff' = InvoiceOff + snapshot[a].invoicePaid - invoicePaid
<1>1. ASSUME RefundTyped, StoredInv, RefundedInv, [RefundNext]_allVars PROVE Moved
  <2>1. CASE \E a \in Actors : ApplyCommit(a)
    BY <1>1, <2>1, OffsApplied
  <2>2. CASE ~\E a \in Actors : ApplyCommit(a)
    BY <1>1, <2>2, OffsStep DEF OffsKept
  <2> QED BY <2>1, <2>2
<1> HIDE DEF Moved
<1>2. RefundSpec => [][Moved]_allVars
  BY <1>1, RefundsTyped, RefundsStored, RefundsRefunded, PTL DEF RefundSpec
<1>3. [][Moved]_allVars => DeductionLostOnlyInARace
  BY PTL DEF Moved, DeductionLostOnlyInARace
<1> QED BY <1>2, <1>3
=============================================================================
