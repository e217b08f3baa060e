-------------------------- MODULE Delivery_proofs --------------------------
(***************************************************************************)
(* Proofs about one delivery: for every number of addresses, operations    *)
(* and attempts, and every timeout.                                        *)
(***************************************************************************)
EXTENDS Delivery, TLAPS

\* A pause before the next attempt is a natural number, and leaves a second of
\* the budget; without a second left there is none.
LEMMA SleepBounds ==
    ASSUME attempt \in 0 .. Retries - 1, NEW r \in Int
    PROVE  /\ Sleep(r) \in Nat
           /\ r >= Second => Sleep(r) <= r - Second
           /\ r < Second => Sleep(r) = 0
<1>1. Backoff * 2 ^ attempt \in Nat
  BY PauseAssumption
<1>2. DEFINE pause == Backoff * 2 ^ attempt
<1>3. pause \in Nat
  BY <1>1
<1>4. Sleep(r) = Smaller(pause, Larger(0, r - Second))
  BY DEF Sleep
<1> HIDE DEF pause
<1> QED
  BY <1>3, <1>4, DeliveryAssumption DEF Smaller, Larger

\* The first pause is no longer than the back-off.
LEMMA FirstPause ==
    ASSUME attempt = 0, NEW r \in Int
    PROVE  Sleep(r) <= Backoff
<1>1. 2 ^ attempt = 1
  BY SMT
<1> QED
  BY <1>1, DeliveryAssumption DEF Sleep, Smaller, Larger

\* The extended deadline is a time.
LEMMA UntilNat == ASSUME TypeOK PROVE Until \in Nat
  BY DeliveryAssumption DEF TypeOK, Until

LEMMA InitTyped == Init => TypeOK
<1> SUFFICES ASSUME Init PROVE TypeOK
  OBVIOUS
<1>1. failures \in [0 .. Retries - 1 -> Failure \cup {"none"}]
  BY DeliveryAssumption DEF Init
<1>2. attempt \in 0 .. Retries - 1 /\ \A n \in 0 .. attempt - 1 : FALSE
  BY DeliveryAssumption DEF Init
<1>3. /\ pc = "attempt" /\ last = "none" /\ outcome = "none"
      /\ extended = FALSE /\ used = 0
      /\ now \in Nat /\ deadline \in Nat /\ limit \in Nat
      /\ address \in 1 .. Addresses
  BY DeliveryAssumption DEF Init
<1>4. used \in 0 .. PerAddress - 1
  BY DeliveryAssumption DEF Init
<1> QED
  BY <1>1, <1>2, <1>3, <1>4 DEF TypeOK, Outcome

\* Every step keeps the state well-formed.
LEMMA StepTyped == TypeOK /\ [Next]_vars => TypeOK'
<1> SUFFICES ASSUME TypeOK, [Next]_vars PROVE TypeOK'
  OBVIOUS
<1> USE DeliveryAssumption DEF TypeOK, budget, try, Failure, Outcome
<1>1. CASE OutOfTime
  BY <1>1 DEF OutOfTime, Return
<1>2. CASE StartAttempt
  BY <1>2 DEF StartAttempt, Larger
<1>3. CASE Continue
  <2>1. used' \in 0 .. PerAddress - 1
    BY <1>3 DEF Continue
  <2> QED
    BY <1>3, <2>1 DEF Continue, Blocks
<1>4. CASE NoAnswer
  BY <1>4 DEF NoAnswer, TimesOut, Breaks, Blocks
<1>5. CASE Accepted
  BY <1>5 DEF Accepted, Blocks, Return
<1>6. CASE Refused
  BY <1>6 DEF Refused, Blocks
<1>7. CASE Garbled
  BY <1>7 DEF Garbled, Blocks
<1>10. CASE NextAddress
  BY <1>10 DEF NextAddress
<1>11. CASE Retry
  <2>1. Until \in Nat /\ Until - now \in Int
    BY UntilNat
  <2>2. Sleep(Until - now) \in Nat
    BY <2>1, SleepBounds
  <2>3. now' \in Nat
    BY <1>11, <2>2 DEF Retry
  <2>4. failures[attempt] # "none"
    BY <1>11 DEF Retry
  <2> QED
    BY <1>11, <2>1, <2>3, <2>4 DEF Retry, Extends
<1>12. CASE GiveUp
  <2>1. Reason(last) \in Outcome
    BY <1>12 DEF GiveUp, Reason
  <2> QED
    BY <1>12, <2>1, UntilNat DEF GiveUp, Extends, Return
<1>13. CASE UNCHANGED vars
  BY <1>13 DEF vars
<1> QED
  BY <1>1, <1>2, <1>3, <1>4, <1>5, <1>6, <1>7, <1>10, <1>11, <1>12, <1>13
     DEF Next

\* A call's clock, budget and history of failures are always well-formed.
THEOREM Typing == Spec => []TypeOK
<1> QED
  BY InitTyped, StepTyped, PTL DEF Spec
-----------------------------------------------------------------------------
\* What makes the properties inductive: until the first attempt has failed
\* the budget is untouched, and after an extension a retry has all its time
\* left but for the pause.
Fresh ==
    attempt = 0 /\ pc # "done" =>
        /\ deadline = Timeout /\ ~extended
        /\ pc # "failed" => failures[0] = "none"
TimeLeft ==
    pc = "attempt" /\ attempt = 1 /\ failures[0] = "timeout"
    => /\ now < deadline
       /\ deadline - now >= Timeout - Backoff - MaxLag
IInv == Fresh /\ TimeLeft /\ SilenceIsRetried /\ RetryIsNotStarved

\* The inductive invariant holds initially.
LEMMA InitIInv == Init => IInv
<1> SUFFICES ASSUME Init PROVE IInv
  OBVIOUS
<1>1. failures[0] = "none"
  BY DeliveryAssumption DEF Init
<1> QED
  BY <1>1, DeliveryAssumption
     DEF Init, IInv, Fresh, TimeLeft, SilenceIsRetried, RetryIsNotStarved

\* Every step preserves it.
LEMMA StepIInv == TypeOK /\ IInv /\ [Next]_vars => IInv'
<1> SUFFICES ASSUME TypeOK, IInv, [Next]_vars PROVE IInv'
  OBVIOUS
<1> USE DeliveryAssumption
    DEF TypeOK, IInv, Fresh, TimeLeft, SilenceIsRetried,
        RetryIsNotStarved, budget, try, Failure
<1>1. CASE OutOfTime
  <2>1. failures[0] = "timeout" /\ Retries > 1 => failures[1] # "none"
    BY <1>1 DEF OutOfTime
  <2> QED
    BY <1>1, <2>1 DEF OutOfTime, Return
<1>2. CASE StartAttempt
  BY <1>2 DEF StartAttempt, Larger
<1>3. CASE Continue
  BY <1>3 DEF Continue
<1>4. CASE NoAnswer
  BY <1>4 DEF NoAnswer
<1>5. CASE Accepted
  BY <1>5 DEF Accepted, Return
<1>6. CASE Refused
  BY <1>6 DEF Refused
<1>7. CASE Garbled
  BY <1>7 DEF Garbled
<1>10. CASE NextAddress
  BY <1>10 DEF NextAddress
<1>11. CASE Retry
  <2>1. PICK lag \in 0 .. MaxLag : now' = now + Sleep(Until - now) + lag
    BY <1>11 DEF Retry
  <2>2. Until \in Nat
    BY UntilNat
  <2>3. Sleep(Until - now) \in Nat
        /\ (Until - now >= Second => Sleep(Until - now) <= Until - now - Second)
    BY <2>2, SleepBounds
  <2>4. CASE Extends
    <3>1. Until = now + Timeout /\ failures[0] = "timeout"
      BY <1>11, <2>4 DEF Until, Extends, Retry
    <3>2. now' < deadline'
      BY <1>11, <2>1, <2>3, <3>1 DEF Retry
    <3>3. Sleep(Until - now) <= Backoff
      <4>1. attempt = 0 /\ Until - now \in Int
        BY <2>2, <2>4 DEF Extends
      <4> QED  BY <4>1, FirstPause
    <3>4. deadline' - now' >= Timeout - Backoff - MaxLag
      BY <1>11, <2>1, <2>2, <2>3, <3>1, <3>3 DEF Retry
    <3> QED
      BY <1>11, <3>1, <3>2, <3>4 DEF Retry
  <2>5. CASE ~Extends
    <3>1. Until = deadline
      BY <2>5 DEF Until
    <3>2. attempt = 0 => failures[0] # "timeout"
      BY <1>11, <2>5 DEF Extends, Retry
    <3> QED
      BY <1>11, <3>1, <3>2 DEF Retry
  <2> QED
    BY <2>4, <2>5
<1>12. CASE GiveUp
  <2>1. Until \in Nat
    BY UntilNat
  <2>2. CASE Extends
    <3>1. Until = now + Timeout /\ failures[0] = "timeout" /\ attempt = 0
      BY <1>12, <2>2 DEF Until, Extends, GiveUp
    <3>2. ~(Retries > 1)
      BY <1>12, <3>1 DEF GiveUp
    <3> QED
      BY <1>12, <3>1, <3>2 DEF GiveUp, Return
  <2>3. CASE ~Extends
    <3>1. Until = deadline
      BY <2>3 DEF Until
    <3>2. attempt = 0 => failures[0] # "timeout"
      BY <1>12, <2>3 DEF Extends, GiveUp
    <3>3. attempt > 0 /\ Retries > 1 => failures[1] # "none"
      BY <1>12 DEF GiveUp
    <3> QED
      BY <1>12, <3>1, <3>2, <3>3 DEF GiveUp, Return
  <2> QED
    BY <2>2, <2>3
<1>13. CASE UNCHANGED vars
  BY <1>13 DEF vars
<1> QED
  BY <1>1, <1>2, <1>3, <1>4, <1>5, <1>6, <1>7, <1>10, <1>11, <1>12, <1>13
     DEF Next

LEMMA Inductive == Spec => [](TypeOK /\ IInv)
<1> QED
  BY InitTyped, StepTyped, InitIInv, StepIInv, PTL DEF Spec

\* Whatever the timeout, the number of attempts and the addresses, a call whose
\* first attempt got no answer does not end on it.
THEOREM SilenceRetried == Spec => []SilenceIsRetried
<1>1. IInv => SilenceIsRetried
  BY DEF IInv
<1> QED
  BY <1>1, Inductive, PTL

\* Whatever the timeout, the back-off, the addresses and the operations on
\* them, the attempt after a silent one has the timeout but for the pause.
THEOREM RetryInFull == Spec => []RetryIsNotStarved
<1>1. IInv => RetryIsNotStarved
  BY DEF IInv
<1> QED
  BY <1>1, Inductive, PTL
-----------------------------------------------------------------------------
\* Socket operations of this attempt that have ended.
Ended == IF pc \in {"connect", "answer"}
         THEN PerAddress * (address - 1) + used
         ELSE PerAddress * address

\* The timeout of an attempt is what was left of the budget when it began, or
\* the floor of a second; so many timeouts later it is at most this late.
Trying ==
    /\ Second <= limit /\ limit <= Timeout
    /\ attempt = 0 => limit = deadline
    /\ \/ now <= deadline - limit + Ended * limit
       \/ attempt > 0 /\ limit = Second /\ now <= deadline + Ended * limit

\* What bounds the clock at every step, and the deadline with it.
InTime ==
    /\ attempt = 0 /\ pc # "done" => deadline = Timeout
    /\ deadline <= now + Timeout
    /\ deadline <= (Operations + 1) * Timeout
    /\ pc = "attempt" => IF attempt = 0 THEN now = 0 ELSE now <= deadline + MaxLag
    /\ pc \in {"connect", "answer", "next", "failed"} => Trying
    /\ Ceiling

\* Products are monotone in each factor.
LEMMA Times ==
    ASSUME NEW k \in Nat, NEW m \in Nat, NEW l \in Nat, k <= m
    PROVE  k * l \in Nat /\ k * l <= m * l /\ l * k <= l * m
<1>1. (m - k) * l \in Nat /\ k * l \in Nat
  OBVIOUS
<1>2. m * l = k * l + (m - k) * l
  OBVIOUS
<1> QED  BY <1>1, <1>2

\* One more operation takes one more timeout at most.
LEMMA OneMore ==
    ASSUME NEW k \in Nat, NEW m \in Nat, NEW l \in Nat, k + 1 <= m,
           NEW n \in Int, NEW since \in Int, n <= since + k * l
    PROVE  n + l <= since + m * l
<1>1. (k + 1) * l = k * l + l
  OBVIOUS
<1>2. (k + 1) * l <= m * l /\ k * l \in Nat /\ m * l \in Nat
  BY Times
<1> QED  BY <1>1, <1>2

LEMMA OperationsNat == Operations \in Nat /\ 2 <= Operations
<1>1. PerAddress * 1 <= PerAddress * Addresses /\ Addresses * PerAddress \in Nat
  BY DeliveryAssumption, Times
<1> QED  BY <1>1, DeliveryAssumption DEF Operations

\* An attempt that starts with the budget it is given, and spends at most its
\* timeout on every operation, ends within the bound.
LEMMA WithinBound ==
    ASSUME NEW d \in Nat, NEW l \in Nat, NEW k \in Nat, NEW n \in Nat,
           k <= Operations, Second <= l, l <= Timeout,
           d <= (Operations + 1) * Timeout,
           \/ n <= d - l + k * l
           \/ l = Second /\ n <= d + k * l
    PROVE  n <= Bound
<1>0. /\ Operations \in Nat /\ 2 <= Operations /\ Timeout \in Nat /\ Second \in Nat
      /\ Operations * Timeout \in Nat /\ Operations * Second \in Nat
  BY OperationsNat, DeliveryAssumption, Times
<1>1. k * l \in Nat /\ k * l <= Operations * l
  BY <1>0, Times
<1>2. 2 * Operations * Timeout <= Bound /\ (Operations + 1) * Timeout + Operations * Second <= Bound
  <2>1. 2 * Operations * Timeout \in Nat /\ (Operations + 1) * Timeout + Operations * Second \in Nat
    BY <1>0
  <2>2. \A x, y \in Nat : x <= Larger(x, y) /\ y <= Larger(x, y)
    BY DEF Larger
  <2> QED  BY <2>1, <2>2 DEF Bound
<1>3. CASE n <= d - l + k * l
  <2>1. Operations * l = (Operations - 1) * l + l
    BY <1>0
  <2>2. (Operations - 1) * l <= (Operations - 1) * Timeout
    BY <1>0, Times
  <2>3. 2 * Operations * Timeout = (Operations + 1) * Timeout + (Operations - 1) * Timeout
    BY <1>0
  <2>4. (Operations - 1) * l \in Nat /\ (Operations - 1) * Timeout \in Nat
    BY <1>0, Times
  <2>5. n <= 2 * Operations * Timeout
    BY <1>0, <1>1, <1>3, <2>1, <2>2, <2>3, <2>4
  <2>6. Bound \in Nat
    BY <1>0 DEF Bound, Larger
  <2> QED  BY <1>0, <1>2, <2>5, <2>6
<1>4. CASE l = Second /\ n <= d + k * l
  <2>1. n <= (Operations + 1) * Timeout + Operations * Second
    BY <1>0, <1>1, <1>4
  <2>2. Bound \in Nat
    BY <1>0 DEF Bound, Larger
  <2> QED  BY <1>0, <1>2, <2>1, <2>2
<1> QED  BY <1>3, <1>4

\* While a socket operation runs there is time for it and for those after it.
LEMMA EndedBounds ==
    ASSUME TypeOK
    PROVE  /\ Ended \in Nat /\ Ended <= Operations
           /\ pc \in {"connect", "answer"} => Ended + 1 <= PerAddress * address
           /\ PerAddress * address \in Nat /\ PerAddress * address <= Operations
<1>1. /\ address \in Nat /\ 1 <= address /\ address <= Addresses
      /\ used \in Nat /\ used + 1 <= PerAddress
      /\ PerAddress \in Nat /\ Addresses \in Nat
  BY DeliveryAssumption DEF TypeOK
<1>2. /\ address * PerAddress \in Nat
      /\ PerAddress * address <= PerAddress * Addresses
  BY <1>1, Times
<1>3. PerAddress * address \in Nat /\ PerAddress * address <= Operations
  BY <1>1, <1>2 DEF Operations
<1>4. Operations \in Nat
  BY OperationsNat
<1>5. /\ PerAddress * address = PerAddress * (address - 1) + PerAddress
      /\ PerAddress * (address - 1) \in Nat
  <2>1. address - 1 \in Nat
    BY <1>1
  <2>2. (address - 1) * PerAddress \in Nat
    BY <1>1, <2>1, Times
  <2> QED  BY <1>1, <2>1, <2>2
<1>6. CASE pc \in {"connect", "answer"}
  <2>1. Ended = PerAddress * (address - 1) + used
    BY <1>6 DEF Ended
  <2> HIDE DEF Ended
  <2> QED  BY <1>1, <1>3, <1>4, <1>5, <2>1
<1>7. CASE pc \notin {"connect", "answer"}
  BY <1>3, <1>7 DEF Ended
<1> QED  BY <1>3, <1>6, <1>7

\* What a socket operation may do to the clock of its attempt.
LEMMA Spends ==
    ASSUME TypeOK, InTime, pc \in {"connect", "answer"},
           NEW n \in now .. now + limit,
           NEW k \in Nat, Ended + 1 <= k, k <= Operations
    PROVE  /\ \/ n <= deadline - limit + k * limit
              \/ attempt > 0 /\ limit = Second /\ n <= deadline + k * limit
           /\ n <= Bound
<1>1. /\ now \in Nat /\ limit \in Nat /\ deadline \in Nat /\ n \in Nat /\ n <= now + limit
      /\ Ended \in Nat /\ k * limit \in Nat /\ Ended * limit \in Nat
  BY EndedBounds, Times DEF TypeOK
<1>2. \/ now <= deadline - limit + Ended * limit
      \/ attempt > 0 /\ limit = Second /\ now <= deadline + Ended * limit
  BY DEF InTime, Trying
<1>3. \/ n <= deadline - limit + k * limit
      \/ attempt > 0 /\ limit = Second /\ n <= deadline + k * limit
  <2>1. CASE now <= deadline - limit + Ended * limit
    <3>1. now + limit <= deadline - limit + k * limit
      BY <1>1, <2>1, OneMore
    <3> QED  BY <1>1, <3>1
  <2>2. CASE attempt > 0 /\ limit = Second /\ now <= deadline + Ended * limit
    <3>1. now + limit <= deadline + k * limit
      BY <1>1, <2>2, OneMore
    <3> QED  BY <1>1, <2>2, <3>1
  <2> QED  BY <1>2, <2>1, <2>2
<1>4. Second <= limit /\ limit <= Timeout /\ deadline <= (Operations + 1) * Timeout
  BY DEF InTime, Trying
<1>5. n <= Bound
  BY <1>1, <1>3, <1>4, WithinBound
<1> QED  BY <1>3, <1>5

\* An extension, too, is granted in time.
LEMMA UntilInTime ==
    ASSUME TypeOK, InTime, pc = "failed"
    PROVE  Until <= now + Timeout /\ Until <= (Operations + 1) * Timeout
<1>1. CASE ~Extends
  BY <1>1 DEF Until, InTime
<1>2. CASE Extends
  <2>1. Until = now + Timeout
    BY <1>2 DEF Until
  <2>2. now <= Ended * Timeout /\ now \in Nat
    <3>1. attempt = 0 /\ limit = Timeout /\ deadline = Timeout
      BY <1>2 DEF InTime, Trying, Extends
    <3>2. now <= deadline - limit + Ended * limit
      BY <3>1 DEF InTime, Trying
    <3>3. Ended * Timeout \in Nat
      BY EndedBounds, DeliveryAssumption, Times
    <3> QED  BY <3>1, <3>2, <3>3, DeliveryAssumption DEF TypeOK
  <2>3. Ended * Timeout <= Operations * Timeout /\ Ended * Timeout \in Nat /\ Operations * Timeout \in Nat
    BY EndedBounds, OperationsNat, DeliveryAssumption, Times
  <2>4. (Operations + 1) * Timeout = Operations * Timeout + Timeout
    BY OperationsNat, DeliveryAssumption
  <2> QED  BY <2>1, <2>2, <2>3, <2>4, DeliveryAssumption
<1> QED  BY <1>1, <1>2

\* The clock starts in time.
LEMMA InitInTime == Init => InTime
<1> SUFFICES ASSUME Init PROVE InTime
  OBVIOUS
<1>1. Timeout <= (Operations + 1) * Timeout
  BY OperationsNat, DeliveryAssumption, Times
<1>2. 0 <= Bound
  <2>1. 0 * Second <= Operations * Second /\ (Operations + 1) * Timeout \in Nat
        /\ Operations * Second \in Nat /\ 2 * Operations * Timeout \in Nat
    BY OperationsNat, DeliveryAssumption, Times
  <2> QED  BY <2>1 DEF Bound, Larger
<1> QED  BY <1>1, <1>2, DeliveryAssumption DEF Init, InTime, Ceiling

\* What is in time stays so as time passes.
LEMMA Later ==
    ASSUME NEW d \in Nat, NEW m \in Nat, NEW n \in Nat, m <= n, d <= m + Timeout
    PROVE  d <= n + Timeout
BY DeliveryAssumption

\* Every step keeps the clock in time.
LEMMA StepInTime == TypeOK /\ InTime /\ [Next]_vars => InTime'
<1> SUFFICES ASSUME TypeOK, InTime, [Next]_vars PROVE InTime'
  OBVIOUS
<1> USE DeliveryAssumption
<1>0. /\ now \in Nat /\ limit \in Nat /\ deadline \in Nat /\ attempt \in Nat
      /\ address \in Nat /\ Operations \in Nat /\ Timeout \in Nat /\ MaxLag \in Nat
      /\ Ended \in Nat /\ Ended <= Operations
      /\ pc \in {"connect", "answer"} => Ended + 1 <= PerAddress * address
      /\ PerAddress * address \in Nat /\ PerAddress * address <= Operations
      /\ PerAddress \in Nat /\ used \in Nat
  BY EndedBounds, OperationsNat DEF TypeOK
<1>1. CASE OutOfTime
  BY <1>1 DEF OutOfTime, Return, budget, try, InTime, Ceiling
<1>2. CASE StartAttempt
  <2>1. Ended' = 0
    BY <1>0, <1>2 DEF StartAttempt, Ended
  <2>2. Ended' * limit' = 0
    BY <1>0, <1>2, <2>1 DEF StartAttempt, Larger
  <2>3. CASE attempt = 0
    BY <1>0, <1>2, <2>2, <2>3 DEF StartAttempt, budget, InTime, Trying, Ceiling
  <2>4. CASE attempt # 0
    BY <1>0, <1>2, <2>2, <2>4 DEF StartAttempt, Larger, budget, InTime, Trying, Ceiling
  <2> QED  BY <2>3, <2>4
<1>3. ASSUME pc \in {"connect", "answer"}, now' \in now .. now + limit,
             UNCHANGED <<deadline, attempt, limit>>,
             \/ pc' = "done"
             \/ pc' \in {"connect", "answer", "next", "failed"} /\ Ended + 1 <= Ended' /\ Ended' <= Operations
                /\ Ended' \in Nat
      PROVE  InTime'
  <2>1. now' \in Nat /\ deadline <= now' + Timeout
    <3>1. now <= now' /\ now' \in Nat
      BY <1>0, <1>3
    <3>2. deadline <= now + Timeout
      BY DEF InTime
    <3> QED  BY <1>0, <3>1, <3>2, Later
  <2>2. CASE pc' = "done"
    <3>1. Ended + 1 <= PerAddress * address
      BY <1>0, <1>3
    <3>2. now' <= Bound
      BY <1>0, <1>3, <3>1, Spends
    <3> QED  BY <1>3, <2>1, <2>2, <3>2 DEF InTime, Ceiling
  <2>3. CASE /\ pc' \in {"connect", "answer", "next", "failed"} /\ Ended + 1 <= Ended' /\ Ended' <= Operations
             /\ Ended' \in Nat
    <3>1. /\ \/ now' <= deadline - limit + Ended' * limit
             \/ attempt > 0 /\ limit = Second /\ now' <= deadline + Ended' * limit
          /\ now' <= Bound
      BY <1>3, <2>3, Spends
    <3>2. Trying'
      BY <1>3, <3>1 DEF InTime, Trying
    <3> QED  BY <1>3, <2>1, <2>3, <3>1, <3>2 DEF InTime, Ceiling
  <2> QED  BY <1>3, <2>2, <2>3
<1>4. ASSUME Blocks \/ TimesOut \/ Breaks PROVE now' \in now .. now + limit
  BY <1>0, <1>4 DEF Blocks, TimesOut, Breaks
<1>5. CASE Continue
  <2>1. Ended' = Ended + 1
    <3>1. PerAddress * (address - 1) \in Int
      BY <1>0
    <3> QED  BY <1>0, <1>5, <3>1 DEF Continue, Ended
  <2>2. Ended + 1 <= Operations
    <3>1. Ended + 1 <= PerAddress * address
      BY <1>0, <1>5 DEF Continue
    <3> QED  BY <1>0, <3>1
  <2>3. pc' \in {"answer", "connect"}
    BY <1>5 DEF Continue
  <2> QED  BY <1>0, <1>3, <1>4, <1>5, <2>1, <2>2, <2>3 DEF Continue, budget
<1>6. CASE Accepted
  BY <1>3, <1>4, <1>6 DEF Accepted, Return, budget, try
<1>7. CASE NoAnswer \/ Refused \/ Garbled
  <2>1. Ended' = PerAddress * address
    BY <1>7 DEF NoAnswer, Refused, Garbled, Ended
  <2> QED  BY <1>0, <1>3, <1>4, <1>7, <2>1 DEF NoAnswer, Refused, Garbled, budget
<1>9. CASE NextAddress
  <2>1. Ended' = Ended
    <3>1. Ended = PerAddress * address
      BY <1>9 DEF NextAddress, Ended
    <3>2. CASE pc' = "connect"
      <4>1. address' = address + 1 /\ used' = 0
        BY <1>9, <3>2 DEF NextAddress
      <4>2. address' - 1 = address
        BY <1>0, <4>1
      <4>3. Ended' = PerAddress * address + 0
        BY <3>2, <4>1, <4>2 DEF Ended
      <4> QED  BY <1>0, <3>1, <4>3
    <3>3. CASE pc' # "connect"
      BY <1>9, <3>1, <3>3 DEF NextAddress, Ended
    <3> QED  BY <3>2, <3>3
  <2> QED  BY <1>9, <2>1 DEF NextAddress, InTime, Trying, Ceiling
<1>10. CASE Retry
  <2>1. PICK lag \in 0 .. MaxLag : now' = now + Sleep(Until - now) + lag
    BY <1>10 DEF Retry
  <2>2. Until \in Nat /\ now < Until
    BY <1>0, <1>10, UntilNat DEF Retry
  <2>3. /\ Sleep(Until - now) \in Nat
        /\ Until - now >= Second => Sleep(Until - now) <= Until - now - Second
        /\ Until - now < Second => Sleep(Until - now) = 0
    BY <1>0, <2>2, SleepBounds DEF TypeOK
  <2>4. now' \in Nat /\ now <= now' /\ now' <= Until + MaxLag
    BY <1>0, <2>1, <2>2, <2>3
  <2>5. /\ deadline' = Until /\ attempt' = attempt + 1 /\ pc' = "attempt"
        /\ Until <= now + Timeout /\ Until <= (Operations + 1) * Timeout
    BY <1>10, UntilInTime DEF Retry
  <2>6. now' <= Bound
    <3>1. /\ (Operations + 1) * Timeout \in Nat /\ Operations * Second \in Nat
          /\ 1 * Second <= Operations * Second
      BY OperationsNat, Times
    <3>2. 2 * Operations * Timeout \in Nat
      BY OperationsNat, Times
    <3> QED  BY <2>2, <2>4, <2>5, <3>1, <3>2 DEF Bound, Larger
  <2>7. deadline' <= now' + Timeout /\ attempt' # 0
    <3>1. Until <= now' + Timeout
      BY <1>0, <2>2, <2>4, <2>5, Later
    <3>2. attempt' # 0
      BY <1>0, <2>5
    <3> QED  BY <2>5, <3>1, <3>2
  <2> QED  BY <2>4, <2>5, <2>6, <2>7 DEF InTime, Ceiling
<1>11. CASE GiveUp
  BY <1>11, UntilInTime DEF GiveUp, Return, try, InTime, Ceiling
<1>12. CASE UNCHANGED vars
  BY <1>12 DEF vars, budget, try, InTime, Trying, Ceiling, Ended
<1> QED
  BY <1>1, <1>2, <1>5, <1>6, <1>7, <1>9, <1>10, <1>11, <1>12 DEF Next

\* However many addresses the target resolved to, and operations each takes at
\* most, a call ends within twice its timeout for every operation, or one timeout more than that and a second for
\* each: the extension, and the floor of an attempt, add no more than that.
THEOREM EndsWithinBound == Spec => []Ceiling
<1>1. InTime => Ceiling
  BY DEF InTime
<1> QED
  BY <1>1, InitTyped, StepTyped, InitInTime, StepInTime, PTL DEF Spec

\* A stage is a number, up to that of the end; those of one address come
\* before those of the next.
StageOK ==
    /\ Stage \in 0 .. (PerAddress + 1) * Addresses + 2
    /\ (PerAddress + 1) * address \in Nat
    /\ (PerAddress + 1) * Addresses \in Nat
    /\ (PerAddress + 1) * address <= (PerAddress + 1) * Addresses
    /\ pc \in {"connect", "answer"} =>
          0 < Stage /\ Stage < (PerAddress + 1) * address

LEMMA Stages == ASSUME TypeOK PROVE StageOK
<1> USE DEF StageOK
<1>1. /\ address \in Nat /\ 1 <= address /\ address <= Addresses
      /\ used \in Nat /\ used + 1 <= PerAddress
      /\ PerAddress + 1 \in Nat /\ Addresses \in Nat
  BY DeliveryAssumption DEF TypeOK
<1> DEFINE Here == (PerAddress + 1) * address
           There == (PerAddress + 1) * Addresses
           Before == (PerAddress + 1) * (address - 1)
<1>2. Here \in Nat /\ There \in Nat /\ Here <= There
  <2>1. address * (PerAddress + 1) \in Nat /\ Addresses * (PerAddress + 1) \in Nat
        /\ (PerAddress + 1) * address <= (PerAddress + 1) * Addresses
    BY <1>1, Times
  <2> QED  BY <1>1, <2>1
<1>3. Here = Before + PerAddress + 1 /\ Before \in Nat
  <2>1. address - 1 \in Nat
    BY <1>1
  <2>2. (address - 1) * (PerAddress + 1) \in Nat
    BY <1>1, <2>1, Times
  <2>3. PerAddress \in Nat
    BY DeliveryAssumption
  <2> QED  BY <1>1, <2>1, <2>2, <2>3
<1>4. PerAddress \in Nat
  BY DeliveryAssumption
<1>5. CASE pc \in {"connect", "answer"}
  <2>1. Stage = Before + used + 1
    BY <1>5 DEF Stage
  <2> HIDE DEF Here, There, Before
  <2>2. 0 < Stage /\ Stage < Here /\ Stage \in Nat
    BY <1>1, <1>2, <1>3, <1>4, <2>1
  <2>3. Stage \in 0 .. There + 2
    BY <1>2, <2>2
  <2> USE DEF Here, There, Before
  <2> QED  BY <1>2, <2>2, <2>3
<1>6. CASE pc \in {"attempt", "next", "failed", "done"}
  <2>1. Stage \in {0, Here, There + 1, There + 2}
    BY <1>6 DEF Stage
  <2>2. Stage \in 0 .. There + 2
    <3> HIDE DEF Here, There, Before
    <3> QED  BY <1>2, <2>1
  <2> QED  BY <1>2, <1>6, <2>2
<1> QED  BY <1>5, <1>6 DEF TypeOK

\* Nothing that happens in a call takes it back to where it was.
THEOREM Forward == Spec => NeverGoesBack
<1> DEFINE On == attempt' > attempt \/ (attempt' = attempt /\ Stage' > Stage)
<1>1. ASSUME TypeOK, StageOK, StageOK', [Next]_vars
      PROVE  On \/ UNCHANGED vars
  <2> DEFINE Here == (PerAddress + 1) * address
             There == (PerAddress + 1) * Addresses
  <2>1. /\ Here \in Nat /\ There \in Nat /\ Here <= There
        /\ Stage \in Int
        /\ pc \in {"connect", "answer"} => 0 < Stage /\ Stage < Here
        /\ Stage' \in Int
        /\ pc' \in {"connect", "answer"} => 0 < Stage'
    BY <1>1 DEF StageOK
  <2>2. /\ pc = "next" => Stage = Here
        /\ pc = "attempt" => Stage = 0
        /\ pc = "failed" => Stage = There + 1
        /\ pc' = "next" => Stage' = (PerAddress + 1) * address'
        /\ pc' = "failed" => Stage' = There + 1
        /\ pc' = "done" => Stage' = There + 2
    BY DEF Stage
  <2>0. attempt \in Int /\ address \in Int /\ used \in Int /\ PerAddress \in Int
    BY <1>1, DeliveryAssumption DEF TypeOK
  <2> HIDE DEF Here, There
  <2> USE DEF budget, try
  <2>3. CASE OutOfTime
    BY <2>0, <2>1, <2>2, <2>3 DEF OutOfTime, Return
  <2>4. CASE StartAttempt
    BY <2>0, <2>1, <2>2, <2>4 DEF StartAttempt
  <2>5. CASE Continue
    <3>1. /\ Stage = (PerAddress + 1) * (address - 1) + used + 1
          /\ Stage' = (PerAddress + 1) * (address - 1) + used' + 1
          /\ used' = used + 1
      BY <2>5 DEF Continue, Stage
    <3>2. (PerAddress + 1) * (address - 1) \in Int
      BY <2>0
    <3> QED  BY <2>0, <2>5, <3>1, <3>2 DEF Continue
  <2>6. CASE NoAnswer \/ Refused
    <3>1. pc' = "next" /\ address' = address /\ attempt' = attempt
          /\ pc \in {"connect", "answer"}
      BY <2>6 DEF NoAnswer, Refused
    <3>2. Stage' = Here
      BY <2>2, <3>1 DEF Here
    <3> QED  BY <2>0, <2>1, <3>1, <3>2
  <2>7. CASE Accepted
    BY <2>0, <2>1, <2>2, <2>7 DEF Accepted, Return
  <2>8. CASE Garbled
    BY <2>0, <2>1, <2>2, <2>8 DEF Garbled
  <2>9. CASE NextAddress
    <3>1. CASE address < Addresses
      <4>1. address' = address + 1 /\ used' = 0 /\ pc' = "connect"
        BY <2>0, <2>9, <3>1, DeliveryAssumption DEF NextAddress
      <4>2. address' - 1 = address
        BY <2>0, <4>1
      <4>3. Stage' = Here + 0 + 1
        BY <4>1, <4>2 DEF Stage, Here
      <4> QED  BY <2>0, <2>1, <2>2, <2>9, <4>3 DEF NextAddress
    <3>2. CASE ~(address < Addresses)
      BY <2>0, <2>1, <2>2, <2>9, <3>2 DEF NextAddress
    <3> QED  BY <3>1, <3>2
  <2>10. CASE Retry
    BY <2>0, <2>10 DEF Retry
  <2>11. CASE GiveUp
    BY <2>0, <2>1, <2>2, <2>11 DEF GiveUp, Return
  <2> QED
    BY <1>1, <2>3, <2>4, <2>5, <2>6, <2>7, <2>8, <2>9, <2>10, <2>11 DEF Next
<1>2. TypeOK => StageOK
  BY Stages
<1> QED  BY <1>1, <1>2, Typing, PTL DEF Spec, NeverGoesBack
=============================================================================
