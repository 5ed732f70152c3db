----------------------------- MODULE RetryProofs -----------------------------
(* Proofs about the loop of Retry, for every number of retries, whole or not,
   positive or not, and every base delay, whole or not, positive or not.

   The provers know nothing of 2^n.  What is needed of it, that it doubles, is
   read off the number of subsets of 1..n, which the library of finite sets
   proves to be 2^n. *)
EXTENDS Retry, FiniteSetTheorems, TLAPS

LEMMA SubsetsOfInterval ==
    ASSUME NEW n \in Nat
    PROVE  /\ IsFiniteSet(SUBSET (1..n))
           /\ Cardinality(SUBSET (1..n)) = 2^n
<1>1. IsFiniteSet(1..n) /\ Cardinality(1..n) = n
  BY FS_Interval
<1> QED BY <1>1, FS_SUBSET, Zenon

LEMMA PowersDouble ==
    ASSUME NEW n \in Nat
    PROVE  2^n \in Nat /\ 2^n >= 1 /\ 2^(n + 1) = 2^n + 2^n
<1> DEFINE Old == SUBSET (1..n)
           New == {T \cup {n + 1} : T \in Old}
<1>1. /\ IsFiniteSet(Old) /\ Cardinality(Old) = 2^n
      /\ Cardinality(SUBSET (1..(n + 1))) = 2^(n + 1)
  BY SubsetsOfInterval, n + 1 \in Nat
<1>2. 2^n \in Nat /\ 2^n >= 1
  <2>1. {} \in Old
    OBVIOUS
  <2>2. Cardinality(Old) \in Nat
    BY <1>1, FS_CardinalityType
  <2>3. Cardinality(Old) # 0
    BY <1>1, <2>1, FS_EmptySet
  <2> QED BY <1>1, <2>2, <2>3
<1>3. n + 1 \notin 1..n /\ \A T \in Old : n + 1 \notin T
  OBVIOUS
<1>4. SUBSET (1..(n + 1)) = Old \cup New
  <2>1. 1..(n + 1) = (1..n) \cup {n + 1}
    OBVIOUS
  <2>2. ASSUME NEW U \in SUBSET (1..(n + 1)) PROVE U \in Old \cup New
    <3>1. CASE n + 1 \in U
      <4>1. U \ {n + 1} \in Old
        BY <2>1
      <4>2. U = (U \ {n + 1}) \cup {n + 1}
        BY <3>1
      <4> QED BY <4>1, <4>2
    <3>2. CASE n + 1 \notin U
      BY <2>1, <3>2
    <3> QED BY <3>1, <3>2
  <2>3. ASSUME NEW U \in Old \cup New PROVE U \in SUBSET (1..(n + 1))
    BY <2>1
  <2> QED BY <2>2, <2>3
<1>5. ExistsBijection(Old, New)
  <2> DEFINE f == [T \in Old |-> T \cup {n + 1}]
  <2>1. f \in [Old -> New] /\ \A U \in New : \E T \in Old : f[T] = U
    OBVIOUS
  <2>2. ASSUME NEW T \in Old, NEW U \in Old, f[T] = f[U] PROVE T = U
    BY <1>3, <2>2
  <2> HIDE DEF f, Old, New
  <2> QED BY <2>1, <2>2 DEF ExistsBijection, Bijection, Injection, Surjection, IsInjective
<1>6. Old \cap New = {}
  BY <1>3
<1> HIDE DEF Old, New
<1>7. IsFiniteSet(New) /\ Cardinality(New) = Cardinality(Old)
  BY <1>1, <1>5, FS_Bijection
<1>8. Cardinality(Old \cup New) = Cardinality(Old) + Cardinality(New)
  <2>1. Cardinality(Old \cup New) =
           Cardinality(Old) + Cardinality(New) - Cardinality(Old \cap New)
    BY <1>1, <1>7, FS_Union, Zenon
  <2>2. Cardinality(Old \cap New) = 0
    BY <1>6, FS_EmptySet, Zenon
  <2> QED BY <1>1, <1>2, <1>7, <2>1, <2>2
<1>9. Cardinality(Old \cup New) = 2^(n + 1)
  BY <1>1, <1>4, Zenon
<1> QED BY <1>1, <1>2, <1>7, <1>8, <1>9

(* A delay lies between the plain exponential and the next one, both capped,
   whichever of the two is the larger. *)
LEMMA DelayBounds ==
    ASSUME base \in Int, NEW a \in Nat, NEW jitter \in Jitters
    PROVE  /\ ComputeDelay(a, jitter) \in Int
           /\ Between(ComputeDelay(a, jitter), Capped(base * 2^a), Capped(base * 2^(a + 1)))
<1> DEFINE p == base * 2^a
           q == base * 2^(a + 1)
<1>1. /\ p \in Int /\ q = p + p
      /\ base >= 0 => p >= base
      /\ base < 0 => p <= base
  <2>1. ASSUME NEW e \in Nat, e >= 1
        PROVE  /\ base * e \in Int
               /\ base >= 0 => base * e >= base
               /\ base < 0 => base * e <= base
    BY <2>1
  <2>2. ASSUME NEW e \in Nat PROVE base * (e + e) = base * e + base * e
    OBVIOUS
  <2> QED BY <2>1, <2>2, PowersDouble
<1>2. /\ jitter \in Int
      /\ base > 0 => 0 <= jitter /\ jitter < base
      /\ base < 0 => jitter <= 0 /\ base < jitter
      /\ base = 0 => jitter = 0
  BY DEF Jitters
<1> HIDE DEF p, q
<1>3. /\ Capped(p + jitter) \in Int
      /\ Between(Capped(p + jitter), Capped(p), Capped(q))
  BY <1>1, <1>2 DEF Between, Capped, MaxDelay
<1> QED BY <1>3 DEF ComputeDelay, p, q

(* What timers make of delays that grow and can be run, and of negative ones. *)
LEMMA TimersGrow ==
    ASSUME NEW d \in Int, NEW e \in Int,
           \/ d <= e /\ e <= 2 * TimerMax
           \/ d < 0 /\ e < 0
    PROVE  Timer(d) <= Timer(e)
BY TimerMaxAssumption DEF Timer

(* A delay between two capped multiples of the base is capped itself, and the
   bounds have their order by the sign of the base. *)
LEMMA CappedBounds ==
    ASSUME base \in Int, NEW a \in Nat, NEW d \in Int,
           Between(d, Capped(base * 2^a), Capped(base * 2^(a + 1)))
    PROVE  /\ Capped(base * 2^a) \in Int /\ Capped(base * 2^(a + 1)) \in Int
           /\ d <= MaxDelay
           /\ base >= 0 => /\ Capped(base * 2^a) <= d
                           /\ d <= Capped(base * 2^(a + 1))
<1> DEFINE p == base * 2^a
           q == base * 2^(a + 1)
<1>1. /\ p \in Int /\ q = p + p
      /\ base >= 0 => p >= 0
  <2>1. ASSUME NEW e \in Nat PROVE base * e \in Int /\ (base >= 0 => base * e >= 0)
    OBVIOUS
  <2>2. ASSUME NEW e \in Nat PROVE base * (e + e) = base * e + base * e
    OBVIOUS
  <2> QED BY <2>1, <2>2, PowersDouble
<1>2. Between(d, Capped(p), Capped(q))
  OBVIOUS
<1> HIDE DEF p, q
<1>3. /\ Capped(p) \in Int /\ Capped(q) \in Int
      /\ d <= MaxDelay
      /\ base >= 0 => Capped(p) <= d /\ d <= Capped(q)
  BY <1>1, <1>2 DEF Between, Capped, MaxDelay
<1> QED BY <1>3 DEF p, q

----------------------------------------------------------------------------

CounterTypes ==
    /\ halves \in Halves
    /\ base \in BaseDelays
    /\ pc \in {"loop", "waiting", "returned", "thrown", "unexpected"}
    /\ attempt \in Nat
    /\ calls \in Nat

(* How the counters stand to the limit at each point of the loop: an attempt
   past the first is only reached from one that was strictly below the limit. *)
CountersAgree ==
    /\ pc \in {"loop", "unexpected"} =>
          calls = attempt /\ (attempt > 0 => 2 * (attempt - 1) < halves)
    /\ pc = "waiting" => calls = attempt + 1 /\ 2 * attempt < halves
    /\ pc = "returned" => calls = attempt + 1 /\ 2 * attempt <= halves
    /\ pc = "thrown" =>
          /\ calls = attempt + 1
          /\ 2 * attempt <= halves
          /\ lastError = "4xx" \/ 2 * attempt = halves
    /\ pc = "unexpected" => 2 * attempt > halves

(* One delay for each attempt that was followed by another, each within its
   bounds: that no delay is shorter than the one before follows from these. *)
DelaysAgree ==
    /\ delays \in Seq(Int)
    /\ Len(delays) = IF pc = "waiting" THEN attempt + 1 ELSE attempt
    /\ \A i \in 1..Len(delays) :
          Between(delays[i], Capped(base * 2^(i - 1)), Capped(base * 2^i))

IInv == CounterTypes /\ CountersAgree /\ DelaysAgree

LEMMA InitEstablishesIInv == Init => IInv
<1> SUFFICES ASSUME Init PROVE IInv
  OBVIOUS
<1>1. delays = << >> /\ Len(delays) = 0
  BY DEF Init
<1> QED BY <1>1 DEF Init, IInv, CounterTypes, CountersAgree, DelaysAgree

LEMMA StepPreservesCounters == IInv /\ [Next]_vars => CounterTypes' /\ CountersAgree'
<1> SUFFICES ASSUME IInv, [Next]_vars PROVE CounterTypes' /\ CountersAgree'
  OBVIOUS
<1> halves \in Int
  BY HalvesAssumption DEF IInv, CounterTypes
<1>1. CASE Succeed
  BY <1>1 DEF Succeed, LoopGoesOn, IInv, CounterTypes, CountersAgree
<1>2. ASSUME NEW error \in Errors, FailWith(error)
      PROVE  CounterTypes' /\ CountersAgree'
  <2>1. /\ pc = "loop" /\ 2 * attempt <= halves
        /\ calls' = calls + 1 /\ attempt' = attempt /\ halves' = halves /\ base' = base
        /\ lastError' = error
    BY <1>2 DEF FailWith, LoopGoesOn
  <2>2. CASE /\ IsLast(attempt) \/ ~ShouldRetry(error)
             /\ pc' = "thrown"
    BY <2>1, <2>2 DEF IsLast, ShouldRetry, IInv, CounterTypes, CountersAgree
  <2>3. CASE /\ ~IsLast(attempt)
             /\ pc' = "waiting"
    BY <2>1, <2>3 DEF IsLast, IInv, CounterTypes, CountersAgree
  <2> QED BY <1>2, <2>2, <2>3 DEF FailWith
<1>3. CASE NextAttempt
  BY <1>3 DEF NextAttempt, IInv, CounterTypes, CountersAgree
<1>4. CASE RunOut
  BY <1>4 DEF RunOut, LoopGoesOn, IInv, CounterTypes, CountersAgree
<1>5. CASE UNCHANGED vars
  BY <1>5 DEF vars, IInv, CounterTypes, CountersAgree
<1> QED BY <1>1, <1>2, <1>3, <1>4, <1>5 DEF Next

LEMMA StepPreservesDelays == IInv /\ [Next]_vars => DelaysAgree'
<1> SUFFICES ASSUME IInv, [Next]_vars PROVE DelaysAgree'
  OBVIOUS
<1> USE DEF IInv
<1>1. CASE Succeed
  BY <1>1 DEF Succeed, CounterTypes, CountersAgree, DelaysAgree, Between, Capped, MaxDelay
<1>2. ASSUME NEW error \in Errors, FailWith(error)
      PROVE  DelaysAgree'
  <2>1. /\ pc = "loop" /\ attempt' = attempt /\ attempt \in Nat
        /\ delays \in Seq(Int) /\ Len(delays) = attempt
        /\ calls' = calls + 1 /\ calls = attempt
        /\ base' = base /\ base \in Int
    BY <1>2, BaseDelaysAssumption DEF FailWith, CounterTypes, CountersAgree, DelaysAgree
  <2>2. CASE pc' = "thrown" /\ UNCHANGED delays
    BY <2>1, <2>2 DEF DelaysAgree, Between, Capped, MaxDelay
  <2>3. ASSUME pc' = "waiting", NEW jitter \in Jitters,
               delays' = Append(delays, ComputeDelay(attempt, jitter))
        PROVE  DelaysAgree'
    <3> DEFINE d == ComputeDelay(attempt, jitter)
    <3>1. /\ d \in Int
          /\ Between(d, Capped(base * 2^attempt), Capped(base * 2^(attempt + 1)))
      BY <2>1, DelayBounds
    <3> HIDE DEF d
    <3>2. /\ delays' \in Seq(Int) /\ Len(delays') = attempt + 1
          /\ delays'[attempt + 1] = d
          /\ \A i \in 1..attempt : delays'[i] = delays[i]
      BY <2>1, <2>3, <3>1 DEF d
    <3>3. \A i \in 1..Len(delays') :
             Between(delays'[i], Capped(base * 2^(i - 1)), Capped(base * 2^i))
      <4> SUFFICES ASSUME NEW i \in 1..(attempt + 1)
                   PROVE  Between(delays'[i], Capped(base * 2^(i - 1)), Capped(base * 2^i))
        BY <3>2
      <4>1. CASE i = attempt + 1
        <5>1. i - 1 = attempt
          BY <2>1, <4>1
        <5> QED BY <3>1, <3>2, <4>1, <5>1
      <4>2. CASE i \in 1..attempt
        BY <2>1, <3>2, <4>2 DEF DelaysAgree
      <4> QED BY <2>1, <4>1, <4>2
    <3> QED BY <2>1, <2>3, <3>2, <3>3 DEF DelaysAgree, Between, Capped, MaxDelay
  <2> QED BY <1>2, <2>2, <2>3 DEF FailWith
<1>3. CASE NextAttempt
  BY <1>3 DEF NextAttempt, CounterTypes, CountersAgree, DelaysAgree, Between, Capped, MaxDelay
<1>4. CASE RunOut
  BY <1>4 DEF RunOut, CounterTypes, CountersAgree, DelaysAgree, Between, Capped, MaxDelay
<1>5. CASE UNCHANGED vars
  BY <1>5 DEF vars, CounterTypes, CountersAgree, DelaysAgree, Between, Capped, MaxDelay
<1> QED BY <1>1, <1>2, <1>3, <1>4, <1>5 DEF Next

LEMMA StepPreservesIInv == IInv /\ [Next]_vars => IInv'
BY StepPreservesCounters, StepPreservesDelays DEF IInv

LEMMA IInvIsInvariant == Spec => []IInv
BY InitEstablishesIInv, StepPreservesIInv, PTL DEF Spec

----------------------------------------------------------------------------

(* executeWithRetry gives up on an error worth retrying after exactly
   floor(maxRetries) + 1 calls of the task, and after none if it is negative. *)
THEOREM RetriesAreExhausted == Spec => []GivesUpWhenExhausted
<1>1. IInv => GivesUpWhenExhausted
  <2> SUFFICES ASSUME IInv,
                      pc \in {"thrown", "unexpected"},
                      lastError # "4xx"
               PROVE  calls = IF halves < 0 THEN 0 ELSE halves \div 2 + 1
    BY DEF GivesUpWhenExhausted
  <2> halves \in Int /\ attempt \in Nat
    BY HalvesAssumption DEF IInv, CounterTypes
  <2>1. CASE pc = "thrown"
    BY <2>1 DEF IInv, CounterTypes, CountersAgree
  <2>2. CASE pc = "unexpected"
    BY <2>2 DEF IInv, CounterTypes, CountersAgree
  <2> QED BY <2>1, <2>2
<1> QED BY <1>1, IInvIsInvariant, PTL

(* At every moment, the loop has called the task at most floor(maxRetries) + 1
   times: it cannot run away, whatever the number the environment holds. *)
CallsBounded == calls <= IF halves < 0 THEN 0 ELSE halves \div 2 + 1

(* executeWithRetry never exceeds its retries, before it settles as little as
   after. *)
THEOREM CallsAreBounded == Spec => []CallsBounded
<1>1. IInv => CallsBounded
  <2> SUFFICES ASSUME IInv PROVE CallsBounded
    OBVIOUS
  <2>1. halves \in Int /\ attempt \in Nat /\ calls \in Nat
    BY HalvesAssumption DEF IInv, CounterTypes
  <2>2. \/ calls = 0
        \/ calls > 0 /\ 2 * (calls - 1) <= halves
    BY <2>1 DEF IInv, CounterTypes, CountersAgree
  <2> QED BY <2>1, <2>2 DEF CallsBounded
<1> QED BY <1>1, IInvIsInvariant, PTL

(* "Retry logic reached an unexpected state" is never thrown when maxRetries is
   a whole number that is not negative. *)
THEOREM UnexpectedStateOnlyIfNotWhole == Spec => []UnexpectedOnlyIfNotWhole
<1>1. IInv => UnexpectedOnlyIfNotWhole
  <2> SUFFICES ASSUME IInv, pc = "unexpected", halves >= 0
               PROVE  halves % 2 = 1
    BY HalvesAssumption DEF UnexpectedOnlyIfNotWhole, IInv, CounterTypes
  <2>1. attempt \in Nat /\ halves = 2 * (attempt - 1) + 1
    BY HalvesAssumption DEF IInv, CounterTypes, CountersAgree
  <2> QED BY <2>1
<1> QED BY <1>1, IInvIsInvariant, PTL

(* computeDelay's delays double with every retry whatever the jitter, up to the
   cap, for every base delay: each lies between the plain exponential and the
   next.  What the timers make of them never shrinks, for a negative base delay as
   for a positive one, as long as a timer can run the cap.  There is one wait
   between each call of the task and the next, none before the first or after the
   last. *)
THEOREM DelaysGrowHolds == Spec => []DelaysGrow
<1>1. IInv => DelaysGrow
  <2> SUFFICES ASSUME IInv PROVE DelaysGrow
    OBVIOUS
  <2>1. /\ base \in Int
        /\ delays \in Seq(Int)
        /\ \A i \in 1..Len(delays) :
              Between(delays[i], Capped(base * 2^(i - 1)), Capped(base * 2^i))
    BY BaseDelaysAssumption DEF IInv, CounterTypes, DelaysAgree
  <2>2. calls = Len(delays) + (IF pc \in {"returned", "thrown"} THEN 1 ELSE 0)
    BY DEF IInv, DelaysAgree, CountersAgree, CounterTypes
  <2>3. ASSUME NEW i \in 1..Len(delays)
        PROVE  /\ delays[i] \in Int
               /\ Capped(base * 2^(i - 1)) \in Int /\ Capped(base * 2^i) \in Int
               /\ delays[i] <= MaxDelay
               /\ base >= 0 => /\ Capped(base * 2^(i - 1)) <= delays[i]
                               /\ delays[i] <= Capped(base * 2^i)
    <3>1. i - 1 \in Nat /\ (i - 1) + 1 = i /\ delays[i] \in Int
      BY <2>1
    <3> QED BY <2>1, <3>1, CappedBounds
  <2>4. ASSUME MaxDelay <= 2 * TimerMax, NEW i \in 2..Len(delays)
        PROVE  Timer(delays[i - 1]) <= Timer(delays[i])
    <3>1. i \in 1..Len(delays) /\ i - 1 \in 1..Len(delays)
      BY <2>1
    <3>2. /\ delays[i - 1] \in Int /\ delays[i] \in Int
          /\ delays[i - 1] <= MaxDelay /\ delays[i] <= MaxDelay
      BY <2>3, <3>1
    <3>3. CASE base >= 0
      <4>1. delays[i - 1] <= Capped(base * 2^(i - 1)) /\ Capped(base * 2^(i - 1)) <= delays[i]
        BY <2>3, <3>1, <3>3
      <4>2. Capped(base * 2^(i - 1)) \in Int
        BY <2>3, <3>1
      <4>3. delays[i - 1] <= delays[i]
        BY <3>2, <4>1, <4>2
      <4>4. delays[i] <= 2 * TimerMax
        BY <2>1, <2>4, <3>2, TimerMaxAssumption DEF MaxDelay
      <4> QED BY <3>2, <4>3, <4>4, TimersGrow
    <3>4. CASE base < 0
      <4>1. delays[i - 1] < 0 /\ delays[i] < 0
        BY <2>1, <3>2, <3>4 DEF MaxDelay
      <4> QED BY <3>2, <4>1, TimersGrow
    <3> QED BY <2>1, <3>3, <3>4
  <2> QED BY <2>1, <2>2, <2>4 DEF DelaysGrow
<1> QED BY <1>1, IInvIsInvariant, PTL
=============================================================================
