-------------------------- MODULE RetryableProofs --------------------------
(***************************************************************************)
(* Proofs about the retry loop of Retryable, for all kinds, timeouts,     *)
(* sleeps and call durations.                                              *)
(***************************************************************************)
EXTENDS Retryable, TLAPS

\* The inductive strengthening of BoundedRetry: the timer is armed once,
\* at clock 0, with Window(timeout); before each call of f the clock is
\* within one sleep of the deadline, after a failed call within one sleep
\* and one call.
RetryInv ==
    /\ TypeOK
    /\ pc \in {"prepare", "start"} => clock = 0 /\ result = "none"
    /\ pc \in {"attempt", "select", "done"} => deadline = Window(timeout)
    /\ pc = "attempt" => clock < deadline + Sleep
    /\ pc \in {"select", "done"} => clock < deadline + Sleep + MaxAttempt

\* A timer's window is a natural number of seconds.
LEMMA WindowNat ==
    ASSUME NEW t \in Int
    PROVE  Window(t) \in Nat
  BY DEF Window

\* Every timeout a configuration can hold, before or after Prepare, is an
\* integer.
LEMMA TimeoutInt ==
    ASSUME NEW k, NEW t \in Timeouts \cup {DefaultTimeout}
    PROVE  /\ t \in Int
           /\ PreparedTimeout(k, t) \in Timeouts \cup {DefaultTimeout}
  BY RetryableAssumption DEF PreparedTimeout

\* The initial states satisfy RetryInv.
LEMMA InitRetryInv == Init => RetryInv
  BY RetryableAssumption DEF Init, RetryInv, TypeOK

\* Every step keeps RetryInv: one step per action of the loop.
LEMMA StepRetryInv == RetryInv /\ [Next]_vars => RetryInv'
  <1> SUFFICES ASSUME RetryInv, [Next]_vars PROVE RetryInv'
    OBVIOUS
  <1>0. /\ timeout \in Int /\ Window(timeout) \in Nat
        /\ Sleep \in Nat \ {0} /\ MaxAttempt \in Nat
    BY TimeoutInt, WindowNat, RetryableAssumption DEF RetryInv, TypeOK
  <1>1. CASE Prepare
    <2>1. timeout' \in Timeouts \cup {DefaultTimeout}
      BY <1>1, TimeoutInt DEF Prepare, RetryInv, TypeOK
    <2>2. QED
      BY <1>1, <2>1 DEF Prepare, RetryInv, TypeOK
  <1>2. CASE Start
    BY <1>2, <1>0 DEF Start, RetryInv, TypeOK
  <1>3. CASE Attempt
    <2>1. CASE pc' = "done" /\ result' = "ok" /\ UNCHANGED clock
      BY <1>3, <2>1, <1>0 DEF Attempt, RetryInv, TypeOK
    <2>2. CASE \E d \in 0..MaxAttempt :
                  /\ clock' = clock + d /\ pc' = "select" /\ UNCHANGED result
      BY <1>3, <2>2, <1>0 DEF Attempt, RetryInv, TypeOK
    <2>3. QED
      BY <1>3, <2>1, <2>2 DEF Attempt
  <1>4. CASE Select
    <2>1. CASE clock >= deadline
      BY <1>4, <2>1, <1>0 DEF Select, RetryInv, TypeOK
    <2>2. CASE clock < deadline
      BY <1>4, <2>2, <1>0 DEF Select, RetryInv, TypeOK
    <2>3. QED
      BY <2>1, <2>2 DEF RetryInv, TypeOK
  <1>5. CASE UNCHANGED vars
    BY <1>5 DEF vars, RetryInv, TypeOK
  <1>6. QED
    BY <1>1, <1>2, <1>3, <1>4, <1>5 DEF Next

\* Every reachable state of the retry loop satisfies RetryInv.
LEMMA AlwaysRetryInv == Spec => []RetryInv
  BY InitRetryInv, StepRetryInv, PTL DEF Spec

\* The retry loop keeps every variable within its type, for every set of
\* configured timeouts: a negative timeout never yields a deadline in the
\* past, since time.After fires at once.
THEOREM TypeCorrect == Spec => []TypeOK
  BY AlwaysRetryInv, PTL DEF RetryInv

\* retryable's backoff is bounded (spec.md 4.4): for every start timeout,
\* sleep and call duration, the loop ends its calls of f before one
\* sleep and one call past the timeout Prepare left.
THEOREM BoundedRetryTheorem == Spec => []BoundedRetry
  <1>1. RetryInv => BoundedRetry
    <2> SUFFICES ASSUME RetryInv, pc \in {"attempt", "select", "done"}
                 PROVE  clock < Window(timeout) + Sleep + MaxAttempt
      BY DEF BoundedRetry
    <2>1. Window(timeout) \in Nat /\ Sleep \in Nat /\ MaxAttempt \in Nat
      BY TimeoutInt, WindowNat, RetryableAssumption DEF RetryInv, TypeOK
    <2>2. QED
      BY <2>1 DEF RetryInv, TypeOK
  <1>2. QED
    BY <1>1, AlwaysRetryInv, PTL

=============================================================================
