-------------------------- MODULE RateLimiterProofs --------------------------
(***************************************************************************)
(* RateLimiter for any number of threads and keys, any limit, window and   *)
(* wait for the lock.                                                      *)
(***************************************************************************)
EXTENDS RateLimiter, SequenceTheorems, TLAPS

(* Pushing a stamp keeps the others where they are. *)
LEMMA PushFacts ==
    ASSUME NEW s \in Seq(0..MaxClock), NEW now \in 0..MaxClock
    PROVE  /\ Append(s, now) \in Seq(0..MaxClock)
           /\ Len(s) \in Nat
           /\ Len(Append(s, now)) = Len(s) + 1
           /\ \A j \in 1..Len(s) : Append(s, now)[j] = s[j]
           /\ Append(s, now)[Len(s) + 1] = now
           /\ \A j \in 1..Len(s) : s[j] \in 0..MaxClock
<1>1. /\ Append(s, now) \in Seq(0..MaxClock)
      /\ Len(Append(s, now)) = Len(s) + 1
      /\ \A j \in 1..Len(s) : Append(s, now)[j] = s[j]
      /\ Append(s, now)[Len(s) + 1] = now
  BY AppendProperties
<1>2. Len(s) \in Nat /\ \A j \in 1..Len(s) : s[j] \in 0..MaxClock
  BY LenProperties, ElementOfSeq
<1> QED BY <1>1, <1>2

LEMMA IInvInit == Init => IInv
BY LimitAssumption, TimeAssumption
   DEF Init, IInv, TypeOK, StampInv, OrderInv, PoppedInv, DequeBounded, WindowKept, Verdict

(* A stamp read from the clock. *)
LEMMA StampStep ==
    ASSUME IInv, NEW t \in Threads, NEW k \in Keys, Stamp(t, k) PROVE IInv'
<1> USE TimeAssumption DEF IInv, Stamp
<1>1. TypeOK'
  BY DEF TypeOK, Verdict
<1>2. StampInv'
  BY DEF TypeOK, StampInv
<1>3. OrderInv' /\ PoppedInv' /\ DequeBounded' /\ WindowKept'
  BY DEF OrderInv, PoppedInv, DequeBounded, WindowKept
<1> QED BY <1>1, <1>2, <1>3

(* The clock advances. *)
LEMMA TickStep == ASSUME IInv, Tick PROVE IInv'
<1> USE TimeAssumption DEF IInv, Tick
<1>1. TypeOK'
  BY DEF TypeOK
<1>2. StampInv'
  BY DEF TypeOK, StampInv
<1>3. PoppedInv'
  BY DEF TypeOK, PoppedInv
<1>4. OrderInv' /\ DequeBounded' /\ WindowKept'
  BY DEF OrderInv, DequeBounded, WindowKept
<1> QED BY <1>1, <1>2, <1>3, <1>4

(* What check finds when it has pruned: everything it has popped, now or   *)
(* earlier, is more than a window before the clock.                        *)
LEMMA PruneFacts ==
    ASSUME IInv, NEW t \in Threads, thread[t].state = "waiting",
           NEW h \in head[thread[t].key]..Len(log[thread[t].key]),
           Pruned(thread[t].key, thread[t].now, h)
    PROVE  /\ h \in Nat /\ h <= Len(log[thread[t].key])
           /\ \A j \in 1..h : log[thread[t].key][j] + Window < clock
<1> DEFINE k == thread[t].key
<1>1. k \in Keys /\ thread[t].now \in 0..MaxClock
  BY DEF IInv, TypeOK
<1>2. head[k] \in Nat /\ Len(log[k]) \in Nat /\ clock \in Nat
  BY <1>1, PushFacts DEF IInv, TypeOK
<1>3. h \in Nat /\ h <= Len(log[k])
  BY <1>2
<1>4. ASSUME NEW j \in 1..h PROVE log[k][j] + Window < clock
  <2>1. log[k][j] \in 0..MaxClock
    BY <1>1, <1>2, <1>3, PushFacts DEF IInv, TypeOK
  <2>2. CASE j <= head[k]
    BY <1>1, <1>2, <2>2 DEF IInv, PoppedInv
  <2>3. CASE j > head[k]
    <3>1. log[k][j] + Window < thread[t].now
      BY <1>2, <1>3, <2>3 DEF Pruned, Expired
    <3>2. thread[t].now <= clock
      BY DEF IInv, StampInv
    <3> QED BY <1>1, <1>2, <2>1, <3>1, <3>2, TimeAssumption
  <2> QED BY <1>2, <1>3, <2>2, <2>3
<1> QED BY <1>3, <1>4

(* check denies: it has only pruned. *)
LEMMA DenyStep ==
    ASSUME IInv, NEW t \in Threads, NEW k \in Keys, k = thread[t].key,
           thread[t].state = "waiting",
           NEW h \in head[k]..Len(log[k]), Pruned(k, thread[t].now, h),
           head' = [head EXCEPT ![k] = h],
           thread' = [thread EXCEPT ![t] = Returned(k, "denied")],
           UNCHANGED <<clock, log>>
    PROVE  IInv'
<1> USE TimeAssumption DEF IInv
<1>1. /\ h \in Nat /\ h <= Len(log[k]) /\ head[k] \in Nat /\ head[k] <= h
      /\ Len(log[k]) \in Nat
      /\ \A j \in 1..h : log[k][j] + Window < clock
  BY PruneFacts, PushFacts DEF TypeOK
<1>2. TypeOK'
  BY <1>1 DEF TypeOK, Returned, Verdict
<1>3. StampInv'
  BY DEF TypeOK, StampInv, Returned
<1>4. PoppedInv'
  BY <1>1 DEF TypeOK, PoppedInv
<1>5. DequeBounded'
  BY <1>1, LimitAssumption DEF TypeOK, DequeBounded
<1>6. OrderInv' /\ WindowKept'
  BY DEF OrderInv, WindowKept
<1> QED BY <1>2, <1>3, <1>4, <1>5, <1>6

(* A push keeps a deque's stamps before the clock ... *)
LEMMA PushBefore ==
    ASSUME NEW s \in Seq(0..MaxClock), NEW now \in 0..MaxClock, NEW c \in 0..MaxClock,
           now <= c, \A j \in 1..Len(s) : s[j] <= c
    PROVE  \A j \in 1..Len(Append(s, now)) : Append(s, now)[j] <= c
BY PushFacts

(* ... in order up to the wait for the lock ... *)
LEMMA PushOrder ==
    ASSUME NEW s \in Seq(0..MaxClock), NEW now \in 0..MaxClock, NEW c \in 0..MaxClock,
           c <= now + MaxWait, \A j \in 1..Len(s) : s[j] <= c,
           \A i, j \in 1..Len(s) : i < j => s[i] <= s[j] + MaxWait
    PROVE  \A i, j \in 1..Len(Append(s, now)) :
               i < j => Append(s, now)[i] <= Append(s, now)[j] + MaxWait
<1> SUFFICES ASSUME NEW i \in 1..(Len(s) + 1), NEW j \in 1..(Len(s) + 1), i < j
             PROVE  Append(s, now)[i] <= Append(s, now)[j] + MaxWait
  BY PushFacts
<1>1. Len(s) \in Nat
  BY PushFacts
<1>2. i \in 1..Len(s) /\ Append(s, now)[i] = s[i] /\ s[i] \in 0..MaxClock
  BY <1>1, PushFacts
<1>3. CASE j \in 1..Len(s)
  BY <1>2, <1>3, PushFacts, TimeAssumption
<1>4. CASE j = Len(s) + 1
  BY <1>2, <1>4, PushFacts, TimeAssumption
<1> QED BY <1>1, <1>3, <1>4

(* ... and, where the deque is not full, Limit stamps to a window: the     *)
(* stamp Limit places before the new one was popped, so it is more than a  *)
(* window before the clock, and the new one is at most MaxWait behind it.  *)
LEMMA PushWindow ==
    ASSUME NEW s \in Seq(0..MaxClock), NEW now \in 0..MaxClock, NEW c \in 0..MaxClock,
           c <= now + MaxWait,
           NEW h \in 0..Len(s), Len(s) - h < Limit,
           \A j \in 1..h : s[j] + Window < c,
           \A j \in 1..Len(s) : j + Limit <= Len(s) =>
               s[j] + Window < s[j + Limit] + MaxWait
    PROVE  \A j \in 1..Len(Append(s, now)) : j + Limit <= Len(Append(s, now)) =>
               Append(s, now)[j] + Window < Append(s, now)[j + Limit] + MaxWait
<1> SUFFICES ASSUME NEW j \in 1..(Len(s) + 1), j + Limit <= Len(s) + 1
             PROVE  Append(s, now)[j] + Window < Append(s, now)[j + Limit] + MaxWait
  BY PushFacts
<1>1. Len(s) \in Nat
  BY PushFacts
<1>2. j \in 1..Len(s) /\ Append(s, now)[j] = s[j] /\ s[j] \in 0..MaxClock
  BY <1>1, PushFacts, LimitAssumption
<1>3. CASE j + Limit <= Len(s)
  <2>1. j + Limit \in 1..Len(s)
    BY <1>1, <1>3, LimitAssumption
  <2>2. Append(s, now)[j + Limit] = s[j + Limit]
    BY <2>1, PushFacts
  <2> QED BY <1>2, <1>3, <2>2
<1>4. CASE j + Limit = Len(s) + 1
  <2>1. j \in 1..h
    BY <1>1, <1>4, LimitAssumption
  <2>2. Append(s, now)[j + Limit] = now
    BY <1>4, PushFacts
  <2>3. s[j] + Window < c
    BY <2>1
  <2> QED BY <1>2, <2>2, <2>3, TimeAssumption
<1>5. j + Limit <= Len(s) \/ j + Limit = Len(s) + 1
  <2>1. j + Limit \in Nat
    BY <1>1, LimitAssumption
  <2>2. \A n, m \in Nat : m <= n + 1 => m <= n \/ m = n + 1
    OBVIOUS
  <2>3. j + Limit <= Len(s) + 1
    OBVIOUS
  <2> QED BY <1>1, <2>1, <2>2, <2>3
<1> QED BY <1>3, <1>4, <1>5

(* check admits: the stamp goes to the back of a deque that is not full. *)
LEMMA AdmitStep ==
    ASSUME IInv, NEW t \in Threads, NEW k \in Keys, k = thread[t].key,
           thread[t].state = "waiting",
           NEW h \in head[k]..Len(log[k]), Pruned(k, thread[t].now, h),
           Len(log[k]) - h < Limit,
           head' = [head EXCEPT ![k] = h],
           thread' = [thread EXCEPT ![t] = Returned(k, "allowed")],
           log' = [log EXCEPT ![k] = Append(log[k], thread[t].now)],
           UNCHANGED clock
    PROVE  IInv'
<1>1. /\ log[k] \in Seq(0..MaxClock) /\ head[k] \in Nat
      /\ thread[t].now \in 0..MaxClock /\ clock \in 0..MaxClock
      /\ thread[t].now <= clock /\ clock <= thread[t].now + MaxWait
  BY DEF IInv, TypeOK, StampInv
<1>2. /\ Len(log[k]) \in Nat
      /\ h \in 0..Len(log[k])
      /\ Len(Append(log[k], thread[t].now)) = Len(log[k]) + 1
      /\ Append(log[k], thread[t].now) \in Seq(0..MaxClock)
  BY <1>1, PushFacts
<1>3. \A j \in 1..h : log[k][j] + Window < clock
  BY PruneFacts
<1>4. log'[k] = Append(log[k], thread[t].now) /\ head'[k] = h
  BY DEF IInv, TypeOK
<1>5. \A q \in Keys \ {k} : log'[q] = log[q] /\ head'[q] = head[q]
  BY DEF IInv, TypeOK
<1>6. TypeOK'
  <2>1. thread' \in [Threads -> [state : Verdict, key : Keys, now : 0..MaxClock]]
    <3>1. Returned(k, "allowed") \in [state : Verdict, key : Keys, now : 0..MaxClock]
      BY TimeAssumption DEF Returned, Verdict
    <3> QED BY <3>1 DEF IInv, TypeOK
  <2>2. log' \in [Keys -> Seq(0..MaxClock)]
    BY <1>2 DEF IInv, TypeOK
  <2>3. head' \in [Keys -> Nat]
    BY <1>2 DEF IInv, TypeOK
  <2>4. \A q \in Keys : head'[q] <= Len(log'[q])
    <3>1. head'[k] <= Len(log'[k])
      BY <1>2, <1>4
    <3> QED BY <1>5, <3>1 DEF IInv, TypeOK
  <2> QED BY <1>1, <2>1, <2>2, <2>3, <2>4 DEF TypeOK
<1>7. StampInv'
  <2>1. \A j \in 1..Len(log'[k]) : log'[k][j] <= clock
    <3>1. \A j \in 1..Len(log[k]) : log[k][j] <= clock
      BY DEF IInv, StampInv
    <3> QED BY <1>1, <1>4, <3>1, PushBefore
  <2>2. \A q \in Keys : \A j \in 1..Len(log'[q]) : log'[q][j] <= clock
    BY <1>5, <2>1 DEF IInv, StampInv
  <2>3. \A r \in Threads : thread'[r].state = "waiting" => thread'[r] = thread[r]
    BY DEF IInv, TypeOK, Returned
  <2> QED BY <2>2, <2>3 DEF IInv, StampInv
<1>8. OrderInv'
  <2>1. \A i, j \in 1..Len(log'[k]) : i < j => log'[k][i] <= log'[k][j] + MaxWait
    BY <1>1, <1>4, PushOrder DEF IInv, StampInv, OrderInv
  <2> QED BY <1>5, <2>1 DEF IInv, OrderInv
<1>9. PoppedInv'
  <2>1. \A j \in 1..h : log'[k][j] + Window < clock
    BY <1>1, <1>2, <1>3, <1>4, PushFacts
  <2> QED BY <1>4, <1>5, <2>1 DEF IInv, PoppedInv
<1>10. DequeBounded'
  <2>1. Len(log'[k]) - head'[k] <= Limit
    BY <1>2, <1>4, LimitAssumption
  <2> QED BY <1>5, <2>1 DEF IInv, DequeBounded
<1>11. WindowKept'
  <2>1. \A j \in 1..Len(log'[k]) : j + Limit <= Len(log'[k]) =>
            log'[k][j] + Window < log'[k][j + Limit] + MaxWait
    BY <1>1, <1>2, <1>3, <1>4, PushWindow DEF IInv, WindowKept
  <2> QED BY <1>5, <2>1 DEF IInv, WindowKept
<1> QED BY <1>6, <1>7, <1>8, <1>9, <1>10, <1>11 DEF IInv

LEMMA IInvStep == IInv /\ [Next]_vars => IInv'
<1> SUFFICES ASSUME IInv, [Next]_vars PROVE IInv'
  OBVIOUS
<1>1. ASSUME NEW t \in Threads, Check(t) PROVE IInv'
  <2>1. thread[t].key \in Keys
    BY DEF IInv, TypeOK
  <2>2. PICK h \in head[thread[t].key]..Len(log[thread[t].key]) :
           /\ Pruned(thread[t].key, thread[t].now, h)
           /\ head' = [head EXCEPT ![thread[t].key] = h]
           /\ \/ /\ Len(log[thread[t].key]) - h >= Limit
                 /\ thread' = [thread EXCEPT ![t] = Returned(thread[t].key, "denied")]
                 /\ UNCHANGED log
              \/ /\ ~(Len(log[thread[t].key]) - h >= Limit)
                 /\ thread' = [thread EXCEPT ![t] = Returned(thread[t].key, "allowed")]
                 /\ log' = [log EXCEPT ![thread[t].key] =
                               Append(log[thread[t].key], thread[t].now)]
    BY <1>1 DEF Check
  <2>3. thread[t].state = "waiting" /\ UNCHANGED clock
    BY <1>1 DEF Check
  <2>4. CASE Len(log[thread[t].key]) - h >= Limit
    BY <2>1, <2>2, <2>3, <2>4, DenyStep
  <2>5. CASE ~(Len(log[thread[t].key]) - h >= Limit)
    <3>1. Len(log[thread[t].key]) - h < Limit
      BY <2>1, <2>5, LimitAssumption, PushFacts DEF IInv, TypeOK
    <3> QED BY <2>1, <2>2, <2>3, <2>5, <3>1, AdmitStep
  <2> QED BY <2>4, <2>5
<1>2. ASSUME NEW t \in Threads, NEW k \in Keys, Stamp(t, k) PROVE IInv'
  BY <1>2, StampStep
<1>3. CASE Tick
  BY <1>3, TickStep
<1>4. CASE UNCHANGED vars
  BY <1>4 DEF vars, IInv, TypeOK, StampInv, OrderInv, PoppedInv, DequeBounded, WindowKept
<1> QED BY <1>1, <1>2, <1>3, <1>4 DEF Next

THEOREM Invariance == Spec => []IInv
BY IInvInit, IInvStep, PTL DEF Spec

(* Every variable keeps its type. *)
THEOREM TypeCorrect == Spec => []TypeOK
<1>1. IInv => TypeOK
  BY DEF IInv
<1> QED BY <1>1, Invariance, PTL

(* The deques are bounded, for any number of racing threads. *)
THEOREM BoundTheorem == Spec => []DequeBounded
<1>1. IInv => DequeBounded
  BY DEF IInv
<1> QED BY <1>1, Invariance, PTL

(* What check finds when it denies: its deque holds Limit stamps or more,  *)
(* the oldest within the window, and no later one is older by more than    *)
(* the wait for the lock.                                                  *)
LEMMA DenyFacts ==
    ASSUME IInv, NEW t \in Threads, Check(t), thread'[t].state = "denied"
    PROVE  /\ Len(log[thread[t].key]) >= Limit
           /\ \A j \in 1..Len(log[thread[t].key]) :
                  j + Limit > Len(log[thread[t].key]) =>
                      thread[t].now <= log[thread[t].key][j] + Window + MaxWait
<1>1. PICK h \in head[thread[t].key]..Len(log[thread[t].key]) :
         /\ Pruned(thread[t].key, thread[t].now, h)
         /\ ~(Len(log[thread[t].key]) - h >= Limit) =>
                thread' = [thread EXCEPT ![t] = Returned(thread[t].key, "allowed")]
  BY DEF Check
<1>2. /\ thread[t].key \in Keys /\ thread[t].now \in 0..MaxClock
      /\ log[thread[t].key] \in Seq(0..MaxClock) /\ head[thread[t].key] \in Nat
  BY DEF IInv, TypeOK
<1>3. Len(log[thread[t].key]) - h >= Limit
  BY <1>1 DEF IInv, TypeOK, Returned
<1> DEFINE s == log[thread[t].key]
<1>4. Len(s) \in Nat /\ \A j \in 1..Len(s) : s[j] \in 0..MaxClock
  BY <1>2, PushFacts
<1>5. \A i, j \in 1..Len(s) : i < j => s[i] <= s[j] + MaxWait
  BY <1>2 DEF IInv, OrderInv
<1>6. h < Len(s) => ~(s[h + 1] + Window < thread[t].now)
  BY <1>1 DEF Pruned, Expired
<1>7. h \in Nat /\ Len(s) - h >= Limit
  BY <1>2, <1>3, <1>4
<1> HIDE DEF s
<1>8. Len(s) >= Limit /\ h + 1 \in 1..Len(s) /\ h < Len(s)
  BY <1>4, <1>7, LimitAssumption
<1>9. thread[t].now <= s[h + 1] + Window
  BY <1>2, <1>4, <1>6, <1>8, TimeAssumption
<1>10. ASSUME NEW j \in 1..Len(s), j + Limit > Len(s)
       PROVE  thread[t].now <= s[j] + Window + MaxWait
  <2>1. j = h + 1 \/ h + 1 < j
    BY <1>4, <1>7, <1>10, LimitAssumption
  <2>2. s[h + 1] <= s[j] + MaxWait
    BY <1>4, <1>5, <1>8, <2>1, TimeAssumption
  <2>3. s[j] \in Nat /\ s[h + 1] \in Nat /\ thread[t].now \in Nat
    BY <1>2, <1>4, <1>8
  <2> QED BY <1>9, <2>2, <2>3, TimeAssumption
<1> QED BY <1>8, <1>10 DEF s

(* Nobody is turned away for longer than a window and a wait. *)
THEOREM DenyTheorem == Spec => DeniedOnlyWhenFull
<1>1. IInv /\ [Next]_vars =>
         [\A t \in Threads :
              thread[t].state = "waiting" /\ thread'[t].state = "denied" =>
                  LET k == thread[t].key IN
                  /\ Len(log[k]) >= Limit
                  /\ \A j \in 1..Len(log[k]) :
                         j + Limit > Len(log[k]) =>
                             thread[t].now <= log[k][j] + Window + MaxWait]_vars
  <2> SUFFICES ASSUME IInv, Next, NEW t \in Threads,
                      thread[t].state = "waiting", thread'[t].state = "denied"
               PROVE  Check(t)
    BY DenyFacts
  <2>1. CASE Tick
    BY <2>1 DEF Tick
  <2>2. ASSUME NEW u \in Threads, NEW k \in Keys, Stamp(u, k) PROVE Check(t)
    BY <2>2 DEF Stamp, IInv, TypeOK
  <2>3. ASSUME NEW u \in Threads, Check(u) PROVE Check(t)
    <3>1. PICK v : thread' = [thread EXCEPT ![u] = v]
      BY <2>3 DEF Check
    <3> QED BY <2>3, <3>1 DEF IInv, TypeOK
  <2> QED BY <2>1, <2>2, <2>3 DEF Next
<1> QED BY <1>1, Invariance, PTL DEF Spec, DeniedOnlyWhenFull

(* Limit requests per window and key, up to the wait for the lock. *)
THEOREM WindowTheorem == Spec => []WindowKept
<1>1. IInv => WindowKept
  BY DEF IInv
<1> QED BY <1>1, Invariance, PTL

==============================================================================
