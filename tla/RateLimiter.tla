----------------------------- MODULE RateLimiter -----------------------------
(***************************************************************************)
(* The in-memory sliding-window limiter (server/src/middleware/            *)
(* rate_limit.rs) that login, wallet_nonce and execute ask before they do  *)
(* anything else.  check reads the clock BEFORE it takes the lock of its   *)
(* key's deque, so between the two other threads may stamp, take the lock, *)
(* prune and push: stamps can enter a deque out of order and an entry can  *)
(* be pruned by a later stamp than the one that is still to be judged.     *)
(***************************************************************************)
EXTENDS Naturals, Sequences

CONSTANTS
    Threads,    \* the runtime's workers, each inside one call of check at most
    Keys,       \* "login:{ip}", "siwe-nonce:{ip}", "intent:{user}"
    Limit,      \* requests per window (10)
    Window,     \* its length in ticks of the clock (60 s)
    MaxWait,    \* the longest wait for the lock, in ticks
    MaxClock    \* bound of the clock

ASSUME LimitAssumption == Limit \in Nat \ {0}
ASSUME TimeAssumption  == Window \in Nat /\ MaxWait \in Nat /\ MaxClock \in Nat

VARIABLES
    clock,      \* the monotonic clock
    thread,     \* thread[t] = its call of check: state, key and stamp
    log,        \* log[k]    = every stamp ever pushed for key k, in push order
    head        \* head[k]   = how many of these have been popped again: the
                \*             VecDeque is log[k][head[k] + 1 .. Len(log[k])]

vars == <<clock, thread, log, head>>

Verdict == {"idle", "waiting", "allowed", "denied"}

TypeOK ==
    /\ clock \in 0..MaxClock
    /\ thread \in [Threads -> [state : Verdict, key : Keys, now : 0..MaxClock]]
    /\ log \in [Keys -> Seq(0..MaxClock)]
    /\ head \in [Keys -> Nat]
    /\ \A k \in Keys : head[k] <= Len(log[k])

Init ==
    /\ clock = 0
    /\ thread \in [Threads -> [state : {"idle"}, key : Keys, now : {0}]]
    /\ log = [k \in Keys |-> <<>>]
    /\ head = [k \in Keys |-> 0]

(* Mutant: an entry exactly one window old is pruned. *)
Expired_Boundary(stamp, now) == stamp + Window <= now

(* Mutant: entries are kept for twice the window. *)
Expired_TwoWindows(stamp, now) == stamp + 2 * Window < now

(* now.duration_since(front) > self.window; duration_since saturates at 0. *)
Expired(stamp, now) == stamp + Window < now

(* The while loop of check: pops entries off the front until one is still  *)
(* within the window, whatever may be behind it.                           *)
Pruned(k, now, h) ==
    /\ \A j \in (head[k] + 1)..h : Expired(log[k][j], now)
    /\ h < Len(log[k]) => ~Expired(log[k][h + 1], now)

Returned(k, verdict) == [state |-> verdict, key |-> k, now |-> 0]

(* A request enters check and reads the clock. *)
Stamp(t, k) ==
    /\ thread[t].state # "waiting"
    /\ thread' = [thread EXCEPT ![t] = [state |-> "waiting", key |-> k, now |-> clock]]
    /\ UNCHANGED <<clock, log, head>>

(* The rest of check, under the lock: prune, compare, push. *)
Check(t) ==
    LET k   == thread[t].key
        now == thread[t].now
    IN  /\ thread[t].state = "waiting"
        /\ \E h \in head[k]..Len(log[k]) :
              /\ Pruned(k, now, h)
              /\ head' = [head EXCEPT ![k] = h]
              /\ IF Len(log[k]) - h >= Limit
                 THEN /\ thread' = [thread EXCEPT ![t] = Returned(k, "denied")]
                      /\ UNCHANGED log
                 ELSE /\ thread' = [thread EXCEPT ![t] = Returned(k, "allowed")]
                      /\ log' = [log EXCEPT ![k] = Append(@, now)]
        /\ UNCHANGED clock

(* Time passes; no thread waits for the lock longer than MaxWait. *)
Tick ==
    /\ clock < MaxClock
    /\ \A t \in Threads :
           thread[t].state = "waiting" => clock < thread[t].now + MaxWait
    /\ clock' = clock + 1
    /\ UNCHANGED <<thread, log, head>>

Next ==
    \/ \E t \in Threads : Check(t) \/ \E k \in Keys : Stamp(t, k)
    \/ Tick

Spec == Init /\ [][Next]_vars

-----------------------------------------------------------------------------
(* Properties                                                              *)

(* No deque ever holds more than Limit stamps, however the calls of check  *)
(* overlap.                                                                *)
DequeBounded == \A k \in Keys : Len(log[k]) - head[k] <= Limit

(* "10 req / 60s per key": of Limit + 1 requests let through one after the *)
(* other, the first and the last are more than a window apart, up to the   *)
(* time a thread waited for the lock.                                      *)
WindowKept ==
    \A k \in Keys : \A j \in 1..Len(log[k]) :
        j + Limit <= Len(log[k]) =>
            log[k][j] + Window < log[k][j + Limit] + MaxWait

(* A request is turned away only when Limit requests were let through no   *)
(* longer than a window (and a wait for the lock) before it: stamps that   *)
(* entered out of order keep nobody out for longer.                        *)
DeniedOnlyWhenFull ==
    [][\A t \in Threads :
           thread[t].state = "waiting" /\ thread'[t].state = "denied" =>
               LET k == thread[t].key IN
               /\ Len(log[k]) >= Limit
               /\ \A j \in 1..Len(log[k]) :
                      j + Limit > Len(log[k]) =>
                          thread[t].now <= log[k][j] + Window + MaxWait]_vars

-----------------------------------------------------------------------------
(* The inductive invariant                                                 *)

(* Stamps are not later than the clock, and those of waiting threads not   *)
(* older than the wait.                                                    *)
StampInv ==
    /\ \A t \in Threads : thread[t].state = "waiting" =>
           thread[t].now <= clock /\ clock <= thread[t].now + MaxWait
    /\ \A k \in Keys : \A j \in 1..Len(log[k]) : log[k][j] <= clock

(* Stamps are pushed in order up to the wait for the lock. *)
OrderInv ==
    \A k \in Keys : \A i, j \in 1..Len(log[k]) :
        i < j => log[k][i] <= log[k][j] + MaxWait

(* What was popped had expired by then, hence by now. *)
PoppedInv ==
    \A k \in Keys : \A j \in 1..head[k] : log[k][j] + Window < clock

IInv == TypeOK /\ StampInv /\ OrderInv /\ PoppedInv /\ DequeBounded /\ WindowKept

==============================================================================
