--------------------------------- MODULE Timers ---------------------------------
(***************************************************************************)
(* The timers of ToyIP: a list of them, the operations on it, and the      *)
(* thread that ticks, walks over the list, runs the handlers of expired    *)
(* timers and frees what nobody refers to.  What a handler does belongs to *)
(* its user: TcpClose composes this module with the timers of a sock.      *)
(*                                                                         *)
(* lock protects the list against two changes at a time, but the walk does *)
(* not take it.  list_add_tail lets the walk reach the new timer before it *)
(* has a next one; half is a timer in that state.  That timer_add reads    *)
(* tick, then takes the lock, and is delayed in between is not modelled.   *)
(*                                                                         *)
(* tick and expires are 32 bits wide; TickMod stands for 2^32.  age and    *)
(* delay are history variables that do not wrap.                           *)
(***************************************************************************)
EXTENDS Integers, Sequences, FiniteSets

CONSTANTS
    MaxTimers,  \* bound on the timers that exist at a time
    TickMod     \* 2^32

ASSUME TimersAssumption == MaxTimers \in Nat /\ TickMod \in Nat \ {0}

TimerIds == 1..MaxTimers

VARIABLES
    tick,
    timers,     \* the list, as its timers in order
    half,       \* the timer being linked, or 0
    expires, refcnt, cancelled,
    tm_pc,      \* the timer thread
    item, tmp,  \* list_for_each_safe: a timer, 0 for the head, or "null"
    age, delay, \* history: ticks since timer_add, and its argument
    runs,       \* history: how often the handler was started
    tm_up       \* the timer thread has not followed a null pointer

walkVars  == <<tm_pc, item, tmp>>
timerVars == <<timers, half, expires, refcnt, cancelled, delay, runs>>
tmVars == <<tick, timerVars, walkVars, age, tm_up>>

TimersInit ==
    /\ tick \in 0..(TickMod - 1)
    /\ timers = << >> /\ half = 0
    /\ expires = [t \in TimerIds |-> 0]
    /\ refcnt = [t \in TimerIds |-> 0]
    /\ cancelled = [t \in TimerIds |-> FALSE]
    /\ tm_pc = "idle" /\ item = 0 /\ tmp = 0
    /\ age = [t \in TimerIds |-> 0] /\ delay = [t \in TimerIds |-> 0]
    /\ runs = [t \in TimerIds |-> 0]
    /\ tm_up = TRUE

Allocated == {timers[k] : k \in DOMAIN timers}

-----------------------------------------------------------------------------
(* The operations.  An action that uses one says what it leaves alone of   *)
(* the other variables.                                                    *)

(* lock is free: what else is done under it is one step.                   *)
LockFree == half = 0

Fields(t, d) ==
    /\ timers' = Append(timers, t)
    /\ refcnt' = [refcnt EXCEPT ![t] = 1]
    /\ expires' = [expires EXCEPT ![t] = (tick + d) % TickMod]
    /\ cancelled' = [cancelled EXCEPT ![t] = FALSE]
    /\ age' = [age EXCEPT ![t] = 0] /\ delay' = [delay EXCEPT ![t] = d]
    /\ runs' = [runs EXCEPT ![t] = 0]

(* Which block calloc returns does not matter: the free one of the least   *)
(* number.                                                                 *)
timer_alloc == {t \in TimerIds \ Allocated : 1..(t - 1) \subseteq Allocated}

(* timer_add up to the first statement of list_add_tail.                   *)
timer_add(t, d) ==
    /\ LockFree /\ t \in timer_alloc
    /\ Fields(t, d)
    /\ half' = t

list_add_tail ==
    /\ half # 0
    /\ half' = 0
    /\ UNCHANGED <<timers, refcnt, expires, cancelled, age, delay, runs>>

(* timer_add in the timer thread, which does not walk meanwhile.           *)
AddInHandler(t, d) ==
    /\ LockFree /\ t \in timer_alloc
    /\ Fields(t, d)
    /\ UNCHANGED half

Dropped(t) == [refcnt EXCEPT ![t] = @ - 1]

timer_release(t) ==
    /\ LockFree
    /\ refcnt' = IF t # 0 THEN Dropped(t) ELSE refcnt
    /\ UNCHANGED <<timers, half, expires, cancelled, age, delay, runs>>

KeepsReference(t) ==
    /\ LockFree
    /\ cancelled' = IF t # 0 THEN [cancelled EXCEPT ![t] = TRUE] ELSE cancelled
    /\ UNCHANGED <<timers, half, expires, refcnt, age, delay, runs>>

timer_cancel(t) ==
    /\ LockFree
    /\ refcnt' = IF t # 0 THEN Dropped(t) ELSE refcnt
    /\ cancelled' = IF t # 0 THEN [cancelled EXCEPT ![t] = TRUE] ELSE cancelled
    /\ UNCHANGED <<timers, half, expires, age, delay, runs>>

-----------------------------------------------------------------------------
(* The timer thread.                                                       *)

Null == -1

Position(t) == CHOOSE k \in DOMAIN timers : timers[k] = t

NextOf(t) ==
    IF t = half THEN Null
    ELSE IF Position(t) = Len(timers) THEN 0 ELSE timers[Position(t) + 1]

list_del(t) ==
    timers' = [k \in 1..(Len(timers) - 1) |->
                   IF k < Position(t) THEN timers[k] ELSE timers[k + 1]]

timers_start ==
    /\ tm_pc = "idle"
    /\ tick' = (tick + 1) % TickMod
    /\ age' = [t \in TimerIds |-> IF t \in Allocated /\ age[t] <= delay[t]
                                  THEN age[t] + 1 ELSE age[t]]
    /\ IF timers = << >> THEN UNCHANGED walkVars
       ELSE /\ item' = timers[1] /\ tmp' = NextOf(timers[1])
            /\ tm_pc' = "visit"
    /\ UNCHANGED <<timerVars, tm_up>>

ExpiredEarly(t) == expires[t] <= tick

Expired(t) == expires[t] < tick

Visit ==
    /\ tm_pc = "visit"
    /\ tm_pc' = IF ~cancelled[item] /\ Expired(item) THEN "mark" ELSE "after"
    /\ UNCHANGED <<tick, timerVars, item, tmp, age, tm_up>>

Mark ==
    /\ tm_pc = "mark"
    /\ cancelled' = [cancelled EXCEPT ![item] = TRUE]
    /\ runs' = [runs EXCEPT ![item] = @ + 1]
    /\ tm_pc' = "handler"
    /\ UNCHANGED <<tick, timers, half, expires, refcnt, delay, item, tmp, age,
                   tm_up>>

FreeableOnceFired(t) == runs[t] = 1 /\ refcnt[t] = 0

Freeable(t) == cancelled[t] /\ refcnt[t] = 0

(* timer_free gives up when the lock is taken, until the next tick.        *)
timer_free ==
    /\ tm_pc = "after"
    /\ IF Freeable(item) /\ LockFree
       THEN /\ list_del(item)
            /\ expires' = [expires EXCEPT ![item] = 0]
            /\ cancelled' = [cancelled EXCEPT ![item] = FALSE]
            /\ age' = [age EXCEPT ![item] = 0]
            /\ delay' = [delay EXCEPT ![item] = 0]
            /\ runs' = [runs EXCEPT ![item] = 0]
       ELSE UNCHANGED <<timers, expires, cancelled, age, delay, runs>>
    /\ tm_pc' = "next"
    /\ UNCHANGED <<tick, half, refcnt, item, tmp, tm_up>>

(* pos = p, p = pos->next.                                                 *)
Advance ==
    /\ tm_pc = "next"
    /\ \/ /\ tmp = Null
          /\ tm_up' = FALSE
          /\ UNCHANGED walkVars
       \/ /\ tmp = 0
          /\ tm_pc' = "idle" /\ item' = 0
          /\ UNCHANGED <<tmp, tm_up>>
       \/ /\ tmp \in TimerIds
          /\ tm_pc' = "visit" /\ item' = tmp /\ tmp' = NextOf(tmp)
          /\ UNCHANGED tm_up
    /\ UNCHANGED <<tick, timerVars, age>>

timers_tick == Visit \/ Mark \/ timer_free \/ Advance

-----------------------------------------------------------------------------

(* Type invariant.                                                         *)
TimersTypeOK ==
    /\ tick \in 0..(TickMod - 1)
    /\ timers \in Seq(TimerIds) /\ half \in TimerIds \cup {0}
    /\ expires \in [TimerIds -> 0..(TickMod - 1)]
    /\ refcnt \in [TimerIds -> {0, 1}] /\ cancelled \in [TimerIds -> BOOLEAN]
    /\ tm_pc \in {"idle", "visit", "mark", "handler", "after", "next"}
    /\ item \in TimerIds \cup {0} /\ tmp \in TimerIds \cup {0, Null}
    /\ age \in [TimerIds -> Nat] /\ delay \in [TimerIds -> Nat]
    /\ runs \in [TimerIds -> Nat] /\ tm_up \in BOOLEAN

(* The sum tick + expire does not fit.                                     *)
Wrapped(t) == expires[t] < delay[t]

(* A handler is started once at most and never before its time, and after  *)
(* a tick no timer is left whose time is over, whoever adds, cancels and   *)
(* releases during the walk.  Two do not keep their time: one whose        *)
(* expires wraps, which the code reports and runs at once, and one that    *)
(* expires at the last tick, which no tick is greater than (timer.c:38,    *)
(* timer.c:54).                                                            *)
FiresInTime ==
    \A t \in Allocated :
        /\ runs[t] <= 1
        /\ runs[t] = 1 => Wrapped(t) \/ age[t] > delay[t]
        /\ tm_pc = "idle" /\ ~cancelled[t] =>
               \/ age[t] <= delay[t]
               \/ Wrapped(t) \/ expires[t] = TickMod - 1
=============================================================================
