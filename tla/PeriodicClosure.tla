-------------------------- MODULE PeriodicClosure --------------------------
(***************************************************************************)
(* PeriodicClosure (src/util/periodic_closure.cc) driven by a              *)
(* SimulatedClock (src/util/clock.cc).  The constructor starts the Run     *)
(* thread, which runs the closure, computes how long to sleep until the    *)
(* next period and sleeps through clock_->WaitOnCondVar; the destructor    *)
(* sets should_stop_ and keeps calling clock_->NotifyCondVar until Run     *)
(* sets did_stop_.  The main thread of a test advances the simulated time  *)
(* with AdvanceTime and eventually destroys the closure.                   *)
(*                                                                         *)
(* Time is in microseconds.  Run measures the sleep on the real steady     *)
(* clock: next_run_time - now is in 0 .. period after the catch-up loop;   *)
(* the model takes it from the constant set Waits.  There is one           *)
(* PeriodicClosure, so events_ holds the wake-up times of its single       *)
(* cond_var_.  Each mutex-protected SimulatedClock call is one step;       *)
(* should_stop_ and did_stop_ are plain bools read and written as single   *)
(* steps.  cond_var->wait blocks until a notify_one arrives while the      *)
(* thread waits; a notify_one with no waiter is lost.  The wait has no     *)
(* predicate, so it may also return spuriously (at most MaxSpurious times  *)
(* in a behaviour).  A failed CHECK aborts the process: both threads stop  *)
(* at "aborted".                                                           *)
(***************************************************************************)
EXTENDS Integers, FiniteSets

CONSTANTS
    Period,       \* period_, in microseconds
    Waits,        \* the microseconds Run can compute, within 0 .. period_
    Advances,     \* the arguments the test passes to AdvanceTime
    MaxAdvances,  \* bound on the number of AdvanceTime calls
    MaxSpurious   \* bound on spurious wake-ups of cond_var->wait

ASSUME Period > 0 /\ Waits \subseteq 0 .. Period   \* CHECK_GT(period, 0)

VARIABLES
    now,          \* SimulatedClock::now_
    events,       \* events_: the wake-up times registered for cond_var_
    should_stop,  \* should_stop_
    did_stop,     \* did_stop_
    rpc,          \* the Run thread's position
    mpc,          \* the main thread's position
    advances,     \* AdvanceTime calls so far
    spurious      \* spurious wake-ups so far

vars == <<now, events, should_stop, did_stop, rpc, mpc, advances, spurious>>

MaxNow == MaxAdvances * (IF Advances = {} THEN 0
                         ELSE CHOOSE a \in Advances : \A b \in Advances : a >= b)

\* notify_one on cond_var_: wakes the Run thread if it is in wait().
Wake == IF rpc = "waiting" THEN "top" ELSE rpc

Init ==
    /\ now = 0
    /\ events = {}
    /\ should_stop = FALSE /\ did_stop = FALSE
    /\ rpc = "top"
    /\ mpc = "test"
    /\ advances = 0
    /\ spurious = 0

\* Run: `while (!should_stop_)`; the body runs the closure and catches
\* next_run_time up; on exit, did_stop_ = true.
RunCheck ==
    /\ rpc = "top"
    /\ IF should_stop
       THEN /\ did_stop' = TRUE
            /\ rpc' = "done"
       ELSE /\ rpc' = "register"
            /\ UNCHANGED did_stop
    /\ UNCHANGED <<now, events, should_stop, mpc, advances, spurious>>

\* A bug class for WaitOnCondVar: microseconds are added to now_ without
\* the conversion to the clock's unit.
RunRegisterUnscaled ==
    /\ rpc = "register"
    /\ \E w \in Waits :
          /\ events' = events \cup {now + w * 1000000}
          /\ rpc' = "wait"
    /\ UNCHANGED <<now, should_stop, did_stop, mpc, advances, spurious>>

\* SimulatedClock::WaitOnCondVar, under mutex_: CHECK that the pair is
\* new and insert (now_ + microseconds, cond_var) into events_.  The pair
\* can be there already only when a spurious wake-up left it behind; the
\* failed CHECK aborts the process.
RunRegister ==
    /\ rpc = "register"
    /\ \E w \in Waits :
          IF now + w \in events
          THEN rpc' = "aborted" /\ mpc' = "aborted" /\ UNCHANGED events
          ELSE events' = events \cup {now + w} /\ rpc' = "wait" /\ UNCHANGED mpc
    /\ UNCHANGED <<now, should_stop, did_stop, advances, spurious>>

\* WaitOnCondVar, after releasing mutex_: cond_var->wait(*lock).
RunWait ==
    /\ rpc = "wait"
    /\ rpc' = "waiting"
    /\ UNCHANGED <<now, events, should_stop, did_stop, mpc, advances, spurious>>

\* cond_var->wait returns with no notify_one (a spurious wake-up); its
\* event stays in events_.
RunSpurious ==
    /\ rpc = "waiting" /\ spurious < MaxSpurious
    /\ rpc' = "top" /\ spurious' = spurious + 1
    /\ UNCHANGED <<now, events, should_stop, did_stop, mpc, advances>>

\* SimulatedClock::AdvanceTime(t): now_ += t, then notify_one and erase
\* every event due by the new now_, earliest first.
AdvanceTime(t) ==
    /\ mpc = "test" /\ advances < MaxAdvances
    /\ now' = now + t
    /\ events' = {e \in events : e > now + t}
    /\ rpc' = IF \E e \in events : e <= now + t THEN Wake ELSE rpc
    /\ advances' = advances + 1
    /\ UNCHANGED <<should_stop, did_stop, mpc, spurious>>

\* ~PeriodicClosure: should_stop_ = true.
Destroy ==
    /\ mpc = "test"
    /\ should_stop' = TRUE
    /\ mpc' = "notify"
    /\ UNCHANGED <<now, events, did_stop, rpc, advances, spurious>>

\* The destructor's clock_->NotifyCondVar(&cond_var_): under mutex_,
\* erase (and notify for) every event of cond_var_, then notify_one.
DestructorNotify ==
    /\ mpc = "notify"
    /\ events' = {}
    /\ rpc' = Wake
    /\ mpc' = "yield"
    /\ UNCHANGED <<now, should_stop, did_stop, advances, spurious>>

\* A bug class for the destructor: it notifies once and then only waits
\* for did_stop_, instead of notifying again on every iteration.
DestructorCheckNotifyOnce ==
    /\ mpc = "yield"
    /\ did_stop
    /\ mpc' = "done"
    /\ UNCHANGED <<now, events, should_stop, did_stop, rpc, advances, spurious>>

\* sched_yield(); `while (!did_stop_)` notifies again; once did_stop_ is
\* set, thread_.join() returns at once (Run has nothing left to do).
DestructorCheck ==
    /\ mpc = "yield"
    /\ mpc' = IF did_stop THEN "done" ELSE "notify"
    /\ UNCHANGED <<now, events, should_stop, did_stop, rpc, advances, spurious>>

\* The destructor has returned and the Run thread has exited, or the
\* process has aborted.
Finished ==
    /\ (mpc = "done" /\ rpc = "done") \/ rpc = "aborted"
    /\ UNCHANGED vars

RunThread  == RunCheck \/ RunRegister \/ RunWait
MainThread ==
    \/ \E t \in Advances : AdvanceTime(t)
    \/ Destroy \/ DestructorNotify \/ DestructorCheck

Next == RunThread \/ RunSpurious \/ MainThread \/ Finished

\* The OS runs both threads: each is weakly fair.  (Run in wait() is not
\* enabled until a notify wakes it; a spurious wake-up may happen, never
\* must.)
Spec == Init /\ [][Next]_vars /\ WF_vars(RunThread) /\ WF_vars(MainThread)

-----------------------------------------------------------------------------
Position == {"top", "register", "wait", "waiting", "done", "aborted"}

TypeOK ==
    /\ now \in 0 .. MaxNow
    /\ events \subseteq 0 .. MaxNow + Period
    /\ should_stop \in BOOLEAN /\ did_stop \in BOOLEAN
    /\ rpc \in Position
    /\ mpc \in {"test", "notify", "yield", "done", "aborted"}
    /\ advances \in 0 .. MaxAdvances
    /\ spurious \in 0 .. MaxSpurious

\* Once the destructor has returned, the SimulatedClock holds no event for
\* the destroyed cond_var_ (clock.h: the condition variable must stay valid
\* until its wait is notified), whatever the order in which the Run
\* thread's registration, its wake-ups and the destructor's notifications
\* interleaved.
NoDanglingEvent == mpc = "done" => events = {}

\* The destructor returns, unless the process aborts first: its notify
\* loop eventually wakes the Run thread, which sees should_stop_ and sets
\* did_stop_, even when a notification arrives before Run has started to
\* wait and is lost.
DestructorReturns == <>(mpc \in {"done", "aborted"})

\* While no destruction is under way, the Run thread asleep in
\* cond_var->wait always has its wake-up event registered, so a later
\* AdvanceTime past that time wakes it (clock.h: WaitOnCondVar waits
\* until notified or the timeout is reached).
NoLostWakeup == (rpc = "waiting" /\ ~should_stop) => events # {}

=============================================================================
