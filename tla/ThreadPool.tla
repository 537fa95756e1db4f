----------------------------- MODULE ThreadPool -----------------------------
(***************************************************************************)
(* The ThreadPool of include/thread_pool.h, which runs every batch of      *)
(* queries of the Gorgeous index.  The owner of the pool (the "server")    *)
(* publishes a task and raises one flag per thread; each thread runs the   *)
(* task, lowers its flag and decrements notify_cnt; the server spins until *)
(* notify_cnt is 0.  Nothing else orders the two sides, so the order of    *)
(* the stores on both sides is what makes a round a barrier.               *)
(*                                                                         *)
(* Every atomic load or store that another thread can see is a step of its *)
(* own.  Tasks are named by the number of their round.                     *)
(***************************************************************************)
EXTENDS Integers, FiniteSets

CONSTANTS NThreads,    \* n_threads_
          StartCores,  \* the values of start_core a pool is built with
          AsyncCores,  \* those whose owner also uses runTaskAsync/endTaskAsync
          Widths,      \* the n_parallel arguments of the calls, -1 included
          MaxRounds    \* bound on the number of calls, for model checking

ASSUME PoolAssumption ==
  /\ NThreads \in Nat \ {0}
  /\ StartCores \subseteq Nat
  /\ Widths \subseteq (-1)..NThreads
  /\ MaxRounds \in Nat

VARIABLES
  start_core_, \* 0 makes the server worker number 0
  spc,         \* where the server is, between two visible steps
  round,       \* calls made so far; also the name of the current task
  n_parallel,  \* width of the current call
  async,       \* the current call is runTaskAsync
  filled,      \* flags raised so far by std::fill_n
  task_,       \* the published task: NoTask, EmptyTask or a round
  notify_cnt,
  stop,
  activate,
  wpc,         \* where each thread is in start() / executeInOneTransaction()
  called,      \* the task each thread is calling (NoTask outside the call)
  runs         \* history: how often each thread ran the current round's task

vars == <<start_core_, spc, round, n_parallel, async, filled, task_,
          notify_cnt, stop, activate, wpc, called, runs>>
serverVars == <<start_core_, spc, round, n_parallel, async, filled, task_>>
workerVars == <<wpc, called, runs>>

Threads   == 0..(NThreads - 1)
NoTask    == -1   \* task_ = nullptr, as the constructor leaves it
EmptyTask == 0    \* a std::function holding nullptr: calling it throws

thread_0_is_worker_ == start_core_ = 0

\* The std::threads the constructor starts; the server stands for thread 0
\* when thread_0_is_worker_.
Workers == IF thread_0_is_worker_ THEN Threads \ {0} ELSE Threads

Width(n) == IF n = -1 THEN NThreads ELSE n
Participants == {t \in Threads : t < n_parallel}
-----------------------------------------------------------------------------
Init == /\ start_core_ \in StartCores
        /\ spc = "idle"
        /\ round = 0
        /\ n_parallel = 0
        /\ async = FALSE
        /\ filled = 0
        /\ task_ = NoTask
        /\ notify_cnt = 0
        /\ stop = FALSE
        /\ activate = [t \in Threads |-> FALSE]
        /\ wpc = [t \in Threads |-> IF t \in Workers THEN "poll" ELSE "off"]
        /\ called = [t \in Threads |-> NoTask]
        /\ runs = [t \in Threads |-> 0]

\* runTask / runTaskAsync: publish the task.
SetTask(n, a) ==
  /\ spc = "idle"
  /\ round < MaxRounds
  /\ spc' = "notify"
  /\ round' = round + 1
  /\ task_' = round + 1
  /\ n_parallel' = Width(n)
  /\ async' = a
  /\ filled' = 0
  /\ runs' = [t \in Threads |-> 0]
  /\ UNCHANGED <<start_core_, notify_cnt, stop, activate, wpc, called>>

\* notify_cnt.store(n_parallel)
SetNotify ==
  /\ spc = "notify"
  /\ notify_cnt' = n_parallel
  /\ spc' = "fill"
  /\ UNCHANGED <<start_core_, round, n_parallel, async, filled, task_, stop,
                 activate, workerVars>>

\* Faulty: std::fill_n runs one element too far.
FillActivate_OneTooMany ==
  /\ spc = "fill"
  /\ filled <= n_parallel
  /\ activate' = [activate EXCEPT ![filled] = TRUE]
  /\ filled' = filled + 1
  /\ UNCHANGED <<start_core_, spc, round, n_parallel, async, task_, notify_cnt,
                 stop, workerVars>>

\* One store of std::fill_n(activate.begin(), n_parallel, true).
FillActivate ==
  /\ spc = "fill"
  /\ filled < n_parallel
  /\ activate' = [activate EXCEPT ![filled] = TRUE]
  /\ filled' = filled + 1
  /\ UNCHANGED <<start_core_, spc, round, n_parallel, async, task_, notify_cnt,
                 stop, workerVars>>

\* After fill_n: runTaskAsync returns to its caller, who calls endTaskAsync
\* at once or later; runTask goes on to the server's own share.
EndFill ==
  /\ spc = "fill"
  /\ filled = n_parallel
  /\ spc' = IF async THEN "wait" ELSE "self"
  /\ UNCHANGED <<start_core_, round, n_parallel, async, filled, task_,
                 notify_cnt, stop, activate, workerVars>>

\* Faulty: the server never takes its own share.
RunSelf_Skipped ==
  /\ spc = "self"
  /\ spc' = "wait"
  /\ UNCHANGED <<start_core_, round, n_parallel, async, filled, task_,
                 notify_cnt, stop, activate, workerVars>>

\* if (thread_0_is_worker_) if (activate[0]) executeInOneTransaction(0)
RunSelf ==
  /\ spc = "self"
  /\ IF thread_0_is_worker_ /\ activate[0]
       THEN /\ spc' = "inline"
            /\ wpc' = [wpc EXCEPT ![0] = "call"]
       ELSE /\ spc' = "wait"
            /\ UNCHANGED wpc
  /\ UNCHANGED <<start_core_, round, n_parallel, async, filled, task_,
                 notify_cnt, stop, activate, called, runs>>

\* Faulty: the spin ends one decrement early.
Spin_EndsEarly ==
  /\ spc = "wait"
  /\ spc' = IF notify_cnt <= 1 \/ stop THEN "clear" ELSE "wait"
  /\ UNCHANGED <<start_core_, round, n_parallel, async, filled, task_,
                 notify_cnt, stop, activate, workerVars>>

\* while (notify_cnt > 0 && !stop) continue;
Spin ==
  /\ spc = "wait"
  /\ spc' = IF notify_cnt > 0 /\ ~stop THEN "wait" ELSE "clear"
  /\ UNCHANGED <<start_core_, round, n_parallel, async, filled, task_,
                 notify_cnt, stop, activate, workerVars>>

\* task_ = make_shared<function>(nullptr), and return to the caller.
ClearTask ==
  /\ spc = "clear"
  /\ task_' = EmptyTask
  /\ spc' = "idle"
  /\ UNCHANGED <<start_core_, round, n_parallel, async, filled, notify_cnt,
                 stop, activate, workerVars>>

\* ~ThreadPool: raise stop, ...
Destroy ==
  /\ spc = "idle"
  /\ stop' = TRUE
  /\ spc' = "join"
  /\ UNCHANGED <<start_core_, round, n_parallel, async, filled, task_,
                 notify_cnt, activate, workerVars>>

\* ... and join every worker.
JoinWorkers ==
  /\ spc = "join"
  /\ \A t \in Workers : wpc[t] = "exited"
  /\ spc' = "gone"
  /\ UNCHANGED <<start_core_, round, n_parallel, async, filled, task_,
                 notify_cnt, stop, activate, workerVars>>
-----------------------------------------------------------------------------
\* Faulty: the sleeping loop looks at the flag only.
Poll_IgnoresStop(t) ==
  /\ wpc[t] = "poll"
  /\ wpc' = [wpc EXCEPT ![t] = IF activate[t] THEN "woken" ELSE "poll"]
  /\ UNCHANGED <<serverVars, notify_cnt, stop, activate, called, runs>>

\* start(): one turn of the sleeping loop, while (!stop && !activate[tid]).
Poll(t) ==
  /\ wpc[t] = "poll"
  /\ wpc' = [wpc EXCEPT ![t] = IF stop \/ activate[t] THEN "woken" ELSE "poll"]
  /\ UNCHANGED <<serverVars, notify_cnt, stop, activate, called, runs>>

\* start(): if (stop) return;
CheckStop(t) ==
  /\ wpc[t] = "woken"
  /\ wpc' = [wpc EXCEPT ![t] = IF stop THEN "exited" ELSE "call"]
  /\ UNCHANGED <<serverVars, notify_cnt, stop, activate, called, runs>>

\* executeInOneTransaction: read task_ and enter it.
CallTask(t) ==
  /\ wpc[t] = "call"
  /\ called' = [called EXCEPT ![t] = task_]
  /\ runs' = [runs EXCEPT ![t] = @ + 1]
  /\ wpc' = [wpc EXCEPT ![t] = "lower"]
  /\ UNCHANGED <<serverVars, notify_cnt, stop, activate>>

\* Faulty: the flag is left up.
LowerFlag_Forgotten(t) ==
  /\ wpc[t] = "lower"
  /\ called' = [called EXCEPT ![t] = NoTask]
  /\ wpc' = [wpc EXCEPT ![t] = "dec"]
  /\ UNCHANGED <<serverVars, notify_cnt, stop, activate, runs>>

\* executeInOneTransaction: the task has returned; activate[tid] = false.
LowerFlag(t) ==
  /\ wpc[t] = "lower"
  /\ called' = [called EXCEPT ![t] = NoTask]
  /\ activate' = [activate EXCEPT ![t] = FALSE]
  /\ wpc' = [wpc EXCEPT ![t] = "dec"]
  /\ UNCHANGED <<serverVars, notify_cnt, stop, runs>>

\* executeInOneTransaction: notify_cnt--, then back to polling; the server
\* goes on in runTask.
Decrement(t) ==
  /\ wpc[t] = "dec"
  /\ notify_cnt' = notify_cnt - 1
  /\ wpc' = [wpc EXCEPT ![t] = IF t \in Workers THEN "poll" ELSE "off"]
  /\ spc' = IF t \in Workers THEN spc ELSE "wait"
  /\ UNCHANGED <<start_core_, round, n_parallel, async, filled, task_, stop,
                 activate, called, runs>>

\* Faulty: notify_cnt-- comes before the store to activate[tid], so that the
\* late store can wipe out the flag of the next round.
executeInOneTransaction_Swapped(t) ==
  \/ CallTask(t)
  \/ /\ wpc[t] = "lower"
     /\ called' = [called EXCEPT ![t] = NoTask]
     /\ notify_cnt' = notify_cnt - 1
     /\ wpc' = [wpc EXCEPT ![t] = "dec"]
     /\ UNCHANGED <<serverVars, stop, activate, runs>>
  \/ /\ wpc[t] = "dec"
     /\ activate' = [activate EXCEPT ![t] = FALSE]
     /\ wpc' = [wpc EXCEPT ![t] = IF t \in Workers THEN "poll" ELSE "off"]
     /\ spc' = IF t \in Workers THEN spc ELSE "wait"
     /\ UNCHANGED <<start_core_, round, n_parallel, async, filled, task_,
                    notify_cnt, stop, called, runs>>

executeInOneTransaction(t) == CallTask(t) \/ LowerFlag(t) \/ Decrement(t)

Worker(t) == Poll(t) \/ CheckStop(t) \/ executeInOneTransaction(t)

\* The steps runTask, endTaskAsync and the destructor take once called.
Server == \/ SetNotify \/ FillActivate \/ EndFill \/ RunSelf \/ Spin
          \/ ClearTask \/ JoinWorkers

Caller == \/ \E n \in Widths : SetTask(n, FALSE)
          \/ start_core_ \in AsyncCores /\ \E n \in Widths : SetTask(n, TRUE)
          \/ Destroy

\* The pool has been destroyed: nothing is left to run.
Gone == spc = "gone" /\ UNCHANGED vars

Next == Caller \/ Server \/ (\E t \in Threads : Worker(t)) \/ Gone

Spec == Init /\ [][Next]_vars

\* Every std::thread of the pool, and the server inside a call, keeps being
\* scheduled; nobody is bound to make another call.
Fairness == WF_vars(Server) /\ \A t \in Threads : WF_vars(Worker(t))
FairSpec == Spec /\ Fairness
-----------------------------------------------------------------------------
TypeOK ==
  /\ start_core_ \in StartCores
  /\ spc \in {"idle", "notify", "fill", "self", "inline", "wait", "clear",
              "join", "gone"}
  /\ round \in 0..MaxRounds
  /\ n_parallel \in 0..NThreads
  /\ async \in BOOLEAN
  /\ filled \in 0..n_parallel
  /\ task_ \in NoTask..MaxRounds
  /\ notify_cnt \in Int
  /\ stop \in BOOLEAN
  /\ activate \in [Threads -> BOOLEAN]
  /\ wpc \in [Threads -> {"off", "poll", "woken", "call", "lower", "dec",
                          "exited"}]
  /\ called \in [Threads -> NoTask..MaxRounds]
  /\ runs \in [Threads -> Nat]

\* A thread that is inside the task is inside the task of the round the
\* server is waiting for: never the null or emptied function
\* (executeInOneTransaction asserts the first), never the task of a round
\* whose runTask has returned and whose captured references are dead.
CallsCurrentTask ==
  \A t \in Threads :
    called[t] # NoTask => /\ called[t] = round
                          /\ round > 0
                          /\ spc \in {"fill", "self", "inline", "wait"}

\* When the server is past its wait, every thread of the round has run the
\* task exactly once, the others not at all, no flag is left up and the
\* counter is back at 0: the next round starts from a quiet pool.
RoundComplete ==
  spc \in {"clear", "idle", "join", "gone"} /\ round > 0 =>
    /\ \A t \in Threads : runs[t] = IF t \in Participants THEN 1 ELSE 0
    /\ \A t \in Threads : ~activate[t]
    /\ notify_cnt = 0

\* Every step of the pool is a step of the abstract fork-join, or none.
RoundOpen == spc \in {"notify", "fill", "self", "inline", "wait"}
Unrun     == IF RoundOpen THEN {t \in Participants : runs[t] = 0} ELSE {}
Inside    == {t \in Threads : called[t] # NoTask}
FJ == INSTANCE ForkJoin WITH open <- RoundOpen, pending <- Unrun,
                             running <- Inside
ImplementsForkJoin == FJ!FJSpec

\* A call of runTask (or runTaskAsync with its endTaskAsync) returns.
CallsReturn == (spc = "notify") ~> (spc = "idle")

\* The destructor returns: every worker leaves its loop.
DestructorReturns == (spc = "join") ~> (spc = "gone")
-----------------------------------------------------------------------------
(***************************************************************************)
(* The inductive strengthening of RoundComplete and CallsCurrentTask.      *)
(***************************************************************************)
Raising == spc \in {"fill", "self", "inline", "wait"}

\* The threads of the round whose decrement is still to come.
Owed == {t \in Participants : t >= filled \/ activate[t] \/ wpc[t] = "dec"}

ServerInv ==
  /\ spc \in {"idle", "clear", "join", "gone"} => Owed = {}
  /\ spc \in {"idle", "clear", "join", "gone", "notify"} => notify_cnt = 0
  /\ spc = "notify" => filled = 0
  /\ Raising => notify_cnt = Cardinality(Owed)
  /\ spc \notin {"notify", "fill"} => filled = n_parallel
  /\ Raising \/ spc = "notify" => round > 0 /\ task_ = round
  /\ stop <=> spc \in {"join", "gone"}

ThreadInv(t) ==
  /\ activate[t] => Raising /\ t < filled
  /\ wpc[t] \in {"call", "lower"} => activate[t]
  /\ wpc[t] = "dec" => Raising /\ t < filled /\ ~activate[t]
  /\ wpc[t] = "woken" => activate[t] \/ stop
  /\ wpc[t] = "exited" => stop
  /\ runs[t] = IF t < filled /\ (activate[t] => wpc[t] = "lower") THEN 1 ELSE 0
  /\ called[t] = IF wpc[t] = "lower" THEN round ELSE NoTask
  /\ wpc[t] = "off" => t \notin Workers
  /\ t \notin Workers => wpc[t] \in {"off", "call", "lower", "dec"}
                         /\ (wpc[t] # "off" <=> spc = "inline")

IInv == TypeOK /\ ServerInv /\ \A t \in Threads : ThreadInv(t)
=============================================================================
