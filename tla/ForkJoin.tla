------------------------------ MODULE ForkJoin ------------------------------
(***************************************************************************)
(* What a caller of ThreadPool::runTask relies on.  A round forks one task *)
(* to a set of threads; each of them runs it once, in any order; the round *)
(* ends only when none is left to run it.  The search and set-up code of   *)
(* DecoIndex keeps references to the caller's stack in the task, so a      *)
(* thread that ran a task late, twice, or after the end of its round would *)
(* touch a frame that is gone.                                             *)
(***************************************************************************)
EXTENDS Naturals

CONSTANTS Threads,   \* the thread ids of the pool
          MaxRounds  \* bound on the number of rounds, for model checking

VARIABLES round,     \* number of the current or of the last round
          open,      \* TRUE from the call of runTask to its return
          pending,   \* the threads that have still to run this round's task
          running    \* the threads that are running it

fjVars == <<round, open, pending, running>>

FJInit == /\ round = 0
          /\ open = FALSE
          /\ pending = {}
          /\ running = {}

Fork(S) == /\ ~open
           /\ round < MaxRounds
           /\ round' = round + 1
           /\ open' = TRUE
           /\ pending' = S
           /\ UNCHANGED running

Begin(t) == /\ open
            /\ t \in pending
            /\ pending' = pending \ {t}
            /\ running' = running \cup {t}
            /\ UNCHANGED <<round, open>>

End(t) == /\ t \in running
          /\ running' = running \ {t}
          /\ UNCHANGED <<round, open, pending>>

Join == /\ open
        /\ pending = {}
        /\ running = {}
        /\ open' = FALSE
        /\ UNCHANGED <<round, pending, running>>

FJNext == \/ \E S \in SUBSET Threads : Fork(S)
          \/ \E t \in Threads : Begin(t) \/ End(t)
          \/ Join

FJSpec == FJInit /\ [][FJNext]_fjVars
=============================================================================
