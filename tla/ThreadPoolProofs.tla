-------------------------- MODULE ThreadPoolProofs --------------------------
(***************************************************************************)
(* Proofs about ThreadPool for every number of threads, every width of a   *)
(* call and every interleaving: the inductive invariant IInv, and from it  *)
(* the barrier property of runTask and the implementation of ForkJoin.     *)
(***************************************************************************)
EXTENDS ThreadPool, FiniteSetTheorems, TLAPS

\* The thread ids form a finite set, and so do the sets counted over them.
LEMMA ThreadsFinite ==
  /\ IsFiniteSet(Threads)
  /\ IsFiniteSet(Participants)
  /\ IsFiniteSet(Owed)
<1>1. IsFiniteSet(Threads)
  BY FS_Interval, PoolAssumption DEF PoolAssumption, Threads
<1>2. Participants \subseteq Threads /\ Owed \subseteq Threads
  BY DEF Participants, Owed
<1> QED BY <1>1, <1>2, FS_Subset

\* A call of width n wakes exactly n threads.
LEMMA ParticipantsCount ==
  ASSUME n_parallel \in 0..NThreads
  PROVE  Cardinality(Participants) = n_parallel
<1>1. Participants = 0..(n_parallel - 1)
  BY PoolAssumption DEF PoolAssumption, Participants, Threads
<1> QED BY <1>1, FS_Interval

\* A new pool satisfies the inductive invariant.
LEMMA InitIInv == Init => IInv
<1> SUFFICES ASSUME Init PROVE IInv
  OBVIOUS
<1> USE PoolAssumption DEF PoolAssumption, Init, Threads, NoTask, Workers,
             thread_0_is_worker_
<1>1. TypeOK
  <2>1. activate \in [Threads -> BOOLEAN]
    OBVIOUS
  <2>2. wpc \in [Threads -> {"off", "poll", "woken", "call", "lower", "dec",
                             "exited"}]
    OBVIOUS
  <2>3. called \in [Threads -> NoTask..MaxRounds]
    OBVIOUS
  <2>4. runs \in [Threads -> Nat]
    OBVIOUS
  <2>5. /\ round \in 0..MaxRounds /\ n_parallel \in 0..NThreads
        /\ filled \in 0..n_parallel /\ notify_cnt \in Int
    OBVIOUS
  <2>7. async \in BOOLEAN /\ stop \in BOOLEAN
    BY Zenon
  <2>6. task_ \in NoTask..MaxRounds
    OBVIOUS
  <2> QED BY <2>1, <2>2, <2>3, <2>4, <2>5, <2>6, <2>7 DEF TypeOK
<1>2. Owed = {}
  BY DEF Owed, Participants
<1>3. ServerInv
  BY <1>2 DEF ServerInv, Raising
<1>4. \A t \in Threads : ThreadInv(t)
  BY DEF ThreadInv, Raising
<1> QED BY <1>1, <1>3, <1>4 DEF IInv

\* Every access of the caller, the server and the workers preserves it.
LEMMA NextIInv == IInv /\ [Next]_vars => IInv'
<1> SUFFICES ASSUME IInv, [Next]_vars PROVE IInv'
  OBVIOUS
<1> USE PoolAssumption, ThreadsFinite
    DEF PoolAssumption, IInv, Threads, NoTask, EmptyTask, Workers,
        thread_0_is_worker_, serverVars, workerVars
<1>1. ASSUME NEW n \in Widths, NEW a \in BOOLEAN, SetTask(n, a) PROVE IInv'
  <2> USE <1>1 DEF SetTask
  <2>1. TypeOK'
    BY DEF TypeOK, Width
  <2>2. ~Raising'
    BY DEF TypeOK, ThreadInv, Owed, Participants, Raising
  <2>3. ServerInv'
    BY <2>2 DEF ServerInv, Raising, TypeOK
  <2>4. ASSUME NEW t \in Threads PROVE ThreadInv(t)'
    BY DEF ServerInv, ThreadInv, Raising, TypeOK
  <2> QED BY <2>1, <2>3, <2>4
<1>2. ASSUME SetNotify PROVE IInv'
  <2> USE <1>2 DEF SetNotify
  <2>1. TypeOK'
    BY DEF TypeOK, Width
  <2>2. Owed' = Participants
    BY DEF TypeOK, ServerInv, Owed, Participants
  <2>3. ServerInv'
    BY <2>2, ParticipantsCount DEF ServerInv, Raising, TypeOK
  <2>4. ASSUME NEW t \in Threads PROVE ThreadInv(t)'
    BY DEF ServerInv, ThreadInv, Raising, TypeOK
  <2> QED BY <2>1, <2>3, <2>4
<1>3. ASSUME FillActivate PROVE IInv'
  <2> USE <1>3 DEF FillActivate
  <2>1. TypeOK'
    BY DEF TypeOK, Width
  <2>2. Owed' = Owed
    BY DEF TypeOK, ThreadInv, Owed, Participants, Raising
  <2>3. ServerInv'
    BY <2>2 DEF ServerInv, Raising, TypeOK
  <2>4. ASSUME NEW t \in Threads PROVE ThreadInv(t)'
    BY DEF ServerInv, ThreadInv, Raising, TypeOK
  <2> QED BY <2>1, <2>3, <2>4
<1>4. ASSUME EndFill PROVE IInv'
  <2> USE <1>4 DEF EndFill
  <2>1. TypeOK'
    BY DEF TypeOK, Width
  <2>2. Owed' = Owed
    BY DEF TypeOK, ThreadInv, Owed, Participants, Raising
  <2>3. ServerInv'
    BY <2>2 DEF ServerInv, Raising, TypeOK
  <2>4. ASSUME NEW t \in Threads PROVE ThreadInv(t)'
    BY DEF ServerInv, ThreadInv, Raising, TypeOK
  <2> QED BY <2>1, <2>3, <2>4
<1>5. ASSUME RunSelf PROVE IInv'
  <2> USE <1>5 DEF RunSelf
  <2>1. TypeOK'
    BY DEF TypeOK, Width
  <2>2. Owed' = Owed
    BY DEF TypeOK, ThreadInv, Owed, Participants, Raising
  <2>3. ServerInv'
    BY <2>2 DEF ServerInv, Raising, TypeOK
  <2>4. ASSUME NEW t \in Threads PROVE ThreadInv(t)'
    BY DEF ServerInv, ThreadInv, Raising, TypeOK
  <2> QED BY <2>1, <2>3, <2>4
<1>6. ASSUME Spin PROVE IInv'
  <2> USE <1>6 DEF Spin
  <2>1. TypeOK'
    BY DEF TypeOK
  <2>2. Owed' = Owed
    BY DEF Owed, Participants
  <2>3. CASE notify_cnt > 0
    <3>1. spc' = "wait"
      BY <2>3 DEF ServerInv
    <3>2. ServerInv'
      BY <2>2, <3>1 DEF ServerInv, Raising
    <3>3. ASSUME NEW t \in Threads PROVE ThreadInv(t)'
      BY <3>1 DEF ThreadInv, Raising
    <3> QED BY <2>1, <3>2, <3>3
  <2>4. CASE ~(notify_cnt > 0)
    <3>1. spc' = "clear"
      BY <2>4
    <3>2. notify_cnt = Cardinality(Owed) /\ Cardinality(Owed) \in Nat
      BY FS_CardinalityType DEF ServerInv, Raising
    <3>3. notify_cnt = 0 /\ Owed = {}
      BY <2>4, <3>2, FS_EmptySet
    <3>4. ServerInv'
      BY <2>2, <3>1, <3>3 DEF ServerInv, Raising
    <3>5. ASSUME NEW t \in Threads PROVE ThreadInv(t)'
      <4>1. ThreadInv(t) /\ filled = n_parallel
        BY DEF ServerInv
      <4>2. ~(t < n_parallel /\ (activate[t] \/ wpc[t] = "dec"))
        BY <3>3 DEF Owed, Participants
      <4>3. ~activate[t] /\ wpc[t] # "dec"
        BY <4>1, <4>2 DEF ThreadInv
      <4> QED BY <3>1, <4>1, <4>3 DEF ThreadInv, Raising
    <3> QED BY <2>1, <3>4, <3>5
  <2> QED BY <2>3, <2>4
<1>7. ASSUME ClearTask PROVE IInv'
  <2> USE <1>7 DEF ClearTask
  <2>1. TypeOK'
    BY DEF TypeOK, Width
  <2>2. Owed' = Owed
    BY DEF TypeOK, ThreadInv, Owed, Participants, Raising
  <2>3. ServerInv'
    BY <2>2 DEF ServerInv, Raising, TypeOK
  <2>4. ASSUME NEW t \in Threads PROVE ThreadInv(t)'
    BY DEF ServerInv, ThreadInv, Raising, TypeOK
  <2> QED BY <2>1, <2>3, <2>4
<1>8. ASSUME Destroy PROVE IInv'
  <2> USE <1>8 DEF Destroy
  <2>1. TypeOK'
    BY DEF TypeOK, Width
  <2>2. Owed' = Owed
    BY DEF TypeOK, ThreadInv, Owed, Participants, Raising
  <2>3. ServerInv'
    BY <2>2 DEF ServerInv, Raising, TypeOK
  <2>4. ASSUME NEW t \in Threads PROVE ThreadInv(t)'
    BY DEF ServerInv, ThreadInv, Raising, TypeOK
  <2> QED BY <2>1, <2>3, <2>4
<1>9. ASSUME JoinWorkers PROVE IInv'
  <2> USE <1>9 DEF JoinWorkers
  <2>1. TypeOK'
    BY DEF TypeOK, Width
  <2>2. Owed' = Owed
    BY DEF TypeOK, ThreadInv, Owed, Participants, Raising
  <2>3. ServerInv'
    BY <2>2 DEF ServerInv, Raising, TypeOK
  <2>4. ASSUME NEW t \in Threads PROVE ThreadInv(t)'
    BY DEF ServerInv, ThreadInv, Raising, TypeOK
  <2> QED BY <2>1, <2>3, <2>4
<1>10. ASSUME NEW u \in Threads, Poll(u) PROVE IInv'
  <2> USE <1>10 DEF Poll
  <2>1. TypeOK'
    BY DEF TypeOK, Width
  <2>2. Owed' = Owed
    BY DEF TypeOK, ThreadInv, Owed, Participants, Raising
  <2>3. ServerInv'
    BY <2>2 DEF ServerInv, Raising, TypeOK
  <2>4. ASSUME NEW t \in Threads PROVE ThreadInv(t)'
    BY DEF ServerInv, ThreadInv, Raising, TypeOK
  <2> QED BY <2>1, <2>3, <2>4
<1>11. ASSUME NEW u \in Threads, CheckStop(u) PROVE IInv'
  <2> USE <1>11 DEF CheckStop
  <2>1. TypeOK'
    BY DEF TypeOK, Width
  <2>2. Owed' = Owed
    BY DEF TypeOK, ThreadInv, Owed, Participants, Raising
  <2>3. ServerInv'
    BY <2>2 DEF ServerInv, Raising, TypeOK
  <2>4. ASSUME NEW t \in Threads PROVE ThreadInv(t)'
    BY DEF ServerInv, ThreadInv, Raising, TypeOK
  <2> QED BY <2>1, <2>3, <2>4
<1>12. ASSUME NEW u \in Threads, CallTask(u) PROVE IInv'
  <2> USE <1>12 DEF CallTask
  <2>1. TypeOK'
    BY DEF TypeOK, Width
  <2>2. Owed' = Owed
    BY DEF TypeOK, ThreadInv, Owed, Participants, Raising
  <2>3. ServerInv'
    BY <2>2 DEF ServerInv, Raising, TypeOK
  <2>4. activate[u] /\ Raising /\ u < filled /\ task_ = round /\ runs[u] = 0
    BY DEF ServerInv, ThreadInv, Raising, TypeOK
  <2>5. ASSUME NEW t \in Threads PROVE ThreadInv(t)'
    <3>1. ThreadInv(t)
      OBVIOUS
    <3>2. CASE t = u
      BY <2>4, <3>1, <3>2 DEF ThreadInv, Raising, TypeOK
    <3>3. CASE t # u
      BY <3>1, <3>3 DEF ThreadInv, Raising, TypeOK
    <3> QED BY <3>2, <3>3
  <2> QED BY <2>1, <2>3, <2>5
<1>13. ASSUME NEW u \in Threads, LowerFlag(u) PROVE IInv'
  <2> USE <1>13 DEF LowerFlag
  <2>1. TypeOK'
    BY DEF TypeOK, Width
  <2>2. Owed' = Owed
    BY DEF TypeOK, ThreadInv, Owed, Participants, Raising
  <2>3. ServerInv'
    BY <2>2 DEF ServerInv, Raising, TypeOK
  <2>4. ASSUME NEW t \in Threads PROVE ThreadInv(t)'
    BY DEF ServerInv, ThreadInv, Raising, TypeOK
  <2> QED BY <2>1, <2>3, <2>4
<1>14. ASSUME NEW u \in Threads, Decrement(u) PROVE IInv'
  <2> USE <1>14 DEF Decrement
  <2>1. TypeOK'
    BY DEF TypeOK, Width
  <2>2. Owed' = Owed \ {u} /\ u \in Owed
    BY DEF TypeOK, ThreadInv, Owed, Participants, Raising
  <2>3. ServerInv'
    <3>1. Raising /\ Raising'
      BY DEF ThreadInv, Raising
    <3>2. Cardinality(Owed') = Cardinality(Owed) - 1
      BY <2>2, FS_RemoveElement
    <3>3. u \notin Workers => spc = "inline"
      BY DEF ThreadInv
    <3> QED BY <3>1, <3>2, <3>3 DEF ServerInv, Raising, TypeOK
  <2>4. ASSUME NEW t \in Threads PROVE ThreadInv(t)'
    BY DEF ServerInv, ThreadInv, Raising, TypeOK
  <2> QED BY <2>1, <2>3, <2>4
<1>15. CASE UNCHANGED vars
  <2> USE <1>15 DEF vars
  <2>1. TypeOK' /\ Owed' = Owed
    BY DEF TypeOK, Owed, Participants
  <2>2. ServerInv'
    BY <2>1 DEF ServerInv, Raising
  <2>3. ASSUME NEW t \in Threads PROVE ThreadInv(t)'
    BY DEF ThreadInv, Raising
  <2> QED BY <2>1, <2>2, <2>3
<1> QED
  BY <1>1, <1>2, <1>3, <1>4, <1>5, <1>6, <1>7, <1>8, <1>9, <1>10, <1>11, <1>12,
     <1>13, <1>14, <1>15
  DEF Next, Caller, Server, Worker, executeInOneTransaction, Gone

-----------------------------------------------------------------------------
\* The inductive invariant holds throughout, for every pool and every sequence
\* of calls: the facts below about task hand-over and rounds all follow from it.
THEOREM Invariance == Spec => []IInv
<1> QED BY InitIInv, NextIInv, PTL DEF Spec

\* Every variable keeps its type, for every pool and every sequence of calls.
THEOREM TypeCorrect == Spec => []TypeOK
<1>1. IInv => TypeOK
  BY DEF IInv
<1> QED BY <1>1, Invariance, PTL

\* No thread ever enters a null, emptied or outdated task.
THEOREM CurrentTask == Spec => []CallsCurrentTask
<1>1. IInv => CallsCurrentTask
  BY DEF IInv, TypeOK, ServerInv, ThreadInv, Raising, CallsCurrentTask
<1> QED BY <1>1, Invariance, PTL

\* The inductive invariant contains the barrier: nobody is inside after a round.
LEMMA IInvComplete == IInv => RoundComplete
<1> SUFFICES ASSUME IInv, spc \in {"clear", "idle", "join", "gone"}
             PROVE  /\ \A t \in Threads :
                         /\ runs[t] = IF t \in Participants THEN 1 ELSE 0
                         /\ ~activate[t]
                    /\ notify_cnt = 0
  BY DEF RoundComplete
<1>1. notify_cnt = 0 /\ filled = n_parallel
  BY DEF IInv, ServerInv
<1>2. ASSUME NEW t \in Threads PROVE ~activate[t]
  BY DEF IInv, ThreadInv, Raising
<1>3. ASSUME NEW t \in Threads
      PROVE  runs[t] = IF t \in Participants THEN 1 ELSE 0
  BY <1>1, <1>2 DEF IInv, ThreadInv, Participants
<1> QED BY <1>1, <1>2, <1>3

\* runTask is a barrier: when it returns, each thread of the round has run
\* the task exactly once and no flag or count is left for the next round.
THEOREM Barrier == Spec => []RoundComplete
<1> QED BY IInvComplete, Invariance, PTL

-----------------------------------------------------------------------------
\* A new pool is an idle fork-join.
LEMMA ForkJoinInit == Init => FJ!FJInit
<1> SUFFICES ASSUME Init PROVE FJ!FJInit
  OBVIOUS
<1>1. ~RoundOpen /\ round = 0
  BY DEF Init, RoundOpen
<1>2. Unrun = {} /\ Inside = {}
  BY <1>1 DEF Init, Unrun, Inside
<1> QED BY <1>1, <1>2 DEF FJ!FJInit

\* A step that moves none of the mapped variables is a stutter.
LEMMA ForkJoinStutter ==
  ASSUME round' = round, runs' = runs, called' = called,
         n_parallel' = n_parallel, RoundOpen' <=> RoundOpen
  PROVE  UNCHANGED FJ!fjVars
BY DEF FJ!fjVars, Unrun, Inside, Participants, RoundOpen

\* Every step of the pool is a step of the fork-join or leaves it alone.
LEMMA ForkJoinNext == IInv /\ [Next]_vars => [FJ!FJNext]_FJ!fjVars
<1> SUFFICES ASSUME IInv, [Next]_vars PROVE [FJ!FJNext]_FJ!fjVars
  OBVIOUS
<1> USE PoolAssumption
    DEF PoolAssumption, NoTask, EmptyTask, Workers, thread_0_is_worker_,
        serverVars, workerVars
<1>0. \A t \in Threads : called[t] # NoTask => RoundOpen /\ runs[t] = 1
  BY DEF IInv, ThreadInv, RoundOpen, Raising
<1>1. ASSUME NEW n \in Widths, NEW a \in BOOLEAN, SetTask(n, a)
      PROVE  FJ!Fork(Participants')
  <2>1. ~RoundOpen /\ RoundOpen' /\ round < MaxRounds /\ round' = round + 1
    BY <1>1 DEF SetTask, RoundOpen
  <2>2. Inside' = Inside
    BY <1>1 DEF SetTask, Inside
  <2>3. Unrun' = Participants'
    BY <1>1, <2>1 DEF SetTask, Unrun, Participants
  <2> QED BY <2>1, <2>2, <2>3 DEF FJ!Fork
<1>2. ASSUME NEW u \in Threads, CallTask(u) PROVE FJ!Begin(u)
  <2> USE <1>2 DEF CallTask
  <2>1. /\ Raising /\ u < filled /\ filled <= n_parallel
        /\ task_ = round /\ round > 0 /\ runs[u] = 0
    BY DEF IInv, TypeOK, ServerInv, ThreadInv, Raising, Threads
  <2>2. RoundOpen /\ RoundOpen' /\ UNCHANGED round
    BY <2>1 DEF RoundOpen, Raising
  <2>3. u \in Unrun
    BY <2>1, <2>2 DEF Unrun, Participants, IInv, TypeOK, Threads
  <2>4. Unrun' = Unrun \ {u}
    BY <2>1, <2>2 DEF Unrun, Participants, IInv, TypeOK
  <2>5. Inside' = Inside \cup {u}
    BY <2>1 DEF Inside, IInv, TypeOK
  <2> QED BY <2>2, <2>3, <2>4, <2>5 DEF FJ!Begin
<1>3. ASSUME NEW u \in Threads, LowerFlag(u) PROVE FJ!End(u)
  <2> USE <1>3 DEF LowerFlag
  <2>1. u \in Inside /\ Inside' = Inside \ {u}
    BY DEF Inside, IInv, TypeOK, ThreadInv
  <2>2. Unrun' = Unrun /\ UNCHANGED round /\ (RoundOpen' <=> RoundOpen)
    BY DEF Unrun, RoundOpen, Participants
  <2> QED BY <2>1, <2>2 DEF FJ!End, RoundOpen
<1>4. CASE Spin
  <2> USE <1>4 DEF Spin
  <2>1. CASE notify_cnt > 0 /\ ~stop
    BY <2>1, ForkJoinStutter DEF RoundOpen
  <2>2. CASE ~(notify_cnt > 0 /\ ~stop)
    <3>1. spc = "wait" /\ spc' = "clear" /\ IInv'
      BY <2>2, NextIInv
    <3>2. RoundOpen /\ ~RoundOpen' /\ ~Raising'
      BY <3>1 DEF RoundOpen, Raising
    <3>3. filled = n_parallel
      BY <3>1 DEF IInv, ServerInv
    <3>4. ASSUME NEW t \in Threads
          PROVE  ~activate[t] /\ called[t] = NoTask /\ (t < filled => runs[t] = 1)
      <4>1. ThreadInv(t)'
        BY <3>1 DEF IInv, Threads
      <4>2. ~activate[t] /\ wpc[t] # "lower"
        BY <3>2, <4>1 DEF ThreadInv
      <4> QED BY <4>1, <4>2 DEF ThreadInv
    <3>5. Unrun = {} /\ Unrun' = {}
      BY <3>2, <3>3, <3>4 DEF Unrun, Participants
    <3>6. Inside = {} /\ Inside' = {}
      BY <3>4 DEF Inside
    <3> QED BY <3>2, <3>5, <3>6 DEF FJ!Join, FJ!FJNext
  <2> QED BY <2>1, <2>2
<1>5. CASE \/ SetNotify \/ FillActivate \/ EndFill \/ RunSelf \/ ClearTask
          \/ JoinWorkers \/ Destroy \/ Gone \/ UNCHANGED vars
  BY <1>5, ForkJoinStutter
  DEF SetNotify, FillActivate, EndFill, RunSelf, ClearTask, JoinWorkers,
      Destroy, Gone, vars, RoundOpen
<1>6. ASSUME NEW u \in Threads, Poll(u) \/ CheckStop(u) \/ Decrement(u)
      PROVE  UNCHANGED FJ!fjVars
  <2>1. Decrement(u) => (RoundOpen /\ RoundOpen')
    BY DEF Decrement, IInv, ThreadInv, Raising, RoundOpen
  <2> QED BY <1>6, <2>1, ForkJoinStutter DEF Poll, CheckStop, Decrement, RoundOpen
<1>7. \A t \in Participants' : t \in Threads
  BY DEF Participants, Threads
<1> QED
  BY <1>1, <1>2, <1>3, <1>4, <1>5, <1>6, <1>7
  DEF Next, Caller, Server, Worker, executeInOneTransaction, FJ!FJNext

\* The pool implements the fork-join its callers rely on.
THEOREM PoolImplementsForkJoin == Spec => ImplementsForkJoin
<1> QED
  BY ForkJoinInit, ForkJoinNext, Invariance, PTL
  DEF Spec, ImplementsForkJoin, FJ!FJSpec

=============================================================================
