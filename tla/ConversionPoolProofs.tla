------------------------ MODULE ConversionPoolProofs ------------------------
(***************************************************************************)
(* ConversionPool for any number of calls, items and tokens: no token is   *)
(* lost or made, the queue and the load lock are what tasks and threads    *)
(* say, jobs settle once and alone, and a call that is over has left       *)
(* nothing behind.                                                         *)
(***************************************************************************)
EXTENDS ConversionPool, SeqFiltersProofs, FiniteSetTheorems

-----------------------------------------------------------------------------
(* The inductive invariant *)

\* A thread is not started before its job has a token.
NotStarted ==
  \A j \in Jobs : task[j] \in {"unused", "pending", "queued"} => thread[j] = "none"

\* A call that is idle has no jobs yet.
IdleUnused ==
  \A c \in Calls : call[c] = "idle" => \A j \in Jobs : j[1] = c => task[j] = "unused"

FiniteHolding == IsFiniteSet(Holding)

IInv ==
  /\ TypeOK /\ NotStarted /\ IdleUnused /\ FiniteHolding
  /\ TokensConserved /\ NothingLeftBehind

LEMMA JobFacts ==
  ASSUME NEW j \in Jobs
  PROVE  j # Free /\ j[1] \in Calls
BY PoolAssumption DEF Jobs, Free, Calls

LEMMA InitInvariant == Init => IInv
<1> SUFFICES ASSUME Init PROVE IInv
  OBVIOUS
<1>1. Holding = {}
  BY DEF Init, Holding
<1>2. IsFiniteSet(Holding) /\ Cardinality(Holding) = 0
  BY <1>1, FS_EmptySet
<1>3. QueueExact
  BY DEF Init, QueueExact, ToSet, IsInjective
<1>4. LoadsExclusive
  BY JobFacts DEF Init, LoadsExclusive
<1>5. TypeOK
  BY <1>3, <1>4 DEF Init, TypeOK, Settled, Ended
<1>6. NotStarted /\ IdleUnused /\ FiniteHolding
  BY <1>2 DEF Init, NotStarted, IdleUnused, FiniteHolding
<1>7. TokensConserved
  BY <1>2, PoolAssumption DEF Init, TokensConserved
<1>8. NothingLeftBehind
  BY DEF Init, NothingLeftBehind
<1> QED BY <1>5, <1>6, <1>7, <1>8 DEF IInv

-----------------------------------------------------------------------------
(* Tokens that are passed on *)

LEMMA MinOfTwo ==
  ASSUME NEW a \in Int, NEW b \in Int
  PROVE  /\ Min({a, b}) \in {a, b}
         /\ Min({a, b}) <= a
         /\ Min({a, b}) <= b
BY DEF Min

\* The first n elements of a sequence without repetitions are n elements, and
\* the rest is without repetitions and has all the others.
LEMMA Split ==
  ASSUME NEW S, NEW s \in Seq(S), NoRepeats(s), NEW n \in 0..Len(s)
  PROVE  /\ IsFiniteSet(ToSet(SubSeq(s, 1, n)))
         /\ Cardinality(ToSet(SubSeq(s, 1, n))) = n
         /\ ToSet(SubSeq(s, 1, n)) \subseteq Elements(s)
         /\ SubSeq(s, n + 1, Len(s)) \in Seq(S)
         /\ ToSet(SubSeq(s, n + 1, Len(s))) = Elements(s) \ ToSet(SubSeq(s, 1, n))
         /\ IsInjective(SubSeq(s, n + 1, Len(s)))
         /\ SubSeq(s, n + 1, Len(s)) # <<>> => n < Len(s)
<1> DEFINE a == SubSeq(s, 1, n)
           b == SubSeq(s, n + 1, Len(s))
<1>1. /\ a \in Seq(S) /\ Len(a) = n
      /\ \A i \in 1..n : a[i] = s[i]
  OBVIOUS
<1>2. /\ b \in Seq(S) /\ Len(b) = Len(s) - n
      /\ \A i \in 1..Len(b) : b[i] = s[n + i]
      /\ Elements(b) = {s[i] : i \in (n+1)..Len(s)}
  BY TailElements
<1> HIDE DEF a, b
<1>3. ToSet(a) = {s[i] : i \in 1..n} /\ ToSet(b) = {s[i] : i \in (n+1)..Len(s)}
  <2>1. DOMAIN a = 1..n /\ DOMAIN b = 1..Len(b)
    BY <1>1, <1>2
  <2>2. ToSet(b) = Elements(b)
    BY <2>1 DEF ToSet, Elements
  <2>3. ToSet(a) = {a[i] : i \in 1..n}
    BY <2>1 DEF ToSet
  <2>4. {a[i] : i \in 1..n} = {s[i] : i \in 1..n}
    BY <1>1
  <2> QED BY <1>2, <2>2, <2>3, <2>4
<1>4. IsFiniteSet(ToSet(a)) /\ Cardinality(ToSet(a)) = n
  <2>1. a \in Bijection(1..n, ToSet(a))
    <3>1. a \in [1..n -> ToSet(a)] /\ \A t \in ToSet(a) : \E i \in 1..n : a[i] = t
      BY <1>1, <1>3
    <3>2. ASSUME NEW i \in 1..n, NEW k \in 1..n, a[i] = a[k] PROVE i = k
      BY <1>1, <3>2 DEF NoRepeats
    <3>3. IsInjective(a)
      BY <3>1, <3>2 DEF IsInjective
    <3> QED BY <3>1, <3>3 DEF Bijection, Injection, Surjection
  <2>2. IsFiniteSet(1..n) /\ Cardinality(1..n) = n
    BY FS_Interval
  <2>3. ExistsBijection(1..n, ToSet(a))
    BY <2>1 DEF ExistsBijection
  <2> QED BY <2>2, <2>3, FS_Bijection
<1>5. ToSet(a) \subseteq Elements(s) /\ ToSet(b) = Elements(s) \ ToSet(a)
  BY <1>3 DEF Elements, NoRepeats
<1>6. IsInjective(b)
  BY <1>2, SMTT(30) DEF IsInjective, NoRepeats
<1>7. b # <<>> => n < Len(s)
  BY <1>2
<1> QED BY <1>2, <1>4, <1>5, <1>6, <1>7 DEF a, b
\* What SettleJobs does to jobs that have not settled: it settles those that
\* leave, hands tokens to some that were queued and are not leaving, changes
\* no other, and keeps the queue exact and the tokens conserved.
LEMMA Settling ==
  ASSUME IInv, tokens' = tokens, NEW outcome,
         \A j \in DOMAIN outcome : j \in Jobs /\ task[j] \notin Settled /\ outcome[j] \in Settled,
         SettleJobs(outcome)
  PROVE  /\ \E granted \in SUBSET Jobs :
              /\ \A j \in granted : task[j] = "queued" /\ j \notin DOMAIN outcome
              /\ task' = [j \in Jobs |-> IF j \in DOMAIN outcome THEN outcome[j]
                                         ELSE IF j \in granted THEN "running" ELSE task[j]]
              /\ thread' = [j \in Jobs |-> IF j \in granted THEN "ready" ELSE thread[j]]
         /\ queue' \in Seq(Jobs) /\ QueueExact'
         /\ FiniteHolding' /\ TokensConserved'
<1> DEFINE leaving == DOMAIN outcome
           waiting == Kept(queue, Jobs \ leaving)
           spare == tokens - Cardinality(Holding \ leaving)
           n == Min({spare, Len(waiting)})
           granted == ToSet(SubSeq(waiting, 1, n))
<1>1. /\ queue \in Seq(Jobs) /\ tokens \in Nat
      /\ Elements(queue) = {j \in Jobs : task[j] = "queued"}
      /\ NoRepeats(queue)
  <2>1. queue \in Seq(Jobs) /\ tokens \in Nat /\ QueueExact
    BY PoolAssumption DEF IInv, TypeOK
  <2>2. DOMAIN queue = 1..Len(queue)
    BY <2>1
  <2> QED BY <2>1, <2>2 DEF QueueExact, ToSet, Elements, IsInjective, NoRepeats
<1>2. /\ waiting \in Seq(Jobs) /\ NoRepeats(waiting)
      /\ Elements(waiting) = {j \in Jobs \ leaving : task[j] = "queued"}
  <2>1. waiting \in Seq(Jobs) /\ Elements(waiting) = Elements(queue) \cap (Jobs \ leaving)
    BY <1>1, KeptElements
  <2>2. NoRepeats(waiting)
    BY <1>1, KeptNoRepeats
  <2> QED BY <1>1, <2>1, <2>2
<1>3. /\ IsFiniteSet(Holding \ leaving)
      /\ Cardinality(Holding \ leaving) \in Nat
      /\ Cardinality(Holding \ leaving) <= tokens
  <2>1. IsFiniteSet(Holding) /\ Cardinality(Holding) <= tokens
    BY DEF IInv, FiniteHolding, TokensConserved
  <2>2. Cardinality(Holding) \in Nat
    BY <2>1, FS_CardinalityType
  <2>3. /\ IsFiniteSet(Holding \ leaving)
        /\ Cardinality(Holding \ leaving) <= Cardinality(Holding)
    BY <2>1, FS_Subset
  <2>4. Cardinality(Holding \ leaving) \in Nat
    BY <2>3, FS_CardinalityType
  <2> QED BY <1>1, <2>1, <2>2, <2>3, <2>4
<1>4. /\ queue' = SubSeq(waiting, n + 1, Len(waiting))
      /\ task' = [j \in Jobs |-> IF j \in leaving THEN outcome[j]
                                 ELSE IF j \in granted THEN "running" ELSE task[j]]
      /\ thread' = [j \in Jobs |-> IF j \in granted THEN "ready" ELSE thread[j]]
  BY DEF SettleJobs
<1> HIDE DEF waiting
<1>5. /\ spare \in Nat /\ Len(waiting) \in Nat
      /\ n \in 0..Len(waiting) /\ n <= spare
      /\ n < Len(waiting) => n = spare
  <2>1. spare \in Nat /\ Len(waiting) \in Nat
    BY <1>1, <1>2, <1>3
  <2> HIDE DEF spare
  <2>2. n \in {spare, Len(waiting)} /\ n <= spare /\ n <= Len(waiting)
    <3>1. spare \in Int /\ Len(waiting) \in Int
      BY <2>1
    <3> QED BY <3>1, MinOfTwo, Zenon
  <2> QED BY <2>1, <2>2
<1> HIDE DEF n, spare
<1>6. /\ IsFiniteSet(granted) /\ Cardinality(granted) = n
      /\ granted \subseteq Elements(waiting)
      /\ queue' \in Seq(Jobs) /\ IsInjective(queue')
      /\ ToSet(queue') = Elements(waiting) \ granted
      /\ queue' # <<>> => n < Len(waiting)
  BY <1>2, <1>4, <1>5, Split
<1> HIDE DEF granted
<1>7. \A j \in granted : j \in Jobs /\ task[j] = "queued" /\ j \notin leaving
  BY <1>2, <1>6
<1>8. \A j \in Jobs : task'[j] = IF j \in leaving THEN outcome[j]
                                 ELSE IF j \in granted THEN "running" ELSE task[j]
  BY <1>4
<1>9. QueueExact'
  <2>1. \A j \in leaving : outcome[j] # "queued"
    BY DEF Settled
  <2>2. {j \in Jobs : task'[j] = "queued"} = {j \in Jobs \ leaving : task[j] = "queued"} \ granted
    BY <1>8, <2>1
  <2> QED BY <1>2, <1>6, <2>2 DEF QueueExact
<1>10. FiniteHolding' /\ TokensConserved'
  <2>1. \A j \in leaving : outcome[j] # "running"
    BY DEF Settled
  <2>2. Holding' = (Holding \ leaving) \cup granted
    BY <1>7, <1>8, <2>1 DEF Holding
  <2>3. (Holding \ leaving) \cap granted = {}
    BY <1>7 DEF Holding
  <2>4. /\ IsFiniteSet(Holding')
        /\ Cardinality(Holding') = Cardinality(Holding \ leaving) + Cardinality(granted) - 0
    <3> DEFINE kept == Holding \ leaving
    <3>1. IsFiniteSet(kept) /\ IsFiniteSet(granted) /\ kept \cap granted = {}
      BY <1>3, <1>6, <2>3
    <3> HIDE DEF kept
    <3>2. /\ IsFiniteSet(kept \cup granted)
          /\ Cardinality(kept \cup granted)
               = Cardinality(kept) + Cardinality(granted) - Cardinality(kept \cap granted)
      BY <3>1, FS_Union
    <3>3. Cardinality(kept \cap granted) = 0
      BY <3>1, FS_EmptySet
    <3> QED BY <2>2, <3>2, <3>3 DEF kept
  <2>5. Cardinality(Holding') = Cardinality(Holding \ leaving) + n
    BY <1>3, <1>5, <1>6, <2>4
  <2>6. Cardinality(Holding') <= tokens /\ (n = spare => Cardinality(Holding') = tokens)
    BY <1>1, <1>3, <1>5, <2>5 DEF spare
  <2> QED BY <1>5, <1>6, <2>4, <2>6 DEF FiniteHolding, TokensConserved
<1> QED BY <1>4, <1>6, <1>7, <1>9, <1>10
-----------------------------------------------------------------------------
(* The steps *)

\* A step in which unsettled jobs settle, and whatever else their coroutines
\* do: a call may end if none of its jobs is left unsettled, and a job that
\* leaves with a link is stored.
LEMMA SettlingInvariant ==
  ASSUME IInv, tokens' = tokens, NEW outcome,
         \A j \in DOMAIN outcome :
           /\ j \in Jobs /\ task[j] \notin Settled \cup {"unused"}
           /\ outcome[j] \in Settled
         , SettleJobs(outcome), UNCHANGED lock,
         call' \in [Calls -> {"idle", "open", "rejected", "answered", "aborted"}],
         \A c \in Calls : call'[c] = "idle" => call[c] = "idle",
         \A c \in Calls : (call[c] \in {"idle", "open"} /\ call'[c] \notin {"idle", "open"})
           => \A j \in JobsOf(c) : task[j] \in Settled \/ j \in DOMAIN outcome,
         \A c \in Calls : call[c] \notin {"idle", "open"} => call'[c] = call[c],
         stored' = stored \cup {j \in DOMAIN outcome : outcome[j] = "link"}
  PROVE  IInv'
<1>1. PICK granted \in SUBSET Jobs :
              /\ \A j \in granted : task[j] = "queued" /\ j \notin DOMAIN outcome
              /\ task' = [j \in Jobs |-> IF j \in DOMAIN outcome THEN outcome[j]
                                         ELSE IF j \in granted THEN "running" ELSE task[j]]
              /\ thread' = [j \in Jobs |-> IF j \in granted THEN "ready" ELSE thread[j]]
  BY Settling
<1>2. queue' \in Seq(Jobs) /\ QueueExact' /\ FiniteHolding' /\ TokensConserved'
  BY Settling
<1>3. /\ tokens \in 1..MaxConcurrent
      /\ task \in [Jobs -> {"unused", "pending", "queued", "running"} \cup Settled]
      /\ thread \in [Jobs -> {"none", "ready", "waiting", "loading", "loaded"} \cup Ended]
      /\ lock \in Jobs \cup {Free} /\ stored \subseteq Jobs
      /\ LoadsExclusive /\ NotStarted /\ IdleUnused /\ NothingLeftBehind
  BY DEF IInv, TypeOK
<1>4. \A j \in granted : thread[j] = "none"
  BY <1>1, <1>3 DEF NotStarted
<1>5. LoadsExclusive'
  BY <1>1, <1>3, <1>4 DEF LoadsExclusive
<1>6. TypeOK'
  <2>1. task' \in [Jobs -> {"unused", "pending", "queued", "running"} \cup Settled]
    BY <1>1, <1>3
  <2>2. thread' \in [Jobs -> {"none", "ready", "waiting", "loading", "loaded"} \cup Ended]
    BY <1>1, <1>3
  <2>3. stored' \subseteq Jobs
    BY <1>3
  <2> QED BY <1>2, <1>3, <1>5, <2>1, <2>2, <2>3 DEF TypeOK
<1>7. NotStarted'
  <2> SUFFICES ASSUME NEW j \in Jobs, task'[j] \in {"unused", "pending", "queued"}
               PROVE  thread'[j] = "none"
    BY DEF NotStarted
  <2>1. j \notin DOMAIN outcome /\ j \notin granted /\ task'[j] = task[j]
    BY <1>1 DEF Settled
  <2> QED BY <1>1, <1>3, <2>1 DEF NotStarted
<1>8. IdleUnused'
  <2> SUFFICES ASSUME NEW c \in Calls, call'[c] = "idle", NEW j \in Jobs, j[1] = c
               PROVE  task'[j] = "unused"
    BY DEF IdleUnused
  <2>1. task[j] = "unused"
    BY <1>3 DEF IdleUnused
  <2> QED BY <1>1, <2>1
<1>9. NothingLeftBehind'
  <2>1. ASSUME NEW c \in Calls, call'[c] \notin {"idle", "open"},
               NEW j \in Jobs, j[1] = c, task'[j] # "unused"
        PROVE  task'[j] \in Settled
    <3>1. task[j] # "unused"
      BY <1>1, <2>1
    <3>2. task[j] \in Settled \/ j \in DOMAIN outcome
      BY <1>3, <2>1, <3>1 DEF JobsOf, NothingLeftBehind
    <3>3. task[j] # "queued" \/ j \in DOMAIN outcome
      BY <3>2 DEF Settled
    <3> QED BY <1>1, <3>2, <3>3
  <2>2. stored' = {j \in Jobs : task'[j] = "link"}
    <3>1. \A j \in DOMAIN outcome : task[j] # "link"
      BY DEF Settled
    <3>2. \A j \in Jobs : task'[j] = "link" <=>
            (task[j] = "link" \/ (j \in DOMAIN outcome /\ outcome[j] = "link"))
      BY <1>1, <3>1
    <3> QED BY <1>3, <3>2 DEF NothingLeftBehind
  <2> QED BY <2>1, <2>2 DEF NothingLeftBehind, JobsOf
<1> QED BY <1>2, <1>6, <1>7, <1>8, <1>9 DEF IInv
\* A step that changes calls, tasks and threads, but not who waits or holds.
LEMMA QuietInvariant ==
  ASSUME IInv, UNCHANGED <<tokens, queue, stored>>,
         \A j \in Jobs : task[j] # task'[j] =>
            task[j] \in {"unused", "pending"} /\ task'[j] \in {"pending", "error"},
         task' \in [Jobs -> {"unused", "pending", "queued", "running"} \cup Settled],
         call' \in [Calls -> {"idle", "open", "rejected", "answered", "aborted"}],
         thread' \in [Jobs -> {"none", "ready", "waiting", "loading", "loaded"} \cup Ended],
         lock' \in Jobs \cup {Free},
         LoadsExclusive', NotStarted', IdleUnused',
         \A c \in Calls :
           call'[c] \notin {"idle", "open"} => \A j \in JobsOf(c)' : task'[j] \in Settled
  PROVE  IInv'
<1>1. \A j \in Jobs : (task[j] = "queued" <=> task'[j] = "queued")
                   /\ (task[j] = "running" <=> task'[j] = "running")
                   /\ (task[j] = "link" <=> task'[j] = "link")
  OBVIOUS
<1>2. /\ {j \in Jobs : task[j] = "queued"} = {j \in Jobs : task'[j] = "queued"}
      /\ Holding' = Holding
      /\ {j \in Jobs : task[j] = "link"} = {j \in Jobs : task'[j] = "link"}
  BY <1>1 DEF Holding
<1>3. QueueExact'
  BY <1>2 DEF IInv, TypeOK, QueueExact
<1>4. TypeOK'
  BY <1>3 DEF IInv, TypeOK
<1>5. FiniteHolding' /\ TokensConserved'
  BY <1>2 DEF IInv, FiniteHolding, TokensConserved
<1>6. NothingLeftBehind'
  BY <1>2 DEF IInv, NothingLeftBehind
<1> QED BY <1>4, <1>5, <1>6 DEF IInv

\* A step of a thread that has been started.
LEMMA ThreadInvariant ==
  ASSUME IInv, UNCHANGED <<tokens, call, task, queue, stored>>,
         NEW j \in Jobs, thread[j] # "none",
         NEW next \in {"waiting", "loading", "loaded"} \cup Ended,
         thread' = [thread EXCEPT ![j] = next],
         \/ lock' = lock /\ thread[j] # "loading" /\ next # "loading"
         \/ lock = Free /\ lock' = j /\ next = "loading"
         \/ thread[j] = "loading" /\ lock' = Free /\ next # "loading"
  PROVE  IInv'
<1>1. /\ task \in [Jobs -> {"unused", "pending", "queued", "running"} \cup Settled]
      /\ thread \in [Jobs -> {"none", "ready", "waiting", "loading", "loaded"} \cup Ended]
      /\ call \in [Calls -> {"idle", "open", "rejected", "answered", "aborted"}]
      /\ lock \in Jobs \cup {Free}
      /\ LoadsExclusive /\ NotStarted /\ IdleUnused /\ NothingLeftBehind
  BY DEF IInv, TypeOK
<1>2. thread' \in [Jobs -> {"none", "ready", "waiting", "loading", "loaded"} \cup Ended]
  BY <1>1
<1>3. LoadsExclusive'
  BY <1>1, JobFacts DEF LoadsExclusive
<1>4. NotStarted' /\ IdleUnused'
  BY <1>1 DEF NotStarted, IdleUnused
<1>5. \A c \in Calls :
        call'[c] \notin {"idle", "open"} => \A k \in JobsOf(c)' : task'[k] \in Settled
  BY <1>1 DEF NothingLeftBehind, JobsOf
<1>6. lock' \in Jobs \cup {Free}
  BY <1>1
<1> QED BY <1>1, <1>2, <1>3, <1>4, <1>5, <1>6, QuietInvariant

LEMMA ThreadStepInvariant ==
  ASSUME IInv, UNCHANGED tokens, NEW j \in Jobs, ThreadStep(j)
  PROVE  IInv'
<1>1. CASE Arrive(j)
  BY <1>1, ThreadInvariant DEF Arrive
<1>2. CASE Lock(j)
  BY <1>2, ThreadInvariant DEF Lock
<1>3. CASE Unlock(j)
  <2>1. PICK next \in {"loaded", "failed"} : thread' = [thread EXCEPT ![j] = next]
    BY <1>3 DEF Unlock
  <2> QED BY <1>3, <2>1, ThreadInvariant DEF Unlock, Ended
<1>4. CASE Finish(j)
  <2>1. PICK result \in Ended : thread' = [thread EXCEPT ![j] = result]
    BY <1>4 DEF Finish
  <2> QED BY <1>4, <2>1, ThreadInvariant DEF Finish, Ended
<1> QED BY <1>1, <1>2, <1>3, <1>4 DEF ThreadStep

LEMMA AcceptInvariant ==
  ASSUME IInv, UNCHANGED tokens, NEW c \in Calls, NEW n \in 1..MaxBatch, Accept(c, n)
  PROVE  IInv'
<1>1. /\ task \in [Jobs -> {"unused", "pending", "queued", "running"} \cup Settled]
      /\ call \in [Calls -> {"idle", "open", "rejected", "answered", "aborted"}]
      /\ LoadsExclusive /\ NotStarted /\ IdleUnused /\ NothingLeftBehind
  BY DEF IInv, TypeOK
<1>2. \A j \in Jobs : j[1] = c => task[j] = "unused"
  BY <1>1 DEF Accept, IdleUnused
<1>3. \A j \in Jobs : task'[j] = IF j[1] = c /\ j[2] <= n THEN "pending" ELSE task[j]
  BY DEF Accept
<1>4. call' = [call EXCEPT ![c] = "open"] /\ UNCHANGED <<thread, lock, queue, stored>>
  BY DEF Accept
<1>5. task' \in [Jobs -> {"unused", "pending", "queued", "running"} \cup Settled]
  BY <1>1 DEF Accept
<1>6. LoadsExclusive' /\ NotStarted' /\ IdleUnused'
  BY <1>1, <1>2, <1>3, <1>4 DEF LoadsExclusive, NotStarted, IdleUnused
<1>7. ASSUME NEW d \in Calls, call'[d] \notin {"idle", "open"}
      PROVE  \A j \in JobsOf(d)' : task'[j] \in Settled
  BY <1>1, <1>3, <1>4, <1>7 DEF NothingLeftBehind, JobsOf
<1>8. /\ call' \in [Calls -> {"idle", "open", "rejected", "answered", "aborted"}]
      /\ thread' \in [Jobs -> {"none", "ready", "waiting", "loading", "loaded"} \cup Ended]
      /\ lock' \in Jobs \cup {Free}
  BY <1>4 DEF IInv, TypeOK
<1> QED BY <1>2, <1>3, <1>4, <1>5, <1>6, <1>7, <1>8, QuietInvariant

LEMMA UndecodableInvariant ==
  ASSUME IInv, UNCHANGED tokens, NEW j \in Jobs, Undecodable(j)
  PROVE  IInv'
<1>1. /\ task \in [Jobs -> {"unused", "pending", "queued", "running"} \cup Settled]
      /\ LoadsExclusive /\ NotStarted /\ IdleUnused /\ NothingLeftBehind
  BY DEF IInv, TypeOK
<1>2. /\ task[j] = "pending" /\ task' = [task EXCEPT ![j] = "error"]
      /\ UNCHANGED <<call, thread, lock, queue, stored>>
  BY DEF Undecodable
<1>3. task' \in [Jobs -> {"unused", "pending", "queued", "running"} \cup Settled]
  BY <1>1, <1>2 DEF Settled
<1>4. LoadsExclusive' /\ NotStarted' /\ IdleUnused'
  BY <1>1, <1>2 DEF LoadsExclusive, NotStarted, IdleUnused
<1>5. ASSUME NEW d \in Calls, call'[d] \notin {"idle", "open"}
      PROVE  \A k \in JobsOf(d)' : task'[k] \in Settled
  BY <1>1, <1>2, <1>5 DEF NothingLeftBehind, JobsOf, Settled
<1>6. /\ call' \in [Calls -> {"idle", "open", "rejected", "answered", "aborted"}]
      /\ thread' \in [Jobs -> {"none", "ready", "waiting", "loading", "loaded"} \cup Ended]
      /\ lock' \in Jobs \cup {Free}
  BY <1>2 DEF IInv, TypeOK
<1>7. \A k \in Jobs : task[k] # task'[k] =>
            task[k] \in {"unused", "pending"} /\ task'[k] \in {"pending", "error"}
  BY <1>1, <1>2
<1> QED BY <1>2, <1>3, <1>4, <1>5, <1>6, <1>7, QuietInvariant
LEMMA AnswerInvariant ==
  ASSUME IInv, UNCHANGED tokens, NEW c \in Calls, Reject(c) \/ Answer(c)
  PROVE  IInv'
<1>1. /\ task \in [Jobs -> {"unused", "pending", "queued", "running"} \cup Settled]
      /\ call \in [Calls -> {"idle", "open", "rejected", "answered", "aborted"}]
      /\ LoadsExclusive /\ NotStarted /\ IdleUnused /\ NothingLeftBehind
  BY DEF IInv, TypeOK
<1>2. UNCHANGED <<task, thread, lock, queue, stored>>
  BY DEF Reject, Answer
<1>3. PICK how \in {"rejected", "answered"} : call' = [call EXCEPT ![c] = how]
  BY DEF Reject, Answer
<1>4. \A j \in JobsOf(c) : task[j] \in Settled
  BY <1>1 DEF Reject, Answer, IdleUnused, JobsOf
<1>5. call' \in [Calls -> {"idle", "open", "rejected", "answered", "aborted"}]
  BY <1>1, <1>3
<1>6. LoadsExclusive' /\ NotStarted' /\ IdleUnused'
  BY <1>1, <1>2, <1>3 DEF LoadsExclusive, NotStarted, IdleUnused
<1>7. ASSUME NEW d \in Calls, call'[d] \notin {"idle", "open"}
      PROVE  \A k \in JobsOf(d)' : task'[k] \in Settled
  BY <1>1, <1>2, <1>3, <1>4, <1>7 DEF NothingLeftBehind, JobsOf
<1>8. /\ task' \in [Jobs -> {"unused", "pending", "queued", "running"} \cup Settled]
      /\ thread' \in [Jobs -> {"none", "ready", "waiting", "loading", "loaded"} \cup Ended]
      /\ lock' \in Jobs \cup {Free}
  BY <1>2 DEF IInv, TypeOK
<1> QED BY <1>2, <1>5, <1>6, <1>7, <1>8, QuietInvariant

\* The queue after a job was put at its end.
LEMMA Queued ==
  ASSUME IInv, NEW j \in Jobs, task[j] = "pending",
         task' = [task EXCEPT ![j] = "queued"], queue' = Append(queue, j)
  PROVE  queue' \in Seq(Jobs) /\ QueueExact' /\ queue' # <<>>
<1>1. /\ queue \in Seq(Jobs) /\ QueueExact
      /\ task \in [Jobs -> {"unused", "pending", "queued", "running"} \cup Settled]
  BY DEF IInv, TypeOK
<1>2. DOMAIN queue = 1..Len(queue) /\ DOMAIN queue' = 1..Len(queue')
  BY <1>1
<1>3. ToSet(queue) = Elements(queue) /\ ToSet(queue') = Elements(queue')
  BY <1>2 DEF ToSet, Elements
<1>4. j \notin Elements(queue)
  BY <1>1, <1>3 DEF QueueExact
<1>5. queue' \in Seq(Jobs) /\ Elements(queue') = Elements(queue) \cup {j}
  BY <1>1, AppendElements
<1>6. NoRepeats(queue')
  <2>1. NoRepeats(queue)
    BY <1>1, <1>2 DEF QueueExact, IsInjective, NoRepeats
  <2> QED BY <1>1, <1>4, <2>1, AppendNoRepeats
<1>7. IsInjective(queue')
  BY <1>2, <1>6 DEF IsInjective, NoRepeats
<1>8. {k \in Jobs : task'[k] = "queued"} = {k \in Jobs : task[k] = "queued"} \cup {j}
  BY <1>1
<1>9. queue' # <<>>
  BY <1>1
<1> QED BY <1>1, <1>3, <1>5, <1>7, <1>8, <1>9 DEF QueueExact

LEMMA EnterInvariant ==
  ASSUME IInv, UNCHANGED tokens, NEW j \in Jobs, Enter(j)
  PROVE  IInv'
<1>1. /\ tokens \in 1..MaxConcurrent
      /\ task \in [Jobs -> {"unused", "pending", "queued", "running"} \cup Settled]
      /\ thread \in [Jobs -> {"none", "ready", "waiting", "loading", "loaded"} \cup Ended]
      /\ call \in [Calls -> {"idle", "open", "rejected", "answered", "aborted"}]
      /\ lock \in Jobs \cup {Free} /\ stored \subseteq Jobs
      /\ queue \in Seq(Jobs) /\ QueueExact
      /\ LoadsExclusive /\ NotStarted /\ IdleUnused /\ NothingLeftBehind
      /\ IsFiniteSet(Holding) /\ TokensConserved
  BY DEF IInv, TypeOK, FiniteHolding
<1>2. task[j] = "pending" /\ thread[j] = "none" /\ UNCHANGED <<call, lock, stored>>
  BY <1>1 DEF Enter, NotStarted
<1>3. Cardinality(Holding) \in Nat
  BY <1>1, FS_CardinalityType
<1>4. CASE queue = <<>> /\ Cardinality(Holding) < tokens
  <2>1. /\ task' = [task EXCEPT ![j] = "running"]
        /\ thread' = [thread EXCEPT ![j] = "ready"]
        /\ queue' = queue
    BY <1>4 DEF Enter
  <2>2. Holding' = Holding \cup {j} /\ j \notin Holding
    BY <1>1, <1>2, <2>1 DEF Holding
  <2>3. IsFiniteSet(Holding') /\ Cardinality(Holding') = Cardinality(Holding) + 1
    BY <1>1, <2>2, FS_AddElement
  <2>4. FiniteHolding' /\ TokensConserved'
    BY <1>1, <1>3, <1>4, <2>1, <2>3, PoolAssumption DEF FiniteHolding, TokensConserved
  <2>5. LoadsExclusive' /\ NotStarted' /\ IdleUnused'
    BY <1>1, <1>2, <2>1 DEF LoadsExclusive, NotStarted, IdleUnused
  <2>6. QueueExact'
    <3>1. {k \in Jobs : task'[k] = "queued"} = {k \in Jobs : task[k] = "queued"}
      BY <1>1, <1>2, <2>1
    <3> QED BY <1>1, <2>1, <3>1 DEF QueueExact
  <2>7. TypeOK'
    BY <1>1, <1>2, <2>1, <2>5, <2>6 DEF TypeOK
  <2>8. NothingLeftBehind'
    BY <1>1, <1>2, <2>1 DEF NothingLeftBehind, JobsOf, Settled
  <2> QED BY <2>4, <2>5, <2>7, <2>8 DEF IInv
<1>5. CASE ~(queue = <<>> /\ Cardinality(Holding) < tokens)
  <2>1. /\ task' = [task EXCEPT ![j] = "queued"]
        /\ queue' = Append(queue, j)
        /\ thread' = thread
    BY <1>5 DEF Enter
  <2>2. Holding' = Holding
    BY <1>1, <1>2, <2>1 DEF Holding
  <2>3. queue' \in Seq(Jobs) /\ QueueExact'
    BY <1>2, <2>1, Queued
  <2>4. FiniteHolding' /\ TokensConserved'
    <3>1. Cardinality(Holding) = tokens
      BY <1>1, <1>3, <1>5 DEF TokensConserved
    <3> QED BY <1>1, <2>2, <3>1 DEF FiniteHolding, TokensConserved
  <2>5. LoadsExclusive' /\ NotStarted' /\ IdleUnused'
    BY <1>1, <1>2, <2>1 DEF LoadsExclusive, NotStarted, IdleUnused
  <2>6. TypeOK'
    BY <1>1, <1>2, <2>1, <2>3, <2>5 DEF TypeOK
  <2>7. NothingLeftBehind'
    BY <1>1, <1>2, <2>1 DEF NothingLeftBehind, JobsOf, Settled
  <2> QED BY <2>4, <2>5, <2>6, <2>7 DEF IInv
<1> QED BY <1>4, <1>5

\* One job settles: by its timer or with what its thread produced.
LEMMA SettleInvariant ==
  ASSUME IInv, UNCHANGED tokens, NEW j \in Jobs, Timeout(j) \/ Deliver(j)
  PROVE  IInv'
<1>1. task[j] \in {"queued", "running"} /\ UNCHANGED <<call, lock>>
  BY DEF Timeout, Deliver
<1>2. PICK how \in Settled : Settle(j, how) /\ stored' = IF how = "link" THEN stored \cup {j} ELSE stored
  BY DEF Timeout, Deliver, Settled
<1> DEFINE outcome == [k \in {j} |-> how]
<1>3. SettleJobs(outcome) /\ DOMAIN outcome = {j} /\ outcome[j] = how
  BY <1>2 DEF Settle
<1>4. stored' = stored \cup {k \in DOMAIN outcome : outcome[k] = "link"}
  BY <1>2, <1>3
<1>5. \A k \in DOMAIN outcome : /\ k \in Jobs /\ task[k] \notin Settled \cup {"unused"}
                                /\ outcome[k] \in Settled
  BY <1>1, <1>3 DEF Settled
<1>6. call \in [Calls -> {"idle", "open", "rejected", "answered", "aborted"}]
  BY DEF IInv, TypeOK
<1> HIDE DEF outcome
<1> QED BY <1>1, <1>3, <1>4, <1>5, <1>6, SettlingInvariant

LEMMA AbortInvariant ==
  ASSUME IInv, UNCHANGED tokens, NEW c \in Calls, Abort(c)
  PROVE  IInv'
<1> DEFINE open == {j \in JobsOf(c) : task[j] \notin Settled}
           outcome == [j \in open |-> "cancelled"]
<1>1. /\ call[c] = "open" /\ call' = [call EXCEPT ![c] = "aborted"]
      /\ SettleJobs(outcome) /\ UNCHANGED <<lock, stored>>
  BY DEF Abort
<1>2. \A j \in DOMAIN outcome : /\ j \in Jobs /\ task[j] \notin Settled \cup {"unused"}
                                /\ outcome[j] \in Settled
  BY DEF JobsOf, Settled
<1>3. {k \in DOMAIN outcome : outcome[k] = "link"} = {}
  OBVIOUS
<1>4. \A j \in JobsOf(c) : task[j] \in Settled \/ j \in DOMAIN outcome
  OBVIOUS
<1>5. call \in [Calls -> {"idle", "open", "rejected", "answered", "aborted"}]
  BY DEF IInv, TypeOK
<1> HIDE DEF outcome
<1>6. stored' = stored \cup {k \in DOMAIN outcome : outcome[k] = "link"}
  BY <1>1, <1>3
<1>7. \A d \in Calls : d # c => call'[d] = call[d]
  BY <1>1, <1>5
<1>8. \A d \in Calls : (call[d] \in {"idle", "open"} /\ call'[d] \notin {"idle", "open"})
           => \A j \in JobsOf(d) : task[j] \in Settled \/ j \in DOMAIN outcome
  BY <1>4, <1>7
<1>9. /\ call' \in [Calls -> {"idle", "open", "rejected", "answered", "aborted"}]
      /\ \A d \in Calls : call'[d] = "idle" => call[d] = "idle"
      /\ \A d \in Calls : call[d] \notin {"idle", "open"} => call'[d] = call[d]
  BY <1>1, <1>5
<1> QED BY <1>1, <1>2, <1>6, <1>8, <1>9, SettlingInvariant

LEMMA NextInvariant == IInv /\ [Next]_<<tokens, vars>> => IInv'
<1> SUFFICES ASSUME IInv, [Next]_<<tokens, vars>> PROVE IInv'
  OBVIOUS
<1>1. CASE UNCHANGED <<tokens, vars>>
  BY <1>1 DEF vars, IInv, TypeOK, QueueExact, LoadsExclusive, NotStarted, IdleUnused,
              FiniteHolding, Holding, TokensConserved, NothingLeftBehind, JobsOf
<1>2. ASSUME NEW c \in Calls, UNCHANGED tokens, Reject(c) \/ Answer(c) \/ Abort(c) PROVE IInv'
  BY <1>2, AnswerInvariant, AbortInvariant
<1>3. ASSUME NEW c \in Calls, NEW n \in 1..MaxBatch, UNCHANGED tokens, Accept(c, n) PROVE IInv'
  BY <1>3, AcceptInvariant
<1>4. ASSUME NEW j \in Jobs, UNCHANGED tokens, LoopStep(j) PROVE IInv'
  BY <1>4, UndecodableInvariant, EnterInvariant, SettleInvariant DEF LoopStep
<1>5. ASSUME NEW j \in Jobs, UNCHANGED tokens, ThreadStep(j) PROVE IInv'
  BY <1>5, ThreadStepInvariant
<1> QED BY <1>1, <1>2, <1>3, <1>4, <1>5 DEF Next

\* The invariant holds in every state of every behaviour.
THEOREM Invariance == Spec => []IInv
<1>1. Init => IInv
  BY InitInvariant
<1>2. IInv /\ [Next]_<<tokens, vars>> => IInv'
  BY NextInvariant
<1> QED BY <1>1, <1>2, PTL DEF Spec

-----------------------------------------------------------------------------
(* The properties *)

\* The queue and the load lock are what the tasks and the threads say: no
\* workbook is loaded beside another, however many threads were abandoned.
THEOREM PoolExact == Spec => []TypeOK
<1>1. IInv => TypeOK
  BY DEF IInv
<1> QED BY <1>1, Invariance, PTL

\* No token is lost or made, and none is idle while a job waits.
THEOREM TokensKept == Spec => []TokensConserved
<1>1. IInv => TokensConserved
  BY DEF IInv
<1> QED BY <1>1, Invariance, PTL

\* A call that is over holds no token and waits for none, and the late result
\* of a thread that outlived its job is never stored.
THEOREM CallsEndClean == Spec => []NothingLeftBehind
<1>1. IInv => NothingLeftBehind
  BY DEF IInv
<1> QED BY <1>1, Invariance, PTL
\* Of the jobs that settle in a step, all are among those that SettleJobs was
\* told to settle.
LEMMA SettledByOutcome ==
  ASSUME IInv, tokens' = tokens, NEW outcome,
         \A j \in DOMAIN outcome : j \in Jobs /\ task[j] \notin Settled /\ outcome[j] \in Settled,
         SettleJobs(outcome), NEW j \in Jobs
  PROVE  /\ task[j] \in Settled => task'[j] = task[j]
         /\ task[j] # task'[j] /\ task'[j] \in Settled => j \in DOMAIN outcome
<1>1. PICK granted \in SUBSET Jobs :
              /\ \A k \in granted : task[k] = "queued" /\ k \notin DOMAIN outcome
              /\ task' = [k \in Jobs |-> IF k \in DOMAIN outcome THEN outcome[k]
                                         ELSE IF k \in granted THEN "running" ELSE task[k]]
              /\ thread' = [k \in Jobs |-> IF k \in granted THEN "ready" ELSE thread[k]]
  BY Settling, Zenon
<1> QED BY <1>1 DEF Settled

LEMMA StepSettles ==
  ASSUME IInv, [Next]_<<tokens, vars>>
  PROVE  SettleStep \/ UNCHANGED vars
<1>1. CASE UNCHANGED <<tokens, vars>>
  BY <1>1
<1>2. ASSUME UNCHANGED task PROVE SettleStep
  BY <1>2 DEF SettleStep
<1>3. ASSUME NEW c \in Calls, Reject(c) \/ Answer(c) PROVE SettleStep
  BY <1>2, <1>3 DEF Reject, Answer
<1>4. ASSUME NEW j \in Jobs, ThreadStep(j) PROVE SettleStep
  BY <1>2, <1>4 DEF ThreadStep, Arrive, Lock, Unlock, Finish
<1>5. ASSUME NEW c \in Calls, NEW n \in 1..MaxBatch, Accept(c, n) PROVE SettleStep
  <2>1. \A j \in Jobs : j[1] = c => task[j] = "unused"
    BY <1>5 DEF Accept, IInv, IdleUnused
  <2>2. \A j \in Jobs : task'[j] = task[j] \/ (task[j] = "unused" /\ task'[j] = "pending")
    BY <1>5, <2>1 DEF Accept
  <2> QED BY <2>2 DEF SettleStep, Settled
<1>6. ASSUME NEW i \in Jobs, Undecodable(i) \/ Enter(i) PROVE SettleStep
  <2>1. \A j \in Jobs : j # i => task'[j] = task[j]
    BY <1>6 DEF Undecodable, Enter, IInv, TypeOK
  <2>2. task[i] = "pending"
    BY <1>6 DEF Undecodable, Enter
  <2> QED BY <2>1, <2>2 DEF SettleStep, Settled
<1>7. ASSUME UNCHANGED tokens, NEW i \in Jobs, Timeout(i) \/ Deliver(i) PROVE SettleStep
  <2>1. PICK how \in Settled : SettleJobs([k \in {i} |-> how])
    BY <1>7 DEF Timeout, Deliver, Settle, Settled
  <2>2. task[i] \notin Settled
    BY <1>7 DEF Timeout, Deliver, Settled
  <2> DEFINE outcome == [k \in {i} |-> how]
  <2>3. /\ DOMAIN outcome = {i}
        /\ \A j \in DOMAIN outcome : j \in Jobs /\ task[j] \notin Settled /\ outcome[j] \in Settled
    BY <2>2
  <2>4. SettleJobs(outcome)
    BY <2>1
  <2> HIDE DEF outcome
  <2> QED BY <1>7, <2>3, <2>4, SettledByOutcome DEF SettleStep
<1>8. ASSUME UNCHANGED tokens, NEW c \in Calls, Abort(c) PROVE SettleStep
  <2> DEFINE open == {j \in JobsOf(c) : task[j] \notin Settled}
             outcome == [j \in open |-> "cancelled"]
  <2>1. SettleJobs(outcome) /\ call[c] = "open" /\ call' = [call EXCEPT ![c] = "aborted"]
    BY <1>8 DEF Abort
  <2>2. \A j \in DOMAIN outcome : /\ j \in Jobs /\ j[1] = c
                                  /\ task[j] \notin Settled /\ outcome[j] \in Settled
    BY DEF JobsOf, Settled
  <2>3. call'[c] = "aborted"
    BY <2>1 DEF IInv, TypeOK
  <2> HIDE DEF outcome
  <2> QED BY <1>8, <2>1, <2>2, <2>3, SettledByOutcome DEF SettleStep
<1> QED BY <1>1, <1>3, <1>4, <1>5, <1>6, <1>7, <1>8 DEF Next, LoopStep

\* A job settles once, and alone unless its call is aborted.
THEOREM JobsIsolated == Spec => SettlesAlone
<1>1. IInv /\ [Next]_<<tokens, vars>> => [SettleStep]_vars
  BY StepSettles
<1> QED BY <1>1, Invariance, PTL DEF Spec, SettlesAlone
=============================================================================
