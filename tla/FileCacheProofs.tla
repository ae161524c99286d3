-------------------------- MODULE FileCacheProofs ---------------------------
(***************************************************************************)
(* FileCacheBackend keeps what it saved, for any number of processes and   *)
(* threads, with any number of failures and crashes: the properties of     *)
(* FileCache from one inductive invariant.                                 *)
(***************************************************************************)
EXTENDS FileCache, FiniteSetTheorems, TLAPS

-----------------------------------------------------------------------------
(* Caches *)

\* A cache maps some of the keys to the numbers of set() calls.
LEMMA CacheFacts ==
  ASSUME NEW cache \in Caches
  PROVE  /\ DOMAIN cache \subseteq Keys
         /\ \A k \in DOMAIN cache : cache[k] \in 1..MaxSets
BY DEF Caches

LEMMA EmptyIsCache == Empty \in Caches /\ DOMAIN Empty = {}
<1>1. Empty \in [{} -> 1..MaxSets]
  BY DEF Empty
<1> QED BY <1>1 DEF Caches

LEMMA WithFacts ==
  ASSUME NEW cache \in Caches, NEW k \in Keys, NEW n \in 1..MaxSets
  PROVE  /\ With(cache, k, n) \in Caches
         /\ DOMAIN With(cache, k, n) = DOMAIN cache \cup {k}
         /\ With(cache, k, n)[k] = n
         /\ \A j \in DOMAIN cache \ {k} : With(cache, k, n)[j] = cache[j]
<1> DEFINE held == DOMAIN cache \cup {k}
<1>1. held \in SUBSET Keys
  BY CacheFacts
<1>2. With(cache, k, n) \in [held -> 1..MaxSets]
  BY CacheFacts DEF With
<1>3. With(cache, k, n) \in Caches
  BY <1>1, <1>2 DEF Caches
<1> QED BY <1>3 DEF With

LEMMA CoversReflexive ==
  ASSUME NEW cache \in Caches
  PROVE  Covers(cache, cache)
BY FileAssumption, CacheFacts DEF Covers

-----------------------------------------------------------------------------
(* The inductive invariant *)

\* Only the owner of the flock is beyond acquiring it.
Exclusive == \A p \in Procs : proc[p] # "down" => owner = p

\* A thread within set() has its process's mutex, and its entry is in memory.
Serialised ==
  \A c \in Callers : at[c] # "idle" =>
    /\ proc[c[1]] = "up"
    /\ mutex[c[1]] = c[2]
    /\ key[c] \in DOMAIN memory[c[1]]

\* What is being written is all of the memory.
WritesAll == \A c \in Callers : at[c] = "writing" => payload[c] = memory[c[1]]

\* No entry is newer than the last set().
NoneFromTheFuture ==
  /\ sets <= MaxSets
  /\ \A k \in DOMAIN file : file[k] <= sets
  /\ \A p \in Procs : \A k \in DOMAIN memory[p] : memory[p][k] <= sets

IInv ==
  /\ TypeOK
  /\ Exclusive /\ Serialised /\ WritesAll /\ NoneFromTheFuture
  /\ MemoryCoversFile /\ Durable

LEMMA InitInvariant == Init => IInv
<1> SUFFICES ASSUME Init PROVE IInv
  OBVIOUS
<1>1. (CHOOSE k \in Keys : TRUE) \in Keys
  BY FileAssumption
<1>2. TypeOK
  BY <1>1, EmptyIsCache DEF Init, TypeOK
<1>3. Exclusive /\ Serialised /\ WritesAll
  BY DEF Init, Exclusive, Serialised, WritesAll
<1>4. NoneFromTheFuture
  BY EmptyIsCache, FileAssumption DEF Init, NoneFromTheFuture
<1>5. MemoryCoversFile /\ Durable
  BY EmptyIsCache DEF Init, MemoryCoversFile, Durable, Covers
<1> QED BY <1>2, <1>3, <1>4, <1>5 DEF IInv

-----------------------------------------------------------------------------
(* The steps *)

LEMMA AcquireInvariant ==
  ASSUME IInv, NEW p \in Procs, Acquire(p)
  PROVE  IInv'
<1>1. TypeOK'
  BY DEF IInv, TypeOK, Acquire
<1>2. \A q \in Procs : proc[q] = "down"
  BY FileAssumption DEF IInv, Exclusive, Acquire
<1>3. Exclusive'
  BY <1>2 DEF IInv, TypeOK, Exclusive, Acquire
<1>4. Serialised' /\ WritesAll' /\ NoneFromTheFuture'
  BY <1>2 DEF IInv, TypeOK, Serialised, WritesAll, NoneFromTheFuture, Acquire, Callers
<1>5. MemoryCoversFile' /\ Durable'
  BY <1>2 DEF IInv, TypeOK, MemoryCoversFile, Durable, Acquire
<1> QED BY <1>1, <1>3, <1>4, <1>5 DEF IInv

LEMMA LoadInvariant ==
  ASSUME IInv, NEW p \in Procs, Load(p)
  PROVE  IInv'
<1>1. TypeOK'
  BY DEF IInv, TypeOK, Load
<1>2. \A c \in Callers : c[1] = p => at[c] = "idle"
  BY DEF IInv, Serialised, Load
<1>3. Exclusive'
  BY DEF IInv, TypeOK, Exclusive, Load
<1>4. Serialised' /\ WritesAll'
  BY <1>2 DEF IInv, TypeOK, Serialised, WritesAll, Load, Callers
<1>5. NoneFromTheFuture'
  BY DEF IInv, TypeOK, NoneFromTheFuture, Load
<1>6. MemoryCoversFile' /\ Durable'
  BY CoversReflexive DEF IInv, TypeOK, MemoryCoversFile, Durable, Load
<1> QED BY <1>1, <1>3, <1>4, <1>5, <1>6 DEF IInv

\* A process has at most one temporary file, that of the thread with the mutex.
LEMMA OneTemporary ==
  ASSUME IInv, NEW p \in Procs
  PROVE  LET its == {c \in temps : c[1] = p}
         IN  Cardinality(its) \in {0, 1}
<1> DEFINE its == {c \in temps : c[1] = p}
<1>1. \A c, d \in its : c = d
  BY DEF IInv, TypeOK, Serialised, Callers
<1>2. CASE its = {}
  BY <1>2, FS_EmptySet
<1>3. CASE its # {}
  <2>1. PICK c : its = {c}
    BY <1>1, <1>3
  <2> QED BY <2>1, FS_Singleton
<1> QED BY <1>2, <1>3

LEMMA CrashInvariant ==
  ASSUME IInv, NEW p \in Procs, Crash(p)
  PROVE  IInv'
<1>1. TypeOK'
  <2>1. temps \ temps' = {c \in temps : c[1] = p}
    BY DEF Crash
  <2>2. orphans' \in Nat /\ crashes' \in Nat /\ orphans' <= crashes'
    BY <2>1, OneTemporary DEF IInv, TypeOK, Crash
  <2>3. temps' = {c \in Callers : at'[c] = "writing"}
    BY DEF IInv, TypeOK, Crash
  <2>4. at' \in [Callers -> {"idle", "entered", "writing"}]
    BY DEF IInv, TypeOK, Crash
  <2> QED BY <2>2, <2>3, <2>4, EmptyIsCache DEF IInv, TypeOK, Crash
<1>2. Exclusive'
  BY DEF IInv, TypeOK, Exclusive, Crash
<1>3. Serialised' /\ WritesAll'
  BY DEF IInv, TypeOK, Serialised, WritesAll, Crash, Callers
<1>4. NoneFromTheFuture'
  BY EmptyIsCache DEF IInv, TypeOK, NoneFromTheFuture, Crash
<1>5. MemoryCoversFile' /\ Durable'
  BY DEF IInv, TypeOK, MemoryCoversFile, Durable, Crash
<1> QED BY <1>1, <1>2, <1>3, <1>4, <1>5 DEF IInv

LEMMA EnterInvariant ==
  ASSUME IInv, NEW c \in Callers, NEW k \in Keys, Enter(c, k)
  PROVE  IInv'
<1> DEFINE p == c[1]
           new == With(memory[p], k, sets')
<1>1. p \in Procs /\ c[2] \in Threads /\ c = <<p, c[2]>>
  BY DEF Callers
<1>2. sets' = sets + 1 /\ sets' \in 1..MaxSets /\ memory[p] \in Caches
  BY <1>1, FileAssumption DEF IInv, TypeOK, Enter
<1>3. /\ new \in Caches
      /\ DOMAIN new = DOMAIN memory[p] \cup {k}
      /\ new[k] = sets'
      /\ \A j \in DOMAIN memory[p] \ {k} : new[j] = memory[p][j]
  <2>1. ASSUME NEW m \in Caches, NEW n \in 1..MaxSets
        PROVE  /\ With(m, k, n) \in Caches
               /\ DOMAIN With(m, k, n) = DOMAIN m \cup {k}
               /\ With(m, k, n)[k] = n
               /\ \A j \in DOMAIN m \ {k} : With(m, k, n)[j] = m[j]
    BY WithFacts
  <2> QED BY <1>2, <2>1, Zenon
<1> HIDE DEF new
<1>4. memory' = [memory EXCEPT ![p] = new]
  BY DEF Enter, new
<1>5. \A d \in Callers : d[1] = p => at[d] = "idle"
  BY <1>1, FileAssumption DEF IInv, Serialised, Enter, Callers
<1>6. TypeOK'
  <2>1. temps' = {d \in Callers : at'[d] = "writing"}
    BY DEF IInv, TypeOK, Enter
  <2> QED BY <1>1, <1>2, <1>3, <1>4, <2>1 DEF IInv, TypeOK, Enter
<1>7. Exclusive'
  BY DEF IInv, Exclusive, Enter
<1>8. Serialised' /\ WritesAll'
  BY <1>1, <1>3, <1>4, <1>5 DEF IInv, TypeOK, Serialised, WritesAll, Enter, Callers
<1>9. NoneFromTheFuture'
  <2>1. \A j \in DOMAIN file : file[j] <= sets'
    BY <1>2, CacheFacts DEF IInv, TypeOK, NoneFromTheFuture
  <2>2. \A j \in DOMAIN new : new[j] <= sets'
    BY <1>2, <1>3, <1>1, CacheFacts DEF IInv, TypeOK, NoneFromTheFuture
  <2>3. \A q \in Procs : \A j \in DOMAIN memory[q] : memory[q][j] <= sets'
    BY <1>2, CacheFacts DEF IInv, TypeOK, NoneFromTheFuture
  <2> QED BY <1>2, <1>4, <2>1, <2>2, <2>3 DEF IInv, TypeOK, NoneFromTheFuture, Enter
<1>10. MemoryCoversFile' /\ Durable'
  <2>1. Covers(memory[p], file)
    BY <1>1 DEF IInv, MemoryCoversFile, Enter
  <2>2. file \in Caches /\ \A j \in DOMAIN file : file[j] <= sets
    BY DEF IInv, TypeOK, NoneFromTheFuture
  <2>3. Covers(new, file)
    BY <1>2, <1>3, <2>1, <2>2, CacheFacts DEF IInv, TypeOK, Covers
  <2> QED BY <1>4, <2>3 DEF IInv, TypeOK, MemoryCoversFile, Durable, Enter
<1> QED BY <1>6, <1>7, <1>8, <1>9, <1>10 DEF IInv

LEMMA DumpInvariant ==
  ASSUME IInv, NEW c \in Callers, Dump(c)
  PROVE  IInv'
<1>1. c[1] \in Procs
  BY DEF Callers
<1>2. TypeOK'
  <2>1. temps' = {d \in Callers : at'[d] = "writing"}
    BY DEF IInv, TypeOK, Dump, Write
  <2> QED BY <1>1, <2>1 DEF IInv, TypeOK, Dump, Write
<1>3. Exclusive' /\ NoneFromTheFuture' /\ MemoryCoversFile' /\ Durable'
  BY DEF IInv, Exclusive, NoneFromTheFuture, MemoryCoversFile, Durable, Dump
<1>4. Serialised' /\ WritesAll'
  BY DEF IInv, TypeOK, Serialised, WritesAll, Dump, Write
<1> QED BY <1>2, <1>3, <1>4 DEF IInv

LEMMA ReplaceInvariant ==
  ASSUME IInv, NEW c \in Callers, Replace(c)
  PROVE  IInv'
<1> DEFINE p == c[1]
<1>1. p \in Procs /\ c[2] \in Threads /\ c = <<p, c[2]>>
  BY DEF Callers
<1>2. /\ payload[c] = memory[p] /\ file' = memory[p] /\ key[c] \in DOMAIN memory[p]
      /\ proc[p] = "up" /\ mutex[p] = c[2] /\ memory[p] \in Caches
      /\ key[c] \in Keys
  BY <1>1 DEF IInv, TypeOK, Serialised, WritesAll, Replace
<1> DEFINE n == memory[p][key[c]]
<1>3. n \in 1..MaxSets
  BY <1>2, CacheFacts
<1>4. saved' = With(saved, key[c], n)
  BY <1>2 DEF Replace
<1>5. TypeOK'
  <2>1. saved' \in Caches
    BY <1>2, <1>3, <1>4, WithFacts DEF IInv, TypeOK
  <2>2. temps' = {d \in Callers : at'[d] = "writing"}
    BY DEF IInv, TypeOK, Replace, Return
  <2> QED BY <1>1, <1>2, <2>1, <2>2 DEF IInv, TypeOK, Replace, Return
<1>6. Exclusive' /\ NoneFromTheFuture'
  BY <1>1, <1>2 DEF IInv, Exclusive, NoneFromTheFuture, Replace
<1>7. Serialised' /\ WritesAll'
  BY <1>1, <1>2 DEF IInv, TypeOK, Serialised, WritesAll, Replace, Return, Callers
<1>8. MemoryCoversFile'
  <2>1. \A q \in Procs : proc[q] = "up" => q = p
    BY <1>1, <1>2 DEF IInv, Exclusive
  <2> QED BY <1>2, <2>1, CoversReflexive DEF MemoryCoversFile, Replace
<1>9. Durable'
  <2>1. Covers(memory[p], file) /\ Covers(file, saved)
    BY <1>1, <1>2 DEF IInv, MemoryCoversFile, Durable
  <2>2. file \in Caches /\ saved \in Caches
    BY DEF IInv, TypeOK
  <2>3. Covers(memory[p], saved)
    BY <1>2, <2>1, <2>2, CacheFacts DEF Covers
  <2>4. Covers(memory[p], With(saved, key[c], n))
    <3> DEFINE new == With(saved, key[c], n)
    <3>1. /\ DOMAIN new = DOMAIN saved \cup {key[c]}
          /\ new[key[c]] = n
          /\ \A j \in DOMAIN saved \ {key[c]} : new[j] = saved[j]
      BY <1>2, <1>3, <2>2, WithFacts
    <3> HIDE DEF new
    <3>2. \A j \in DOMAIN new : j \in DOMAIN memory[p] /\ memory[p][j] >= new[j]
      BY <1>2, <1>3, <2>3, <3>1 DEF Covers
    <3> QED BY <3>2 DEF Covers, new
  <2> QED BY <1>2, <1>4, <2>4 DEF Durable
<1> QED BY <1>5, <1>6, <1>7, <1>8, <1>9 DEF IInv

LEMMA FailInvariant ==
  ASSUME IInv, NEW c \in Callers, Fail(c)
  PROVE  IInv'
<1>1. c[1] \in Procs /\ c[2] \in Threads /\ c = <<c[1], c[2]>>
  BY DEF Callers
<1>2. mutex[c[1]] = c[2]
  BY DEF IInv, Serialised, Fail
<1>3. TypeOK'
  <2>1. temps' = {d \in Callers : at'[d] = "writing"}
    BY DEF IInv, TypeOK, Fail, Return
  <2> QED BY <1>1, <2>1 DEF IInv, TypeOK, Fail, Return
<1>4. Exclusive' /\ NoneFromTheFuture' /\ MemoryCoversFile' /\ Durable'
  BY DEF IInv, Exclusive, NoneFromTheFuture, MemoryCoversFile, Durable, Fail
<1>5. Serialised' /\ WritesAll'
  BY <1>1, <1>2 DEF IInv, TypeOK, Serialised, WritesAll, Fail, Return, Callers
<1> QED BY <1>3, <1>4, <1>5 DEF IInv

LEMMA StutterInvariant ==
  ASSUME IInv, UNCHANGED vars
  PROVE  IInv'
BY DEF IInv, TypeOK, Exclusive, Serialised, WritesAll, NoneFromTheFuture, MemoryCoversFile,
       Durable, vars

LEMMA NextInvariant == IInv /\ [Next]_vars => IInv'
<1> SUFFICES ASSUME IInv, [Next]_vars PROVE IInv'
  OBVIOUS
<1>1. ASSUME NEW p \in Procs, Acquire(p) \/ Load(p) \/ Crash(p) PROVE IInv'
  BY <1>1, AcquireInvariant, LoadInvariant, CrashInvariant
<1>2. ASSUME NEW c \in Callers, NEW k \in Keys, Enter(c, k) PROVE IInv'
  BY <1>2, EnterInvariant
<1>3. ASSUME NEW c \in Callers, Dump(c) \/ Replace(c) \/ Fail(c) PROVE IInv'
  BY <1>3, DumpInvariant, ReplaceInvariant, FailInvariant
<1>4. CASE UNCHANGED vars
  BY <1>4, StutterInvariant
<1> QED BY <1>1, <1>2, <1>3, <1>4 DEF Next

-----------------------------------------------------------------------------
(* The theorems *)

\* The inductive invariant holds in every reachable state.
THEOREM Invariance == Spec => []IInv
BY InitInvariant, NextInvariant, PTL DEF Spec

\* The file is whole whenever a process dies, and temporary files are those of
\* writes in progress or of crashes.
THEOREM FileWhole == Spec => []TypeOK
<1>1. IInv => TypeOK
  BY DEF IInv
<1> QED BY <1>1, Invariance, PTL

\* What set() returned from is on disk, it or something newer, for good.
THEOREM SavedForGood == Spec => []Durable
<1>1. IInv => Durable
  BY DEF IInv
<1> QED BY <1>1, Invariance, PTL

\* A serving process never drops an entry by rewriting the file.
THEOREM MemoryCovers == Spec => []MemoryCoversFile
<1>1. IInv => MemoryCoversFile
  BY DEF IInv
<1> QED BY <1>1, Invariance, PTL

\* The step that makes a set() return leaves all of the memory in the file,
\* with what earlier writes failed to put there.
THEOREM WritesHeal == Spec => NextWriteHeals
<1> DEFINE Heals == \A c \in Callers : saved' # saved /\ at[c] = "writing" /\ at'[c] = "idle"
                      => file' = memory'[c[1]]
<1>1. ASSUME IInv, Next PROVE Heals
  <2>1. ASSUME NEW p \in Procs, Acquire(p) \/ Load(p) \/ Crash(p) PROVE saved' = saved
    BY <2>1 DEF Acquire, Load, Crash
  <2>2. ASSUME NEW c \in Callers, NEW k \in Keys, Enter(c, k) PROVE saved' = saved
    BY <2>2 DEF Enter
  <2>3. ASSUME NEW c \in Callers, Dump(c) \/ Fail(c) PROVE saved' = saved
    BY <2>3 DEF Dump, Fail
  <2>4. ASSUME NEW d \in Callers, Replace(d) PROVE Heals
    <3>1. \A c \in Callers : at[c] = "writing" /\ at'[c] = "idle" => c = d
      BY <1>1, <2>4 DEF IInv, TypeOK, Replace, Return
    <3>2. file' = memory'[d[1]]
      BY <1>1, <2>4 DEF IInv, WritesAll, Replace
    <3> QED BY <3>1, <3>2
  <2> QED BY <1>1, <2>1, <2>2, <2>3, <2>4 DEF Next
<1>2. IInv /\ [Next]_vars => [Heals]_vars
  BY <1>1
<1> HIDE DEF Heals
<1>3. Spec => [][Heals]_vars
  BY <1>2, Invariance, PTL DEF Spec
<1> QED BY <1>3 DEF NextWriteHeals, Heals
=============================================================================
