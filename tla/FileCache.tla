------------------------------ MODULE FileCache -----------------------------
(***************************************************************************)
(* refigure/vlm/cache.py: FileCacheBackend, the cache of model responses   *)
(* that survives the process, as a server given --mcp-vlm-cache uses it.   *)
(*                                                                         *)
(* A process takes the flock of the path (acquire_vlm_cache_file_lock) and *)
(* loads the file.  Its worker threads then set() entries: under a mutex,  *)
(* the entry goes to memory, the whole memory to a temporary file, and     *)
(* that file over the path.  Any step of the way down may fail, and the    *)
(* process may die between any two.                                        *)
(*                                                                         *)
(* Abstractions: an entry is the number of the set() that made it, counted *)
(* in the order the mutex was taken.  get() reads memory without the mutex *)
(* and changes nothing.                                                    *)
(***************************************************************************)
EXTENDS Integers, FiniteSets

CONSTANTS
  Procs,      \* processes that are given the path
  Threads,    \* worker threads of each
  Keys,       \* marker ids
  MaxSets,    \* bound on the calls of set()
  MaxCrashes  \* bound on the crashes

Free == "free"

ASSUME FileAssumption ==
  /\ MaxSets \in Nat /\ MaxCrashes \in Nat
  /\ Keys # {}
  /\ Free \notin Procs \cup Threads

Empty == <<>>   \* a cache without entries; no file reads as one too
Callers == Procs \X Threads
Caches == UNION {[held -> 1..MaxSets] : held \in SUBSET Keys}

VARIABLES
  file,     \* what the path holds
  owner,    \* the process that holds the flock
  proc,     \* per process: down, locked (it has the flock) or up
  memory,   \* per process: _data
  mutex,    \* per process: the thread that holds _lock
  at,       \* per caller: idle, or where it is in set()
  key,      \* per caller: the key it sets
  payload,  \* per caller: what it writes
  temps,    \* the callers whose temporary file is on disk
  orphans,  \* temporary files that dead processes left
  saved,    \* history: key -> the last of its entries whose set() returned
  sets,     \* history: the number of set() calls
  crashes   \* history: the number of crashes

vars == <<file, owner, proc, memory, mutex, at, key, payload, temps, orphans, saved,
          sets, crashes>>

Init ==
  /\ file = Empty /\ saved = Empty
  /\ owner = Free
  /\ proc = [p \in Procs |-> "down"]
  /\ memory = [p \in Procs |-> Empty]
  /\ mutex = [p \in Procs |-> Free]
  /\ at = [c \in Callers |-> "idle"]
  /\ key = [c \in Callers |-> CHOOSE k \in Keys : TRUE]
  /\ payload = [c \in Callers |-> Empty]
  /\ temps = {}
  /\ orphans = 0 /\ sets = 0 /\ crashes = 0

With(cache, k, n) == [j \in DOMAIN cache \cup {k} |-> IF j = k THEN n ELSE cache[j]]

-----------------------------------------------------------------------------
(* build_server(): the flock, then the file *)

\* Mutant: no flock, as where fcntl does not exist.
AcquireAnyway(p) ==
  /\ proc[p] = "down"
  /\ proc' = [proc EXCEPT ![p] = "locked"]
  /\ owner' = p
  /\ UNCHANGED <<file, memory, mutex, at, key, payload, temps, orphans, saved, sets, crashes>>

\* While another holds the flock, a process exits as it came, with an error.
Acquire(p) ==
  /\ proc[p] = "down" /\ owner = Free
  /\ proc' = [proc EXCEPT ![p] = "locked"]
  /\ owner' = p
  /\ UNCHANGED <<file, memory, mutex, at, key, payload, temps, orphans, saved, sets, crashes>>

Load(p) ==
  /\ proc[p] = "locked"
  /\ memory' = [memory EXCEPT ![p] = file]
  /\ proc' = [proc EXCEPT ![p] = "up"]
  /\ UNCHANGED <<file, owner, mutex, at, key, payload, temps, orphans, saved, sets, crashes>>

\* A process dies: its flock and its memory go, its temporary file stays.
Crash(p) ==
  /\ crashes < MaxCrashes
  /\ proc[p] # "down"
  /\ crashes' = crashes + 1
  /\ owner' = IF owner = p THEN Free ELSE owner
  /\ proc' = [proc EXCEPT ![p] = "down"]
  /\ memory' = [memory EXCEPT ![p] = Empty]
  /\ mutex' = [mutex EXCEPT ![p] = Free]
  /\ at' = [c \in Callers |-> IF c[1] = p THEN "idle" ELSE at[c]]
  /\ temps' = {c \in temps : c[1] # p}
  /\ orphans' = orphans + Cardinality(temps \ temps')
  /\ UNCHANGED <<file, key, payload, saved, sets>>

-----------------------------------------------------------------------------
(* set() *)

\* The mutex, and the entry in memory, where get() sees it at once.
Enter(c, k) ==
  LET p == c[1]
  IN  /\ sets < MaxSets
      /\ proc[p] = "up" /\ at[c] = "idle" /\ mutex[p] = Free
      /\ sets' = sets + 1
      /\ mutex' = [mutex EXCEPT ![p] = c[2]]
      /\ memory' = [memory EXCEPT ![p] = With(@, k, sets')]
      /\ key' = [key EXCEPT ![c] = k]
      /\ at' = [at EXCEPT ![c] = "entered"]
      /\ UNCHANGED <<file, owner, proc, payload, temps, orphans, saved, crashes>>

Write(c, entries) ==
  /\ at[c] = "entered"
  /\ payload' = [payload EXCEPT ![c] = entries]
  /\ temps' = temps \cup {c}
  /\ at' = [at EXCEPT ![c] = "writing"]

\* Mutants: the mutex covers no more than the dump; the new entry is merged
\* into what the file holds; the path itself is opened for writing.
DumpAndUnlock(c) ==
  /\ Write(c, memory[c[1]])
  /\ mutex' = [mutex EXCEPT ![c[1]] = Free]
  /\ UNCHANGED <<file, owner, proc, memory, key, orphans, saved, sets, crashes>>
DumpMerged(c) ==
  /\ Write(c, With(file, key[c], memory[c[1]][key[c]]))
  /\ UNCHANGED <<file, owner, proc, memory, mutex, key, orphans, saved, sets, crashes>>
DumpInPlace(c) ==
  /\ Write(c, memory[c[1]])
  /\ file' = [k \in Keys |-> 0]  \* no cache at all
  /\ UNCHANGED <<owner, proc, memory, mutex, key, orphans, saved, sets, crashes>>

\* json.dumps() of the whole memory, into a temporary file.
Dump(c) ==
  /\ Write(c, memory[c[1]])
  /\ UNCHANGED <<file, owner, proc, memory, mutex, key, orphans, saved, sets, crashes>>

Return(c) ==
  /\ at' = [at EXCEPT ![c] = "idle"]
  /\ mutex' = [mutex EXCEPT ![c[1]] = Free]

\* The temporary file is complete and replaces the path; set() returns.
Replace(c) ==
  /\ at[c] = "writing"
  /\ file' = payload[c]
  /\ saved' = With(saved, key[c], payload[c][key[c]])
  /\ temps' = temps \ {c}
  /\ Return(c)
  /\ UNCHANGED <<owner, proc, memory, key, payload, orphans, sets, crashes>>

\* mkdir(), mkstemp(), the write or the replacement raises: the temporary file
\* is unlinked, and _cache_set_safely() drops the error.  The entry stays in
\* memory.
Fail(c) ==
  /\ at[c] \in {"entered", "writing"}
  /\ temps' = temps \ {c}
  /\ Return(c)
  /\ UNCHANGED <<file, owner, proc, memory, key, payload, orphans, saved, sets, crashes>>

Next ==
  \/ \E p \in Procs : Acquire(p) \/ Load(p) \/ Crash(p)
  \/ \E c \in Callers, k \in Keys : Enter(c, k)
  \/ \E c \in Callers : Dump(c) \/ Replace(c) \/ Fail(c)

Spec == Init /\ [][Next]_vars

-----------------------------------------------------------------------------
(* Properties *)

\* The types of the state.  The file is whole at all times: what it holds is
\* some cache, however its writers die.  A temporary file is that of a set() in
\* progress, or was left by a crash, at most one by each.
TypeOK ==
  /\ file \in Caches /\ saved \in Caches
  /\ owner \in Procs \cup {Free}
  /\ proc \in [Procs -> {"down", "locked", "up"}]
  /\ memory \in [Procs -> Caches]
  /\ mutex \in [Procs -> Threads \cup {Free}]
  /\ at \in [Callers -> {"idle", "entered", "writing"}]
  /\ key \in [Callers -> Keys]
  /\ payload \in [Callers -> Caches]
  /\ temps = {c \in Callers : at[c] = "writing"}
  /\ {orphans, sets, crashes} \subseteq Nat
  /\ orphans <= crashes

\* One cache is at least as new as another in every entry of the other.
Covers(newer, older) ==
  \A k \in DOMAIN older : k \in DOMAIN newer /\ newer[k] >= older[k]

\* An entry whose set() returned is on disk, it or a newer one of its key, for
\* good: no other thread's write, failure or crash, no restart and no other
\* process takes it away.
Durable == Covers(file, saved)

\* A serving process knows all that the file holds, so that rewriting the
\* whole file from memory cannot drop an entry.
MemoryCoversFile == \A p \in Procs : proc[p] = "up" => Covers(memory[p], file)

\* A failed write costs nothing once a later one succeeds, of whatever key:
\* when a set() returns, the file holds all of its process's memory.
NextWriteHeals ==
  [][\A c \in Callers : saved' # saved /\ at[c] = "writing" /\ at'[c] = "idle"
       => file' = memory'[c[1]]]_vars

=============================================================================
