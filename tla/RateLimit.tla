------------------------------ MODULE RateLimit -----------------------------
(***************************************************************************)
(* refigure/mcp/state.py: check_and_consume_rate_limit(), the fixed-window *)
(* admission of conversions on the HTTP transport.  A single conversion    *)
(* asks for one unit, a batch of n items for n at once.  The method runs   *)
(* under ServerState's lock and is one action; callers share nothing.      *)
(***************************************************************************)
EXTENDS Integers

CONSTANTS
  Callers,
  Limit,        \* rate_limit_count
  Window,       \* rate_limit_window_s
  MaxAsk,       \* the largest n that is asked for: max_batch_size
  MaxClock      \* bound on the clock

VARIABLES
  counters,   \* _rate_counters: caller -> [count, start], for callers seen
  now,        \* time.monotonic()
  verdict,    \* the last answer: who asked for how much, and whether it got it
  admitted    \* history: admitted[c][t] units up to time t, granted so far

vars == <<counters, now, verdict, admitted>>

Silence == [asked |-> 0]

Init ==
  /\ counters = <<>>
  /\ now = 0
  /\ verdict = Silence
  /\ admitted = [c \in Callers |-> [t \in 0..MaxClock |-> 0]]

\* Mutant: the window restarts one unit late.
CurrentLate(c) ==
  LET known == IF c \in DOMAIN counters THEN counters[c] ELSE [count |-> 0, start |-> now]
  IN  IF now - known.start > Window THEN [count |-> 0, start |-> now] ELSE known

\* The caller's counter, restarted when its window has elapsed.
Current(c) ==
  LET known == IF c \in DOMAIN counters THEN counters[c] ELSE [count |-> 0, start |-> now]
  IN  IF now - known.start >= Window THEN [count |-> 0, start |-> now] ELSE known

Store(c, counter) ==
  counters' = [d \in DOMAIN counters \cup {c} |-> IF d = c THEN counter ELSE counters[d]]

Record(c, n) ==
  admitted' = [admitted EXCEPT ![c] =
                 [t \in 0..MaxClock |-> IF t < now THEN @[t] ELSE @[t] + n]]

\* Mutant: a batch is let in if its first item is.
AdmitFirst(c, n) ==
  /\ Current(c).count + 1 <= Limit
  /\ Store(c, [Current(c) EXCEPT !.count = @ + n])
  /\ Record(c, n)
  /\ verdict' = [asked |-> n, caller |-> c, ok |-> TRUE]
  /\ UNCHANGED now

Admit(c, n) ==
  /\ Current(c).count + n <= Limit
  /\ Store(c, [Current(c) EXCEPT !.count = @ + n])
  /\ Record(c, n)
  /\ verdict' = [asked |-> n, caller |-> c, ok |-> TRUE]
  /\ UNCHANGED now

\* Mutant: a refusal consumes what it refuses.
RefuseConsuming(c, n) ==
  /\ Current(c).count + n > Limit
  /\ Store(c, [Current(c) EXCEPT !.count = @ + n])
  /\ verdict' = [asked |-> n, caller |-> c, ok |-> FALSE]
  /\ UNCHANGED <<now, admitted>>

\* A refusal consumes nothing, but it does store a restarted window.
Refuse(c, n) ==
  /\ Current(c).count + n > Limit
  /\ Store(c, Current(c))
  /\ verdict' = [asked |-> n, caller |-> c, ok |-> FALSE]
  /\ UNCHANGED <<now, admitted>>

Tick ==
  /\ now < MaxClock
  /\ now' = now + 1
  /\ verdict' = Silence
  /\ UNCHANGED <<counters, admitted>>

Next ==
  \/ \E c \in Callers, n \in 1..MaxAsk : Admit(c, n) \/ Refuse(c, n)
  \/ Tick

Spec == Init /\ [][Next]_vars

-----------------------------------------------------------------------------
(* Properties *)

\* The types of the state: a caller's count never passes the limit.
TypeOK ==
  /\ DOMAIN counters \subseteq Callers
  /\ counters \in [DOMAIN counters -> [count : 0..Limit, start : 0..MaxClock]]
  /\ now \in 0..MaxClock
  /\ verdict \in {Silence}
       \cup [asked : 1..MaxAsk, caller : Callers, ok : BOOLEAN]
  /\ admitted \in [Callers -> [0..MaxClock -> Nat]]

GrantedBy(c, t) == IF t < 0 THEN 0 ELSE admitted[c][t]

\* What a caller was granted in the Window time units that end at t.
Granted(c, t) == GrantedBy(c, t) - GrantedBy(c, t - Window)

\* The docstring's burst bound: in any stretch of one window's length, however
\* it straddles the fixed windows, a caller gets at most twice its rate.
BurstBound == \A c \in Callers, t \in 0..MaxClock : Granted(c, t) <= 2 * Limit

\* A refusal is always earned: within the last window's length the caller was
\* granted so much that the request would have exceeded the rate.  Being
\* refused, however often, costs a caller nothing.
RefusalEarned ==
  (verdict # Silence /\ ~verdict.ok)
    => Granted(verdict.caller, now) + verdict.asked > Limit
=============================================================================
