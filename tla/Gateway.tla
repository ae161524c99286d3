------------------------------- MODULE Gateway -------------------------------
(***************************************************************************)
(* The way into refigure-mcp: main() of mcp/cli.py from its arguments to a *)
(* serving process, with load_token_file() of mcp/auth.py and the          *)
(* conditions of build_server(); then the admission of convert_* and       *)
(* convert_batch requests, metered by RateLimit over HTTP.                 *)
(*                                                                         *)
(* A token file is a sequence of lines: blank, a pair of a token and a     *)
(* caller (either of which may be empty), or anything else.  The SDK's     *)
(* bearer check answers a token that no line names and is external; what   *)
(* happens to an admitted conversion is ConversionPool's.                  *)
(***************************************************************************)
EXTENDS Integers, Sequences, FiniteSets

CONSTANTS
  Callers,     \* the caller ids that files name
  Local,       \* "__local__", the identity without authentication
  Empty,       \* an empty text
  NoFile,      \* --mcp-auth-token-file is not given
  Unreadable,  \* it names a file that cannot be read
  Files,       \* the readable token files
  Batches,     \* the values of --mcp-max-batch-size
  Limit, Window, MaxAsk, MaxClock   \* RateLimit's

ASSUME GatewayAssumption ==
  /\ Local \notin Callers /\ Empty \notin Callers
  /\ NoFile # Unreadable /\ {NoFile, Unreadable} \cap Files = {}
  /\ \A f \in Files :
       /\ f \in Seq({f[k] : k \in DOMAIN f})
       /\ \A k \in DOMAIN f : f[k].is = "pair" => f[k].caller \in Callers \cup {Local, Empty}
  /\ Batches \subseteq 0..MaxAsk
  /\ Limit \in Nat /\ Window \in Nat \ {0}
  /\ MaxAsk \in Nat \ {0} /\ MaxClock \in Nat

VARIABLES
  args,      \* what the operator gave: [transport, file, batch]
  pc,        \* "args", "load", "client", "build", "serving" or "exited"
  code,      \* why it exited
  line,      \* the line of the token file to be read next
  tokenMap,  \* token -> caller id, for the lines read
  softCap,   \* soft_cap_enabled
  started,   \* the conversions that the last request started
  counters, now, verdict, admitted   \* RateLimit's

startup == <<args, pc, code, line, tokenMap, softCap>>
rate == <<counters, now, verdict, admitted>>
vars == <<startup, started, rate>>

Rate == INSTANCE RateLimit

NothingStarted == [n |-> 0]

Init ==
  /\ args \in [transport : {"stdio", "http"}, file : Files \cup {NoFile, Unreadable},
               batch : Batches]
  /\ pc = "args" /\ code = "none"
  /\ line = 1 /\ tokenMap = <<>> /\ softCap = FALSE
  /\ started = NothingStarted
  /\ Rate!Init

-----------------------------------------------------------------------------
(* Start-up *)

Exit(why) ==
  /\ pc' = "exited"
  /\ code' = why
  /\ UNCHANGED <<args, line, tokenMap, softCap, started, rate>>

GoTo(place) ==
  /\ pc' = place
  /\ UNCHANGED <<args, code, line, tokenMap, softCap, started, rate>>

\* HTTP needs a token file and stdio must not have one: parser.error().
CheckArgs ==
  /\ pc = "args"
  /\ IF (args.transport = "http") = (args.file = NoFile) THEN Exit("usage")
     ELSE GoTo(IF args.file = NoFile THEN "client" ELSE "load")

\* Mutant: the last line of a token wins.
RefusedUnlessOverriding(pair) ==
  \/ pair.token = Empty \/ pair.caller = Empty
  \/ pair.caller = Local

\* What makes load_token_file() refuse a pair.
Refused(pair) ==
  \/ pair.token = Empty \/ pair.caller = Empty
  \/ pair.caller = Local
  \/ pair.token \in DOMAIN tokenMap /\ tokenMap[pair.token] # pair.caller

Enter(pair) ==
  tokenMap' = [t \in DOMAIN tokenMap \cup {pair.token} |->
                 IF t = pair.token THEN pair.caller ELSE tokenMap[t]]

\* One turn of the loop over the lines, or the failure to read any.
ReadLine ==
  /\ pc = "load"
  /\ \/ args.file = Unreadable /\ Exit("usage")
     \/ args.file # Unreadable /\ line > Len(args.file) /\ GoTo("client")
     \/ /\ args.file # Unreadable /\ line <= Len(args.file)
        /\ LET text == args.file[line]
           IN  IF text.is = "other" \/ (text.is = "pair" /\ Refused(text)) THEN Exit("usage")
               ELSE /\ line' = line + 1
                    /\ IF text.is = "pair" THEN Enter(text) ELSE UNCHANGED tokenMap
                    /\ UNCHANGED <<args, pc, code, softCap, started, rate>>

\* _resolve_vlm_client() and the key file: flags that do not go together, a
\* missing extra, or whatever else a client's constructor raises.
ResolveClient ==
  /\ pc = "client"
  /\ GoTo("build") \/ \E why \in {"usage", "missing dependency", "internal"} : Exit(why)

\* Mutant: a batch that fits in none of the windows is no reason to stop.
BuildAnyway ==
  /\ pc = "build"
  /\ \/ \E why \in {"missing dependency", "internal"} : Exit(why)
     \/ /\ pc' = "serving"
        /\ softCap' = (Cardinality({tokenMap[t] : t \in DOMAIN tokenMap}) >= 2)
        /\ UNCHANGED <<args, code, line, tokenMap, started, rate>>

\* build_server(): a batch must fit in the rate, then the cache's file must be
\* had; the exceptions go through _exit_code_for().
Build ==
  /\ pc = "build"
  /\ IF args.file # NoFile /\ args.batch > Limit THEN Exit("internal")
     ELSE \/ \E why \in {"missing dependency", "internal"} : Exit(why)
          \/ /\ pc' = "serving"
             /\ softCap' = (Cardinality({tokenMap[t] : t \in DOMAIN tokenMap}) >= 2)
             /\ UNCHANGED <<args, code, line, tokenMap, started, rate>>

-----------------------------------------------------------------------------
(* Requests *)

Sources == {"path", "content", "both or neither"}

\* The identities that requests can have: resolve_caller_id() after the SDK
\* has let the token through.
Identities ==
  IF args.transport = "http" THEN {tokenMap[t] : t \in DOMAIN tokenMap} ELSE {Local}

\* The shape checks of _run_convert_tool(), for each item of a batch too.
WellShaped(source) ==
  source = "content" \/ (source = "path" /\ args.transport = "stdio")

\* The size checks that a batch has on top.
SizeOk(tool, n) ==
  IF tool = "convert_batch" THEN n \in 1..args.batch ELSE n = 1

\* A request for n conversions that is in order: n units of the caller's rate
\* over HTTP, all or none, before anything is decoded; free over stdio.
Admission(c, n, source) ==
  \/ /\ args.transport = "http"
     /\ Rate!Admit(c, n)
     /\ started' = [n |-> n, caller |-> c, source |-> source]
  \/ /\ args.transport = "http"
     /\ Rate!Refuse(c, n)
     /\ started' = NothingStarted
  \/ /\ args.transport = "stdio"
     /\ started' = [n |-> n, caller |-> c, source |-> source]
     /\ UNCHANGED rate

\* A ValueError before anything is asked of the rate.
Invalid ==
  /\ started' = NothingStarted
  /\ verdict' = Rate!Silence
  /\ UNCHANGED <<counters, now, admitted>>

Request(c, tool, n, source) ==
  /\ pc = "serving"
  /\ IF SizeOk(tool, n) /\ WellShaped(source) THEN Admission(c, n, source) ELSE Invalid
  /\ UNCHANGED startup

Tick ==
  /\ pc = "serving"
  /\ Rate!Tick
  /\ started' = NothingStarted
  /\ UNCHANGED startup

Next ==
  \/ CheckArgs \/ ReadLine \/ ResolveClient \/ Build \/ Tick
  \/ \E c \in Identities, source \in Sources : Request(c, "convert", 1, source)
  \/ \E c \in Identities, n \in 0..MaxAsk, source \in Sources :
       Request(c, "convert_batch", n, source)

Spec == Init /\ [][Next]_vars

-----------------------------------------------------------------------------
(* Properties *)

\* The types of the state; the limiter's state is within its own types.
TypeOK ==
  /\ pc \in {"args", "load", "client", "build", "serving", "exited"}
  /\ code \in {"none", "usage", "missing dependency", "internal"}
  /\ code = "none" <=> pc # "exited"
  /\ \A t \in DOMAIN tokenMap : t # Empty /\ tokenMap[t] \in Callers
  /\ started = NothingStarted
       \/ started \in [n : 1..MaxAsk, caller : Callers \cup {Local}, source : Sources]
  /\ Rate!TypeOK

\* A caller never gets more than twice its rate in any stretch of a window's
\* length, single calls and batches together.
BurstBound == Rate!BurstBound

\* Nobody is refused for his rate who has not spent it: neither by requests
\* that were out of order or refused, nor by what others asked for.
RefusalEarned == Rate!RefusalEarned

\* The caller ids that the pairs of a file give a token.
Named(token) ==
  IF args.file \in {NoFile, Unreadable} THEN {}
  ELSE {args.file[k].caller :
          k \in {l \in DOMAIN args.file : args.file[l].is = "pair" /\ args.file[l].token = token}}

TokensNamed ==
  {args.file[k].token : k \in {l \in DOMAIN args.file : args.file[l].is = "pair"}}

\* Over HTTP the server acts for the callers of the token file and for no one
\* else: every token of the file stands for the one caller that all of its
\* lines name, nobody is the local identity, no local path is read, every
\* conversion was paid for out of its own caller's rate, and the soft cap is on
\* if and only if there are two callers to keep apart.
CallersAreTheFiles ==
  (pc = "serving" /\ args.transport = "http") =>
    /\ DOMAIN tokenMap = TokensNamed
    /\ \A t \in TokensNamed : Named(t) = {tokenMap[t]}
    /\ Local \notin Identities
    /\ softCap <=> \E c, d \in Identities : c # d
    /\ started # NothingStarted =>
         /\ started.source = "content"
         /\ verdict = [asked |-> started.n, caller |-> started.caller, ok |-> TRUE]

\* mcp/cli.py:181-184 and build_server(): a server that has started can admit a
\* batch of the largest size, whenever its caller has been idle for a window.
FullBatchAdmissible ==
  (pc = "serving" /\ args.transport = "http") =>
    \A c \in Identities :
      Rate!Granted(c, now) = 0 => Rate!Current(c).count + args.batch <= Limit
=============================================================================
