---------------------------- MODULE GatewayProofs ---------------------------
(***************************************************************************)
(* Gateway for every set of token files, every rate, window and sequence   *)
(* of requests: the types; that over HTTP the server acts for the callers  *)
(* of its file alone; and of the rate of a caller, that no burst passes    *)
(* twice the rate, that no refusal is unearned, and that there is room for *)
(* the largest batch after a window of silence.                            *)
(***************************************************************************)
EXTENDS Gateway, FiniteSetTheorems, TLAPS

-----------------------------------------------------------------------------
(* The limiter *)

LEMMA CurrentType ==
  ASSUME Rate!TypeOK, NEW c \in Callers
  PROVE  Rate!Current(c) \in [count : 0..Limit, start : 0..MaxClock]
<1>1. CASE c \in DOMAIN counters
  <2>1. counters[c] \in [count : 0..Limit, start : 0..MaxClock] /\ now \in 0..MaxClock
    BY <1>1 DEF Rate!TypeOK
  <2> QED BY <1>1, <2>1, GatewayAssumption DEF Rate!Current
<1>2. CASE c \notin DOMAIN counters
  BY <1>2, GatewayAssumption DEF Rate!TypeOK, Rate!Current
<1> QED BY <1>1, <1>2

\* Storing a counter of the right type keeps the types of all.
LEMMA StoreType ==
  ASSUME Rate!TypeOK, NEW c \in Callers,
         NEW counter \in [count : 0..Limit, start : 0..MaxClock],
         Rate!Store(c, counter)
  PROVE  /\ DOMAIN counters' \subseteq Callers
         /\ counters' \in [DOMAIN counters' -> [count : 0..Limit, start : 0..MaxClock]]
<1> DEFINE known == DOMAIN counters \cup {c}
<1>1. counters' = [d \in known |-> IF d = c THEN counter ELSE counters[d]]
  BY DEF Rate!Store
<1>2. /\ DOMAIN counters \subseteq Callers
      /\ \A d \in DOMAIN counters : counters[d] \in [count : 0..Limit, start : 0..MaxClock]
  BY DEF Rate!TypeOK
<1>3. DOMAIN counters' = known
  BY <1>1
<1>4. \A d \in known : counters'[d] \in [count : 0..Limit, start : 0..MaxClock]
  BY <1>1, <1>2
<1> QED BY <1>1, <1>2, <1>3, <1>4

\* An answer of the limiter keeps its types, and nobody's count passes the limit.
LEMMA AnswerType ==
  ASSUME Rate!TypeOK, NEW c \in Callers, NEW n \in 1..MaxAsk,
         Rate!Admit(c, n) \/ Rate!Refuse(c, n)
  PROVE  Rate!TypeOK'
<1>1. Rate!Current(c) \in [count : 0..Limit, start : 0..MaxClock]
  BY CurrentType
<1>2. /\ now \in 0..MaxClock /\ now' = now
      /\ admitted \in [Callers -> [0..MaxClock -> Nat]]
  BY DEF Rate!TypeOK, Rate!Admit, Rate!Refuse
<1>3. CASE Rate!Admit(c, n)
  <2> DEFINE counter == [Rate!Current(c) EXCEPT !.count = @ + n]
  <2>1. counter \in [count : 0..Limit, start : 0..MaxClock]
    BY <1>1, <1>3, GatewayAssumption DEF Rate!Admit
  <2>2. Rate!Store(c, counter)
    BY <1>3 DEF Rate!Admit
  <2> HIDE DEF counter
  <2>3. /\ DOMAIN counters' \subseteq Callers
        /\ counters' \in [DOMAIN counters' -> [count : 0..Limit, start : 0..MaxClock]]
    BY <2>1, <2>2, StoreType
  <2>4. admitted' \in [Callers -> [0..MaxClock -> Nat]]
    <3> DEFINE more == [t \in 0..MaxClock |-> IF t < now THEN admitted[c][t] ELSE admitted[c][t] + n]
    <3>1. admitted' = [admitted EXCEPT ![c] = more]
      BY <1>3 DEF Rate!Admit, Rate!Record
    <3>2. more \in [0..MaxClock -> Nat]
      BY <1>2, GatewayAssumption
    <3> QED BY <1>2, <3>1, <3>2
  <2>5. verdict' \in [asked : 1..MaxAsk, caller : Callers, ok : BOOLEAN]
    BY <1>3 DEF Rate!Admit
  <2> QED BY <1>2, <2>3, <2>4, <2>5 DEF Rate!TypeOK
<1>4. CASE Rate!Refuse(c, n)
  <2>1. Rate!Store(c, Rate!Current(c)) /\ admitted' = admitted
    BY <1>4 DEF Rate!Refuse
  <2>2. /\ DOMAIN counters' \subseteq Callers
        /\ counters' \in [DOMAIN counters' -> [count : 0..Limit, start : 0..MaxClock]]
    BY <1>1, <2>1, StoreType
  <2>3. verdict' \in [asked : 1..MaxAsk, caller : Callers, ok : BOOLEAN]
    BY <1>4 DEF Rate!Refuse
  <2> QED BY <1>2, <2>1, <2>2, <2>3 DEF Rate!TypeOK
<1> QED BY <1>3, <1>4

\* A tick, and a request that does not come to the limiter, keep its types.
LEMMA QuietType ==
  ASSUME Rate!TypeOK, Invalid \/ Rate!Tick \/ UNCHANGED rate
  PROVE  Rate!TypeOK'
BY GatewayAssumption DEF Rate!TypeOK, Invalid, Rate!Tick, rate, Rate!Silence

-----------------------------------------------------------------------------
(* The inductive invariant *)

HasFile == args.file \in Files

Pairs(upTo) == {k \in DOMAIN args.file : k < upTo /\ args.file[k].is = "pair"}

\* The map is that of the lines read so far, and of nothing if there is no file.
MapOfLinesRead ==
  /\ HasFile =>
       /\ line \in 1..(Len(args.file) + 1)
       /\ DOMAIN tokenMap = {args.file[k].token : k \in Pairs(line)}
       /\ \A k \in Pairs(line) : tokenMap[args.file[k].token] = args.file[k].caller
  /\ ~HasFile => tokenMap = <<>>
  /\ IsFiniteSet({tokenMap[t] : t \in DOMAIN tokenMap})

\* Beyond loading, the file has been read to its end, and there is one exactly
\* where there must be one.
LoadedWhole ==
  pc \in {"client", "build", "serving"} =>
    /\ HasFile <=> args.transport = "http"
    /\ args.file # Unreadable
    /\ HasFile => line = Len(args.file) + 1

SoftCapForTwo ==
  pc = "serving" =>
    (softCap <=> Cardinality({tokenMap[t] : t \in DOMAIN tokenMap}) >= 2)

\* A conversion over HTTP was admitted by the limiter's last answer.
StartedWasPaid ==
  (started # NothingStarted /\ args.transport = "http") =>
    /\ started.source = "content"
    /\ verdict = [asked |-> started.n, caller |-> started.caller, ok |-> TRUE]

ArgsType ==
  /\ args \in [transport : {"stdio", "http"}, file : Files \cup {NoFile, Unreadable},
               batch : Batches]
  /\ pc = "load" => args.transport = "http" /\ args.file # NoFile

IInv == TypeOK /\ ArgsType /\ MapOfLinesRead /\ LoadedWhole /\ SoftCapForTwo /\ StartedWasPaid

LEMMA FileFacts ==
  ASSUME NEW f \in Files
  PROVE  /\ Len(f) \in Nat /\ DOMAIN f = 1..Len(f)
         /\ f # NoFile /\ f # Unreadable
         /\ \A k \in DOMAIN f : f[k].is = "pair" => f[k].caller \in Callers \cup {Local, Empty}
<1>1. f \in Seq({f[k] : k \in DOMAIN f})
  BY GatewayAssumption
<1>2. Len(f) \in Nat /\ DOMAIN f = 1..Len(f)
  BY <1>1
<1> QED BY <1>2, GatewayAssumption

LEMMA InitInvariant == Init => IInv
<1> SUFFICES ASSUME Init PROVE IInv
  OBVIOUS
<1>1. Rate!TypeOK
  BY GatewayAssumption DEF Init, Rate!Init, Rate!TypeOK
<1>2. DOMAIN tokenMap = {} /\ {tokenMap[t] : t \in DOMAIN tokenMap} = {}
  BY DEF Init
<1>3. TypeOK
  BY <1>1, <1>2 DEF Init, TypeOK
<1>4. IsFiniteSet({tokenMap[t] : t \in DOMAIN tokenMap})
  BY <1>2, FS_EmptySet
<1>5. MapOfLinesRead
  <2>1. HasFile => Pairs(line) = {} /\ line \in 1..(Len(args.file) + 1)
    BY FileFacts DEF Init, HasFile, Pairs
  <2> QED BY <1>2, <1>4, <2>1 DEF Init, MapOfLinesRead
<1>6. ArgsType /\ LoadedWhole /\ SoftCapForTwo /\ StartedWasPaid
  BY DEF Init, ArgsType, LoadedWhole, SoftCapForTwo, StartedWasPaid
<1> QED BY <1>3, <1>5, <1>6 DEF IInv

-----------------------------------------------------------------------------
(* The steps of start-up *)

\* A step that only moves on, or exits.
LEMMA MoveInvariant ==
  ASSUME IInv, UNCHANGED <<args, line, tokenMap, softCap, started, rate>>,
         \/ pc' = "exited" /\ code' \in {"usage", "missing dependency", "internal"}
         \/ /\ pc' \in {"load", "client", "build"} /\ code' = "none"
            /\ pc' = "load" => args.transport = "http" /\ args.file # NoFile
            /\ pc' \in {"client", "build"} =>
                 /\ HasFile <=> args.transport = "http"
                 /\ args.file # Unreadable
                 /\ HasFile => line = Len(args.file) + 1
  PROVE  IInv'
<1>1. Rate!TypeOK'
  BY QuietType DEF IInv, TypeOK
<1>2. TypeOK'
  BY <1>1 DEF IInv, TypeOK
<1>3. ArgsType' /\ LoadedWhole' /\ SoftCapForTwo'
  BY DEF IInv, ArgsType, LoadedWhole, SoftCapForTwo, HasFile
<1>4. MapOfLinesRead' /\ StartedWasPaid'
  BY DEF IInv, MapOfLinesRead, HasFile, Pairs, StartedWasPaid, rate
<1> QED BY <1>2, <1>3, <1>4 DEF IInv

LEMMA CheckArgsInvariant ==
  ASSUME IInv, CheckArgs
  PROVE  IInv'
<1>1. pc = "args" /\ code = "none" /\ line = line
  BY DEF CheckArgs, IInv, TypeOK
<1>2. CASE (args.transport = "http") = (args.file = NoFile)
  BY <1>2, MoveInvariant DEF CheckArgs, Exit
<1>3. CASE (args.transport = "http") # (args.file = NoFile)
  <2>1. /\ pc' = IF args.file = NoFile THEN "client" ELSE "load"
        /\ code' = "none" /\ UNCHANGED <<args, line, tokenMap, softCap, started, rate>>
    BY <1>1, <1>3 DEF CheckArgs, GoTo
  <2>2. CASE args.file = NoFile
    BY <1>3, <2>1, <2>2, GatewayAssumption, MoveInvariant DEF IInv, ArgsType, HasFile
  <2>3. CASE args.file # NoFile
    BY <1>3, <2>1, <2>3, MoveInvariant DEF IInv, ArgsType
  <2> QED BY <2>2, <2>3
<1> QED BY <1>2, <1>3

LEMMA ClientInvariant ==
  ASSUME IInv, ResolveClient
  PROVE  IInv'
<1>1. pc = "client" /\ code = "none"
  BY DEF ResolveClient, IInv, TypeOK
<1>2. UNCHANGED <<args, line, tokenMap, softCap, started, rate>>
  BY DEF ResolveClient, GoTo, Exit
<1>3. \/ pc' = "exited" /\ code' \in {"usage", "missing dependency", "internal"}
      \/ pc' = "build" /\ code' = "none"
  BY <1>1 DEF ResolveClient, GoTo, Exit
<1> QED BY <1>1, <1>2, <1>3, MoveInvariant DEF IInv, LoadedWhole

LEMMA BuildInvariant ==
  ASSUME IInv, Build
  PROVE  IInv'
<1>1. pc = "build" /\ code = "none"
  BY DEF Build, IInv, TypeOK
<1>2. ASSUME NEW why \in {"missing dependency", "internal"}, Exit(why) PROVE IInv'
  BY <1>2, MoveInvariant DEF Exit
<1>3. CASE /\ pc' = "serving"
           /\ softCap' = (Cardinality({tokenMap[t] : t \in DOMAIN tokenMap}) >= 2)
           /\ UNCHANGED <<args, code, line, tokenMap, started, rate>>
  <2>1. Rate!TypeOK'
    BY <1>3, QuietType DEF IInv, TypeOK
  <2>2. TypeOK'
    BY <1>1, <1>3, <2>1 DEF IInv, TypeOK
  <2>3. ArgsType' /\ LoadedWhole' /\ SoftCapForTwo'
    BY <1>1, <1>3 DEF IInv, ArgsType, LoadedWhole, SoftCapForTwo, HasFile
  <2>4. MapOfLinesRead' /\ StartedWasPaid'
    BY <1>3 DEF IInv, MapOfLinesRead, HasFile, Pairs, StartedWasPaid, rate
  <2> QED BY <2>2, <2>3, <2>4 DEF IInv
<1> QED BY <1>2, <1>3 DEF Build

\* A line that is passed over: it names nothing.
LEMMA BlankInvariant ==
  ASSUME IInv, pc = "load", HasFile, line <= Len(args.file),
         args.file[line].is # "pair",
         line' = line + 1, UNCHANGED <<args, pc, code, tokenMap, softCap, started, rate>>
  PROVE  IInv'
<1>1. Rate!TypeOK' /\ TypeOK /\ ArgsType /\ LoadedWhole /\ SoftCapForTwo /\ StartedWasPaid
  BY QuietType DEF IInv, TypeOK
<1>2. Pairs(line + 1) = Pairs(line)
  <2>1. line \in Nat
    BY FileFacts DEF IInv, MapOfLinesRead, HasFile
  <2>2. \A k \in DOMAIN args.file : k \in Nat
    BY FileFacts DEF HasFile
  <2> QED BY <2>1, <2>2 DEF Pairs
<1>3. Pairs(line)' = Pairs(line + 1)
  BY DEF Pairs
<1>4. MapOfLinesRead'
  <2>1. line' \in 1..(Len(args.file) + 1)
    BY FileFacts DEF IInv, MapOfLinesRead, HasFile
  <2>2. DOMAIN tokenMap' = {args.file[k].token : k \in Pairs(line)'}
    BY <1>2, <1>3 DEF IInv, MapOfLinesRead
  <2>3. \A k \in Pairs(line)' : tokenMap'[args.file[k].token] = args.file[k].caller
    BY <1>2, <1>3 DEF IInv, MapOfLinesRead
  <2>4. IsFiniteSet({tokenMap'[t] : t \in DOMAIN tokenMap'})
    BY DEF IInv, MapOfLinesRead
  <2> QED BY <2>1, <2>2, <2>3, <2>4 DEF MapOfLinesRead, HasFile
<1>5. TypeOK'
  BY <1>1 DEF TypeOK
<1>6. ArgsType' /\ LoadedWhole' /\ SoftCapForTwo' /\ StartedWasPaid'
  BY <1>1 DEF ArgsType, LoadedWhole, SoftCapForTwo, StartedWasPaid, rate
<1> QED BY <1>4, <1>5, <1>6 DEF IInv

\* A pair that is not refused enters the map: it agrees with what is there.
LEMMA PairInvariant ==
  ASSUME IInv, pc = "load", HasFile, line <= Len(args.file),
         args.file[line].is = "pair", ~Refused(args.file[line]), Enter(args.file[line]),
         line' = line + 1, UNCHANGED <<args, pc, code, softCap, started, rate>>
  PROVE  IInv'
<1> DEFINE pair == args.file[line]
<1>1. /\ TypeOK /\ MapOfLinesRead /\ ArgsType /\ LoadedWhole /\ SoftCapForTwo /\ StartedWasPaid
      /\ Rate!TypeOK'
  BY QuietType DEF IInv, TypeOK
<1>2. /\ line \in 1..Len(args.file) /\ line \in DOMAIN args.file
      /\ \A k \in DOMAIN args.file : k \in Nat
  BY <1>1, FileFacts DEF MapOfLinesRead, HasFile
<1>3. pair.token # Empty /\ pair.caller \in Callers
  BY <1>2, FileFacts DEF Refused, HasFile
<1>4. pair.token \in DOMAIN tokenMap => tokenMap[pair.token] = pair.caller
  BY DEF Refused
<1>5. /\ DOMAIN tokenMap' = DOMAIN tokenMap \cup {pair.token}
      /\ tokenMap'[pair.token] = pair.caller
      /\ \A t \in DOMAIN tokenMap : tokenMap'[t] = tokenMap[t]
  BY <1>4 DEF Enter
<1> HIDE DEF pair
<1>6. Pairs(line)' = Pairs(line) \cup {line}
  <2>1. Pairs(line)' = {k \in DOMAIN args.file : k < line + 1 /\ args.file[k].is = "pair"}
    BY DEF Pairs
  <2> QED BY <1>2, <2>1 DEF Pairs
<1>7. MapOfLinesRead'
  <2>1. line' \in 1..(Len(args.file) + 1)
    BY <1>2
  <2>2. DOMAIN tokenMap' = {args.file[k].token : k \in Pairs(line)'}
    <3>1. DOMAIN tokenMap = {args.file[k].token : k \in Pairs(line)}
      BY <1>1 DEF MapOfLinesRead
    <3>2. {args.file[k].token : k \in Pairs(line) \cup {line}}
            = {args.file[k].token : k \in Pairs(line)} \cup {pair.token}
      BY DEF pair
    <3> QED BY <1>5, <1>6, <3>1, <3>2
  <2>3. \A k \in Pairs(line)' : tokenMap'[args.file[k].token] = args.file[k].caller
    <3>1. ASSUME NEW k \in Pairs(line)
          PROVE  tokenMap'[args.file[k].token] = args.file[k].caller
      BY <1>1, <1>5 DEF MapOfLinesRead
    <3>2. tokenMap'[args.file[line].token] = args.file[line].caller
      BY <1>5 DEF pair
    <3> QED BY <1>6, <3>1, <3>2
  <2>4. {tokenMap'[t] : t \in DOMAIN tokenMap'} = {tokenMap[t] : t \in DOMAIN tokenMap} \cup {pair.caller}
    BY <1>5
  <2>5. IsFiniteSet({tokenMap'[t] : t \in DOMAIN tokenMap'})
    <3>1. IsFiniteSet({tokenMap[t] : t \in DOMAIN tokenMap})
      BY <1>1 DEF MapOfLinesRead
    <3> QED BY <2>4, <3>1, FS_AddElement
  <2> QED BY <2>1, <2>2, <2>3, <2>5 DEF MapOfLinesRead, HasFile
<1>8. TypeOK'
  <2>1. \A t \in DOMAIN tokenMap' : t # Empty /\ tokenMap'[t] \in Callers
    BY <1>1, <1>3, <1>5 DEF TypeOK
  <2> QED BY <1>1, <2>1 DEF TypeOK
<1>9. ArgsType' /\ LoadedWhole' /\ SoftCapForTwo' /\ StartedWasPaid'
  BY <1>1 DEF ArgsType, LoadedWhole, SoftCapForTwo, StartedWasPaid, rate
<1> QED BY <1>7, <1>8, <1>9 DEF IInv

LEMMA ReadLineInvariant ==
  ASSUME IInv, ReadLine
  PROVE  IInv'
<1>1. pc = "load" /\ code = "none" /\ args.transport = "http"
  BY DEF ReadLine, IInv, TypeOK, ArgsType
<1>2. ASSUME Exit("usage") PROVE IInv'
  BY <1>2, MoveInvariant DEF Exit
<1>3. CASE args.file = Unreadable
  BY <1>2, <1>3 DEF ReadLine
<1>4. CASE HasFile /\ line > Len(args.file) /\ GoTo("client")
  <2>1. line = Len(args.file) + 1
    BY <1>4, FileFacts DEF IInv, MapOfLinesRead, HasFile
  <2>2. args.file # Unreadable
    BY <1>4, FileFacts DEF HasFile
  <2> QED BY <1>1, <1>4, <2>1, <2>2, MoveInvariant DEF GoTo
<1>5. CASE /\ HasFile /\ line <= Len(args.file)
           /\ line' = line + 1
           /\ IF args.file[line].is = "pair"
              THEN ~Refused(args.file[line]) /\ Enter(args.file[line])
              ELSE UNCHANGED tokenMap
           /\ UNCHANGED <<args, pc, code, softCap, started, rate>>
  <2>1. CASE args.file[line].is = "pair"
    <3>1. ~Refused(args.file[line]) /\ Enter(args.file[line])
      BY <1>5, <2>1
    <3>2. /\ HasFile /\ line <= Len(args.file) /\ line' = line + 1
          /\ UNCHANGED <<args, pc, code, softCap, started, rate>>
      BY <1>5
    <3>3. pc = "load"
      BY <1>1
    <3> QED BY <2>1, <3>1, <3>2, <3>3, PairInvariant
  <2>2. CASE args.file[line].is # "pair"
    BY <1>1, <1>5, <2>2, BlankInvariant
  <2> QED BY <2>1, <2>2
<1>6. HasFile \/ args.file = Unreadable
  BY <1>1 DEF ReadLine, IInv, ArgsType, HasFile
<1> QED
  <2> SUFFICES ASSUME HasFile, args.file # Unreadable PROVE IInv'
    BY <1>3, <1>6, FileFacts DEF HasFile
  <2>1. CASE line > Len(args.file) /\ GoTo("client")
    BY <1>4, <2>1
  <2>2. CASE /\ line <= Len(args.file)
             /\ (args.file[line].is = "other"
                 \/ (args.file[line].is = "pair" /\ Refused(args.file[line])))
             /\ Exit("usage")
    BY <1>2, <2>2
  <2>3. CASE /\ line <= Len(args.file)
             /\ ~(args.file[line].is = "other"
                  \/ (args.file[line].is = "pair" /\ Refused(args.file[line])))
             /\ line' = line + 1
             /\ IF args.file[line].is = "pair" THEN Enter(args.file[line]) ELSE UNCHANGED tokenMap
             /\ UNCHANGED <<args, pc, code, softCap, started, rate>>
    BY <1>5, <2>3
  <2> QED BY <2>1, <2>2, <2>3 DEF ReadLine
-----------------------------------------------------------------------------
(* The steps of a serving process *)

\* What a request or a tick leaves as it was.
LEMMA ServingFacts ==
  ASSUME IInv, pc = "serving", UNCHANGED startup, Rate!TypeOK',
         started' = NothingStarted
           \/ started' \in [n : 1..MaxAsk, caller : Callers \cup {Local}, source : Sources],
         StartedWasPaid'
  PROVE  IInv'
<1>1. TypeOK'
  BY DEF IInv, TypeOK, startup
<1>2. ArgsType' /\ LoadedWhole' /\ SoftCapForTwo'
  BY DEF IInv, ArgsType, LoadedWhole, SoftCapForTwo, HasFile, startup
<1>3. MapOfLinesRead'
  BY DEF IInv, MapOfLinesRead, HasFile, Pairs, startup
<1> QED BY <1>1, <1>2, <1>3 DEF IInv

LEMMA TickInvariant ==
  ASSUME IInv, Tick
  PROVE  IInv'
<1>1. Rate!TypeOK'
  BY QuietType DEF Tick, IInv, TypeOK
<1>2. StartedWasPaid'
  BY DEF Tick, StartedWasPaid
<1> QED BY <1>1, <1>2, ServingFacts DEF Tick

LEMMA AdmissionInvariant ==
  ASSUME IInv, pc = "serving", UNCHANGED startup, NEW c \in Identities, NEW n \in 1..MaxAsk,
         NEW source \in Sources, WellShaped(source), Admission(c, n, source)
  PROVE  IInv'
<1>1. args.transport \in {"stdio", "http"} /\ args' = args
  BY DEF IInv, ArgsType, startup
<1>2. ASSUME args.transport = "http" PROVE c \in Callers
  BY <1>2 DEF Identities, IInv, TypeOK
<1>3. CASE /\ args.transport = "http"
           /\ Rate!Admit(c, n)
           /\ started' = [n |-> n, caller |-> c, source |-> source]
  <2>1. Rate!TypeOK'
    BY <1>2, <1>3, AnswerType DEF IInv, TypeOK
  <2>2. source = "content"
    BY <1>3 DEF WellShaped
  <2>3. verdict' = [asked |-> n, caller |-> c, ok |-> TRUE]
    BY <1>3 DEF Rate!Admit
  <2>4. StartedWasPaid'
    BY <1>1, <1>3, <2>2, <2>3 DEF StartedWasPaid
  <2> QED BY <1>2, <1>3, <2>1, <2>4, ServingFacts
<1>4. CASE /\ args.transport = "http"
           /\ Rate!Refuse(c, n)
           /\ started' = NothingStarted
  <2>1. Rate!TypeOK'
    BY <1>2, <1>4, AnswerType DEF IInv, TypeOK
  <2>2. StartedWasPaid'
    BY <1>4 DEF StartedWasPaid
  <2> QED BY <1>4, <2>1, <2>2, ServingFacts
<1>5. CASE /\ args.transport = "stdio"
           /\ started' = [n |-> n, caller |-> c, source |-> source]
           /\ UNCHANGED rate
  <2>1. Rate!TypeOK'
    BY <1>5, QuietType DEF IInv, TypeOK
  <2>2. StartedWasPaid'
    BY <1>1, <1>5 DEF StartedWasPaid
  <2>3. c = Local
    BY <1>5 DEF Identities
  <2> QED BY <1>5, <2>1, <2>2, <2>3, ServingFacts
<1> QED BY <1>3, <1>4, <1>5 DEF Admission

LEMMA RequestInvariant ==
  ASSUME IInv, NEW c \in Identities, NEW tool, NEW n \in Int, NEW source \in Sources,
         Request(c, tool, n, source)
  PROVE  IInv'
<1>1. pc = "serving" /\ UNCHANGED startup
  BY DEF Request
<1>2. CASE SizeOk(tool, n) /\ WellShaped(source)
  <2>1. n \in 1..MaxAsk
    <3>1. args.batch \in 0..MaxAsk /\ MaxAsk \in Nat \ {0}
      BY GatewayAssumption DEF IInv, ArgsType
    <3>2. n = 1 \/ n \in 1..args.batch
      BY <1>2 DEF SizeOk
    <3> QED BY <3>1, <3>2
  <2>2. Admission(c, n, source)
    BY <1>2 DEF Request
  <2> QED BY <1>1, <1>2, <2>1, <2>2, AdmissionInvariant
<1>3. CASE ~(SizeOk(tool, n) /\ WellShaped(source))
  <2>1. Invalid
    BY <1>3 DEF Request
  <2>2. Rate!TypeOK'
    BY <2>1, QuietType DEF IInv, TypeOK
  <2>3. StartedWasPaid' /\ started' = NothingStarted
    BY <2>1 DEF Invalid, StartedWasPaid
  <2> QED BY <1>1, <2>2, <2>3, ServingFacts
<1> QED BY <1>2, <1>3

LEMMA NextInvariant == IInv /\ [Next]_vars => IInv'
<1> SUFFICES ASSUME IInv, [Next]_vars PROVE IInv'
  OBVIOUS
<1>1. CASE UNCHANGED vars
  <2>1. Rate!TypeOK'
    BY <1>1, QuietType DEF IInv, TypeOK, vars
  <2>2. TypeOK' /\ ArgsType'
    BY <1>1, <2>1 DEF vars, startup, IInv, TypeOK, ArgsType
  <2>4. LoadedWhole' /\ SoftCapForTwo'
    BY <1>1 DEF vars, startup, IInv, LoadedWhole, SoftCapForTwo, HasFile
  <2>5. StartedWasPaid'
    BY <1>1 DEF vars, startup, rate, IInv, StartedWasPaid
  <2>3. MapOfLinesRead'
    BY <1>1 DEF vars, startup, IInv, MapOfLinesRead, HasFile, Pairs
  <2> QED BY <2>2, <2>3, <2>4, <2>5 DEF IInv
<1>2. CASE CheckArgs \/ ReadLine \/ ResolveClient \/ Build \/ Tick
  BY <1>2, CheckArgsInvariant, ReadLineInvariant, ClientInvariant, BuildInvariant, TickInvariant
<1>3. ASSUME NEW c \in Identities, NEW tool, NEW n \in Int, NEW source \in Sources,
             Request(c, tool, n, source)
      PROVE  IInv'
  BY <1>3, RequestInvariant
<1>4. 0..MaxAsk \subseteq Int /\ 1 \in Int
  OBVIOUS
<1> QED BY <1>1, <1>2, <1>3, <1>4 DEF Next

\* The invariant holds in every state of every behaviour.
THEOREM Invariance == Spec => []IInv
BY InitInvariant, NextInvariant, PTL DEF Spec

-----------------------------------------------------------------------------
(* The properties *)

\* The types of start-up, requests and counters: nobody's count passes the rate.
THEOREM GatewayTypes == Spec => []TypeOK
<1>1. IInv => TypeOK
  BY DEF IInv
<1> QED BY <1>1, Invariance, PTL

\* A finite set has two elements if and only if it has two different ones.
LEMMA TwoOrMore ==
  ASSUME NEW S, IsFiniteSet(S)
  PROVE  Cardinality(S) >= 2 <=> \E c, d \in S : c # d
<1>1. Cardinality(S) \in Nat
  BY FS_CardinalityType
<1>2. Cardinality(S) = 0 <=> S = {}
  BY FS_EmptySet
<1>3. Cardinality(S) = 1 <=> \E x : S = {x}
  BY FS_Singleton
<1>4. (\E c, d \in S : c # d) <=> (S # {} /\ ~ \E x : S = {x})
  OBVIOUS
<1> DEFINE One == \E x : S = {x}
<1>5. Cardinality(S) = 1 <=> One
  BY <1>3
<1> HIDE DEF One
<1>6. Cardinality(S) >= 2 <=> (S # {} /\ ~One)
  BY <1>1, <1>2, <1>5
<1> QED BY <1>4, <1>6, Zenon DEF One

\* Over HTTP, the map of tokens is what the whole file says.
LEMMA FileIsMap ==
  ASSUME IInv, pc = "serving", args.transport = "http"
  PROVE  /\ DOMAIN tokenMap = TokensNamed
         /\ \A t \in TokensNamed : Named(t) = {tokenMap[t]}
<1>1. /\ HasFile /\ line = Len(args.file) + 1
      /\ DOMAIN tokenMap = {args.file[k].token : k \in Pairs(line)}
      /\ \A k \in Pairs(line) : tokenMap[args.file[k].token] = args.file[k].caller
  BY DEF IInv, LoadedWhole, MapOfLinesRead
<1>2. Pairs(line) = {k \in DOMAIN args.file : args.file[k].is = "pair"}
  BY <1>1, FileFacts DEF Pairs, HasFile
<1>3. DOMAIN tokenMap = TokensNamed
  BY <1>1, <1>2 DEF TokensNamed
<1>4. ASSUME NEW t \in TokensNamed PROVE Named(t) = {tokenMap[t]}
  <2>1. Named(t) = {args.file[k].caller : k \in {l \in Pairs(line) : args.file[l].token = t}}
    BY <1>1, <1>2, FileFacts DEF Named, HasFile
  <2>2. PICK k \in Pairs(line) : args.file[k].token = t
    BY <1>2 DEF TokensNamed
  <2> QED BY <1>1, <2>1, <2>2
<1> QED BY <1>3, <1>4

\* Over HTTP the server acts for the callers of its token file and for no one
\* else, and what it converts was paid for.
THEOREM ActsForFileOnly == Spec => []CallersAreTheFiles
<1>1. ASSUME IInv PROVE CallersAreTheFiles
  <2> SUFFICES ASSUME pc = "serving", args.transport = "http"
               PROVE  /\ DOMAIN tokenMap = TokensNamed
                      /\ \A t \in TokensNamed : Named(t) = {tokenMap[t]}
                      /\ Local \notin Identities
                      /\ softCap <=> \E c, d \in Identities : c # d
                      /\ started # NothingStarted =>
                           /\ started.source = "content"
                           /\ verdict = [asked |-> started.n, caller |-> started.caller, ok |-> TRUE]
    BY DEF CallersAreTheFiles
  <2>1. Identities = {tokenMap[t] : t \in DOMAIN tokenMap}
    BY DEF Identities
  <2>2. Local \notin Identities
    BY <1>1, <2>1, GatewayAssumption DEF IInv, TypeOK
  <2>3. softCap <=> \E c, d \in Identities : c # d
    <3>1. IsFiniteSet(Identities) /\ (softCap <=> Cardinality(Identities) >= 2)
      BY <1>1, <2>1 DEF IInv, MapOfLinesRead, SoftCapForTwo
    <3> QED BY <3>1, TwoOrMore
  <2> QED BY <1>1, <2>2, <2>3, FileIsMap DEF IInv, StartedWasPaid
<1> QED BY <1>1, Invariance, PTL

-----------------------------------------------------------------------------
(* The rate of a caller: the inductive invariant *)

Got(c, t) == Rate!GrantedBy(c, t)

\* What was granted only grows with time, and is known up to now.
Cumulative(c) ==
  /\ \A t \in 0..MaxClock : \A s \in 0..t : admitted[c][s] <= admitted[c][t]
  /\ \A t \in now..MaxClock : admitted[c][t] = admitted[c][now]

\* A window's counter counts what was granted since its start, all of it within
\* the window; and in the stretch before its start no more than the rate was
\* granted, all of it in the window before.
Accounts(c, w) ==
  /\ w.start <= now
  /\ w.count = Got(c, now) - Got(c, w.start - 1)
  /\ Got(c, w.start - 1) - Got(c, w.start - 1 - Window) <= Limit
  /\ \A t \in 0..MaxClock : t >= w.start + Window - 1 => admitted[c][t] = admitted[c][now]

CallerInv(c) ==
  /\ Cumulative(c)
  /\ c \notin DOMAIN counters => admitted[c][now] = 0
  /\ c \in DOMAIN counters => Accounts(c, counters[c])
  /\ \A t \in 0..MaxClock : Rate!Granted(c, t) <= 2 * Limit

LimitInv ==
  /\ \A c \in Callers : CallerInv(c)
  /\ Rate!RefusalEarned
  /\ (pc = "serving" /\ args.transport = "http") => args.batch <= Limit

-----------------------------------------------------------------------------
(* What was granted *)

LEMMA GotFacts ==
  ASSUME Rate!TypeOK, NEW c \in Callers, Cumulative(c)
  PROVE  /\ \A t \in Int : t <= MaxClock => Got(c, t) \in Nat
         /\ \A s, t \in Int : s <= t /\ t <= MaxClock => Got(c, s) <= Got(c, t)
         /\ \A t \in Int : now <= t /\ t <= MaxClock => Got(c, t) = Got(c, now)
         /\ now \in Int /\ now <= MaxClock /\ 0 <= now
<1>1. /\ now \in 0..MaxClock /\ MaxClock \in Nat
      /\ \A t \in 0..MaxClock : admitted[c][t] \in Nat
  BY GatewayAssumption DEF Rate!TypeOK
<1>2. \A t \in Int : Got(c, t) = IF t < 0 THEN 0 ELSE admitted[c][t]
  BY DEF Got, Rate!GrantedBy
<1>3. \A t \in Int : t <= MaxClock => Got(c, t) \in Nat
  BY <1>1, <1>2
<1>4. ASSUME NEW s \in Int, NEW t \in Int, s <= t, t <= MaxClock PROVE Got(c, s) <= Got(c, t)
  BY <1>1, <1>2, <1>3, <1>4 DEF Cumulative
<1>5. ASSUME NEW t \in Int, now <= t, t <= MaxClock PROVE Got(c, t) = Got(c, now)
  BY <1>1, <1>2, <1>5 DEF Cumulative
<1> QED BY <1>1, <1>3, <1>4, <1>5

\* The counter that an answer works with accounts for a window that is open.
LEMMA CurrentAccounts ==
  ASSUME Rate!TypeOK, NEW c \in Callers, CallerInv(c)
  PROVE  Accounts(c, Rate!Current(c)) /\ now - Rate!Current(c).start < Window
<1> DEFINE fresh == [count |-> 0, start |-> now]
<1>1. /\ \A t \in Int : t <= MaxClock => Got(c, t) \in Nat
      /\ \A s, t \in Int : s <= t /\ t <= MaxClock => Got(c, s) <= Got(c, t)
      /\ \A t \in Int : now <= t /\ t <= MaxClock => Got(c, t) = Got(c, now)
      /\ now \in Int /\ now <= MaxClock /\ 0 <= now
  BY GotFacts DEF CallerInv
<1>2. Window \in Nat \ {0} /\ Limit \in Nat /\ MaxClock \in Nat
  BY GatewayAssumption
<1>3. \A t \in 0..MaxClock : t >= now + Window - 1 => admitted[c][t] = admitted[c][now]
  BY <1>1, <1>2 DEF CallerInv, Cumulative
<1>4. CASE c \notin DOMAIN counters
  <2>1. Rate!Current(c) = fresh
    BY <1>1, <1>2, <1>4 DEF Rate!Current
  <2>2. Got(c, now) = 0
    BY <1>1, <1>4 DEF CallerInv, Got, Rate!GrantedBy
  <2>3. Got(c, now - 1) = 0 /\ Got(c, now - 1 - Window) = 0
    <3>1. /\ Got(c, now - 1) <= Got(c, now) /\ Got(c, now - 1) \in Nat
          /\ Got(c, now - 1 - Window) <= Got(c, now) /\ Got(c, now - 1 - Window) \in Nat
      BY <1>1, <1>2
    <3> QED BY <2>2, <3>1
  <2> QED BY <1>1, <1>2, <1>3, <2>1, <2>2, <2>3 DEF Accounts
<1>5. CASE c \in DOMAIN counters
  <2>1. Accounts(c, counters[c]) /\ counters[c].start \in 0..MaxClock /\ counters[c].count \in 0..Limit
    BY <1>5 DEF CallerInv, Rate!TypeOK
  <2>2. CASE now - counters[c].start < Window
    <3>1. Rate!Current(c) = counters[c]
      BY <1>1, <1>2, <1>5, <2>1, <2>2 DEF Rate!Current
    <3> QED BY <2>1, <2>2, <3>1
  <2>3. CASE now - counters[c].start >= Window
    <3> DEFINE s == counters[c].start
    <3>1. Rate!Current(c) = fresh
      BY <1>5, <2>3 DEF Rate!Current
    <3>2. Got(c, now - 1) = Got(c, now)
      BY <1>1, <1>2, <2>1, <2>3 DEF Accounts, Got, Rate!GrantedBy
    <3>3. Got(c, now) - Got(c, s - 1) <= Limit
      BY <1>2, <2>1 DEF Accounts
    <3>4. Got(c, s - 1) <= Got(c, now - 1 - Window)
      BY <1>1, <1>2, <2>1, <2>3
    <3>5. Got(c, now - 1) - Got(c, now - 1 - Window) <= Limit
      <4>1. /\ Got(c, s - 1) \in Int /\ Got(c, now) \in Int
            /\ Got(c, now - 1) \in Int /\ Got(c, now - 1 - Window) \in Int
        BY <1>1, <1>2, <2>1
      <4> QED BY <1>2, <3>2, <3>3, <3>4, <4>1
    <3> QED BY <1>1, <1>2, <1>3, <3>1, <3>2, <3>5 DEF Accounts
  <2>4. now - counters[c].start \in Int /\ Window \in Int
    BY <1>1, <1>2, <2>1
  <2> QED BY <2>2, <2>3, <2>4
<1> QED BY <1>4, <1>5

-----------------------------------------------------------------------------
(* The rate of a caller: the steps *)

\* A caller of whom nothing changes, time aside.
LEMMA CallerStays ==
  ASSUME Rate!TypeOK, NEW c \in Callers, CallerInv(c),
         now' \in now..MaxClock, admitted'[c] = admitted[c],
         c \in DOMAIN counters' <=> c \in DOMAIN counters,
         c \in DOMAIN counters => counters'[c] = counters[c]
  PROVE  CallerInv(c)'
<1>1. \A t : Got(c, t)' = Got(c, t) /\ Rate!Granted(c, t)' = Rate!Granted(c, t)
  BY DEF Got, Rate!GrantedBy, Rate!Granted
<1>2. now \in 0..MaxClock /\ MaxClock \in Nat
  BY GatewayAssumption DEF Rate!TypeOK
<1>3. admitted[c][now'] = admitted[c][now] /\ Got(c, now') = Got(c, now)
  BY <1>2, GotFacts DEF CallerInv, Cumulative
<1>4. Cumulative(c)'
  BY <1>2, <1>3 DEF CallerInv, Cumulative
<1>5. ASSUME c \in DOMAIN counters' PROVE Accounts(c, counters[c])'
  <2>1. Accounts(c, counters[c]) /\ counters[c].start \in 0..MaxClock /\ counters'[c] = counters[c]
    BY <1>5 DEF CallerInv, Rate!TypeOK
  <2>2. Got(c, now)' = Got(c, now)
    BY <1>1, <1>3 DEF Got, Rate!GrantedBy
  <2> QED BY <1>1, <1>2, <1>3, <2>1, <2>2 DEF Accounts
<1> QED BY <1>1, <1>3, <1>4, <1>5 DEF CallerInv

\* A refusal stores the open window.
LEMMA RefuseInvariant ==
  ASSUME Rate!TypeOK, NEW c \in Callers, NEW n \in 1..MaxAsk, CallerInv(c), Rate!Refuse(c, n)
  PROVE  CallerInv(c)' /\ Rate!RefusalEarned'
<1> DEFINE k == Rate!Current(c)
<1>1. Accounts(c, k) /\ now - k.start < Window /\ k \in [count : 0..Limit, start : 0..MaxClock]
  BY CurrentAccounts, CurrentType
<1>2. /\ now' = now /\ admitted' = admitted /\ c \in DOMAIN counters' /\ counters'[c] = k
      /\ verdict' = [asked |-> n, caller |-> c, ok |-> FALSE] /\ k.count + n > Limit
  BY DEF Rate!Refuse, Rate!Store
<1> HIDE DEF k
<1>3. CallerInv(c)'
  BY <1>1, <1>2 DEF CallerInv, Cumulative, Accounts, Got, Rate!GrantedBy, Rate!Granted
<1>4. Rate!Granted(c, now) + n > Limit
  <2>1. /\ Got(c, k.start - 1) >= Got(c, now - Window)
        /\ Got(c, k.start - 1) \in Int /\ Got(c, now - Window) \in Int /\ Got(c, now) \in Int
    <3>1. /\ \A t \in Int : t <= MaxClock => Got(c, t) \in Nat
          /\ \A s, t \in Int : s <= t /\ t <= MaxClock => Got(c, s) <= Got(c, t)
      BY GotFacts DEF CallerInv
    <3>2. now \in 0..MaxClock /\ MaxClock \in Nat /\ Window \in Nat
      BY GatewayAssumption DEF Rate!TypeOK
    <3>3. k.start \in 0..MaxClock /\ now - k.start < Window
      BY <1>1
    <3>4. /\ k.start - 1 \in Int /\ k.start - 1 <= MaxClock
          /\ now - Window \in Int /\ now - Window <= k.start - 1 /\ now - Window <= MaxClock
      BY <3>2, <3>3
    <3>5. now \in Int /\ now <= MaxClock
      BY <3>2
    <3> QED BY <3>1, <3>4, <3>5
  <2>2. Rate!Granted(c, now) = Got(c, now) - Got(c, now - Window)
    BY DEF Rate!Granted, Got
  <2>3. k.count = Got(c, now) - Got(c, k.start - 1)
    BY <1>1 DEF Accounts
  <2> QED BY <1>1, <1>2, <2>1, <2>2, <2>3, GatewayAssumption
<1>5. Rate!Granted(c, now)' = Rate!Granted(c, now)
  BY <1>2 DEF Rate!Granted, Rate!GrantedBy
<1> QED BY <1>2, <1>3, <1>4, <1>5 DEF Rate!RefusalEarned

\* An admission adds to the open window, and to what was granted from now on.
LEMMA AdmitInvariant ==
  ASSUME Rate!TypeOK, NEW c \in Callers, NEW n \in 1..MaxAsk, CallerInv(c), Rate!Admit(c, n)
  PROVE  CallerInv(c)' /\ Rate!RefusalEarned'
<1> PICK k : k = Rate!Current(c)
  OBVIOUS
<1> PICK j : j = [k EXCEPT !.count = @ + n]
  OBVIOUS
<1>1. Accounts(c, k) /\ now - k.start < Window /\ k \in [count : 0..Limit, start : 0..MaxClock]
  BY CurrentAccounts, CurrentType
<1>2. /\ now' = now /\ c \in DOMAIN counters' /\ counters'[c] = j
      /\ verdict' = [asked |-> n, caller |-> c, ok |-> TRUE] /\ k.count + n <= Limit
  BY DEF Rate!Admit, Rate!Store
<1>3. j.start = k.start /\ j.count = k.count + n
  BY <1>1
<1>4. /\ \A t \in Int : t <= MaxClock => Got(c, t) \in Nat
      /\ \A s, t \in Int : s <= t /\ t <= MaxClock => Got(c, s) <= Got(c, t)
      /\ \A t \in Int : now <= t /\ t <= MaxClock => Got(c, t) = Got(c, now)
      /\ now \in Int /\ now <= MaxClock /\ 0 <= now
  BY GotFacts DEF CallerInv
<1>5. /\ Window \in Nat \ {0} /\ Limit \in Nat /\ MaxClock \in Nat /\ n \in Nat
      /\ k.start \in Int /\ 0 <= k.start /\ k.start <= now /\ k.count \in Int
  BY <1>1, GatewayAssumption DEF Accounts
<1>6. \A t \in 0..MaxClock : admitted'[c][t] = IF t < now THEN admitted[c][t] ELSE admitted[c][t] + n
  BY DEF Rate!TypeOK, Rate!Admit, Rate!Record
<1>7. \A t \in Int : t <= MaxClock => Got(c, t)' = IF t < now THEN Got(c, t) ELSE Got(c, t) + n
  BY <1>2, <1>4, <1>6 DEF Got, Rate!GrantedBy
<1>8. \A t \in 0..MaxClock : admitted[c][t] = Got(c, t) /\ admitted'[c][t] = Got(c, t)'
  BY DEF Got, Rate!GrantedBy
<1>9. Cumulative(c)'
  <2>1. ASSUME NEW t \in 0..MaxClock, NEW s \in 0..t PROVE admitted'[c][s] <= admitted'[c][t]
    BY <1>4, <1>5, <1>7, <1>8
  <2>2. ASSUME NEW t \in now..MaxClock PROVE admitted'[c][t] = admitted'[c][now]
    BY <1>4, <1>5, <1>7, <1>8
  <2> QED BY <1>2, <2>1, <2>2 DEF Cumulative
<1>10. Accounts(c, j)'
  <2>1. j.count = Got(c, now)' - Got(c, j.start - 1)'
    <3>1. k.count = Got(c, now) - Got(c, k.start - 1)
      BY <1>1 DEF Accounts
    <3>2. Got(c, now)' = Got(c, now) + n /\ Got(c, k.start - 1)' = Got(c, k.start - 1)
      BY <1>2, <1>4, <1>5, <1>7 DEF Got
    <3>3. Got(c, now) \in Int /\ Got(c, k.start - 1) \in Int
      BY <1>4, <1>5
    <3> QED BY <1>3, <1>5, <3>1, <3>2, <3>3
  <2>2. Got(c, j.start - 1)' - Got(c, j.start - 1 - Window)' <= Limit
    <3>1. /\ Got(c, k.start - 1)' = Got(c, k.start - 1)
          /\ Got(c, k.start - 1 - Window)' = Got(c, k.start - 1 - Window)
      BY <1>4, <1>5, <1>7
    <3> QED BY <1>1, <1>3, <3>1 DEF Accounts
  <2>3. ASSUME NEW t \in 0..MaxClock, t >= j.start + Window - 1
        PROVE  admitted'[c][t] = admitted'[c][now]
    BY <1>1, <1>3, <1>4, <1>5, <1>7, <1>8, <2>3
  <2> QED BY <1>2, <1>3, <1>5, <2>1, <2>2, <2>3 DEF Accounts, Got, Rate!GrantedBy
<1>11. ASSUME NEW t \in 0..MaxClock PROVE Rate!Granted(c, t)' <= 2 * Limit
  <2>1. Rate!Granted(c, t)' = Got(c, t)' - Got(c, t - Window)'
    BY DEF Rate!Granted, Got
  <2>2. CASE t < now
    <3>1. Got(c, t)' = Got(c, t) /\ Got(c, t - Window)' = Got(c, t - Window)
      BY <1>4, <1>5, <1>7, <2>2
    <3> QED BY <2>1, <3>1 DEF CallerInv, Rate!Granted, Got
  <2>3. CASE t >= now /\ t - Window >= now
    <3>1. Got(c, t)' = Got(c, now) + n /\ Got(c, t - Window)' = Got(c, now) + n
      BY <1>4, <1>5, <1>7, <2>3
    <3> QED BY <1>4, <1>5, <2>1, <3>1
  <2>4. CASE t >= now /\ t - Window < now
    <3>1. Got(c, t)' = Got(c, now) + n /\ Got(c, t - Window)' = Got(c, t - Window)
      BY <1>4, <1>5, <1>7, <2>4
    <3>2. Got(c, now) + n - Got(c, k.start - 1) <= Limit
      <4>1. k.count = Got(c, now) - Got(c, k.start - 1)
        BY <1>1 DEF Accounts
      <4>2. Got(c, now) \in Int /\ Got(c, k.start - 1) \in Int
        BY <1>4, <1>5
      <4> QED BY <1>2, <1>5, <4>1, <4>2
    <3>3. Got(c, k.start - 1) - Got(c, t - Window) <= Limit
      <4>1. Got(c, k.start - 1) - Got(c, k.start - 1 - Window) <= Limit
        BY <1>1 DEF Accounts
      <4>2. Got(c, k.start - 1 - Window) <= Got(c, t - Window)
        BY <1>4, <1>5, <2>4
      <4>3. /\ Got(c, k.start - 1) \in Int /\ Got(c, k.start - 1 - Window) \in Int
            /\ Got(c, t - Window) \in Int
        BY <1>4, <1>5
      <4> QED BY <1>5, <4>1, <4>2, <4>3
    <3>4. /\ Got(c, now) \in Int /\ Got(c, k.start - 1) \in Int /\ Got(c, t - Window) \in Int
      BY <1>4, <1>5
    <3> QED BY <1>5, <2>1, <3>1, <3>2, <3>3, <3>4
  <2> QED BY <1>4, <1>5, <2>2, <2>3, <2>4
<1>12. Rate!RefusalEarned'
  BY <1>2 DEF Rate!RefusalEarned
<1> QED BY <1>2, <1>9, <1>10, <1>11, <1>12 DEF CallerInv

\* Nothing happens to a caller in an answer to another, a tick, a request that
\* does not come to the limiter, or start-up.
LEMMA AnswerInvariant ==
  ASSUME Rate!TypeOK, NEW c \in Callers, NEW n \in 1..MaxAsk, \A d \in Callers : CallerInv(d),
         Rate!Admit(c, n) \/ Rate!Refuse(c, n)
  PROVE  (\A d \in Callers : CallerInv(d)') /\ Rate!RefusalEarned'
<1>1. CallerInv(c)' /\ Rate!RefusalEarned'
  BY AdmitInvariant, RefuseInvariant
<1>2. ASSUME NEW d \in Callers, d # c PROVE CallerInv(d)'
  <2>1. now' = now /\ now \in 0..MaxClock
    BY DEF Rate!Admit, Rate!Refuse, Rate!TypeOK
  <2>2. admitted'[d] = admitted[d]
    BY <1>2 DEF Rate!Admit, Rate!Refuse, Rate!Record, Rate!TypeOK
  <2>3. /\ d \in DOMAIN counters' <=> d \in DOMAIN counters
        /\ d \in DOMAIN counters => counters'[d] = counters[d]
    BY <1>2 DEF Rate!Admit, Rate!Refuse, Rate!Store
  <2>4. now' \in now..MaxClock
    BY <2>1
  <2> QED BY <2>2, <2>3, <2>4, CallerStays
<1> QED BY <1>1, <1>2

LEMMA QuietInvariant ==
  ASSUME Rate!TypeOK, \A d \in Callers : CallerInv(d), Rate!RefusalEarned,
         Invalid \/ Rate!Tick \/ UNCHANGED rate
  PROVE  (\A d \in Callers : CallerInv(d)') /\ Rate!RefusalEarned'
<1>1. now \in 0..MaxClock /\ MaxClock \in Nat
  BY GatewayAssumption DEF Rate!TypeOK
<1>2. now' \in now..MaxClock /\ admitted' = admitted /\ counters' = counters
  BY <1>1 DEF Invalid, Rate!Tick, rate
<1>3. Rate!RefusalEarned'
  BY DEF Invalid, Rate!Tick, rate, Rate!RefusalEarned, Rate!Silence, Rate!Granted, Rate!GrantedBy
<1> QED BY <1>2, <1>3, CallerStays

LEMMA BatchType ==
  ASSUME IInv
  PROVE  args.batch \in 0..MaxAsk /\ args.batch \in Int /\ MaxAsk \in Nat
<1>1. args.batch \in 0..MaxAsk /\ MaxAsk \in Nat \ {0}
  BY GatewayAssumption DEF IInv, ArgsType
<1> QED BY <1>1

LEMMA LimitInit == Init => LimitInv
<1> SUFFICES ASSUME Init PROVE LimitInv
  OBVIOUS
<1>1. /\ counters = <<>> /\ now = 0 /\ verdict = Rate!Silence
      /\ admitted = [c \in Callers |-> [t \in 0..MaxClock |-> 0]] /\ pc = "args"
  BY DEF Init, Rate!Init
<1>2. ASSUME NEW c \in Callers PROVE CallerInv(c)
  <2>1. \A t \in 0..MaxClock : admitted[c][t] = 0
    BY <1>1
  <2>2. Cumulative(c) /\ admitted[c][now] = 0
    BY <1>1, <2>1, GatewayAssumption DEF Cumulative
  <2>3. \A t \in 0..MaxClock : Rate!Granted(c, t) <= 2 * Limit
    BY <2>1, GatewayAssumption DEF Rate!Granted, Rate!GrantedBy
  <2> QED BY <1>1, <2>2, <2>3 DEF CallerInv
<1> QED BY <1>1, <1>2 DEF LimitInv, Rate!RefusalEarned

\* Start-up does not touch the limiter, and ends in serving only if a batch of
\* the largest size fits in the rate.
LEMMA StartUpLimit ==
  ASSUME IInv, LimitInv, CheckArgs \/ ReadLine \/ ResolveClient \/ Build
  PROVE  LimitInv'
<1>1. UNCHANGED rate /\ args' = args
  BY DEF CheckArgs, ReadLine, ResolveClient, Build, Exit, GoTo
<1>2. (\A d \in Callers : CallerInv(d)') /\ Rate!RefusalEarned'
  BY <1>1, QuietInvariant DEF IInv, TypeOK, LimitInv
<1>3. ASSUME pc' = "serving", args.transport = "http" PROVE args.batch <= Limit
  <2>1. Build /\ pc = "build"
    BY <1>3 DEF CheckArgs, ReadLine, ResolveClient, Build, Exit, GoTo
  <2>2. args.file # NoFile
    BY <1>3, <2>1, GatewayAssumption DEF IInv, LoadedWhole, HasFile
  <2>3. ~(args.batch > Limit)
    BY <1>3, <2>1, <2>2 DEF Build, Exit
  <2>4. args.batch \in Int /\ Limit \in Int
    BY BatchType, GatewayAssumption
  <2> QED BY <2>3, <2>4
<1> QED BY <1>1, <1>2, <1>3 DEF LimitInv

LEMMA RequestLimit ==
  ASSUME IInv, LimitInv, NEW c \in Identities, NEW tool, NEW n \in Int, NEW source \in Sources,
         Request(c, tool, n, source)
  PROVE  LimitInv'
<1>1. UNCHANGED startup
  BY DEF Request
<1>2. (\A d \in Callers : CallerInv(d)') /\ Rate!RefusalEarned'
  <2>1. CASE Invalid \/ UNCHANGED rate
    BY <2>1, QuietInvariant DEF IInv, TypeOK, LimitInv
  <2>2. CASE ~(Invalid \/ UNCHANGED rate)
    <3>1. /\ args.transport = "http" /\ (Rate!Admit(c, n) \/ Rate!Refuse(c, n))
          /\ SizeOk(tool, n)
      BY <2>2 DEF Request, Admission
    <3>2. c \in Callers
      BY <3>1 DEF Identities, IInv, TypeOK
    <3>3. n \in 1..MaxAsk
      <4>1. n = 1 \/ n \in 1..args.batch
        BY <3>1 DEF SizeOk
      <4>2. MaxAsk \in Nat \ {0}
        BY GatewayAssumption
      <4> QED BY <4>1, <4>2, BatchType
    <3> QED BY <3>1, <3>2, <3>3, AnswerInvariant DEF IInv, TypeOK, LimitInv
  <2> QED BY <2>1, <2>2
<1> QED BY <1>1, <1>2 DEF startup, LimitInv

LEMMA LimitNext == IInv /\ LimitInv /\ [Next]_vars => LimitInv'
<1> SUFFICES ASSUME IInv, LimitInv, [Next]_vars PROVE LimitInv'
  OBVIOUS
<1>1. CASE UNCHANGED vars \/ Tick
  <2>1. (\A d \in Callers : CallerInv(d)') /\ Rate!RefusalEarned'
    BY <1>1, QuietInvariant DEF IInv, TypeOK, LimitInv, Tick, vars
  <2> QED BY <1>1, <2>1 DEF LimitInv, Tick, vars, startup
<1>2. CASE CheckArgs \/ ReadLine \/ ResolveClient \/ Build
  BY <1>2, StartUpLimit
<1>3. ASSUME NEW c \in Identities, NEW tool, NEW n \in Int, NEW source \in Sources,
             Request(c, tool, n, source)
      PROVE  LimitInv'
  BY <1>3, RequestLimit
<1>4. 0..MaxAsk \subseteq Int /\ 1 \in Int
  OBVIOUS
<1> QED BY <1>1, <1>2, <1>3, <1>4 DEF Next

-----------------------------------------------------------------------------
(* The rate of a caller: what holds of every behaviour *)

\* The limiter's invariant holds throughout.
THEOREM LimitInvariance == Spec => []LimitInv
BY LimitInit, LimitNext, Invariance, PTL DEF Spec

\* No caller gets more than twice its rate in any stretch of a window's length.
THEOREM BurstBounded == Spec => []BurstBound
<1>1. LimitInv => BurstBound
  BY DEF LimitInv, CallerInv, BurstBound, Rate!BurstBound
<1> QED BY <1>1, LimitInvariance, PTL

\* No caller is refused who has not spent its rate within the last window.
THEOREM RefusalsEarned == Spec => []RefusalEarned
<1>1. LimitInv => RefusalEarned
  BY DEF LimitInv, RefusalEarned
<1> QED BY <1>1, LimitInvariance, PTL

\* A serving process can admit its largest batch to a caller that was granted
\* nothing for the length of a window.
THEOREM LargestBatchFits == Spec => []FullBatchAdmissible
<1>1. ASSUME IInv, LimitInv PROVE FullBatchAdmissible
  <2> SUFFICES ASSUME pc = "serving", args.transport = "http", NEW c \in Identities,
                      Rate!Granted(c, now) = 0
               PROVE  Rate!Current(c).count + args.batch <= Limit
    BY DEF FullBatchAdmissible
  <2>1. c \in Callers /\ CallerInv(c) /\ Rate!TypeOK /\ args.batch <= Limit
    BY <1>1 DEF Identities, IInv, TypeOK, LimitInv
  <2> PICK k : k = Rate!Current(c)
    OBVIOUS
  <2>2. Accounts(c, k) /\ now - k.start < Window /\ k \in [count : 0..Limit, start : 0..MaxClock]
    BY <2>1, CurrentAccounts, CurrentType
  <2>3. /\ Got(c, k.start - 1) >= Got(c, now - Window)
        /\ Got(c, k.start - 1) \in Int /\ Got(c, now - Window) \in Int /\ Got(c, now) \in Int
    BY <2>1, <2>2, GotFacts, GatewayAssumption DEF CallerInv
  <2>4. Got(c, now) - Got(c, now - Window) = 0
    BY DEF Rate!Granted, Got
  <2>5. k.count = Got(c, now) - Got(c, k.start - 1)
    BY <2>2 DEF Accounts
  <2>6. k.count = 0
    BY <2>2, <2>3, <2>4, <2>5
  <2>7. args.batch \in Int
    BY <1>1, BatchType
  <2> QED BY <2>1, <2>6, <2>7
<1> QED BY <1>1, LimitInvariance, Invariance, PTL
=============================================================================
