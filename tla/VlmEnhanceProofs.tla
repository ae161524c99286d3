-------------------------- MODULE VlmEnhanceProofs --------------------------
(***************************************************************************)
(* VlmEnhance for any number of conversions, markers and losses: what is   *)
(* paid stays within the limit, what is cached stays free, and a verdict   *)
(* is not overwritten.                                                     *)
(***************************************************************************)
EXTENDS VlmEnhance, FiniteSetTheorems, TLAPS

-----------------------------------------------------------------------------
(* The inductive invariant *)

\* Where a conversion stands among its markers.
InPlace(c) ==
  /\ pc[c] = "idle" => at[c] = 1 /\ probed[c] = <<>> /\ cost[c] = 0
  /\ pc[c] \in {"idle", "probe"} => described[c] = {} /\ judged[c] = {} /\ filled[c] = {}
  /\ pc[c] = "probe" => cost[c] <= at[c] - 1 /\ limit[c] # NoLimit
  /\ pc[c] \in {"probe", "resolve"} => at[c] <= Len(doc[c]) + 1
  /\ pc[c] \in {"describe", "judge", "store"} => at[c] <= Len(doc[c])
  /\ pc[c] \in {"judge", "store"} => entry[c].hit
  /\ pc[c] = "store" /\ verify[c] => entry[c].judged
  /\ filled[c] \subseteq 1..(at[c] - 1)
  /\ described[c] \subseteq 1..at[c]
  /\ pc[c] = "resolve" => described[c] \subseteq 1..(at[c] - 1)

\* The markers among the first k that need a paid call, as pre-flight saw it.
Needed(c, k) == {i \in 1..k : NeedsPaidCall(c, probed[c][doc[c][i]])}

\* What is paid and what remains to be paid, after pre-flight.
Budget(c) ==
  limit[c] # NoLimit =>
    /\ pc[c] = "probe" => \A i \in 1..(at[c] - 1) : doc[c][i] \in DOMAIN probed[c]
    /\ pc[c] \in {"resolve", "describe", "judge", "store"} =>
         \A i \in DOMAIN doc[c] : doc[c][i] \in DOMAIN probed[c]
    /\ pc[c] = "describe" => at[c] \in Needed(c, Len(doc[c]))
    /\ pc[c] = "judge" => at[c] \in Needed(c, Len(doc[c])) \cup described[c]
    /\ IsInjective(doc[c]) =>
         /\ pc[c] = "probe" => cost[c] = Cardinality(Needed(c, at[c] - 1))
         /\ pc[c] \in {"resolve", "describe", "judge", "store"} =>
              Cardinality(Paid(c) \cup Needed(c, Len(doc[c]))) <= limit[c]
         /\ Cardinality(Paid(c)) <= limit[c]

\* What the cache held is still there, and what a conversion sees of it.
Fresh(c) ==
  losses = 0 =>
    /\ known[c] \subseteq DOMAIN cache
    /\ \A k \in DOMAIN probed[c] : ~probed[c][k].hit => k \notin known[c]
    /\ pc[c] = "describe" => Marker(c) \notin known[c]
    /\ \A j \in described[c] : doc[c][j] \notin known[c]
    /\ limit[c] = NoLimit =>
         /\ probed[c] = <<>>
         /\ \A i \in described[c] \cap filled[c] : doc[c][i] \in DOMAIN cache
         /\ pc[c] = "describe" => \A i \in described[c] \cap filled[c] : doc[c][i] # Marker(c)
         /\ \A i \in described[c] \cap filled[c], j \in described[c] :
              i < j => doc[c][i] # doc[c][j]

ConvInv(c) == InPlace(c) /\ Budget(c) /\ Fresh(c)

IInv == TypeOK /\ \A c \in Convs : ConvInv(c)

-----------------------------------------------------------------------------
(* Facts about documents and finite sets of positions *)

LEMMA DocumentFacts ==
  ASSUME NEW d \in Documents
  PROVE  /\ Len(d) \in 0..MaxLen /\ DOMAIN d = 1..Len(d)
         /\ \A i \in 1..Len(d) : d[i] \in Ids
<1>1. PICK n \in 0..MaxLen : d \in [1..n -> Ids]
  BY DEF Documents
<1>2. n \in Nat /\ n <= MaxLen
  BY EnhanceAssumption
<1>3. d \in Seq(Ids)
  BY <1>1, <1>2
<1>4. Len(d) = n
  BY <1>1, <1>2, <1>3
<1> QED BY <1>1, <1>2, <1>4

LEMMA PositionsFinite ==
  ASSUME NEW S, S \subseteq Positions
  PROVE  IsFiniteSet(S) /\ Cardinality(S) \in Nat
<1>1. IsFiniteSet(Positions)
  BY FS_Interval, EnhanceAssumption DEF Positions
<1>2. IsFiniteSet(S)
  BY <1>1, FS_Subset
<1> QED BY <1>2, FS_CardinalityType

\* A part of a set of positions is no larger.
LEMMA FewerPositions ==
  ASSUME NEW S, S \subseteq Positions, NEW T, T \subseteq S
  PROVE  Cardinality(T) <= Cardinality(S)
BY PositionsFinite, FS_Subset

\* The types that the steps of a conversion rest on.
LEMMA ConvTypes ==
  ASSUME TypeOK, NEW c \in Convs
  PROVE  /\ doc[c] \in Documents /\ Len(doc[c]) \in 0..MaxLen
         /\ DOMAIN doc[c] = 1..Len(doc[c])
         /\ \A i \in 1..Len(doc[c]) : doc[c][i] \in Ids
         /\ at[c] \in 1..(MaxLen + 1) /\ at[c] \in Nat
         /\ cost[c] \in 0..MaxLen /\ limit[c] \in Limits \cup {NoLimit}
         /\ limit[c] # NoLimit => limit[c] \in Nat
         /\ entry[c] \in Entry \cup {Miss}
         /\ described[c] \subseteq Positions /\ judged[c] \subseteq Positions
         /\ filled[c] \subseteq Positions
         /\ \A k : Needed(c, k) \subseteq 1..k
<1>1. doc[c] \in Documents /\ at[c] \in 1..(MaxLen + 1) /\ cost[c] \in 0..MaxLen
  BY DEF TypeOK
<1>2. /\ limit[c] \in Limits \cup {NoLimit} /\ entry[c] \in Entry \cup {Miss}
      /\ described[c] \subseteq Positions /\ judged[c] \subseteq Positions
      /\ filled[c] \subseteq Positions
  BY DEF TypeOK
<1>3. \A k : Needed(c, k) \subseteq 1..k
  BY DEF Needed
<1>4. at[c] \in Nat /\ (limit[c] # NoLimit => limit[c] \in Nat)
  <2>1. MaxLen \in Nat /\ Limits \subseteq Nat
    BY EnhanceAssumption
  <2>2. \A n \in 1..(MaxLen + 1) : n \in Nat
    BY <2>1
  <2>3. at[c] \in Nat
    BY <1>1, <2>2
  <2>4. limit[c] # NoLimit => limit[c] \in Nat
    BY <1>2, <2>1
  <2> QED BY <2>3, <2>4
<1> QED BY <1>1, <1>2, <1>3, <1>4, DocumentFacts

\* A look at the cache gives what it holds, unless a loss goes on record.
LEMMA CacheGetFacts ==
  ASSUME TypeOK, NEW id, NEW e \in Entry \cup {Miss}, CacheGet(id, e)
  PROVE  /\ losses' \in 0..MaxLosses
         /\ losses' = 0 => losses = 0 /\ (e.hit <=> id \in DOMAIN cache)
<1>1. cache \in [DOMAIN cache -> Entry] /\ losses \in 0..MaxLosses /\ MaxLosses \in Nat
  BY EnhanceAssumption DEF TypeOK
<1>2. CASE e = Held(id) /\ UNCHANGED losses
  <2>1. e.hit <=> id \in DOMAIN cache
    BY <1>1, <1>2 DEF Held, Entry, Miss
  <2> QED BY <1>1, <1>2, <2>1
<1>3. CASE e = Miss /\ Lose
  BY <1>1, <1>3 DEF Lose
<1> QED BY <1>2, <1>3 DEF CacheGet

LEMMA InitInvariant == Init => IInv
<1> SUFFICES ASSUME Init PROVE IInv
  OBVIOUS
<1>1. TypeOK
  <2>1. DOMAIN cache \subseteq Ids /\ cache \in [DOMAIN cache -> Entry]
    <3>1. PICK held \in SUBSET Ids : cache \in [held -> Entry]
      BY DEF Init
    <3> QED BY <3>1
  <2>2. <<>> \in Documents
    <3>1. <<>> \in [1..0 -> Ids] /\ 0 \in 0..MaxLen
      BY EnhanceAssumption
    <3> QED BY <3>1 DEF Documents
  <2> QED BY <2>1, <2>2, EnhanceAssumption DEF Init, TypeOK
<1>2. ASSUME NEW c \in Convs PROVE ConvInv(c)
  <2>1. InPlace(c)
    BY <1>2 DEF Init, InPlace
  <2>2. Budget(c) /\ Fresh(c)
    BY <1>2 DEF Init, Budget, Fresh
  <2> QED BY <2>1, <2>2 DEF ConvInv
<1> QED BY <1>1, <1>2 DEF IInv
-----------------------------------------------------------------------------
(* The conversions that do not move *)

Still(d) ==
  /\ pc'[d] = pc[d] /\ doc'[d] = doc[d] /\ verify'[d] = verify[d] /\ limit'[d] = limit[d]
  /\ at'[d] = at[d] /\ probed'[d] = probed[d] /\ cost'[d] = cost[d] /\ entry'[d] = entry[d]
  /\ filled'[d] = filled[d] /\ described'[d] = described[d] /\ judged'[d] = judged[d]
  /\ known'[d] = known[d]

\* The cache loses nothing, or the loss is on record.
LossesRecorded == losses' = 0 => losses = 0 /\ DOMAIN cache \subseteq DOMAIN cache'

LEMMA Bystander ==
  ASSUME NEW d \in Convs, ConvInv(d), Still(d), LossesRecorded
  PROVE  ConvInv(d)'
<1>1. InPlace(d)'
  BY DEF ConvInv, InPlace, Still
<1>2. \A k : Needed(d, k)' = Needed(d, k)
  BY DEF Needed, NeedsPaidCall, NeedsVerdict, Still
<1>3. Budget(d)'
  BY <1>2 DEF ConvInv, Budget, Still, Paid
<1>4. Fresh(d)'
  BY DEF ConvInv, Fresh, Still, Marker, LossesRecorded
<1> QED BY <1>1, <1>3, <1>4 DEF ConvInv

LEMMA LossesAreRecorded ==
  ASSUME TypeOK, NEW c \in Convs,
         Step(c) \/ (\E d, v, lim : Start(c, d, v, lim)) \/ (\E id \in Ids : Evict(id))
  PROVE  LossesRecorded
<1>1. losses \in Nat
  BY EnhanceAssumption DEF TypeOK
<1>2. CASE Store(c)
  BY <1>1, <1>2 DEF Store, CacheSet, Lose, LossesRecorded
<1>3. CASE UNCHANGED <<cache, losses>>
  BY <1>3 DEF LossesRecorded
<1>7. CASE Probe(c) \/ Look(c)
  <2>1. cache' = cache /\ (losses' = losses \/ Lose)
    BY <1>7 DEF Probe, Look, Resolve, CacheGet
  <2> QED BY <1>1, <2>1 DEF Lose, LossesRecorded
<1>4. CASE \E id \in Ids : Evict(id)
  BY <1>1, <1>4 DEF Evict, Lose, LossesRecorded
<1>5. CASE \E d, v, lim : Start(c, d, v, lim)
  BY <1>3, <1>5 DEF Start
<1>6. CASE Step(c) /\ ~Store(c)
  BY <1>3, <1>6, <1>7 DEF Step, Decide, NoPicture, Describe, Judge, Fail, Finish
<1> QED BY <1>2, <1>4, <1>5, <1>6

LEMMA OthersAreStill ==
  ASSUME TypeOK, NEW c \in Convs, NEW d \in Convs, d # c,
         Step(c) \/ (\E e, v, lim : Start(c, e, v, lim))
  PROVE  Still(d)
<1>1. \A place : Goto(c, place) => pc'[d] = pc[d]
  BY DEF Goto, TypeOK
<1>2. Skip(c) \/ Fill(c) => pc'[d] = pc[d] /\ at'[d] = at[d] /\ filled'[d] = filled[d]
  BY <1>1 DEF Skip, Fill, TypeOK
<1>3. CASE \E e, v, lim : Start(c, e, v, lim)
  BY <1>1, <1>3 DEF Start, Still, TypeOK
<1>4. CASE Probe(c)
  BY <1>4 DEF Probe, Still, TypeOK, local, history
<1>5. CASE Decide(c)
  BY <1>1, <1>5 DEF Decide, Still, TypeOK, local, history
<1>6. CASE Look(c)
  <2>1. PICK e : Resolve(c, e)
    BY <1>6 DEF Look
  <2>2. pc'[d] = pc[d] /\ at'[d] = at[d] /\ filled'[d] = filled[d] /\ entry'[d] = entry[d]
    BY <1>1, <1>2, <2>1 DEF Resolve, TypeOK
  <2> QED BY <2>1, <2>2 DEF Resolve, Still, local, history
<1>7. CASE NoPicture(c)
  BY <1>2, <1>7 DEF NoPicture, Still, TypeOK, local, history
<1>8. CASE Describe(c)
  BY <1>1, <1>2, <1>8 DEF Describe, Still, TypeOK, local
<1>9. CASE Judge(c)
  BY <1>1, <1>9 DEF Judge, Still, TypeOK, local
<1>10. CASE Store(c)
  BY <1>2, <1>10 DEF Store, Still, TypeOK, local, history
<1>11. CASE Fail(c) \/ Finish(c)
  BY <1>1, <1>11 DEF Fail, Finish, Still, TypeOK, local, history
<1> QED BY <1>3, <1>4, <1>5, <1>6, <1>7, <1>8, <1>9, <1>10, <1>11 DEF Step
-----------------------------------------------------------------------------
(* The conversion that moves: pre-flight *)

Places == {"idle", "probe", "resolve", "describe", "judge", "store", "done", "refused", "failed"}

LEMMA GotoType ==
  ASSUME TypeOK, NEW c \in Convs, NEW place \in Places, Goto(c, place)
  PROVE  pc' \in [Convs -> Places] /\ pc'[c] = place
BY DEF TypeOK, Goto, Places

LEMMA StartInvariant ==
  ASSUME IInv, NEW c \in Convs, NEW d \in Documents, NEW v \in BOOLEAN,
         NEW lim \in Limits \cup {NoLimit}, Start(c, d, v, lim)
  PROVE  TypeOK' /\ ConvInv(c)'
<1>1. TypeOK /\ InPlace(c) /\ pc[c] = "idle"
  BY DEF IInv, ConvInv, Start
<1>2. /\ at[c] = 1 /\ probed[c] = <<>> /\ cost[c] = 0
      /\ described[c] = {} /\ judged[c] = {} /\ filled[c] = {}
  BY <1>1 DEF InPlace
<1>3. /\ doc' = [doc EXCEPT ![c] = d] /\ verify' = [verify EXCEPT ![c] = v]
      /\ limit' = [limit EXCEPT ![c] = lim] /\ known' = [known EXCEPT ![c] = DOMAIN cache]
      /\ UNCHANGED <<cache, at, probed, cost, entry, filled, described, judged, losses>>
  BY DEF Start
<1>4. doc'[c] = d /\ limit'[c] = lim /\ known'[c] = DOMAIN cache
  BY <1>1, <1>3 DEF TypeOK
<1>5. /\ pc' \in [Convs -> Places]
      /\ pc'[c] \in {"probe", "resolve", "done"}
      /\ pc'[c] = "probe" => lim # NoLimit
      /\ pc'[c] = "resolve" => lim = NoLimit
  <2>1. CASE d # <<>> /\ Goto(c, IF lim = NoLimit THEN "resolve" ELSE "probe")
    <3>1. (IF lim = NoLimit THEN "resolve" ELSE "probe") \in Places
      BY DEF Places
    <3> QED BY <1>1, <2>1, <3>1, GotoType
  <2>2. CASE Goto(c, "done")
    <3>1. "done" \in Places
      BY DEF Places
    <3> QED BY <1>1, <2>2, <3>1, GotoType
  <2> QED BY <2>1, <2>2 DEF Start
<1>6. TypeOK'
  <2>1. known' \in [Convs -> SUBSET Ids]
    BY <1>1, <1>3 DEF TypeOK
  <2> QED BY <1>1, <1>3, <1>5, <2>1 DEF TypeOK, Places
<1>7. Len(d) \in Nat
  BY DocumentFacts, EnhanceAssumption
<1>8. InPlace(c)'
  BY <1>2, <1>3, <1>4, <1>5, <1>7 DEF InPlace
<1>9. Budget(c)'
  <2>1. Needed(c, at[c] - 1)' = {} /\ Paid(c)' = {} /\ Cardinality({}) = 0
    BY <1>2, <1>3, FS_EmptySet DEF Needed, Paid
  <2>2. lim # NoLimit => lim \in Nat
    BY EnhanceAssumption
  <2>3. at'[c] = 1 /\ cost'[c] = 0 /\ 1..(at'[c] - 1) = {}
    BY <1>2, <1>3
  <2>4. pc'[c] # "describe" /\ pc'[c] # "judge" /\ pc'[c] # "store"
    BY <1>5
  <2>5. ASSUME lim # NoLimit
        PROVE  /\ pc'[c] \notin {"resolve", "describe", "judge", "store"}
               /\ cost'[c] = Cardinality(Needed(c, at[c] - 1)')
               /\ Cardinality(Paid(c)') <= lim
    BY <1>5, <2>1, <2>2, <2>3, <2>4, <2>5
  <2> QED BY <1>4, <2>3, <2>4, <2>5 DEF Budget
<1>10. Fresh(c)'
  BY <1>2, <1>3, <1>4, <1>5 DEF Fresh
<1> QED BY <1>6, <1>8, <1>9, <1>10 DEF ConvInv

LEMMA ProbeInvariant ==
  ASSUME IInv, NEW c \in Convs, Probe(c)
  PROVE  TypeOK' /\ ConvInv(c)'
<1> DEFINE id == Marker(c)
           k == at[c]
           Pays(e) == IF NeedsPaidCall(c, e) THEN 1 ELSE 0
<1> PICK e \in Entry \cup {Miss} :
      /\ CacheGet(id, e)
      /\ probed' = [probed EXCEPT ![c] =
                      [j \in DOMAIN @ \cup {id} |-> IF j = id THEN e ELSE @[j]]]
      /\ cost' = [cost EXCEPT ![c] = @ + Pays(e)]
  BY DEF Probe
<1> DEFINE pays == Pays(e)
<1>1. TypeOK /\ InPlace(c) /\ Budget(c) /\ Fresh(c) /\ pc[c] = "probe" /\ at[c] <= Len(doc[c])
  BY DEF IInv, ConvInv, Probe
<1>2. /\ doc[c] \in Documents /\ Len(doc[c]) \in 0..MaxLen
      /\ DOMAIN doc[c] = 1..Len(doc[c])
      /\ at[c] \in 1..(MaxLen + 1) /\ at[c] \in Nat /\ cost[c] \in 0..MaxLen
      /\ limit[c] # NoLimit
  BY <1>1, ConvTypes DEF InPlace
<1>3. /\ described[c] = {} /\ judged[c] = {} /\ filled[c] = {} /\ cost[c] <= at[c] - 1
  BY <1>1 DEF InPlace
<1>4. /\ id \in Ids /\ losses' \in 0..MaxLosses
      /\ losses' = 0 => losses = 0 /\ (e.hit <=> id \in DOMAIN cache)
  BY <1>1, <1>2, ConvTypes, CacheGetFacts DEF Marker
<1>5. /\ probed' = [probed EXCEPT ![c] =
                      [j \in DOMAIN probed[c] \cup {id} |-> IF j = id THEN e ELSE probed[c][j]]]
      /\ cost' = [cost EXCEPT ![c] = @ + pays]
      /\ at' = [at EXCEPT ![c] = @ + 1]
      /\ UNCHANGED <<cache, pc, local, entry, filled, history>>
  BY DEF Probe
<1>6. /\ DOMAIN probed'[c] = DOMAIN probed[c] \cup {id}
      /\ probed'[c][id] = e
      /\ \A j \in DOMAIN probed[c] \ {id} : probed'[c][j] = probed[c][j]
      /\ cost'[c] = cost[c] + pays /\ at'[c] = k + 1
  BY <1>1, <1>5 DEF TypeOK
<1>7. pays \in 0..1
  OBVIOUS
<1> HIDE DEF pays
<1>8. TypeOK'
  <2>1. \A d \in Convs : /\ DOMAIN probed'[d] \subseteq Ids
                         /\ probed'[d] \in [DOMAIN probed'[d] -> Entry \cup {Miss}]
    <3>1. DOMAIN probed'[c] \subseteq Ids
      BY <1>1, <1>4, <1>6 DEF TypeOK
    <3>2. probed'[c] \in [DOMAIN probed[c] \cup {id} -> Entry \cup {Miss}]
      BY <1>1, <1>4, <1>5 DEF TypeOK
    <3>3. \A d \in Convs : d # c => probed'[d] = probed[d]
      BY <1>1, <1>5 DEF TypeOK
    <3> QED BY <1>1, <1>6, <3>1, <3>2, <3>3 DEF TypeOK
  <2>2. cost' \in [Convs -> 0..MaxLen]
    <3>1. cost[c] + pays \in 0..MaxLen
      BY <1>1, <1>2, <1>3, <1>7, EnhanceAssumption
    <3> QED BY <1>1, <1>5, <3>1 DEF TypeOK
  <2>3. at' \in [Convs -> 1..(MaxLen + 1)]
    <3>1. at[c] + 1 \in 1..(MaxLen + 1)
      BY <1>1, <1>2, EnhanceAssumption
    <3> QED BY <1>1, <1>5, <3>1 DEF TypeOK
  <2> QED BY <1>1, <1>4, <1>5, <2>1, <2>2, <2>3 DEF TypeOK, local, history
<1>9. InPlace(c)'
  BY <1>1, <1>2, <1>3, <1>5, <1>6, <1>7 DEF InPlace, local, history
<1>10. Budget(c)'
  <2>1. ASSUME NEW i \in 1..k PROVE doc[c][i] \in DOMAIN probed'[c]
    <3>1. i = k => doc[c][i] = id
      BY DEF Marker
    <3>2. i # k => i \in 1..(at[c] - 1)
      BY <1>2
    <3> QED BY <1>1, <1>2, <1>6, <3>1, <3>2 DEF Budget
  <2>2. ASSUME IsInjective(doc[c]) PROVE cost'[c] = Cardinality(Needed(c, at[c] - 1)')
    <3>1. cost[c] = Cardinality(Needed(c, k - 1)) /\ IsFiniteSet(Needed(c, k - 1))
      <4>1. Needed(c, k - 1) \subseteq Positions
        BY <1>2, EnhanceAssumption DEF Needed, Positions
      <4> QED BY <1>1, <1>2, <2>2, <4>1, PositionsFinite DEF Budget
    <3>2. Needed(c, at[c] - 1)' = {i \in 1..k : NeedsPaidCall(c, probed'[c][doc[c][i]])}
      <4>1. doc' = doc
        BY <1>5 DEF local
      <4>2. \A x : NeedsPaidCall(c, x)' <=> NeedsPaidCall(c, x)
        BY <1>5 DEF NeedsPaidCall, NeedsVerdict, local
      <4>3. at'[c] - 1 = k
        BY <1>2, <1>6
      <4> QED BY <4>1, <4>2, <4>3 DEF Needed
    <3>3. \A i \in 1..(k - 1) : probed'[c][doc[c][i]] = probed[c][doc[c][i]]
      <4>1. \A i \in 1..(k - 1) : doc[c][i] # id /\ doc[c][i] \in DOMAIN probed[c]
        <5>1. \A i \in 1..(k - 1) : doc[c][i] \in DOMAIN probed[c]
          BY <1>1, <1>2 DEF Budget
        <5>2. \A i \in 1..(k - 1) : i \in DOMAIN doc[c] /\ k \in DOMAIN doc[c] /\ i # k
          BY <1>1, <1>2
        <5> QED BY <2>2, <5>1, <5>2 DEF IsInjective, Marker
      <4> QED BY <1>6, <4>1
    <3>4. {i \in 1..k : NeedsPaidCall(c, probed'[c][doc[c][i]])}
            = IF NeedsPaidCall(c, e) THEN Needed(c, k - 1) \cup {k} ELSE Needed(c, k - 1)
      <4>1. 1..k = 1..(k - 1) \cup {k} /\ k \notin 1..(k - 1)
        BY <1>2
      <4>2. probed'[c][doc[c][k]] = e
        BY <1>6 DEF Marker
      <4> QED BY <3>3, <4>1, <4>2 DEF Needed
    <3>5. k \notin Needed(c, k - 1)
      BY <1>2 DEF Needed
    <3>6. Cardinality(Needed(c, k - 1) \cup {k}) = Cardinality(Needed(c, k - 1)) + 1
      BY <3>1, <3>5, FS_AddElement
    <3>7. CASE NeedsPaidCall(c, e)
      BY <1>6, <3>1, <3>2, <3>4, <3>6, <3>7 DEF pays
    <3>8. CASE ~NeedsPaidCall(c, e)
      <4>1. cost'[c] = cost[c]
        BY <1>2, <1>6, <3>8 DEF pays
      <4> QED BY <3>1, <3>2, <3>4, <3>8, <4>1
    <3> QED BY <3>7, <3>8
  <2>3. Paid(c)' = {}
    BY <1>3, <1>5 DEF Paid, history
  <2>4. limit[c] \in Nat /\ Cardinality({}) = 0
    BY <1>1, <1>2, ConvTypes, FS_EmptySet
  <2>5. at'[c] - 1 = k /\ pc'[c] = "probe" /\ limit'[c] = limit[c] /\ doc'[c] = doc[c]
    BY <1>1, <1>2, <1>5, <1>6 DEF local
  <2> QED BY <2>1, <2>2, <2>3, <2>4, <2>5 DEF Budget
<1>11. Fresh(c)'
  BY <1>1, <1>2, <1>3, <1>4, <1>5, <1>6 DEF Fresh, local, history
<1> QED BY <1>8, <1>9, <1>10, <1>11 DEF ConvInv
\* What is needed does not change while pre-flight's memory does not.
LEMMA NeededStays ==
  ASSUME NEW c, probed'[c] = probed[c], doc'[c] = doc[c], verify'[c] = verify[c]
  PROVE  \A k : Needed(c, k)' = Needed(c, k)
BY DEF Needed, NeedsPaidCall, NeedsVerdict

LEMMA DecideInvariant ==
  ASSUME IInv, NEW c \in Convs, Decide(c)
  PROVE  TypeOK' /\ ConvInv(c)'
<1>1. TypeOK /\ InPlace(c) /\ Budget(c) /\ Fresh(c) /\ pc[c] = "probe" /\ at[c] > Len(doc[c])
  BY DEF IInv, ConvInv, Decide
<1>2. /\ Len(doc[c]) \in 0..MaxLen /\ DOMAIN doc[c] = 1..Len(doc[c]) /\ at[c] \in Nat
      /\ limit[c] \in Nat /\ cost[c] \in Nat
  BY <1>1, ConvTypes DEF InPlace
<1>3. /\ described[c] = {} /\ judged[c] = {} /\ filled[c] = {} /\ at[c] - 1 = Len(doc[c])
  BY <1>1, <1>2 DEF InPlace
<1>4. /\ at' = [at EXCEPT ![c] = 1]
      /\ UNCHANGED <<cache, local, probed, cost, entry, filled, history, losses>>
      /\ Goto(c, IF cost[c] > limit[c] THEN "refused" ELSE "resolve")
  BY DEF Decide
<1>5. /\ pc' \in [Convs -> Places]
      /\ pc'[c] = IF cost[c] > limit[c] THEN "refused" ELSE "resolve"
  <2>1. (IF cost[c] > limit[c] THEN "refused" ELSE "resolve") \in Places
    BY DEF Places
  <2> QED BY <1>1, <1>4, <2>1, GotoType
<1>6. at'[c] = 1
  BY <1>1, <1>4 DEF TypeOK
<1>7. TypeOK'
  <2>1. at' \in [Convs -> 1..(MaxLen + 1)]
    BY <1>1, <1>4, EnhanceAssumption DEF TypeOK
  <2> QED BY <1>1, <1>4, <1>5, <2>1 DEF TypeOK, Places, local, history
<1>8. InPlace(c)'
  BY <1>2, <1>3, <1>4, <1>5, <1>6 DEF InPlace, local, history
<1>9. Budget(c)'
  <2>1. \A k : Needed(c, k)' = Needed(c, k)
    BY <1>4, NeededStays DEF local
  <2>2. Paid(c)' = {} /\ Cardinality({}) = 0
    BY <1>3, <1>4, FS_EmptySet DEF Paid, history
  <2>3. \A i \in DOMAIN doc[c] : doc[c][i] \in DOMAIN probed[c]
    BY <1>1, <1>2, <1>3 DEF Budget, InPlace
  <2>4. IsInjective(doc[c]) => cost[c] = Cardinality({} \cup Needed(c, Len(doc[c])))
    <3>1. {} \cup Needed(c, Len(doc[c])) = Needed(c, at[c] - 1)
      BY <1>3
    <3> QED BY <1>1, <3>1 DEF Budget, InPlace
  <2> QED BY <1>2, <1>4, <1>5, <2>1, <2>2, <2>3, <2>4 DEF Budget, local
<1>10. Fresh(c)'
  BY <1>1, <1>3, <1>4, <1>5 DEF Fresh, InPlace, local, history
<1> QED BY <1>7, <1>8, <1>9, <1>10 DEF ConvInv

-----------------------------------------------------------------------------
(* The conversion that moves: the loop *)

\* Going on to the next marker.
LEMMA NextMarker ==
  ASSUME TypeOK, NEW c \in Convs, at[c] <= Len(doc[c]), Skip(c) \/ Fill(c)
  PROVE  /\ pc' \in [Convs -> Places] /\ pc'[c] = "resolve"
         /\ at' \in [Convs -> 1..(MaxLen + 1)] /\ at'[c] = at[c] + 1
         /\ filled' \in [Convs -> SUBSET Positions]
         /\ Skip(c) => filled'[c] = filled[c]
         /\ filled'[c] \subseteq filled[c] \cup {at[c]}
<1>1. Len(doc[c]) \in 0..MaxLen /\ at[c] \in 1..(MaxLen + 1) /\ MaxLen \in Nat
  BY ConvTypes, EnhanceAssumption
<1>2. Goto(c, "resolve") /\ at' = [at EXCEPT ![c] = @ + 1]
  BY DEF Skip, Fill
<1>3. pc' \in [Convs -> Places] /\ pc'[c] = "resolve"
  <2>1. "resolve" \in Places
    BY DEF Places
  <2> QED BY <1>2, <2>1, GotoType
<1>4. at' \in [Convs -> 1..(MaxLen + 1)] /\ at'[c] = at[c] + 1
  <2>1. at[c] + 1 \in 1..(MaxLen + 1)
    BY <1>1
  <2> QED BY <1>2, <2>1 DEF TypeOK
<1>5. at[c] \in Positions
  BY <1>1 DEF Positions
<1>6. /\ filled' \in [Convs -> SUBSET Positions]
      /\ Skip(c) => filled'[c] = filled[c]
      /\ filled'[c] \subseteq filled[c] \cup {at[c]}
  <2>1. filled \in [Convs -> SUBSET Positions] /\ filled[c] \cup {at[c]} \in SUBSET Positions
    BY <1>5 DEF TypeOK
  <2>2. CASE Skip(c)
    BY <2>1, <2>2 DEF Skip
  <2>3. CASE Fill(c) /\ ~Skip(c)
    <3>1. filled' = [filled EXCEPT ![c] = filled[c] \cup {at[c]}]
      BY <2>3 DEF Fill
    <3> QED BY <2>1, <2>3, <3>1
  <2> QED BY <2>2, <2>3
<1> QED BY <1>3, <1>4, <1>6

\* The marker is settled without a description that was paid for now: it was
\* cached, has no picture, or its call failed.
LEMMA SettledInvariant ==
  ASSUME TypeOK, NEW c \in Convs, ConvInv(c), at[c] <= Len(doc[c]),
         pc[c] \in {"resolve", "describe", "judge"},
         Skip(c) \/ Fill(c),
         Fill(c) => at[c] \notin described[c],
         UNCHANGED <<cache, local, probed, cost, judged, known>>,
         losses' \in 0..MaxLosses, losses' = 0 => losses = 0,
         entry' \in [Convs -> Entry \cup {Miss}],
         \/ described' = described
         \/ described' = [described EXCEPT ![c] = @ \cup {at[c]}] /\ pc[c] = "describe" /\ Skip(c)
  PROVE  TypeOK' /\ ConvInv(c)'
<1>1. InPlace(c) /\ Budget(c) /\ Fresh(c)
  BY DEF ConvInv
<1>2. /\ pc' \in [Convs -> Places] /\ pc'[c] = "resolve"
      /\ at' \in [Convs -> 1..(MaxLen + 1)] /\ at'[c] = at[c] + 1
      /\ filled' \in [Convs -> SUBSET Positions]
      /\ Skip(c) => filled'[c] = filled[c]
      /\ filled'[c] \subseteq filled[c] \cup {at[c]}
  BY NextMarker
<1>3. /\ Len(doc[c]) \in Nat /\ at[c] \in Nat /\ at[c] >= 1 /\ at[c] \in Positions
      /\ described[c] \subseteq Positions /\ judged[c] \subseteq Positions
  <2>1. Len(doc[c]) \in 0..MaxLen /\ at[c] \in 1..(MaxLen + 1) /\ MaxLen \in Nat
    BY ConvTypes, EnhanceAssumption
  <2>2. described[c] \subseteq Positions /\ judged[c] \subseteq Positions
    BY ConvTypes
  <2> QED BY <2>1, <2>2 DEF Positions
<1>4. /\ described' \in [Convs -> SUBSET Positions]
      /\ described'[c] \subseteq described[c] \cup {at[c]} /\ described[c] \subseteq described'[c]
      /\ described'[c] # described[c] => pc[c] = "describe" /\ Skip(c)
  <2>1. /\ described \in [Convs -> SUBSET Positions]
        /\ described[c] \cup {at[c]} \in SUBSET Positions
    BY <1>3 DEF TypeOK
  <2>2. CASE described' = described
    BY <2>1, <2>2
  <2>3. CASE /\ described' = [described EXCEPT ![c] = described[c] \cup {at[c]}]
             /\ pc[c] = "describe" /\ Skip(c)
    BY <2>1, <2>3
  <2> QED BY <2>2, <2>3
<1>5. TypeOK'
  BY <1>2, <1>4 DEF TypeOK, Places, local
<1>6. InPlace(c)'
  BY <1>1, <1>2, <1>3, <1>4 DEF InPlace, local
<1>7. Budget(c)'
  <2>1. \A k : Needed(c, k)' = Needed(c, k)
    BY NeededStays DEF local
  <2> SUFFICES ASSUME limit[c] # NoLimit PROVE Budget(c)'
    BY DEF Budget, local
  <2> DEFINE needed == Needed(c, Len(doc[c]))
  <2>2. \A i \in DOMAIN doc[c] : doc[c][i] \in DOMAIN probed[c]
    BY <1>1 DEF Budget
  <2>3. Paid(c)' \cup needed \subseteq Paid(c) \cup needed /\ Paid(c)' \subseteq Paid(c) \cup needed
    BY <1>1, <1>4 DEF Paid, Budget
  <2>4. Paid(c) \cup needed \subseteq Positions
    <3>1. needed \subseteq Positions
      BY ConvTypes, EnhanceAssumption DEF Positions
    <3> QED BY <1>3, <3>1 DEF Paid
  <2>5. /\ Cardinality(Paid(c)' \cup needed) <= Cardinality(Paid(c) \cup needed)
        /\ Cardinality(Paid(c)') <= Cardinality(Paid(c) \cup needed)
    BY <2>3, <2>4, FewerPositions
  <2>6. /\ Cardinality(Paid(c)' \cup needed) \in Nat /\ Cardinality(Paid(c) \cup needed) \in Nat
        /\ Cardinality(Paid(c)') \in Nat /\ limit[c] \in Nat
    BY <2>3, <2>4, PositionsFinite, ConvTypes
  <2>7. IsInjective(doc[c]) => Cardinality(Paid(c) \cup needed) <= limit[c]
    BY <1>1 DEF Budget
  <2>8. IsInjective(doc[c]) =>
          Cardinality(Paid(c)' \cup needed) <= limit[c] /\ Cardinality(Paid(c)') <= limit[c]
    BY <2>5, <2>6, <2>7
  <2>9. Needed(c, Len(doc[c]))' = needed
    BY <2>1 DEF local
  <2> HIDE DEF needed
  <2> QED BY <1>2, <2>2, <2>8, <2>9 DEF Budget, local
<1>8. Fresh(c)'
  <2> SUFFICES ASSUME losses' = 0, losses = 0 PROVE Fresh(c)'
    BY DEF Fresh
  <2>1. \A j \in described'[c] : doc[c][j] \notin known[c]
    BY <1>1, <1>4 DEF Fresh, Marker
  <2>2. described'[c] \cap filled'[c] = described[c] \cap filled[c]
    BY <1>1, <1>2, <1>3, <1>4 DEF InPlace, Fill
  <2>3. limit[c] = NoLimit =>
          \A i \in described[c] \cap filled[c], j \in described'[c] :
            i < j => doc[c][i] # doc[c][j]
    BY <1>1, <1>4 DEF Fresh, Marker
  <2> QED BY <1>1, <1>2, <2>1, <2>2, <2>3 DEF Fresh, local
<1> QED BY <1>5, <1>6, <1>7, <1>8 DEF ConvInv
\* What is paid and needed after a step is no more than before it.
LEMMA StillWithinLimit ==
  ASSUME TypeOK, NEW c \in Convs, Budget(c), pc[c] \in {"resolve", "describe", "judge", "store"},
         limit[c] # NoLimit, IsInjective(doc[c]),
         NEW paid, NEW needed, paid \cup needed \subseteq Paid(c) \cup Needed(c, Len(doc[c]))
  PROVE  Cardinality(paid \cup needed) <= limit[c] /\ Cardinality(paid) <= limit[c]
<1> DEFINE before == Paid(c) \cup Needed(c, Len(doc[c]))
<1>1. before \subseteq Positions
  <2>1. Needed(c, Len(doc[c])) \subseteq Positions
    BY ConvTypes, EnhanceAssumption DEF Positions
  <2> QED BY <2>1, ConvTypes DEF Paid
<1>2. Cardinality(before) <= limit[c] /\ limit[c] \in Nat
  BY ConvTypes DEF Budget
<1> HIDE DEF before
<1>3. paid \cup needed \subseteq before /\ paid \subseteq before
  BY DEF before
<1>4. /\ Cardinality(paid \cup needed) <= Cardinality(before)
      /\ Cardinality(paid) <= Cardinality(before)
  BY <1>1, <1>3, FewerPositions
<1>5. /\ Cardinality(paid \cup needed) \in Nat /\ Cardinality(paid) \in Nat
      /\ Cardinality(before) \in Nat
  BY <1>1, <1>3, PositionsFinite
<1> QED BY <1>2, <1>4, <1>5

LEMMA LookInvariant ==
  ASSUME IInv, NEW c \in Convs, Look(c)
  PROVE  TypeOK' /\ ConvInv(c)'
<1>1. /\ TypeOK /\ InPlace(c) /\ Budget(c) /\ Fresh(c) /\ ConvInv(c)
      /\ pc[c] = "resolve" /\ at[c] <= Len(doc[c])
  BY DEF IInv, ConvInv, Look
<1>2. /\ Len(doc[c]) \in Nat /\ at[c] \in Nat /\ at[c] >= 1
      /\ DOMAIN doc[c] = 1..Len(doc[c]) /\ at[c] \in DOMAIN doc[c]
  BY <1>1, ConvTypes, EnhanceAssumption
<1>3. PICK e \in Entry \cup {Miss} :
        /\ Resolve(c, e) /\ losses' \in 0..MaxLosses /\ (losses' = 0 => losses = 0)
        /\ limit[c] # NoLimit => e = probed[c][Marker(c)]
        /\ losses' = 0 /\ ~e.hit => Marker(c) \notin known[c]
        /\ limit[c] = NoLimit /\ losses' = 0 /\ ~e.hit => Marker(c) \notin DOMAIN cache
  <2>1. CASE Marker(c) \in DOMAIN probed[c]
    <3>1. Resolve(c, probed[c][Marker(c)]) /\ losses' = losses
      BY <2>1 DEF Look
    <3>2. probed[c][Marker(c)] \in Entry \cup {Miss} /\ losses \in 0..MaxLosses
      BY <1>1, <2>1 DEF TypeOK
    <3> QED BY <1>1, <2>1, <3>1, <3>2 DEF Fresh
  <2>2. CASE Marker(c) \notin DOMAIN probed[c]
    <3>1. PICK e \in Entry \cup {Miss} : CacheGet(Marker(c), e) /\ Resolve(c, e)
      BY <2>2 DEF Look
    <3>2. limit[c] = NoLimit
      BY <1>1, <1>2, <2>2 DEF Budget, Marker
    <3> QED BY <1>1, <3>1, <3>2, CacheGetFacts DEF Fresh
  <2> QED BY <2>1, <2>2
<1>4. /\ entry' = [entry EXCEPT ![c] = e]
      /\ UNCHANGED <<cache, local, probed, cost, history>>
      /\ \/ ~e.hit /\ Goto(c, "describe") /\ UNCHANGED <<at, filled>>
         \/ NeedsVerdict(c, e) /\ Goto(c, "judge") /\ UNCHANGED <<at, filled>>
         \/ ~NeedsPaidCall(c, e) /\ Fill(c)
  BY <1>3 DEF Resolve
<1>8. entry' \in [Convs -> Entry \cup {Miss}] /\ entry'[c] = e
  BY <1>1, <1>3, <1>4 DEF TypeOK
<1>9. at[c] \notin described[c]
  BY <1>1, <1>2 DEF InPlace
<1>10. CASE ~NeedsPaidCall(c, e) /\ Fill(c)
  BY <1>1, <1>3, <1>4, <1>8, <1>9, <1>10, SettledInvariant DEF history
<1>11. ASSUME NEW place \in {"describe", "judge"}, Goto(c, place), UNCHANGED <<at, filled>>,
              place = "describe" => ~e.hit,
              place = "judge" => NeedsVerdict(c, e)
       PROVE  TypeOK' /\ ConvInv(c)'
  <2>1. pc' \in [Convs -> Places] /\ pc'[c] = place
    <3>1. place \in Places
      BY DEF Places
    <3> QED BY <1>1, <1>11, <3>1, GotoType
  <2>2. TypeOK'
    BY <1>1, <1>3, <1>4, <1>8, <1>11, <2>1 DEF TypeOK, Places, local, history
  <2>3. InPlace(c)'
    BY <1>1, <1>2, <1>4, <1>8, <1>11, <2>1 DEF InPlace, NeedsVerdict, local, history
  <2>4. Budget(c)'
    <3>1. \A k : Needed(c, k)' = Needed(c, k)
      BY <1>4, NeededStays DEF local
    <3>2. limit[c] # NoLimit => at[c] \in Needed(c, Len(doc[c]))
      BY <1>2, <1>3, <1>11 DEF Needed, NeedsPaidCall, Marker
    <3>3. Paid(c)' = Paid(c)
      BY <1>4 DEF Paid, history
    <3> QED BY <1>1, <1>4, <1>11, <2>1, <3>1, <3>2, <3>3 DEF Budget, local
  <2>5. Fresh(c)'
    <3>1. Marker(c)' = Marker(c)
      BY <1>4, <1>11 DEF Marker, local
    <3> QED BY <1>1, <1>3, <1>4, <1>11, <2>1, <3>1 DEF Fresh, local, history
  <2> QED BY <2>2, <2>3, <2>4, <2>5 DEF ConvInv
<1> QED BY <1>4, <1>10, <1>11

LEMMA NoPictureInvariant ==
  ASSUME IInv, NEW c \in Convs, NoPicture(c)
  PROVE  TypeOK' /\ ConvInv(c)'
<1>1. TypeOK /\ ConvInv(c) /\ pc[c] \in {"describe", "judge"} /\ at[c] <= Len(doc[c])
  BY DEF IInv, ConvInv, InPlace, NoPicture
<1>2. /\ UNCHANGED <<cache, local, probed, cost, entry, judged, known, losses>>
      /\ described' = described
  BY DEF NoPicture, history
<1>3. entry' \in [Convs -> Entry \cup {Miss}] /\ losses' \in 0..MaxLosses
  BY <1>1, <1>2 DEF TypeOK
<1>4. CASE pc[c] = "describe" /\ Skip(c) /\ ~Fill(c)
  BY <1>1, <1>2, <1>3, <1>4, SettledInvariant
<1>5. CASE pc[c] = "judge" /\ at[c] \notin described[c] /\ Fill(c)
  BY <1>1, <1>2, <1>3, <1>5, SettledInvariant
<1>6. Skip(c) => ~Fill(c)
  <2>1. at[c] \notin filled[c]
    BY <1>1, ConvTypes DEF ConvInv, InPlace
  <2> QED BY <1>1, <2>1 DEF Skip, Fill, TypeOK
<1> QED BY <1>4, <1>5, <1>6 DEF NoPicture

LEMMA DescribeInvariant ==
  ASSUME IInv, NEW c \in Convs, Describe(c)
  PROVE  TypeOK' /\ ConvInv(c)'
<1>1. /\ TypeOK /\ InPlace(c) /\ Budget(c) /\ Fresh(c) /\ ConvInv(c)
      /\ pc[c] = "describe" /\ at[c] <= Len(doc[c])
  BY DEF IInv, ConvInv, InPlace, Describe
<1>2. /\ Len(doc[c]) \in Nat /\ at[c] \in Nat /\ at[c] >= 1 /\ at[c] \in Positions
  BY <1>1, ConvTypes, EnhanceAssumption DEF Positions
<1>3. /\ described' = [described EXCEPT ![c] = @ \cup {at[c]}]
      /\ UNCHANGED <<cache, local, probed, cost, judged, known, losses>>
  BY DEF Describe
<1>4. /\ described' \in [Convs -> SUBSET Positions]
      /\ described'[c] = described[c] \cup {at[c]}
  <2>1. described \in [Convs -> SUBSET Positions] /\ described[c] \cup {at[c]} \in SUBSET Positions
    BY <1>1, <1>2 DEF TypeOK
  <2> QED BY <1>3, <2>1
<1>5. at[c] \notin filled[c]
  BY <1>1, <1>2 DEF InPlace
<1>6. CASE Skip(c) /\ UNCHANGED entry
  <2>1. ~Fill(c)
    BY <1>1, <1>5, <1>6 DEF Skip, Fill, TypeOK
  <2>2. entry' \in [Convs -> Entry \cup {Miss}] /\ losses' \in 0..MaxLosses
    BY <1>1, <1>3, <1>6 DEF TypeOK
  <2> QED BY <1>1, <1>3, <1>6, <2>1, <2>2, SettledInvariant
<1>7. CASE /\ entry' = [entry EXCEPT ![c] = Described]
           /\ Goto(c, IF verify[c] THEN "judge" ELSE "store")
           /\ UNCHANGED <<at, filled>>
  <2>1. pc' \in [Convs -> Places] /\ pc'[c] = IF verify[c] THEN "judge" ELSE "store"
    <3>1. (IF verify[c] THEN "judge" ELSE "store") \in Places
      BY DEF Places
    <3> QED BY <1>1, <1>7, <3>1, GotoType
  <2>2. Described \in Entry /\ Described.hit
    BY DEF Described, Entry
  <2>3. entry' \in [Convs -> Entry \cup {Miss}] /\ entry'[c].hit
    BY <1>1, <1>7, <2>2 DEF TypeOK
  <2>4. TypeOK'
    BY <1>1, <1>3, <1>4, <1>7, <2>1, <2>3 DEF TypeOK, Places, local
  <2>5. InPlace(c)'
    BY <1>1, <1>2, <1>3, <1>4, <1>7, <2>1, <2>3 DEF InPlace, local
  <2>6. Budget(c)'
    <3> SUFFICES ASSUME limit[c] # NoLimit PROVE Budget(c)'
      BY <1>3 DEF Budget, local
    <3>1. \A k : Needed(c, k)' = Needed(c, k)
      BY <1>3, NeededStays DEF local
    <3>2. Paid(c)' \cup Needed(c, Len(doc[c])) \subseteq Paid(c) \cup Needed(c, Len(doc[c]))
      BY <1>1, <1>3, <1>4 DEF Paid, Budget
    <3>3. IsInjective(doc[c]) =>
            /\ Cardinality(Paid(c)' \cup Needed(c, Len(doc[c]))) <= limit[c]
            /\ Cardinality(Paid(c)') <= limit[c]
      BY <1>1, <3>2, StillWithinLimit
    <3>4. Needed(c, Len(doc[c]))' = Needed(c, Len(doc[c]))
      BY <1>3, <3>1 DEF local
    <3>5. at'[c] \in described'[c] /\ \A i \in DOMAIN doc[c] : doc[c][i] \in DOMAIN probed[c]
      BY <1>1, <1>4, <1>7 DEF Budget
    <3> QED BY <1>3, <2>1, <3>3, <3>4, <3>5 DEF Budget, local
  <2>7. Fresh(c)'
    <3> SUFFICES ASSUME losses = 0 PROVE Fresh(c)'
      BY <1>3 DEF Fresh
    <3>1. \A j \in described'[c] : doc[c][j] \notin known[c]
      BY <1>1, <1>4 DEF Fresh, Marker
    <3>2. described'[c] \cap filled[c] = described[c] \cap filled[c]
      BY <1>4, <1>5
    <3>3. limit[c] = NoLimit =>
            \A i \in described[c] \cap filled[c], j \in described'[c] :
              i < j => doc[c][i] # doc[c][j]
      BY <1>1, <1>4 DEF Fresh, Marker
    <3>4. pc'[c] # "describe"
      BY <2>1
    <3> QED BY <1>1, <1>3, <1>7, <3>1, <3>2, <3>3, <3>4 DEF Fresh, local
  <2> QED BY <2>4, <2>5, <2>6, <2>7 DEF ConvInv
<1> QED BY <1>6, <1>7 DEF Describe
LEMMA JudgeInvariant ==
  ASSUME IInv, NEW c \in Convs, Judge(c)
  PROVE  TypeOK' /\ ConvInv(c)'
<1> DEFINE id == Marker(c)
           e == [entry[c] EXCEPT !.judged = TRUE]
<1>1. /\ TypeOK /\ InPlace(c) /\ Budget(c) /\ Fresh(c)
      /\ pc[c] = "judge" /\ at[c] <= Len(doc[c]) /\ entry[c].hit
  BY DEF IInv, ConvInv, InPlace, Judge
<1>2. /\ Len(doc[c]) \in Nat /\ at[c] \in Nat /\ at[c] >= 1 /\ at[c] \in Positions
      /\ DOMAIN doc[c] = 1..Len(doc[c])
  BY <1>1, ConvTypes, EnhanceAssumption DEF Positions
<1>3. e \in Entry /\ e.hit /\ e.judged
  <2>1. entry[c] \in Entry
    BY <1>1, ConvTypes DEF Miss
  <2> QED BY <2>1 DEF Entry
<1>4. /\ judged' = [judged EXCEPT ![c] = @ \cup {at[c]}]
      /\ entry' = [entry EXCEPT ![c] = e]
      /\ probed' = [probed EXCEPT ![c] =
                      [k \in DOMAIN probed[c] |->
                         IF k = id /\ probed[c][k].hit THEN entry'[c] ELSE probed[c][k]]]
      /\ Goto(c, "store")
      /\ UNCHANGED <<cache, local, at, cost, filled, described, known, losses>>
  BY DEF Judge
<1> HIDE DEF e, id
<1>5. entry' \in [Convs -> Entry \cup {Miss}] /\ entry'[c] = e
  BY <1>1, <1>3, <1>4 DEF TypeOK
<1>6. /\ DOMAIN probed'[c] = DOMAIN probed[c] /\ DOMAIN probed' = Convs
      /\ \A k \in DOMAIN probed[c] :
           probed'[c][k] = IF k = id /\ probed[c][k].hit THEN e ELSE probed[c][k]
      /\ \A d \in Convs : d # c => probed'[d] = probed[d]
  BY <1>1, <1>4, <1>5 DEF TypeOK
<1>7. pc' \in [Convs -> Places] /\ pc'[c] = "store"
  <2>1. "store" \in Places
    BY DEF Places
  <2> QED BY <1>1, <1>4, <2>1, GotoType
<1>8. judged' \in [Convs -> SUBSET Positions] /\ judged'[c] = judged[c] \cup {at[c]}
  <2>1. judged \in [Convs -> SUBSET Positions] /\ judged[c] \cup {at[c]} \in SUBSET Positions
    BY <1>1, <1>2 DEF TypeOK
  <2> QED BY <1>4, <2>1
<1>9. TypeOK'
  <2>1. \A d \in Convs : /\ DOMAIN probed'[d] \subseteq Ids
                         /\ probed'[d] \in [DOMAIN probed'[d] -> Entry \cup {Miss}]
    <3>1. probed'[c] \in [DOMAIN probed[c] -> Entry \cup {Miss}]
      <4>1. probed'[c] = [k \in DOMAIN probed[c] |->
                            IF k = id /\ probed[c][k].hit THEN e ELSE probed[c][k]]
        BY <1>1, <1>4, <1>5 DEF TypeOK
      <4> QED BY <1>1, <1>3, <4>1 DEF TypeOK
    <3> QED BY <1>1, <1>6, <3>1 DEF TypeOK
  <2> QED BY <1>1, <1>4, <1>5, <1>6, <1>7, <1>8, <2>1 DEF TypeOK, Places, local
<1>10. InPlace(c)'
  BY <1>1, <1>3, <1>4, <1>5, <1>7 DEF InPlace, local
<1>11. Budget(c)'
  <2> SUFFICES ASSUME limit[c] # NoLimit PROVE Budget(c)'
    BY <1>4 DEF Budget, local
  <2> DEFINE needed == Needed(c, Len(doc[c]))
             after == {i \in 1..Len(doc[c]) : NeedsPaidCall(c, probed'[c][doc[c][i]])}
  <2>1. \A i \in DOMAIN doc[c] : doc[c][i] \in DOMAIN probed[c]
    BY <1>1 DEF Budget
  <2>2. Needed(c, Len(doc[c]))' = after
    BY <1>4 DEF Needed, NeedsPaidCall, NeedsVerdict, local
  <2>3. after \subseteq needed
    <3>1. ~NeedsPaidCall(c, e)
      BY <1>3 DEF NeedsPaidCall, NeedsVerdict
    <3> QED BY <1>2, <1>6, <2>1, <3>1 DEF Needed
  <2>4. Paid(c)' = Paid(c) \cup {at[c]}
    BY <1>4, <1>8 DEF Paid
  <2>5. at[c] \in Paid(c) \cup needed
    BY <1>1 DEF Budget, Paid
  <2>6. IsInjective(doc[c]) =>
          Cardinality(Paid(c)' \cup after) <= limit[c] /\ Cardinality(Paid(c)') <= limit[c]
    <3>1. Paid(c)' \cup after \subseteq Paid(c) \cup needed
      BY <2>3, <2>4, <2>5
    <3> HIDE DEF after
    <3> QED BY <1>1, <3>1, StillWithinLimit
  <2> HIDE DEF after
  <2> QED BY <1>4, <1>6, <1>7, <2>1, <2>2, <2>6 DEF Budget, local
<1>12. Fresh(c)'
  <2>1. \A k \in DOMAIN probed'[c] : ~probed'[c][k].hit => ~probed[c][k].hit
    BY <1>3, <1>6
  <2>2. probed[c] = <<>> => probed'[c] = <<>>
    <3> SUFFICES ASSUME probed[c] = <<>> PROVE probed'[c] = <<>>
      OBVIOUS
    <3>1. DOMAIN probed[c] = {}
      OBVIOUS
    <3>2. probed'[c] = [k \in {} |-> IF k = id /\ probed[c][k].hit THEN entry'[c] ELSE probed[c][k]]
      BY <1>1, <1>4, <3>1 DEF TypeOK
    <3> QED BY <3>2
  <2> QED BY <1>1, <1>4, <1>6, <1>7, <2>1, <2>2 DEF Fresh, local
<1> QED BY <1>9, <1>10, <1>11, <1>12 DEF ConvInv

LEMMA StoreInvariant ==
  ASSUME IInv, NEW c \in Convs, Store(c)
  PROVE  TypeOK' /\ ConvInv(c)'
<1>1. /\ TypeOK /\ InPlace(c) /\ Budget(c) /\ Fresh(c)
      /\ pc[c] = "store" /\ at[c] <= Len(doc[c]) /\ entry[c].hit
  BY DEF IInv, ConvInv, InPlace, Store
<1>2. /\ Len(doc[c]) \in Nat /\ at[c] \in Nat /\ at[c] >= 1
      /\ DOMAIN doc[c] = 1..Len(doc[c]) /\ Marker(c) \in Ids
  BY <1>1, ConvTypes, EnhanceAssumption DEF Marker
<1>3. Fill(c) /\ UNCHANGED <<local, probed, cost, entry, history>>
  BY DEF Store
<1>4. /\ pc' \in [Convs -> Places] /\ pc'[c] = "resolve"
      /\ at' \in [Convs -> 1..(MaxLen + 1)] /\ at'[c] = at[c] + 1
      /\ filled' \in [Convs -> SUBSET Positions]
      /\ filled'[c] \subseteq filled[c] \cup {at[c]}
  BY <1>1, <1>3, NextMarker
<1>5. entry[c] \in Entry
  BY <1>1, ConvTypes DEF Miss
<1>6. \/ /\ cache' = CacheSet(Marker(c), entry[c]) /\ losses' = losses
         /\ DOMAIN cache' = DOMAIN cache \cup {Marker(c)}
      \/ /\ cache' = cache /\ losses < MaxLosses /\ losses' = losses + 1
  BY DEF Store, CacheSet, Lose
<1>7. TypeOK'
  <2>1. DOMAIN cache' \subseteq Ids /\ cache' \in [DOMAIN cache' -> Entry]
    <3>1. CASE cache' = CacheSet(Marker(c), entry[c])
      <4>1. cache' \in [DOMAIN cache \cup {Marker(c)} -> Entry]
        BY <1>1, <1>5, <3>1 DEF CacheSet, TypeOK
      <4> QED BY <1>1, <1>2, <4>1 DEF TypeOK
    <3> QED BY <1>1, <1>6, <3>1 DEF TypeOK
  <2>2. losses' \in 0..MaxLosses
    BY <1>1, <1>6, EnhanceAssumption DEF TypeOK
  <2> QED BY <1>1, <1>3, <1>4, <2>1, <2>2 DEF TypeOK, Places, local, history
<1>8. InPlace(c)'
  BY <1>1, <1>2, <1>3, <1>4 DEF InPlace, local, history
<1>9. Budget(c)'
  <2>1. \A k : Needed(c, k)' = Needed(c, k)
    BY <1>3, NeededStays DEF local
  <2>2. Paid(c)' = Paid(c)
    BY <1>3 DEF Paid, history
  <2> QED BY <1>1, <1>3, <1>4, <2>1, <2>2 DEF Budget, local
<1>10. Fresh(c)'
  <2> SUFFICES ASSUME losses' = 0 PROVE Fresh(c)'
    BY DEF Fresh
  <2>1. losses = 0 /\ DOMAIN cache' = DOMAIN cache \cup {Marker(c)}
    BY <1>1, <1>6 DEF TypeOK
  <2>2. \A i \in described[c] \cap filled'[c] : doc[c][i] \in DOMAIN cache' \/ limit[c] # NoLimit
    BY <1>1, <1>4, <2>1 DEF Fresh, Marker
  <2>3. limit[c] = NoLimit =>
          \A i \in described[c] \cap filled'[c], j \in described[c] :
            i < j => doc[c][i] # doc[c][j]
    BY <1>1, <1>2, <1>4, <2>1 DEF Fresh, InPlace
  <2> QED BY <1>1, <1>3, <1>4, <2>1, <2>2, <2>3 DEF Fresh, local, history
<1> QED BY <1>7, <1>8, <1>9, <1>10 DEF ConvInv

LEMMA EndInvariant ==
  ASSUME IInv, NEW c \in Convs, Fail(c) \/ Finish(c)
  PROVE  TypeOK' /\ ConvInv(c)'
<1>1. TypeOK /\ InPlace(c) /\ Budget(c) /\ Fresh(c)
  BY DEF IInv, ConvInv
<1>2. UNCHANGED <<cache, local, at, probed, cost, entry, filled, history, losses>>
  BY DEF Fail, Finish
<1>3. PICK place \in {"failed", "done"} : Goto(c, place)
  BY DEF Fail, Finish
<1>4. pc' \in [Convs -> Places] /\ pc'[c] = place
  <2>1. place \in Places
    BY DEF Places
  <2> QED BY <1>1, <1>3, <2>1, GotoType
<1>5. TypeOK'
  BY <1>1, <1>2, <1>4 DEF TypeOK, Places, local, history
<1>6. InPlace(c)'
  BY <1>1, <1>2, <1>4 DEF InPlace, local, history
<1>7. Budget(c)' /\ Fresh(c)'
  BY <1>1, <1>2, <1>4 DEF Budget, Fresh, Paid, local, history
<1> QED BY <1>5, <1>6, <1>7 DEF ConvInv

LEMMA EvictInvariant ==
  ASSUME IInv, NEW id \in Ids, Evict(id)
  PROVE  TypeOK'
<1>1. cache' = [k \in DOMAIN cache \ {id} |-> cache[k]]
  BY DEF Evict, Restrict
<1>2. DOMAIN cache' \subseteq Ids /\ cache' \in [DOMAIN cache' -> Entry]
  BY <1>1 DEF IInv, TypeOK
<1>3. losses' \in 0..MaxLosses
  BY EnhanceAssumption DEF Evict, Lose, IInv, TypeOK
<1> QED BY <1>2, <1>3 DEF Evict, IInv, TypeOK, local, history

LEMMA NextInvariant == IInv /\ [Next]_vars => IInv'
<1> SUFFICES ASSUME IInv, [Next]_vars PROVE IInv'
  OBVIOUS
<1>1. TypeOK /\ \A d \in Convs : ConvInv(d)
  BY DEF IInv
<1>2. ASSUME NEW c \in Convs, Step(c) \/ (\E d \in Documents, v \in BOOLEAN,
               lim \in Limits \cup {NoLimit} : Start(c, d, v, lim))
      PROVE  IInv'
  <2>1. TypeOK' /\ ConvInv(c)'
    BY <1>2, StartInvariant, ProbeInvariant, DecideInvariant, LookInvariant, NoPictureInvariant,
       DescribeInvariant, JudgeInvariant, StoreInvariant, EndInvariant DEF Step
  <2>2. Step(c) \/ (\E d, v, lim : Start(c, d, v, lim))
    BY <1>2
  <2>3. ASSUME NEW d \in Convs, d # c PROVE ConvInv(d)'
    BY <1>1, <2>2, <2>3, LossesAreRecorded, OthersAreStill, Bystander
  <2> QED BY <2>1, <2>3 DEF IInv
<1>3. ASSUME NEW id \in Ids, Evict(id) PROVE IInv'
  <2>1. TypeOK'
    BY <1>3, EvictInvariant
  <2>2. ASSUME NEW d \in Convs PROVE ConvInv(d)'
    <3>1. Still(d)
      BY <1>3 DEF Evict, Still, local, history
    <3>2. LossesRecorded
      BY <1>1, <1>3, LossesAreRecorded
    <3> QED BY <1>1, <3>1, <3>2, Bystander
  <2> QED BY <2>1, <2>2 DEF IInv
<1>4. CASE UNCHANGED vars
  <2>1. TypeOK'
    BY <1>1, <1>4 DEF TypeOK, vars, local, history
  <2>2. ASSUME NEW d \in Convs PROVE ConvInv(d)'
    <3>1. Still(d) /\ LossesRecorded
      BY <1>4 DEF vars, local, history, Still, LossesRecorded
    <3> QED BY <1>1, <3>1, Bystander
  <2> QED BY <2>1, <2>2 DEF IInv
<1> QED BY <1>2, <1>3, <1>4 DEF Next

-----------------------------------------------------------------------------
(* What holds of every behaviour *)

\* The inductive invariant holds throughout.
THEOREM Invariance == Spec => []IInv
BY InitInvariant, NextInvariant, PTL DEF Spec

\* The state keeps its types: among them, that the cache holds entries only and
\* that no conversion counts past its document's markers.
THEOREM EnhanceTypes == Spec => []TypeOK
<1>1. IInv => TypeOK
  BY DEF IInv
<1> QED BY <1>1, Invariance, PTL

\* Of a document that shows no picture twice, no more markers are paid for than
\* vlm_max_markers, however the conversions and the cache's losses interleave.
THEOREM SpendKept == Spec => []SpendWithinLimitIfDistinct
<1>1. IInv => SpendWithinLimitIfDistinct
  BY DEF IInv, ConvInv, Budget, SpendWithinLimitIfDistinct
<1> QED BY <1>1, Invariance, PTL

\* As long as the cache loses nothing and every read and write of it succeeds, a
\* picture whose description was cached is not described again.
THEOREM CachedFree == Spec => []CachedStaysFree
<1>1. IInv => CachedStaysFree
  BY DEF IInv, ConvInv, Fresh, CachedStaysFree
<1> QED BY <1>1, Invariance, PTL

\* An entry changes in no step but a store, which writes one with a verdict if
\* the conversion verifies.
LEMMA StepKeepsVerdicts == IInv /\ [Next]_vars => [VerdictsStep]_vars
<1> SUFFICES ASSUME IInv, Next PROVE VerdictsStep
  OBVIOUS
<1>1. ASSUME cache' = cache PROVE VerdictsStep
  BY <1>1 DEF VerdictsStep
<1>2. ASSUME NEW c \in Convs, Store(c) PROVE VerdictsStep
  <2>1. CASE cache' = CacheSet(Marker(c), entry[c])
    <3> SUFFICES ASSUME NEW id \in DOMAIN cache, cache[id].judged,
                        \A d \in Convs : pc[d] # "idle" => verify[d]
                 PROVE  cache'[id].judged
      BY DEF VerdictsStep
    <3>1. pc[c] = "store" /\ InPlace(c)
      BY <1>2 DEF Store, IInv, ConvInv
    <3>2. entry[c].judged
      BY <3>1 DEF InPlace
    <3>3. cache'[id] = IF id = Marker(c) THEN entry[c] ELSE cache[id]
      BY <2>1 DEF CacheSet
    <3> QED BY <3>2, <3>3
  <2> QED BY <1>1, <1>2, <2>1 DEF Store
<1>3. ASSUME NEW c \in Convs, Step(c) \/ \E d, v, lim : Start(c, d, v, lim) PROVE VerdictsStep
  <2>1. CASE Store(c)
    BY <1>2, <2>1
  <2>2. CASE ~Store(c)
    <3>1. cache' = cache
      BY <1>3, <2>2 DEF Step, Start, Probe, Decide, Look, Resolve, NoPicture, Describe, Judge, Fail, Finish
    <3> QED BY <1>1, <3>1
  <2> QED BY <2>1, <2>2
<1>4. ASSUME NEW id \in Ids, Evict(id) PROVE VerdictsStep
  <2>1. cache' = [k \in DOMAIN cache \ {id} |-> cache[k]]
    BY <1>4 DEF Evict, Restrict
  <2> QED BY <2>1 DEF VerdictsStep
<1> QED BY <1>3, <1>4 DEF Next

\* Among conversions that verify, no verdict is overwritten.
THEOREM VerdictsSafe == Spec => VerdictsKept
BY StepKeepsVerdicts, Invariance, PTL DEF Spec, VerdictsKept
=============================================================================
