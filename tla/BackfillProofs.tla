---------------------------- MODULE BackfillProofs ----------------------------
(***************************************************************************)
(* Proofs about Backfill, for any windows, chunks, limits, resumes and      *)
(* batches, and any number of runs, failures and crashes.                   *)
(***************************************************************************)
EXTENDS Backfill, SequenceTheorems, FunctionTheorems, FiniteSetTheorems,
        WellFoundedInduction, TLAPS

-----------------------------------------------------------------------------
(* Sets of times                                                            *)

LEMMA TimesAreFinite ==
  ASSUME NEW S \in SUBSET Times
  PROVE  IsFiniteSet(S) /\ Cardinality(S) \in Nat /\ S \subseteq Nat
<1>1. Times \subseteq Nat /\ IsFiniteSet(Times)
  BY ClockAssumption, FS_Interval DEF Times
<1>2. QED
  BY <1>1, FS_Subset, FS_CardinalityType

LEMMA MinOfTimes ==
  ASSUME NEW S \in SUBSET Times, S # {}
  PROVE  MinOf(S) \in S /\ \A u \in S : MinOf(S) <= u
<1> DEFINE R == OpToRel(<, Nat)
<1>1. IsWellFoundedOn(R, Nat)
  BY NatLessThanWellFounded
<1>2. \A m, n \in Nat : n < m => <<n, m>> \in R
  BY DEF OpToRel
<1> HIDE DEF R
<1>3. S \subseteq Nat
  BY TimesAreFinite
<1>4. PICK m \in S : \A y \in S : ~ (<<y, m>> \in R)
  BY <1>1, <1>3, WFMin
<1>5. ASSUME NEW n \in S PROVE m <= n
  <2>1. m \in Nat /\ n \in Nat /\ ~ (n < m)
    BY <1>2, <1>3, <1>4
  <2>2. QED
    BY <2>1
<1>6. QED
  BY <1>5 DEF MinOf

(* The greatest of S is as far from the end as the least of S turned over.  *)
LEMMA MaxOfTimes ==
  ASSUME NEW S \in SUBSET Times, S # {}
  PROVE  MaxOf(S) \in S /\ \A u \in S : u <= MaxOf(S)
<1> DEFINE Turned == {LastNow - t : t \in S}
<1>1. /\ LastNow \in Nat /\ \A t \in S : t \in Nat /\ t <= LastNow
      /\ \A t \in S : LastNow - t \in Times
  BY ClockAssumption DEF Times
<1>2. Turned \in SUBSET Times /\ Turned # {}
  BY <1>1
<1>3. \A t \in S : LastNow - t \in Turned
  OBVIOUS
<1>4. \A m \in Turned : \E t \in S : m = LastNow - t
  OBVIOUS
<1> HIDE DEF Turned
<1>5. MinOf(Turned) \in Turned /\ \A u \in Turned : MinOf(Turned) <= u
  BY <1>2, MinOfTimes
<1>6. PICK t \in S : MinOf(Turned) = LastNow - t
  BY <1>4, <1>5
<1>7. ASSUME NEW u \in S PROVE u <= t
  <2>1. LastNow - t <= LastNow - u
    BY <1>3, <1>5, <1>6
  <2>2. QED
    BY <1>1, <2>1
<1>8. QED
  BY <1>7 DEF MaxOf

-----------------------------------------------------------------------------
(* A set in order, and how often a buffer has a time                        *)

Rank(S, t) == Cardinality({u \in S : u <= t})

(* Every element of S has a rank of its own, and every rank is taken.       *)
LEMMA RanksAreTaken ==
  ASSUME NEW S \in SUBSET Times
  PROVE  /\ \A t \in S : Rank(S, t) \in 1 .. Cardinality(S)
         /\ \A t, u \in S : Rank(S, t) = Rank(S, u) => t = u
         /\ \A i \in 1 .. Cardinality(S) : \E t \in S : Rank(S, t) = i
<1> DEFINE n == Cardinality(S)
           UpTo(t) == {u \in S : u <= t}
           f == [t \in S |-> Rank(S, t)]
<1>1. IsFiniteSet(S) /\ n \in Nat /\ S \subseteq Nat
  BY TimesAreFinite
<1>2. ASSUME NEW t \in S
      PROVE  IsFiniteSet(UpTo(t)) /\ Cardinality(UpTo(t)) \in Nat
             /\ Cardinality(UpTo(t)) <= n /\ Cardinality(UpTo(t)) # 0
  <2>1. UpTo(t) \in SUBSET S /\ t \in UpTo(t)
    BY <1>1
  <2> HIDE DEF UpTo
  <2>2. IsFiniteSet(UpTo(t)) /\ Cardinality(UpTo(t)) <= n
    BY <1>1, <2>1, FS_Subset
  <2>3. QED
    BY <2>1, <2>2, FS_EmptySet, FS_CardinalityType
<1>3. ASSUME NEW t \in S PROVE Rank(S, t) \in 1 .. n
  <2>1. Rank(S, t) = Cardinality(UpTo(t))
    BY DEF Rank
  <2> HIDE DEF UpTo, n
  <2>2. QED
    BY <1>1, <1>2, <2>1
<1>4. ASSUME NEW t \in S, NEW u \in S, t < u PROVE Rank(S, t) # Rank(S, u)
  <2>1. UpTo(t) \in SUBSET UpTo(u) /\ u \in UpTo(u) /\ u \notin UpTo(t)
    <3>1. t \in Nat /\ u \in Nat /\ \A v \in S : v \in Nat
      BY <1>1
    <3>2. \A v \in S : v <= t => v <= u
      BY <1>4, <3>1
    <3>3. ~ (u <= t) /\ u <= u
      BY <1>4, <3>1
    <3>4. QED
      BY <3>2, <3>3
  <2>2. Rank(S, t) = Cardinality(UpTo(t)) /\ Rank(S, u) = Cardinality(UpTo(u))
    BY DEF Rank
  <2>3. IsFiniteSet(UpTo(u))
    BY <1>2
  <2> HIDE DEF UpTo
  <2>4. QED
    BY <2>1, <2>2, <2>3, FS_Subset
<1>5. ASSUME NEW t \in S, NEW u \in S, Rank(S, t) = Rank(S, u) PROVE t = u
  <2>1. t \in Nat /\ u \in Nat /\ ~ (t < u) /\ ~ (u < t)
    BY <1>1, <1>4, <1>5
  <2>2. QED
    BY <2>1
<1>6. f \in [S -> 1 .. n] /\ \A t, u \in S : f[t] = f[u] => t = u
  BY <1>3, <1>5
<1>7. IsFiniteSet(1 .. n) /\ Cardinality(1 .. n) = n
  <2> HIDE DEF n
  <2>1. Cardinality(1 .. n) = IF 1 > n THEN 0 ELSE n - 1 + 1
    BY <1>1, FS_Interval
  <2>2. QED
    BY <1>1, <2>1, FS_Interval
<1> HIDE DEF f
<1>8. f \in Surjection(S, 1 .. n)
  <2>1. f \in Injection(S, 1 .. n)
    BY <1>6, Fun_IsInj
  <2>2. QED
    BY <1>7, <2>1, FS_Injection
<1>9. \A i \in 1 .. n : \E t \in S : Rank(S, t) = i
  BY <1>8 DEF Surjection, f
<1>10. QED
  BY <1>3, <1>5, <1>9

LEMMA InOrderFacts ==
  ASSUME NEW S \in SUBSET Times
  PROVE  /\ InOrder(S) \in Seq(S) /\ Len(InOrder(S)) = Cardinality(S)
         /\ \A t \in S : \A i \in 1 .. Cardinality(S) : InOrder(S)[i] = t <=> i = Rank(S, t)
<1>1. Cardinality(S) \in Nat
  BY TimesAreFinite
<1>2. InOrder(S) = [i \in 1 .. Cardinality(S) |-> CHOOSE t \in S : Rank(S, t) = i]
  BY DEF InOrder, Rank
<1>3. ASSUME NEW i \in 1 .. Cardinality(S)
      PROVE  InOrder(S)[i] \in S /\ Rank(S, InOrder(S)[i]) = i
  <2>1. InOrder(S)[i] = CHOOSE t \in S : Rank(S, t) = i
    BY <1>2
  <2>2. \E t \in S : Rank(S, t) = i
    BY RanksAreTaken
  <2>3. QED
    BY <2>1, <2>2
<1>4. InOrder(S) \in Seq(S) /\ Len(InOrder(S)) = Cardinality(S)
  <2>1. InOrder(S) \in [1 .. Cardinality(S) -> S]
    BY <1>2, <1>3
  <2>2. \A n \in Nat : \A f \in [1 .. n -> S] : f \in Seq(S) /\ Len(f) = n
    OBVIOUS
  <2>3. QED
    BY <1>1, <2>1, <2>2
<1>5. QED
  BY <1>3, <1>4, RanksAreTaken

(* Where t is in a buffer.                                                  *)
PlacesOf(t, buffer) == {i \in DOMAIN buffer : buffer[i] = t}

LEMMA PlacesAreFinite ==
  ASSUME NEW buffer \in Seq(Times), NEW t
  PROVE  /\ IsFiniteSet(PlacesOf(t, buffer))
         /\ Cardinality(PlacesOf(t, buffer)) \in Nat
         /\ Cardinality(PlacesOf(t, buffer)) = 0 <=> PlacesOf(t, buffer) = {}
<1>1. PlacesOf(t, buffer) \in SUBSET (1 .. Len(buffer)) /\ Len(buffer) \in Nat
  BY DEF PlacesOf
<1>2. IsFiniteSet(1 .. Len(buffer))
  BY <1>1, FS_Interval
<1>3. QED
  BY <1>1, <1>2, FS_Subset, FS_CardinalityType, FS_EmptySet

(* An answer put behind the buffer brings each of its times once.           *)
LEMMA AnswerIsAppended ==
  ASSUME NEW buffer \in Seq(Times), NEW S \in SUBSET Times, NEW t \in Times
  PROVE  /\ buffer \o InOrder(S) \in Seq(Times)
         /\ Cardinality(PlacesOf(t, buffer \o InOrder(S)))
               = Cardinality(PlacesOf(t, buffer)) + (IF t \in S THEN 1 ELSE 0)
<1> DEFINE n == Cardinality(S)
           m == Len(buffer)
           longer == buffer \o InOrder(S)
<1>1. n \in Nat /\ m \in Nat
  BY TimesAreFinite
<1>2. /\ InOrder(S) \in Seq(Times) /\ Len(InOrder(S)) = n
      /\ \A i \in 1 .. n : InOrder(S)[i] \in S
  BY InOrderFacts
<1>3. /\ longer \in Seq(Times) /\ Len(longer) = m + n
      /\ \A i \in 1 .. m + n : longer[i] = IF i <= m THEN buffer[i] ELSE InOrder(S)[i - m]
  BY <1>2, ConcatProperties
<1>4. DOMAIN buffer = 1 .. m /\ DOMAIN longer = 1 .. m + n
  BY <1>3
<1> HIDE DEF n, m, longer
<1>5. CASE t \notin S
  <2>1. ASSUME NEW i \in 1 .. m + n, longer[i] = t PROVE i \in 1 .. m /\ buffer[i] = t
    <3>1. CASE i <= m
      BY <1>1, <1>3, <2>1, <3>1
    <3>2. CASE ~ (i <= m)
      <4>1. i - m \in 1 .. n /\ longer[i] = InOrder(S)[i - m]
        BY <1>1, <1>3, <3>2
      <4>2. QED
        BY <1>2, <1>5, <2>1, <4>1
    <3>3. QED
      BY <3>1, <3>2
  <2>2. \A i \in 1 .. m : i \in 1 .. m + n /\ longer[i] = buffer[i]
    BY <1>1, <1>3
  <2>3. PlacesOf(t, longer) = PlacesOf(t, buffer)
    BY <1>4, <2>1, <2>2 DEF PlacesOf
  <2>4. Cardinality(PlacesOf(t, buffer)) \in Nat
    BY PlacesAreFinite
  <2>5. QED
    BY <1>3, <1>5, <2>3, <2>4 DEF longer
<1>6. CASE t \in S
  <2> DEFINE r == Rank(S, t)
  <2>1. r \in 1 .. n /\ \A i \in 1 .. n : InOrder(S)[i] = t <=> i = r
    BY <1>6, InOrderFacts, RanksAreTaken DEF n
  <2> HIDE DEF r
  <2>2. ASSUME NEW i \in 1 .. m + n, longer[i] = t
        PROVE  (i \in 1 .. m /\ buffer[i] = t) \/ i = m + r
    <3>1. CASE i <= m
      BY <1>1, <1>3, <2>2, <3>1
    <3>2. CASE ~ (i <= m)
      <4>1. i - m \in 1 .. n /\ longer[i] = InOrder(S)[i - m]
        BY <1>1, <1>3, <3>2
      <4>2. i - m = r
        BY <2>1, <2>2, <4>1
      <4>3. QED
        BY <1>1, <2>1, <4>2
    <3>3. QED
      BY <3>1, <3>2
  <2>3. \A i \in 1 .. m : i \in 1 .. m + n /\ longer[i] = buffer[i]
    BY <1>1, <1>3
  <2>4. m + r \in 1 .. m + n /\ longer[m + r] = t /\ m + r \notin 1 .. m
    <3>1. m + r \in 1 .. m + n /\ ~ (m + r <= m) /\ (m + r) - m = r
      BY <1>1, <2>1
    <3>2. QED
      BY <1>3, <2>1, <3>1
  <2>5. PlacesOf(t, longer) = PlacesOf(t, buffer) \cup {m + r}
        /\ m + r \notin PlacesOf(t, buffer)
    BY <1>4, <2>2, <2>3, <2>4 DEF PlacesOf
  <2>6. IsFiniteSet(PlacesOf(t, buffer))
    BY PlacesAreFinite
  <2>7. Cardinality(PlacesOf(t, longer)) = Cardinality(PlacesOf(t, buffer)) + 1
    BY <2>5, <2>6, FS_AddElement
  <2>8. QED
    BY <1>3, <1>6, <2>7 DEF longer
<1>7. QED
  BY <1>5, <1>6

-----------------------------------------------------------------------------
(* Types                                                                    *)

Types == {"klines"} \cup Series
RunPlaces == {"next", "discovering", "checking", "probing", "starting", "klines", "series",
              "ended", "failed"}
InRun == run.at \notin {"ended", "failed"}
Runs == [at : RunPlaces, types : Seq(Types), end : Nat, window : Nat, found : Int,
         clean : BOOLEAN, time : Int, buffer : Seq(Times)]

(* A run's end is the present: time stands still during it.                 *)
RunInPlace ==
    /\ InRun => run.end = now
    /\ run.at \notin {"next", "ended", "failed"} => run.types # << >>
    /\ run.at \in {"discovering", "checking", "probing", "starting"} => run.buffer = << >>
    /\ run.at = "series" => Kind \in Series /\ run.time <= run.end

BackfillTyped ==
    /\ now \in Nat /\ now <= LastNow
    /\ listed \in Nat
    /\ auto \in BOOLEAN
    /\ stored \in [Series -> [Times -> Nat]]
    /\ cache \in Int
    /\ run \in Runs

LEMMA ConstantsTyped ==
  /\ FirstNow \in Nat /\ LastNow \in Nat /\ FirstNow <= LastNow
  /\ Span \in Nat /\ Placeholder \in Nat /\ StartDate \in Int
  /\ Windows \in Seq(Nat)
  /\ KlineChunk \in Nat \ {0} /\ BatchSize \in Nat \ {0}
  /\ \A k \in Series : ChunkOf[k] \in Nat \ {0} /\ LimitOf[k] \in Nat \ {0}
                       /\ ResumeOf[k] \in Nat \ {0}
<1>1. /\ ChunkOf \in [Series -> Nat \ {0}] /\ LimitOf \in [Series -> Nat \ {0}]
      /\ ResumeOf \in [Series -> Nat \ {0}]
  BY SeriesAssumption
<1>2. QED
  BY <1>1, ClockAssumption, WindowsAssumption, ChunksAssumption

LEMMA RunFields ==
  ASSUME BackfillTyped
  PROVE  /\ run.at \in RunPlaces /\ run.types \in Seq(Types) /\ run.end \in Nat
         /\ run.window \in Nat /\ run.found \in Int /\ run.clean \in BOOLEAN
         /\ run.time \in Int /\ run.buffer \in Seq(Times)
  BY DEF BackfillTyped, Runs

LEMMA EndedFields ==
  /\ Ended \in Runs
  /\ Ended.at = "ended" /\ Ended.types = << >> /\ Ended.buffer = << >>
  BY DEF Ended, Runs, RunPlaces, None

LEMMA NextTypeFields ==
  ASSUME BackfillTyped, RunInPlace, InRun, run.types # << >>
  PROVE  /\ NextType \in Runs /\ NextType.at = "next" /\ NextType.end = now
<1>1. Tail(run.types) \in Seq(Types)
  BY RunFields
<1>2. run \in Runs
  BY DEF BackfillTyped
<1>3. "next" \in RunPlaces
  BY DEF RunPlaces
<1>4. NextType \in Runs /\ NextType.at = "next" /\ NextType.end = run.end
  BY <1>1, <1>2, <1>3 DEF NextType, Runs
<1>5. QED
  BY <1>4 DEF RunInPlace

LEMMA TaskFailedFields ==
  ASSUME BackfillTyped
  PROVE  TaskFailed \in Runs /\ TaskFailed.at = "failed"
<1>1. run \in Runs /\ "failed" \in RunPlaces /\ << >> \in Seq(Types) /\ << >> \in Seq(Times)
  BY DEF BackfillTyped, RunPlaces
<1>2. QED
  BY <1>1 DEF TaskFailed, Runs

(* What exchanges return are sets of times.                                 *)
LEMMA AnswersAreTimes ==
  /\ \A from, to : Candles(from, to) \in SUBSET Times
  /\ \A k, from, to : Between(k, from, to) \in SUBSET Times
  /\ \A S \in SUBSET Times : \A n : Smallest(S, n) \in SUBSET S
  /\ Offered \in SUBSET Times /\ Returned \in SUBSET Offered /\ Returned \in SUBSET Times
  /\ Probed \in SUBSET Times
<1>1. \A from, to : Candles(from, to) \in SUBSET Times
  BY DEF Candles
<1>2. \A k, from, to : Between(k, from, to) \in SUBSET Times
  BY <1>1 DEF Between, Trades, Rates
<1>3. \A S \in SUBSET Times : \A n : Smallest(S, n) \in SUBSET S
  BY DEF Smallest
<1>4. Offered \in SUBSET Times
  BY <1>2 DEF Offered
<1>5. Returned \in SUBSET Offered
  BY <1>3, <1>4 DEF Returned
<1>6. Probed \in SUBSET Times
  BY <1>1 DEF Probed
<1>7. QED
  BY <1>1, <1>2, <1>3, <1>4, <1>5, <1>6

LEMMA StoredWithFacts ==
  ASSUME BackfillTyped, Kind \in Series, NEW buffer \in Seq(Times)
  PROVE  /\ StoredWith(buffer) \in [Series -> [Times -> Nat]]
         /\ \A k \in Series, t \in Times :
               StoredWith(buffer)[k][t] =
                  stored[k][t] + (IF k = Kind THEN Cardinality(PlacesOf(t, buffer)) ELSE 0)
<1> DEFINE more == [t \in Times |-> stored[Kind][t] + Cardinality(PlacesOf(t, buffer))]
<1>1. StoredWith(buffer) = [stored EXCEPT ![Kind] = more]
  BY DEF StoredWith, PlacesOf
<1>2. stored \in [Series -> [Times -> Nat]]
  BY DEF BackfillTyped
<1>3. \A t \in Times : Cardinality(PlacesOf(t, buffer)) \in Nat
  BY PlacesAreFinite
<1>4. more \in [Times -> Nat]
  BY <1>2, <1>3
<1>5. StoredWith(buffer) \in [Series -> [Times -> Nat]]
  BY <1>1, <1>2, <1>4
<1>6. ASSUME NEW k \in Series, NEW t \in Times
      PROVE  StoredWith(buffer)[k][t] =
                stored[k][t] + (IF k = Kind THEN Cardinality(PlacesOf(t, buffer)) ELSE 0)
  <2>1. StoredWith(buffer)[k] = IF k = Kind THEN more ELSE stored[k]
    BY <1>1, <1>2
  <2>2. stored[k][t] \in Nat
    BY <1>2
  <2>3. QED
    BY <2>1, <2>2
<1>7. QED
  BY <1>5, <1>6

LEMMA TypedInit ==
  Init => BackfillTyped /\ RunInPlace
<1> SUFFICES ASSUME Init PROVE BackfillTyped /\ RunInPlace
  OBVIOUS
<1>1. stored \in [Series -> [Times -> Nat]]
  BY DEF Init
<1>2. run = Ended
  BY DEF Init
<1>3. now \in Nat /\ now <= LastNow /\ listed \in Nat /\ auto \in BOOLEAN /\ cache \in Int
  BY ConstantsTyped DEF Init, None
<1>4. QED
  BY <1>1, <1>2, <1>3, EndedFields DEF BackfillTyped, RunInPlace, InRun

-----------------------------------------------------------------------------
(* What each step does to the run                                           *)

LEMMA AtPlace ==
  ASSUME BackfillTyped, NEW p \in RunPlaces
  PROVE  LET r == [run EXCEPT !.at = p]
         IN  /\ r \in Runs /\ r.at = p /\ r.types = run.types /\ r.end = run.end
             /\ r.found = run.found /\ r.time = run.time /\ r.buffer = run.buffer
<1>1. run \in Runs
  BY DEF BackfillTyped
<1>2. QED
  BY <1>1 DEF Runs

LEMMA StartRunEffect ==
  ASSUME BackfillTyped, StartRun
  PROVE  run' \in Runs /\ run'.at = "next" /\ run'.end = now
<1>1. PICK types \in Requested :
         run' = [Ended EXCEPT !.at = "next", !.types = types, !.end = now]
  BY DEF StartRun
<1>2. types \in Seq(Types)
  BY RequestedAssumption DEF Types
<1>3. Ended \in Runs /\ now \in Nat /\ "next" \in RunPlaces
  BY EndedFields DEF BackfillTyped, RunPlaces
<1>4. QED
  BY <1>1, <1>2, <1>3 DEF Runs

LEMMA BeginTypeEffect ==
  ASSUME BackfillTyped, RunInPlace, BeginType
  PROVE  /\ run' \in Runs
         /\ \/ run'.at = "ended"
            \/ /\ run'.at \in {"discovering", "starting"} /\ run'.end = now
               /\ run'.types # << >> /\ run'.found = None /\ run'.clean /\ run'.buffer = << >>
<1>1. run \in Runs /\ run.at = "next" /\ run.end = now
  BY DEF BackfillTyped, RunInPlace, InRun, BeginType
<1>2. CASE run.types = << >>
  BY <1>2, EndedFields DEF BeginType
<1>3. CASE run.types # << >>
  <2> DEFINE p == IF auto THEN "discovering" ELSE "starting"
  <2>1. p \in {"discovering", "starting"} /\ p \in RunPlaces
    BY DEF RunPlaces
  <2>2. run' = [run EXCEPT !.at = p, !.found = None, !.clean = TRUE, !.buffer = << >>]
    BY <1>3 DEF BeginType
  <2>3. None \in Int /\ << >> \in Seq(Times) /\ TRUE \in BOOLEAN
    BY DEF None
  <2> HIDE DEF p
  <2>4. QED
    BY <1>1, <1>3, <2>1, <2>2, <2>3 DEF Runs
<1>4. QED
  BY <1>2, <1>3

LEMMA CacheHitEffect ==
  ASSUME BackfillTyped, RunInPlace, CacheHit
  PROVE  /\ run' \in Runs /\ run'.at = "starting" /\ run'.end = now /\ run'.types # << >>
         /\ run'.buffer = run.buffer
<1>1. /\ run \in Runs /\ run.at = "discovering" /\ run.end = now /\ run.types # << >>
      /\ cache \in Int /\ "starting" \in RunPlaces
  BY DEF BackfillTyped, RunInPlace, InRun, CacheHit, RunPlaces
<1>2. run' = [run EXCEPT !.at = "starting", !.found = cache]
  BY DEF CacheHit
<1>3. QED
  BY <1>1, <1>2 DEF Runs

LEMMA CacheMissEffect ==
  ASSUME BackfillTyped, RunInPlace, CacheMiss
  PROVE  /\ run' \in Runs /\ run'.at = "checking" /\ run'.end = now /\ run'.types # << >>
         /\ run'.found = run.found /\ run'.buffer = run.buffer
<1>1. /\ run \in Runs /\ run.at = "discovering" /\ run.end = now /\ run.types # << >>
      /\ "checking" \in RunPlaces
  BY DEF BackfillTyped, RunInPlace, InRun, CacheMiss, RunPlaces
<1>2. run' = [run EXCEPT !.at = "checking"]
  BY DEF CacheMiss
<1>3. QED
  BY <1>1, <1>2 DEF Runs

(* The search begins with nothing found and no request failed.              *)
LEMMA CheckRecentEffect ==
  ASSUME BackfillTyped, RunInPlace, CheckRecent
  PROVE  /\ run' \in Runs /\ run'.end = now
         /\ \/ run'.at = "next"
            \/ /\ run'.at = "probing" /\ run'.types # << >> /\ run'.window = 1
               /\ run'.found = run.found /\ run'.buffer = run.buffer
<1>1. /\ run \in Runs /\ run.at = "checking" /\ run.end = now /\ run.types # << >>
      /\ "probing" \in RunPlaces /\ InRun
  BY DEF BackfillTyped, RunInPlace, InRun, CheckRecent, RunPlaces
<1>2. CASE run' = NextType
  BY <1>1, <1>2, NextTypeFields
<1>3. CASE run' = [run EXCEPT !.at = "probing", !.window = 1]
  BY <1>1, <1>3 DEF Runs
<1>4. QED
  BY <1>2, <1>3 DEF CheckRecent

LEMMA ProbeFindsEffect ==
  ASSUME BackfillTyped, RunInPlace, ProbeFinds
  PROVE  /\ run' \in Runs /\ run'.at = "probing" /\ run'.end = now /\ run'.types # << >>
         /\ run'.window = run.window + 1 /\ run'.clean = run.clean /\ run'.buffer = run.buffer
         /\ run'.found = OldestFound(Probed)
         /\ MinOf(Probed) \in Probed /\ \A u \in Probed : MinOf(Probed) <= u
<1>1. /\ run \in Runs /\ run.at = "probing" /\ run.end = now /\ run.types # << >>
      /\ run.window \in Nat /\ run.found \in Int
  BY DEF BackfillTyped, RunInPlace, InRun, ProbeFinds, Searching, Runs
<1>2. MinOf(Probed) \in Probed /\ \A u \in Probed : MinOf(Probed) <= u
  BY AnswersAreTimes, MinOfTimes DEF ProbeFinds
<1>3. MinOf(Probed) \in Int
  BY <1>2, AnswersAreTimes, TimesAreFinite
<1>4. OldestFound(Probed) \in Int
  BY <1>1, <1>3 DEF OldestFound, Lesser
<1> DEFINE next == run.window + 1
           found == OldestFound(Probed)
<1>5. run' = [run EXCEPT !.window = next, !.found = found]
  BY DEF ProbeFinds
<1>6. next \in Nat /\ found \in Int
  BY <1>1, <1>4
<1> HIDE DEF next, found
<1>7. run' \in Runs /\ run'.at = run.at /\ run'.end = run.end /\ run'.types = run.types
      /\ run'.window = next /\ run'.clean = run.clean /\ run'.buffer = run.buffer
      /\ run'.found = found
  BY <1>1, <1>5, <1>6 DEF Runs
<1>8. QED
  BY <1>1, <1>2, <1>7 DEF next, found

LEMMA ProbeFindsNothingEffect ==
  ASSUME BackfillTyped, RunInPlace, ProbeFindsNothing
  PROVE  /\ run' \in Runs /\ run'.at = "probing" /\ run'.end = now /\ run'.types # << >>
         /\ run'.found = run.found /\ run'.buffer = run.buffer
         /\ run'.window = (IF run.found # None THEN Len(Windows) ELSE run.window) + 1
         /\ run'.clean => run.clean /\ Probed = {}
<1>1. /\ run \in Runs /\ run.at = "probing" /\ run.end = now /\ run.types # << >>
      /\ run.window \in Nat
  BY DEF BackfillTyped, RunInPlace, InRun, ProbeFindsNothing, Searching, Runs
<1> DEFINE last == IF run.found # None THEN Len(Windows) ELSE run.window
<1>2. last + 1 \in Nat
  BY <1>1, ConstantsTyped
<1>3. \/ Probed = {} /\ run' = [run EXCEPT !.window = last + 1]
      \/ run' = [run EXCEPT !.window = last + 1, !.clean = FALSE]
  BY DEF ProbeFindsNothing
<1> HIDE DEF last
<1>4. CASE Probed = {} /\ run' = [run EXCEPT !.window = last + 1]
  <2>1. /\ run' \in Runs /\ run'.at = run.at /\ run'.end = run.end /\ run'.types = run.types
        /\ run'.found = run.found /\ run'.buffer = run.buffer /\ run'.window = last + 1 /\ run'.clean = run.clean
    BY <1>1, <1>2, <1>4 DEF Runs
  <2>2. QED
    BY <1>1, <1>4, <2>1 DEF last
<1>5. CASE run' = [run EXCEPT !.window = last + 1, !.clean = FALSE]
  <2>1. /\ run' \in Runs /\ run'.at = run.at /\ run'.end = run.end /\ run'.types = run.types
        /\ run'.found = run.found /\ run'.buffer = run.buffer /\ run'.window = last + 1 /\ run'.clean = FALSE
    BY <1>1, <1>2, <1>5 DEF Runs
  <2>2. QED
    BY <1>1, <2>1 DEF last
<1>6. QED
  BY <1>3, <1>4, <1>5

LEMMA FinishDiscoveryEffect ==
  ASSUME BackfillTyped, RunInPlace, FinishDiscovery
  PROVE  /\ run' \in Runs /\ run'.at = "starting" /\ run'.end = now /\ run'.types # << >>
         /\ Discovered \in Int /\ run'.buffer = run.buffer
<1>1. /\ run \in Runs /\ run.at = "probing" /\ run.end = now /\ run.types # << >>
      /\ run.found \in Int /\ now \in Nat /\ "starting" \in RunPlaces
  BY DEF BackfillTyped, RunInPlace, InRun, FinishDiscovery, Searching, Runs, RunPlaces
<1>2. Discovered \in Int
  BY <1>1, ConstantsTyped DEF Discovered
<1>3. run' = [run EXCEPT !.at = "starting", !.found = Discovered]
  BY DEF FinishDiscovery
<1>4. QED
  BY <1>1, <1>2, <1>3 DEF Runs

LEMMA StartKlinesEffect ==
  ASSUME BackfillTyped, RunInPlace, StartKlines
  PROVE  run' \in Runs /\ run'.at = "klines" /\ run'.end = now /\ run'.types # << >>
<1>1. /\ run \in Runs /\ run.at = "starting" /\ run.end = now /\ run.types # << >>
      /\ run.found \in Int /\ "klines" \in RunPlaces
  BY DEF BackfillTyped, RunInPlace, InRun, StartKlines, Runs, RunPlaces
<1> DEFINE from == IF auto THEN run.found ELSE StartDate
<1>2. from \in Int /\ run' = [run EXCEPT !.at = "klines", !.time = from]
  BY <1>1, ConstantsTyped DEF StartKlines
<1> HIDE DEF from
<1>3. QED
  BY <1>1, <1>2 DEF Runs

LEMMA FetchKlinesEffect ==
  ASSUME BackfillTyped, RunInPlace, FetchKlines
  PROVE  /\ run' \in Runs
         /\ \/ run'.at = "failed"
            \/ run'.at = "klines" /\ run'.end = now /\ run'.types # << >>
<1> DEFINE klines == Smallest(Candles(run.time, KlineChunkEnd), KlineChunk)
           next == Lesser(MaxOf(klines) + 1, KlineChunkEnd)
<1>1. /\ run \in Runs /\ run.at = "klines" /\ run.end = now /\ run.types # << >>
      /\ run.end \in Nat /\ run.time \in Int /\ run.buffer \in Seq(Times)
  BY DEF BackfillTyped, RunInPlace, InRun, FetchKlines, Runs
<1>2. KlineChunkEnd \in Int
  BY <1>1, ConstantsTyped DEF KlineChunkEnd, Lesser
<1>3. klines \in SUBSET Times
  BY AnswersAreTimes
<1>4. \/ run' = [run EXCEPT !.time = KlineChunkEnd]
      \/ run' = TaskFailed
      \/ klines # {} /\ run' = [run EXCEPT !.time = next, !.buffer = @ \o InOrder(klines)]
  BY DEF FetchKlines, PastEmptyChunk
<1> HIDE DEF klines
<1>5. CASE run' = [run EXCEPT !.time = KlineChunkEnd]
  BY <1>1, <1>2, <1>5 DEF Runs
<1>6. CASE run' = TaskFailed
  BY <1>6, TaskFailedFields
<1>7. CASE klines # {} /\ run' = [run EXCEPT !.time = next, !.buffer = @ \o InOrder(klines)]
  <2>1. MaxOf(klines) \in Int
    BY <1>3, <1>7, MaxOfTimes, TimesAreFinite
  <2>2. next \in Int
    BY <1>2, <2>1 DEF Lesser
  <2>3. InOrder(klines) \in Seq(Times)
    BY <1>3, InOrderFacts
  <2>4. run.buffer \o InOrder(klines) \in Seq(Times)
    BY <1>1, <2>3
  <2> HIDE DEF next
  <2>5. QED
    BY <1>1, <1>7, <2>2, <2>4 DEF Runs
<1>8. QED
  BY <1>4, <1>5, <1>6, <1>7

LEMMA FinishKlinesEffect ==
  ASSUME BackfillTyped, RunInPlace, FinishKlines
  PROVE  /\ run' \in Runs
         /\ run'.at = "failed" \/ (run'.at = "next" /\ run'.end = now)
<1>1. InRun /\ run.types # << >>
  BY DEF FinishKlines, InRun, RunInPlace
<1>2. QED
  BY <1>1, NextTypeFields, TaskFailedFields DEF FinishKlines

LEMMA CrashEffect ==
  ASSUME BackfillTyped, RunInPlace, Crash
  PROVE  run' \in Runs /\ run'.at = "ended"
  BY EndedFields DEF Crash

(* A series starts behind the latest row stored since its start, or at its  *)
(* start, where nothing is stored yet or the latest row could not be read.  *)
LEMMA StartSeriesEffect ==
  ASSUME BackfillTyped, RunInPlace, StartSeries
  PROVE  LET latest == MaxOf(Existing)
             resume == latest + ResumeOf[Kind]
             Begins(from) ==
                \/ run'.at = "next"
                \/ /\ run'.at = "series" /\ run'.types = run.types /\ run.types # << >>
                   /\ run'.buffer = << >> /\ run'.time = from /\ from < now
         IN  /\ run' \in Runs /\ run'.end = now
             /\ Kind \in Series /\ SeriesStart \in Int
             /\ Existing # {} => /\ latest \in Existing
                                 /\ \A u \in Existing : u <= latest
             /\ \/ /\ Existing = {} /\ Begins(SeriesStart)
                   /\ UNCHANGED <<passedOver, restarts>>
                \/ /\ Existing # {} /\ resume \in Int /\ Begins(resume)
                   /\ passedOver' = passedOver \cup Of(Kind, latest + 1 .. resume - 1)
                   /\ restarts' = restarts
                \/ /\ Existing # {} /\ Begins(SeriesStart)
                   /\ restarts' = [restarts EXCEPT ![Kind] = @ + 1]
                   /\ passedOver' = passedOver
<1>1. /\ run \in Runs /\ run.at = "starting" /\ run.end = now /\ run.types # << >>
      /\ run.buffer = << >> /\ Kind \in Series /\ now \in Nat /\ InRun
      /\ "series" \in RunPlaces /\ run.end \in Nat
  BY DEF BackfillTyped, RunInPlace, InRun, StartSeries, Runs, RunPlaces
<1> DEFINE latest == MaxOf(Existing)
           resume == latest + ResumeOf[Kind]
           Begins(from) ==
              \/ run'.at = "next"
              \/ /\ run'.at = "series" /\ run'.types = run.types /\ run.types # << >>
                 /\ run'.buffer = << >> /\ run'.time = from /\ from < now
<1>2. Existing \in SUBSET Times
  BY DEF Existing
<1>3. Existing # {} => latest \in Existing /\ \A u \in Existing : u <= latest
  BY <1>2, MaxOfTimes
<1>4. SeriesStart \in Int
  BY <1>1, ConstantsTyped DEF SeriesStart
<1>5. ResumeOf[Kind] \in Nat
  BY <1>1, ConstantsTyped
<1>6. Existing # {} => latest \in Nat
  BY <1>2, <1>3, TimesAreFinite
<1>7. \/ /\ Existing = {} /\ run' = SeriesFrom(SeriesStart)
         /\ UNCHANGED <<passedOver, restarts>>
      \/ /\ Existing # {} /\ run' = SeriesFrom(resume)
         /\ passedOver' = passedOver \cup Of(Kind, latest + 1 .. resume - 1)
         /\ restarts' = restarts
      \/ /\ Existing # {} /\ run' = SeriesFrom(SeriesStart)
         /\ restarts' = [restarts EXCEPT ![Kind] = @ + 1]
         /\ passedOver' = passedOver
  BY DEF StartSeries
<1> HIDE DEF latest
<1>8. Existing # {} => resume \in Int
  BY <1>5, <1>6
<1> HIDE DEF resume
<1>9. ASSUME NEW from \in Int, run' = SeriesFrom(from)
      PROVE  run' \in Runs /\ run'.end = now /\ Begins(from)
  <2>1. CASE from >= run.end
    <3>1. run' = NextType
      BY <1>9, <2>1 DEF SeriesFrom
    <3>2. QED
      BY <1>1, <3>1, NextTypeFields
  <2>2. CASE ~ (from >= run.end)
    <3>1. run' = [run EXCEPT !.at = "series", !.time = from]
      BY <1>9, <2>2 DEF SeriesFrom
    <3>2. /\ run' \in Runs /\ run'.at = "series" /\ run'.types = run.types
          /\ run'.buffer = run.buffer /\ run'.time = from /\ run'.end = run.end
      BY <1>1, <3>1 DEF Runs
    <3>3. from < now
      BY <1>1, <2>2
    <3>4. QED
      BY <1>1, <3>2, <3>3
  <2>3. QED
    BY <2>1, <2>2
<1> HIDE DEF Begins
<1>10. /\ run' \in Runs /\ run'.end = now
       /\ \/ /\ Existing = {} /\ Begins(SeriesStart)
             /\ UNCHANGED <<passedOver, restarts>>
          \/ /\ Existing # {} /\ resume \in Int /\ Begins(resume)
             /\ passedOver' = passedOver \cup Of(Kind, latest + 1 .. resume - 1)
             /\ restarts' = restarts
          \/ /\ Existing # {} /\ Begins(SeriesStart)
             /\ restarts' = [restarts EXCEPT ![Kind] = @ + 1]
             /\ passedOver' = passedOver
  BY <1>4, <1>7, <1>8, <1>9
<1>11. QED
  BY <1>1, <1>3, <1>4, <1>10 DEF Begins, resume, latest

LEMMA ChunkFacts ==
  ASSUME BackfillTyped, RunInPlace, run.at = "series", run.time < run.end
  PROVE  /\ run \in Runs /\ run.end = now /\ run.types # << >> /\ InRun
         /\ Kind \in Series /\ now \in Nat /\ run.time \in Int
         /\ run.buffer \in Seq(Times)
         /\ ChunkEnd \in Int /\ run.time < ChunkEnd /\ ChunkEnd <= now
<1>1. /\ run \in Runs /\ run.end = now /\ run.types # << >> /\ InRun /\ Kind \in Series
      /\ now \in Nat /\ run.time \in Int /\ run.buffer \in Seq(Times)
  BY DEF BackfillTyped, RunInPlace, InRun, Runs
<1>2. ChunkOf[Kind] \in Nat \ {0}
  BY <1>1, ConstantsTyped
<1>3. QED
  BY <1>1, <1>2 DEF ChunkEnd, Lesser

(* A chunk is fetched and put in the buffer; a full buffer is stored.       *)
LEMMA FetchChunkEffect ==
  ASSUME BackfillTyped, RunInPlace, FetchChunk
  PROVE  LET buffer == run.buffer \o InOrder(Returned)
         IN  /\ run' \in Runs /\ run'.end = now /\ buffer \in Seq(Times)
             /\ \/ run'.at = "next" /\ stored' = stored
                \/ /\ run'.at = "series" /\ run'.types = run.types /\ run'.time = ChunkEnd
                   /\ \/ run'.buffer = buffer /\ stored' = stored
                      \/ run'.buffer = << >> /\ stored' = StoredWith(buffer)
<1> DEFINE buffer == run.buffer \o InOrder(Returned)
           next   == [run EXCEPT !.time = ChunkEnd, !.buffer = buffer]
<1>1. run.at = "series" /\ run.time < run.end
  BY DEF FetchChunk
<1>2. /\ run \in Runs /\ run.end = now /\ run.types # << >> /\ InRun
      /\ run.buffer \in Seq(Times) /\ ChunkEnd \in Int
  BY <1>1, ChunkFacts
<1>3. buffer \in Seq(Times)
  <2>1. InOrder(Returned) \in Seq(Times)
    BY AnswersAreTimes, InOrderFacts
  <2>2. QED
    BY <1>2, <2>1
<1>4. \/ run' = next /\ stored' = stored
      \/ run' = [next EXCEPT !.buffer = << >>] /\ stored' = StoredWith(buffer)
      \/ run' = NextType /\ stored' = stored
  BY DEF FetchChunk, BufferCleared
<1> HIDE DEF buffer
<1>5. /\ next \in Runs /\ next.at = run.at /\ next.types = run.types /\ next.end = run.end
      /\ next.time = ChunkEnd /\ next.buffer = buffer
  BY <1>2, <1>3 DEF Runs
<1> HIDE DEF next
<1>6. CASE run' = next /\ stored' = stored
  BY <1>1, <1>2, <1>3, <1>5, <1>6 DEF buffer
<1>7. CASE run' = [next EXCEPT !.buffer = << >>] /\ stored' = StoredWith(buffer)
  <2>1. << >> \in Seq(Times)
    OBVIOUS
  <2>2. /\ run' \in Runs /\ run'.at = next.at /\ run'.types = next.types /\ run'.end = next.end
        /\ run'.time = next.time /\ run'.buffer = << >>
    BY <1>5, <1>7, <2>1 DEF Runs
  <2>3. QED
    BY <1>1, <1>2, <1>3, <1>5, <1>7, <2>2 DEF buffer
<1>8. CASE run' = NextType /\ stored' = stored
  BY <1>2, <1>3, <1>8, NextTypeFields DEF buffer
<1>9. QED
  BY <1>4, <1>6, <1>7, <1>8

LEMMA ChunkFailsEffect ==
  ASSUME BackfillTyped, RunInPlace, ChunkFails
  PROVE  /\ run' \in Runs /\ run'.at = "series" /\ run'.end = now /\ run'.types = run.types
         /\ run'.time = ChunkEnd /\ run'.buffer = run.buffer
<1>1. run.at = "series" /\ run.time < run.end
  BY DEF ChunkFails
<1>2. run \in Runs /\ run.end = now /\ ChunkEnd \in Int
  BY <1>1, ChunkFacts
<1>3. run' = [run EXCEPT !.time = ChunkEnd]
  BY DEF ChunkFails
<1>4. QED
  BY <1>1, <1>2, <1>3 DEF Runs

LEMMA FinishSeriesEffect ==
  ASSUME BackfillTyped, RunInPlace, FinishSeries
  PROVE  /\ run' \in Runs /\ run'.at = "next" /\ run'.end = now
         /\ Kind \in Series /\ run.buffer \in Seq(Times) /\ run.end = now
         /\ run.time = now
<1>1. /\ InRun /\ run.types # << >> /\ Kind \in Series /\ run.buffer \in Seq(Times)
      /\ run.end = now /\ run.time \in Int /\ now \in Nat /\ run.time <= run.end
      /\ run.time >= run.end
  BY RunFields DEF BackfillTyped, RunInPlace, InRun, FinishSeries
<1>2. run' = NextType
  BY DEF FinishSeries
<1>3. QED
  BY <1>1, <1>2, NextTypeFields

-----------------------------------------------------------------------------
(* Types are kept                                                           *)

LEMMA TypedStep ==
  BackfillTyped /\ RunInPlace /\ [Next]_vars => BackfillTyped' /\ RunInPlace'
<1> SUFFICES ASSUME BackfillTyped, RunInPlace, [Next]_vars
             PROVE  BackfillTyped' /\ RunInPlace'
  OBVIOUS
<1>1. CASE UNCHANGED vars
  BY <1>1 DEF vars, world, BackfillTyped, RunInPlace, InRun, Kind
<1>2. CASE Tick
  <2>1. now' \in Nat /\ now' <= LastNow
    BY <1>2, ConstantsTyped DEF Tick, BackfillTyped
  <2>2. run' = run /\ run.at \in {"ended", "failed"}
    BY <1>2 DEF Tick
  <2>3. QED
    BY <1>2, <2>1, <2>2 DEF Tick, world, BackfillTyped, RunInPlace, InRun
(* In all other steps time stands still.                                    *)
<1>3. ASSUME now' = now, listed' = listed, auto' = auto, cache' \in Int,
             stored' \in [Series -> [Times -> Nat]], run' \in Runs
      PROVE  BackfillTyped'
  BY <1>3 DEF BackfillTyped
<1>4. cache \in Int /\ stored \in [Series -> [Times -> Nat]]
  BY DEF BackfillTyped
<1>5. CASE StartRun
  BY <1>3, <1>4, <1>5, StartRunEffect DEF StartRun, world, RunInPlace, InRun
<1>6. CASE BeginType
  BY <1>3, <1>4, <1>6, BeginTypeEffect DEF BeginType, world, RunInPlace, InRun
<1>7. CASE CacheHit
  <2>1. run.buffer = << >>
    BY <1>7 DEF CacheHit, RunInPlace
  <2>2. QED
    BY <1>3, <1>4, <1>7, <2>1, CacheHitEffect DEF CacheHit, world, RunInPlace, InRun
<1>21. CASE CacheMiss
  <2>1. run.buffer = << >>
    BY <1>21 DEF CacheMiss, RunInPlace
  <2>2. QED
    BY <1>3, <1>4, <1>21, <2>1, CacheMissEffect DEF CacheMiss, world, RunInPlace, InRun
<1>8. CASE CheckRecent
  <2>1. run.buffer = << >>
    BY <1>8 DEF CheckRecent, RunInPlace
  <2>2. QED
    BY <1>3, <1>4, <1>8, <2>1, CheckRecentEffect DEF CheckRecent, world, RunInPlace, InRun
<1>9. CASE ProbeFinds
  <2>1. run.buffer = << >>
    BY <1>9 DEF ProbeFinds, Searching, RunInPlace
  <2>2. QED
    BY <1>3, <1>4, <1>9, <2>1, ProbeFindsEffect DEF ProbeFinds, world, RunInPlace, InRun
<1>10. CASE ProbeFindsNothing
  <2>1. run.buffer = << >>
    BY <1>10 DEF ProbeFindsNothing, Searching, RunInPlace
  <2>2. QED
    BY <1>3, <1>4, <1>10, <2>1, ProbeFindsNothingEffect
       DEF ProbeFindsNothing, world, RunInPlace, InRun
<1>11. CASE FinishDiscovery
  <2>1. run.buffer = << >>
    BY <1>11 DEF FinishDiscovery, RunInPlace
  <2>2. cache' \in Int
    BY <1>4, <1>11, FinishDiscoveryEffect DEF FinishDiscovery
  <2>3. QED
    BY <1>3, <1>4, <1>11, <2>1, <2>2, FinishDiscoveryEffect
       DEF FinishDiscovery, world, RunInPlace, InRun
<1>12. CASE StartKlines
  BY <1>3, <1>4, <1>12, StartKlinesEffect DEF StartKlines, world, RunInPlace, InRun
<1>13. CASE FetchKlines
  BY <1>3, <1>4, <1>13, FetchKlinesEffect DEF FetchKlines, world, RunInPlace, InRun
<1>14. CASE FinishKlines
  BY <1>3, <1>4, <1>14, FinishKlinesEffect DEF FinishKlines, world, RunInPlace, InRun
<1>15. CASE StartSeries
  <2>1. /\ run' \in Runs /\ run'.end = now /\ Kind \in Series
        /\ \/ run'.at = "next"
           \/ /\ run'.at = "series" /\ run'.types = run.types /\ run.types # << >>
              /\ run'.time < now
    BY <1>15, StartSeriesEffect
  <2>2. UNCHANGED <<now, listed, auto, cache, stored>> /\ now \in Nat
    BY <1>15 DEF StartSeries, world, BackfillTyped
  <2>3. BackfillTyped'
    BY <1>3, <1>4, <2>1, <2>2
  <2>4. run'.at = "series" => Kind' = Kind /\ run'.time <= run'.end
    <3>1. run'.time \in Int
      BY <2>1 DEF Runs
    <3>2. QED
      BY <2>1, <2>2, <3>1 DEF Kind
  <2>5. QED
    BY <2>1, <2>2, <2>3, <2>4 DEF RunInPlace, InRun
<1>16. CASE FetchChunk
  <2>1. run.at = "series" /\ run.time < run.end
    BY <1>16 DEF FetchChunk
  <2>2. Kind \in Series /\ run.types # << >> /\ ChunkEnd \in Int /\ ChunkEnd <= now
    BY <2>1, ChunkFacts
  <2> DEFINE buffer == run.buffer \o InOrder(Returned)
  <2>3. /\ run' \in Runs /\ run'.end = now /\ buffer \in Seq(Times)
        /\ \/ run'.at = "next" /\ stored' = stored
           \/ /\ run'.at = "series" /\ run'.types = run.types /\ run'.time = ChunkEnd
              /\ \/ run'.buffer = buffer /\ stored' = stored
                 \/ run'.buffer = << >> /\ stored' = StoredWith(buffer)
    BY <1>16, FetchChunkEffect
  <2> HIDE DEF buffer
  <2>4. stored' \in [Series -> [Times -> Nat]]
    BY <1>4, <2>2, <2>3, StoredWithFacts
  <2>5. UNCHANGED <<now, listed, auto, cache>>
    BY <1>16 DEF FetchChunk, world
  <2>6. run'.at = "series" => Kind' = Kind
    BY <2>3 DEF Kind
  <2>7. BackfillTyped'
    BY <1>3, <1>4, <2>3, <2>4, <2>5
  <2>8. QED
    BY <2>2, <2>3, <2>5, <2>6, <2>7 DEF RunInPlace, InRun
<1>17. CASE ChunkFails
  <2>1. run.at = "series" /\ run.time < run.end
    BY <1>17 DEF ChunkFails
  <2>2. Kind \in Series /\ run.types # << >> /\ ChunkEnd \in Int /\ ChunkEnd <= now
    BY <2>1, ChunkFacts
  <2>3. /\ run' \in Runs /\ run'.at = "series" /\ run'.end = now /\ run'.types = run.types
        /\ run'.time = ChunkEnd
    BY <1>17, ChunkFailsEffect
  <2>4. UNCHANGED <<now, listed, auto, cache, stored>>
    BY <1>17 DEF ChunkFails, world
  <2>5. Kind' = Kind
    BY <2>3 DEF Kind
  <2>6. BackfillTyped'
    BY <1>3, <1>4, <2>3, <2>4
  <2>7. QED
    BY <2>2, <2>3, <2>4, <2>5, <2>6 DEF RunInPlace, InRun
<1>18. CASE FinishSeries
  <2>1. /\ run' \in Runs /\ run'.at = "next" /\ run'.end = now
        /\ Kind \in Series /\ run.buffer \in Seq(Times)
    BY <1>18, FinishSeriesEffect
  <2>2. stored' = StoredWith(run.buffer) \/ stored' = stored
    BY <1>18 DEF FinishSeries, Flushed
  <2>3. stored' \in [Series -> [Times -> Nat]]
    BY <1>4, <2>1, <2>2, StoredWithFacts
  <2>4. UNCHANGED <<now, listed, auto, cache>>
    BY <1>18 DEF FinishSeries, world
  <2>5. QED
    BY <1>3, <1>4, <2>1, <2>3, <2>4 DEF RunInPlace, InRun
<1>19. CASE Crash
  BY <1>3, <1>4, <1>19, CrashEffect DEF Crash, world, RunInPlace, InRun
<1>20. QED
  BY <1>1, <1>2, <1>5, <1>6, <1>7, <1>8, <1>9, <1>10, <1>11, <1>12, <1>13, <1>14, <1>15, <1>16,
     <1>17, <1>18, <1>19, <1>21 DEF Next, RunStep, Discover

-----------------------------------------------------------------------------
(* Discovery                                                                *)

InWindow(t, i) == now - Windows[i] <= t /\ t <= now - Windows[i] + Span

(* The windows before the next one to look at have been searched: unless a  *)
(* request failed, none has a kline older than what was found.              *)
Searched ==
    /\ run.at \in {"discovering", "checking"} => run.found = None
    /\ run.at = "probing" =>
          /\ run.window \in 1 .. Len(Windows) + 1
          /\ run.found # None =>
                /\ listed <= run.found /\ run.found <= now
                /\ \E i \in DOMAIN Windows : i < run.window /\ now - Windows[i] <= run.found
          /\ run.clean => \A i \in DOMAIN Windows : i < run.window =>
                \A t \in listed .. now : InWindow(t, i) => run.found # None /\ run.found <= t

(* A kline in the window that is looked at is found.                        *)
LEMMA ProbedIsTheWindow ==
  ASSUME BackfillTyped, RunInPlace, Searching
  PROVE  /\ run.window \in Nat /\ run.window <= Len(Windows)
         /\ \A t \in Probed : t \in listed .. now /\ InWindow(t, run.window)
         /\ \A t \in listed .. now : InWindow(t, run.window) => t \in Probed
<1>1. run.end = now /\ run.window \in Nat /\ now \in Nat /\ now <= LastNow /\ listed \in Nat
  BY RunFields DEF BackfillTyped, RunInPlace, InRun, Searching
<1>2. run.window <= Len(Windows)
  BY DEF Searching
<1>3. LastNow \in Nat
  BY ConstantsTyped
<1>4. \A t : t \in Probed <=> t \in Times /\ listed <= t /\ InWindow(t, run.window) /\ t <= now
  BY <1>1 DEF Probed, Candles, ProbeFrom, InWindow
<1>5. \A t \in Times : t \in Int
  BY DEF Times
<1>6. \A t \in listed .. now : t \in Times
  BY <1>1, <1>3 DEF Times
<1>7. QED
  BY <1>1, <1>2, <1>4, <1>5, <1>6

LEMMA ProbeFindsSearched ==
  ASSUME BackfillTyped, RunInPlace, Searched, ProbeFinds
  PROVE  Searched'
<1> DEFINE w == run.window
           m == MinOf(Probed)
<1>1. Searching /\ run.at = "probing" /\ UNCHANGED <<now, listed>>
  BY DEF ProbeFinds, Searching, world
<1>2. /\ w \in Nat /\ w <= Len(Windows)
      /\ \A t \in Probed : t \in listed .. now /\ InWindow(t, w)
      /\ \A t \in listed .. now : InWindow(t, w) => t \in Probed
  BY <1>1, ProbedIsTheWindow
<1>3. /\ run'.at = "probing" /\ run'.window = w + 1 /\ run'.clean = run.clean
      /\ run'.found = OldestFound(Probed)
      /\ m \in Probed /\ \A u \in Probed : m <= u
  BY ProbeFindsEffect
<1>4. now \in Nat /\ listed \in Nat /\ run.found \in Int /\ w \in 1 .. Len(Windows) + 1
      /\ Len(Windows) \in Nat /\ DOMAIN Windows = 1 .. Len(Windows)
  BY <1>1, ConstantsTyped, RunFields DEF BackfillTyped, Searched
<1>5. m \in listed .. now /\ InWindow(m, w)
  BY <1>2, <1>3
<1> HIDE DEF w, m
<1>6. /\ run'.found <= m /\ run'.found \in Int
      /\ run'.found = m \/ (run.found # None /\ run'.found = run.found)
      /\ run.found # None => run'.found <= run.found
  BY <1>3, <1>4, <1>5 DEF OldestFound, Lesser, m
<1>7. run.found # None =>
        /\ listed <= run.found /\ run.found <= now
        /\ \E i \in DOMAIN Windows : i < w /\ now - Windows[i] <= run.found
  BY <1>1 DEF Searched, w
<1>8. listed <= run'.found /\ run'.found <= now /\ run'.found # None
  <2>1. listed <= run'.found /\ run'.found <= now
    BY <1>4, <1>5, <1>6, <1>7
  <2>2. QED
    BY <1>4, <1>6, <2>1 DEF None
<1>9. \E i \in DOMAIN Windows : i < w + 1 /\ now - Windows[i] <= run'.found
  <2>1. CASE run'.found = m
    BY <1>2, <1>4, <1>5, <2>1 DEF InWindow
  <2>2. CASE run.found # None /\ run'.found = run.found
    <3>1. PICK i \in DOMAIN Windows : i < w /\ now - Windows[i] <= run.found
      BY <1>7, <2>2
    <3>2. i < w + 1
      BY <1>4, <3>1
    <3>3. QED
      BY <2>2, <3>1, <3>2
  <2>3. QED
    BY <1>6, <2>1, <2>2
<1>10. ASSUME run.clean, NEW i \in DOMAIN Windows, i < w + 1,
              NEW t \in listed .. now, InWindow(t, i)
       PROVE  run'.found <= t
  <2>1. CASE i = w
    <3>1. t \in Probed
      BY <1>2, <1>10, <2>1
    <3>2. m <= t
      BY <1>3, <3>1
    <3>3. QED
      BY <1>4, <1>5, <1>6, <3>2
  <2>2. CASE i # w
    <3>1. i < w
      BY <1>4, <1>10, <2>2
    <3>2. run.found # None /\ run.found <= t
      BY <1>1, <1>10, <3>1 DEF Searched, w
    <3>3. QED
      BY <1>4, <1>6, <3>2
  <2>3. QED
    BY <2>1, <2>2
<1>11. w + 1 \in 1 .. Len(Windows) + 1
  BY <1>2, <1>4
<1>12. \A t, i : InWindow(t, i)' = InWindow(t, i)
  BY <1>1 DEF InWindow
<1>13. QED
  BY <1>1, <1>3, <1>8, <1>9, <1>10, <1>11, <1>12 DEF Searched

(* An empty window behind one that had klines is before the first one, and  *)
(* so are all the windows behind it.                                        *)
LEMMA ProbeFindsNothingSearched ==
  ASSUME BackfillTyped, RunInPlace, Searched, ProbeFindsNothing
  PROVE  Searched'
<1> DEFINE w == run.window
           last == IF run.found # None THEN Len(Windows) ELSE w
<1>1. Searching /\ run.at = "probing" /\ UNCHANGED <<now, listed>>
  BY DEF ProbeFindsNothing, Searching, world
<1>2. /\ w \in Nat /\ w <= Len(Windows)
      /\ \A t \in listed .. now : InWindow(t, w) => t \in Probed
  BY <1>1, ProbedIsTheWindow
<1>3. /\ run'.at = "probing" /\ run'.window = last + 1 /\ run'.found = run.found
      /\ run'.clean => run.clean /\ Probed = {}
  BY ProbeFindsNothingEffect
<1>4. /\ now \in Nat /\ listed \in Nat /\ run.found \in Int /\ w \in 1 .. Len(Windows) + 1
      /\ Len(Windows) \in Nat /\ DOMAIN Windows = 1 .. Len(Windows) /\ Span \in Nat
      /\ \A i \in DOMAIN Windows : Windows[i] \in Nat
      /\ \A i, j \in DOMAIN Windows : i < j => Windows[i] + Span < Windows[j]
  BY <1>1, ConstantsTyped, RunFields, WindowsAssumption DEF BackfillTyped, Searched
<1>5. last \in w .. Len(Windows) /\ last + 1 \in 1 .. Len(Windows) + 1
  BY <1>2, <1>4
<1>6. run.found = None => last = w
  OBVIOUS
<1> HIDE DEF last
<1>7. run.found # None =>
        /\ listed <= run.found /\ run.found <= now
        /\ \E i \in DOMAIN Windows : i < w /\ now - Windows[i] <= run.found
  BY <1>1 DEF Searched
<1>8. run.clean => \A i \in DOMAIN Windows : i < w =>
         \A t \in listed .. now : InWindow(t, i) => run.found # None /\ run.found <= t
  BY <1>1 DEF Searched
<1> HIDE DEF w
<1>9. run.found # None =>
         \E i \in DOMAIN Windows : i < last + 1 /\ now - Windows[i] <= run.found
  <2> SUFFICES ASSUME run.found # None
               PROVE  \E i \in DOMAIN Windows : i < last + 1 /\ now - Windows[i] <= run.found
    OBVIOUS
  <2>1. PICK i \in DOMAIN Windows : i < w /\ now - Windows[i] <= run.found
    BY <1>7
  <2>2. i < last + 1
    BY <1>4, <1>5, <2>1
  <2>3. QED
    BY <2>1, <2>2
<1>10. ASSUME run.clean, Probed = {}, NEW i \in DOMAIN Windows, i < last + 1,
              NEW t \in listed .. now, InWindow(t, i)
       PROVE  run.found # None /\ run.found <= t
  <2>1. CASE i < w
    BY <1>8, <1>10, <2>1
  <2>2. CASE i = w
    BY <1>2, <1>10, <2>2
  <2>3. CASE w < i
    <3>1. run.found # None
      BY <1>4, <1>5, <1>6, <1>10, <2>3
    <3>2. PICK j \in DOMAIN Windows : j < w /\ now - Windows[j] <= run.found
      BY <1>7, <3>1
    <3>3. w \in DOMAIN Windows
      BY <1>2, <1>4
    <3>4. /\ Windows[j] + Span < Windows[w] /\ Windows[w] + Span < Windows[i]
          /\ Windows[i] \in Nat /\ Windows[j] \in Nat /\ Windows[w] \in Nat
      BY <1>4, <2>3, <3>2, <3>3
    <3> DEFINE e == now - Windows[w] + Span
    <3>5. t <= now - Windows[i] + Span
      BY <1>10 DEF InWindow
    <3>6. e \in listed .. now /\ now - Windows[w] <= e
      <4>1. \A n, l, s, a, b, c \in Nat : \A f, u \in Int :
               a + s < b /\ b + s < c /\ n - a <= f /\ f <= n /\ l <= u /\ u <= n - c + s =>
                  n - b + s \in l .. n /\ n - b <= n - b + s
        OBVIOUS
      <4>2. listed <= t /\ t \in Int /\ run.found <= now
        BY <1>4, <1>7, <3>1
      <4> HIDE DEF e
      <4>3. now - Windows[w] + Span \in listed .. now
            /\ now - Windows[w] <= now - Windows[w] + Span
        BY <1>4, <3>2, <3>4, <3>5, <4>1, <4>2
      <4>4. QED
        BY <4>3 DEF e
    <3>7. e \in Probed
      <4>1. e \in Int /\ e <= now - Windows[w] + Span
        BY <1>4, <3>4
      <4> HIDE DEF e
      <4>2. InWindow(e, w)
        BY <3>6, <4>1 DEF InWindow
      <4>3. QED
        BY <1>2, <3>6, <4>2
    <3>8. QED
      BY <1>10, <3>7
  <2>4. QED
    BY <1>4, <2>1, <2>2, <2>3
<1>11. \A t, i : InWindow(t, i)' = InWindow(t, i)
  BY <1>1 DEF InWindow
<1>12. QED
  BY <1>1, <1>3, <1>5, <1>7, <1>9, <1>10, <1>11 DEF Searched

(* What is cached without a failed request is as old as any kline in the    *)
(* windows looked at.                                                       *)
LEMMA DiscoveryStep ==
  ASSUME BackfillTyped, RunInPlace, Searched, DiscoveryWithinAWindow, [Next]_vars
  PROVE  Searched' /\ DiscoveryWithinAWindow'
<1>1. CASE UNCHANGED vars
  BY <1>1 DEF vars, world, Searched, InWindow, DiscoveryWithinAWindow
<1>2. CASE Tick
  <2>1. run.at \in {"ended", "failed"} /\ UNCHANGED <<run, cache, probed, listed>>
    BY <1>2 DEF Tick, world
  <2>2. QED
    BY <2>1 DEF Searched, DiscoveryWithinAWindow
(* Steps that neither search nor cache.                                     *)
<1>3. ASSUME UNCHANGED <<cache, probed, listed>>, run'.at \notin {"discovering", "checking", "probing"}
      PROVE  Searched' /\ DiscoveryWithinAWindow'
  BY <1>3 DEF Searched, DiscoveryWithinAWindow
<1>4. CASE StartRun
  BY <1>3, <1>4, StartRunEffect DEF StartRun, world
<1>5. CASE BeginType
  <2>1. UNCHANGED <<cache, probed, listed>>
    BY <1>5 DEF BeginType, world
  <2>2. QED
    BY <1>5, <2>1, BeginTypeEffect DEF Searched, DiscoveryWithinAWindow
<1>6. CASE CacheHit
  BY <1>3, <1>6, CacheHitEffect DEF CacheHit, world
<1>20. CASE CacheMiss
  <2>1. UNCHANGED <<cache, probed, listed>> /\ run.found = None
    BY <1>20 DEF CacheMiss, world, Searched
  <2>2. QED
    BY <1>20, <2>1, CacheMissEffect DEF Searched, DiscoveryWithinAWindow
<1>7. CASE CheckRecent
  <2>1. UNCHANGED <<cache, probed, listed>> /\ run.found = None
    BY <1>7 DEF CheckRecent, world, Searched
  <2>2. CASE run'.at = "next"
    BY <1>3, <2>1, <2>2
  <2>3. CASE run'.at # "next"
    <3>1. run'.at = "probing" /\ run'.window = 1 /\ run'.found = None
      BY <1>7, <2>1, <2>3, CheckRecentEffect
    <3>2. Len(Windows) \in Nat /\ \A i \in DOMAIN Windows : ~ (i < 1)
      BY ConstantsTyped
    <3>3. 1 \in 1 .. Len(Windows) + 1
      BY <3>2
    <3>4. QED
      BY <2>1, <3>1, <3>2, <3>3 DEF Searched, DiscoveryWithinAWindow
  <2>4. QED
    BY <2>2, <2>3
<1>8. CASE ProbeFinds
  BY <1>8, ProbeFindsSearched DEF ProbeFinds, world, DiscoveryWithinAWindow
<1>9. CASE ProbeFindsNothing
  BY <1>9, ProbeFindsNothingSearched DEF ProbeFindsNothing, world, DiscoveryWithinAWindow
<1>10. CASE FinishDiscovery
  <2>1. run'.at = "starting" /\ listed' = listed
    BY <1>10, FinishDiscoveryEffect DEF FinishDiscovery, world
  <2>2. Searched'
    BY <2>1 DEF Searched
  <2>3. CASE UNCHANGED <<cache, probed>>
    BY <2>1, <2>2, <2>3 DEF DiscoveryWithinAWindow
  <2>4. CASE cache' = Discovered /\ probed' = IF run.clean THEN run.end ELSE None
    <3> SUFFICES ASSUME probed' # None, NEW t \in listed .. Discovered - 1,
                        NEW i \in DOMAIN Windows,
                        probed' - Windows[i] <= t, t <= probed' - Windows[i] + Span
                 PROVE  FALSE
      BY <2>1, <2>2, <2>4 DEF DiscoveryWithinAWindow
    <3>1. /\ run.at = "probing" /\ ~ (run.window <= Len(Windows))
          /\ run.clean /\ probed' = now
      BY <1>10, <2>4 DEF FinishDiscovery, Searching, RunInPlace, InRun
    <3>2. /\ now \in Nat /\ listed \in Nat /\ run.found \in Int /\ run.window \in Nat
          /\ run.end = now
      BY <3>1, RunFields DEF BackfillTyped, RunInPlace, InRun
    <3>3. i < run.window
      <4>1. i \in 1 .. Len(Windows) /\ Len(Windows) \in Nat
        BY ConstantsTyped
      <4>2. QED
        BY <3>1, <3>2, <4>1
    <3>4. run.found # None => run.found <= now
      BY <3>1 DEF Searched
    <3>5. Discovered \in Int /\ Discovered <= now /\ (run.found # None => Discovered = run.found)
      BY <3>2, <3>4, ConstantsTyped DEF Discovered
    <3>6. t \in listed .. now /\ InWindow(t, i)
      BY <3>1, <3>2, <3>5 DEF InWindow
    <3>7. run.found # None /\ run.found <= t
      BY <3>1, <3>3, <3>6 DEF Searched
    <3>8. QED
      BY <3>2, <3>5, <3>7
  <2>5. QED
    BY <1>10, <2>3, <2>4 DEF FinishDiscovery
<1>11. CASE StartKlines
  BY <1>3, <1>11, StartKlinesEffect DEF StartKlines, world
<1>12. CASE FetchKlines
  BY <1>3, <1>12, FetchKlinesEffect DEF FetchKlines, world
<1>13. CASE FinishKlines
  BY <1>3, <1>13, FinishKlinesEffect DEF FinishKlines, world
<1>14. CASE StartSeries
  <2>1. run'.at \in {"next", "series"}
    BY <1>14, StartSeriesEffect
  <2>2. QED
    BY <1>3, <1>14, <2>1 DEF StartSeries, world
<1>15. CASE FetchChunk
  <2>1. run'.at \in {"next", "series"}
    BY <1>15, FetchChunkEffect
  <2>2. QED
    BY <1>3, <1>15, <2>1 DEF FetchChunk, world
<1>16. CASE ChunkFails
  BY <1>3, <1>16, ChunkFailsEffect DEF ChunkFails, world
<1>17. CASE FinishSeries
  BY <1>3, <1>17, FinishSeriesEffect DEF FinishSeries, world
<1>18. CASE Crash
  BY <1>3, <1>18, CrashEffect DEF Crash, world
<1>19. QED
  BY <1>1, <1>2, <1>4, <1>5, <1>6, <1>7, <1>8, <1>9, <1>10, <1>11, <1>12, <1>13, <1>14, <1>15,
     <1>16, <1>17, <1>18, <1>20 DEF Next, RunStep, Discover

-----------------------------------------------------------------------------
(* Rates and trades: the inductive invariant                                *)

Start == IF auto THEN now - Placeholder ELSE StartDate

(* What exchange k has at time t.                                           *)
Traded(k, t) == listed <= t /\ (k = "funding_rates" => (t - listed) % period = 0)

Accounted(k, t) == stored[k][t] > 0 \/ <<k, t>> \in withheld \/ <<k, t>> \in passedOver

Buffered(t) == PlacesOf(t, run.buffer) # {}

AtSeam(k, t) == k = "funding_rates" /\ <<k, t>> \in seams

(* Of what is older than something stored, nothing is missing unnoticed.    *)
StoredInOrder ==
    \A k \in Series : \A t, u \in Times :
        Traded(k, t) /\ Start <= t /\ t <= u /\ stored[k][u] > 0 => Accounted(k, t)

StoredIsPast == \A k \in Series : \A t \in Times : stored[k][t] > 0 => t <= now

(* What a run has passed is in its buffer if it is not accounted for.       *)
PassedIsKept ==
    run.at = "series" =>
        \A t \in Times :
            Traded(Kind, t) /\ Start <= t
            /\ (t < run.time \/ (t = now /\ run.time = now /\ Kind # "trades"))
                => Accounted(Kind, t) \/ Buffered(t)

(* What n runs over all of a series may store.                              *)
Copies(n, seam) == IF seam THEN 2 * n ELSE n

(* Rows, stored and buffered, are those of the runs before, and up to where *)
(* the run is those of one run more.                                        *)
FewRows(end, t, rows, seam, before) ==
    /\ rows <= Copies(before + 1, seam)
    /\ t = end => rows <= Copies(before, seam) + (IF seam THEN 1 ELSE 0)
    /\ t > end => rows <= Copies(before, seam)

Rows(t) == stored[Kind][t] + Cardinality(PlacesOf(t, run.buffer))

RowsUpToRun ==
    run.at = "series" =>
        \A t \in Times :
            /\ FewRows(run.time, t, Rows(t), AtSeam(Kind, t), restarts[Kind])
            /\ Buffered(t) => t <= now /\ t <= run.time

RestartsCounted == restarts \in [Series -> Nat]

SeriesInv ==
    /\ RestartsCounted
    /\ StoredInOrder
    /\ StoredIsPast
    /\ PassedIsKept
    /\ RowsUpToRun
    /\ OnlyKnownHoles
    /\ CopiesOnlyByRestarts

(* The runs there were, and the ends of chunks, only become more.           *)
LEMMA CopiesGrow ==
  ASSUME NEW m \in Nat, NEW n \in Nat, m <= n, NEW seam, NEW seamed, seam => seamed
  PROVE  Copies(m, seam) <= Copies(n, seamed)
  BY DEF Copies

(* What is accounted for stays so.                                          *)
LEMMA AccountedStays ==
  ASSUME NEW k \in Series, NEW t \in Times, Accounted(k, t),
         stored[k][t] > 0 => stored'[k][t] > 0,
         withheld \subseteq withheld', passedOver \subseteq passedOver'
  PROVE  Accounted(k, t)'
  BY DEF Accounted

(* Steps between series, and those that give one up.                        *)
LEMMA NothingStored ==
  ASSUME BackfillTyped, SeriesInv, now' \in Nat, now' >= now,
         UNCHANGED <<stored, world, claimed>>,
         withheld \subseteq withheld', passedOver \subseteq passedOver', seams \subseteq seams',
         RestartsCounted', \A k \in Series : restarts[k] <= restarts'[k]
  PROVE  StoredInOrder' /\ StoredIsPast' /\ OnlyKnownHoles' /\ CopiesOnlyByRestarts'
<1>1. now \in Nat /\ stored' = stored /\ auto' = auto /\ claimed' = claimed
      /\ listed' = listed /\ period' = period
  BY DEF BackfillTyped, world
<1>2. \A k \in Series, t \in Times : Accounted(k, t) => Accounted(k, t)'
  BY <1>1, AccountedStays
<1>3. \A t \in Times : Start' <= t => Start <= t
  <2>1. \A t \in Times : t \in Nat
    BY DEF Times
  <2>2. Placeholder \in Nat
    BY ConstantsTyped
  <2>3. QED
    BY <1>1, <2>1, <2>2 DEF Start
<1>4. StoredInOrder'
  <2> SUFFICES ASSUME NEW k \in Series, NEW t \in Times, NEW u \in Times,
                      Traded(k, t)', Start' <= t, t <= u, stored'[k][u] > 0
               PROVE  Accounted(k, t)'
    BY DEF StoredInOrder
  <2>1. Traded(k, t) /\ Start <= t /\ stored[k][u] > 0
    BY <1>1, <1>3 DEF Traded
  <2>2. Accounted(k, t)
    BY <2>1 DEF SeriesInv, StoredInOrder
  <2>3. QED
    BY <1>2, <2>2
<1>5. StoredIsPast'
  <2>1. \A t \in Times : t <= now => t <= now'
    BY <1>1 DEF Times
  <2>2. QED
    BY <1>1, <2>1 DEF SeriesInv, StoredIsPast
<1>6. OnlyKnownHoles'
  BY <1>1 DEF SeriesInv, OnlyKnownHoles
<1>7. CopiesOnlyByRestarts'
  <2> SUFFICES ASSUME NEW k \in Series, NEW t \in Times
               PROVE  stored[k][t] <= Copies(restarts'[k] + 1, AtSeam(k, t)')
    BY <1>1 DEF CopiesOnlyByRestarts, Copies, AtSeam
  <2>1. stored[k][t] <= Copies(restarts[k] + 1, AtSeam(k, t))
    BY DEF SeriesInv, CopiesOnlyByRestarts, Copies, AtSeam
  <2>2. /\ restarts[k] \in Nat /\ restarts'[k] \in Nat /\ restarts[k] <= restarts'[k]
        /\ stored[k][t] \in Nat
    BY DEF SeriesInv, RestartsCounted, BackfillTyped
  <2>3. AtSeam(k, t) => AtSeam(k, t)'
    BY DEF AtSeam
  <2> DEFINE seam == AtSeam(k, t)
             seamed == AtSeam(k, t)'
  <2> HIDE DEF seam, seamed
  <2>4. stored[k][t] <= Copies(restarts[k] + 1, seam) /\ (seam => seamed)
    BY <2>1, <2>3 DEF seam, seamed
  <2>5. stored[k][t] <= Copies(restarts'[k] + 1, seamed)
    BY <2>2, <2>4 DEF Copies
  <2>6. QED
    BY <2>5 DEF seamed
<1>8. QED
  BY <1>4, <1>5, <1>6, <1>7

LEMMA OutsideSeries ==
  ASSUME BackfillTyped, SeriesInv, now' \in Nat, now' >= now,
         UNCHANGED <<stored, world, claimed, restarts>>, run'.at # "series",
         withheld \subseteq withheld', passedOver \subseteq passedOver', seams \subseteq seams'
  PROVE  SeriesInv'
<1>1. /\ RestartsCounted' /\ \A k \in Series : restarts[k] <= restarts'[k]
      /\ UNCHANGED <<stored, world, claimed>>
  BY DEF SeriesInv, RestartsCounted
<1>2. StoredInOrder' /\ StoredIsPast' /\ OnlyKnownHoles' /\ CopiesOnlyByRestarts'
  BY <1>1, NothingStored
<1>3. PassedIsKept' /\ RowsUpToRun'
  BY DEF PassedIsKept, RowsUpToRun
<1>4. QED
  BY <1>1, <1>2, <1>3 DEF SeriesInv

LEMMA SeriesStartIsStart ==
  ASSUME RunInPlace, InRun
  PROVE  SeriesStart = Start
  BY DEF RunInPlace, SeriesStart, Start

LEMMA EmptyBuffer ==
  ASSUME NEW t
  PROVE  PlacesOf(t, << >>) = {} /\ Cardinality(PlacesOf(t, << >>)) = 0
<1>1. PlacesOf(t, << >>) = {}
  BY DEF PlacesOf
<1>2. QED
  BY <1>1, FS_EmptySet

(* A series starts behind all that is stored, and passes over nothing but   *)
(* the gap of the resume; or it starts over, and the runs over all of the   *)
(* series become one more.                                                  *)
LEMMA StartSeriesKeeps ==
  ASSUME BackfillTyped, RunInPlace, SeriesInv, StartSeries
  PROVE  SeriesInv'
<1> DEFINE latest == MaxOf(Existing)
           resume == latest + ResumeOf[Kind]
           Begins(from) ==
              \/ run'.at = "next"
              \/ /\ run'.at = "series" /\ run'.types = run.types /\ run.types # << >>
                 /\ run'.buffer = << >> /\ run'.time = from /\ from < now
           Fresh   == /\ Existing = {} /\ Begins(SeriesStart)
                      /\ UNCHANGED <<passedOver, restarts>>
           Resumes == /\ Existing # {} /\ resume \in Int /\ Begins(resume)
                      /\ passedOver' = passedOver \cup Of(Kind, latest + 1 .. resume - 1)
                      /\ restarts' = restarts
           Over    == /\ Existing # {} /\ Begins(SeriesStart)
                      /\ restarts' = [restarts EXCEPT ![Kind] = @ + 1]
                      /\ passedOver' = passedOver
<1>1. /\ Kind \in Series /\ SeriesStart \in Int
      /\ Existing # {} => latest \in Existing /\ \A u \in Existing : u <= latest
      /\ Fresh \/ Resumes \/ Over
  BY StartSeriesEffect
<1>2. UNCHANGED <<now, world, stored, withheld, seams, claimed>> /\ run.at = "starting"
  BY DEF StartSeries
<1>3. run.end = now /\ SeriesStart = Start /\ now \in Nat /\ RestartsCounted
  BY <1>2, SeriesStartIsStart DEF RunInPlace, InRun, BackfillTyped, SeriesInv
<1>4. \A t \in Times : t \in Nat
  BY DEF Times
<1>5. ResumeOf[Kind] \in Nat \ {0}
  BY <1>1, ConstantsTyped
<1>6. \A u : u \in Existing <=> /\ u \in Times /\ stored[Kind][u] > 0
                               /\ SeriesStart <= u /\ u <= now
  BY <1>3 DEF Existing
<1> HIDE DEF latest
<1>7. Existing # {} => latest \in Nat /\ latest \in Times
  BY <1>1, <1>4, <1>6
<1>8. /\ RestartsCounted'
      /\ \A k \in Series : restarts[k] \in Nat /\ restarts[k] <= restarts'[k]
      /\ Over => restarts'[Kind] = restarts[Kind] + 1
  <2>1. restarts \in [Series -> Nat]
    BY <1>3 DEF RestartsCounted
  <2>2. CASE restarts' = restarts
    <3>1. ~ Over
      <4>1. restarts[Kind] \in Nat /\ restarts[Kind] # restarts[Kind] + 1
        BY <1>1, <2>1
      <4>2. Over => restarts'[Kind] = restarts[Kind] + 1
        BY <1>1, <2>1
      <4>3. QED
        BY <2>2, <4>1, <4>2
    <3>2. QED
      BY <2>1, <2>2, <3>1 DEF RestartsCounted
  <2>3. CASE restarts' = [restarts EXCEPT ![Kind] = @ + 1]
    BY <1>1, <2>1, <2>3 DEF RestartsCounted
  <2>4. QED
    BY <1>1, <2>2, <2>3
<1>9. passedOver \subseteq passedOver' /\ now' \in Nat /\ now' >= now
  BY <1>1, <1>2, <1>3
<1>10. StoredInOrder' /\ StoredIsPast' /\ OnlyKnownHoles' /\ CopiesOnlyByRestarts'
  BY <1>2, <1>8, <1>9, NothingStored
<1>11. CASE run'.at = "next"
  BY <1>8, <1>10, <1>11 DEF PassedIsKept, RowsUpToRun, SeriesInv
<1>12. CASE run'.at # "next"
  <2> DEFINE from == run'.time
  <2>1. /\ run'.at = "series" /\ run'.types = run.types /\ run'.buffer = << >>
        /\ from \in Int /\ from < now
        /\ (Fresh \/ Over) => from = SeriesStart
        /\ Resumes => from = resume
    BY <1>1, <1>12
  <2>2. Kind' = Kind /\ Start' = Start
    BY <1>2, <2>1 DEF Kind, Start, world
  <2>3. PassedIsKept'
    <3> SUFFICES ASSUME NEW t \in Times, Traded(Kind, t)', Start <= t,
                        t < from \/ (t = now /\ from = now)
                 PROVE  Accounted(Kind, t)'
      BY <1>2, <2>1, <2>2 DEF PassedIsKept
    <3>1. t < from
      BY <2>1
    <3>2. Resumes /\ from = resume
      <4>1. ~ (from = SeriesStart)
        BY <1>1, <1>3, <1>4, <3>1
      <4>2. QED
        BY <1>1, <2>1, <4>1
    <3>3. CASE t <= latest
      <4>1. Traded(Kind, t) /\ stored[Kind][latest] > 0 /\ latest \in Times
        BY <1>1, <1>2, <1>6, <3>2, <2>2 DEF Traded, world
      <4>2. Accounted(Kind, t)
        BY <1>1, <3>3, <4>1 DEF SeriesInv, StoredInOrder
      <4>3. QED
        BY <1>1, <1>2, <1>9, <2>2, <4>2, AccountedStays
    <3>4. CASE ~ (t <= latest)
      <4>1. t \in latest + 1 .. resume - 1
        BY <1>4, <1>5, <1>7, <3>1, <3>2, <3>4
      <4>2. <<Kind, t>> \in passedOver'
        BY <3>2, <4>1 DEF Of
      <4>3. QED
        BY <2>2, <4>2 DEF Accounted
    <3>5. QED
      BY <3>3, <3>4
  <2>4. RowsUpToRun'
    <3> SUFFICES ASSUME NEW t \in Times
                 PROVE  /\ FewRows(run.time, t, Rows(t), AtSeam(Kind, t), restarts[Kind])'
                        /\ ~ Buffered(t)'
      BY DEF RowsUpToRun
    <3>1. Cardinality(PlacesOf(t, run'.buffer)) = 0 /\ ~ Buffered(t)'
      BY <2>1, EmptyBuffer DEF Buffered
    <3> DEFINE rows == stored[Kind][t]
               seam == AtSeam(Kind, t)
               before == restarts[Kind]
               after == restarts'[Kind]
    <3>2. rows \in Nat /\ before \in Nat /\ after \in Nat /\ before <= after
      BY <1>1, <1>8 DEF BackfillTyped, RestartsCounted
    <3>3. (Fresh \/ Resumes) /\ t >= from => ~ (rows > 0)
      <4> SUFFICES ASSUME Fresh \/ Resumes, t >= from, rows > 0 PROVE FALSE
        OBVIOUS
      <4>1. t <= now
        BY <1>1 DEF SeriesInv, StoredIsPast
      <4>2. CASE Existing = {}
        BY <1>1, <1>6, <2>1, <4>1, <4>2
      <4>3. CASE Existing # {}
        <5>1. latest \in Existing /\ SeriesStart <= latest
          BY <1>1, <1>6, <4>3
        <5>2. t > latest /\ SeriesStart <= t
          BY <1>1, <1>4, <1>5, <1>7, <2>1, <4>3, <5>1
        <5>3. t \in Existing
          BY <1>6, <4>1, <5>2
        <5>4. t <= latest
          BY <1>1, <5>3
        <5>5. QED
          BY <1>4, <1>7, <4>3, <5>2, <5>4
      <4>4. QED
        BY <4>2, <4>3
    <3>4. rows <= Copies(before + 1, seam)
      BY <1>1 DEF SeriesInv, CopiesOnlyByRestarts, Copies, AtSeam
    <3>5. Over => after = before + 1
      BY <1>8
    <3>6. Rows(t)' = rows /\ AtSeam(Kind, t)' = seam /\ restarts'[Kind'] = after
      BY <1>2, <2>2, <3>1, <3>2 DEF Rows, AtSeam
    <3>7. (Fresh \/ Resumes) \/ Over
      BY <1>1
    <3> DEFINE over == Over
    <3>8. /\ over => after = before + 1
          /\ t >= from => over \/ ~ (rows > 0)
      BY <3>3, <3>5, <3>7
    <3> HIDE DEF from, rows, seam, before, after, over
    <3>9. FewRows(from, t, rows, seam, after)
      <4>1. rows <= Copies(after + 1, seam)
        BY <3>2, <3>4 DEF Copies
      <4>2. t >= from => rows <= Copies(after, seam)
        <5>1. over => rows <= Copies(after, seam)
          BY <3>4, <3>8
        <5>2. ~ (rows > 0) => rows <= Copies(after, seam)
          BY <3>2 DEF Copies
        <5>3. QED
          BY <3>8, <5>1, <5>2
      <4>3. QED
        BY <1>4, <2>1, <3>2, <4>1, <4>2 DEF FewRows, Copies, from
    <3>10. QED
      BY <3>1, <3>6, <3>9 DEF from
  <2>5. QED
    BY <1>8, <1>10, <2>3, <2>4 DEF SeriesInv
<1>13. QED
  BY <1>11, <1>12

(* What a chunk brings is between the run and the chunk's end, and is all   *)
(* that there is.                                                           *)
LEMMA OfferedFacts ==
  ASSUME BackfillTyped, RunInPlace, run.at = "series", run.time < run.end, NEW t \in Times
  PROVE  /\ t \in Offered => /\ run.time <= t /\ t <= ChunkEnd /\ t <= now
                             /\ Kind = "trades" => t < ChunkEnd
         /\ /\ Traded(Kind, t) /\ run.time <= t
            /\ t < ChunkEnd \/ (t = ChunkEnd /\ Kind # "trades")
            => t \in Offered
<1>1. /\ Kind \in Series /\ now \in Nat /\ run.time \in Int
      /\ ChunkEnd \in Int /\ run.time < ChunkEnd /\ ChunkEnd <= now
  BY ChunkFacts
<1>2. t \in Nat
  BY DEF Times
<1>3. CASE Kind = "trades"
  <2>1. t \in Offered <=> listed <= t /\ run.time <= t /\ t <= ChunkEnd - 1 /\ t <= now
    BY <1>3 DEF Offered, Between, Trades, Candles
  <2>2. t <= ChunkEnd - 1 <=> t < ChunkEnd
    BY <1>1, <1>2
  <2>3. QED
    BY <1>1, <1>2, <1>3, <2>1, <2>2 DEF Traded
<1>4. CASE Kind # "trades"
  <2>1. t \in Offered <=> /\ listed <= t /\ run.time <= t /\ t <= ChunkEnd /\ t <= now
                          /\ (t - listed) % period = 0
    BY <1>4 DEF Offered, Between, Rates, Candles
  <2>2. Kind = "funding_rates"
    BY <1>1, <1>4 DEF Series
  <2>3. QED
    BY <1>1, <1>2, <1>4, <2>1, <2>2 DEF Traded
<1>5. QED
  BY <1>3, <1>4

LEMMA RowsTyped ==
  ASSUME BackfillTyped, RunInPlace, run.at = "series", NEW t \in Times
  PROVE  /\ Kind \in Series /\ Rows(t) \in Nat /\ stored[Kind][t] \in Nat
         /\ Cardinality(PlacesOf(t, run.buffer)) \in Nat
         /\ stored[Kind][t] <= Rows(t)
         /\ Buffered(t) => Rows(t) > 0
<1>1. Kind \in Series /\ run.buffer \in Seq(Times)
  BY RunFields DEF RunInPlace
<1>2. stored[Kind][t] \in Nat
  BY <1>1 DEF BackfillTyped
<1>3. /\ Cardinality(PlacesOf(t, run.buffer)) \in Nat
      /\ Buffered(t) => Cardinality(PlacesOf(t, run.buffer)) # 0
  BY <1>1, PlacesAreFinite DEF Buffered
<1>4. QED
  BY <1>1, <1>2, <1>3 DEF Rows

(* One more row of what a chunk brings leaves rows few up to its end.       *)
LEMMA ChunkRows ==
  ASSUME BackfillTyped, RunInPlace, SeriesInv, run.at = "series", run.time < run.end,
         NEW t \in Times, NEW more \in {0, 1}, more = 1 => t \in Offered,
         run'.types = run.types, seams' = seams \cup Of(Kind, {ChunkEnd})
  PROVE  FewRows(ChunkEnd, t, Rows(t) + more, AtSeam(Kind, t)', restarts[Kind])
<1>1. /\ Kind \in Series /\ now \in Nat /\ run.time \in Int
      /\ ChunkEnd \in Int /\ run.time < ChunkEnd
  BY ChunkFacts
<1>2. t \in Nat /\ Rows(t) \in Nat /\ restarts[Kind] \in Nat
  BY <1>1, RowsTyped DEF Times, SeriesInv, RestartsCounted
<1>3. FewRows(run.time, t, Rows(t), AtSeam(Kind, t), restarts[Kind])
  BY DEF SeriesInv, RowsUpToRun
<1>4. t \in Offered => /\ run.time <= t /\ t <= ChunkEnd
                       /\ Kind = "trades" => t < ChunkEnd
  BY OfferedFacts
<1>5. AtSeam(Kind, t) => AtSeam(Kind, t)'
  BY DEF AtSeam, Kind
<1>6. t = ChunkEnd /\ Kind # "trades" => AtSeam(Kind, t)'
  BY <1>1 DEF AtSeam, Kind, Of, Series
<1> DEFINE rows == Rows(t)
           seam == AtSeam(Kind, t)
           seamed == AtSeam(Kind, t)'
           before == restarts[Kind]
<1> HIDE DEF rows, seam, seamed, before
<1>7. /\ FewRows(run.time, t, rows, seam, before) /\ rows \in Nat /\ before \in Nat
      /\ seam => seamed
      /\ t = ChunkEnd /\ Kind # "trades" => seamed
  BY <1>2, <1>3, <1>5, <1>6 DEF rows, seam, seamed, before
<1>8. CASE t > run.time
  <2>1. rows <= Copies(before, seam)
    BY <1>7, <1>8 DEF FewRows
  <2>2. rows <= Copies(before, seamed)
    BY <1>7, <2>1 DEF Copies
  <2>3. t > ChunkEnd => more = 0
    BY <1>1, <1>2, <1>4
  <2>4. t = ChunkEnd /\ more = 1 => seamed
    BY <1>1, <1>4, <1>7
  <2>5. FewRows(ChunkEnd, t, rows + more, seamed, before)
    BY <1>7, <2>2, <2>3, <2>4 DEF FewRows, Copies
  <2>6. QED
    BY <2>5 DEF rows, seamed, before
<1>9. CASE ~ (t > run.time)
  <2>1. ~ (t = ChunkEnd) /\ ~ (t > ChunkEnd)
    BY <1>1, <1>2, <1>9
  <2>2. t # run.time => more = 0
    BY <1>1, <1>2, <1>4, <1>9
  <2>3. t = run.time => rows <= Copies(before, seam) + (IF seam THEN 1 ELSE 0)
    BY <1>7 DEF FewRows
  <2>4. rows <= Copies(before + 1, seam)
    BY <1>7 DEF FewRows
  <2>5. rows + more <= Copies(before + 1, seamed)
    BY <1>7, <2>2, <2>3, <2>4 DEF Copies
  <2>6. FewRows(ChunkEnd, t, rows + more, seamed, before)
    BY <2>1, <2>5 DEF FewRows
  <2>7. QED
    BY <2>6 DEF rows, seamed, before
<1>10. QED
  BY <1>8, <1>9

(* Of what is passed with a chunk, nothing is missing unnoticed.            *)
LEMMA ChunkPassed ==
  ASSUME BackfillTyped, RunInPlace, SeriesInv, run.at = "series", run.time < run.end,
         NEW t \in Times, Traded(Kind, t), Start <= t,
         t < ChunkEnd \/ (t = now /\ ChunkEnd = now /\ Kind # "trades")
  PROVE  Accounted(Kind, t) \/ Buffered(t) \/ t \in Offered
<1>1. run.time \in Int /\ t \in Nat
  BY ChunkFacts DEF Times
<1>2. CASE t < run.time
  BY <1>2 DEF SeriesInv, PassedIsKept
<1>3. CASE ~ (t < run.time)
  <2>1. run.time <= t
    BY <1>1, <1>3
  <2>2. QED
    BY <2>1, OfferedFacts
<1>4. QED
  BY <1>2, <1>3

(* A chunk put in the buffer, or lost.                                      *)
LEMMA ChunkKept ==
  ASSUME BackfillTyped, RunInPlace, SeriesInv, run.at = "series", run.time < run.end,
         NEW R \in SUBSET Offered,
         run'.at = "series", run'.types = run.types, run'.time = ChunkEnd,
         run'.buffer \in Seq(Times),
         \A t \in Times : Cardinality(PlacesOf(t, run'.buffer))
                             = Cardinality(PlacesOf(t, run.buffer)) + (IF t \in R THEN 1 ELSE 0),
         UNCHANGED <<now, world, stored, passedOver, restarts, claimed>>,
         withheld' = withheld \cup Of(Kind, Offered \ R),
         seams' = seams \cup Of(Kind, {ChunkEnd})
  PROVE  SeriesInv'
<1>1. Kind \in Series /\ Kind' = Kind /\ Start' = Start /\ now \in Nat /\ Offered \in SUBSET Times
  BY ChunkFacts, AnswersAreTimes DEF Kind, Start, world
<1>7. RestartsCounted' /\ \A k \in Series : restarts[k] <= restarts'[k]
  BY DEF SeriesInv, RestartsCounted
<1>2. StoredInOrder' /\ StoredIsPast' /\ OnlyKnownHoles' /\ CopiesOnlyByRestarts'
  BY <1>1, <1>7, NothingStored
<1>3. ASSUME NEW t \in Times
      PROVE  /\ Cardinality(PlacesOf(t, run.buffer)) \in Nat
             /\ (PlacesOf(t, run.buffer) # {} \/ t \in R) <=> Buffered(t)'
  <2>1. /\ Cardinality(PlacesOf(t, run.buffer)) \in Nat
        /\ Cardinality(PlacesOf(t, run.buffer)) = 0 <=> PlacesOf(t, run.buffer) = {}
    BY RunFields, PlacesAreFinite
  <2>2. /\ Cardinality(PlacesOf(t, run'.buffer)) \in Nat
        /\ Cardinality(PlacesOf(t, run'.buffer)) = 0 <=> PlacesOf(t, run'.buffer) = {}
    BY PlacesAreFinite
  <2>3. QED
    BY <2>1, <2>2 DEF Buffered
<1>4. PassedIsKept'
  <2> SUFFICES ASSUME NEW t \in Times, Traded(Kind, t), Start <= t,
                      t < ChunkEnd \/ (t = now /\ ChunkEnd = now /\ Kind # "trades")
               PROVE  Accounted(Kind, t)' \/ Buffered(t)'
    BY <1>1 DEF PassedIsKept, Traded, world
  <2>1. CASE Accounted(Kind, t)
    BY <1>1, <2>1, AccountedStays
  <2>2. CASE Buffered(t)
    BY <1>3, <2>2 DEF Buffered
  <2>3. CASE t \in Offered
    <3>1. CASE t \in R
      BY <1>3, <3>1
    <3>2. CASE t \notin R
      <4>1. <<Kind, t>> \in withheld'
        BY <2>3, <3>2 DEF Of
      <4>2. QED
        BY <1>1, <4>1 DEF Accounted
    <3>3. QED
      BY <3>1, <3>2
  <2>4. QED
    BY <2>1, <2>2, <2>3, ChunkPassed
<1>5. RowsUpToRun'
  <2> SUFFICES ASSUME NEW t \in Times
               PROVE  /\ FewRows(run.time, t, Rows(t), AtSeam(Kind, t), restarts[Kind])'
                      /\ Buffered(t)' => t <= now /\ t <= ChunkEnd
    BY DEF RowsUpToRun
  <2> DEFINE more == IF t \in R THEN 1 ELSE 0
  <2>1. more \in {0, 1} /\ (more = 1 => t \in Offered)
    OBVIOUS
  <2>2. Cardinality(PlacesOf(t, run'.buffer)) = Cardinality(PlacesOf(t, run.buffer)) + more
    OBVIOUS
  <2> HIDE DEF more
  <2>3. FewRows(ChunkEnd, t, Rows(t) + more, AtSeam(Kind, t)', restarts[Kind])
    BY <2>1, ChunkRows
  <2>4. Rows(t)' = Rows(t) + more /\ restarts'[Kind'] = restarts[Kind]
    <3>1. stored'[Kind'][t] = stored[Kind][t] /\ restarts'[Kind'] = restarts[Kind]
      BY <1>1
    <3>2. stored[Kind][t] \in Nat /\ Cardinality(PlacesOf(t, run.buffer)) \in Nat
      BY RowsTyped
    <3>3. QED
      BY <2>1, <2>2, <3>1, <3>2 DEF Rows
  <2>5. Buffered(t)' => t <= now /\ t <= ChunkEnd
    <3>1. Buffered(t) => t <= now /\ t <= run.time
      BY DEF SeriesInv, RowsUpToRun
    <3>2. t \in R => t <= now /\ t <= ChunkEnd
      BY OfferedFacts
    <3>3. run.time \in Int /\ ChunkEnd \in Int /\ run.time < ChunkEnd /\ t \in Nat
      BY ChunkFacts DEF Times
    <3>4. QED
      BY <1>3, <3>1, <3>2, <3>3 DEF Buffered
  <2>6. QED
    BY <2>3, <2>4, <2>5
<1>6. QED
  BY <1>2, <1>4, <1>5, <1>7 DEF SeriesInv

(* A buffer is stored whole: none of what is older than its newest row is   *)
(* missing, if it was not missing before.                                   *)
LEMMA BufferStored ==
  ASSUME BackfillTyped, Kind \in Series, SeriesInv, NEW buffer \in Seq(Times),
         UNCHANGED <<now, world, passedOver, restarts>>,
         stored' = StoredWith(buffer),
         withheld \subseteq withheld', seams \subseteq seams',
         \A t \in Times : stored[Kind][t] + Cardinality(PlacesOf(t, buffer))
                             <= Copies(restarts[Kind] + 1, Kind = "funding_rates" /\ <<Kind, t>> \in seams'),
         \A t \in Times : PlacesOf(t, buffer) # {} => t <= now,
         \A t, u \in Times :
            Traded(Kind, t) /\ Start <= t /\ t < u /\ PlacesOf(u, buffer) # {} =>
                Accounted(Kind, t) \/ <<Kind, t>> \in withheld' \/ PlacesOf(t, buffer) # {}
  PROVE  /\ StoredInOrder' /\ StoredIsPast' /\ CopiesOnlyByRestarts'
         /\ \A k \in Series, t \in Times : stored[k][t] > 0 => stored'[k][t] > 0
         /\ \A t \in Times : PlacesOf(t, buffer) # {} => stored'[Kind][t] > 0
<1>1. now \in Nat /\ now' = now /\ Start' = Start
  BY DEF BackfillTyped, Start, world
<1>2. ASSUME NEW k \in Series, NEW t \in Times
      PROVE  /\ stored[k][t] \in Nat /\ Cardinality(PlacesOf(t, buffer)) \in Nat
             /\ Cardinality(PlacesOf(t, buffer)) = 0 <=> PlacesOf(t, buffer) = {}
             /\ stored'[k][t] = stored[k][t]
                                + (IF k = Kind THEN Cardinality(PlacesOf(t, buffer)) ELSE 0)
  BY StoredWithFacts, PlacesAreFinite DEF BackfillTyped
<1>3. \A k \in Series, t \in Times : stored[k][t] > 0 => stored'[k][t] > 0
  <2> SUFFICES ASSUME NEW k \in Series, NEW t \in Times, stored[k][t] > 0
               PROVE  stored'[k][t] > 0
    OBVIOUS
  <2>1. QED
    BY <1>2
<1>4. \A t \in Times : PlacesOf(t, buffer) # {} => stored'[Kind][t] > 0
  <2> SUFFICES ASSUME NEW t \in Times, PlacesOf(t, buffer) # {}
               PROVE  stored'[Kind][t] > 0
    OBVIOUS
  <2>1. QED
    BY <1>2
<1>5. ASSUME NEW k \in Series, NEW t \in Times, stored'[k][t] > 0
      PROVE  stored[k][t] > 0 \/ (k = Kind /\ PlacesOf(t, buffer) # {})
  BY <1>2, <1>5
<1>6. \A k \in Series, t \in Times : Accounted(k, t) => Accounted(k, t)'
  BY <1>3 DEF Accounted
<1>7. StoredInOrder'
  <2> SUFFICES ASSUME NEW k \in Series, NEW t \in Times, NEW u \in Times,
                      Traded(k, t)', Start <= t, t <= u, stored'[k][u] > 0
               PROVE  Accounted(k, t)'
    BY <1>1 DEF StoredInOrder
  <2>1. Traded(k, t)
    BY DEF Traded, world
  <2>2. CASE stored[k][u] > 0
    BY <1>6, <2>1, <2>2 DEF SeriesInv, StoredInOrder
  <2>3. CASE k = Kind /\ PlacesOf(u, buffer) # {}
    <3>1. CASE t = u
      BY <1>4, <2>3, <3>1 DEF Accounted
    <3>2. CASE t # u
      <4>1. t < u
        BY <3>2 DEF Times
      <4>2. Accounted(Kind, t) \/ <<Kind, t>> \in withheld' \/ PlacesOf(t, buffer) # {}
        BY <2>1, <2>3, <4>1
      <4>3. QED
        BY <1>4, <1>6, <2>3, <4>2 DEF Accounted
    <3>3. QED
      BY <3>1, <3>2
  <2>4. QED
    BY <1>5, <2>2, <2>3
<1>8. StoredIsPast'
  <2> SUFFICES ASSUME NEW k \in Series, NEW t \in Times, stored'[k][t] > 0
               PROVE  t <= now
    BY <1>1 DEF StoredIsPast
  <2>1. QED
    BY <1>5 DEF SeriesInv, StoredIsPast
<1>9. CopiesOnlyByRestarts'
  <2> SUFFICES ASSUME NEW k \in Series, NEW t \in Times
               PROVE  stored'[k][t] <= Copies(restarts[k] + 1, AtSeam(k, t)')
    BY DEF CopiesOnlyByRestarts, Copies, AtSeam
  <2>1. CASE k = Kind
    BY <1>2, <2>1 DEF AtSeam
  <2>2. CASE k # Kind
    <3>1. stored'[k][t] = stored[k][t] /\ stored[k][t] \in Nat /\ restarts[k] \in Nat
      BY <1>2, <2>2 DEF SeriesInv, RestartsCounted
    <3>2. stored[k][t] <= Copies(restarts[k] + 1, AtSeam(k, t))
      BY DEF SeriesInv, CopiesOnlyByRestarts, Copies, AtSeam
    <3>3. AtSeam(k, t) => AtSeam(k, t)'
      BY DEF AtSeam
    <3> DEFINE rows == stored[k][t]
               seam == AtSeam(k, t)
               seamed == AtSeam(k, t)'
               before == restarts[k]
    <3>4. /\ rows \in Nat /\ before \in Nat /\ rows <= Copies(before + 1, seam)
          /\ seam => seamed
      BY <3>1, <3>2, <3>3
    <3> HIDE DEF rows, seam, seamed, before
    <3>5. rows <= Copies(before + 1, seamed)
      BY <3>4 DEF Copies
    <3>6. QED
      BY <3>1, <3>5 DEF rows, seamed, before
  <2>3. QED
    BY <2>1, <2>2
<1>10. QED
  BY <1>3, <1>4, <1>7, <1>8, <1>9

LEMMA KnownHolesStay ==
  ASSUME OnlyKnownHoles, claimed' = claimed,
         \A k \in Series, t \in Times : stored[k][t] > 0 => stored'[k][t] > 0,
         withheld \subseteq withheld', passedOver \subseteq passedOver'
  PROVE  OnlyKnownHoles'
  BY DEF OnlyKnownHoles

(* What is in the buffer is not newer than where the run is.                *)
LEMMA BufferedIsPassed ==
  ASSUME BackfillTyped, RunInPlace, SeriesInv, run.at = "series", NEW t \in Times, Buffered(t)
  PROVE  t <= run.time /\ t <= now
  BY DEF SeriesInv, RowsUpToRun

(* A chunk that fills the buffer has it stored.                             *)
LEMMA ChunkStored ==
  ASSUME BackfillTyped, RunInPlace, SeriesInv, run.at = "series", run.time < run.end,
         NEW R \in SUBSET Offered,
         run'.at = "series", run'.types = run.types, run'.time = ChunkEnd, run'.buffer = << >>,
         NEW buffer \in Seq(Times),
         \A t \in Times : Cardinality(PlacesOf(t, buffer))
                             = Cardinality(PlacesOf(t, run.buffer)) + (IF t \in R THEN 1 ELSE 0),
         stored' = StoredWith(buffer),
         UNCHANGED <<now, world, passedOver, restarts, claimed>>,
         withheld' = withheld \cup Of(Kind, Offered \ R),
         seams' = seams \cup Of(Kind, {ChunkEnd})
  PROVE  SeriesInv'
<1>1. /\ Kind \in Series /\ Kind' = Kind /\ Start' = Start /\ now \in Nat
      /\ Offered \in SUBSET Times /\ ChunkEnd \in Int /\ run.time < ChunkEnd /\ ChunkEnd <= now
      /\ run.time \in Int
  BY ChunkFacts, AnswersAreTimes DEF Kind, Start, world
<1>2. ASSUME NEW t \in Times
      PROVE  (Buffered(t) \/ t \in R) <=> PlacesOf(t, buffer) # {}
  <2>1. /\ Cardinality(PlacesOf(t, run.buffer)) \in Nat
        /\ Cardinality(PlacesOf(t, run.buffer)) = 0 <=> PlacesOf(t, run.buffer) = {}
    BY RunFields, PlacesAreFinite
  <2>2. /\ Cardinality(PlacesOf(t, buffer)) \in Nat
        /\ Cardinality(PlacesOf(t, buffer)) = 0 <=> PlacesOf(t, buffer) = {}
    BY PlacesAreFinite
  <2>3. QED
    BY <2>1, <2>2 DEF Buffered
<1>3. ASSUME NEW t \in Times
      PROVE  FewRows(ChunkEnd, t, stored[Kind][t] + Cardinality(PlacesOf(t, buffer)),
                     AtSeam(Kind, t)', restarts[Kind])
  <2> DEFINE more == IF t \in R THEN 1 ELSE 0
  <2>1. more \in {0, 1} /\ (more = 1 => t \in Offered)
    OBVIOUS
  <2>2. Cardinality(PlacesOf(t, buffer)) = Cardinality(PlacesOf(t, run.buffer)) + more
    OBVIOUS
  <2> HIDE DEF more
  <2>3. FewRows(ChunkEnd, t, Rows(t) + more, AtSeam(Kind, t)', restarts[Kind])
    BY <2>1, ChunkRows
  <2>4. stored[Kind][t] \in Nat /\ Cardinality(PlacesOf(t, run.buffer)) \in Nat
    BY RowsTyped
  <2>5. Rows(t) + more = stored[Kind][t] + Cardinality(PlacesOf(t, buffer))
    BY <2>1, <2>2, <2>4 DEF Rows
  <2>6. QED
    BY <2>3, <2>5
<1>4. ASSUME NEW t \in Times
      PROVE  stored[Kind][t] + Cardinality(PlacesOf(t, buffer))
                <= Copies(restarts[Kind] + 1, Kind = "funding_rates" /\ <<Kind, t>> \in seams')
  <2>1. AtSeam(Kind, t)' <=> Kind = "funding_rates" /\ <<Kind, t>> \in seams'
    BY <1>1 DEF AtSeam
  <2>2. QED
    BY <1>3, <2>1 DEF FewRows, Copies
<1>5. ASSUME NEW t \in Times, PlacesOf(t, buffer) # {} PROVE t <= now
  BY <1>2, <1>5, BufferedIsPassed, OfferedFacts
<1>6. ASSUME NEW t \in Times, NEW u \in Times, Traded(Kind, t), Start <= t, t < u,
             PlacesOf(u, buffer) # {}
      PROVE  Accounted(Kind, t) \/ <<Kind, t>> \in withheld' \/ PlacesOf(t, buffer) # {}
  <2>1. u <= run.time \/ u <= ChunkEnd
    BY <1>2, <1>6, BufferedIsPassed, OfferedFacts
  <2>2. t < ChunkEnd
    BY <1>1, <1>6, <2>1 DEF Times
  <2>3. Accounted(Kind, t) \/ Buffered(t) \/ t \in Offered
    BY <1>6, <2>2, ChunkPassed
  <2>4. t \in Offered /\ t \notin R => <<Kind, t>> \in withheld'
    BY DEF Of
  <2>5. QED
    BY <1>2, <2>3, <2>4
<1>7. withheld \subseteq withheld' /\ seams \subseteq seams'
  OBVIOUS
<1>13. RestartsCounted'
  BY DEF SeriesInv, RestartsCounted
<1>8. /\ StoredInOrder' /\ StoredIsPast' /\ CopiesOnlyByRestarts'
      /\ \A k \in Series, t \in Times : stored[k][t] > 0 => stored'[k][t] > 0
      /\ \A t \in Times : PlacesOf(t, buffer) # {} => stored'[Kind][t] > 0
  BY <1>1, <1>4, <1>5, <1>6, <1>7, BufferStored
<1>9. OnlyKnownHoles'
  BY <1>7, <1>8, KnownHolesStay DEF SeriesInv
<1>10. PassedIsKept'
  <2> SUFFICES ASSUME NEW t \in Times, Traded(Kind, t), Start <= t,
                      t < ChunkEnd \/ (t = now /\ ChunkEnd = now /\ Kind # "trades")
               PROVE  Accounted(Kind, t)'
    BY <1>1 DEF PassedIsKept, Traded, world
  <2>1. CASE Accounted(Kind, t)
    BY <1>1, <1>7, <1>8, <2>1, AccountedStays
  <2>2. CASE Buffered(t) \/ t \in R
    BY <1>1, <1>2, <1>8, <2>2 DEF Accounted
  <2>3. CASE t \in Offered /\ t \notin R
    <3>1. <<Kind, t>> \in withheld'
      BY <2>3 DEF Of
    <3>2. QED
      BY <1>1, <3>1 DEF Accounted
  <2>4. QED
    BY <2>1, <2>2, <2>3, ChunkPassed
<1>11. RowsUpToRun'
  <2> SUFFICES ASSUME NEW t \in Times
               PROVE  /\ FewRows(run.time, t, Rows(t), AtSeam(Kind, t), restarts[Kind])'
                      /\ ~ Buffered(t)'
    BY DEF RowsUpToRun
  <2>1. Cardinality(PlacesOf(t, run'.buffer)) = 0 /\ ~ Buffered(t)'
    BY EmptyBuffer DEF Buffered
  <2>2. stored'[Kind][t] = stored[Kind][t] + Cardinality(PlacesOf(t, buffer))
    BY <1>1, StoredWithFacts
  <2>3. /\ Rows(t)' = stored[Kind][t] + Cardinality(PlacesOf(t, buffer))
        /\ restarts'[Kind'] = restarts[Kind]
    <3>1. stored'[Kind][t] \in Nat
      BY <2>2, RowsTyped, PlacesAreFinite
    <3>2. QED
      BY <1>1, <2>1, <2>2, <3>1 DEF Rows
  <2>4. QED
    BY <1>3, <2>1, <2>3
<1>12. QED
  BY <1>8, <1>9, <1>10, <1>11, <1>13 DEF SeriesInv

LEMMA FetchChunkKeeps ==
  ASSUME BackfillTyped, RunInPlace, SeriesInv, FetchChunk
  PROVE  SeriesInv'
<1> DEFINE buffer == run.buffer \o InOrder(Returned)
<1>1. /\ run.at = "series" /\ run.time < run.end
      /\ withheld' = withheld \cup Of(Kind, Offered \ Returned)
      /\ seams' = seams \cup Of(Kind, {ChunkEnd})
      /\ UNCHANGED <<now, world, passedOver, restarts, claimed>>
  BY DEF FetchChunk
<1>2. /\ buffer \in Seq(Times)
      /\ \/ run'.at = "next" /\ stored' = stored
         \/ /\ run'.at = "series" /\ run'.types = run.types /\ run'.time = ChunkEnd
            /\ \/ run'.buffer = buffer /\ stored' = stored
               \/ run'.buffer = << >> /\ stored' = StoredWith(buffer)
  BY FetchChunkEffect
<1>3. Returned \in SUBSET Offered /\ Returned \in SUBSET Times
  BY AnswersAreTimes
<1>4. \A t \in Times : Cardinality(PlacesOf(t, buffer))
                          = Cardinality(PlacesOf(t, run.buffer)) + (IF t \in Returned THEN 1 ELSE 0)
  BY <1>3, RunFields, AnswerIsAppended
<1> HIDE DEF buffer
<1>5. CASE run'.at = "next" /\ stored' = stored
  <2>1. now \in Nat /\ now' \in Nat /\ now' >= now
    BY <1>1 DEF BackfillTyped
  <2>2. run'.at # "series" /\ withheld \subseteq withheld' /\ seams \subseteq seams'
    BY <1>1, <1>5
  <2>3. QED
    BY <1>1, <1>5, <2>1, <2>2, OutsideSeries
<1>6. CASE /\ run'.at = "series" /\ run'.types = run.types /\ run'.time = ChunkEnd
           /\ run'.buffer = buffer /\ stored' = stored
  BY <1>1, <1>2, <1>3, <1>4, <1>6, ChunkKept
<1>7. CASE /\ run'.at = "series" /\ run'.types = run.types /\ run'.time = ChunkEnd
           /\ run'.buffer = << >> /\ stored' = StoredWith(buffer)
  BY <1>1, <1>2, <1>3, <1>4, <1>7, ChunkStored
<1>8. QED
  BY <1>2, <1>5, <1>6, <1>7

LEMMA ChunkFailsKeeps ==
  ASSUME BackfillTyped, RunInPlace, SeriesInv, ChunkFails
  PROVE  SeriesInv'
<1>1. /\ run.at = "series" /\ run.time < run.end
      /\ withheld' = withheld \cup Of(Kind, Offered)
      /\ seams' = seams \cup Of(Kind, {ChunkEnd})
      /\ UNCHANGED <<now, world, stored, passedOver, restarts, claimed>>
  BY DEF ChunkFails
<1>2. /\ run'.at = "series" /\ run'.types = run.types
      /\ run'.time = ChunkEnd /\ run'.buffer = run.buffer
  BY ChunkFailsEffect
<1>3. run'.buffer \in Seq(Times)
  BY <1>2, RunFields
<1> DEFINE R == {}
<1>4. R \in SUBSET Offered /\ Offered \ R = Offered
  OBVIOUS
<1>5. \A t \in Times : Cardinality(PlacesOf(t, run'.buffer))
                          = Cardinality(PlacesOf(t, run.buffer)) + (IF t \in R THEN 1 ELSE 0)
  <2>1. \A t \in Times : Cardinality(PlacesOf(t, run.buffer)) \in Nat
    BY RunFields, PlacesAreFinite
  <2>2. QED
    BY <1>2, <2>1
<1>6. withheld' = withheld \cup Of(Kind, Offered \ R)
  BY <1>1, <1>4
<1> HIDE DEF R
<1>7. QED
  BY <1>1, <1>2, <1>3, <1>4, <1>5, <1>6, ChunkKept

(* At its end a run stores what is left, and claims its whole range.        *)
LEMMA FinishSeriesKeeps ==
  ASSUME BackfillTyped, RunInPlace, SeriesInv, FinishSeries
  PROVE  SeriesInv'
<1>1. /\ run.at = "series" /\ run'.at = "next"
      /\ Kind \in Series /\ run.buffer \in Seq(Times) /\ run.end = now /\ run.time = now
      /\ UNCHANGED <<now, world, withheld, passedOver, restarts, seams>>
      /\ SeriesStart = Start /\ now \in Nat
  BY FinishSeriesEffect, SeriesStartIsStart
     DEF FinishSeries, InRun, BackfillTyped
<1>2. PassedIsKept' /\ RowsUpToRun'
  BY <1>1 DEF PassedIsKept, RowsUpToRun
<1>3. CASE UNCHANGED <<stored, claimed>>
  <2>1. now' \in Nat /\ now' >= now
    BY <1>1
  <2>2. QED
    BY <1>1, <1>3, <2>1, OutsideSeries
<1>4. CASE /\ stored' = StoredWith(run.buffer)
           /\ claimed' = claimed \cup Of(Kind, Between(Kind, SeriesStart, run.end))
  <2>1. ASSUME NEW t \in Times, Traded(Kind, t), Start <= t,
               t < now \/ (t = now /\ Kind # "trades")
        PROVE  Accounted(Kind, t) \/ Buffered(t)
    BY <1>1, <2>1 DEF SeriesInv, PassedIsKept
  <2>2. ASSUME NEW t \in Times
        PROVE  stored[Kind][t] + Cardinality(PlacesOf(t, run.buffer))
                  <= Copies(restarts[Kind] + 1, Kind = "funding_rates" /\ <<Kind, t>> \in seams')
    <3>1. FewRows(run.time, t, Rows(t), AtSeam(Kind, t), restarts[Kind])
      BY <1>1 DEF SeriesInv, RowsUpToRun
    <3>2. AtSeam(Kind, t) <=> Kind = "funding_rates" /\ <<Kind, t>> \in seams'
      BY <1>1 DEF AtSeam
    <3>3. QED
      BY <3>1, <3>2 DEF FewRows, Copies, Rows
  <2>3. ASSUME NEW t \in Times, PlacesOf(t, run.buffer) # {} PROVE t <= now
    BY <1>1, <2>3, BufferedIsPassed DEF Buffered
  <2>4. ASSUME NEW t \in Times, NEW u \in Times, Traded(Kind, t), Start <= t, t < u,
               PlacesOf(u, run.buffer) # {}
        PROVE  Accounted(Kind, t) \/ <<Kind, t>> \in withheld' \/ PlacesOf(t, run.buffer) # {}
    <3>1. t < now
      BY <1>1, <2>3, <2>4 DEF Times
    <3>2. QED
      BY <2>1, <2>4, <3>1 DEF Buffered
  <2>5. withheld \subseteq withheld' /\ seams \subseteq seams'
    BY <1>1
  <2>6. /\ StoredInOrder' /\ StoredIsPast' /\ CopiesOnlyByRestarts'
        /\ \A k \in Series, t \in Times : stored[k][t] > 0 => stored'[k][t] > 0
        /\ \A t \in Times : PlacesOf(t, run.buffer) # {} => stored'[Kind][t] > 0
    BY <1>1, <1>4, <2>2, <2>3, <2>4, <2>5, BufferStored
  <2>7. OnlyKnownHoles'
    <3> SUFFICES ASSUME NEW k \in Series, NEW t \in Times, <<k, t>> \in claimed'
                 PROVE  stored'[k][t] > 0 \/ <<k, t>> \in withheld \/ <<k, t>> \in passedOver
      BY <1>1 DEF OnlyKnownHoles
    <3>1. CASE <<k, t>> \in claimed
      BY <2>6, <3>1 DEF SeriesInv, OnlyKnownHoles
    <3>2. CASE k = Kind /\ t \in Between(Kind, Start, now)
      <4>1. Traded(Kind, t) /\ Start <= t /\ (t < now \/ (t = now /\ Kind # "trades"))
        <5>1. CASE Kind = "trades"
          <6>1. listed <= t /\ Start <= t /\ t <= now - 1
            BY <3>2, <5>1 DEF Between, Trades, Candles
          <6>2. t < now
            BY <1>1, <6>1 DEF Times
          <6>3. QED
            BY <5>1, <6>1, <6>2 DEF Traded
        <5>2. CASE Kind # "trades"
          <6>1. listed <= t /\ Start <= t /\ t <= now /\ (t - listed) % period = 0
            BY <3>2, <5>2 DEF Between, Rates, Candles
          <6>2. t < now \/ t = now
            BY <1>1, <6>1 DEF Times
          <6>3. QED
            BY <5>2, <6>1, <6>2 DEF Traded
        <5>3. QED
          BY <5>1, <5>2
      <4>2. QED
        BY <2>1, <2>6, <3>2, <4>1 DEF Accounted, Buffered
    <3>3. QED
      BY <1>1, <1>4, <3>1, <3>2 DEF Of
  <2>8. RestartsCounted'
    BY <1>1 DEF SeriesInv, RestartsCounted
  <2>9. QED
    BY <1>2, <2>6, <2>7, <2>8 DEF SeriesInv
<1>5. QED
  BY <1>3, <1>4 DEF FinishSeries, Flushed

-----------------------------------------------------------------------------
LEMMA DiscoveryInit ==
  Init => Searched /\ DiscoveryWithinAWindow
  BY EndedFields DEF Init, Searched, DiscoveryWithinAWindow

LEMMA SeriesInit ==
  Init => SeriesInv
<1> SUFFICES ASSUME Init PROVE SeriesInv
  OBVIOUS
<1>1. \A k \in Series, t \in Times : ~ (stored[k][t] > 0)
  BY DEF Init
<1>2. run.at = "ended" /\ claimed = {}
  BY EndedFields DEF Init
<1>3. CopiesOnlyByRestarts /\ RestartsCounted
  <2>1. \A k \in Series : restarts[k] = 0 /\ \A t \in Times : stored[k][t] = 0
    BY DEF Init
  <2>2. QED
    BY <2>1 DEF Init, CopiesOnlyByRestarts, RestartsCounted
<1>4. QED
  BY <1>1, <1>2, <1>3 DEF SeriesInv, StoredInOrder, StoredIsPast, PassedIsKept, RowsUpToRun,
                    OnlyKnownHoles

LEMMA SeriesStep ==
  ASSUME BackfillTyped, RunInPlace, SeriesInv, [Next]_vars
  PROVE  SeriesInv'
<1>1. CASE UNCHANGED vars
  BY <1>1 DEF vars, world, histories, SeriesInv, StoredInOrder, StoredIsPast, PassedIsKept,
              RestartsCounted, RowsUpToRun, FewRows, Rows, AtSeam, Buffered, Accounted, Traded, Start, Kind,
              OnlyKnownHoles, CopiesOnlyByRestarts
<1>2. now \in Nat
  BY DEF BackfillTyped
(* Steps that neither store nor are in a series.                            *)
<1>3. ASSUME UNCHANGED <<stored, world, histories>>, now' \in {now, now + 1}, run'.at # "series"
      PROVE  SeriesInv'
  BY <1>2, <1>3, OutsideSeries DEF histories
<1>4. CASE Tick
  BY <1>3, <1>4 DEF Tick
<1>5. CASE StartRun
  BY <1>3, <1>5, StartRunEffect DEF StartRun
<1>6. CASE BeginType
  BY <1>3, <1>6, BeginTypeEffect DEF BeginType
<1>7. CASE CacheHit
  BY <1>3, <1>7, CacheHitEffect DEF CacheHit
<1>21. CASE CacheMiss
  BY <1>3, <1>21, CacheMissEffect DEF CacheMiss
<1>8. CASE CheckRecent
  BY <1>3, <1>8, CheckRecentEffect DEF CheckRecent
<1>9. CASE ProbeFinds
  BY <1>3, <1>9, ProbeFindsEffect DEF ProbeFinds
<1>10. CASE ProbeFindsNothing
  BY <1>3, <1>10, ProbeFindsNothingEffect DEF ProbeFindsNothing
<1>11. CASE FinishDiscovery
  BY <1>3, <1>11, FinishDiscoveryEffect DEF FinishDiscovery
<1>12. CASE StartKlines
  BY <1>3, <1>12, StartKlinesEffect DEF StartKlines
<1>13. CASE FetchKlines
  <2>1. run'.at # "series"
    BY <1>13, FetchKlinesEffect
  <2>2. QED
    BY <1>3, <1>13, <2>1 DEF FetchKlines
<1>14. CASE FinishKlines
  <2>1. run'.at # "series"
    BY <1>14, FinishKlinesEffect
  <2>2. QED
    BY <1>3, <1>14, <2>1 DEF FinishKlines
<1>15. CASE Crash
  BY <1>3, <1>15, CrashEffect DEF Crash
<1>16. CASE StartSeries
  BY <1>16, StartSeriesKeeps
<1>17. CASE FetchChunk
  BY <1>17, FetchChunkKeeps
<1>18. CASE ChunkFails
  BY <1>18, ChunkFailsKeeps
<1>19. CASE FinishSeries
  BY <1>19, FinishSeriesKeeps
<1>20. QED
  BY <1>1, <1>4, <1>5, <1>6, <1>7, <1>8, <1>9, <1>10, <1>11, <1>12, <1>13, <1>14, <1>15,
     <1>16, <1>17, <1>18, <1>19, <1>21 DEF Next, RunStep, Discover

-----------------------------------------------------------------------------
BackfillInv ==
    /\ BackfillTyped /\ RunInPlace
    /\ Searched /\ DiscoveryWithinAWindow
    /\ SeriesInv

(* Where a run is, what its discovery has ruled out, and what of rates and  *)
(* trades is stored, buffered or known to be missing, after every step.     *)
THEOREM BackfillInvariant == Spec => []BackfillInv
<1>1. Init => BackfillInv
  BY TypedInit, DiscoveryInit, SeriesInit DEF BackfillInv
<1>2. BackfillInv /\ [Next]_vars => BackfillInv'
  BY TypedStep, DiscoveryStep, SeriesStep DEF BackfillInv
<1>3. QED
  BY <1>1, <1>2, PTL DEF Spec

(* A cached start of klines is late by less than a window, whatever windows *)
(* are looked at.                                                           *)
THEOREM DiscoveryIsWithinAWindow == Spec => []DiscoveryWithinAWindow
<1>1. BackfillInv => DiscoveryWithinAWindow
  BY DEF BackfillInv
<1>2. QED
  BY <1>1, BackfillInvariant, PTL

(* What a completed run says it has covered is stored, or was withheld by a *)
(* failed chunk or the exchange's limit, or passed over by a resume.        *)
THEOREM HolesAreKnown == Spec => []OnlyKnownHoles
<1>1. BackfillInv => OnlyKnownHoles
  BY DEF BackfillInv, SeriesInv
<1>2. QED
  BY <1>1, BackfillInvariant, PTL

(* However many runs there are, a trade's time is stored no more often than *)
(* there were runs that had to start over, and once; a funding rate as      *)
(* often, and twice as often at the end of a chunk.                         *)
THEOREM RowsCopiedOnlyByRestarts == Spec => []CopiesOnlyByRestarts
<1>1. BackfillInv => CopiesOnlyByRestarts
  BY DEF BackfillInv, SeriesInv
<1>2. QED
  BY <1>1, BackfillInvariant, PTL
=============================================================================
