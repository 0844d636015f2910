-------------------------- MODULE RestClientProofs --------------------------
(***************************************************************************)
(* Proofs about RateLimiter and RestClient, for any callers and limits, any *)
(* delays, and any number of retries.                                       *)
(***************************************************************************)
EXTENDS RestClient, SequenceTheorems, FunctionTheorems, FiniteSetTheorems, WellFoundedInduction, TLAPS

-----------------------------------------------------------------------------
(* Numbers                                                                  *)

(* A nonempty set of naturals has a least element.                          *)
LEMMA LeastOf ==
  ASSUME NEW T, T \subseteq Nat, T # {}
  PROVE  \E m \in T : \A n \in T : m <= n
<1> DEFINE R == OpToRel(<, Nat)
<1>1. IsWellFoundedOn(R, Nat)
  BY NatLessThanWellFounded
<1>2. \A m, n \in Nat : n < m => <<n, m>> \in R
  BY DEF OpToRel
<1> HIDE DEF R
<1>3. PICK m \in T : \A y \in T : ~ (<<y, m>> \in R)
  BY <1>1, WFMin
<1>4. ASSUME NEW n \in T PROVE m <= n
  <2>1. m \in Nat /\ n \in Nat /\ ~ (n < m)
    BY <1>2, <1>3
  <2>2. QED
    BY <2>1
<1>5. QED
  BY <1>4

(* One of finitely many naturals is the greatest.                           *)
LEMMA GreatestOf ==
  ASSUME NEW n \in Nat, NEW f \in [1 .. n -> Nat]
  PROVE  \E m \in {f[i] : i \in 1 .. n} \cup {0} :
            \A v \in {f[i] : i \in 1 .. n} \cup {0} : v <= m
<1> DEFINE Values(k) == {f[i] : i \in 1 .. k} \cup {0}
           Without == {k \in 0 .. n : ~ \E m \in Values(k) : \A v \in Values(k) : v <= m}
<1>1. Without = {}
  <2>1. SUFFICES ASSUME Without # {} PROVE FALSE
    OBVIOUS
  <2>2. Without \subseteq Nat
    OBVIOUS
  <2> HIDE DEF Without
  <2>3. PICK k \in Without : \A j \in Without : k <= j
    BY <2>1, <2>2, LeastOf
  <2>4. k \in 0 .. n /\ ~ \E m \in Values(k) : \A v \in Values(k) : v <= m
    BY DEF Without
  <2>5. k # 0
    <3>1. Values(0) = {0}
      OBVIOUS
    <3>2. QED
      BY <2>4, <3>1
  <2>6. k - 1 \in 0 .. n /\ k - 1 \notin Without
    BY <2>2, <2>3, <2>4, <2>5
  <2>7. PICK m \in Values(k - 1) : \A v \in Values(k - 1) : v <= m
    BY <2>6 DEF Without
  <2>8. /\ f[k] \in Nat /\ \A v \in Values(k - 1) : v \in Nat
        /\ Values(k) = Values(k - 1) \cup {f[k]}
    <3>1. k \in 1 .. n /\ 1 .. k = (1 .. k - 1) \cup {k} /\ 1 .. k - 1 \subseteq 1 .. n
      BY <2>4, <2>5
    <3>2. QED
      BY <3>1
  <2> HIDE DEF Values
  <2>9. CASE f[k] <= m
    BY <2>4, <2>7, <2>8, <2>9
  <2>10. CASE ~ (f[k] <= m)
    <3>1. \A v \in Values(k) : v <= f[k]
      BY <2>7, <2>8, <2>10
    <3>2. f[k] \in Values(k)
      BY <2>8
    <3>3. QED
      BY <2>4, <3>1, <3>2
  <2>11. QED
    BY <2>9, <2>10
<1>2. n \in 0 .. n
  OBVIOUS
<1>3. ~ ~ \E m \in Values(n) : \A v \in Values(n) : v <= m
  <2> HIDE DEF Values
  <2>1. \A k \in 0 .. n : k \notin Without
    BY <1>1
  <2>2. QED
    BY <1>2, <2>1
<1>4. QED
  BY <1>3

(* The subsets of 0 .. n are those of 0 .. n - 1, without n and with it.    *)
LEMMA PowerOfTwo ==
  ASSUME NEW n \in Nat
  PROVE  2 ^ n \in Nat /\ 2 ^ (n + 1) = 2 ^ n + 2 ^ n
<1> DEFINE S == 1 .. n
           x == n + 1
           Sx == {B \cup {x} : B \in SUBSET S}
<1>1. /\ IsFiniteSet(S) /\ Cardinality(S) = n
      /\ IsFiniteSet(1 .. n + 1) /\ Cardinality(1 .. n + 1) = n + 1
      /\ x \notin S /\ 1 .. n + 1 = S \cup {x}
  <2>1. x \notin S /\ 1 .. n + 1 = S \cup {x}
    OBVIOUS
  <2>2. IsFiniteSet(1 .. n) /\ Cardinality(1 .. n) = n
    <3>1. Cardinality(1 .. n) = IF 1 > n THEN 0 ELSE n - 1 + 1
      BY FS_Interval
    <3>2. QED
      BY <3>1, FS_Interval
  <2>3. IsFiniteSet(1 .. n + 1) /\ Cardinality(1 .. n + 1) = n + 1
    <3>1. Cardinality(1 .. n + 1) = IF 1 > n + 1 THEN 0 ELSE n + 1 - 1 + 1
      BY FS_Interval
    <3>2. QED
      BY <3>1, FS_Interval
  <2>4. QED
    BY <2>1, <2>2, <2>3
<1>2. /\ IsFiniteSet(SUBSET S) /\ Cardinality(SUBSET S) = 2 ^ n
      /\ Cardinality(SUBSET (1 .. n + 1)) = 2 ^ (n + 1)
  BY <1>1, FS_SUBSET
<1> HIDE DEF S, x
<1>3. SUBSET (S \cup {x}) = (SUBSET S) \cup Sx
  <2>1. ASSUME NEW B \in SUBSET (S \cup {x}) PROVE B \in (SUBSET S) \cup Sx
    <3>1. CASE x \in B
      <4>1. B \ {x} \in SUBSET S /\ B = (B \ {x}) \cup {x}
        BY <3>1
      <4>2. QED
        BY <4>1
    <3>2. CASE x \notin B
      BY <3>2
    <3>3. QED
      BY <3>1, <3>2
  <2>2. QED
    BY <2>1
<1>4. (SUBSET S) \cap Sx = {}
  BY <1>1
<1>5. ExistsBijection(SUBSET S, Sx)
  <2> DEFINE f == [B \in SUBSET S |-> B \cup {x}]
  <2>1. f \in [SUBSET S -> Sx]
    OBVIOUS
  <2>2. ASSUME NEW B \in SUBSET S, NEW C \in SUBSET S, f[B] = f[C]
        PROVE  B = C
    <3>1. B \cup {x} = C \cup {x} /\ x \notin B /\ x \notin C
      BY <2>2, <1>1
    <3>2. QED
      BY <3>1
  <2>3. \A y \in Sx : \E B \in SUBSET S : f[B] = y
    OBVIOUS
  <2> HIDE DEF f, Sx
  <2>4. f \in Bijection(SUBSET S, Sx)
    BY <2>1, <2>2, <2>3, Fun_IsBij
  <2>5. QED
    BY <2>4 DEF ExistsBijection
<1>6. IsFiniteSet(Sx) /\ Cardinality(Sx) = Cardinality(SUBSET S)
  BY <1>2, <1>5, FS_Bijection
<1>7. Cardinality((SUBSET S) \cup Sx)
         = Cardinality(SUBSET S) + Cardinality(Sx) - Cardinality((SUBSET S) \cap Sx)
  BY <1>2, <1>6, FS_Union
<1>8. Cardinality((SUBSET S) \cap Sx) = 0
  BY <1>4, FS_EmptySet
<1>9. Cardinality(SUBSET S) \in Nat
  BY <1>2, FS_CardinalityType
<1>10. 2 ^ (n + 1) = Cardinality((SUBSET S) \cup Sx)
  BY <1>1, <1>2, <1>3
<1>11. QED
  BY <1>2, <1>6, <1>7, <1>8, <1>9, <1>10

-----------------------------------------------------------------------------
(* The limiter: its inductive invariant                                     *)

LimiterTyped ==
    /\ now \in Nat
    /\ history \in [DOMAIN Limits -> Seq(Nat)]
    /\ sent \in Seq(Nat)
    /\ deadline \in [Callers -> Nat \cup {Idle}]
    /\ overlapped \in BOOLEAN

(* Requests are made in the order of time.                                  *)
SentInOrder ==
    /\ \A k \in DOMAIN sent : sent[k] <= now
    /\ \A j, k \in DOMAIN sent : j <= k => sent[j] <= sent[k]

(* times is what is left of sent, from the front of which only requests     *)
(* that have left the window are gone.                                      *)
TailOfSent(times, window) ==
    /\ Len(times) <= Len(sent)
    /\ \A k \in 1 .. Len(times) : times[k] = sent[Len(sent) - Len(times) + k]
    /\ \A k \in 1 .. Len(sent) - Len(times) : Expired(sent[k], window)

HistoryIsTail == \A i \in DOMAIN Limits : TailOfSent(history[i], Limits[i].window)

(* A caller that is alone in execute sleeps until there is room for it.     *)
ReadyInTurn ==
    ~overlapped =>
        /\ \A c, d \in Callers : deadline[c] # Idle /\ deadline[d] # Idle => c = d
        /\ \A c \in Callers : deadline[c] # Idle =>
              \A i \in DOMAIN Limits : HasRoom(i, deadline[c])

LimiterInv ==
    /\ LimiterTyped
    /\ SentInOrder
    /\ HistoryIsTail
    /\ ReadyInTurn
    /\ LimitsRespectedInTurn
    /\ WaitIsMinimal

-----------------------------------------------------------------------------
(* What clean_history and calculate_wait_time return                        *)

LEMMA LimitsTyped ==
  /\ DOMAIN Limits = 1 .. Len(Limits) /\ Len(Limits) \in Nat
  /\ \A i \in DOMAIN Limits : Limits[i].max \in Nat \ {0} /\ Limits[i].window \in Nat \ {0}
<1> DEFINE Limit == [max : Nat \ {0}, window : Nat \ {0}]
<1>1. \A l \in Limit : l.max \in Nat \ {0} /\ l.window \in Nat \ {0}
  OBVIOUS
<1>2. Limits \in Seq(Limit)
  BY LimitsAssumption
<1> HIDE DEF Limit
<1>3. QED
  BY <1>1, <1>2

(* Cleaning a queue leaves a tail of the requests made, the oldest of which *)
(* is still in the window.                                                  *)
LEMMA CleanedFacts ==
  ASSUME LimiterTyped, SentInOrder, HistoryIsTail, NEW i \in DOMAIN Limits
  PROVE  /\ Cleaned(i) \in Seq(Nat)
         /\ TailOfSent(Cleaned(i), Limits[i].window)
         /\ Len(Cleaned(i)) # 0 => ~ Expired(Cleaned(i)[1], Limits[i].window)
<1> DEFINE h == history[i]
           w == Limits[i].window
           recent == {k \in DOMAIN h : ~ Expired(h[k], w)}
<1>1. /\ h \in Seq(Nat) /\ w \in Nat /\ now \in Nat /\ sent \in Seq(Nat)
      /\ TailOfSent(h, w)
  BY LimitsTyped DEF LimiterTyped, HistoryIsTail
<1>2. Cleaned(i) = IF recent = {} THEN <<>>
                   ELSE SubSeq(h, CHOOSE k \in recent : \A j \in recent : k <= j, Len(h))
  BY DEF Cleaned
<1> HIDE DEF h, w
<1>3. /\ Len(h) \in Nat /\ Len(sent) \in Nat /\ DOMAIN h = 1 .. Len(h)
      /\ \A k \in 1 .. Len(h) : h[k] \in Nat
  BY <1>1
<1>4. /\ Len(h) <= Len(sent)
      /\ \A k \in 1 .. Len(h) : h[k] = sent[Len(sent) - Len(h) + k]
      /\ \A k \in 1 .. Len(sent) - Len(h) : Expired(sent[k], w)
  BY <1>1 DEF TailOfSent
(* The first j of sent have expired when those before h and those of h that *)
(* come before the first recent one have.                                   *)
<1>5. ASSUME NEW n \in 1 .. Len(h) + 1, \A k \in 1 .. n - 1 : Expired(h[k], w)
      PROVE  \A k \in 1 .. Len(sent) - (Len(h) - n + 1) : Expired(sent[k], w)
  <2>1. TAKE k \in 1 .. Len(sent) - (Len(h) - n + 1)
  <2>2. CASE k <= Len(sent) - Len(h)
    BY <1>3, <1>4, <2>2
  <2>3. CASE ~ (k <= Len(sent) - Len(h))
    <3>1. /\ k - (Len(sent) - Len(h)) \in 1 .. n - 1
          /\ k - (Len(sent) - Len(h)) \in 1 .. Len(h)
          /\ Len(sent) - Len(h) + (k - (Len(sent) - Len(h))) = k
      BY <1>3, <2>3
    <3>2. QED
      BY <1>4, <1>5, <3>1
  <2>4. QED
    BY <2>2, <2>3
<1>6. CASE recent = {}
  <2>1. Cleaned(i) = <<>> /\ Len(Cleaned(i)) = 0 /\ Cleaned(i) \in Seq(Nat)
    BY <1>2, <1>6
  <2>2. Len(h) + 1 \in 1 .. Len(h) + 1 /\ \A k \in 1 .. Len(h) : Expired(h[k], w)
    BY <1>3, <1>6
  <2>3. \A k \in 1 .. Len(sent) - 0 : Expired(sent[k], w)
    <3>1. Len(h) + 1 - 1 = Len(h) /\ Len(h) - (Len(h) + 1) + 1 = 0
      BY <1>3
    <3>2. QED
      BY <1>5, <2>2, <3>1
  <2>4. TailOfSent(Cleaned(i), w)
    BY <1>3, <2>1, <2>3 DEF TailOfSent
  <2>5. QED
    BY <2>1, <2>4 DEF w
<1>7. CASE recent # {}
  <2> DEFINE n == CHOOSE k \in recent : \A j \in recent : k <= j
  <2>1. n \in recent /\ \A j \in recent : n <= j
    <3>1. recent \subseteq Nat
      BY <1>3
    <3> HIDE DEF recent
    <3>2. \E k \in recent : \A j \in recent : k <= j
      BY <1>7, <3>1, LeastOf
    <3>3. QED
      BY <3>2
  <2>2. Cleaned(i) = SubSeq(h, n, Len(h))
    BY <1>2, <1>7
  <2> HIDE DEF n
  <2>3. n \in 1 .. Len(h) /\ ~ Expired(h[n], w) /\ \A k \in 1 .. n - 1 : Expired(h[k], w)
    BY <1>3, <2>1
  <2>4. /\ Cleaned(i) \in Seq(Nat) /\ Len(Cleaned(i)) = Len(h) - n + 1
        /\ \A k \in 1 .. Len(h) - n + 1 : Cleaned(i)[k] = h[n + k - 1]
    BY <1>1, <1>3, <2>2, <2>3, SubSeqProperties
  <2>5. n \in 1 .. Len(h) + 1
    BY <1>3, <2>3
  <2>6. \A k \in 1 .. Len(sent) - (Len(h) - n + 1) : Expired(sent[k], w)
    BY <1>5, <2>3, <2>5
  <2>7. ASSUME NEW k \in 1 .. Len(h) - n + 1
        PROVE  Cleaned(i)[k] = sent[Len(sent) - (Len(h) - n + 1) + k]
    <3>1. /\ n + k - 1 \in 1 .. Len(h)
          /\ Len(sent) - Len(h) + (n + k - 1) = Len(sent) - (Len(h) - n + 1) + k
      BY <1>3, <2>3
    <3>2. QED
      BY <1>4, <2>4, <3>1
  <2>8. Len(h) - n + 1 <= Len(sent) /\ Len(h) - n + 1 # 0 /\ 1 \in 1 .. Len(h) - n + 1 /\ n + 1 - 1 = n
    BY <1>3, <1>4, <2>3
  <2>9. TailOfSent(Cleaned(i), w)
    BY <2>4, <2>6, <2>7, <2>8 DEF TailOfSent
  <2>10. Cleaned(i)[1] = h[n]
    BY <2>4, <2>8
  <2>11. QED
    BY <2>3, <2>4, <2>9, <2>10 DEF w
<1>8. QED
  BY <1>6, <1>7

(* The longest wait is at least every limit's and is one of them, or 0.     *)
LEMMA MaxWaitFacts ==
  ASSUME NEW cleaned, \A i \in DOMAIN Limits : Wait(i, cleaned[i]) \in Nat
  PROVE  /\ MaxWait(cleaned) \in Nat
         /\ \A i \in DOMAIN Limits : Wait(i, cleaned[i]) <= MaxWait(cleaned)
         /\ MaxWait(cleaned) # 0 =>
              \E i \in DOMAIN Limits : MaxWait(cleaned) = Wait(i, cleaned[i])
<1> DEFINE f == [i \in 1 .. Len(Limits) |-> Wait(i, cleaned[i])]
           waits == {Wait(i, cleaned[i]) : i \in DOMAIN Limits} \cup {0}
<1>1. f \in [1 .. Len(Limits) -> Nat] /\ Len(Limits) \in Nat
  BY LimitsTyped
<1>2. waits = {f[i] : i \in 1 .. Len(Limits)} \cup {0}
  BY LimitsTyped
<1>3. \E m \in waits : \A v \in waits : v <= m
  <2> HIDE DEF f, waits
  <2>1. \E m \in {f[i] : i \in 1 .. Len(Limits)} \cup {0} :
           \A v \in {f[i] : i \in 1 .. Len(Limits)} \cup {0} : v <= m
    BY ONLY <1>1, GreatestOf
  <2>2. QED
    BY ONLY <1>2, <2>1
<1>4. MaxWait(cleaned) = CHOOSE w \in waits : \A v \in waits : v <= w
  BY DEF MaxWait
<1>5. MaxWait(cleaned) \in waits /\ \A v \in waits : v <= MaxWait(cleaned)
  <2> HIDE DEF waits
  <2>1. QED
    BY <1>3, <1>4
<1>6. QED
  BY <1>5

-----------------------------------------------------------------------------
(* The limiter's steps                                                      *)

LEMMA LimiterInit ==
  Init => LimiterInv
<1> SUFFICES ASSUME Init PROVE LimiterInv
  OBVIOUS
<1> USE DEF Init
<1>1. LimiterTyped
  <2>1. <<>> \in Seq(Nat)
    OBVIOUS
  <2>2. history \in [DOMAIN Limits -> Seq(Nat)]
    BY <2>1
  <2>3. deadline \in [Callers -> Nat \cup {Idle}]
    OBVIOUS
  <2>4. QED
    BY <2>1, <2>2, <2>3 DEF LimiterTyped
<1>2. Len(sent) = 0 /\ DOMAIN sent = {} /\ Len(<<>>) = 0
  OBVIOUS
<1>3. SentInOrder /\ LimitsRespectedInTurn
  BY <1>2 DEF SentInOrder, LimitsRespectedInTurn, LimitsRespected
<1>4. HistoryIsTail
  BY <1>2 DEF HistoryIsTail, TailOfSent
<1>5. ReadyInTurn
  BY DEF ReadyInTurn
<1>6. WaitIsMinimal
  <2>1. \A c \in Callers : deadline[c] = -1 /\ now = 0
    BY DEF Idle
  <2>2. 0 .. (-1) - 1 = {}
    OBVIOUS
  <2>3. QED
    BY <2>1, <2>2 DEF WaitIsMinimal
<1>7. QED
  BY <1>1, <1>3, <1>4, <1>5, <1>6 DEF LimiterInv

(* Time passes: what has left a window stays out of it, and sleepers have   *)
(* less to wait.                                                            *)
LEMMA TickKeepsLimiterInv ==
  LimiterInv /\ Tick => LimiterInv'
<1> SUFFICES ASSUME LimiterInv, Tick PROVE LimiterInv'
  OBVIOUS
<1> USE DEF LimiterInv, Tick
<1>1. LimiterTyped /\ LimiterTyped' /\ now' = now + 1
  BY DEF LimiterTyped
<1>2. \A i \in DOMAIN Limits : \A t : HasRoom(i, t)' = HasRoom(i, t)
  BY DEF HasRoom
<1>3. SentInOrder'
  <2>1. \A k \in DOMAIN sent : sent[k] \in Nat
    BY <1>1 DEF LimiterTyped
  <2>2. QED
    BY <1>1, <2>1 DEF SentInOrder, LimiterTyped
<1>4. HistoryIsTail'
  <2> SUFFICES ASSUME NEW i \in DOMAIN Limits
               PROVE  TailOfSent(history[i], Limits[i].window)'
    BY DEF HistoryIsTail
  <2>1. TailOfSent(history[i], Limits[i].window) /\ history[i] \in Seq(Nat)
    BY <1>1 DEF HistoryIsTail, LimiterTyped
  <2>2. Limits[i].window \in Nat /\ now \in Nat /\ sent \in Seq(Nat)
    BY <1>1, LimitsTyped DEF LimiterTyped
  <2>3. \A k \in 1 .. Len(sent) - Len(history[i]) :
           Expired(sent[k], Limits[i].window) => Expired(sent[k], Limits[i].window)'
    <3>1. \A k \in 1 .. Len(sent) - Len(history[i]) : sent[k] \in Nat
      BY <2>1, <2>2
    <3>2. \A t, w \in Nat : now - t >= w => now + 1 - t >= w
      BY <2>2
    <3>3. QED
      BY <1>1, <2>2, <3>1, <3>2 DEF Expired
  <2>4. QED
    BY <2>1, <2>3 DEF TailOfSent
<1>5. ReadyInTurn'
  BY <1>2 DEF ReadyInTurn
<1>6. LimitsRespectedInTurn'
  BY DEF LimitsRespectedInTurn, LimitsRespected
<1>7. WaitIsMinimal'
  <2> SUFFICES ASSUME NEW c \in Callers, NEW t \in now' .. deadline'[c] - 1
               PROVE  \E i \in DOMAIN Limits : ~ HasRoom(i, t)'
    BY DEF WaitIsMinimal
  <2>1. t \in now .. deadline[c] - 1
    BY <1>1 DEF LimiterTyped, Idle
  <2>2. QED
    BY <1>2, <2>1 DEF WaitIsMinimal
<1>8. QED
  BY <1>1, <1>3, <1>4, <1>5, <1>6, <1>7

(* A caller's sleep is over and its request made.                           *)
LEMMA RecordKeepsLimiterInv ==
  ASSUME LimiterInv, NEW c \in Callers, Record(c)
  PROVE  LimiterInv'
<1> USE DEF LimiterInv
<1> DEFINE L == Len(sent)
<1>1. /\ LimiterTyped /\ now \in Nat /\ sent \in Seq(Nat) /\ L \in Nat
      /\ deadline[c] \in Nat /\ deadline[c] <= now
  BY DEF LimiterTyped, Record
<1>2. /\ sent' \in Seq(Nat) /\ Len(sent') = L + 1 /\ DOMAIN sent' = 1 .. L + 1
      /\ DOMAIN sent = 1 .. L
      /\ \A k \in 1 .. L : sent'[k] = sent[k] /\ sent[k] \in Nat
      /\ sent'[L + 1] = now
  <2>1. sent' = Append(sent, now)
    BY DEF Record
  <2>2. QED
    BY <1>1, <2>1
<1>3. now' = now /\ overlapped' = overlapped
      /\ deadline' = [deadline EXCEPT ![c] = Idle]
  BY DEF Record
<1>4. LimiterTyped'
  <2>1. history' \in [DOMAIN Limits -> Seq(Nat)]
    BY <1>1 DEF Record, LimiterTyped, Stamp
  <2>2. QED
    BY <1>1, <1>2, <1>3, <2>1 DEF LimiterTyped
<1> HIDE DEF L
<1>5. SentInOrder'
  <2>1. ASSUME NEW k \in 1 .. L + 1
        PROVE  sent'[k] <= now
    <3>1. CASE k \in 1 .. L
      <4>1. sent'[k] = sent[k] /\ k \in DOMAIN sent
        BY <1>2, <3>1
      <4>2. QED
        BY <4>1 DEF SentInOrder
    <3>2. CASE k = L + 1
      BY <1>1, <1>2, <3>2
    <3>3. QED
      BY <1>1, <3>1, <3>2
  <2>2. ASSUME NEW j \in 1 .. L + 1, NEW k \in 1 .. L + 1, j <= k
        PROVE  sent'[j] <= sent'[k]
    <3>1. CASE k = L + 1
      BY <1>2, <2>1, <3>1
    <3>2. CASE k # L + 1
      <4>1. j \in 1 .. L /\ k \in 1 .. L
        BY <1>1, <2>2, <3>2
      <4>2. sent[j] <= sent[k]
        BY <1>2, <2>2, <4>1 DEF SentInOrder
      <4>3. QED
        BY <1>2, <4>1, <4>2
    <3>3. QED
      BY <3>1, <3>2
  <2>3. QED
    BY <1>2, <1>3, <2>1, <2>2 DEF SentInOrder
<1>6. HistoryIsTail'
  <2> SUFFICES ASSUME NEW i \in DOMAIN Limits
               PROVE  TailOfSent(history[i], Limits[i].window)'
    BY DEF HistoryIsTail
  <2> DEFINE h == history[i]
             n == Len(h)
  <2>1. TailOfSent(h, Limits[i].window) /\ h \in Seq(Nat) /\ n \in Nat
    BY <1>1 DEF HistoryIsTail, LimiterTyped
  <2>2. h' = Append(h, now)
    BY DEF Record, Stamp
  <2>3. Len(h') = n + 1 /\ h'[n + 1] = now /\ \A k \in 1 .. n : h'[k] = h[k]
    BY <1>1, <2>1, <2>2
  <2> HIDE DEF h
  <2>4. /\ n <= L /\ \A k \in 1 .. n : h[k] = sent[L - n + k]
        /\ \A k \in 1 .. L - n : Expired(sent[k], Limits[i].window)
    BY <2>1 DEF TailOfSent, L
  <2> HIDE DEF n
  <2>5. (L + 1) - (n + 1) = L - n /\ \A k \in 1 .. L - n : k \in 1 .. L
    BY <1>1, <2>1, <2>4
  <2>6. ASSUME NEW k \in 1 .. n + 1
        PROVE  h'[k] = sent'[L - n + k]
    <3>1. CASE k = n + 1
      <4>1. L - n + k = L + 1
        BY <1>1, <2>1, <3>1
      <4>2. QED
        BY <1>2, <2>3, <3>1, <4>1
    <3>2. CASE k # n + 1
      <4>1. k \in 1 .. n /\ L - n + k \in 1 .. L
        BY <1>1, <2>1, <2>4, <3>2
      <4>2. QED
        BY <1>2, <2>3, <2>4, <4>1
    <3>3. QED
      BY <3>1, <3>2
  <2>7. \A k \in 1 .. L - n : Expired(sent[k], Limits[i].window)'
    BY <1>2, <1>3, <2>4, <2>5 DEF Expired
  <2>8. n + 1 <= L + 1
    BY <1>1, <2>1, <2>4
  <2>9. QED
    BY <1>2, <2>3, <2>5, <2>6, <2>7, <2>8 DEF TailOfSent, h
<1>7. ReadyInTurn'
  <2> SUFFICES ASSUME ~ overlapped
               PROVE  \A d \in Callers : deadline'[d] = Idle
    BY <1>3 DEF ReadyInTurn
  <2>1. \A d \in Callers : deadline[d] # Idle => d = c
    BY <1>1 DEF ReadyInTurn, Idle
  <2>2. deadline \in [Callers -> Nat \cup {Idle}]
    BY <1>1 DEF LimiterTyped
  <2>3. QED
    BY <1>3, <2>1, <2>2
(* Only the room that the caller found makes the new request respect the    *)
(* limits.                                                                  *)
<1>8. LimitsRespectedInTurn'
  <2> SUFFICES ASSUME ~ overlapped, NEW i \in DOMAIN Limits, NEW n \in 1 .. L + 1,
                      n > Limits[i].max
               PROVE  sent'[n] - sent'[n - Limits[i].max] >= Limits[i].window
    BY <1>2, <1>3 DEF LimitsRespectedInTurn, LimitsRespected
  <2> DEFINE max == Limits[i].max
             window == Limits[i].window
  <2>1. max \in Nat \ {0} /\ window \in Nat
    BY LimitsTyped
  <2>2. HasRoom(i, deadline[c])
    BY <1>1 DEF ReadyInTurn, Idle
  <2>3. L - max + 1 > 0 => deadline[c] - sent[L - max + 1] >= window
    BY <2>2 DEF HasRoom, L
  <2>4. n \in 1 .. L => sent[n] - sent[n - max] >= window
    BY <1>2 DEF LimitsRespectedInTurn, LimitsRespected
  <2> HIDE DEF max, window
  <2>5. n > max
    BY DEF max
  <2>6. n - max \in 1 .. L
    BY <1>1, <2>1, <2>5
  <2>7. CASE n \in 1 .. L
    BY <1>2, <2>4, <2>6, <2>7 DEF max, window
  <2>8. CASE n = L + 1
    <3>1. L - max + 1 = n - max /\ L - max + 1 > 0
      BY <1>1, <2>1, <2>6, <2>8
    <3>2. deadline[c] - sent[n - max] >= window
      BY <2>3, <3>1
    <3>3. now - sent[n - max] >= window
      <4> DEFINE x == sent[n - max]
      <4>1. x \in Nat /\ now \in Nat /\ deadline[c] \in Nat /\ deadline[c] <= now
        BY <1>1, <1>2, <2>6
      <4>2. deadline[c] - x >= window
        BY <3>2
      <4> HIDE DEF x
      <4>3. now - x >= window
        BY <2>1, <4>1, <4>2
      <4>4. QED
        BY <4>3 DEF x
    <3>4. sent'[n] = now /\ sent'[n - max] = sent[n - max]
      BY <1>2, <2>6, <2>8
    <3>5. QED
      BY <3>3, <3>4 DEF max, window
  <2>9. QED
    BY <1>1, <2>7, <2>8
<1>9. WaitIsMinimal'
  <2> SUFFICES ASSUME NEW d \in Callers, NEW t \in now .. deadline'[d] - 1
               PROVE  \E i \in DOMAIN Limits : ~ HasRoom(i, t)'
    BY <1>3 DEF WaitIsMinimal
  <2>1. d # c /\ t \in now .. deadline[d] - 1
    BY <1>1, <1>3 DEF Idle, LimiterTyped
  <2>2. PICK i \in DOMAIN Limits : ~ HasRoom(i, t)
    BY <2>1 DEF WaitIsMinimal
  <2> DEFINE max == Limits[i].max
             n == L - max + 1
  <2>3. n > 0 /\ ~ (t - sent[n] >= Limits[i].window)
    BY <2>2 DEF HasRoom, L
  <2>4. max \in Nat \ {0} /\ Limits[i].window \in Nat /\ t \in Nat
    BY <1>1, <2>1, LimitsTyped
  <2> HIDE DEF max
  <2>5. n \in 1 .. L /\ n + 1 \in 1 .. L + 1 /\ (L + 1) - max + 1 = n + 1
    BY <1>1, <2>3, <2>4
  <2> HIDE DEF n
  <2>6. sent'[n] <= sent'[n + 1] /\ sent'[n] = sent[n]
        /\ sent[n] \in Nat /\ sent'[n + 1] \in Nat
    <3>1. n \in DOMAIN sent' /\ n + 1 \in DOMAIN sent' /\ n <= n + 1
      BY <1>1, <1>2, <2>5
    <3>2. QED
      BY <1>2, <1>5, <2>5, <3>1 DEF SentInOrder
  <2>7. ~ (t - sent'[n + 1] >= Limits[i].window)
    BY <2>3, <2>4, <2>6
  <2>8. n + 1 > 0
    BY <1>1, <2>5
  <2>9. ~ HasRoom(i, t)'
    <3>1. Len(sent') - max + 1 = n + 1
      <4>1. Len(sent') = L + 1
        BY <1>2
      <4>2. QED
        BY <2>5, <4>1
    <3>2. QED
      BY <2>7, <2>8, <3>1 DEF HasRoom, max
  <2>10. QED
    BY <2>9
<1>10. QED
  BY <1>4, <1>5, <1>6, <1>7, <1>8, <1>9

(* A caller finds out how long it has to wait.                              *)
LEMMA CalculateKeepsLimiterInv ==
  ASSUME LimiterInv, NEW c \in Callers, Calculate(c)
  PROVE  LimiterInv'
<1> USE DEF LimiterInv
<1> DEFINE L == Len(sent)
           W == MaxWait(history')
<1>1. /\ LimiterTyped /\ now \in Nat /\ sent \in Seq(Nat) /\ L \in Nat
      /\ DOMAIN sent = 1 .. L /\ \A k \in 1 .. L : sent[k] \in Nat
      /\ deadline \in [Callers -> Nat \cup {Idle}] /\ deadline[c] = Idle
  BY DEF LimiterTyped, Calculate
<1>2. /\ now' = now /\ sent' = sent
      /\ deadline' = [deadline EXCEPT ![c] = now + W]
      /\ overlapped' = (overlapped \/ \E d \in Callers : deadline[d] # Idle)
      /\ history' = [i \in DOMAIN Limits |-> Cleaned(i)]
  BY DEF Calculate
<1>3. ASSUME NEW i \in DOMAIN Limits
      PROVE  /\ history'[i] \in Seq(Nat)
             /\ TailOfSent(history'[i], Limits[i].window)
             /\ Len(history'[i]) # 0 => ~ Expired(history'[i][1], Limits[i].window)
  <2>1. history'[i] = Cleaned(i)
    BY <1>2
  <2>2. QED
    BY <1>1, <2>1, CleanedFacts
<1> HIDE DEF L, W
(* The oldest request left of a full limit is sent[first].                  *)
<1>4. ASSUME NEW i \in DOMAIN Limits, Full(i, history'[i])
      PROVE  LET first == L - Len(history'[i]) + 1
             IN  /\ first \in 1 .. L /\ first <= L - Limits[i].max + 1
                 /\ L - Limits[i].max + 1 \in 1 .. L
                 /\ Wait(i, history'[i]) = Limits[i].window - (now - sent[first])
                 /\ now - sent[first] < Limits[i].window
                 /\ now - sent[first] \in Nat
  <2> DEFINE n == Len(history'[i])
             max == Limits[i].max
             window == Limits[i].window
             first == L - n + 1
  <2>1. max \in Nat \ {0} /\ window \in Nat \ {0}
    BY LimitsTyped
  <2>2. n \in Nat /\ n >= max /\ n <= L
    BY <1>3, <1>4 DEF Full, TailOfSent, L
  <2>3. Head(history'[i]) = history'[i][1]
    OBVIOUS
  <2>4. \A k \in 1 .. n : history'[i][k] = sent[L - n + k]
    BY <1>3 DEF TailOfSent, L
  <2>5. Wait(i, history'[i]) = window - (now - history'[i][1])
    BY <1>4, <2>3 DEF Wait
  <2>6. n # 0 => ~ (now - history'[i][1] >= window)
    BY <1>3 DEF Expired
  <2> HIDE DEF n, max, window
  <2>7. first \in 1 .. L /\ first <= L - max + 1 /\ 1 \in 1 .. n /\ n # 0 /\ L - max + 1 \in 1 .. L
    BY <1>1, <2>1, <2>2
  <2>8. history'[i][1] = sent[first]
    BY <2>4, <2>7
  <2>9. sent[first] \in Nat /\ sent[first] <= now
    BY <1>1, <2>7 DEF SentInOrder
  <2> HIDE DEF first
  <2>10. ~ (now - sent[first] >= window) /\ Wait(i, history'[i]) = window - (now - sent[first])
    BY <2>5, <2>6, <2>7, <2>8
  <2>11. now - sent[first] \in Nat /\ now - sent[first] < window
    BY <1>1, <2>1, <2>9, <2>10
  <2>12. QED
    BY <2>7, <2>10, <2>11 DEF first, n, max, window
<1>5. \A i \in DOMAIN Limits : Wait(i, history'[i]) \in Nat
  <2>1. TAKE i \in DOMAIN Limits
  <2>2. CASE Full(i, history'[i])
    <3> DEFINE first == L - Len(history'[i]) + 1
               window == Limits[i].window
    <3>1. /\ Wait(i, history'[i]) = window - (now - sent[first])
          /\ now - sent[first] < window /\ now - sent[first] \in Nat
      BY <1>4, <2>2
    <3>2. window \in Nat
      BY LimitsTyped
    <3> HIDE DEF first, window
    <3>3. QED
      BY <3>1, <3>2
  <2>3. CASE ~ Full(i, history'[i])
    BY <2>3 DEF Wait
  <2>4. QED
    BY <2>2, <2>3
<1>6. /\ W \in Nat
      /\ \A i \in DOMAIN Limits : Wait(i, history'[i]) <= W
      /\ W # 0 => \E i \in DOMAIN Limits : W = Wait(i, history'[i])
  BY <1>5, MaxWaitFacts DEF W
<1>7. LimiterTyped'
  <2>1. history' \in [DOMAIN Limits -> Seq(Nat)]
    BY <1>2, <1>3
  <2>2. now + W \in Nat
    BY <1>1, <1>6
  <2>3. QED
    BY <1>1, <1>2, <2>1, <2>2 DEF LimiterTyped
<1>8. SentInOrder' /\ LimitsRespectedInTurn'
  BY <1>2 DEF SentInOrder, LimitsRespectedInTurn, LimitsRespected
<1>9. HistoryIsTail'
  <2>1. \A i \in DOMAIN Limits : TailOfSent(history'[i], Limits[i].window)
    BY <1>3
  <2>2. QED
    BY <1>2, <2>1 DEF HistoryIsTail, TailOfSent, Expired
<1>10. \A i \in DOMAIN Limits : \A t : HasRoom(i, t)' = HasRoom(i, t)
  BY <1>2 DEF HasRoom
(* A caller on its own sleeps until every limit has room.                   *)
<1>11. ReadyInTurn'
  <2> SUFFICES ASSUME ~ overlapped, \A d \in Callers : deadline[d] = Idle
               PROVE  \A i \in DOMAIN Limits : HasRoom(i, now + W)
    <3>1. \A d \in Callers : deadline[d] = Idle =>
             deadline'[d] = IF d = c THEN now + W ELSE Idle
      BY <1>1, <1>2
    <3>2. ~ overlapped' => ~ overlapped /\ \A d \in Callers : deadline[d] = Idle
      BY <1>2
    <3>3. ASSUME ~ overlapped'
          PROVE  /\ \A d, e \in Callers : deadline'[d] # Idle /\ deadline'[e] # Idle => d = e
                 /\ \A d \in Callers : deadline'[d] # Idle =>
                       \A i \in DOMAIN Limits : HasRoom(i, deadline'[d])
      <4>1. ~ overlapped /\ \A d \in Callers : deadline[d] = Idle
        BY <3>2, <3>3
      <4>2. \A i \in DOMAIN Limits : HasRoom(i, now + W)
        BY <4>1
      <4>3. \A d \in Callers : deadline'[d] = IF d = c THEN now + W ELSE Idle
        BY <3>1, <4>1
      <4> HIDE DEF LimiterInv
      <4>4. QED
        BY <4>2, <4>3
    <3>4. QED
      BY <1>10, <3>3 DEF ReadyInTurn
  <2> TAKE i \in DOMAIN Limits
  <2> DEFINE n == Len(history'[i])
             max == Limits[i].max
             window == Limits[i].window
             first == L - n + 1
             last == L - max + 1
  <2>1. max \in Nat \ {0} /\ window \in Nat \ {0}
    BY LimitsTyped
  <2>2. n \in Nat /\ n <= L /\ \A k \in 1 .. L - n : ~ (now - sent[k] < window)
    <3>1. n \in Nat /\ n <= L /\ \A k \in 1 .. L - n : now - sent[k] >= window
      <4>1. n \in Nat /\ TailOfSent(history'[i], Limits[i].window)
        BY <1>3
      <4>2. QED
        BY <4>1, Zenon DEF TailOfSent, L, Expired
    <3>2. \A k \in 1 .. L - n : sent[k] \in Nat
      BY <1>1, <3>1
    <3>3. \A t, w \in Nat : now - t >= w => ~ (now - t < w)
      BY <1>1
    <3>4. QED
      BY <2>1, <3>1, <3>2, <3>3
  <2>3. \A k \in 1 .. L : k > max => sent[k] - sent[k - max] >= window
    BY <1>1 DEF LimitsRespectedInTurn, LimitsRespected
  <2>4. Full(i, history'[i]) <=> n >= max
    BY DEF Full
  <2>5. Full(i, history'[i]) => 
          /\ first \in 1 .. L /\ first <= last /\ last \in 1 .. L
          /\ Wait(i, history'[i]) = window - (now - sent[first])
          /\ now - sent[first] < window
    BY <1>4
  <2>6. Wait(i, history'[i]) <= W
    BY <1>6
  <2> HIDE DEF n, max, window
  <2>7. ASSUME last > 0, n >= max PROVE (now + W) - sent[last] >= window
    <3>1. n = max
      <4> SUFFICES ASSUME n > max PROVE FALSE
        BY <2>1, <2>2, <2>7
      <4>1. L \in 1 .. L /\ L > max /\ L - max \in 1 .. L /\ first <= L - max
        BY <1>1, <2>1, <2>2
      <4>2. sent[L] - sent[L - max] >= window
        BY <2>3, <4>1
      <4>3. first \in 1 .. L /\ now - sent[first] < window
        BY <2>4, <2>5, <2>7
      <4>4. sent[first] <= sent[L - max] /\ sent[L] <= now
        BY <1>1, <4>1, <4>3 DEF SentInOrder
      <4>5. sent[first] \in Nat /\ sent[L - max] \in Nat /\ sent[L] \in Nat
        BY <1>1, <4>1, <4>3
      <4>6. QED
        BY ONLY <1>1, <2>1, <4>2, <4>3, <4>4, <4>5
    <3>2. first = last
      BY <3>1
    <3>3. /\ Wait(i, history'[i]) = window - (now - sent[last])
          /\ sent[last] \in Nat
      BY <1>1, <2>4, <2>5, <2>7, <3>2
    <3> HIDE DEF last
    <3>4. QED
      BY <1>1, <1>6, <2>1, <2>6, <3>3
  <2>8. ASSUME last > 0, ~ (n >= max) PROVE (now + W) - sent[last] >= window
    <3>1. last \in 1 .. L - n /\ last \in 1 .. L
      BY <1>1, <2>1, <2>2, <2>8
    <3>2. ~ (now - sent[last] < window) /\ sent[last] \in Nat
      BY <1>1, <2>2, <3>1
    <3> HIDE DEF last
    <3>3. QED
      BY <1>1, <1>6, <2>1, <3>2
  <2>9. last > 0 => (now + W) - sent[last] >= window
    BY <2>7, <2>8
  <2>10. QED
    BY <2>9 DEF HasRoom, L, last, max, window
(* Before the longest wait is over, the limit that asks for it has no room. *)
<1>12. WaitIsMinimal'
  <2> SUFFICES ASSUME NEW d \in Callers, NEW t \in now .. deadline'[d] - 1
               PROVE  \E i \in DOMAIN Limits : ~ HasRoom(i, t)
    BY <1>2, <1>10 DEF WaitIsMinimal
  <2>1. CASE d # c
    BY <1>1, <1>2, <2>1 DEF WaitIsMinimal
  <2>2. CASE d = c
    <3>1. deadline'[d] = now + W
      BY <1>1, <1>2, <2>2
    <3>2. t \in Int /\ now <= t /\ t <= (now + W) - 1
      BY <1>1, <1>6, <3>1
    <3>3. t \in Nat /\ t < now + W /\ W # 0
      BY <1>1, <1>6, <3>2
    <3>4. PICK i \in DOMAIN Limits : W = Wait(i, history'[i])
      BY <1>6, <3>3
    <3>5. Full(i, history'[i])
      BY <3>3, <3>4 DEF Wait
    <3> DEFINE first == L - Len(history'[i]) + 1
               max == Limits[i].max
               last == L - max + 1
               window == Limits[i].window
    <3>6. /\ first \in 1 .. L /\ first <= last /\ last \in 1 .. L
          /\ W = window - (now - sent[first])
      BY <1>4, <3>4, <3>5
    <3>7. window \in Nat
      BY LimitsTyped
    <3> HIDE DEF first, window, max
    <3>8. sent[first] <= sent[last] /\ sent[first] \in Nat /\ sent[last] \in Nat
      BY <1>1, <3>6 DEF SentInOrder
    <3>9. last > 0
      BY <1>1, <3>6
    <3> HIDE DEF last
    <3>10. ~ (t - sent[last] >= window)
      BY <1>1, <3>3, <3>6, <3>7, <3>8
    <3>11. QED
      BY <3>9, <3>10 DEF HasRoom, last, window, L, max
  <2>3. QED
    BY <2>1, <2>2
<1>13. QED
  BY <1>7, <1>8, <1>9, <1>11, <1>12

(* The invariant of the limiter, for any number of callers and limits.      *)
THEOREM LimiterInvariant ==
  Spec => []LimiterInv
<1>1. Init => LimiterInv
  BY LimiterInit
<1>2. LimiterInv /\ [Next]_rlVars => LimiterInv'
  <2>1. LimiterInv /\ Tick => LimiterInv'
    BY TickKeepsLimiterInv
  <2>2. ASSUME NEW c \in Callers PROVE LimiterInv /\ Calculate(c) => LimiterInv'
    BY CalculateKeepsLimiterInv
  <2>3. ASSUME NEW c \in Callers PROVE LimiterInv /\ Record(c) => LimiterInv'
    BY RecordKeepsLimiterInv
  <2>4. ASSUME LimiterInv, UNCHANGED rlVars PROVE LimiterInv'
    BY <2>4 DEF rlVars, LimiterInv, LimiterTyped, SentInOrder, HistoryIsTail, TailOfSent,
                Expired, ReadyInTurn, HasRoom, LimitsRespectedInTurn, LimitsRespected,
                WaitIsMinimal
  <2>5. QED
    BY <2>1, <2>2, <2>3, <2>4 DEF Next
<1>3. QED
  BY <1>1, <1>2, PTL DEF Spec

-----------------------------------------------------------------------------
(* The client                                                               *)

(* Attempts, delays and caches of a client's calls never interfere with the *)
(* limiter: what the client does to the limiter is what execute does.       *)
THEOREM ClientImplementsLimiter ==
  RestSpec => Spec
<1>1. RestInit => Init
  BY DEF RestInit
<1>2. [RestNext]_restVars => [Next]_rlVars
  <2>1. RestNext => [Next]_rlVars
    <3>1. Tick => Next
      BY DEF Next
    <3>2. ASSUME NEW c \in Callers
          PROVE  (Calculate(c) => Next) /\ (Record(c) => Next)
      BY DEF Next
    <3>3. QED
      BY <3>1, <3>2 DEF RestNext, Miss, EnterLimiter, Send, Succeed, TooManyRequests, Fail, WakeUp
  <2>2. UNCHANGED restVars => UNCHANGED rlVars
    BY DEF restVars
  <2>3. QED
    BY <2>1, <2>2
<1>3. QED
  BY <1>1, <1>2, PTL DEF RestSpec, Spec

(* Callers of a client that come one after the other never exceed a limit,  *)
(* whatever the limits and however late a sleep ends.                       *)
THEOREM LimitsHoldInTurn ==
  RestSpec => []LimitsRespectedInTurn
<1>1. LimiterInv => LimitsRespectedInTurn
  BY DEF LimiterInv
<1>2. QED
  BY <1>1, LimiterInvariant, ClientImplementsLimiter, PTL

(* No caller sleeps longer than the limits ask for, overlapped or not.      *)
THEOREM NoNeedlessWait ==
  RestSpec => []WaitIsMinimal
<1>1. LimiterInv => WaitIsMinimal
  BY DEF LimiterInv
<1>2. QED
  BY <1>1, LimiterInvariant, ClientImplementsLimiter, PTL

-----------------------------------------------------------------------------
(* Retries: the inductive invariant                                         *)

Places == {"idle", "limiter", "limited", "sent", "backoff"}

(* The delays before attempt k of a call add up to BaseDelay * (2^k - 1).   *)
Backoff(c) == firstAsked[c] + BaseDelay * (2 ^ call[c].attempt - 1)

(* From the end of its delay on, a retry is late enough.                    *)
LateEnough(c) ==
    /\ call[c].at = "idle" => call[c].attempt = 0
    /\ call[c].at = "backoff" => call[c].until >= Backoff(c)
    /\ call[c].at \in {"limiter", "limited"} /\ call[c].attempt # 0 => now >= Backoff(c)
    /\ call[c].at = "sent" => now >= Backoff(c)

RetryInv ==
    /\ now \in Nat
    /\ firstAsked \in [Callers -> Nat]
    /\ call \in [Callers -> [at : Places, attempt : Nat, until : Nat]]
    /\ \A c \in Callers : LateEnough(c)

LEMMA PowerIsPositive ==
  \A n \in Nat : 2 ^ n \in Nat
  BY PowerOfTwo

LEMMA BackoffIsInt ==
  ASSUME RetryInv, NEW c \in Callers
  PROVE  Backoff(c) \in Int
<1>1. call[c].attempt \in Nat /\ firstAsked[c] \in Nat /\ BaseDelay \in Nat
  BY BaseDelayAssumption DEF RetryInv
<1>2. \A f, b, p \in Nat : f + b * (p - 1) \in Int
  OBVIOUS
<1>3. QED
  BY <1>1, <1>2, PowerIsPositive DEF Backoff

LEMMA RetryInit ==
  RestInit => RetryInv
<1> SUFFICES ASSUME RestInit PROVE RetryInv
  OBVIOUS
<1>1. now = 0 /\ call = [c \in Callers |-> Idling] /\ firstAsked = [c \in Callers |-> 0]
  BY DEF RestInit, Init
<1>2. Idling \in [at : Places, attempt : Nat, until : Nat]
  BY DEF Idling, Places
<1>3. \A c \in Callers : call[c].at = "idle" /\ call[c].attempt = 0
  BY <1>1 DEF Idling
<1>4. QED
  BY <1>1, <1>2, <1>3 DEF RetryInv, LateEnough

(* A step that leaves caller d alone leaves d late enough.                  *)
LEMMA OthersStayLate ==
  ASSUME RetryInv, NEW d \in Callers, now' \in Nat, now' >= now,
         call'[d] = call[d], firstAsked'[d] = firstAsked[d]
  PROVE  LateEnough(d)'
<1>1. Backoff(d)' = Backoff(d)
  BY DEF Backoff
<1>2. Backoff(d) \in Int /\ now \in Nat /\ LateEnough(d)
  BY BackoffIsInt DEF RetryInv
<1>3. now >= Backoff(d) => now' >= Backoff(d)
  BY <1>2
<1>4. QED
  BY <1>1, <1>2, <1>3 DEF LateEnough

(* A step of caller c that leaves the clock and the other callers alone     *)
(* keeps the invariant when c is late enough after it.                      *)
LEMMA OwnStep ==
  ASSUME RetryInv, NEW c \in Callers, now' = now,
         NEW called \in [at : Places, attempt : Nat, until : Nat],
         call' = [call EXCEPT ![c] = called],
         firstAsked' \in [Callers -> Nat],
         \A d \in Callers \ {c} : firstAsked'[d] = firstAsked[d],
         LateEnough(c)'
  PROVE  RetryInv'
<1>1. call' \in [Callers -> [at : Places, attempt : Nat, until : Nat]] /\ now \in Nat
  BY DEF RetryInv
<1>2. ASSUME NEW d \in Callers, d # c PROVE LateEnough(d)'
  <2>1. call'[d] = call[d] /\ firstAsked'[d] = firstAsked[d] /\ now' \in Nat /\ now' >= now
    BY <1>1, <1>2 DEF RetryInv
  <2>2. QED
    BY <2>1, OthersStayLate
<1>3. QED
  BY <1>1, <1>2 DEF RetryInv

LEMMA RetryStep ==
  RetryInv /\ [RestNext]_restVars => RetryInv'
<1> SUFFICES ASSUME RetryInv, [RestNext]_restVars PROVE RetryInv'
  OBVIOUS
<1> DEFINE Call == [at : Places, attempt : Nat, until : Nat]
<1>1. /\ now \in Nat /\ firstAsked \in [Callers -> Nat] /\ call \in [Callers -> Call]
      /\ BaseDelay \in Nat
  BY BaseDelayAssumption DEF RetryInv
<1>2. CASE UNCHANGED restVars
  BY <1>2 DEF restVars, rlVars, clientVars, RetryInv, LateEnough, Backoff
<1>3. CASE Tick /\ UNCHANGED clientVars
  <2>1. now' = now + 1 /\ call' = call /\ firstAsked' = firstAsked
    BY <1>3 DEF Tick, clientVars
  <2>2. now' \in Nat /\ now' >= now
    BY <1>1, <2>1
  <2>3. \A d \in Callers : LateEnough(d)'
    BY <2>1, <2>2, OthersStayLate
  <2>4. QED
    BY <2>1, <2>2, <2>3 DEF RetryInv
<1>4. ASSUME NEW c \in Callers,
             \/ Miss(c) \/ EnterLimiter(c) \/ Send(c)
             \/ Succeed(c) \/ TooManyRequests(c) \/ Fail(c) \/ WakeUp(c)
      PROVE  RetryInv'
  <2>1. /\ call[c] \in Call /\ call[c].attempt \in Nat /\ call[c].until \in Nat
        /\ call[c] = [at |-> call[c].at, attempt |-> call[c].attempt, until |-> call[c].until]
        /\ LateEnough(c)
    BY <1>1 DEF RetryInv
  <2>2. Backoff(c) \in Int
    BY BackoffIsInt
(* The steps that only move the call on.                                    *)
  <2>3. ASSUME NEW at \in Places, call' = [call EXCEPT ![c].at = at],
               now' = now, firstAsked' = firstAsked,
               /\ at # "backoff"
               /\ at = "idle" => call[c].attempt = 0
               /\ at \in {"limiter", "limited"} /\ call[c].attempt # 0 => now >= Backoff(c)
               /\ at = "sent" => now >= Backoff(c)
        PROVE  RetryInv'
    <3> DEFINE called == [call[c] EXCEPT !.at = at]
    <3>1. called \in Call /\ call' = [call EXCEPT ![c] = called]
      <4>1. called \in Call
        BY <2>1
      <4>2. call' = [call EXCEPT ![c] = called]
        BY <2>3
      <4>3. QED
        BY <4>1, <4>2
    <3>2. call'[c].at = at /\ call'[c].attempt = call[c].attempt
      BY <1>1, <3>1
    <3>3. Backoff(c)' = Backoff(c)
      BY <2>3, <3>2 DEF Backoff
    <3>4. LateEnough(c)'
      BY <2>3, <3>2, <3>3 DEF LateEnough
    <3> HIDE DEF called
    <3>5. QED
      BY <1>1, <2>3, <3>1, <3>4, OwnStep
(* The answer is in: the call is over.                                      *)
  <2>4. ASSUME call' = [call EXCEPT ![c] = Idling], now' = now, firstAsked' = firstAsked
        PROVE  RetryInv'
    <3>1. Idling \in Call
      BY DEF Idling, Places
    <3>2. LateEnough(c)'
      <4>1. call'[c] = Idling
        BY <1>1, <2>4
      <4>2. QED
        BY <4>1 DEF LateEnough, Idling
    <3>3. QED
      BY <1>1, <2>4, <3>1, <3>2, OwnStep
  <2>5. CASE Miss(c)
    <3>1. call[c].at = "idle" /\ call' = [call EXCEPT ![c].at = "limiter"]
          /\ now' = now /\ firstAsked' = firstAsked
      BY <2>5 DEF Miss, rlVars
    <3>2. call[c].attempt = 0
      BY <2>1, <3>1 DEF LateEnough
    <3>3. QED
      BY <2>3, <3>1, <3>2 DEF Places
  <2>6. CASE EnterLimiter(c)
    <3>1. call[c].at = "limiter" /\ call' = [call EXCEPT ![c].at = "limited"]
          /\ now' = now /\ firstAsked' = firstAsked
      BY <2>6 DEF EnterLimiter, Calculate
    <3>2. call[c].attempt # 0 => now >= Backoff(c)
      BY <2>1, <3>1 DEF LateEnough
    <3>3. QED
      BY <2>3, <3>1, <3>2 DEF Places
  <2>7. CASE Send(c)
    <3>1. /\ call[c].at = "limited" /\ call' = [call EXCEPT ![c].at = "sent"] /\ now' = now
          /\ firstAsked' = IF call[c].attempt = 0 THEN [firstAsked EXCEPT ![c] = now]
                                                  ELSE firstAsked
      BY <2>7 DEF Send, Record
    <3>2. CASE call[c].attempt # 0
      <4>1. now >= Backoff(c) /\ firstAsked' = firstAsked
        BY <2>1, <3>1, <3>2 DEF LateEnough
      <4>2. QED
        BY <2>3, <3>1, <4>1 DEF Places
    <3>3. CASE call[c].attempt = 0
      <4> DEFINE called == [call[c] EXCEPT !.at = "sent"]
      <4>1. called \in Call /\ call' = [call EXCEPT ![c] = called]
        <5>1. called \in Call
          BY <2>1 DEF Places
        <5>2. call' = [call EXCEPT ![c] = called]
          BY <3>1
        <5>3. QED
          BY <5>1, <5>2
      <4>2. /\ firstAsked' \in [Callers -> Nat] /\ firstAsked'[c] = now
            /\ \A d \in Callers \ {c} : firstAsked'[d] = firstAsked[d]
        BY <1>1, <3>1, <3>3
      <4>3. call'[c].at = "sent" /\ call'[c].attempt = 0
        BY <1>1, <3>3, <4>1
      <4>4. 2 ^ 0 = 1 /\ now + BaseDelay * (1 - 1) = now
        BY <1>1
      <4>5. now' >= Backoff(c)'
        <5>1. Backoff(c)' = now
          BY <4>2, <4>3, <4>4 DEF Backoff
        <5>2. QED
          BY <1>1, <3>1, <5>1
      <4>6. LateEnough(c)'
        BY <4>3, <4>5 DEF LateEnough
      <4> HIDE DEF called
      <4>7. QED
        BY <3>1, <4>1, <4>2, <4>6, OwnStep
    <3>4. QED
      BY <3>2, <3>3
  <2>8. CASE Succeed(c)
    BY <2>4, <2>8 DEF Succeed, rlVars
(* The next delay is as long as all those before it and one BaseDelay more. *)
  <2>9. CASE TooManyRequests(c)
    <3> DEFINE a == call[c].attempt
               called == [at |-> "backoff", attempt |-> a + 1, until |-> now + BaseDelay * 2 ^ a]
    <3>1. /\ call[c].at = "sent" /\ now' = now /\ firstAsked' = firstAsked
          /\ call' = [call EXCEPT ![c] = called]
      BY <1>1, <2>9 DEF TooManyRequests, BackedOff, rlVars
    <3>2. now >= firstAsked[c] + BaseDelay * (2 ^ a - 1)
      BY <2>1, <3>1 DEF LateEnough, Backoff
    <3>3. a \in Nat /\ a + 1 \in Nat
      BY <2>1
    <3> HIDE DEF a
    <3>4. 2 ^ a \in Nat /\ 2 ^ (a + 1) = 2 ^ a + 2 ^ a
      BY <3>3, PowerOfTwo
    <3>5. \A n, f, b, p, q \in Nat : n >= f + b * (p - 1) /\ q = p + p =>
             n + b * p \in Nat /\ n + b * p >= f + b * (q - 1)
      <4>1. \A b, p \in Nat : b * (p - 1) + b * p = b * ((p + p) - 1) /\ b * p \in Nat
                              /\ b * (p - 1) \in Int
        OBVIOUS
      <4>2. ASSUME NEW n \in Nat, NEW f \in Nat, NEW x \in Int, NEW y \in Nat, n >= f + x
            PROVE  n + y \in Nat /\ n + y >= f + (x + y)
        BY <4>2
      <4>3. QED
        BY <4>1, <4>2
    <3>6. /\ now + BaseDelay * 2 ^ a \in Nat
          /\ now + BaseDelay * 2 ^ a >= firstAsked[c] + BaseDelay * (2 ^ (a + 1) - 1)
      <4>1. 2 ^ (a + 1) \in Nat /\ firstAsked[c] \in Nat
        BY <1>1, <3>4
      <4>2. QED
        BY <1>1, <3>2, <3>4, <3>5, <4>1
    <3>7. called \in Call
      BY <3>3, <3>6 DEF Places
    <3>8. call'[c].at = "backoff" /\ call'[c].attempt = a + 1
          /\ call'[c].until = now + BaseDelay * 2 ^ a
      BY <1>1, <3>1
    <3> HIDE DEF called
    <3>9. LateEnough(c)'
      BY <3>1, <3>6, <3>8 DEF LateEnough, Backoff
    <3>10. QED
      BY <1>1, <3>1, <3>7, <3>9, OwnStep
  <2>10. CASE Fail(c)
    BY <2>4, <2>10 DEF Fail, rlVars
  <2>11. CASE WakeUp(c)
    <3>1. call[c].at = "backoff" /\ call[c].until <= now
          /\ call' = [call EXCEPT ![c].at = "limiter"] /\ now' = now /\ firstAsked' = firstAsked
      BY <2>11 DEF WakeUp, rlVars
    <3>2. call[c].until >= Backoff(c)
      BY <2>1, <3>1 DEF LateEnough
    <3>3. now >= Backoff(c)
      BY <1>1, <2>1, <2>2, <3>1, <3>2
    <3>4. QED
      BY <2>3, <3>1, <3>3 DEF Places
  <2>12. QED
    BY <1>4, <2>5, <2>6, <2>7, <2>8, <2>9, <2>10, <2>11
<1>5. QED
  BY <1>2, <1>3, <1>4 DEF RestNext

(* The k-th retry of a call is sent no earlier than the k delays, each      *)
(* twice the one before, after its first attempt.                           *)
THEOREM RetriesAreDelayed ==
  RestSpec => []RetriesBackOff
<1>1. RetryInv => RetriesBackOff
  BY DEF RetryInv, LateEnough, Backoff, RetriesBackOff
<1>2. QED
  BY <1>1, RetryInit, RetryStep, PTL DEF RestSpec

(* Once set the symbols never change, whatever later answers say.           *)
THEOREM SymbolsAreSetOnce ==
  RestSpec => SymbolsNeverChange
<1>1. [RestNext]_restVars => [symbols # Unset => symbols' = symbols]_symbols
  <2> SUFFICES ASSUME [RestNext]_restVars, symbols # Unset PROVE symbols' = symbols
    OBVIOUS
  <2>1. ASSUME NEW c \in Callers, Succeed(c) PROVE symbols' = symbols
    BY <2>1 DEF Succeed, Initialized
  <2>2. CASE UNCHANGED restVars
    BY <2>2 DEF restVars, clientVars
  <2>3. QED
    BY <2>1, <2>2 DEF RestNext, clientVars, Miss, EnterLimiter, Send, TooManyRequests, Fail, WakeUp
<1>2. QED
  BY <1>1, PTL DEF RestSpec, SymbolsNeverChange
=============================================================================
