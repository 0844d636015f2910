------------------------- MODULE ExchangeFeedProofs -------------------------
(***************************************************************************)
(* Facts about ExchangeFeed that the proofs about the books built from it   *)
(* need: the exchange's book between two ids, the cuts and what the updates *)
(* say, for every history and every way to cut it.                          *)
(***************************************************************************)
EXTENDS ExchangeFeed, WellFoundedInduction, TLAPS

-----------------------------------------------------------------------------
(* Least and greatest elements of sets of naturals.                         *)

(* A nonempty set of naturals has a least element.                          *)
LEMMA LeastExists ==
  ASSUME NEW T, T \subseteq Nat, T # {}
  PROVE  \E m \in T : \A n \in T : m <= n
<1> DEFINE R == {ss \in Nat \X Nat : ss[1] < ss[2]}
<1>1. IsWellFoundedOn(R, Nat)
  BY NatLessThanWellFounded DEF OpToRel
<1> HIDE DEF R
<1>2. PICK m \in T : \A y \in T : ~ (<<y, m>> \in R)
  BY <1>1, WFMin
<1>3. ASSUME NEW n \in T PROVE m <= n
  <2>1. m \in Nat /\ n \in Nat /\ <<n, m>> \in Nat \X Nat
    OBVIOUS
  <2>2. <<n, m>> \notin R
    BY <1>2
  <2>3. QED
    BY <2>1, <2>2 DEF R
<1>4. QED
  BY <1>3

(* A nonempty bounded set of naturals has a greatest element, and Latest    *)
(* is it.                                                                   *)
LEMMA LatestIsMax ==
  ASSUME NEW T, NEW b \in Nat, T \subseteq 0..b, T # {}
  PROVE  /\ Latest(T) \in T
         /\ \A n \in T : n <= Latest(T)
<1> DEFINE D == {d \in 0..b : b - d \in T}
<1>1. D \subseteq Nat
  OBVIOUS
<1>2. D # {}
  <2>1. PICK t \in T : TRUE
    OBVIOUS
  <2>2. b - t \in 0..b /\ b - (b - t) = t
    BY <2>1
  <2>3. QED
    BY <2>1, <2>2
<1>3. PICK m \in D : \A n \in D : m <= n
  <2> HIDE DEF D
  <2>1. QED
    BY <1>1, <1>2, LeastExists
<1>4. b - m \in T
  BY <1>3
<1>5. ASSUME NEW n \in T PROVE n <= b - m
  <2>1. n \in 0..b /\ b - n \in 0..b /\ b - (b - n) = n
    BY <1>5
  <2>2. b - n \in D
    BY <2>1
  <2>3. m <= b - n
    BY <1>3, <2>2
  <2>4. m \in 0..b
    BY <1>3
  <2>5. QED
    BY <2>1, <2>3, <2>4
<1>6. QED
  BY <1>4, <1>5 DEF Latest

-----------------------------------------------------------------------------
(* The feed.                                                                *)

(* The book of the exchange is well formed at every id.                     *)
LEMMA TruthType ==
  ASSUME FeedTypeOK, NEW s \in Ids
  PROVE  TruthAt(s) \in Books
<1> USE MaxQtyAssumption, MaxIdAssumption
<1> SUFFICES ASSUME NEW l \in Levels
             PROVE  TruthAt(s)[l] \in Qty
  BY DEF TruthAt, Books
<1> DEFINE T == {i \in 1..s : Touches(i, l)}
<1>1. CASE T = {}
  BY <1>1 DEF TruthAt, Qty
<1>2. CASE T # {}
  <2>1. s \in Nat /\ T \subseteq 0..s
    BY DEF Ids
  <2>2. Latest(T) \in T
    BY <1>2, <2>1, LatestIsMax
  <2>3. Latest(T) \in 1..MaxId
    BY <2>2 DEF Ids
  <2>4. history[Latest(T)].qty \in Qty
    BY <2>3 DEF FeedTypeOK, Changes, Idle, Qty
  <2>5. QED
    BY <1>2, <2>4 DEF TruthAt
<1>3. QED
  BY <1>1, <1>2

(* A level no change touches after a keeps its quantity until b.            *)
LEMMA TruthStable ==
  ASSUME NEW a \in Nat, NEW b \in Nat, a <= b, NEW l \in Levels,
         \A i \in a + 1 .. b : ~Touches(i, l)
  PROVE  TruthAt(b)[l] = TruthAt(a)[l]
<1>1. {i \in 1..b : Touches(i, l)} = {i \in 1..a : Touches(i, l)}
  OBVIOUS
<1>2. QED
  BY <1>1 DEF TruthAt

(* The previous cut is the greatest cut before an id, 0 if there is none.   *)
LEMMA PreviousCutIsLatest ==
  ASSUME FeedTypeOK, NEW c \in Nat
  PROVE  /\ PreviousCut(c) \in cuts \cup {0}
         /\ PreviousCut(c) \in Ids
         /\ c # 0 => PreviousCut(c) < c
         /\ \A d \in cuts : d < c => d <= PreviousCut(c)
<1> DEFINE E == {d \in cuts : d < c}
<1>1. \A d \in cuts : d \in 1 .. MaxId /\ d \in Ids
  BY MaxIdAssumption DEF FeedTypeOK, Ids
<1>2. PreviousCut(c) = IF E = {} THEN 0 ELSE Latest(E)
  BY DEF PreviousCut
<1>3. CASE E = {}
  BY <1>2, <1>3, MaxIdAssumption DEF Ids
<1>4. CASE E # {}
  <2>1. \A d \in E : d \in cuts /\ d < c /\ d \in 0 .. MaxId
    BY <1>1
  <2>2. \A d \in cuts : d < c => d \in E
    OBVIOUS
  <2> HIDE DEF E
  <2>3. Latest(E) \in E /\ \A d \in E : d <= Latest(E)
    BY <1>4, <2>1, MaxIdAssumption, LatestIsMax
  <2>4. QED
    BY <1>1, <1>2, <1>4, <2>1, <2>2, <2>3
<1>5. QED
  BY <1>3, <1>4

LEMMA PreviousCutBounds ==
  ASSUME FeedTypeOK, NEW c \in cuts
  PROVE  PreviousCut(c) \in 0 .. c - 1
<1>1. c \in Nat /\ c # 0
  BY MaxIdAssumption DEF FeedTypeOK
<1>2. QED
  BY <1>1, PreviousCutIsLatest DEF Ids

(* A connection that has delivered a, and m next, has left out no cut.      *)
LEMMA CutFollows ==
  ASSUME FeedTypeOK, NEW a \in cuts \cup {0}, NEW m \in cuts, a < m,
         \A d \in cuts : a < d /\ d <= m => m <= d
  PROVE  PreviousCut(m) = a
<1>1. \A d \in cuts : d \in 1 .. MaxId
  BY DEF FeedTypeOK
<1>2. a \in Nat /\ m \in Nat /\ m # 0
  BY <1>1, MaxIdAssumption
<1>3. /\ PreviousCut(m) \in cuts \cup {0}
      /\ PreviousCut(m) < m
      /\ \A d \in cuts : d < m => d <= PreviousCut(m)
  BY <1>2, PreviousCutIsLatest
<1>4. PreviousCut(m) \in Nat /\ a <= PreviousCut(m)
  <2>1. PreviousCut(m) \in Nat
    BY <1>1, <1>3, MaxIdAssumption
  <2>2. a \in cuts => a <= PreviousCut(m)
    BY <1>3
  <2>3. QED
    BY <1>2, <2>1, <2>2
<1>5. ~(a < PreviousCut(m))
  <2> SUFFICES ASSUME a < PreviousCut(m) PROVE FALSE
    OBVIOUS
  <2>1. PreviousCut(m) \in cuts /\ PreviousCut(m) <= m
    BY <1>2, <1>3, <1>4
  <2>2. m <= PreviousCut(m)
    BY <2>1
  <2>3. QED
    BY <1>2, <1>3, <1>4, <2>2
<1>6. QED
  BY <1>2, <1>4, <1>5

(* Every id up to a cut is in one update, which is closed by then.          *)
LEMMA IdInUpdate ==
  ASSUME FeedTypeOK, NEW c \in cuts, NEW i \in 1 .. c
  PROVE  \E d \in cuts : d <= c /\ i \in PreviousCut(d) + 1 .. d
<1> DEFINE U == {d \in cuts : i <= d}
<1>1. \A d \in cuts : d \in 1 .. MaxId
  BY DEF FeedTypeOK
<1>2. U \subseteq Nat /\ c \in U
  BY <1>1, MaxIdAssumption
<1>3. PICK d \in U : \A e \in U : d <= e
  <2> HIDE DEF U
  <2>1. QED
    BY <1>2, LeastExists
<1>4. d \in cuts /\ d \in Nat /\ i <= d /\ d <= c
  BY <1>1, <1>2, <1>3
<1>5. PreviousCut(d) \in 0 .. d - 1 /\ PreviousCut(d) \in cuts \cup {0}
  BY <1>4, PreviousCutBounds, PreviousCutIsLatest
<1>6. ~(i <= PreviousCut(d))
  BY <1>1, <1>3, <1>4, <1>5
<1>7. QED
  BY <1>4, <1>5, <1>6

(* An update has the levels its ids touch, at the quantities of the         *)
(* exchange's book at its final id.                                         *)
LEMMA UpdateLevelsFacts ==
  ASSUME FeedTypeOK, NEW c \in cuts, NEW l \in Levels
  PROVE  /\ UpdateLevels(c)[l] \in Qty \cup {Untouched}
         /\ (\E i \in PreviousCut(c) + 1 .. c : Touches(i, l))
               => UpdateLevels(c)[l] = TruthAt(c)[l] /\ UpdateLevels(c)[l] # Untouched
         /\ UpdateLevels(c)[l] # Untouched => UpdateLevels(c)[l] = TruthAt(c)[l]
<1>1. c \in Ids
  BY MaxIdAssumption DEF FeedTypeOK, Ids
<1>2. TruthAt(c)[l] \in Qty
  BY <1>1, TruthType DEF Books
<1>3. Untouched \notin Qty
  BY MaxQtyAssumption DEF Qty, Untouched
<1>4. QED
  BY <1>2, <1>3 DEF UpdateLevels

LEMMA UpdateFacts ==
  ASSUME FeedTypeOK, NEW e \in Updates
  PROVE  /\ e.final \in cuts
         /\ e.final \in 1..MaxId
         /\ PreviousCut(e.final) \in 0 .. e.final - 1
         /\ e.previousId \in {0, PreviousCut(e.final)}
         /\ (PreviousIds = {"chain"}) => e.previousId = PreviousCut(e.final)
         /\ \A l \in Levels :
              /\ e.levels[l] \in Qty \cup {Untouched}
              /\ (\E i \in PreviousCut(e.final) + 1 .. e.final : Touches(i, l))
                    => e.levels[l] = TruthAt(e.final)[l] /\ e.levels[l] # Untouched
              /\ e.levels[l] # Untouched => e.levels[l] = TruthAt(e.final)[l]
<1>1. PICK c \in cuts, pid \in PreviousIds : e = Update(c, pid)
  BY DEF Updates
<1>2. e.final = c /\ e.levels = UpdateLevels(c)
      /\ e.previousId = IF pid = "chain" THEN PreviousCut(c) ELSE 0
  BY <1>1 DEF Update
<1>3. c \in 1..MaxId
  BY DEF FeedTypeOK
<1>4. PreviousCut(c) \in 0 .. c - 1
  BY PreviousCutBounds
<1>5. QED
  BY <1>2, <1>3, <1>4, UpdateLevelsFacts

(* The feed is fixed: primed and unprimed views of it agree.                *)
LEMMA FeedStays ==
  ASSUME UNCHANGED feedVars
  PROVE  /\ Updates' = Updates
         /\ FeedTypeOK' <=> FeedTypeOK
         /\ \A i : /\ TruthAt(i)' = TruthAt(i)
                   /\ PreviousCut(i)' = PreviousCut(i)
                   /\ UpdateLevels(i)' = UpdateLevels(i)
                   /\ \A l : Touches(i, l)' <=> Touches(i, l)
BY DEF feedVars, Updates, Update, UpdateLevels, FirstChange, PreviousCut, Active,
       TruthAt, Touches, FeedTypeOK
=============================================================================
