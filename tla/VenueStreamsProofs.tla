------------------------- MODULE VenueStreamsProofs -------------------------
(***************************************************************************)
(* Proofs about VenueStreams, for every feed and price grid, any venues,    *)
(* losses and number of connections.                                        *)
(***************************************************************************)
EXTENDS VenueStreams, ExchangeFeedProofs

-----------------------------------------------------------------------------
(* Types and order.                                                         *)

StreamTyped ==
    /\ FeedTypeOK
    /\ now \in Ids /\ subscribedAt \in Ids
    /\ sent \in cuts \cup {0}
    /\ session \in Sessions
    /\ failures \in Nat
    /\ local \in [book : {local.book}, id : Ids] \cup {NoBook}
    /\ state \in [generation : Nat, connected : BOOLEAN, cached : {NoBook, local}]

(* Ids are delivered as they come, a connection begins without a cached     *)
(* book, and it never delivers what its own book already has.               *)
InStep ==
    /\ sent <= now /\ subscribedAt <= now
    /\ local # NoBook => local.id <= now
    /\ session = "connecting" => local = NoBook
    /\ session \in {"connecting", "seeded"} => state.cached = NoBook
    /\ session = "seeded" => venue = "o1"
    /\ session = "streaming" => PreviousCut(subscribedAt + 1) <= sent
    /\ session = "streaming" /\ local # NoBook => \A c \in cuts : sent < c => local.id < c

(* No book has the id of NoBook.                                            *)
LEMMA BookWithId ==
  ASSUME NEW b, NEW i \in Ids
  PROVE  [book |-> b, id |-> i] # NoBook
<1>1. [book |-> b, id |-> i].id # NoBook.id
  BY MaxIdAssumption DEF NoBook, Ids
<1>2. QED
  BY <1>1

LEMMA NoBookFixed == NoBook' = NoBook
BY DEF NoBook, EmptyBook

(* The frame that comes next continues what the connection has delivered.   *)
LEMMA NextCutFacts ==
  ASSUME FeedTypeOK, sent \in cuts \cup {0}, now \in Ids, Undelivered # {}
  PROVE  /\ NextCut \in cuts
         /\ NextCut \in 1 .. MaxId
         /\ NextCut \in Ids
         /\ sent < NextCut
         /\ NextCut <= now
         /\ PreviousCut(NextCut) = sent
         /\ \A c \in cuts : NextCut < c => sent < c
<1>1. Undelivered \subseteq 1 .. MaxId
  BY DEF Undelivered, FeedTypeOK
<1>2. \E c \in Undelivered : \A d \in Undelivered : c <= d
  <2>1. Undelivered \subseteq Nat
    BY <1>1, MaxIdAssumption
  <2>2. QED
    BY <2>1, LeastExists
<1>3. NextCut \in Undelivered /\ \A d \in Undelivered : NextCut <= d
  BY <1>2 DEF NextCut
<1>4. NextCut \in cuts /\ NextCut \in 1 .. MaxId /\ sent < NextCut /\ NextCut <= now
  BY <1>1, <1>3 DEF Undelivered
<1>5. \A d \in cuts : d \in 1 .. MaxId
  BY DEF FeedTypeOK
<1>6. sent \in Nat /\ now \in Nat
  BY <1>5, MaxIdAssumption DEF Ids
<1>7. \A d \in cuts : sent < d /\ d <= NextCut => d \in Undelivered
  BY <1>4, <1>5, <1>6, MaxIdAssumption DEF Undelivered
<1>8. PreviousCut(NextCut) = sent
  BY <1>3, <1>4, <1>7, CutFollows
<1>9. QED
  BY <1>4, <1>5, <1>6, <1>8, MaxIdAssumption DEF Ids

(* Where a connection starts: after the last cut of the moment.             *)
LEMMA SubscribedCut ==
  ASSUME FeedTypeOK, NEW i \in Ids
  PROVE  /\ PreviousCut(i + 1) \in cuts \cup {0}
         /\ PreviousCut(i + 1) \in Ids
         /\ PreviousCut(i + 1) <= i
         /\ \A c \in cuts : PreviousCut(i + 1) < c => i < c
<1>1. i \in Nat /\ i + 1 \in Nat /\ i + 1 # 0
  BY MaxIdAssumption DEF Ids
<1>2. /\ PreviousCut(i + 1) \in cuts \cup {0} /\ PreviousCut(i + 1) \in Ids
      /\ PreviousCut(i + 1) < i + 1
      /\ \A d \in cuts : d < i + 1 => d <= PreviousCut(i + 1)
  BY <1>1, PreviousCutIsLatest
<1>3. \A d \in cuts : d \in Nat
  BY MaxIdAssumption DEF FeedTypeOK
<1>4. PreviousCut(i + 1) \in Nat
  BY <1>2, MaxIdAssumption DEF Ids
<1>5. QED
  BY <1>1, <1>2, <1>3, <1>4

(* A later connection starts no earlier.                                    *)
LEMMA SubscribedLater ==
  ASSUME FeedTypeOK, NEW i \in Ids, NEW j \in Ids, i <= j
  PROVE  PreviousCut(i + 1) <= PreviousCut(j + 1)
<1>1. i \in Nat /\ j \in Nat
  BY MaxIdAssumption DEF Ids
<1>2. /\ PreviousCut(i + 1) \in cuts \cup {0} /\ PreviousCut(i + 1) \in Nat /\ PreviousCut(i + 1) <= i
      /\ PreviousCut(j + 1) \in Nat
      /\ \A c \in cuts : PreviousCut(j + 1) < c => j < c
  <2>1. PreviousCut(i + 1) \in Ids /\ PreviousCut(j + 1) \in Ids
    BY SubscribedCut
  <2>2. Ids \subseteq Nat
    BY MaxIdAssumption DEF Ids
  <2>3. QED
    BY <2>1, <2>2, SubscribedCut
<1>3. QED
  BY <1>1, <1>2

LEMMA FeedUntouched == [Next]_vars => UNCHANGED <<history, cuts, venue>>
BY DEF Next, Tick, SessionStep, SeedFromRest, Connect, Receive, ReceiveFirst, ReceiveWholeBook,
       ReceiveChanges, ReceiveBroken, ResetSymbol, LoseFirst, LoseFrame, ConnectionLost, feedVars, vars

LEMMA InitInStep == Init => StreamTyped /\ InStep
BY MaxIdAssumption DEF Init, FeedInit, StreamInit, StreamTyped, InStep, FeedTypeOK, Ids,
   Sessions, NoBook

LEMMA StepInStep ==
  ASSUME StreamTyped, InStep, [Next]_vars
  PROVE  StreamTyped' /\ InStep'
<1> USE DEF StreamTyped, InStep
<1>1. /\ FeedTypeOK' /\ venue' = venue /\ cuts' = cuts /\ NoBook' = NoBook
      /\ \A i : PreviousCut(i)' = PreviousCut(i)
  BY FeedUntouched, FeedStays, NoBookFixed DEF feedVars
<1>2. /\ now \in Nat /\ subscribedAt \in Nat /\ sent \in Nat
      /\ \A c \in cuts : c \in Nat
      /\ local # NoBook => local.id \in Nat
  BY MaxIdAssumption DEF FeedTypeOK, Ids
<1>3. CASE Tick
  <2>1. /\ now < MaxId /\ now' = now + 1
        /\ UNCHANGED <<session, sent, local, subscribedAt, state, failures>>
    BY <1>3 DEF Tick, connVars
  <2>2. now' \in Ids /\ now' \in Nat
    BY <1>2, <2>1, MaxIdAssumption DEF Ids
  <2>3. (PreviousCut(subscribedAt + 1))' = PreviousCut(subscribedAt + 1)
    BY <1>1, <2>1
  <2>4. QED
    BY <1>1, <1>2, <2>1, <2>2, <2>3
<1>4. CASE SeedFromRest
  <2>1. /\ local' = [book |-> TruthAt(now), id |-> now] /\ local' # NoBook
        /\ local'.id = now /\ local' \in [book : {local'.book}, id : Ids]
    BY <1>4, BookWithId DEF SeedFromRest
  <2>2. state' \in [generation : Nat, connected : BOOLEAN, cached : {NoBook, local'}]
    BY <1>4 DEF SeedFromRest
  <2>3. QED
    BY <1>1, <1>2, <1>4, <2>1, <2>2 DEF SeedFromRest, Sessions
<1>5. CASE Connect
  <2>1. /\ PreviousCut(now + 1) \in cuts \cup {0} /\ PreviousCut(now + 1) <= now
        /\ \A c \in cuts : PreviousCut(now + 1) < c => now < c
    BY SubscribedCut
  <2>2. state' \in [generation : Nat, connected : BOOLEAN, cached : {NoBook, local'}]
    BY <1>5 DEF Connect, MarkConnected
  <2>3. session' = "streaming" /\ sent' = PreviousCut(now + 1) /\ subscribedAt' = now
        /\ local' = local /\ now' = now /\ failures' = failures
    BY <1>5 DEF Connect
  <2>4. (PreviousCut(subscribedAt + 1))' = PreviousCut(now + 1)
    BY <1>1, <2>3
  <2>5. QED
    BY <1>1, <1>2, <2>1, <2>2, <2>3, <2>4 DEF Sessions
<1>6. CASE ReceiveFirst
  <2>1. sent \in Ids
    BY MaxIdAssumption DEF FeedTypeOK, Ids
  <2>2. local' = [book |-> TruthAt(sent), id |-> sent] /\ local' # NoBook
    BY <1>6, <2>1, BookWithId DEF ReceiveFirst
  <2>3. state' \in [generation : Nat, connected : BOOLEAN, cached : {NoBook, local'}]
    BY <1>6 DEF ReceiveFirst, Yielded
  <2>4. QED
    BY <1>1, <1>2, <1>6, <2>1, <2>2, <2>3 DEF ReceiveFirst, FirstDue
<1>7. CASE ReceiveWholeBook \/ ReceiveChanges
  <2>1. /\ Undelivered # {} /\ sent' = NextCut /\ session = "streaming"
        /\ UNCHANGED <<now, session, subscribedAt, failures>>
        /\ state' = Yielded(local')
    BY <1>7 DEF ReceiveWholeBook, ReceiveChanges, ChangesDue
  <2>2. \E b : local' = [book |-> b, id |-> NextCut]
    BY <1>7 DEF ReceiveWholeBook, ReceiveChanges, WithChanges
  <2>3. NextCut \in cuts /\ NextCut \in Ids /\ sent < NextCut /\ NextCut <= now
    BY <2>1, NextCutFacts
  <2>4. local'.id = NextCut /\ local' # NoBook /\ local' \in [book : {local'.book}, id : Ids]
    BY <2>2, <2>3, BookWithId
  <2>5. state' \in [generation : Nat, connected : BOOLEAN, cached : {NoBook, local'}]
    BY <2>1 DEF Yielded
  <2>6. PreviousCut(subscribedAt + 1) <= NextCut
    BY <1>2, <2>1, <2>3, SubscribedCut, MaxIdAssumption DEF Ids
  <2>7. (PreviousCut(subscribedAt + 1))' = PreviousCut(subscribedAt + 1)
    BY <1>1, <2>1
  <2>8. QED
    BY <1>1, <1>2, <2>1, <2>3, <2>4, <2>5, <2>6, <2>7
<1>8. CASE LoseFrame
  <2>1. /\ Undelivered # {} /\ sent' = NextCut /\ session = "streaming"
        /\ UNCHANGED <<now, session, subscribedAt, local, state, failures>>
    BY <1>8 DEF LoseFrame, ChangesDue
  <2>2. NextCut \in cuts /\ NextCut \in Nat /\ sent < NextCut /\ NextCut <= now
        /\ \A c \in cuts : NextCut < c => sent < c
    BY <2>1, NextCutFacts, MaxIdAssumption
  <2>3. PreviousCut(subscribedAt + 1) <= NextCut
    BY <1>2, <2>1, <2>2, SubscribedCut, MaxIdAssumption DEF Ids
  <2>4. (PreviousCut(subscribedAt + 1))' = PreviousCut(subscribedAt + 1)
    BY <1>1, <2>1
  <2>5. QED
    BY <1>1, <1>2, <2>1, <2>2, <2>3, <2>4
<1>9. CASE ReceiveBroken \/ ConnectionLost \/ LoseFirst
  BY <1>1, <1>2, <1>9 DEF ReceiveBroken, ConnectionLost, LoseFirst, Sessions
<1>10. CASE ResetSymbol
  <2>1. state' \in [generation : Nat, connected : BOOLEAN, cached : {NoBook}]
    BY <1>10 DEF ResetSymbol
  <2>2. QED
    BY <1>1, <1>2, <1>10, <2>1 DEF ResetSymbol, BookDropped, Sessions
<1>11. CASE UNCHANGED vars
  BY <1>1, <1>2, <1>11 DEF vars
<1>12. QED
  BY <1>3, <1>4, <1>5, <1>6, <1>7, <1>8, <1>9, <1>10, <1>11
  DEF Next, SessionStep, Receive

LEMMA AlwaysInStep == Spec => [](StreamTyped /\ InStep)
<1>1. StreamTyped /\ InStep /\ [Next]_vars => StreamTyped' /\ InStep'
  BY StepInStep
<1>2. QED
  BY <1>1, InitInStep, PTL DEF Spec

-----------------------------------------------------------------------------
(* What a lost frame does.                                                  *)

(* The levels of the adapter's book that are not missed are the exchange's  *)
(* and have not changed in what was delivered or lost since; without a book *)
(* all are missed.                                                          *)
OnlyMissedDiffer ==
    /\ local # NoBook =>
        /\ session = "seeded" => local.book = TruthAt(local.id)
        /\ \A l \in Levels \ missed :
              /\ local.book[l] = TruthAt(local.id)[l]
              /\ \A i \in local.id + 1 .. sent : ~Touches(i, l)
    /\ session = "streaming" /\ headless /\ local = NoBook => Levels \subseteq missed

LEMMA TouchedFacts ==
  ASSUME FeedTypeOK, NEW c \in cuts, NEW l \in Levels
  PROVE  /\ l \in Touched(c) => UpdateLevels(c)[l] = TruthAt(c)[l]
         /\ l \notin Touched(c) => \A i \in PreviousCut(c) + 1 .. c : ~Touches(i, l)
BY UpdateLevelsFacts DEF Touched

(* Every frame has a change in it.                                          *)
LEMMA CutsTouch ==
  ASSUME FeedTypeOK, NEW c \in cuts
  PROVE  Touched(c) # {}
<1>1. c \in 1 .. MaxId /\ Active(c) /\ history[c] \in Changes /\ PreviousCut(c) \in 0 .. c - 1
  BY PreviousCutBounds DEF FeedTypeOK
<1>2. history[c].level \in Levels
  BY <1>1 DEF Changes, Active
<1>3. PICK l \in Levels : Touches(c, l)
  BY <1>2 DEF Touches
<1>4. c \in PreviousCut(c) + 1 .. c
  BY <1>1, MaxIdAssumption
<1>5. QED
  BY <1>3, <1>4, UpdateLevelsFacts DEF Touched

(* What an o1 connection never delivers although its REST book does not     *)
(* have it is all that changed in between.                                  *)
LEMMA BeforeConnectingCovers ==
  ASSUME StreamTyped, InStep, local # NoBook, NEW l \in Levels,
         l \notin UNION {Touched(c) : c \in BeforeConnecting}
  PROVE  \A i \in local.id + 1 .. PreviousCut(now + 1) : ~Touches(i, l)
<1> USE DEF StreamTyped
<1>1. local.id \in Nat /\ \A c \in cuts : c \in Nat
  BY MaxIdAssumption DEF FeedTypeOK, Ids
<1> SUFFICES ASSUME NEW i \in local.id + 1 .. PreviousCut(now + 1)
             PROVE  ~Touches(i, l)
  OBVIOUS
<1>2. PreviousCut(now + 1) \in cuts \cup {0} /\ PreviousCut(now + 1) \in Nat
  BY SubscribedCut, MaxIdAssumption DEF Ids
<1>3. PreviousCut(now + 1) \in cuts /\ i \in 1 .. PreviousCut(now + 1)
  BY <1>1, <1>2
<1>4. PICK d \in cuts : d <= PreviousCut(now + 1) /\ i \in PreviousCut(d) + 1 .. d
  BY <1>3, IdInUpdate
<1>5. d \in BeforeConnecting
  BY <1>1, <1>4 DEF BeforeConnecting
<1>6. l \notin Touched(d)
  BY <1>5
<1>7. QED
  BY <1>4, <1>6, TouchedFacts

(* A frame of changes repairs the levels it mentions and leaves the others. *)
LEMMA ChangesRepair ==
  ASSUME StreamTyped, InStep, session = "streaming", Undelivered # {},
         NEW l \in Levels, l \notin missed \ Touched(NextCut),
         l \notin missed => /\ local # NoBook
                           /\ local.book[l] = TruthAt(local.id)[l]
                           /\ \A i \in local.id + 1 .. sent : ~Touches(i, l)
  PROVE  WithChanges(local, NextCut).book[l] = TruthAt(NextCut)[l]
<1> USE DEF StreamTyped
<1>1. /\ local # NoBook => local.id \in Nat
      /\ sent \in Nat /\ NextCut \in Nat /\ NextCut \in cuts
      /\ PreviousCut(NextCut) = sent /\ sent < NextCut
  BY NextCutFacts, MaxIdAssumption DEF FeedTypeOK, Ids
<1>2. WithChanges(local, NextCut).book[l]
        = IF l \in Touched(NextCut) THEN UpdateLevels(NextCut)[l] ELSE local.book[l]
  BY DEF WithChanges
<1>3. CASE l \in Touched(NextCut)
  BY <1>1, <1>2, <1>3, TouchedFacts
<1>4. CASE l \notin Touched(NextCut)
  <2>1. l \notin missed /\ local # NoBook /\ local.book[l] = TruthAt(local.id)[l]
    BY <1>4
  <2>2. local.id < NextCut
    BY <1>1, <2>1 DEF InStep
  <2>3. \A i \in local.id + 1 .. NextCut : ~Touches(i, l)
    BY <1>1, <1>4, <2>1, TouchedFacts
  <2>4. QED
    BY <1>1, <1>2, <1>4, <2>1, <2>2, <2>3, TruthStable
<1>5. QED
  BY <1>3, <1>4

LEMMA InitOnlyMissed == Init => OnlyMissedDiffer
BY DEF Init, StreamInit, OnlyMissedDiffer

LEMMA StepOnlyMissed ==
  ASSUME StreamTyped, StreamTyped', InStep, InStep', OnlyMissedDiffer, [Next]_vars
  PROVE  OnlyMissedDiffer'
<1> USE DEF OnlyMissedDiffer
<1>1. /\ UNCHANGED <<history, cuts, venue>> /\ NoBook' = NoBook
      /\ \A i : TruthAt(i)' = TruthAt(i)
      /\ \A i, l : Touches(i, l)' <=> Touches(i, l)
  BY FeedUntouched, FeedStays, NoBookFixed DEF feedVars
<1>2. TruthAt(local.id)' = TruthAt(local'.id)
  BY <1>1 DEF TruthAt, Touches
<1>3. /\ now \in Nat /\ sent \in Nat /\ sent \in Ids
      /\ local # NoBook => local.id \in Nat
  BY MaxIdAssumption DEF StreamTyped, FeedTypeOK, Ids
<1>4. CASE UNCHANGED <<session, sent, local, missed, headless>>
  BY <1>1, <1>2, <1>4
<1>5. CASE SeedFromRest
  <2>1. /\ local' = [book |-> TruthAt(now), id |-> now] /\ sent' = sent
        /\ session' = "seeded"
    BY <1>5 DEF SeedFromRest
  <2>2. now + 1 .. sent = {}
    BY <1>3 DEF InStep
  <2>3. QED
    BY <1>2, <2>1, <2>2
<1>6. CASE Connect
  <2>1. /\ local' = local /\ session' = "streaming" /\ sent' = PreviousCut(now + 1)
        /\ Opens
        /\ missed' = IF venue = "o1" THEN UNION {Touched(c) : c \in BeforeConnecting} ELSE {}
        /\ ~headless'
    BY <1>6 DEF Connect
  <2>2. CASE venue # "o1"
    BY <1>1, <2>1, <2>2 DEF InStep, Opens
  <2>3. CASE venue = "o1"
    <3> SUFFICES ASSUME local # NoBook, NEW l \in Levels, l \notin missed'
                 PROVE  /\ local.book[l] = TruthAt(local.id)[l]
                        /\ \A i \in local.id + 1 .. PreviousCut(now + 1) : ~Touches(i, l)
      BY <1>1, <1>2, <2>1
    <3>1. session = "seeded"
      BY <2>1, <2>3 DEF Opens
    <3>2. QED
      BY <2>1, <2>3, <3>1, BeforeConnectingCovers
  <2>4. QED
    BY <2>2, <2>3
<1>7. CASE ReceiveFirst
  <2>1. /\ local' = [book |-> TruthAt(sent), id |-> sent] /\ sent' = sent
        /\ session' = "streaming" /\ ~headless'
    BY <1>7 DEF ReceiveFirst, FirstDue
  <2>2. sent + 1 .. sent = {}
    BY <1>3
  <2>3. QED
    BY <1>2, <2>1, <2>2
<1>8. CASE ReceiveWholeBook
  <2>1. /\ local' = [book |-> TruthAt(NextCut), id |-> NextCut] /\ sent' = NextCut
        /\ session' = "streaming" /\ Undelivered # {}
    BY <1>8 DEF ReceiveWholeBook, ChangesDue
  <2>2. NextCut + 1 .. NextCut = {} /\ local' # NoBook
    BY <2>1, NextCutFacts, BookWithId, MaxIdAssumption DEF StreamTyped
  <2>3. QED
    BY <1>1, <1>2, <2>1, <2>2
<1>9. CASE ReceiveChanges
  <2>1. /\ local' = WithChanges(local, NextCut) /\ sent' = NextCut
        /\ missed' = missed \ Touched(NextCut)
        /\ session = "streaming" /\ session' = "streaming" /\ Undelivered # {}
        /\ local # NoBook \/ headless
    BY <1>9 DEF ReceiveChanges, ChangesDue
  <2>2. local'.id = NextCut /\ NextCut + 1 .. NextCut = {} /\ local' # NoBook
    BY <2>1, NextCutFacts, BookWithId, MaxIdAssumption DEF StreamTyped, WithChanges
  <2>3. ASSUME NEW l \in Levels \ missed'
        PROVE  local'.book[l] = TruthAt(NextCut)[l]
    BY <2>1, ChangesRepair
  <2>4. QED
    BY <1>1, <1>2, <2>1, <2>2, <2>3
<1>10. CASE LoseFrame
  <2>1. /\ UNCHANGED <<local, session, headless>> /\ sent' = NextCut
        /\ missed' = missed \cup Touched(NextCut)
        /\ Undelivered # {}
    BY <1>10 DEF LoseFrame, ChangesDue
  <2>2. /\ NextCut \in cuts /\ NextCut \in Nat
        /\ PreviousCut(NextCut) = sent
    BY <2>1, NextCutFacts, MaxIdAssumption DEF StreamTyped
  <2>3. ASSUME local # NoBook, NEW l \in Levels \ missed', NEW i \in local.id + 1 .. NextCut
        PROVE  ~Touches(i, l)
    <3>1. CASE i \in local.id + 1 .. sent
      BY <2>1, <2>3, <3>1
    <3>2. CASE i \in sent + 1 .. NextCut
      BY <2>1, <2>2, <3>2, TouchedFacts DEF StreamTyped
    <3>3. QED
      BY <1>3, <2>2, <2>3, <3>1, <3>2
  <2>4. QED
    BY <1>1, <1>2, <2>1, <2>3
<1>11. CASE ReceiveBroken \/ ConnectionLost
  BY <1>1, <1>2, <1>11 DEF ReceiveBroken, ConnectionLost
<1>12. CASE ResetSymbol
  BY <1>1, <1>12 DEF ResetSymbol, BookDropped
<1>13. CASE LoseFirst
  BY <1>1, <1>13 DEF LoseFirst, FirstDue, Levels
<1>14. QED
  BY <1>4, <1>5, <1>6, <1>7, <1>8, <1>9, <1>10, <1>11, <1>12, <1>13
  DEF Next, SessionStep, Receive, Tick, connVars, vars

(* On every venue, edgex and o1 included, which only log a gap, a served    *)
(* book is wrong at most on the levels whose last change was in a frame     *)
(* that this session never got.                                             *)
THEOREM OnlyMissedDiffers == Spec => []OnlyMissedLevelsDiffer
<1>1. StreamTyped /\ InStep /\ OnlyMissedDiffer => OnlyMissedLevelsDiffer
  BY DEF StreamTyped, OnlyMissedDiffer, OnlyMissedLevelsDiffer, Served
<1>2. /\ StreamTyped /\ StreamTyped' /\ InStep /\ InStep' /\ OnlyMissedDiffer /\ [Next]_vars
        => OnlyMissedDiffer'
  BY StepOnlyMissed
<1>3. QED
  BY <1>1, <1>2, AlwaysInStep, InitOnlyMissed, PTL DEF Spec

-----------------------------------------------------------------------------
(* The venues that detect gaps.                                             *)

TrueWhereGapsAreDetected ==
    DetectsGaps /\ local # NoBook => local.book = TruthAt(local.id)

LEMMA InitTrue == Init => TrueWhereGapsAreDetected
BY DEF Init, StreamInit, TrueWhereGapsAreDetected

(* A nonce that fits leaves no frame out, a checksum that fits settles the  *)
(* book, and a whole book needs neither.                                    *)
LEMMA StepTrue ==
  ASSUME StreamTyped, InStep, TrueWhereGapsAreDetected, [Next]_vars
  PROVE  TrueWhereGapsAreDetected'
<1> USE DEF TrueWhereGapsAreDetected
<1>1. /\ UNCHANGED <<history, cuts, venue>> /\ NoBook' = NoBook
      /\ \A i : TruthAt(i)' = TruthAt(i)
      /\ headless' = headless => DetectsGaps' = DetectsGaps
  BY FeedUntouched, FeedStays, NoBookFixed DEF feedVars, DetectsGaps
<1>2. TruthAt(local.id)' = TruthAt(local'.id)
  BY <1>1 DEF TruthAt, Touches
<1>3. CASE UNCHANGED <<local, headless>>
  BY <1>1, <1>2, <1>3
<1>4. CASE SeedFromRest
  BY <1>2, <1>4 DEF SeedFromRest
<1>5. CASE ReceiveFirst
  BY <1>2, <1>5 DEF ReceiveFirst
<1>6. CASE ReceiveWholeBook
  BY <1>2, <1>6 DEF ReceiveWholeBook
<1>7. CASE ReceiveChanges
  <2>1. /\ session = "streaming" /\ venue # "gravity" /\ ~Ignored /\ Undelivered # {}
        /\ local # NoBook \/ headless
        /\ Accepts(NextCut)
        /\ local' = WithChanges(local, NextCut) /\ headless' = headless
    BY <1>7 DEF ReceiveChanges, ChangesDue
  <2>2. local'.id = NextCut
    BY <2>1 DEF WithChanges
  <2>3. CASE venue = "risex"
    BY <1>2, <2>1, <2>2, <2>3 DEF Accepts, ChecksumFits
  <2>4. CASE venue = "lighter" /\ ~headless
    <3>1. local # NoBook /\ local.book = TruthAt(local.id)
      BY <2>1, <2>4 DEF DetectsGaps
    <3>2. /\ NextCut \in cuts /\ PreviousCut(NextCut) = local.id
          /\ local.id \in Nat /\ NextCut \in Nat /\ local.id <= NextCut
      <4>1. NextCut \in cuts /\ NextCut \in Nat /\ PreviousCut(NextCut) = sent /\ sent < NextCut
        BY <2>1, NextCutFacts, MaxIdAssumption DEF StreamTyped
      <4>2. PreviousCut(NextCut) = local.id
        BY <2>1, <2>4, <3>1 DEF Accepts, NonceFits
      <4>3. sent \in Nat
        BY MaxIdAssumption DEF StreamTyped, FeedTypeOK
      <4>4. QED
        BY <4>1, <4>2, <4>3
    <3>3. ASSUME NEW l \in Levels
          PROVE  WithChanges(local, NextCut).book[l] = TruthAt(NextCut)[l]
      <4>1. WithChanges(local, NextCut).book[l]
              = IF l \in Touched(NextCut) THEN UpdateLevels(NextCut)[l] ELSE local.book[l]
        BY DEF WithChanges
      <4>2. CASE l \in Touched(NextCut)
        BY <3>2, <4>1, <4>2, TouchedFacts DEF StreamTyped
      <4>3. CASE l \notin Touched(NextCut)
        <5>1. \A i \in local.id + 1 .. NextCut : ~Touches(i, l)
          BY <3>2, <4>3, TouchedFacts DEF StreamTyped
        <5>2. TruthAt(NextCut)[l] = TruthAt(local.id)[l]
          BY <3>2, <5>1, TruthStable
        <5>3. QED
          BY <3>1, <4>1, <4>3, <5>2
      <4>4. QED
        BY <4>2, <4>3
    <3>4. WithChanges(local, NextCut).book = TruthAt(NextCut)
      BY <3>3 DEF WithChanges, TruthAt
    <3>5. QED
      BY <1>2, <2>1, <2>2, <3>4
  <2>5. QED
    BY <1>1, <2>1, <2>3, <2>4 DEF DetectsGaps
<1>8. CASE ResetSymbol
  BY <1>1, <1>8 DEF ResetSymbol, BookDropped
<1>9. CASE LoseFirst
  BY <1>1, <1>9 DEF LoseFirst, FirstDue
<1>10. CASE Connect
  <2>1. CASE venue = "o1"
    BY <1>1, <1>10, <2>1 DEF Connect, DetectsGaps
  <2>2. CASE venue # "o1"
    BY <1>1, <1>10, <2>2 DEF Connect, Opens, InStep
  <2>3. QED
    BY <2>1, <2>2
<1>11. QED
  BY <1>3, <1>4, <1>5, <1>6, <1>7, <1>8, <1>9, <1>10
  DEF Next, SessionStep, Receive, Tick, ReceiveBroken, LoseFrame, ConnectionLost,
      connVars, vars

Floor == IF state.cached # NoBook THEN state.cached.id ELSE PreviousCut(subscribedAt + 1)

LEMMA SameBooks ==
  /\ Cache!Nothing = NoBook
  /\ Cache!Ids = Ids
  /\ \A i : Cache!Entry(i) = [book |-> TruthAt(i), id |-> i]
BY DEF Cache!Nothing, NoBook, Cache!EmptyBook, EmptyBook, Cache!Levels, Levels, Cache!Sides,
       Sides, Cache!Ids, Ids, Cache!Entry, Cache!TruthAt, TruthAt, Cache!Touches, Touches,
       Cache!Latest, Latest

Shown == IF Served /\ DetectsGaps THEN state.cached ELSE NoBook

(* As long as the ids do not go back and what is shown is true, a step is   *)
(* one of OrderbookCache.                                                   *)
LEMMA ShowOrHide ==
  ASSUME UNCHANGED <<history, cuts>>, state'.generation = state.generation,
         Floor' \in Ids, Floor' >= Floor,
         Served' /\ DetectsGaps' =>
             state'.cached = [book |-> TruthAt(state'.cached.id), id |-> state'.cached.id]
  PROVE  Cache!Show \/ Cache!Hide
<1>1. CASE Served' /\ DetectsGaps'
  <2>1. Floor' = state'.cached.id
    BY <1>1 DEF Served, Floor
  <2>2. Cache!Entry(Floor') = state'.cached
    BY <1>1, <2>1, SameBooks
  <2>3. \E i \in Cache!Ids : i >= Floor /\ Shown' = Cache!Entry(i) /\ Floor' = i
    BY <1>1, <2>2, SameBooks DEF Shown
  <2>4. QED
    BY <2>3 DEF Cache!Show, Floor, Shown, Cache!feedVars
<1>2. CASE ~(Served' /\ DetectsGaps')
  <2>1. Shown' = Cache!Nothing
    BY <1>2, NoBookFixed, SameBooks DEF Shown
  <2>2. Floor' \in {i \in Cache!Ids : i >= Floor}
    BY SameBooks
  <2>3. QED
    BY <2>1, <2>2 DEF Cache!Hide, Floor, Shown, Cache!feedVars
<1>3. QED
  BY <1>1, <1>2

(* The id below which no book may be shown is one of the feed.              *)
LEMMA FloorTyped == StreamTyped => Floor \in Ids
BY SubscribedCut DEF StreamTyped, Floor

(* While the generation lasts the ids of what is cached do not go back.     *)
LEMMA FloorRises ==
  ASSUME StreamTyped, StreamTyped', InStep, Next, ~ResetSymbol
  PROVE  state'.generation = state.generation /\ Floor' >= Floor
<1> USE DEF StreamTyped
<1>1. /\ NoBook' = NoBook /\ \A i : PreviousCut(i)' = PreviousCut(i)
  BY FeedUntouched, FeedStays, NoBookFixed DEF feedVars
<1>2. Floor \in Nat /\ sent \in Nat
  BY FloorTyped, MaxIdAssumption DEF FeedTypeOK, Ids
<1>3. (PreviousCut(subscribedAt + 1))' = PreviousCut(subscribedAt' + 1)
  BY <1>1
<1>4. CASE UNCHANGED <<state, subscribedAt>>
  BY <1>1, <1>2, <1>3, <1>4 DEF Floor
<1>5. CASE Connect
  <2>1. /\ state.cached = NoBook /\ state'.cached = NoBook /\ subscribedAt' = now
        /\ state'.generation = state.generation
    BY <1>1, <1>5 DEF Connect, MarkConnected, Opens, InStep
  <2>2. PreviousCut(subscribedAt + 1) <= PreviousCut(now + 1)
    BY SubscribedLater DEF InStep
  <2>3. QED
    BY <1>1, <1>2, <1>3, <2>1, <2>2 DEF Floor
<1>6. CASE ReceiveFirst
  <2>1. /\ local' = [book |-> TruthAt(sent), id |-> sent] /\ sent \in Ids
        /\ state' = Yielded(local') /\ session = "streaming" /\ local = NoBook
    BY <1>6, MaxIdAssumption DEF ReceiveFirst, FirstDue, FeedTypeOK, Ids
  <2>2. local' # NoBook /\ local'.id = sent
    BY <2>1, BookWithId
  <2>3. /\ state'.generation = state.generation /\ state'.cached = local'
        /\ state.cached = NoBook
    BY <2>1 DEF Yielded
  <2>4. QED
    BY <1>1, <1>2, <2>1, <2>2, <2>3 DEF Floor, InStep
<1>7. CASE ReceiveWholeBook \/ ReceiveChanges
  <2>1. /\ Undelivered # {} /\ session = "streaming"
        /\ state' = Yielded(local')
    BY <1>7 DEF ReceiveWholeBook, ReceiveChanges, ChangesDue
  <2>2. \E b : local' = [book |-> b, id |-> NextCut]
    BY <1>7 DEF ReceiveWholeBook, ReceiveChanges, WithChanges
  <2>3. NextCut \in cuts /\ NextCut \in Ids /\ sent < NextCut /\ NextCut \in Nat
    BY <2>1, NextCutFacts, MaxIdAssumption
  <2>4. local'.id = NextCut /\ local' # NoBook
    BY <2>2, <2>3, BookWithId
  <2>5. state'.generation = state.generation /\ state'.cached = local'
    BY <2>1 DEF Yielded
  <2>6. CASE state.cached = NoBook
    BY <1>1, <1>2, <2>1, <2>3, <2>4, <2>5, <2>6 DEF Floor, InStep
  <2>7. CASE state.cached # NoBook
    <3>1. state.cached = local /\ local.id < NextCut
      BY <2>1, <2>3, <2>7 DEF InStep
    <3>2. QED
      BY <1>1, <1>2, <2>3, <2>4, <2>5, <2>7, <3>1 DEF Floor
  <2>8. QED
    BY <2>6, <2>7
<1>8. QED
  BY <1>4, <1>5, <1>6, <1>7
  DEF Next, SessionStep, Receive, Tick, SeedFromRest, ReceiveBroken, LoseFirst, LoseFrame,
      ConnectionLost, connVars

(* The adapters of lighter (nonces), risex (checksums) and the venues that  *)
(* send whole books keep the promise of OrderbookCache, whatever frames the *)
(* exchange leaves out, save lighter's first one: a reader is shown nothing or the exchange's book,   *)
(* and never an earlier one under one connection.                           *)
THEOREM VenuesKeepCachePromise == Spec => KeepsCachePromise
<1> DEFINE Inv == StreamTyped /\ InStep /\ TrueWhereGapsAreDetected
<1>0. StreamTyped' => Floor' \in Ids
  <2>1. (StreamTyped => Floor \in Ids)'
    BY FloorTyped, PTL
  <2>2. QED
    BY <2>1 DEF Ids
<1>1. Init => Cache!CacheInit
  <2> SUFFICES ASSUME Init PROVE Cache!CacheInit
    OBVIOUS
  <2>1. StreamTyped /\ subscribedAt = 0 /\ state.generation = 0 /\ ~Served /\ state.cached = NoBook
    BY InitInStep DEF Init, StreamInit, Served
  <2>2. PreviousCut(0 + 1) = 0
    <3>1. 0 \in Ids /\ FeedTypeOK
      BY <2>1, MaxIdAssumption DEF StreamTyped, Ids
    <3>2. PreviousCut(0 + 1) \in Ids /\ PreviousCut(0 + 1) <= 0
      BY <3>1, SubscribedCut
    <3>3. QED
      BY <3>2, MaxIdAssumption DEF Ids
  <2>3. QED
    BY <2>1, <2>2, SameBooks DEF Cache!CacheInit
<1>2. Inv /\ Inv' /\ [Next]_vars
        => [Cache!Show \/ Cache!Hide \/ Cache!Disconnect]_(Cache!cacheVars)
  <2> SUFFICES ASSUME Inv, Inv', [Next]_vars
               PROVE  [Cache!Show \/ Cache!Hide \/ Cache!Disconnect]_(Cache!cacheVars)
    OBVIOUS
  <2>1. CASE ResetSymbol
    <3>1. /\ UNCHANGED <<history, cuts>>
          /\ state'.generation = state.generation + 1
          /\ state'.cached = NoBook /\ ~Served'
      BY <2>1, NoBookFixed DEF ResetSymbol, Served, feedVars
    <3>2. Floor' \in Cache!Ids /\ Floor' = (PreviousCut(subscribedAt + 1))'
      <4>1. QED
        BY <1>0, <3>1, NoBookFixed, SameBooks DEF Floor
    <3>3. Cache!Disconnect
      BY <3>1, <3>2, NoBookFixed, SameBooks DEF Cache!Disconnect, Cache!feedVars, Floor
    <3>4. QED
      BY <3>3
  <2>2. CASE Next /\ ~ResetSymbol
    <3>1. UNCHANGED <<history, cuts>>
      BY <2>2, FeedUntouched
    <3>2. ASSUME Served', DetectsGaps'
          PROVE  state'.cached = [book |-> TruthAt(state'.cached.id), id |-> state'.cached.id]
      <4>1. state'.cached = local' /\ local' # NoBook
        BY <3>2, NoBookFixed DEF Served, StreamTyped
      <4>2. local' = [book |-> local'.book, id |-> local'.id]
        BY <4>1, NoBookFixed DEF StreamTyped
      <4>3. local'.book = TruthAt(local'.id)
        BY <3>1, <3>2, <4>1, NoBookFixed DEF TrueWhereGapsAreDetected, TruthAt, Touches
      <4>4. QED
        BY <4>1, <4>2, <4>3
    <3>3. Floor' \in Ids
      BY <1>0
    <3>4. QED
      BY <2>2, <3>1, <3>2, <3>3, FloorRises, ShowOrHide
  <2>3. CASE UNCHANGED vars
    <3>1. UNCHANGED <<history, cuts, state, subscribedAt, venue, headless>>
      BY <2>3 DEF vars
    <3>2. UNCHANGED Cache!cacheVars
      BY <3>1, NoBookFixed DEF Cache!cacheVars, Served, DetectsGaps, PreviousCut
    <3>3. QED
      BY <3>2
  <2>4. QED
    BY <2>1, <2>2, <2>3
<1>3. StreamTyped /\ InStep /\ TrueWhereGapsAreDetected /\ [Next]_vars => TrueWhereGapsAreDetected'
  BY StepTrue
<1>4. QED
  BY <1>1, <1>2, <1>3, AlwaysInStep, InitTrue, PTL DEF Spec, KeepsCachePromise, Cache!CacheSpec

-----------------------------------------------------------------------------
(* What ends a session.                                                     *)

(* A lighter book that is behind what was delivered has missed a change.    *)
BehindOnlyByLosses ==
    venue = "lighter" /\ session = "streaming" /\ local # NoBook /\ local.id # sent
        => missed # {}

LEMMA StepBehind ==
  ASSUME StreamTyped, InStep, BehindOnlyByLosses, [Next]_vars
  PROVE  BehindOnlyByLosses'
<1> USE DEF BehindOnlyByLosses
<1>1. venue' = venue /\ NoBook' = NoBook
  BY FeedUntouched, NoBookFixed
<1>2. CASE UNCHANGED <<session, sent, local, missed>>
  BY <1>1, <1>2
<1>3. CASE SeedFromRest \/ ResetSymbol \/ ReceiveBroken \/ ConnectionLost
  BY <1>1, <1>3 DEF SeedFromRest, ResetSymbol, ReceiveBroken, ConnectionLost
<1>4. CASE Connect
  BY <1>1, <1>4 DEF Connect, Opens, InStep
<1>5. CASE ReceiveFirst
  BY <1>1, <1>5 DEF ReceiveFirst
<1>6. CASE ReceiveWholeBook \/ ReceiveChanges
  <2>1. sent' = NextCut /\ \E b : local' = [book |-> b, id |-> NextCut]
    BY <1>6 DEF ReceiveWholeBook, ReceiveChanges, WithChanges
  <2>2. local'.id = sent'
    BY <2>1
  <2>3. QED
    BY <2>2
<1>7. CASE LoseFirst
  BY <1>1, <1>7 DEF LoseFirst, FirstDue
<1>8. CASE LoseFrame
  <2>1. Undelivered # {} /\ missed' = missed \cup Touched(NextCut)
    BY <1>8 DEF LoseFrame, ChangesDue
  <2>2. Touched(NextCut) # {}
    BY <2>1, NextCutFacts, CutsTouch DEF StreamTyped
  <2>3. QED
    BY <2>1, <2>2
<1>9. QED
  BY <1>2, <1>3, <1>4, <1>5, <1>6, <1>7, <1>8
  DEF Next, SessionStep, Receive, Tick, connVars, vars

(* An adapter refuses a frame only if its session was not given another: a  *)
(* nonce that does not fit has a lost frame before it, and so does a book   *)
(* that the checksum does not match.                                        *)
THEOREM RestartsHaveACause == Spec => OnlyLossesRestart
<1>1. StreamTyped /\ InStep /\ OnlyMissedDiffer /\ BehindOnlyByLosses /\ [Next]_vars
        => [session = "streaming" /\ session' = "failed" /\ failures' = failures
              => missed # {}]_vars
  <2> SUFFICES ASSUME StreamTyped, InStep, OnlyMissedDiffer, BehindOnlyByLosses, ReceiveBroken
               PROVE  missed # {}
    BY DEF Next, SessionStep, Receive, Tick, SeedFromRest, Connect, ReceiveFirst,
           ReceiveWholeBook, ReceiveChanges, ResetSymbol, LoseFirst, LoseFrame,
           ConnectionLost, connVars, StreamTyped
  <2>1. /\ session = "streaming" /\ Undelivered # {} /\ ~Accepts(NextCut) /\ ~Ignored
        /\ local # NoBook \/ headless
    BY DEF ReceiveBroken, ChangesDue
  <2>2. venue \in {"lighter", "risex"}
    BY <2>1 DEF Accepts
  <2>3. CASE venue = "lighter"
    <3>1. local # NoBook /\ PreviousCut(NextCut) # local.id
      BY <2>1, <2>3 DEF Accepts, NonceFits
    <3>2. PreviousCut(NextCut) = sent
      BY <2>1, NextCutFacts DEF StreamTyped
    <3>3. QED
      BY <2>1, <2>3, <3>1, <3>2 DEF BehindOnlyByLosses
  <2>4. CASE venue = "risex"
    <3>1. local # NoBook /\ WithChanges(local, NextCut).book # TruthAt(NextCut)
      BY <2>1, <2>4 DEF Accepts, ChecksumFits, Ignored
    <3>2. PICK l \in Levels : WithChanges(local, NextCut).book[l] # TruthAt(NextCut)[l]
      BY <3>1 DEF WithChanges, TruthAt
    <3>3. l \in missed
      BY <2>1, <3>1, <3>2, ChangesRepair DEF OnlyMissedDiffer
    <3>4. QED
      BY <3>3
  <2>5. QED
    BY <2>2, <2>3, <2>4
<1>2. Init => BehindOnlyByLosses
  BY DEF Init, StreamInit, BehindOnlyByLosses
<1>3. StreamTyped /\ InStep /\ BehindOnlyByLosses /\ [Next]_vars => BehindOnlyByLosses'
  BY StepBehind
<1>4. /\ StreamTyped /\ StreamTyped' /\ InStep /\ InStep' /\ OnlyMissedDiffer /\ [Next]_vars
        => OnlyMissedDiffer'
  BY StepOnlyMissed
<1>5. QED
  BY <1>1, <1>2, <1>3, <1>4, AlwaysInStep, InitOnlyMissed, PTL DEF Spec, OnlyLossesRestart
=============================================================================
