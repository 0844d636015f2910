-------------------------- MODULE OrderbookProofs --------------------------
(***************************************************************************)
(* Proofs about LocalOrderbook, for every price grid, every feed, every     *)
(* buffer size and every delivery of the updates, and about DeltaSession,   *)
(* which drives one, for any number of connections and refills.             *)
(***************************************************************************)
EXTENDS DeltaSession, ExchangeFeedProofs, SequenceTheorems, FiniteSetTheorems

-----------------------------------------------------------------------------
(* LocalOrderbook                                                           *)

(* The feed is fixed: primed and unprimed views of it agree.                *)
LEMMA FeedFixed ==
  ASSUME UNCHANGED feedVars
  PROVE  /\ Updates' = Updates
         /\ FeedTypeOK' <=> FeedTypeOK
         /\ TruthAt(lastUpdateId)' = TruthAt(lastUpdateId')
BY FeedStays DEF feedVars, TruthAt, Touches

-----------------------------------------------------------------------------
(* Type correctness.                                                        *)

(* An applied update leaves a well-formed book at the id of the update.     *)
LEMMA AppliedType ==
  ASSUME TypeOK, NEW e \in Updates, Applied(e)
  PROVE  book' \in Books /\ lastUpdateId' \in Ids
<1>1. FeedTypeOK /\ book \in Books
  BY DEF TypeOK
<1>2. lastUpdateId' \in Ids
  BY <1>1, UpdateFacts, MaxIdAssumption DEF Applied, Ids
<1>3. ASSUME NEW l \in Levels
      PROVE  WithLevels(book, e.levels)[l] \in Qty
  <2>1. e.levels[l] \in Qty \cup {Untouched} /\ book[l] \in Qty
    BY <1>1, UpdateFacts DEF Books
  <2>2. QED
    BY <2>1 DEF WithLevels
<1>4. WithLevels(book, e.levels) \in Books
  BY <1>3 DEF WithLevels, Books
<1>5. QED
  BY <1>2, <1>4 DEF Applied

(* The ring buffer stays a sequence of updates within its bound.            *)
LEMMA PushedType ==
  ASSUME TypeOK, NEW e \in Updates
  PROVE  Pushed(e) \in Seq(Updates) /\ Len(Pushed(e)) <= BufferSize
<1> USE BufferSizeAssumption
<1>1. buffer \in Seq(Updates) /\ Len(buffer) \in Nat /\ Len(buffer) <= BufferSize
  BY LenProperties DEF TypeOK
<1>2. CASE Len(buffer) >= BufferSize
  <2>1. buffer # <<>>
    BY <1>1, <1>2
  <2>2. Tail(buffer) \in Seq(Updates) /\ Len(Tail(buffer)) = Len(buffer) - 1
    BY <1>1, <2>1, HeadTailProperties
  <2>3. Append(Tail(buffer), e) \in Seq(Updates)
        /\ Len(Append(Tail(buffer), e)) = Len(buffer)
    BY <1>1, <2>2
  <2>4. QED
    BY <1>1, <1>2, <2>3 DEF Pushed
<1>3. CASE ~(Len(buffer) >= BufferSize)
  <2>1. Append(buffer, e) \in Seq(Updates)
        /\ Len(Append(buffer, e)) = Len(buffer) + 1
    BY <1>1
  <2>2. QED
    BY <1>1, <1>3, <2>1 DEF Pushed
<1>4. QED
  BY <1>2, <1>3

(* The replayed updates are buffered updates of the feed.                   *)
LEMMA ReplayedFacts ==
  ASSUME TypeOK, NEW s \in Ids
  PROVE  /\ Len(buffer) \in Nat
         /\ Replayed(s) \subseteq 0 .. Len(buffer)
         /\ \A k \in Replayed(s) : buffer[k] \in Updates /\ buffer[k].final >= s
<1>1. buffer \in Seq(Updates)
  BY DEF TypeOK
<1>2. Len(buffer) \in Nat /\ DOMAIN buffer = 1 .. Len(buffer)
  BY <1>1, LenProperties
<1>3. \A k \in 1 .. Len(buffer) : buffer[k] \in Updates
  BY <1>1, ElementOfSeq
<1>4. QED
  BY <1>2, <1>3 DEF Replayed

(* The id after the replay is an id of the feed and the last replayed one.  *)
LEMMA IdAfterReplayFacts ==
  ASSUME TypeOK, NEW s \in Ids
  PROVE  /\ IdAfterReplay(s) \in Ids
         /\ IdAfterReplay(s) >= s
         /\ Replayed(s) # {} =>
               /\ Latest(Replayed(s)) \in Replayed(s)
               /\ IdAfterReplay(s) = buffer[Latest(Replayed(s))].final
               /\ \A k \in Replayed(s) : k <= Latest(Replayed(s))
<1>1. CASE Replayed(s) = {}
  BY <1>1, MaxIdAssumption DEF IdAfterReplay, Ids
<1>2. CASE Replayed(s) # {}
  <2>1. Latest(Replayed(s)) \in Replayed(s)
        /\ \A k \in Replayed(s) : k <= Latest(Replayed(s))
    BY <1>2, ReplayedFacts, LatestIsMax
  <2>2. IdAfterReplay(s) = buffer[Latest(Replayed(s))].final
    BY <1>2 DEF IdAfterReplay
  <2>3. buffer[Latest(Replayed(s))] \in Updates /\ FeedTypeOK
        /\ buffer[Latest(Replayed(s))].final >= s
    BY <2>1, ReplayedFacts DEF TypeOK
  <2>4. buffer[Latest(Replayed(s))].final \in Ids
    BY <2>3, UpdateFacts, MaxIdAssumption DEF Ids
  <2>5. QED
    BY <1>2, <2>1, <2>2, <2>3, <2>4
<1>3. QED
  BY <1>1, <1>2

(* A level after the replay: what the last replayed update to mention it    *)
(* says, or the snapshot's quantity when none does.                         *)
LEMMA ReplayedLevel ==
  ASSUME TypeOK, NEW s \in Ids, NEW b, NEW l \in Levels
  PROVE  \/ /\ \A k \in Replayed(s) : buffer[k].levels[l] = Untouched
            /\ AfterReplay(b, s)[l] = b[l]
         \/ \E k \in Replayed(s) :
               /\ buffer[k].levels[l] # Untouched
               /\ AfterReplay(b, s)[l] = buffer[k].levels[l]
               /\ \A j \in Replayed(s) : buffer[j].levels[l] # Untouched => j <= k
<1> DEFINE M == {k \in Replayed(s) : buffer[k].levels[l] # Untouched}
<1>1. AfterReplay(b, s)[l] = IF M = {} THEN b[l] ELSE buffer[Latest(M)].levels[l]
  BY DEF AfterReplay
<1>2. CASE M = {}
  BY <1>1, <1>2
<1>3. CASE M # {}
  <2>1. M \subseteq 0 .. Len(buffer) /\ Len(buffer) \in Nat
    BY ReplayedFacts
  <2>2. Latest(M) \in M /\ \A j \in M : j <= Latest(M)
    <3> HIDE DEF M
    <3>1. QED
      BY <1>3, <2>1, LatestIsMax
  <2>3. QED
    BY <1>1, <1>3, <2>2
<1>4. QED
  BY <1>2, <1>3

(* A snapshot with its replay leaves a well-formed book and id.             *)
LEMMA SnapshotType ==
  ASSUME TypeOK, NEW s \in Ids, ApplySnapshot(TruthAt(s), s)
  PROVE  book' \in Books /\ lastUpdateId' \in Ids
<1>1. ASSUME NEW l \in Levels
      PROVE  AfterReplay(TruthAt(s), s)[l] \in Qty
  <2>1. TruthAt(s)[l] \in Qty
    BY TruthType DEF TypeOK, Books
  <2>2. ASSUME NEW k \in Replayed(s)
        PROVE  buffer[k].levels[l] \in Qty \cup {Untouched}
    <3>1. buffer[k] \in Updates /\ FeedTypeOK
      BY ReplayedFacts DEF TypeOK
    <3>2. QED
      BY <3>1, UpdateFacts
  <2>3. QED
    BY <2>1, <2>2, ReplayedLevel
<1>2. AfterReplay(TruthAt(s), s) \in Books
  BY <1>1 DEF AfterReplay, Books
<1>3. QED
  BY <1>2, IdAfterReplayFacts DEF ApplySnapshot

(* Type correctness: every field of LocalOrderbook keeps its type, and the  *)
(* update buffer never holds more than update_buffer_size updates.          *)
THEOREM TypeCorrect == Spec => []TypeOK
<1>1. Init => TypeOK
  <2> SUFFICES ASSUME Init PROVE TypeOK
    OBVIOUS
  <2>1. FeedTypeOK
    BY DEF Init, FeedInit, FeedTypeOK
  <2>2. book \in Books /\ lastUpdateId \in Ids
    BY MaxQtyAssumption, MaxIdAssumption
    DEF Init, EmptyInit, EmptyBook, Books, Qty, Ids
  <2>3. buffer \in Seq(Updates) /\ Len(buffer) <= BufferSize
    BY BufferSizeAssumption DEF Init, EmptyInit
  <2>4. QED
    BY <2>1, <2>2, <2>3 DEF Init, EmptyInit, TypeOK
<1>2. TypeOK /\ [Next]_vars => TypeOK'
  <2> SUFFICES ASSUME TypeOK, [Next]_vars PROVE TypeOK'
    OBVIOUS
  <2>1. UNCHANGED feedVars
    BY DEF Next, DeltaStep, SnapshotStep, ResetStep, vars, feedVars
  <2>2. Updates' = Updates /\ FeedTypeOK'
    BY <2>1, FeedFixed DEF TypeOK
  <2>3. ASSUME NEW e \in Updates, ApplyDelta(e)
        PROVE  TypeOK'
    <3>1. buffer' = Pushed(e)
      BY <2>3 DEF ApplyDelta, Buffered, Rejected, Applied
    <3>2. buffer' \in Seq(Updates) /\ Len(buffer') <= BufferSize
      BY <3>1, PushedType
    <3>3. CASE Buffered(e)
      BY <2>2, <3>2, <3>3 DEF Buffered, TypeOK
    <3>4. CASE Rejected(e)
      BY <2>2, <3>2, <3>4 DEF Rejected, TypeOK
    <3>5. CASE Applied(e)
      <4>1. book' \in Books /\ lastUpdateId' \in Ids
        BY <3>5, AppliedType
      <4>2. crossed' \in BOOLEAN /\ bootstrapPending' \in BOOLEAN /\ tainted' \in BOOLEAN
        BY <3>5 DEF Applied, LooksCrossed, Skips, TypeOK
      <4>3. QED
        BY <2>2, <3>2, <4>1, <4>2 DEF TypeOK
    <3>6. QED
      BY <2>3, <3>3, <3>4, <3>5 DEF ApplyDelta
  <2>4. ASSUME NEW s \in Ids, ApplySnapshot(TruthAt(s), s)
        PROVE  TypeOK'
    <3>1. book' \in Books /\ lastUpdateId' \in Ids
      BY <2>4, SnapshotType
    <3>2. crossed' \in BOOLEAN /\ bootstrapPending' \in BOOLEAN /\ tainted' \in BOOLEAN
      BY <2>4, SeamAssumption DEF ApplySnapshot, SeamExempt, LooksCrossed, Bridged
    <3>3. buffer' \in Seq(Updates) /\ Len(buffer') <= BufferSize
      BY <2>4, BufferSizeAssumption DEF ApplySnapshot
    <3>4. QED
      BY <2>2, <3>1, <3>2, <3>3 DEF TypeOK
  <2>5. CASE Reset
    <3>1. book' \in Books /\ lastUpdateId' \in Ids
      BY <2>5, MaxQtyAssumption, MaxIdAssumption DEF Reset, EmptyBook, Books, Qty, Ids
    <3>2. buffer' \in Seq(Updates) /\ Len(buffer') <= BufferSize
      BY <2>5, BufferSizeAssumption DEF Reset
    <3>3. QED
      BY <2>2, <2>5, <3>1, <3>2 DEF Reset, TypeOK
  <2>6. CASE UNCHANGED vars
    BY <2>2, <2>6 DEF vars, TypeOK
  <2>7. QED
    BY <2>3, <2>4, <2>5, <2>6 DEF Next, DeltaStep, SnapshotStep, ResetStep
<1>3. QED
  BY <1>1, <1>2, PTL DEF Spec

-----------------------------------------------------------------------------
(* The local book is the exchange's book.                                   *)

(* A live update that skips nothing takes a true book to the true book.     *)
LEMMA AppliedSyncs ==
  ASSUME TypeOK, NEW e \in Updates, Applied(e), ~Skips(e),
         book = TruthAt(lastUpdateId)
  PROVE  book' = TruthAt(e.final)
<1>1. FeedTypeOK /\ lastUpdateId \in Nat
  BY MaxIdAssumption DEF TypeOK, Ids
<1>2. e.final \in Nat /\ PreviousCut(e.final) \in Nat
  BY <1>1, UpdateFacts, MaxIdAssumption
<1>3. lastUpdateId <= e.final
  BY <1>1, <1>2 DEF Applied, Stale
<1>4. PreviousCut(e.final) <= lastUpdateId
  BY <1>1, <1>2 DEF Skips
<1>5. ASSUME NEW l \in Levels
      PROVE  WithLevels(book, e.levels)[l] = TruthAt(e.final)[l]
  <2>1. CASE e.levels[l] # Untouched
    <3>1. e.levels[l] = TruthAt(e.final)[l]
      BY <1>1, <2>1, UpdateFacts
    <3>2. QED
      BY <2>1, <3>1 DEF WithLevels
  <2>2. CASE e.levels[l] = Untouched
    <3>1. \A i \in PreviousCut(e.final) + 1 .. e.final : ~Touches(i, l)
      BY <1>1, <2>2, UpdateFacts
    <3>2. \A i \in lastUpdateId + 1 .. e.final : ~Touches(i, l)
      BY <1>1, <1>2, <1>4, <3>1
    <3>3. TruthAt(e.final)[l] = TruthAt(lastUpdateId)[l]
      BY <1>1, <1>2, <1>3, <3>2, TruthStable
    <3>4. QED
      BY <2>2, <3>3 DEF WithLevels
  <2>3. QED
    BY <2>1, <2>2
<1>6. WithLevels(book, e.levels) = TruthAt(e.final)
  BY <1>5 DEF WithLevels, TruthAt
<1>7. QED
  BY <1>6 DEF Applied

(* A replay that bridges the snapshot and its last update takes the         *)
(* snapshot's book to the true book at that update.                         *)
LEMMA ReplaySyncs ==
  ASSUME TypeOK, NEW s \in Ids, Bridged(s)
  PROVE  AfterReplay(TruthAt(s), s) = TruthAt(IdAfterReplay(s))
<1> DEFINE last == IdAfterReplay(s)
<1>1. FeedTypeOK /\ s \in Nat /\ last \in Nat /\ s <= last
  BY IdAfterReplayFacts, MaxIdAssumption DEF TypeOK, Ids
<1>2. ASSUME NEW k \in Replayed(s)
      PROVE  /\ k \in Nat
             /\ buffer[k] \in Updates
             /\ buffer[k].final \in Nat
             /\ buffer[k].final >= s
             /\ buffer[k].final <= last
             /\ PreviousCut(buffer[k].final) \in Nat
  <2>1. k \in Nat /\ buffer[k] \in Updates /\ buffer[k].final >= s
    BY ReplayedFacts
  <2>2. buffer[k].final \in Nat /\ PreviousCut(buffer[k].final) \in Nat
    BY <1>1, <2>1, UpdateFacts, MaxIdAssumption
  <2>3. buffer[k].final <= last
    <3>1. Latest(Replayed(s)) \in Replayed(s) /\ k <= Latest(Replayed(s))
          /\ last = buffer[Latest(Replayed(s))].final
      BY IdAfterReplayFacts
    <3>2. CASE k = Latest(Replayed(s))
      BY <2>2, <3>1, <3>2
    <3>3. CASE k # Latest(Replayed(s))
      <4>1. Latest(Replayed(s)) \in Nat
        BY <3>1, ReplayedFacts
      <4>2. k < Latest(Replayed(s))
        BY <2>1, <3>1, <3>3, <4>1
      <4>3. buffer[k].final < buffer[Latest(Replayed(s))].final
        BY <3>1, <4>2 DEF Bridged
      <4>4. QED
        BY <1>1, <2>2, <3>1, <4>3
    <3>4. QED
      BY <3>2, <3>3
  <2>4. QED
    BY <2>1, <2>2, <2>3
<1>3. ASSUME NEW i \in s + 1 .. last
      PROVE  \E k \in Replayed(s) : i \in PreviousCut(buffer[k].final) + 1 .. buffer[k].final
  BY <1>3 DEF Bridged
<1>4. ASSUME NEW l \in Levels
      PROVE  AfterReplay(TruthAt(s), s)[l] = TruthAt(last)[l]
  <2>1. CASE /\ \A k \in Replayed(s) : buffer[k].levels[l] = Untouched
             /\ AfterReplay(TruthAt(s), s)[l] = TruthAt(s)[l]
    <3>1. ASSUME NEW i \in s + 1 .. last, Touches(i, l)
          PROVE  FALSE
      <4>1. PICK k \in Replayed(s) : i \in PreviousCut(buffer[k].final) + 1 .. buffer[k].final
        BY <1>3
      <4>2. buffer[k].levels[l] # Untouched
        BY <1>1, <1>2, <3>1, <4>1, UpdateFacts
      <4>3. QED
        BY <2>1, <4>2
    <3>2. TruthAt(last)[l] = TruthAt(s)[l]
      BY <1>1, <3>1, TruthStable
    <3>3. QED
      BY <2>1, <3>2
  <2>2. CASE \E k \in Replayed(s) :
               /\ buffer[k].levels[l] # Untouched
               /\ AfterReplay(TruthAt(s), s)[l] = buffer[k].levels[l]
               /\ \A j \in Replayed(s) : buffer[j].levels[l] # Untouched => j <= k
    <3>1. PICK k \in Replayed(s) :
               /\ buffer[k].levels[l] # Untouched
               /\ AfterReplay(TruthAt(s), s)[l] = buffer[k].levels[l]
               /\ \A j \in Replayed(s) : buffer[j].levels[l] # Untouched => j <= k
      BY <2>2
    <3>2. AfterReplay(TruthAt(s), s)[l] = TruthAt(buffer[k].final)[l]
      BY <1>1, <1>2, <3>1, UpdateFacts
    <3>3. ASSUME NEW i \in buffer[k].final + 1 .. last, Touches(i, l)
          PROVE  FALSE
      <4>1. i \in s + 1 .. last
        BY <1>1, <1>2, <3>3
      <4>2. PICK j \in Replayed(s) : i \in PreviousCut(buffer[j].final) + 1 .. buffer[j].final
        BY <1>3, <4>1
      <4>3. buffer[j].levels[l] # Untouched
        BY <1>1, <1>2, <3>3, <4>2, UpdateFacts
      <4>4. j <= k
        BY <3>1, <4>3
      <4>5. buffer[j].final <= buffer[k].final
        BY <1>2, <4>4 DEF Bridged
      <4>6. i \in Nat /\ i > buffer[k].final /\ i <= buffer[j].final
        BY <1>2, <3>3, <4>2
      <4>7. QED
        BY <1>2, <4>5, <4>6
    <3>4. TruthAt(last)[l] = TruthAt(buffer[k].final)[l]
      BY <1>1, <1>2, <3>3, TruthStable
    <3>5. QED
      BY <3>2, <3>4
  <2>3. QED
    BY <2>1, <2>2, ReplayedLevel
<1>5. QED
  BY <1>4 DEF AfterReplay, TruthAt

(* Whatever the network does with the updates, a book that skipped no       *)
(* change without an error is the exchange's book at last_update_id.        *)
THEOREM BookIsSynced == Spec => []Synced
<1>1. Init => Synced
  BY DEF Init, EmptyInit, Synced, HasSnapshot
<1>2. TypeOK /\ Synced /\ [Next]_vars => Synced'
  <2> SUFFICES ASSUME TypeOK, Synced, [Next]_vars PROVE Synced'
    OBVIOUS
  <2>1. UNCHANGED feedVars
    BY DEF Next, DeltaStep, SnapshotStep, ResetStep, vars, feedVars
  <2>3. SUFFICES ASSUME HasSnapshot', ~tainted'
                 PROVE  book' = TruthAt(lastUpdateId')
    <3>1. TruthAt(lastUpdateId)' = TruthAt(lastUpdateId')
      BY <2>1, FeedFixed
    <3>2. QED
      BY <2>3, <3>1 DEF Synced
  <2>4. ASSUME NEW e \in Updates, ApplyDelta(e)
        PROVE  book' = TruthAt(lastUpdateId')
    <3>1. CASE Buffered(e) \/ Rejected(e)
      BY <2>3, <3>1 DEF Buffered, Rejected, Synced, HasSnapshot
    <3>2. CASE Applied(e)
      <4>1. book = TruthAt(lastUpdateId) /\ ~Skips(e)
        BY <2>3, <3>2 DEF Applied, Synced
      <4>2. lastUpdateId' = e.final
        BY <3>2 DEF Applied
      <4>3. QED
        BY <3>2, <4>1, <4>2, AppliedSyncs
    <3>3. QED
      BY <2>4, <3>1, <3>2 DEF ApplyDelta
  <2>5. ASSUME NEW s \in Ids, ApplySnapshot(TruthAt(s), s)
        PROVE  book' = TruthAt(lastUpdateId')
    <3>1. Bridged(s)
      BY <2>3, <2>5 DEF ApplySnapshot
    <3>2. QED
      BY <2>5, <3>1, ReplaySyncs DEF ApplySnapshot
  <2>6. CASE Reset
    BY <2>3, <2>6 DEF Reset, HasSnapshot
  <2>7. CASE UNCHANGED vars
    BY <2>3, <2>7 DEF vars, Synced, HasSnapshot
  <2>8. QED
    BY <2>4, <2>5, <2>6, <2>7 DEF Next, DeltaStep, SnapshotStep, ResetStep
<1>3. QED
  BY <1>1, <1>2, TypeCorrect, PTL DEF Spec

(* Without tolerate_snapshot_seam the exemption is never armed.             *)
LEMMA ExemptionNeedsSeam ==
  ASSUME TolerateSnapshotSeam = FALSE
  PROVE  Spec => [](bootstrapPending = FALSE)
<1>1. Init => bootstrapPending = FALSE
  BY DEF Init, EmptyInit
<1>2. bootstrapPending = FALSE /\ [Next]_vars => (bootstrapPending = FALSE)'
  BY DEF Next, DeltaStep, SnapshotStep, ResetStep, ApplyDelta, Buffered, Rejected,
         Applied, ApplySnapshot, SeamExempt, Reset, vars
<1>3. QED
  BY <1>1, <1>2, PTL DEF Spec

(* On a feed that fills previous_id, without the seam exemption, every gap  *)
(* in the live updates ends in an error (Rule 4 of apply_delta).            *)
THEOREM LiveGapsDetected ==
  ASSUME TolerateSnapshotSeam = FALSE, PreviousIds = {"chain"}
  PROVE  Spec => LiveGapsAreErrors
<1>1. TypeOK /\ bootstrapPending = FALSE /\ [Next]_vars
        => [tainted' /\ ~tainted => buffer' = <<>>]_vars
  <2> SUFFICES ASSUME TypeOK, bootstrapPending = FALSE, Next, tainted', ~tainted
               PROVE  buffer' = <<>>
    BY DEF vars
  <2>1. ASSUME NEW e \in Updates, ApplyDelta(e)
        PROVE  FALSE
    <3>1. Applied(e)
      BY <2>1 DEF ApplyDelta, Buffered, Rejected
    <3>2. Skips(e) /\ ~ChainBroken(e)
      BY <3>1 DEF Applied
    <3>3. e.previousId = PreviousCut(e.final) /\ PreviousCut(e.final) \in Nat
      BY UpdateFacts, MaxIdAssumption DEF TypeOK
    <3>4. lastUpdateId \in Nat
      BY DEF TypeOK, Ids
    <3>5. QED
      BY <3>2, <3>3, <3>4 DEF Skips, ChainBroken
  <2>2. QED
    BY <2>1 DEF Next, DeltaStep, SnapshotStep, ResetStep, ApplySnapshot, Reset
<1>2. QED
  BY <1>1, TypeCorrect, ExemptionNeedsSeam, PTL DEF Spec, LiveGapsAreErrors

(* No depth update moves the book back to an earlier id: Rule 3 of          *)
(* apply_delta, whatever is redelivered or reordered.                       *)
THEOREM DeltasGoForward == Spec => DeltasNeverRewind
<1>1. TypeOK /\ [Next]_vars => [lastUpdateId' < lastUpdateId => buffer' = <<>>]_vars
  <2> SUFFICES ASSUME TypeOK, Next, lastUpdateId' < lastUpdateId
               PROVE  buffer' = <<>>
    BY DEF vars
  <2>1. lastUpdateId \in Nat
    BY DEF TypeOK, Ids
  <2>2. ASSUME NEW e \in Updates, ApplyDelta(e)
        PROVE  FALSE
    <3>1. e.final \in Nat
      BY UpdateFacts DEF TypeOK
    <3>2. CASE Buffered(e) \/ Rejected(e)
      BY <2>1, <3>2 DEF Buffered, Rejected
    <3>3. CASE Applied(e)
      BY <2>1, <3>1, <3>3 DEF Applied, Stale
    <3>4. QED
      BY <2>2, <3>2, <3>3 DEF ApplyDelta
  <2>3. QED
    BY <2>2 DEF Next, DeltaStep, SnapshotStep, ResetStep, ApplySnapshot, Reset
<1>2. QED
  BY <1>1, TypeCorrect, PTL DEF Spec, DeltasNeverRewind

(* The Rule 4 exemption is armed only on a venue configured for it and only *)
(* while the book still is the snapshot as it came (bootstrap_pending).     *)
THEOREM ExemptionArmedAtSeam == Spec => []ExemptionOnlyAtSeam
<1>1. Init => ExemptionOnlyAtSeam
  BY DEF Init, EmptyInit, ExemptionOnlyAtSeam
<1>2. TypeOK /\ ExemptionOnlyAtSeam /\ [Next]_vars => ExemptionOnlyAtSeam'
  <2> SUFFICES ASSUME TypeOK, ExemptionOnlyAtSeam, [Next]_vars
               PROVE  ExemptionOnlyAtSeam'
    OBVIOUS
  <2>1. UNCHANGED feedVars
    BY DEF Next, DeltaStep, SnapshotStep, ResetStep, vars, feedVars
  <2>2. TruthAt(lastUpdateId)' = TruthAt(lastUpdateId')
    BY <2>1, FeedFixed
  <2>3. ASSUME NEW e \in Updates, ApplyDelta(e)
        PROVE  ExemptionOnlyAtSeam'
    <3>1. CASE Buffered(e)
      BY <2>2, <3>1 DEF Buffered, ExemptionOnlyAtSeam
    <3>2. CASE Rejected(e) \/ Applied(e)
      BY <3>2 DEF Rejected, Applied, ExemptionOnlyAtSeam
    <3>3. QED
      BY <2>3, <3>1, <3>2 DEF ApplyDelta
  <2>4. ASSUME NEW s \in Ids, ApplySnapshot(TruthAt(s), s)
        PROVE  ExemptionOnlyAtSeam'
    <3> SUFFICES ASSUME bootstrapPending'
                 PROVE  TolerateSnapshotSeam /\ book' = TruthAt(lastUpdateId')
      BY <2>2 DEF ExemptionOnlyAtSeam
    <3>1. TolerateSnapshotSeam /\ Replayed(s) = {}
      BY <2>4 DEF ApplySnapshot, SeamExempt
    <3>2. lastUpdateId' = s
      BY <2>4, <3>1 DEF ApplySnapshot, IdAfterReplay
    <3>3. book' = [l \in Levels |-> TruthAt(s)[l]]
      BY <2>4, <3>1 DEF ApplySnapshot, AfterReplay
    <3>4. TruthAt(s) \in Books
      BY TruthType DEF TypeOK
    <3>5. QED
      BY <3>1, <3>2, <3>3, <3>4 DEF Books
  <2>5. CASE Reset
    BY <2>5 DEF Reset, ExemptionOnlyAtSeam
  <2>6. CASE UNCHANGED vars
    BY <2>2, <2>6 DEF vars, ExemptionOnlyAtSeam
  <2>7. QED
    BY <2>3, <2>4, <2>5, <2>6 DEF Next, DeltaStep, SnapshotStep, ResetStep
<1>3. QED
  BY <1>1, <1>2, TypeCorrect, PTL DEF Spec

-----------------------------------------------------------------------------
(* The crossed flag.                                                        *)

(* Only prices that changed are quoted, so there is a highest one.          *)
LEMMA QuotedBounded ==
  ASSUME FeedTypeOK, NEW s \in Ids, NEW side \in Sides
  PROVE  \E top \in Nat : Quoted(TruthAt(s), side) \subseteq 0 .. top
<1> DEFINE Unbounded == {k \in 0 .. s : ~ \E top \in Nat : \A i \in 1 .. k : history[i].level[2] <= top}
<1>1. s \in Nat /\ \A i \in 1 .. s : history[i].level[2] \in Nat
  <2>1. s \in Nat /\ \A i \in 1 .. s : history[i] \in Changes
    BY MaxIdAssumption DEF FeedTypeOK, Ids
  <2>2. \A x \in Changes : x.level[2] \in Nat
    <3>1. \A x \in [level : Levels, qty : Qty] : x.level[2] \in Prices
      BY DEF Levels
    <3>2. Idle.level[2] = 0
      BY DEF Idle, NoLevel
    <3>3. QED
      <4>1. \A x \in Changes : x \in [level : Levels, qty : Qty] \/ x = Idle
        BY DEF Changes
      <4>2. ASSUME NEW x \in Changes PROVE x.level[2] \in Nat
        <5>1. CASE x \in [level : Levels, qty : Qty]
          BY <5>1, <3>1, PricesAssumption
        <5>2. CASE x = Idle
          BY <5>2, <3>2
        <5>3. QED
          BY <5>1, <5>2, <4>1
      <4>3. QED
        BY <4>2
  <2>3. QED
    BY <2>1, <2>2
<1>2. Unbounded = {}
  <2>1. SUFFICES ASSUME Unbounded # {} PROVE FALSE
    OBVIOUS
  <2>2. Unbounded \subseteq Nat
    OBVIOUS
  <2> HIDE DEF Unbounded
  <2>3. PICK k \in Unbounded : \A n \in Unbounded : k <= n
    BY <2>1, <2>2, LeastExists
  <2>4. k \in 0 .. s /\ ~ \E top \in Nat : \A i \in 1 .. k : history[i].level[2] <= top
    BY DEF Unbounded
  <2>5. k # 0
    <3>1. k = 0 => \A i \in 1 .. k : history[i].level[2] <= 0
      OBVIOUS
    <3>2. QED
      BY <2>4, <3>1
  <2>6. k - 1 \in 0 .. s /\ k - 1 \notin Unbounded
    BY <2>3, <2>4, <2>5, <1>1
  <2>7. PICK top \in Nat : \A i \in 1 .. k - 1 : history[i].level[2] <= top
    BY <2>6 DEF Unbounded
  <2> DEFINE p == history[k].level[2]
  <2>8. p \in Nat
    BY <2>4, <2>5, <1>1
  <2>9. \A i \in 1 .. k : i = k \/ i \in 1 .. k - 1
    BY <2>4
  <2>10. \A i \in 1 .. k : history[i].level[2] <= IF p <= top THEN top ELSE p
    <3>1. ASSUME NEW i \in 1 .. k
          PROVE  history[i].level[2] <= IF p <= top THEN top ELSE p
      <4>1. CASE i = k
        BY <4>1, <2>8
      <4>2. CASE i \in 1 .. k - 1
        <5>1. history[i].level[2] <= top /\ history[i].level[2] \in Nat
          BY <4>2, <2>4, <2>7, <1>1
        <5> HIDE DEF p
        <5>2. QED
          BY <5>1, <2>8
      <4>3. QED
        BY <4>1, <4>2, <2>9
    <3>2. QED
      BY <3>1
  <2> DEFINE higher == IF p <= top THEN top ELSE p
  <2>11. higher \in Nat
    BY <2>8
  <2> HIDE DEF p
  <2>12. \A i \in 1 .. k : history[i].level[2] <= higher
    BY <2>10
  <2> HIDE DEF higher
  <2>13. QED
    BY <2>4, <2>11, <2>12
<1>3. PICK top \in Nat : \A i \in 1 .. s : history[i].level[2] <= top
  <2> HIDE DEF Unbounded
  <2>1. s \in 0 .. s /\ s \notin Unbounded
    BY <1>1, <1>2
  <2>2. QED
    BY <2>1 DEF Unbounded
<1>4. ASSUME NEW p \in Quoted(TruthAt(s), side) PROVE p \in 0 .. top
  <2>1. p \in Prices /\ <<side, p>> \in Levels /\ TruthAt(s)[<<side, p>>] > 0
    BY DEF Quoted, Levels
  <2>2. PICK i \in 1 .. s : Touches(i, <<side, p>>)
    BY <2>1 DEF TruthAt
  <2>3. history[i].level[2] = p
    BY <2>2 DEF Touches
  <2>4. QED
    BY <2>1, <2>3, <1>1, <1>3
<1>5. QED
  BY <1>4

(* A true book that looks crossed to the code, and has asks, is inverted.   *)
LEMMA CrossedIsInverted ==
  ASSUME FeedTypeOK, NEW s \in Ids,
         LooksCrossed(TruthAt(s)), Quoted(TruthAt(s), "ask") # {}
  PROVE  Inverted(TruthAt(s))
<1> DEFINE b == TruthAt(s)
<1>1. PICK top \in Nat : Quoted(b, "bid") \subseteq 0 .. top
  BY QuotedBounded DEF Sides
<1>2. Quoted(b, "bid") # {}
  BY DEF LooksCrossed
<1>3. BestBid(b) \in Nat
  BY <1>1, <1>2, LatestIsMax DEF BestBid
<1>4. BestAsk(b) \in Nat
  <2>1. Quoted(b, "ask") \subseteq Nat
    BY PricesAssumption DEF Quoted
  <2>2. \E p \in Quoted(b, "ask") : \A q \in Quoted(b, "ask") : p <= q
    BY <2>1, LeastExists
  <2>3. BestAsk(b) \in Quoted(b, "ask")
    BY <2>2 DEF BestAsk
  <2>4. QED
    BY <2>1, <2>3
<1> HIDE DEF b
<1>5. BestAsk(b) < BestBid(b) \/ BestAsk(b) = BestBid(b)
  BY DEF LooksCrossed, b
<1>6. QED
  BY <1>2, <1>3, <1>4, <1>5 DEF Inverted, b

(* The flag is what the best levels of the book say, once there is one.     *)
FlagIsOfTheBook == crossed => LooksCrossed(book) /\ HasSnapshot

(* On an exchange whose book is never crossed, a flagged book with both     *)
(* sides quoted has lost a change (the crossed flag of OrderbookData).      *)
THEOREM FlagTellsOfALoss == Spec => []FlaggedBookLostAChange
<1>1. Init => FlagIsOfTheBook
  BY DEF Init, EmptyInit, FlagIsOfTheBook
<1>2. TypeOK /\ FlagIsOfTheBook /\ [Next]_vars => FlagIsOfTheBook'
  <2> SUFFICES ASSUME TypeOK, FlagIsOfTheBook, [Next]_vars, crossed'
               PROVE  LooksCrossed(book') /\ lastUpdateId' # 0
    BY DEF FlagIsOfTheBook, HasSnapshot
  <2>1. ASSUME NEW e \in Updates, ApplyDelta(e)
        PROVE  LooksCrossed(book') /\ lastUpdateId' # 0
    <3>1. e.final \in 1 .. MaxId
      BY UpdateFacts DEF TypeOK
    <3>2. CASE Buffered(e) \/ Rejected(e)
      BY <3>2 DEF Buffered, Rejected, FlagIsOfTheBook, HasSnapshot
    <3>3. CASE Applied(e)
      BY <3>1, <3>3, MaxIdAssumption DEF Applied
    <3>4. QED
      BY <2>1, <3>2, <3>3 DEF ApplyDelta
  <2>2. ASSUME NEW s \in Ids, ApplySnapshot(TruthAt(s), s)
        PROVE  LooksCrossed(book') /\ lastUpdateId' # 0
    <3>1. LooksCrossed(book') /\ Replayed(s) # {} /\ lastUpdateId' = IdAfterReplay(s)
      BY <2>2 DEF ApplySnapshot
    <3>2. /\ Latest(Replayed(s)) \in Replayed(s)
          /\ IdAfterReplay(s) = buffer[Latest(Replayed(s))].final
      BY <3>1, IdAfterReplayFacts
    <3>3. buffer[Latest(Replayed(s))] \in Updates
      BY <3>2, ReplayedFacts
    <3>4. IdAfterReplay(s) \in 1 .. MaxId
      BY <3>2, <3>3, UpdateFacts DEF TypeOK
    <3>5. QED
      BY <3>1, <3>4, MaxIdAssumption
  <2>3. CASE Reset
    BY <2>3 DEF Reset
  <2>4. CASE UNCHANGED vars
    BY <2>4 DEF vars, FlagIsOfTheBook, HasSnapshot
  <2>5. QED
    BY <2>1, <2>2, <2>3, <2>4 DEF Next, DeltaStep, SnapshotStep, ResetStep
<1>3. TypeOK /\ Synced /\ FlagIsOfTheBook => FlaggedBookLostAChange
  <2> SUFFICES ASSUME TypeOK, Synced, FlagIsOfTheBook, ExchangeNeverInverted, crossed,
                      Quoted(book, "ask") # {}, ~tainted
               PROVE  FALSE
    BY DEF FlaggedBookLostAChange, TypeOK
  <2>1. book = TruthAt(lastUpdateId) /\ LooksCrossed(book) /\ lastUpdateId \in Ids
    BY DEF Synced, FlagIsOfTheBook, TypeOK
  <2>2. Inverted(TruthAt(lastUpdateId))
    BY <2>1, CrossedIsInverted DEF TypeOK
  <2>3. QED
    BY <2>1, <2>2 DEF ExchangeNeverInverted
<1>4. QED
  BY <1>1, <1>2, <1>3, TypeCorrect, BookIsSynced, PTL DEF Spec

-----------------------------------------------------------------------------
(* The session drives a LocalOrderbook.                                     *)

(* What has to be known of the session for its calls to be legal.           *)
CallsTyped ==
    /\ FeedTypeOK
    /\ now \in Ids /\ sent \in Ids /\ subscribedAt \in Ids
    /\ session \in Sessions
    /\ failures \in 0 .. MaxFailures
    /\ refill \in [phase : Phases, generation : Nat, connected : BOOLEAN, snapshot : Ids]
    /\ state \in [generation : Nat, connected : BOOLEAN, ready : BOOLEAN, cached : {state.cached}]
    /\ overrun \in BOOLEAN

LEMMA NextCutFacts ==
  ASSUME FeedTypeOK, sent \in Ids, now \in Ids, Undelivered # {}
  PROVE  /\ NextCut \in cuts
         /\ NextCut \in 1 .. MaxId
         /\ NextCut \in Ids
         /\ sent < NextCut
         /\ NextCut <= now
         /\ \A d \in Undelivered : NextCut <= d
<1>1. Undelivered \subseteq 1 .. MaxId
  BY DEF Undelivered, FeedTypeOK
<1>2. \E c \in Undelivered : \A d \in Undelivered : c <= d
  <2>1. Undelivered \subseteq Nat
    BY <1>1, MaxIdAssumption
  <2>2. QED
    BY <2>1, LeastExists
<1>3. NextCut \in Undelivered /\ \A d \in Undelivered : NextCut <= d
  BY <1>2 DEF NextCut
<1>4. QED
  BY <1>1, <1>3, MaxIdAssumption DEF Undelivered, Ids

(* What is subscribed to starts after a cut, or at the beginning.           *)
LEMMA SubscribedCut ==
  ASSUME FeedTypeOK, now \in Ids
  PROVE  /\ PreviousCut(now + 1) \in cuts \cup {0}
         /\ PreviousCut(now + 1) \in Ids
         /\ PreviousCut(now + 1) <= now
<1>1. now \in Nat /\ now + 1 \in Nat /\ now + 1 # 0
  BY MaxIdAssumption DEF Ids
<1>2. QED
  BY <1>1, PreviousCutIsLatest DEF Ids

LEMMA InitCallsTyped == DeltaInit => CallsTyped
<1> SUFFICES ASSUME DeltaInit PROVE CallsTyped
  OBVIOUS
<1>1. FeedTypeOK
  BY DEF DeltaInit, Init, FeedInit, FeedTypeOK
<1>2. refill \in [phase : Phases, generation : Nat, connected : BOOLEAN, snapshot : Ids]
  BY MaxIdAssumption DEF DeltaInit, SessionInit, NoRefill, Phases, Ids
<1>3. state \in [generation : Nat, connected : BOOLEAN, ready : BOOLEAN, cached : {state.cached}]
  BY DEF DeltaInit, SessionInit
<1>4. /\ now \in Ids /\ sent \in Ids /\ subscribedAt \in Ids /\ failures \in 0 .. MaxFailures
      /\ session \in Sessions
  BY MaxIdAssumption, MaxFailuresAssumption DEF DeltaInit, SessionInit, Ids, Sessions
<1>5. overrun \in BOOLEAN
  BY DEF DeltaInit, SessionInit
<1>6. QED
  BY <1>1, <1>2, <1>3, <1>4, <1>5 DEF CallsTyped

LEMMA OverrunTyped ==
  ASSUME overrun \in BOOLEAN, FinishRefill
  PROVE  overrun' \in BOOLEAN
<1>1. CASE overrun' = (Cardinality(DeliveredAfter(refill.snapshot)) > BufferSize)
  BY <1>1
<1>2. CASE overrun' = overrun
  BY <1>2
<1>3. QED
  BY <1>1, <1>2 DEF FinishRefill

LEMMA StepCallsTyped ==
  ASSUME CallsTyped, [DeltaNext]_dsVars
  PROVE  CallsTyped'
<1> USE DEF CallsTyped
<1> USE MaxIdAssumption, MaxFailuresAssumption
<1>1. FeedTypeOK'
  <2>1. UNCHANGED feedVars
    BY DEF DeltaNext, dsVars, vars, feedVars, Tick, SessionStep, Subscribe, MarkConnected,
           ResetSymbol, Receive, ReceiveDelta, ReceiveSnapshot, RefillStep, StartRefill,
           RefillHit, StartFetch, FetchAnswered, FinishRefill, Disturbance, ConnectionLost,
           LoseDelta, FetchFailed
  <2>2. QED
    BY <2>1, FeedFixed
<1>2. CASE Tick
  BY <1>1, <1>2 DEF Tick, sessionVars, Ids
<1>3. CASE Subscribe
  BY <1>1, <1>3, SubscribedCut DEF Subscribe, Sessions
<1>4. CASE MarkConnected
  BY <1>1, <1>4 DEF MarkConnected, Sessions
<1>5. CASE ResetSymbol
  <2>1. state' \in [generation : Nat, connected : BOOLEAN, ready : BOOLEAN, cached : {state'.cached}]
    BY <1>5 DEF ResetSymbol, ResetState
  <2>2. QED
    BY <1>1, <1>5, <2>1 DEF ResetSymbol, Sessions
<1>6. ASSUME NEW e \in Updates, ReceiveDelta(e)
      PROVE  CallsTyped'
  <2>1. sent' \in Ids /\ session' \in Sessions
    BY <1>6, NextCutFacts DEF ReceiveDelta, Sessions
  <2>2. state' = state \/ state' = Refreshed
    BY <1>6 DEF ReceiveDelta
  <2>3. state' \in [generation : Nat, connected : BOOLEAN, ready : BOOLEAN, cached : {state'.cached}]
    BY <2>2 DEF Refreshed
  <2>4. UNCHANGED <<now, subscribedAt, failures, refill, overrun>>
    BY <1>6 DEF ReceiveDelta
  <2>5. QED
    BY <1>1, <2>1, <2>3, <2>4
<1>7. CASE ReceiveSnapshot
  BY <1>1, <1>7, NextCutFacts DEF ReceiveSnapshot
<1>8. CASE StartRefill \/ RefillHit \/ StartFetch \/ FetchAnswered
  <2>1. refill' \in [phase : Phases, generation : Nat, connected : BOOLEAN, snapshot : Ids]
    <3>1. CASE StartRefill
      BY <3>1 DEF StartRefill, Phases
    <3>2. CASE RefillHit
      BY <3>2 DEF RefillHit, NoRefill, Phases, Ids
    <3>3. CASE StartFetch
      BY <3>3 DEF StartFetch, Phases
    <3>4. CASE FetchAnswered
      BY <3>4 DEF FetchAnswered, Phases
    <3>5. QED
      BY <1>8, <3>1, <3>2, <3>3, <3>4
  <2>2. UNCHANGED <<now, sent, subscribedAt, session, failures, state, overrun>>
    BY <1>8 DEF StartRefill, RefillHit, StartFetch, FetchAnswered, sessionVars
  <2>3. QED
    BY <1>1, <2>1, <2>2
<1>9. CASE FinishRefill
  <2>1. state' \in [generation : Nat, connected : BOOLEAN, ready : BOOLEAN, cached : {state'.cached}]
    BY <1>9 DEF FinishRefill
  <2>2. refill' \in [phase : Phases, generation : Nat, connected : BOOLEAN, snapshot : Ids]
    BY <1>9 DEF FinishRefill, NoRefill, Phases, Ids
  <2>3. overrun' \in BOOLEAN
    BY <1>9, OverrunTyped
  <2>4. UNCHANGED <<now, sent, subscribedAt, session, failures>>
    BY <1>9 DEF FinishRefill, sessionVars
  <2>5. QED
    BY <1>1, <2>1, <2>2, <2>3, <2>4
<1>10. CASE ConnectionLost \/ FetchFailed
  <2>1. CASE ConnectionLost
    BY <1>1, <2>1 DEF ConnectionLost, Sessions
  <2>2. CASE FetchFailed
    BY <1>1, <2>2 DEF FetchFailed, NoRefill, Phases, Ids
  <2>3. QED
    BY <1>10, <2>1, <2>2
<1>11. CASE LoseDelta
  BY <1>1, <1>11, NextCutFacts DEF LoseDelta
<1>12. CASE UNCHANGED dsVars
  BY <1>1, <1>12 DEF dsVars, sessionVars
<1>13. QED
  BY <1>2, <1>3, <1>4, <1>5, <1>6, <1>7, <1>8, <1>9, <1>10, <1>11, <1>12
  DEF DeltaNext, SessionStep, Receive, RefillStep, Disturbance

(* Every step of the session is one call of the LocalOrderbook, or none.    *)
LEMMA StepIsBookStep ==
  ASSUME CallsTyped, [DeltaNext]_dsVars
  PROVE  [Next]_vars
<1> USE DEF CallsTyped
<1>1. ASSUME NEW e \in Updates, ReceiveDelta(e)
      PROVE  DeltaStep
  BY <1>1 DEF ReceiveDelta, DeltaStep, ApplyDelta
<1>2. CASE ReceiveSnapshot
  BY <1>2, NextCutFacts DEF ReceiveSnapshot, SnapshotStep, Next
<1>3. CASE FinishRefill
  <2>1. refill.snapshot \in Ids
    OBVIOUS
  <2>2. CASE ApplySnapshot(TruthAt(refill.snapshot), refill.snapshot)
    BY <1>3, <2>1, <2>2 DEF FinishRefill, SnapshotStep, Next
  <2>3. CASE UNCHANGED bookVars
    BY <1>3, <2>3 DEF FinishRefill, bookVars, feedVars, vars
  <2>4. QED
    BY <1>3, <2>2, <2>3 DEF FinishRefill
<1>4. CASE ResetSymbol
  BY <1>4 DEF ResetSymbol, ResetStep, Next
<1>5. CASE Tick \/ Subscribe \/ MarkConnected \/ StartRefill \/ RefillHit \/ StartFetch
           \/ FetchAnswered \/ Disturbance \/ UNCHANGED dsVars
  BY <1>5 DEF dsVars, Tick, Subscribe, MarkConnected, StartRefill, RefillHit, StartFetch,
              FetchAnswered, Disturbance, ConnectionLost, LoseDelta, FetchFailed
<1>6. QED
  BY <1>1, <1>2, <1>3, <1>4, <1>5 DEF Next, DeltaNext, SessionStep, Receive, RefillStep

(* The session uses the reconstruction as LocalOrderbook describes it, so   *)
(* whatever holds of LocalOrderbook holds of the book of a running session. *)
THEOREM SessionDrivesTheBook == DeltaSpec => Spec
<1>1. DeltaInit => Init
  BY DEF DeltaInit
<1>2. QED
  BY <1>1, InitCallsTyped, StepCallsTyped, StepIsBookStep, PTL DEF DeltaSpec, Spec

-----------------------------------------------------------------------------
(* Type correctness, and whose book is in the cache.                        *)

(* A symbol has a cached book when it is ready and not otherwise; a session *)
(* streams only on a symbol that it has marked connected.                   *)
CacheInv ==
    /\ CacheFollowsReconstruction
    /\ session = "streaming" => state.connected
    /\ state.ready <=> state.cached # NoBook

(* No book has the id of NoBook, so a book with an id is one.               *)
LEMMA BookWithId ==
  ASSUME NEW b, NEW i \in Ids
  PROVE  [book |-> b, id |-> i] # NoBook
<1>1. [book |-> b, id |-> i].id # NoBook.id
  BY MaxIdAssumption DEF NoBook, Ids
<1>2. QED
  BY <1>1

LEMMA TypedTogether ==
  ASSUME TypeOK, CallsTyped, CacheInv
  PROVE  DeltaTypeOK
<1>1. book \in Books /\ lastUpdateId \in Ids
  BY DEF TypeOK
<1>2. state.cached \in Cached
  BY <1>1 DEF CacheInv, CacheFollowsReconstruction, Cached
<1>3. state \in [generation : Nat, connected : BOOLEAN, ready : BOOLEAN, cached : Cached]
  BY <1>2 DEF CallsTyped
<1>4. QED
  BY <1>3 DEF CallsTyped, DeltaTypeOK

LEMMA InitCacheInv == DeltaInit => CacheInv
BY DEF DeltaInit, Init, EmptyInit, SessionInit, CacheInv, CacheFollowsReconstruction, HasSnapshot

LEMMA StepCacheInv ==
  ASSUME TypeOK, TypeOK', CallsTyped, CacheInv, [DeltaNext]_dsVars
  PROVE  CacheInv'
<1> USE DEF CacheInv, CacheFollowsReconstruction
<1>1. lastUpdateId' \in Ids
  BY DEF TypeOK
<1>2. [book |-> book', id |-> lastUpdateId'] # NoBook
  BY <1>1, BookWithId
<1>3. state \in [generation : Nat, connected : BOOLEAN, ready : BOOLEAN, cached : {state.cached}]
  BY DEF CallsTyped
<1>4. NoBook' = NoBook
  BY DEF NoBook, EmptyBook
<1>5. CASE UNCHANGED <<bookVars, session, state>>
  BY <1>4, <1>5 DEF bookVars, HasSnapshot
<1>6. CASE Subscribe
  BY <1>4, <1>6 DEF Subscribe, vars, HasSnapshot
<1>7. CASE MarkConnected
  BY <1>3, <1>4, <1>7 DEF MarkConnected, vars, HasSnapshot
<1>8. CASE ConnectionLost
  BY <1>4, <1>8 DEF ConnectionLost, vars, HasSnapshot
<1>9. CASE ResetSymbol
  BY <1>4, <1>9 DEF ResetSymbol, ResetState, Reset, HasSnapshot
<1>10. ASSUME NEW e \in Updates, ReceiveDelta(e)
       PROVE  CacheInv'
  <2>1. session = "streaming" /\ session' \in {"streaming", "failed"}
    BY <1>10 DEF ReceiveDelta
  <2>2. CASE Applied(e)
    <3>1. state' = Refreshed
      BY <1>10, <2>2 DEF ReceiveDelta, Applied, Rejected, Buffered
    <3>2. QED
      BY <1>2, <1>3, <1>4, <2>1, <3>1 DEF Refreshed
  <2>3. CASE Buffered(e) \/ Rejected(e)
    <3>1. UNCHANGED <<book, lastUpdateId, state>>
      BY <1>10, <2>3 DEF ReceiveDelta, Applied, Rejected, Buffered
    <3>2. QED
      BY <1>4, <2>1, <3>1
  <2>4. QED
    BY <1>10, <2>2, <2>3 DEF ReceiveDelta
<1>11. CASE ReceiveSnapshot
  BY <1>2, <1>3, <1>4, <1>11 DEF ReceiveSnapshot
<1>12. CASE FinishRefill
  <2>1. session' = session
    BY <1>12 DEF FinishRefill, sessionVars
  <2>2. CASE UNCHANGED <<bookVars, state>>
    BY <1>5, <2>1, <2>2
  <2>3. CASE /\ SameConnection
             /\ state' = [state EXCEPT !.ready = TRUE,
                                       !.cached = [book |-> book', id |-> lastUpdateId']]
    BY <1>2, <1>3, <1>4, <2>1, <2>3 DEF SameConnection
  <2>4. QED
    BY <1>12, <2>2, <2>3 DEF FinishRefill
<1>13. QED
  BY <1>5, <1>6, <1>7, <1>8, <1>9, <1>10, <1>11, <1>12
  DEF DeltaNext, SessionStep, Receive, RefillStep, Disturbance, Tick, StartRefill,
      RefillHit, StartFetch, FetchAnswered, LoseDelta, FetchFailed, vars, bookVars,
      sessionVars, dsVars

LEMMA AlwaysTyped == DeltaSpec => [](TypeOK /\ CallsTyped /\ CacheInv)
<1>1. TypeOK /\ TypeOK' /\ CallsTyped /\ CacheInv /\ [DeltaNext]_dsVars => CacheInv'
  BY StepCacheInv
<1>2. CallsTyped /\ [DeltaNext]_dsVars => CallsTyped'
  BY StepCallsTyped
<1>3. QED
  BY <1>1, <1>2, InitCallsTyped, InitCacheInv, SessionDrivesTheBook, TypeCorrect, PTL
  DEF DeltaSpec

(* Type correctness of the session, the cached state and the refill.        *)
THEOREM DeltaTypeCorrect == DeltaSpec => []DeltaTypeOK
<1>1. TypeOK /\ CallsTyped /\ CacheInv => DeltaTypeOK
  BY TypedTogether
<1>2. QED
  BY <1>1, AlwaysTyped, PTL

(* The cached book is at all times the reconstruction's own, and none is    *)
(* cached without a connection: whatever frames come, lost or not, and      *)
(* however refills overlap with reconnects.                                 *)
THEOREM CacheFollows == DeltaSpec => []CacheFollowsReconstruction
<1>1. CacheInv => CacheFollowsReconstruction
  BY DEF CacheInv
<1>2. QED
  BY <1>1, AlwaysTyped, PTL

-----------------------------------------------------------------------------
(* The book that is served is the exchange's.                               *)

(* The feed of the delta venues the theorems below are about: changes only, *)
(* chained, delivered without a loss, and a REST book not behind them.      *)
OrderlyFeed ==
    /\ "snapshot" \notin Frames
    /\ PreviousIds = {"chain"} /\ ~TolerateSnapshotSeam
    /\ ~Lossy /\ SnapshotLag = 0

(* Ids are delivered as they come.                                          *)
InTime ==
    /\ sent \in cuts \cup {0}
    /\ sent <= now /\ subscribedAt <= now /\ lastUpdateId <= now
    /\ refill.phase = "settling" => refill.snapshot <= now
    /\ session \in {"connecting", "subscribed"} => buffer = <<>>

(* The id from which on the buffer has everything that was delivered.       *)
Reach == IF buffer = <<>> THEN sent ELSE PreviousCut(buffer[1].final)

(* The buffer ends with the last update delivered and has no holes.         *)
Contiguous ==
    /\ buffer # <<>> => buffer[Len(buffer)].final = sent
    /\ \A j, k \in DOMAIN buffer : j < k => k - j <= buffer[k].final - buffer[j].final
    /\ \A k \in DOMAIN buffer : k > 1 => PreviousCut(buffer[k].final) = buffer[k - 1].final
    /\ \A i \in Reach + 1 .. sent :
          \E k \in DOMAIN buffer : i \in PreviousCut(buffer[k].final) + 1 .. buffer[k].final

(* More updates have come since the snapshot than the ring has room for.    *)
Outrun(s) == Cardinality(DeliveredAfter(s)) > BufferSize

(* A snapshot that will be used lies within what the buffer has, unless the *)
(* ring was outrun, and it takes the book no further back than it is, once  *)
(* the buffer is replayed.                                                  *)
Usable == refill.phase = "settling" /\ SameConnection
SnapshotFits ==
    Usable => /\ Reach <= refill.snapshot \/ (buffer # <<>> /\ Outrun(refill.snapshot))
              /\ subscribedAt <= refill.snapshot
              /\ lastUpdateId <= refill.snapshot \/ (buffer # <<>> /\ lastUpdateId <= sent)

(* The generation a refill remembers tells a later connection from its own. *)
GenerationTells ==
    /\ refill.generation <= state.generation
    /\ refill.connected /\ refill.generation = state.generation => state.connected

TrueBook == state.ready /\ ~overrun => book = TruthAt(lastUpdateId)

(* The ring has forgotten an update that a snapshot does not have only if   *)
(* it was outrun.                                                           *)
RingForgetsLate ==
    \A s \in Ids : Len(buffer) = BufferSize => Reach <= s \/ Outrun(s)

(* A book that has come to where an update ended is the one after the last  *)
(* update delivered.                                                        *)
AtTheLastCut ==
    HasSnapshot /\ lastUpdateId \in cuts /\ lastUpdateId <= sent => lastUpdateId = sent

-----------------------------------------------------------------------------
(* Delivery without loss.                                                   *)

LEMMA CutsFixed ==
  ASSUME UNCHANGED cuts
  PROVE  \A c : PreviousCut(c)' = PreviousCut(c)
BY DEF PreviousCut

(* The connection leaves out no cut.                                        *)
LEMMA NextCutFollows ==
  ASSUME CallsTyped, InTime, Undelivered # {}
  PROVE  PreviousCut(NextCut) = sent
<1>1. FeedTypeOK /\ sent \in Ids /\ now \in Ids /\ sent \in cuts \cup {0}
  BY DEF CallsTyped, InTime
<1>2. /\ NextCut \in cuts /\ sent < NextCut /\ NextCut <= now
      /\ \A d \in Undelivered : NextCut <= d
  BY <1>1, NextCutFacts
<1>3. \A d \in cuts : sent < d /\ d <= NextCut => d \in Undelivered
  BY <1>1, <1>2, MaxIdAssumption DEF Undelivered, FeedTypeOK, Ids
<1>4. QED
  BY <1>1, <1>2, <1>3, CutFollows

(* The buffer as a sequence of updates.                                     *)
LEMMA BufferFacts ==
  ASSUME TypeOK
  PROVE  /\ Len(buffer) \in Nat /\ DOMAIN buffer = 1 .. Len(buffer)
         /\ buffer = <<>> <=> Len(buffer) = 0
         /\ \A k \in 1 .. Len(buffer) :
              /\ buffer[k] \in Updates
              /\ buffer[k].final \in 1 .. MaxId
              /\ PreviousCut(buffer[k].final) \in 0 .. buffer[k].final - 1
<1>1. buffer \in Seq(Updates) /\ FeedTypeOK
  BY DEF TypeOK
<1>2. Len(buffer) \in Nat /\ DOMAIN buffer = 1 .. Len(buffer)
  BY <1>1, LenProperties
<1>3. \A k \in 1 .. Len(buffer) : buffer[k] \in Updates
  BY <1>1, ElementOfSeq
<1>4. buffer = <<>> <=> Len(buffer) = 0
  BY <1>1, EmptySeq
<1>5. QED
  BY <1>1, <1>2, <1>3, <1>4, UpdateFacts

LEMMA ReachFacts ==
  ASSUME TypeOK, CallsTyped, Contiguous
  PROVE  /\ Reach \in Nat /\ Reach <= sent
         /\ \A k \in 1 .. Len(buffer) : buffer[k].final <= sent
<1>1. sent \in Nat
  BY MaxIdAssumption DEF CallsTyped, Ids
<1>2. CASE buffer = <<>>
  BY <1>1, <1>2, BufferFacts DEF Reach
<1>3. CASE buffer # <<>>
  <2>1. 1 \in 1 .. Len(buffer) /\ Len(buffer) \in 1 .. Len(buffer)
    BY <1>3, BufferFacts
  <2>2. ASSUME NEW k \in 1 .. Len(buffer) PROVE buffer[k].final <= sent
    <3>1. buffer[Len(buffer)].final = sent
      BY <1>3 DEF Contiguous
    <3>2. k \in Nat /\ Len(buffer) \in Nat /\ k <= Len(buffer) /\ buffer[k].final \in Nat
      BY BufferFacts, MaxIdAssumption
    <3>3. CASE k = Len(buffer)
      BY <1>1, <3>1, <3>3
    <3>4. CASE k < Len(buffer)
      <4>1. k \in DOMAIN buffer /\ Len(buffer) \in DOMAIN buffer
        BY <2>1, BufferFacts
      <4>2. Len(buffer) - k <= buffer[Len(buffer)].final - buffer[k].final
        BY <3>4, <4>1 DEF Contiguous
      <4>3. QED
        BY <1>1, <3>1, <3>2, <3>4, <4>2
    <3>5. QED
      BY <3>2, <3>3, <3>4
  <2>3. Reach = PreviousCut(buffer[1].final)
    BY <1>3 DEF Reach
  <2>4. buffer[1].final \in Nat /\ PreviousCut(buffer[1].final) \in 0 .. buffer[1].final - 1
    BY <2>1, BufferFacts, MaxIdAssumption
  <2>5. buffer[1].final <= sent
    BY <2>1, <2>2
  <2>6. QED
    BY <1>1, <2>2, <2>3, <2>4, <2>5
<1>4. QED
  BY <1>2, <1>3

(* The ring buffer after another update.                                    *)
LEMMA PushedFacts ==
  ASSUME TypeOK, NEW e \in Updates
  PROVE  \/ /\ Len(buffer) < BufferSize
            /\ Len(Pushed(e)) = Len(buffer) + 1
            /\ Pushed(e)[Len(buffer) + 1] = e
            /\ \A k \in 1 .. Len(buffer) : Pushed(e)[k] = buffer[k]
         \/ /\ Len(buffer) = BufferSize
            /\ Len(Pushed(e)) = Len(buffer)
            /\ Pushed(e)[Len(buffer)] = e
            /\ \A k \in 1 .. Len(buffer) - 1 : Pushed(e)[k] = buffer[k + 1]
<1> USE BufferSizeAssumption
<1>1. buffer \in Seq(Updates) /\ Len(buffer) \in Nat /\ Len(buffer) <= BufferSize
  BY LenProperties DEF TypeOK
<1>2. CASE Len(buffer) >= BufferSize
  <2>1. buffer # <<>>
    BY <1>1, <1>2
  <2>2. /\ Tail(buffer) \in Seq(Updates) /\ Len(Tail(buffer)) = Len(buffer) - 1
        /\ \A k \in 1 .. Len(Tail(buffer)) : Tail(buffer)[k] = buffer[k + 1]
    BY <1>1, <2>1, HeadTailProperties
  <2>3. Pushed(e) = Append(Tail(buffer), e)
    BY <1>2 DEF Pushed
  <2>4. /\ Len(Pushed(e)) = Len(buffer)
        /\ Pushed(e)[Len(buffer)] = e
        /\ \A k \in 1 .. Len(Tail(buffer)) : Pushed(e)[k] = Tail(buffer)[k]
    BY <1>1, <2>2, <2>3, AppendProperties
  <2>5. \A k \in 1 .. Len(buffer) - 1 : Pushed(e)[k] = buffer[k + 1]
    BY <2>2, <2>4
  <2>6. QED
    BY <1>1, <1>2, <2>4, <2>5
<1>3. CASE ~(Len(buffer) >= BufferSize)
  <2>1. Pushed(e) = Append(buffer, e)
    BY <1>3 DEF Pushed
  <2>2. QED
    BY <1>1, <1>3, <2>1, AppendProperties
<1>4. QED
  BY <1>2, <1>3

(* Another delivery keeps the buffer contiguous; it reaches as far back as  *)
(* before unless the ring is full.                                          *)
LEMMA PushKeepsContiguous ==
  ASSUME TypeOK, TypeOK', CallsTyped, InTime, Contiguous, Undelivered # {},
         NEW e \in Updates, e.final = NextCut,
         buffer' = Pushed(e), sent' = e.final, UNCHANGED feedVars
  PROVE  /\ Contiguous'
         /\ buffer' # <<>>
         /\ \/ Reach' = Reach
            \/ Len(buffer') = BufferSize /\ Reach' = PreviousCut(buffer'[1].final)
<1> DEFINE n == Len(buffer)
<1>1. n \in Nat /\ DOMAIN buffer = 1 .. n /\ (buffer = <<>> <=> n = 0)
  BY BufferFacts
<1>2. n = Len(buffer) /\ sent \in Nat /\ BufferSize \in Nat /\ BufferSize >= 1
  BY BufferSizeAssumption, MaxIdAssumption DEF CallsTyped, Ids
<1>3. PreviousCut(e.final) = sent /\ e.final > sent /\ e.final \in Nat
  <2>1. FeedTypeOK /\ sent \in Ids /\ now \in Ids
    BY DEF CallsTyped
  <2>2. NextCut \in 1 .. MaxId /\ sent < NextCut
    BY <2>1, NextCutFacts
  <2>3. QED
    BY <1>2, <2>2, NextCutFollows, MaxIdAssumption
<1>4. \A k \in 1 .. n : /\ buffer[k].final \in Nat
                         /\ buffer[k].final <= sent
                         /\ PreviousCut(buffer[k].final) \in 0 .. buffer[k].final - 1
  BY BufferFacts, ReachFacts, MaxIdAssumption
<1>5. \A c : PreviousCut(c)' = PreviousCut(c)
  BY CutsFixed DEF feedVars
<1>6. Len(buffer') \in Nat /\ DOMAIN buffer' = 1 .. Len(buffer') /\ (buffer' = <<>> <=> Len(buffer') = 0)
  <2>1. buffer' \in Seq(Updates')
    BY DEF TypeOK
  <2>2. QED
    BY <2>1, LenProperties, EmptySeq
<1> HIDE DEF n
<1>7. CASE /\ Len(buffer) < BufferSize
           /\ Len(Pushed(e)) = n + 1
           /\ Pushed(e)[n + 1] = e
           /\ \A k \in 1 .. n : Pushed(e)[k] = buffer[k]
  <2>1. Len(buffer') = n + 1 /\ buffer'[n + 1] = e /\ \A k \in 1 .. n : buffer'[k] = buffer[k]
    BY <1>7
  <2>2. buffer' # <<>> /\ Reach' = PreviousCut(buffer'[1].final)
    BY <1>1, <1>5, <1>6, <2>1 DEF Reach
  <2>3. Reach' = Reach
    <3>1. CASE n = 0
      BY <1>1, <1>3, <2>1, <2>2, <3>1 DEF Reach
    <3>2. CASE n # 0
      BY <1>1, <2>1, <2>2, <3>2 DEF Reach
    <3>3. QED
      BY <3>1, <3>2
  <2>4. \A j, k \in 1 .. n + 1 : j < k => k - j <= buffer'[k].final - buffer'[j].final
    <3> SUFFICES ASSUME NEW j \in 1 .. n + 1, NEW k \in 1 .. n + 1, j < k
                 PROVE  k - j <= buffer'[k].final - buffer'[j].final
      OBVIOUS
    <3>1. CASE k <= n
      BY <1>1, <2>1, <3>1 DEF Contiguous
    <3>2. CASE k = n + 1
      <4>1. j \in 1 .. n /\ buffer'[j] = buffer[j] /\ buffer'[k] = e
        BY <1>1, <2>1, <3>2
      <4>2. n - j <= sent - buffer[j].final
        <5>1. n \in 1 .. n /\ buffer[n].final = sent
          BY <1>1, <1>2, <4>1 DEF Contiguous
        <5>2. CASE j = n
          BY <1>2, <4>1, <5>1, <5>2
        <5>3. CASE j < n
          BY <1>1, <4>1, <5>1, <5>3 DEF Contiguous
        <5>4. QED
          BY <1>1, <4>1, <5>2, <5>3
      <4>3. QED
        BY <1>1, <1>2, <1>3, <1>4, <3>2, <4>1, <4>2
    <3>3. QED
      BY <1>1, <3>1, <3>2
  <2>5. \A k \in 1 .. n + 1 : k > 1 => PreviousCut(buffer'[k].final) = buffer'[k - 1].final
    <3> SUFFICES ASSUME NEW k \in 1 .. n + 1, k > 1
                 PROVE  PreviousCut(buffer'[k].final) = buffer'[k - 1].final
      OBVIOUS
    <3>1. CASE k <= n
      BY <1>1, <2>1, <3>1 DEF Contiguous
    <3>2. CASE k = n + 1
      <4>1. n \in 1 .. n /\ buffer[n].final = sent
        BY <1>1, <1>2, <3>2 DEF Contiguous
      <4>2. QED
        BY <1>1, <1>3, <2>1, <3>2, <4>1
    <3>3. QED
      BY <1>1, <3>1, <3>2
  <2>6. \A i \in Reach + 1 .. e.final : \E k \in 1 .. n + 1 :
           i \in PreviousCut(buffer'[k].final) + 1 .. buffer'[k].final
    <3> SUFFICES ASSUME NEW i \in Reach + 1 .. e.final
                 PROVE  \E k \in 1 .. n + 1 :
                            i \in PreviousCut(buffer'[k].final) + 1 .. buffer'[k].final
      OBVIOUS
    <3>1. i \in Int /\ Reach \in Nat
      BY ReachFacts
    <3>2. CASE i <= sent
      <4>1. PICK k \in 1 .. n : i \in PreviousCut(buffer[k].final) + 1 .. buffer[k].final
        BY <1>1, <1>2, <3>1, <3>2 DEF Contiguous
      <4>2. k \in 1 .. n + 1 /\ buffer'[k] = buffer[k]
        BY <1>1, <2>1, <4>1
      <4>3. QED
        BY <4>1, <4>2
    <3>3. CASE i > sent
      <4>1. i \in PreviousCut(buffer'[n + 1].final) + 1 .. buffer'[n + 1].final
        BY <1>2, <1>3, <2>1, <3>1, <3>3
      <4>2. QED
        BY <1>1, <4>1
    <3>4. QED
      BY <1>2, <3>1, <3>2, <3>3
  <2>7. Contiguous'
    BY <1>5, <1>6, <2>1, <2>3, <2>4, <2>5, <2>6 DEF Contiguous
  <2>8. QED
    BY <2>2, <2>3, <2>7
<1>8. CASE /\ Len(buffer) = BufferSize
           /\ Len(Pushed(e)) = n
           /\ Pushed(e)[n] = e
           /\ \A k \in 1 .. n - 1 : Pushed(e)[k] = buffer[k + 1]
  <2>1. /\ n >= 1 /\ n = BufferSize /\ Len(buffer') = n /\ buffer'[n] = e
        /\ \A k \in 1 .. n - 1 : buffer'[k] = buffer[k + 1]
    BY <1>2, <1>8
  <2>2. buffer' # <<>> /\ Reach' = PreviousCut(buffer'[1].final) /\ Len(buffer') = BufferSize
    BY <1>1, <1>5, <1>6, <2>1 DEF Reach
  <2>3. n \in 1 .. n /\ buffer[n].final = sent /\ 1 \in 1 .. n
    BY <1>1, <1>2, <2>1 DEF Contiguous
  <2>4. \A j, k \in 1 .. n : j < k => k - j <= buffer'[k].final - buffer'[j].final
    <3> SUFFICES ASSUME NEW j \in 1 .. n, NEW k \in 1 .. n, j < k
                 PROVE  k - j <= buffer'[k].final - buffer'[j].final
      OBVIOUS
    <3>1. j + 1 \in 1 .. n /\ buffer'[j] = buffer[j + 1]
      BY <1>1, <2>1
    <3>2. CASE k < n
      <4>1. k + 1 \in 1 .. n /\ buffer'[k] = buffer[k + 1]
        BY <1>1, <2>1, <3>2
      <4>2. \A a, b \in 1 .. n : a < b => b - a <= buffer[b].final - buffer[a].final
        BY <1>1 DEF Contiguous
      <4>3. j + 1 < k + 1 /\ (k + 1) - (j + 1) = k - j
        OBVIOUS
      <4>4. k - j <= buffer[k + 1].final - buffer[j + 1].final
        BY <3>1, <4>1, <4>2, <4>3
      <4>5. QED
        BY <3>1, <4>1, <4>4
    <3>3. CASE k = n
      <4>1. n - (j + 1) <= sent - buffer[j + 1].final
        <5>1. CASE j + 1 = n
          BY <1>2, <2>3, <3>1, <5>1
        <5>2. CASE j + 1 < n
          BY <1>1, <2>3, <3>1, <5>2 DEF Contiguous
        <5>3. QED
          BY <1>1, <3>1, <5>1, <5>2
      <4>2. buffer'[k] = e /\ buffer[j + 1].final \in Nat /\ j \in Nat /\ k \in Nat
        BY <1>1, <1>4, <2>1, <3>1, <3>3
      <4>3. QED
        BY <1>1, <1>2, <1>3, <3>1, <3>3, <4>1, <4>2
    <3>4. QED
      BY <1>1, <3>2, <3>3
  <2>5. \A k \in 1 .. n : k > 1 => PreviousCut(buffer'[k].final) = buffer'[k - 1].final
    <3> SUFFICES ASSUME NEW k \in 1 .. n, k > 1
                 PROVE  PreviousCut(buffer'[k].final) = buffer'[k - 1].final
      OBVIOUS
    <3>1. k - 1 \in 1 .. n - 1 /\ buffer'[k - 1] = buffer[k]
      BY <1>1, <2>1
    <3>2. CASE k < n
      <4>1. k + 1 \in 1 .. n /\ buffer'[k] = buffer[k + 1]
        BY <1>1, <2>1, <3>2
      <4>2. \A a \in 1 .. n : a > 1 => PreviousCut(buffer[a].final) = buffer[a - 1].final
        BY <1>1 DEF Contiguous
      <4>3. k + 1 > 1 /\ (k + 1) - 1 = k
        BY <1>1
      <4>4. PreviousCut(buffer[k + 1].final) = buffer[k].final
        BY <4>1, <4>2, <4>3
      <4>5. QED
        BY <3>1, <4>1, <4>4
    <3>3. CASE k = n
      BY <1>3, <2>1, <2>3, <3>1, <3>3
    <3>4. QED
      BY <1>1, <3>2, <3>3
  <2>6. \A i \in PreviousCut(buffer'[1].final) + 1 .. e.final : \E k \in 1 .. n :
           i \in PreviousCut(buffer'[k].final) + 1 .. buffer'[k].final
    <3> SUFFICES ASSUME NEW i \in PreviousCut(buffer'[1].final) + 1 .. e.final
                 PROVE  \E k \in 1 .. n :
                            i \in PreviousCut(buffer'[k].final) + 1 .. buffer'[k].final
      OBVIOUS
    <3>1. CASE n = 1 \/ i > sent
      <4>1. i \in PreviousCut(buffer'[n].final) + 1 .. buffer'[n].final
        BY <1>2, <1>3, <2>1, <3>1
      <4>2. QED
        BY <2>3, <4>1
    <3>2. CASE n # 1 /\ i <= sent
      <4>1. 1 \in 1 .. n - 1 /\ 2 \in 1 .. n /\ buffer'[1] = buffer[2]
        BY <1>1, <2>1, <3>2
      <4>2. PreviousCut(buffer[2].final) = buffer[2 - 1].final
        BY <1>1, <4>1 DEF Contiguous
      <4>3. i > buffer[1].final /\ i \in Int
        BY <1>4, <2>3, <4>1, <4>2
      <4>4. Reach = PreviousCut(buffer[1].final)
        BY <1>1, <2>1 DEF Reach
      <4>5. i \in Reach + 1 .. sent
        BY <1>2, <1>4, <2>3, <3>2, <4>3, <4>4
      <4>6. PICK k \in 1 .. n : i \in PreviousCut(buffer[k].final) + 1 .. buffer[k].final
        BY <1>1, <4>5 DEF Contiguous
      <4>7. k # 1
        BY <1>4, <2>3, <4>3, <4>6
      <4>8. k - 1 \in 1 .. n - 1 /\ k - 1 \in 1 .. n /\ buffer'[k - 1] = buffer[k]
        BY <1>1, <2>1, <4>6, <4>7
      <4>9. QED
        BY <4>6, <4>8
    <3>3. QED
      BY <1>2, <3>1, <3>2
  <2>7. Contiguous'
    BY <1>5, <1>6, <2>1, <2>2, <2>4, <2>5, <2>6 DEF Contiguous
  <2>8. QED
    BY <2>2, <2>7
<1>9. QED
  BY <1>2, <1>7, <1>8, PushedFacts

(* A replay ends at the last update delivered, if it replays any.           *)
LEMMA ReplayEnds ==
  ASSUME TypeOK, CallsTyped, Contiguous, NEW s \in Ids
  PROVE  /\ IdAfterReplay(s) = IF buffer # <<>> /\ s <= sent THEN sent ELSE s
         /\ ~(buffer # <<>> /\ s <= sent) => Replayed(s) = {}
<1> DEFINE n == Len(buffer)
<1>1. n \in Nat /\ DOMAIN buffer = 1 .. n /\ (buffer = <<>> <=> n = 0)
  BY BufferFacts
<1>2. sent \in Nat /\ s \in Nat
  BY MaxIdAssumption DEF CallsTyped, Ids
<1>3. \A k \in 1 .. n : buffer[k].final \in Nat /\ buffer[k].final <= sent
  BY BufferFacts, ReachFacts, MaxIdAssumption
<1>4. \A k \in Replayed(s) : k \in 1 .. n /\ buffer[k].final >= s
  BY <1>1 DEF Replayed
<1>5. CASE buffer # <<>> /\ s <= sent
  <2>1. n \in Replayed(s) /\ buffer[n].final = sent
    BY <1>1, <1>5 DEF Replayed, Contiguous
  <2>2. /\ Latest(Replayed(s)) \in Replayed(s)
        /\ IdAfterReplay(s) = buffer[Latest(Replayed(s))].final
        /\ \A k \in Replayed(s) : k <= Latest(Replayed(s))
    BY <2>1, IdAfterReplayFacts
  <2>3. Latest(Replayed(s)) = n
    BY <1>1, <1>4, <2>1, <2>2
  <2>4. QED
    BY <1>5, <2>1, <2>2, <2>3
<1>6. CASE ~(buffer # <<>> /\ s <= sent)
  <2>1. Replayed(s) = {}
    BY <1>1, <1>2, <1>3, <1>4, <1>6
  <2>2. QED
    BY <1>6, <2>1 DEF IdAfterReplay
<1>7. QED
  BY <1>5, <1>6

(* A snapshot that the buffer reaches back to is bridged by the replay.     *)
LEMMA ReplayReaches ==
  ASSUME TypeOK, CallsTyped, Contiguous, NEW s \in Ids, Reach <= s
  PROVE  Bridged(s)
<1> DEFINE n == Len(buffer)
<1>1. n \in Nat /\ DOMAIN buffer = 1 .. n
  BY BufferFacts
<1>2. sent \in Nat /\ s \in Nat
  BY MaxIdAssumption DEF CallsTyped, Ids
<1>3. \A k \in 1 .. n : buffer[k].final \in Nat /\ buffer[k].final <= sent
  BY BufferFacts, ReachFacts, MaxIdAssumption
<1>4. \A k \in Replayed(s) : k \in 1 .. n /\ buffer[k].final >= s
  BY <1>1 DEF Replayed
<1>5. \A j, k \in Replayed(s) : j < k => buffer[j].final < buffer[k].final
  <2> SUFFICES ASSUME NEW j \in Replayed(s), NEW k \in Replayed(s), j < k
               PROVE  buffer[j].final < buffer[k].final
    OBVIOUS
  <2>1. j \in 1 .. n /\ k \in 1 .. n
    BY <1>4
  <2>2. k - j <= buffer[k].final - buffer[j].final
    BY <1>1, <2>1 DEF Contiguous
  <2>3. QED
    BY <1>3, <2>1, <2>2
<1>6. CASE buffer # <<>> /\ s <= sent
  <2>1. IdAfterReplay(s) = sent
    BY <1>6, ReplayEnds
  <2>2. ASSUME NEW i \in s + 1 .. sent
        PROVE  \E k \in Replayed(s) : i \in PreviousCut(buffer[k].final) + 1 .. buffer[k].final
    <3>1. i \in Reach + 1 .. sent
      BY <1>2, ReachFacts
    <3>2. PICK k \in 1 .. n : i \in PreviousCut(buffer[k].final) + 1 .. buffer[k].final
      BY <1>1, <3>1 DEF Contiguous
    <3>3. buffer[k].final >= s
      BY <1>2, <1>3, <3>2, BufferFacts
    <3>4. QED
      BY <1>1, <3>2, <3>3 DEF Replayed
  <2>3. QED
    BY <1>5, <2>1, <2>2 DEF Bridged
<1>7. CASE ~(buffer # <<>> /\ s <= sent)
  <2>1. IdAfterReplay(s) = s
    BY <1>7, ReplayEnds
  <2>2. s + 1 .. s = {}
    BY <1>2
  <2>3. QED
    BY <1>5, <2>1, <2>2 DEF Bridged
<1>8. QED
  BY <1>6, <1>7

(* The updates since a snapshot are finitely many, and only get more.       *)
LEMMA DeliveredFinite ==
  ASSUME CallsTyped, NEW s \in Ids
  PROVE  IsFiniteSet(DeliveredAfter(s))
<1>1. IsFiniteSet(1 .. MaxId)
  BY MaxIdAssumption, FS_Interval
<1>2. DeliveredAfter(s) \in SUBSET (1 .. MaxId)
  BY DEF DeliveredAfter, CallsTyped, FeedTypeOK
<1>3. QED
  BY <1>1, <1>2, FS_Subset

LEMMA StaysOutrun ==
  ASSUME CallsTyped, CallsTyped', NEW s \in Ids, UNCHANGED cuts, sent <= sent', Outrun(s)
  PROVE  Outrun(s)'
<1>1. IsFiniteSet(DeliveredAfter(s)') /\ IsFiniteSet(DeliveredAfter(s))
  <2>1. IsFiniteSet(1 .. MaxId)
    BY MaxIdAssumption, FS_Interval
  <2>2. DeliveredAfter(s)' \in SUBSET (1 .. MaxId)
    BY DEF DeliveredAfter, CallsTyped, FeedTypeOK
  <2>3. QED
    BY <2>1, <2>2, FS_Subset, DeliveredFinite
<1>2. DeliveredAfter(s) \in SUBSET DeliveredAfter(s)'
  <2>1. \A c \in cuts : c \in Nat
    BY MaxIdAssumption DEF CallsTyped, FeedTypeOK
  <2>2. sent \in Nat /\ sent' \in Nat
    BY MaxIdAssumption DEF CallsTyped, Ids
  <2>3. QED
    BY <2>1, <2>2 DEF DeliveredAfter
<1>3. Cardinality(DeliveredAfter(s)) <= Cardinality(DeliveredAfter(s)')
  BY <1>1, <1>2, FS_Subset
<1>4. Cardinality(DeliveredAfter(s)) \in Nat /\ Cardinality(DeliveredAfter(s)') \in Nat
  BY <1>1, FS_CardinalityType
<1>5. QED
  BY <1>3, <1>4, BufferSizeAssumption DEF Outrun

LEMMA OutrunFixed ==
  ASSUME UNCHANGED <<cuts, sent>>
  PROVE  \A s : Outrun(s)' <=> Outrun(s)
BY DEF Outrun, DeliveredAfter

(* A full ring that does not reach back to a snapshot holds BufferSize      *)
(* updates which the snapshot does not have, and has forgotten the one      *)
(* before them, which it does not have either.                              *)
LEMMA FullRingOutrun ==
  ASSUME TypeOK, CallsTyped, Contiguous, NEW s \in Ids,
         Len(buffer) = BufferSize, s < Reach
  PROVE  Outrun(s)
<1> DEFINE f == [k \in 0 .. BufferSize |-> IF k = 0 THEN Reach ELSE buffer[k].final]
<1>1. /\ BufferSize \in Nat /\ BufferSize >= 1 /\ s \in Nat /\ sent \in Nat
      /\ DOMAIN buffer = 1 .. BufferSize /\ 1 \in 1 .. BufferSize /\ buffer # <<>>
  BY BufferSizeAssumption, MaxIdAssumption, BufferFacts DEF CallsTyped, Ids
<1>2. Reach = PreviousCut(buffer[1].final)
  BY <1>1 DEF Reach
<1>3. \A k \in 1 .. BufferSize : /\ buffer[k].final \in Nat
                                  /\ buffer[k].final \in cuts
                                  /\ buffer[k].final <= sent
  BY BufferFacts, UpdateFacts, ReachFacts, MaxIdAssumption DEF CallsTyped
<1>4. Reach \in Nat /\ Reach \in cuts /\ Reach < buffer[1].final
  <2>1. FeedTypeOK /\ buffer[1].final \in Nat /\ buffer[1].final # 0
    BY <1>1, <1>3, BufferFacts DEF CallsTyped
  <2>2. Reach \in cuts \cup {0} /\ Reach \in Ids /\ Reach < buffer[1].final
    BY <1>2, <2>1, PreviousCutIsLatest
  <2>3. QED
    BY <1>1, <2>2, MaxIdAssumption DEF Ids
<1>5. \A j, k \in 1 .. BufferSize : j < k => buffer[j].final < buffer[k].final
  <2> SUFFICES ASSUME NEW j \in 1 .. BufferSize, NEW k \in 1 .. BufferSize, j < k
               PROVE  buffer[j].final < buffer[k].final
    OBVIOUS
  <2>1. k - j <= buffer[k].final - buffer[j].final
    BY <1>1 DEF Contiguous
  <2>2. QED
    BY <1>1, <1>3, <2>1
<1>6. \A k \in 1 .. BufferSize : Reach < buffer[k].final
  <2> SUFFICES ASSUME NEW k \in 1 .. BufferSize PROVE Reach < buffer[k].final
    OBVIOUS
  <2>1. CASE k = 1
    BY <1>4, <2>1
  <2>2. CASE k # 1
    <3>1. 1 < k
      BY <1>1, <2>2
    <3>2. buffer[1].final < buffer[k].final
      BY <1>1, <1>5, <3>1
    <3>3. QED
      BY <1>1, <1>3, <1>4, <3>2
  <2>3. QED
    BY <2>1, <2>2
<1>7. \A k \in 0 .. BufferSize : f[k] \in DeliveredAfter(s)
  <2> SUFFICES ASSUME NEW k \in 0 .. BufferSize PROVE f[k] \in DeliveredAfter(s)
    OBVIOUS
  <2>1. CASE k = 0
    BY <1>1, <1>3, <1>4, <2>1 DEF DeliveredAfter
  <2>2. CASE k # 0
    <3>1. k \in 1 .. BufferSize /\ f[k] = buffer[k].final
      BY <1>1, <2>2
    <3>2. QED
      BY <1>1, <1>3, <1>4, <1>6, <3>1 DEF DeliveredAfter
  <2>3. QED
    BY <2>1, <2>2
<1>8. \A j, k \in 0 .. BufferSize : j < k => f[j] < f[k]
  <2> SUFFICES ASSUME NEW j \in 0 .. BufferSize, NEW k \in 0 .. BufferSize, j < k
               PROVE  f[j] < f[k]
    OBVIOUS
  <2>1. k \in 1 .. BufferSize /\ f[k] = buffer[k].final
    BY <1>1
  <2>2. CASE j = 0
    BY <1>6, <2>1, <2>2
  <2>3. CASE j # 0
    <3>1. j \in 1 .. BufferSize /\ f[j] = buffer[j].final
      BY <1>1, <2>3
    <3>2. QED
      BY <1>5, <2>1, <3>1
  <2>4. QED
    BY <2>2, <2>3
<1>9. f \in Injection(0 .. BufferSize, DeliveredAfter(s))
  <2>1. f \in [0 .. BufferSize -> DeliveredAfter(s)]
    BY <1>7
  <2>2. \A k \in 0 .. BufferSize : f[k] \in Nat /\ k \in Nat
    BY <1>1, <1>3, <1>4
  <2> HIDE DEF f
  <2>3. \A j, k \in 0 .. BufferSize : f[j] = f[k] => j = k
    BY <1>8, <2>2
  <2>4. QED
    BY <2>1, <2>3 DEF Injection, IsInjective
<1>10. Cardinality(0 .. BufferSize) <= Cardinality(DeliveredAfter(s))
  BY <1>9, DeliveredFinite, FS_Injection
<1>11. Cardinality(0 .. BufferSize) = BufferSize + 1
  BY <1>1, FS_Interval
<1>12. Cardinality(DeliveredAfter(s)) \in Nat
  BY DeliveredFinite, FS_CardinalityType
<1>13. QED
  BY <1>1, <1>10, <1>11, <1>12 DEF Outrun

(* What stays when neither the buffer nor the connection changes, and what  *)
(* an empty buffer means.                                                   *)
LEMMA DeliveryUntouched ==
  ASSUME UNCHANGED <<buffer, sent, cuts>>
  PROVE  Reach' = Reach /\ (Contiguous' <=> Contiguous)
<1>1. \A c : PreviousCut(c)' = PreviousCut(c)
  BY CutsFixed
<1>2. Reach' = Reach
  BY <1>1 DEF Reach
<1>3. QED
  BY <1>1, <1>2 DEF Contiguous

LEMMA EmptyIsContiguous ==
  ASSUME sent \in Ids, buffer = <<>>
  PROVE  Reach = sent /\ Contiguous
<1>1. sent \in Nat /\ sent + 1 .. sent = {} /\ DOMAIN buffer = {}
  BY MaxIdAssumption DEF Ids
<1>2. QED
  BY <1>1 DEF Reach, Contiguous

LEMMA EmptiedIsContiguous ==
  ASSUME sent' \in Nat, buffer' = <<>>
  PROVE  Contiguous'
<1>1. Reach' = sent' /\ DOMAIN buffer' = {}
  BY DEF Reach
<1>2. \A n \in Nat : n + 1 .. n = {}
  OBVIOUS
<1>3. sent' + 1 .. sent' = {}
  BY <1>2
<1>4. QED
  BY <1>1, <1>3 DEF Contiguous

LEMMA InitDelivered == DeltaInit => InTime /\ Contiguous
<1> SUFFICES ASSUME DeltaInit PROVE InTime /\ Contiguous
  OBVIOUS
<1>1. InTime
  BY DEF DeltaInit, Init, EmptyInit, SessionInit, InTime, NoRefill
<1>2. sent \in Ids /\ buffer = <<>>
  BY MaxIdAssumption DEF DeltaInit, Init, EmptyInit, SessionInit, Ids
<1>3. QED
  BY <1>1, <1>2, EmptyIsContiguous

(* Updates are delivered as they come, and buffered without holes.          *)
LEMMA StepDelivered ==
  ASSUME OrderlyFeed, TypeOK, TypeOK', CallsTyped, CallsTyped', CacheInv,
         InTime, Contiguous, [DeltaNext]_dsVars
  PROVE  InTime' /\ Contiguous'
<1>0. sent' \in Nat
  BY MaxIdAssumption DEF CallsTyped, Ids
<1>1. /\ now \in Nat /\ sent \in Nat /\ subscribedAt \in Nat /\ lastUpdateId \in Nat
      /\ refill.snapshot \in Nat /\ refill.snapshot \in Ids
      /\ refill \in [phase : Phases, generation : Nat, connected : BOOLEAN, snapshot : Ids]
  BY MaxIdAssumption DEF CallsTyped, TypeOK, Ids
<1>2. session \in {"connecting", "subscribed"} => ~state.connected
  BY DEF CacheInv, CacheFollowsReconstruction
<1>3. CASE Tick
  <2>1. InTime'
    BY <1>1, <1>3 DEF Tick, InTime, vars, sessionVars
  <2>2. QED
    BY <1>3, <2>1, DeliveryUntouched DEF Tick, vars, sessionVars
<1>4. CASE Subscribe
  <2>1. InTime'
    BY <1>1, <1>4, SubscribedCut DEF Subscribe, InTime, vars, CallsTyped
  <2>2. buffer' = <<>>
    BY <1>4 DEF Subscribe, InTime, vars
  <2>3. Contiguous'
    BY <1>0, <2>2, EmptiedIsContiguous
  <2>4. QED
    BY <2>1, <2>3
<1>5. CASE MarkConnected \/ ConnectionLost
  <2>1. InTime'
    BY <1>1, <1>5 DEF MarkConnected, ConnectionLost, InTime, vars
  <2>2. QED
    BY <1>5, <2>1, DeliveryUntouched DEF MarkConnected, ConnectionLost, vars
<1>6. CASE ResetSymbol
  <2>1. InTime'
    BY <1>1, <1>6 DEF ResetSymbol, Reset, InTime, feedVars
  <2>2. buffer' = <<>>
    BY <1>6 DEF ResetSymbol, Reset
  <2>3. Contiguous'
    BY <1>0, <2>2, EmptiedIsContiguous
  <2>4. QED
    BY <2>1, <2>3
<1>7. ASSUME NEW e \in Updates, ReceiveDelta(e)
      PROVE  InTime' /\ Contiguous'
  <2>1. /\ Undelivered # {} /\ e.final = NextCut /\ sent' = e.final
        /\ session = "streaming" /\ session' \in {"streaming", "failed"}
        /\ UNCHANGED <<history, cuts, now, subscribedAt, refill>>
    BY <1>7 DEF ReceiveDelta, feedVars
  <2>2. buffer' = Pushed(e)
    BY <1>7 DEF ReceiveDelta, Buffered, Rejected, Applied
  <2>3. NextCut \in cuts /\ NextCut <= now
    BY <2>1, NextCutFacts DEF CallsTyped
  <2>4. lastUpdateId' = lastUpdateId \/ lastUpdateId' = e.final
    BY <1>7 DEF ReceiveDelta, Buffered, Rejected, Applied
  <2>5. InTime'
    BY <2>1, <2>3, <2>4 DEF InTime
  <2>6. QED
    BY <2>1, <2>2, <2>5, PushKeepsContiguous DEF feedVars
<1>8. CASE StartRefill \/ RefillHit \/ StartFetch \/ FetchAnswered \/ FetchFailed
  <2>1. UNCHANGED <<vars, now, session, sent, subscribedAt>>
    BY <1>8 DEF StartRefill, RefillHit, StartFetch, FetchAnswered, FetchFailed, sessionVars
  <2>2. refill'.phase = "settling" => refill'.snapshot <= now
    <3>1. CASE FetchAnswered
      BY <1>1, <3>1 DEF FetchAnswered
    <3>2. CASE StartRefill \/ StartFetch
      BY <1>1, <3>2 DEF StartRefill, StartFetch
    <3>3. CASE RefillHit \/ FetchFailed
      BY <3>3 DEF RefillHit, FetchFailed, NoRefill
    <3>4. QED
      BY <1>8, <3>1, <3>2, <3>3
  <2>3. InTime'
    BY <2>1, <2>2 DEF InTime, vars
  <2>4. QED
    BY <2>1, <2>3, DeliveryUntouched DEF vars
<1>9. CASE FinishRefill
  <2>1. /\ refill.phase = "settling" /\ refill'.phase = "idle"
        /\ UNCHANGED <<history, cuts, now, session, sent, subscribedAt>>
    BY <1>9 DEF FinishRefill, NoRefill, feedVars, sessionVars
  <2>2. CASE SameConnection /\ ApplySnapshot(TruthAt(refill.snapshot), refill.snapshot)
    <3>1. buffer' = <<>> /\ lastUpdateId' = IdAfterReplay(refill.snapshot)
      BY <2>2 DEF ApplySnapshot
    <3>2. lastUpdateId' <= now
      <4>1. CASE Replayed(refill.snapshot) = {}
        BY <2>1, <3>1, <4>1 DEF IdAfterReplay, InTime
      <4>2. CASE Replayed(refill.snapshot) # {}
        <5>1. PICK k \in Replayed(refill.snapshot) : lastUpdateId' = buffer[k].final
          BY <1>1, <3>1, <4>2, IdAfterReplayFacts
        <5>2. k \in 1 .. Len(buffer)
          BY <5>1, BufferFacts DEF Replayed
        <5>3. buffer[k].final <= sent /\ buffer[k].final \in Nat
          BY <5>2, BufferFacts, ReachFacts, MaxIdAssumption
        <5>4. QED
          BY <1>1, <5>1, <5>3 DEF InTime
      <4>3. QED
        BY <4>1, <4>2
    <3>3. session \notin {"connecting", "subscribed"}
      BY <1>2, <2>2 DEF SameConnection
    <3>4. InTime'
      BY <2>1, <3>1, <3>2, <3>3 DEF InTime
    <3>5. Contiguous'
      BY <1>0, <3>1, EmptiedIsContiguous
    <3>6. QED
      BY <3>4, <3>5
  <2>3. CASE UNCHANGED bookVars
    <3>1. InTime'
      BY <2>1, <2>3 DEF InTime, bookVars
    <3>2. QED
      BY <2>1, <2>3, <3>1, DeliveryUntouched DEF bookVars
  <2>4. QED
    BY <1>9, <2>2, <2>3 DEF FinishRefill
<1>10. CASE UNCHANGED dsVars
  <2>1. InTime'
    BY <1>10 DEF InTime, dsVars, vars, sessionVars
  <2>2. QED
    BY <1>10, <2>1, DeliveryUntouched DEF dsVars, vars, sessionVars
<1>11. ~LoseDelta /\ ~ReceiveSnapshot
  BY DEF OrderlyFeed, LoseDelta, ReceiveSnapshot
<1>12. QED
  BY <1>3, <1>4, <1>5, <1>6, <1>7, <1>8, <1>9, <1>10, <1>11
  DEF DeltaNext, SessionStep, Receive, RefillStep, Disturbance

LEMMA AlwaysDelivered ==
  ASSUME OrderlyFeed
  PROVE  DeltaSpec => [](InTime /\ Contiguous)
<1>1. TypeOK /\ TypeOK' /\ CallsTyped /\ CallsTyped' /\ CacheInv /\ InTime /\ Contiguous
      /\ [DeltaNext]_dsVars => InTime' /\ Contiguous'
  BY StepDelivered
<1>2. QED
  BY <1>1, InitDelivered, AlwaysTyped, PTL DEF DeltaSpec

-----------------------------------------------------------------------------
(* The served book.                                                         *)

Synchronous == GenerationTells /\ SnapshotFits /\ TrueBook /\ ~bootstrapPending

(* On a chained feed Rule 4 lets no update through that skips a change.     *)
LEMMA ChainNeverSkips ==
  ASSUME OrderlyFeed, TypeOK, ~bootstrapPending, NEW e \in Updates, Applied(e)
  PROVE  ~Skips(e) /\ lastUpdateId <= e.final
<1>1. FeedTypeOK /\ lastUpdateId \in Nat
  BY MaxIdAssumption DEF TypeOK, Ids
<1>2. e.previousId = PreviousCut(e.final) /\ PreviousCut(e.final) \in Nat /\ e.final \in Nat
  BY <1>1, UpdateFacts, MaxIdAssumption DEF OrderlyFeed
<1>3. e.previousId = 0 \/ e.previousId = lastUpdateId
  BY DEF Applied, ChainBroken
<1>4. QED
  BY <1>1, <1>2, <1>3 DEF Skips, Applied, Stale

LEMMA InitSynchronous == DeltaInit => Synchronous
BY DEF DeltaInit, Init, EmptyInit, SessionInit, Synchronous, GenerationTells, SnapshotFits,
       Usable, TrueBook, NoRefill

(* A refill that will be used is one of the connection that is streaming.   *)
LEMMA UsableStreams ==
  ASSUME CacheInv, Usable
  PROVE  session \notin {"connecting", "subscribed"}
BY DEF CacheInv, CacheFollowsReconstruction, Usable, SameConnection

LEMMA StepSynchronous ==
  ASSUME OrderlyFeed, TypeOK, TypeOK', CallsTyped, CallsTyped', CacheInv, CacheInv',
         InTime, Contiguous, Synchronous, RingForgetsLate', [DeltaNext]_dsVars
  PROVE  Synchronous'
<1> USE DEF Synchronous
<1>1. /\ now \in Nat /\ sent \in Nat /\ subscribedAt \in Nat /\ lastUpdateId \in Nat
      /\ refill.snapshot \in Nat /\ refill.snapshot \in Ids
      /\ refill \in [phase : Phases, generation : Nat, connected : BOOLEAN, snapshot : Ids]
      /\ state \in [generation : Nat, connected : BOOLEAN, ready : BOOLEAN, cached : {state.cached}]
  BY MaxIdAssumption DEF CallsTyped, TypeOK, Ids
<1>2. UNCHANGED feedVars
  BY StepIsBookStep DEF Next, DeltaStep, SnapshotStep, ResetStep, vars, feedVars
<1>3. TruthAt(lastUpdateId)' = TruthAt(lastUpdateId')
  BY <1>2, FeedFixed
<1>4. Reach \in Nat /\ Reach <= sent
  BY ReachFacts
<1>5. CASE UNCHANGED <<vars, sent, subscribedAt, state, refill, overrun>>
  <2>1. Reach' = Reach
    BY <1>5, DeliveryUntouched DEF vars
  <2>2. SnapshotFits'
    BY <1>5, <2>1, OutrunFixed DEF SnapshotFits, Usable, SameConnection, vars
  <2>3. QED
    BY <1>3, <1>5, <2>2 DEF GenerationTells, TrueBook, vars
<1>6. CASE Subscribe
  <2>1. ~Usable'
    BY <1>6 DEF Subscribe, CacheInv, CacheFollowsReconstruction, Usable, SameConnection
  <2>2. QED
    BY <1>3, <1>6, <2>1 DEF Subscribe, SnapshotFits, GenerationTells, TrueBook, vars
<1>7. CASE MarkConnected
  <2>1. session = "subscribed" /\ ~state.connected
    BY <1>7 DEF MarkConnected, CacheInv, CacheFollowsReconstruction
  <2>2. ~(refill.connected /\ refill.generation = state.generation)
    BY <2>1 DEF GenerationTells
  <2>3. state'.connected /\ state'.generation = state.generation /\ state'.ready = state.ready
    BY <1>1, <1>7 DEF MarkConnected
  <2>4. UNCHANGED <<refill, book, lastUpdateId, bootstrapPending, overrun>>
    BY <1>7 DEF MarkConnected, vars
  <2>5. ~Usable'
    BY <2>2, <2>3, <2>4 DEF Usable, SameConnection
  <2>6. QED
    BY <1>3, <2>3, <2>4, <2>5 DEF SnapshotFits, GenerationTells, TrueBook
<1>8. CASE ResetSymbol
  <2>1. /\ state'.generation = state.generation + 1 /\ ~state'.connected /\ ~state'.ready
        /\ refill' = refill /\ ~bootstrapPending'
    BY <1>8 DEF ResetSymbol, ResetState, Reset
  <2>2. GenerationTells'
    BY <1>1, <2>1 DEF GenerationTells
  <2>3. QED
    BY <2>1, <2>2 DEF SnapshotFits, Usable, SameConnection, TrueBook
<1>9. ASSUME NEW e \in Updates, ReceiveDelta(e)
      PROVE  Synchronous'
  <2>1. /\ Undelivered # {} /\ e.final = NextCut /\ sent' = e.final
        /\ UNCHANGED <<cuts, now, subscribedAt, refill, overrun>>
    BY <1>9 DEF ReceiveDelta, feedVars
  <2>2. buffer' = Pushed(e) /\ ~bootstrapPending'
    BY <1>9 DEF ReceiveDelta, Buffered, Rejected, Applied
  <2>3. sent < sent' /\ sent' \in Nat
    BY <2>1, NextCutFacts, MaxIdAssumption DEF CallsTyped, Ids
  <2>4. /\ buffer' # <<>>
        /\ \/ Reach' = Reach
           \/ Len(buffer') = BufferSize /\ Reach' = PreviousCut(buffer'[1].final)
    BY <1>2, <2>1, <2>2, PushKeepsContiguous
  <2>5. state' = state \/ state' = Refreshed
    BY <1>9 DEF ReceiveDelta
  <2>6. /\ state'.connected = state.connected /\ state'.generation = state.generation
        /\ state'.ready = state.ready
    BY <1>1, <2>5 DEF Refreshed
  <2>7. \A c : PreviousCut(c)' = PreviousCut(c)
    BY <1>2, CutsFixed DEF feedVars
  <2>8. SnapshotFits'
    <3> SUFFICES ASSUME Usable'
                 PROVE  /\ Reach' <= refill.snapshot \/ Outrun(refill.snapshot)'
                        /\ subscribedAt <= refill.snapshot
                        /\ lastUpdateId' <= refill.snapshot \/ lastUpdateId' <= sent'
      BY <2>1, <2>4 DEF SnapshotFits
    <3>1. Usable
      BY <2>1, <2>6 DEF Usable, SameConnection
    <3>2. Reach' <= refill.snapshot \/ Outrun(refill.snapshot)'
      <4>1. CASE Len(buffer') = BufferSize
        <5>1. RingForgetsLate' /\ refill'.snapshot \in Ids' /\ refill' = refill
          BY <1>1, <2>1 DEF Ids
        <5>2. QED
          BY <4>1, <5>1 DEF RingForgetsLate
      <4>2. CASE Reach' = Reach
        <5>1. Outrun(refill.snapshot) => Outrun(refill.snapshot)'
          <6>1. sent <= sent'
            BY <1>1, <2>3
          <6>2. \A s \in Ids : Outrun(s) => Outrun(s)'
            BY <2>1, <6>1, StaysOutrun
          <6>3. QED
            BY <1>1, <2>1, <6>2
        <5>2. QED
          BY <3>1, <4>2, <5>1 DEF SnapshotFits
      <4>3. QED
        BY <2>4, <4>1, <4>2
    <3>3. lastUpdateId' <= refill.snapshot \/ lastUpdateId' <= sent'
      <4>1. CASE Applied(e)
        BY <2>1, <2>3, <4>1 DEF Applied
      <4>2. CASE Buffered(e) \/ Rejected(e)
        <5>1. lastUpdateId' = lastUpdateId
          BY <4>2 DEF Buffered, Rejected
        <5>2. lastUpdateId <= refill.snapshot \/ lastUpdateId <= sent
          BY <3>1 DEF SnapshotFits
        <5>3. QED
          BY <1>1, <2>3, <5>1, <5>2
      <4>3. QED
        BY <1>9, <4>1, <4>2 DEF ReceiveDelta
    <3>4. QED
      BY <3>1, <3>2, <3>3 DEF SnapshotFits
  <2>9. TrueBook'
    <3> SUFFICES ASSUME state.ready, ~overrun PROVE book' = TruthAt(lastUpdateId')
      BY <1>3, <2>1, <2>6 DEF TrueBook
    <3>1. CASE Applied(e)
      BY <3>1, ChainNeverSkips, AppliedSyncs DEF TrueBook, Applied
    <3>2. CASE Buffered(e) \/ Rejected(e)
      BY <3>2 DEF Buffered, Rejected, TrueBook
    <3>3. QED
      BY <1>9, <3>1, <3>2 DEF ReceiveDelta
  <2>10. QED
    BY <2>1, <2>2, <2>6, <2>8, <2>9 DEF GenerationTells
<1>10. CASE StartRefill \/ RefillHit \/ StartFetch \/ FetchFailed
  <2>1. UNCHANGED <<vars, state, overrun>> /\ refill'.phase # "settling"
    <3>1. CASE StartRefill \/ StartFetch
      BY <1>1, <3>1 DEF StartRefill, StartFetch
    <3>2. CASE RefillHit \/ FetchFailed
      BY <3>2 DEF RefillHit, FetchFailed, NoRefill
    <3>3. QED
      BY <1>10, <3>1, <3>2
  <2>2. GenerationTells'
    <3>1. CASE StartRefill
      BY <1>1, <3>1 DEF StartRefill, GenerationTells
    <3>2. CASE RefillHit \/ FetchFailed
      BY <1>1, <3>2 DEF RefillHit, FetchFailed, NoRefill, GenerationTells
    <3>3. CASE StartFetch
      BY <1>1, <3>3 DEF StartFetch, GenerationTells
    <3>4. QED
      BY <1>10, <3>1, <3>2, <3>3
  <2>3. QED
    BY <1>3, <2>1, <2>2 DEF SnapshotFits, Usable, TrueBook, vars
<1>11. CASE FetchAnswered
  <2>1. UNCHANGED <<vars, sent, subscribedAt, state, overrun>>
    BY <1>11 DEF FetchAnswered, sessionVars
  <2>2. refill'.snapshot = now /\ refill'.generation = refill.generation
        /\ refill'.connected = refill.connected
    BY <1>1, <1>11, MaxIdAssumption DEF FetchAnswered, OrderlyFeed, Ids
  <2>3. Reach' = Reach
    BY <2>1, DeliveryUntouched DEF vars
  <2>4. SnapshotFits'
    BY <1>1, <1>4, <2>1, <2>2, <2>3 DEF SnapshotFits, InTime, vars
  <2>5. QED
    BY <1>3, <2>1, <2>2, <2>4 DEF GenerationTells, TrueBook, vars
<1>12. CASE FinishRefill
  <2>1. refill'.phase = "idle" /\ ~refill'.connected /\ refill'.generation = 0
    BY <1>12 DEF FinishRefill, NoRefill
  <2>2. CASE /\ SameConnection
             /\ ApplySnapshot(TruthAt(refill.snapshot), refill.snapshot)
             /\ state' = [state EXCEPT !.ready = TRUE,
                                       !.cached = [book |-> book', id |-> lastUpdateId']]
             /\ overrun' = (Cardinality(DeliveredAfter(refill.snapshot)) > BufferSize)
    <3>1. Usable /\ (Reach <= refill.snapshot \/ Outrun(refill.snapshot))
      BY <1>12, <2>2 DEF FinishRefill, Usable, SnapshotFits
    <3>2. ~overrun' => Bridged(refill.snapshot)
      BY <1>1, <2>2, <3>1, ReplayReaches DEF Outrun
    <3>3. ~overrun' => book' = TruthAt(lastUpdateId')
      BY <1>1, <2>2, <3>2, ReplaySyncs DEF ApplySnapshot
    <3>4. ~bootstrapPending'
      BY <2>2 DEF ApplySnapshot, SeamExempt, OrderlyFeed
    <3>5. state'.generation = state.generation
      BY <1>1, <2>2
    <3>6. QED
      BY <1>1, <1>3, <2>1, <3>3, <3>4, <3>5 DEF GenerationTells, SnapshotFits, Usable, TrueBook
  <2>3. CASE UNCHANGED <<bookVars, state, overrun>>
    BY <1>1, <1>3, <2>1, <2>3 DEF GenerationTells, SnapshotFits, Usable, TrueBook, bookVars
  <2>4. QED
    BY <1>12, <2>2, <2>3 DEF FinishRefill
<1>13. ~LoseDelta /\ ~ReceiveSnapshot
  BY DEF OrderlyFeed, LoseDelta, ReceiveSnapshot
<1>14. QED
  BY <1>5, <1>6, <1>7, <1>8, <1>9, <1>10, <1>11, <1>12, <1>13
  DEF DeltaNext, SessionStep, Receive, RefillStep, Disturbance, Tick, ConnectionLost,
      sessionVars, dsVars

LEMMA AlwaysSynchronous ==
  ASSUME OrderlyFeed
  PROVE  DeltaSpec => []Synchronous
<1>1. TypeOK /\ CallsTyped /\ Contiguous => RingForgetsLate
  <2> SUFFICES ASSUME TypeOK, CallsTyped, Contiguous, Len(buffer) = BufferSize,
                      NEW s \in Ids, ~(Reach <= s)
               PROVE  Outrun(s)
    BY DEF RingForgetsLate
  <2>1. s < Reach
    BY ReachFacts, MaxIdAssumption DEF Ids
  <2>2. QED
    BY <2>1, FullRingOutrun
<1>2. /\ TypeOK /\ TypeOK' /\ CallsTyped /\ CallsTyped' /\ CacheInv /\ CacheInv' /\ InTime
      /\ Contiguous /\ Synchronous /\ RingForgetsLate' /\ [DeltaNext]_dsVars
      => Synchronous'
  BY StepSynchronous
<1>3. QED
  BY <1>1, <1>2, InitSynchronous, AlwaysTyped, AlwaysDelivered, PTL DEF DeltaSpec

LEMMA ServedFromTrueBook == CacheInv /\ TrueBook => ServedBookIsTrue
<1> SUFFICES ASSUME CacheInv, TrueBook, Servable, ~overrun
             PROVE  state.cached.book = TruthAt(state.cached.id)
  BY DEF ServedBookIsTrue
<1>1. state.cached = [book |-> book, id |-> lastUpdateId] /\ state.ready
  BY DEF Servable, CacheInv, CacheFollowsReconstruction
<1>2. QED
  BY <1>1 DEF TrueBook

(* On an orderly feed a read is served the exchange's own book at the id it *)
(* is cached under, across reconnects, resets and refills in flight,        *)
(* whatever the size of the ring: unless more updates came between the      *)
(* snapshot and its use than the ring has room for, the replay has all that *)
(* the snapshot has not.                                                    *)
THEOREM ServedBook ==
  ASSUME OrderlyFeed
  PROVE  DeltaSpec => []ServedBookIsTrue
<1>1. CacheInv /\ Synchronous => ServedBookIsTrue
  BY ServedFromTrueBook DEF Synchronous
<1>2. QED
  BY <1>1, AlwaysTyped, AlwaysSynchronous, PTL

-----------------------------------------------------------------------------
(* What is served keeps the promise of OrderbookCache.                      *)

Floor == IF state.cached # NoBook THEN state.cached.id ELSE subscribedAt

LEMMA SameBooks ==
  /\ Cache!Nothing = NoBook
  /\ Cache!Ids = Ids
  /\ \A i : Cache!Entry(i) = [book |-> TruthAt(i), id |-> i]
BY DEF Cache!Nothing, NoBook, Cache!EmptyBook, EmptyBook, Cache!Levels, Levels, Cache!Sides,
       Sides, Cache!Ids, Ids, Cache!Entry, Cache!TruthAt, TruthAt, Cache!Touches, Touches,
       Cache!Latest, Latest

LEMMA NoBookFixed == NoBook' = NoBook
BY DEF NoBook, EmptyBook

(* As long as the ids do not go back and what is served is true, a step is  *)
(* one of OrderbookCache.                                                   *)
LEMMA ShowOrHide ==
  ASSUME UNCHANGED <<history, cuts>>, state'.generation = state.generation,
         Floor' \in Ids, Floor' >= Floor,
         (Servable /\ ~overrun)'
            => state'.cached = [book |-> TruthAt(state'.cached.id), id |-> state'.cached.id]
  PROVE  Cache!Show \/ Cache!Hide
<1>1. CASE (Servable /\ ~overrun)'
  <2>1. Floor' = state'.cached.id
    BY <1>1 DEF Servable, Floor
  <2>2. (Servable /\ ~overrun)' /\ Cache!Entry(Floor') = state'.cached
    BY <1>1, <2>1, SameBooks
  <2>3. \E i \in Cache!Ids :
           i >= Floor /\ (IF Servable /\ ~overrun THEN state.cached ELSE NoBook)' = Cache!Entry(i) /\ Floor' = i
    BY <2>2, SameBooks
  <2>4. QED
    BY <2>3 DEF Cache!Show, Floor, Cache!feedVars
<1>2. CASE ~(Servable /\ ~overrun)'
  <2>1. (IF Servable /\ ~overrun THEN state.cached ELSE NoBook)' = Cache!Nothing
    BY <1>2, NoBookFixed, SameBooks
  <2>2. Floor' \in {i \in Cache!Ids : i >= Floor}
    BY SameBooks
  <2>3. QED
    BY <2>1, <2>2 DEF Cache!Hide, Floor, Cache!feedVars
<1>3. QED
  BY <1>1, <1>2

(* While the generation lasts the ids of what is cached do not go back.     *)
LEMMA FloorRises ==
  ASSUME OrderlyFeed, TypeOK, TypeOK', CallsTyped, CallsTyped', CacheInv, CacheInv',
         InTime, Contiguous, Synchronous, DeltaNext, ~ResetSymbol
  PROVE  /\ UNCHANGED <<history, cuts>>
         /\ state'.generation = state.generation
         /\ Floor' \in Ids
         /\ Floor' >= Floor
<1>1. /\ now \in Nat /\ sent \in Nat /\ subscribedAt \in Nat /\ lastUpdateId \in Nat
      /\ refill.snapshot \in Nat /\ refill.snapshot \in Ids
      /\ state \in [generation : Nat, connected : BOOLEAN, ready : BOOLEAN, cached : {state.cached}]
  BY MaxIdAssumption DEF CallsTyped, TypeOK, Ids
<1>2. Floor \in Nat /\ Floor = IF state.ready THEN lastUpdateId ELSE subscribedAt
  BY <1>1 DEF CacheInv, CacheFollowsReconstruction, Floor
<1>3. Floor' \in Ids /\ Floor' = IF state'.ready THEN lastUpdateId' ELSE subscribedAt'
  BY DEF CacheInv, CacheFollowsReconstruction, Floor, CallsTyped, TypeOK
<1>4. CASE UNCHANGED <<history, cuts, state, lastUpdateId, subscribedAt>>
  BY <1>2, <1>3, <1>4
<1>5. CASE Subscribe
  BY <1>2, <1>3, <1>5 DEF Subscribe, InTime, vars
<1>6. CASE MarkConnected
  BY <1>1, <1>2, <1>3, <1>6 DEF MarkConnected, vars
<1>7. ASSUME NEW e \in Updates, ReceiveDelta(e)
      PROVE  UNCHANGED <<history, cuts>> /\ state'.generation = state.generation /\ Floor' >= Floor
  <2>1. UNCHANGED <<history, cuts, subscribedAt>>
    BY <1>7 DEF ReceiveDelta, feedVars
  <2>2. CASE Buffered(e) \/ Rejected(e)
    <3>1. UNCHANGED <<state, lastUpdateId>>
      BY <1>7, <2>2 DEF ReceiveDelta, Applied, Buffered, Rejected
    <3>2. QED
      BY <1>2, <1>3, <2>1, <3>1
  <2>3. CASE Applied(e)
    <3>1. state' = Refreshed
      BY <1>7, <2>3 DEF ReceiveDelta, Applied, Rejected, Buffered
    <3>2. state'.generation = state.generation /\ state'.ready = state.ready
      BY <1>1, <3>1 DEF Refreshed
    <3>3. lastUpdateId <= lastUpdateId'
      BY <2>3, ChainNeverSkips DEF Applied, Synchronous
    <3>4. QED
      BY <1>1, <1>2, <1>3, <2>1, <3>2, <3>3
  <2>4. QED
    BY <1>7, <2>2, <2>3 DEF ReceiveDelta
<1>8. CASE FinishRefill
  <2>1. refill.phase = "settling" /\ UNCHANGED <<history, cuts, subscribedAt>>
    BY <1>8 DEF FinishRefill, feedVars, sessionVars
  <2>2. CASE UNCHANGED <<bookVars, state>>
    BY <1>2, <1>3, <2>1, <2>2 DEF bookVars
  <2>3. CASE /\ SameConnection
             /\ ApplySnapshot(TruthAt(refill.snapshot), refill.snapshot)
             /\ state' = [state EXCEPT !.ready = TRUE,
                                       !.cached = [book |-> book', id |-> lastUpdateId']]
    <3>1. state'.generation = state.generation /\ state'.ready
      BY <1>1, <2>3
    <3>2. /\ subscribedAt <= refill.snapshot
          /\ lastUpdateId <= refill.snapshot \/ (buffer # <<>> /\ lastUpdateId <= sent)
      BY <2>1, <2>3 DEF Synchronous, SnapshotFits, Usable
    <3>3. lastUpdateId' = IF buffer # <<>> /\ refill.snapshot <= sent
                          THEN sent ELSE refill.snapshot
      BY <1>1, <2>3, ReplayEnds DEF ApplySnapshot
    <3>4. QED
      BY <1>1, <1>2, <1>3, <2>1, <3>1, <3>2, <3>3
  <2>4. QED
    BY <1>8, <2>2, <2>3 DEF FinishRefill
<1>9. ~LoseDelta /\ ~ReceiveSnapshot
  BY DEF OrderlyFeed, LoseDelta, ReceiveSnapshot
<1>10. QED
  BY <1>3, <1>4, <1>5, <1>6, <1>7, <1>8, <1>9
  DEF DeltaNext, SessionStep, Receive, RefillStep, Disturbance, Tick, StartRefill, RefillHit,
      StartFetch, FetchAnswered, ConnectionLost, FetchFailed, vars, sessionVars

(* What get_multi hands out keeps the promise of OrderbookCache: on an      *)
(* orderly feed the session, the cached state and the refills implement it. *)
(* The ids do not go back under a generation, because a snapshot that is    *)
(* used is replayed up to the last update delivered.                        *)
THEOREM CachePromiseKept ==
  ASSUME OrderlyFeed
  PROVE  DeltaSpec => KeepsCachePromise
<1> DEFINE Inv == TypeOK /\ CallsTyped /\ CacheInv /\ InTime /\ Contiguous /\ Synchronous
<1>1. DeltaInit => Cache!CacheInit
  <2> SUFFICES ASSUME DeltaInit PROVE Cache!CacheInit
    OBVIOUS
  <2>1. ~Servable /\ state.generation = 0 /\ state.cached = NoBook /\ subscribedAt = 0
    BY DEF DeltaInit, SessionInit, Servable
  <2>2. QED
    BY <2>1, SameBooks DEF Cache!CacheInit
<1>2. Inv /\ Inv' /\ [DeltaNext]_dsVars
        => [Cache!Show \/ Cache!Hide \/ Cache!Disconnect]_(Cache!cacheVars)
  <2> SUFFICES ASSUME Inv, Inv', [DeltaNext]_dsVars
               PROVE  [Cache!Show \/ Cache!Hide \/ Cache!Disconnect]_(Cache!cacheVars)
    OBVIOUS
  <2>1. CASE ResetSymbol
    <3>1. /\ UNCHANGED <<history, cuts, subscribedAt>>
          /\ state'.generation = state.generation + 1
          /\ state'.cached = NoBook /\ ~Servable'
      BY <2>1 DEF ResetSymbol, ResetState, Servable, feedVars
    <3>2. subscribedAt' \in Cache!Ids
      BY <3>1, SameBooks DEF CallsTyped
    <3>3. Cache!Disconnect
      BY <3>1, <3>2, NoBookFixed, SameBooks DEF Cache!Disconnect, Cache!feedVars
    <3>4. QED
      BY <3>3
  <2>2. CASE DeltaNext /\ ~ResetSymbol
    <3>1. ASSUME (Servable /\ ~overrun)'
          PROVE  state'.cached = [book |-> TruthAt(state'.cached.id), id |-> state'.cached.id]
      <4>1. state'.cached = [book |-> book', id |-> lastUpdateId']
        BY <3>1 DEF Servable, CacheInv, CacheFollowsReconstruction
      <4>2. book' = TruthAt(lastUpdateId)'
        BY <3>1 DEF Servable, Synchronous, TrueBook
      <4>3. TruthAt(lastUpdateId)' = TruthAt(lastUpdateId')
        BY <2>2, FloorRises, FeedFixed DEF feedVars
      <4>4. QED
        BY <4>1, <4>2, <4>3
    <3>2. QED
      BY <2>2, <3>1, FloorRises, ShowOrHide
  <2>3. CASE UNCHANGED dsVars
    <3>1. UNCHANGED <<history, cuts, state, subscribedAt, crossed, overrun>>
      BY <2>3 DEF dsVars, vars, sessionVars
    <3>2. (Servable' <=> Servable)
      BY <3>1, NoBookFixed DEF Servable
    <3>3. UNCHANGED Cache!cacheVars
      BY <3>1, <3>2, NoBookFixed DEF Cache!cacheVars
    <3>4. QED
      BY <3>3
  <2>4. QED
    BY <2>1, <2>2, <2>3
<1>3. QED
  BY <1>1, <1>2, AlwaysTyped, AlwaysDelivered, AlwaysSynchronous, PTL
  DEF DeltaSpec, KeepsCachePromise, Cache!CacheSpec

-----------------------------------------------------------------------------
(* Restarts and gaps.                                                       *)

(* An update begins after the cut before it.                                *)
LEMMA FirstIsLater ==
  ASSUME FeedTypeOK, NEW e \in Updates
  PROVE  e.first \in Nat /\ PreviousCut(e.final) < e.first
<1>1. PICK c \in cuts : e.final = c /\ e.first = FirstChange(c)
  BY DEF Updates, Update
<1>2. c \in 1 .. MaxId /\ Active(c) /\ PreviousCut(c) \in 0 .. c - 1
  BY PreviousCutBounds DEF FeedTypeOK
<1> DEFINE S == {i \in PreviousCut(c) + 1 .. c : Active(i)}
<1>3. S \subseteq Nat /\ c \in S
  BY <1>2, MaxIdAssumption
<1>4. PICK m \in S : \A n \in S : m <= n
  BY <1>3, LeastExists
<1>5. m \in PreviousCut(c) + 1 .. c /\ Active(m)
  OBVIOUS
<1>6. \A j \in PreviousCut(c) + 1 .. m - 1 : ~Active(j)
  BY <1>2, <1>4, <1>5, MaxIdAssumption
<1> HIDE DEF S
<1>7. FirstChange(c) \in PreviousCut(c) + 1 .. c
  BY <1>5, <1>6 DEF FirstChange
<1>8. QED
  BY <1>1, <1>2, <1>7, MaxIdAssumption

LEMMA StepAtTheLastCut ==
  ASSUME OrderlyFeed, TypeOK, TypeOK', CallsTyped, CallsTyped', CacheInv, InTime, Contiguous,
         Synchronous, AtTheLastCut, [DeltaNext]_dsVars
  PROVE  AtTheLastCut'
<1> USE DEF HasSnapshot
<1>1. sent \in Nat /\ sent' \in Nat /\ lastUpdateId \in Nat /\ refill.snapshot \in Ids
      /\ refill.snapshot \in Nat
  BY MaxIdAssumption DEF CallsTyped, TypeOK, Ids
<1>2. cuts' = cuts
  BY StepIsBookStep DEF Next, DeltaStep, SnapshotStep, ResetStep, vars, feedVars
<1>3. CASE UNCHANGED <<lastUpdateId, sent>>
  BY <1>2, <1>3 DEF AtTheLastCut
<1>4. CASE Subscribe
  BY <1>4 DEF Subscribe, CacheInv, CacheFollowsReconstruction, AtTheLastCut, vars
<1>5. CASE ResetSymbol
  BY <1>5 DEF ResetSymbol, Reset, AtTheLastCut
<1>6. ASSUME NEW e \in Updates, ReceiveDelta(e)
      PROVE  AtTheLastCut'
  <2>1. Undelivered # {} /\ e.final = NextCut /\ sent' = e.final
    BY <1>6 DEF ReceiveDelta
  <2>2. /\ sent < sent' /\ PreviousCut(e.final) = sent
        /\ \A d \in Undelivered : sent' <= d
    BY <2>1, NextCutFacts, NextCutFollows DEF CallsTyped
  <2>3. CASE Applied(e)
    BY <2>1, <2>3 DEF Applied, AtTheLastCut
  <2>4. CASE Buffered(e) \/ Rejected(e)
    <3> SUFFICES ASSUME HasSnapshot, lastUpdateId \in cuts, lastUpdateId <= sent'
                 PROVE  lastUpdateId = sent'
      BY <1>2, <2>4 DEF AtTheLastCut, Buffered, Rejected
    <3>1. CASE lastUpdateId <= sent
      <4>1. lastUpdateId = sent
        BY <3>1 DEF AtTheLastCut
      <4>2. ~Stale(e)
        BY <1>1, <2>1, <2>2, <4>1, FirstIsLater DEF Stale, TypeOK
      <4>3. ~ChainBroken(e)
        BY <2>2, <4>1, UpdateFacts DEF ChainBroken, OrderlyFeed, TypeOK
      <4>4. QED
        BY <2>4, <4>2, <4>3 DEF Buffered, Rejected
    <3>2. CASE lastUpdateId > sent
      <4>1. sent' <= now
        BY <2>1, NextCutFacts DEF CallsTyped
      <4>2. lastUpdateId \in Undelivered
        BY <1>1, <3>2, <4>1, MaxIdAssumption DEF Undelivered, CallsTyped, Ids
      <4>3. QED
        BY <1>1, <2>2, <4>2
    <3>3. QED
      BY <1>1, <3>1, <3>2
  <2>5. QED
    BY <1>6, <2>3, <2>4 DEF ReceiveDelta
<1>7. CASE FinishRefill
  <2>1. sent' = sent /\ refill.phase = "settling"
    BY <1>7 DEF FinishRefill, sessionVars
  <2>2. CASE SameConnection /\ ApplySnapshot(TruthAt(refill.snapshot), refill.snapshot)
    <3>1. lastUpdateId' = IF buffer # <<>> /\ refill.snapshot <= sent
                          THEN sent ELSE refill.snapshot
      BY <1>1, <2>2, ReplayEnds DEF ApplySnapshot
    <3>2. Reach <= refill.snapshot \/ buffer # <<>>
      BY <2>1, <2>2 DEF Synchronous, SnapshotFits, Usable
    <3>3. buffer = <<>> => sent <= refill.snapshot
      BY <3>2 DEF Reach
    <3>4. QED
      BY <1>1, <2>1, <3>1, <3>3 DEF AtTheLastCut
  <2>3. CASE UNCHANGED bookVars
    BY <1>3, <2>1, <2>3 DEF bookVars
  <2>4. QED
    BY <1>7, <2>2, <2>3 DEF FinishRefill
<1>8. ~LoseDelta /\ ~ReceiveSnapshot
  BY DEF OrderlyFeed, LoseDelta, ReceiveSnapshot
<1>9. QED
  BY <1>3, <1>4, <1>5, <1>6, <1>7, <1>8
  DEF DeltaNext, SessionStep, Receive, RefillStep, Disturbance, Tick, MarkConnected,
      ConnectionLost, StartRefill, RefillHit, StartFetch, FetchAnswered, FetchFailed,
      vars, sessionVars, dsVars

(* On an orderly feed Rule 4 ends no session in the middle of the stream:   *)
(* once the book is where an update ended, every update that follows fits.  *)
(* A book at a cut is at the last one delivered, and the next update names  *)
(* that one as its predecessor.                                             *)
THEOREM NoRestartMidstream ==
  ASSUME OrderlyFeed
  PROVE  DeltaSpec => RestartsOnlyAtSeam
<1>1. DeltaInit => AtTheLastCut
  BY DEF DeltaInit, Init, EmptyInit, AtTheLastCut, HasSnapshot
<1>2. /\ TypeOK /\ TypeOK' /\ CallsTyped /\ CallsTyped' /\ CacheInv /\ InTime /\ Contiguous
      /\ Synchronous /\ AtTheLastCut /\ [DeltaNext]_dsVars
      => AtTheLastCut'
  BY StepAtTheLastCut
<1>3. TypeOK /\ CallsTyped /\ InTime /\ Synchronous /\ AtTheLastCut /\ [DeltaNext]_dsVars
        => [session = "streaming" /\ session' = "failed" /\ failures' = failures
              => ~(lastUpdateId \in cuts /\ lastUpdateId <= sent)]_dsVars
  <2> SUFFICES ASSUME TypeOK, CallsTyped, InTime, Synchronous, AtTheLastCut, DeltaNext,
                      session = "streaming", session' = "failed", failures' = failures,
                      lastUpdateId \in cuts, lastUpdateId <= sent
               PROVE  FALSE
    OBVIOUS
  <2>1. failures \in Nat
    BY MaxFailuresAssumption DEF CallsTyped
  <2>2. PICK e \in Updates : ReceiveDelta(e) /\ Rejected(e)
    BY <2>1 DEF DeltaNext, SessionStep, Receive, RefillStep, Disturbance, Tick, Subscribe,
       MarkConnected, ConnectionLost, ResetSymbol, ReceiveDelta, ReceiveSnapshot, StartRefill,
       RefillHit, StartFetch, FetchAnswered, FinishRefill, LoseDelta, FetchFailed, sessionVars
  <2>3. lastUpdateId = sent /\ ~bootstrapPending
    BY <2>2 DEF AtTheLastCut, Rejected
  <2>4. PreviousCut(e.final) = sent
    BY <2>2, NextCutFollows DEF ReceiveDelta
  <2>5. ~ChainBroken(e)
    BY <2>3, <2>4, UpdateFacts DEF ChainBroken, OrderlyFeed, TypeOK
  <2>6. QED
    BY <2>2, <2>5 DEF Rejected
<1>4. QED
  BY <1>1, <1>2, <1>3, AlwaysTyped, AlwaysDelivered, AlwaysSynchronous, PTL
  DEF DeltaSpec, RestartsOnlyAtSeam


(* On a chained feed without the seam exemption no live update of a session *)
(* skips a change in silence, whatever is lost and whatever frames come:    *)
(* Rule 4 errs, and the session with it.                                    *)
THEOREM LiveGapsEndTheSession ==
  ASSUME TolerateSnapshotSeam = FALSE, PreviousIds = {"chain"}
  PROVE  DeltaSpec => LiveGapsAreErrors
BY SessionDrivesTheBook, LiveGapsDetected, PTL
=============================================================================
