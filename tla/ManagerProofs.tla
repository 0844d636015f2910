---------------------------- MODULE ManagerProofs ----------------------------
(***************************************************************************)
(* Proofs about the WebSocket manager around one symbol's session: about    *)
(* ShardDriver, for any symbols, capacity, prewarm lists and initial        *)
(* symbols, and any number of calls and failures, and about                 *)
(* OrderbookReaders, for any number of readers and waiters and any bounds.  *)
(***************************************************************************)
EXTENDS ShardDriver, OrderbookReaders, SequenceTheorems, WellFoundedInduction, TLAPS

-----------------------------------------------------------------------------
(* ShardDriver                                                              *)


-----------------------------------------------------------------------------
(* Sequences and their elements.                                            *)

LEMMA ToSetOfTail ==
  ASSUME NEW S, NEW q \in Seq(S), q # <<>>
  PROVE  /\ ToSet(q) = {Head(q)} \cup ToSet(Tail(q))
         /\ Tail(q) \in Seq(S)
         /\ Head(q) \in S
<1>1. Len(q) \in Nat /\ Len(q) >= 1 /\ DOMAIN q = 1..Len(q) /\ \A i \in 1..Len(q) : q[i] \in S
  BY EmptySeq, LenProperties, ElementOfSeq
<1>2. /\ Head(q) = q[1] /\ Head(q) \in S
      /\ Tail(q) \in Seq(S) /\ Len(Tail(q)) = Len(q) - 1
      /\ \A i \in 1..Len(Tail(q)) : Tail(q)[i] = q[i + 1]
  BY <1>1, HeadTailProperties
<1>3. DOMAIN Tail(q) = 1..(Len(q) - 1)
  BY <1>2, LenProperties
<1>4. ASSUME NEW i \in 1..Len(q), i # 1
      PROVE  i - 1 \in DOMAIN Tail(q) /\ Tail(q)[i - 1] = q[i]
  <2>1. i - 1 \in 1..(Len(q) - 1) /\ (i - 1) + 1 = i
    BY <1>1, <1>4
  <2>2. QED
    BY <2>1, <1>2, <1>3
<1>5. ToSet(q) \subseteq {Head(q)} \cup ToSet(Tail(q))
  <2>1. ASSUME NEW i \in 1..Len(q) PROVE q[i] \in {Head(q)} \cup ToSet(Tail(q))
    <3>1. CASE i = 1
      BY <3>1, <1>2
    <3>2. CASE i # 1
      BY <3>2, <1>4 DEF ToSet
    <3>3. QED
      BY <3>1, <3>2
  <2>2. QED
    BY <2>1, <1>1 DEF ToSet
<1>6. ASSUME NEW i \in DOMAIN Tail(q) PROVE Tail(q)[i] \in ToSet(q)
  <2>1. i + 1 \in 1..Len(q) /\ Tail(q)[i] = q[i + 1]
    BY <1>1, <1>2, <1>3
  <2>2. QED
    BY <2>1, <1>1 DEF ToSet
<1>7. {Head(q)} \cup ToSet(Tail(q)) \subseteq ToSet(q)
  <2>1. Head(q) \in ToSet(q)
    BY <1>1, <1>2 DEF ToSet
  <2>2. QED
    BY <2>1, <1>6 DEF ToSet
<1>8. QED
  BY <1>2, <1>5, <1>7

LEMMA ToSetOfAppend ==
  ASSUME NEW S, NEW q \in Seq(S), NEW e \in S
  PROVE  ToSet(Append(q, e)) = ToSet(q) \cup {e}
<1>1. /\ Append(q, e) \in Seq(S) /\ Len(Append(q, e)) = Len(q) + 1
      /\ \A i \in 1..Len(q) : Append(q, e)[i] = q[i]
      /\ Append(q, e)[Len(q) + 1] = e
  BY AppendProperties
<1>2. Len(q) \in Nat /\ DOMAIN q = 1..Len(q) /\ DOMAIN Append(q, e) = 1..(Len(q) + 1)
  BY <1>1, LenProperties
<1>3. ASSUME NEW i \in 1..(Len(q) + 1) PROVE i \in 1..Len(q) \/ i = Len(q) + 1
  BY <1>2
<1>4. \A i \in 1..Len(q) : i \in 1..(Len(q) + 1)
  BY <1>2
<1>5. Len(q) + 1 \in 1..(Len(q) + 1)
  BY <1>2
<1>6. QED
  BY <1>1, <1>2, <1>3, <1>4, <1>5 DEF ToSet

LEMMA ToSetOfConcat ==
  ASSUME NEW S, NEW p \in Seq(S), NEW q \in Seq(S)
  PROVE  ToSet(q) \subseteq ToSet(p \o q)
<1>1. /\ p \o q \in Seq(S) /\ Len(p \o q) = Len(p) + Len(q)
      /\ \A i \in 1..(Len(p) + Len(q)) :
            (p \o q)[i] = IF i <= Len(p) THEN p[i] ELSE q[i - Len(p)]
  BY ConcatProperties
<1>2. /\ Len(p) \in Nat /\ Len(q) \in Nat /\ DOMAIN q = 1..Len(q)
      /\ DOMAIN (p \o q) = 1..(Len(p) + Len(q))
  BY <1>1, LenProperties
<1>3. ASSUME NEW i \in 1..Len(q) PROVE q[i] \in ToSet(p \o q)
  <2>1. /\ i + Len(p) \in 1..(Len(p) + Len(q))
        /\ ~(i + Len(p) <= Len(p)) /\ (i + Len(p)) - Len(p) = i
    BY <1>2
  <2>2. (p \o q)[i + Len(p)] = q[i]
    BY <2>1, <1>1
  <2>3. QED
    BY <2>1, <2>2, <1>2 DEF ToSet
<1>4. QED
  BY <1>2, <1>3 DEF ToSet

LEMMA ToSetType ==
  ASSUME NEW S, NEW q \in Seq(S)
  PROVE  ToSet(q) \subseteq S
BY LenProperties, ElementOfSeq DEF ToSet

LEMMA EmptyToSet == ToSet(<<>>) = {}
BY DEF ToSet

-----------------------------------------------------------------------------
(* Types, read element by element.                                          *)

TaskRecords == [symbols : SUBSET Symbols, phase : Phases, aborted : BOOLEAN]
TaskNames == {NoTask} \cup DOMAIN tasks
ShardRecords == [symbols : Seq(Symbols), task : TaskNames]

(* The shards and tasks are lists whose elements have their types.          *)
LEMMA ShardsAndTasks ==
  ASSUME TypeOK
  PROVE  /\ Len(shards) \in Nat /\ DOMAIN shards = 1..Len(shards)
         /\ \A i \in DOMAIN shards :
               /\ shards[i] \in ShardRecords
               /\ shards[i].symbols \in Seq(Symbols)
               /\ shards[i].task \in TaskNames
         /\ Len(tasks) \in Nat /\ DOMAIN tasks = 1..Len(tasks)
         /\ \A t \in DOMAIN tasks : tasks[t] \in TaskRecords
         /\ NoTask \notin DOMAIN tasks
<1>1. shards \in Seq(ShardRecords) /\ tasks \in Seq(TaskRecords)
  BY DEF TypeOK, ShardRecords, TaskNames, TaskRecords
<1>2. /\ Len(shards) \in Nat /\ DOMAIN shards = 1..Len(shards)
      /\ Len(tasks) \in Nat /\ DOMAIN tasks = 1..Len(tasks)
  BY <1>1, LenProperties
<1>3. /\ \A i \in DOMAIN shards : shards[i] \in ShardRecords
      /\ \A t \in DOMAIN tasks : tasks[t] \in TaskRecords
  BY <1>1, <1>2, ElementOfSeq
<1>4. \A i \in DOMAIN shards :
         shards[i].symbols \in Seq(Symbols) /\ shards[i].task \in TaskNames
  BY <1>3 DEF ShardRecords
<1>5. NoTask \notin DOMAIN tasks
  BY <1>2 DEF NoTask
<1>6. QED
  BY <1>2, <1>3, <1>4, <1>5

(* A nonempty set of naturals has a least element.                          *)
LEMMA LeastOf ==
  ASSUME NEW T, T \subseteq Nat, T # {}
  PROVE  \E m \in T : \A n \in T : m <= n
<1> DEFINE R == OpToRel(<, Nat)
<1>1. IsWellFoundedOn(R, Nat)
  BY NatLessThanWellFounded
<1>2. \A m, n \in Nat : n < m => <<n, m>> \in R
  BY DEF OpToRel
<1> HIDE DEF R
<1>3. PICK m \in T : \A y \in T : ~ (<<y, m>> \in R)
  BY <1>1, WFMin
<1>4. ASSUME NEW n \in T PROVE m <= n
  <2>1. m \in Nat /\ n \in Nat /\ ~ (n < m)
    BY <1>2, <1>3
  <2>2. QED
    BY <2>1
<1>5. QED
  BY <1>4

LEMMA RestartedIsChanged ==
  ASSUME TypeOK, changed # {}
  PROVE  Restarted \in changed /\ Restarted \in DOMAIN shards
<1>1. changed \subseteq Nat /\ changed \subseteq DOMAIN shards
  <2>1. changed \subseteq DOMAIN shards
    BY Zenon DEF TypeOK
  <2>2. DOMAIN shards = 1..Len(shards)
    BY ShardsAndTasks
  <2>3. QED
    BY <2>1, <2>2
<1>2. \E i \in changed : \A j \in changed : i <= j
  BY <1>1, LeastOf, Zenon
<1>3. QED
  BY <1>1, <1>2 DEF Restarted

(* A session that goes on to its next phase keeps the rest.                 *)
LEMMA PhaseMoves ==
  ASSUME TypeOK, NEW t \in DOMAIN tasks, NEW p \in Phases,
         tasks' = [tasks EXCEPT ![t].phase = p]
  PROVE  /\ tasks' \in Seq(TaskRecords)
         /\ DOMAIN tasks' = DOMAIN tasks
         /\ tasks'[t].phase = p
         /\ \A u \in DOMAIN tasks :
               /\ tasks'[u].symbols = tasks[u].symbols
               /\ tasks'[u].aborted = tasks[u].aborted
               /\ u # t => tasks'[u].phase = tasks[u].phase
<1>1. tasks \in Seq(TaskRecords) /\ t \in 1..Len(tasks) /\ tasks[t] \in TaskRecords
  BY ShardsAndTasks DEF TypeOK, TaskRecords
<1> DEFINE moved == [tasks[t] EXCEPT !.phase = p]
<1>2. /\ moved \in TaskRecords /\ moved.phase = p
      /\ moved.symbols = tasks[t].symbols /\ moved.aborted = tasks[t].aborted
  BY <1>1 DEF TaskRecords
<1>3. tasks' = [tasks EXCEPT ![t] = moved]
  BY <1>1
<1> HIDE DEF moved
<1>4. /\ tasks' \in Seq(TaskRecords) /\ Len(tasks') = Len(tasks)
      /\ \A u \in 1..Len(tasks) : tasks'[u] = IF u = t THEN moved ELSE tasks[u]
  BY <1>1, <1>2, <1>3, ExceptSeq
<1>5. DOMAIN tasks' = DOMAIN tasks /\ DOMAIN tasks = 1..Len(tasks)
  BY <1>1, <1>4, LenProperties
<1>6. QED
  BY <1>1, <1>2, <1>4, <1>5

(* So does one that is aborted.                                             *)
LEMMA TaskAborts ==
  ASSUME TypeOK, NEW t \in DOMAIN tasks, tasks' = [tasks EXCEPT ![t].aborted = TRUE]
  PROVE  /\ tasks' \in Seq(TaskRecords)
         /\ DOMAIN tasks' = DOMAIN tasks
         /\ \A u \in DOMAIN tasks :
               /\ tasks'[u].symbols = tasks[u].symbols
               /\ tasks'[u].phase = tasks[u].phase
<1>1. tasks \in Seq(TaskRecords) /\ t \in 1..Len(tasks) /\ tasks[t] \in TaskRecords
  BY ShardsAndTasks DEF TypeOK, TaskRecords
<1> DEFINE moved == [tasks[t] EXCEPT !.aborted = TRUE]
<1>2. /\ moved \in TaskRecords /\ moved.phase = tasks[t].phase
      /\ moved.symbols = tasks[t].symbols
  BY <1>1 DEF TaskRecords
<1>3. tasks' = [tasks EXCEPT ![t] = moved]
  BY <1>1
<1> HIDE DEF moved
<1>4. /\ tasks' \in Seq(TaskRecords) /\ Len(tasks') = Len(tasks)
      /\ \A u \in 1..Len(tasks) : tasks'[u] = IF u = t THEN moved ELSE tasks[u]
  <2>1. moved \in TaskRecords
    BY <1>2
  <2>2. QED
    BY ONLY <1>1, <1>3, <2>1, ExceptSeq
<1>5. DOMAIN tasks' = DOMAIN tasks /\ DOMAIN tasks = 1..Len(tasks)
  BY <1>1, <1>4, LenProperties
<1>6. QED
  BY <1>1, <1>2, <1>4, <1>5

(* Dropping the manager aborts the sessions of its shards.                  *)
LEMMA DropFacts ==
  ASSUME TypeOK, Drop
  PROVE  /\ tasks' \in Seq(TaskRecords)
         /\ DOMAIN tasks' = DOMAIN tasks
         /\ \A u \in DOMAIN tasks :
               /\ tasks'[u].symbols = tasks[u].symbols
               /\ tasks'[u].phase = tasks[u].phase
               /\ u \in AbortedByDrop => tasks'[u].aborted
<1>1. /\ Len(tasks) \in Nat /\ DOMAIN tasks = 1..Len(tasks)
      /\ \A u \in DOMAIN tasks : tasks[u] \in TaskRecords
  BY ShardsAndTasks
<1>2. tasks' = [u \in 1..Len(tasks) |-> [tasks[u] EXCEPT !.aborted = @ \/ u \in AbortedByDrop]]
  BY <1>1 DEF Drop
<1>3. ASSUME NEW u \in 1..Len(tasks)
      PROVE  /\ tasks'[u] \in TaskRecords
             /\ tasks'[u].symbols = tasks[u].symbols
             /\ tasks'[u].phase = tasks[u].phase
             /\ u \in AbortedByDrop => tasks'[u].aborted
  <2>1. tasks[u] \in TaskRecords
    BY <1>1
  <2>2. tasks'[u] = [tasks[u] EXCEPT !.aborted = @ \/ u \in AbortedByDrop]
    BY <1>2
  <2>3. QED
    BY <2>1, <2>2 DEF TaskRecords
<1>4. tasks' \in [1..Len(tasks) -> TaskRecords]
  BY <1>2, <1>3
<1>5. tasks' \in Seq(TaskRecords)
  BY <1>1, <1>4, SeqDef
<1>6. QED
  BY <1>1, <1>2, <1>3, <1>5

(* The shard that takes the next symbol is the last one, or a new one when  *)
(* that is full.                                                            *)
LEMMA RoomFacts ==
  ASSUME TypeOK
  PROVE  /\ WithRoom \in Seq(ShardRecords)
         /\ Len(WithRoom) \in DOMAIN WithRoom
         /\ \A i \in DOMAIN shards : i \in DOMAIN WithRoom /\ WithRoom[i] = shards[i]
         /\ \/ /\ Len(WithRoom) = Len(shards)
               /\ ~ LastIsFull
            \/ /\ Len(WithRoom) = Len(shards) + 1
               /\ WithRoom[Len(shards) + 1] = [symbols |-> <<>>, task |-> NoTask]
               /\ Len(shards) \in DOMAIN shards => LastIsFull
<1>1. /\ shards \in Seq(ShardRecords)
      /\ Len(shards) \in Nat /\ DOMAIN shards = 1..Len(shards)
  BY ShardsAndTasks DEF TypeOK, ShardRecords, TaskNames
<1>2. CASE shards = <<>> \/ LastIsFull
  <2> DEFINE new == [symbols |-> <<>>, task |-> NoTask]
  <2>1. new \in ShardRecords
    BY EmptySeq DEF ShardRecords, TaskNames
  <2>2. WithRoom = Append(shards, new)
    BY <1>2 DEF WithRoom
  <2> HIDE DEF new
  <2>3. /\ WithRoom \in Seq(ShardRecords) /\ Len(WithRoom) = Len(shards) + 1
        /\ \A i \in 1..Len(shards) : WithRoom[i] = shards[i]
        /\ WithRoom[Len(shards) + 1] = new
    BY <1>1, <2>1, <2>2, AppendProperties
  <2>4. DOMAIN WithRoom = 1..(Len(shards) + 1)
    BY <2>3, LenProperties
  <2>5. Len(shards) \in DOMAIN shards => LastIsFull
    BY <1>2, EmptySeq, <1>1
  <2>6. \A i \in DOMAIN shards : i \in DOMAIN WithRoom /\ WithRoom[i] = shards[i]
    BY <1>1, <2>3, <2>4
  <2>7. Len(WithRoom) \in DOMAIN WithRoom
    BY <1>1, <2>3, <2>4
  <2>8. WithRoom[Len(shards) + 1] = [symbols |-> <<>>, task |-> NoTask]
    BY <2>3 DEF new
  <2>9. QED
    BY <2>3, <2>5, <2>6, <2>7, <2>8
<1>3. CASE ~ (shards = <<>> \/ LastIsFull)
  <2>1. WithRoom = shards /\ ~ LastIsFull /\ shards # <<>>
    BY <1>3 DEF WithRoom
  <2>2. Len(shards) \in DOMAIN shards
    BY <1>1, <2>1, EmptySeq
  <2>3. QED
    BY <1>1, <2>1, <2>2
<1>4. QED
  BY <1>2, <1>3

(* Placing a new symbol adds it at the end of that shard.                   *)
LEMMA PlaceFacts ==
  ASSUME TypeOK, Place, Head(batch) \notin known
  PROVE  /\ Head(batch) \in Symbols
         /\ shards' \in Seq(ShardRecords)
         /\ DOMAIN shards' = DOMAIN WithRoom /\ Len(shards') = Len(WithRoom)
         /\ \A i \in DOMAIN WithRoom :
               /\ shards'[i].task = WithRoom[i].task
               /\ i # Len(WithRoom) => shards'[i].symbols = WithRoom[i].symbols
         /\ shards'[Len(WithRoom)].symbols
               = Append(WithRoom[Len(WithRoom)].symbols, Head(batch))
         /\ changed' = changed \cup {Len(WithRoom)}
         /\ known' = known \cup {Head(batch)}
         /\ WithRoom[Len(WithRoom)].symbols \in Seq(Symbols)
<1> DEFINE s == Head(batch)
           n == Len(WithRoom)
           room == WithRoom
           placed == [room[n] EXCEPT !.symbols = Append(@, s)]
<1>1. s \in Symbols
  BY ToSetOfTail DEF TypeOK, Place
<1>2. /\ known' = known \cup {s}
      /\ shards' = [room EXCEPT ![n] = placed]
      /\ changed' = changed \cup {n}
  BY DEF Place
<1>3. room \in Seq(ShardRecords) /\ n \in 1..Len(room) /\ DOMAIN room = 1..Len(room)
  BY RoomFacts, LenProperties
<1>4. room[n] \in ShardRecords
  BY <1>3, ElementOfSeq
<1>5. /\ room[n].symbols \in Seq(Symbols)
      /\ placed.task = room[n].task
      /\ placed.symbols = Append(room[n].symbols, s)
  BY <1>4 DEF ShardRecords
<1>6. placed \in ShardRecords
  <2>1. Append(room[n].symbols, s) \in Seq(Symbols)
    BY <1>1, <1>5, AppendProperties
  <2>2. QED
    BY <1>4, <2>1 DEF ShardRecords
<1> HIDE DEF placed, room, s, n
<1>7. /\ shards' \in Seq(ShardRecords) /\ Len(shards') = Len(room)
      /\ \A i \in 1..Len(room) : shards'[i] = IF i = n THEN placed ELSE room[i]
  BY ONLY <1>2, <1>3, <1>6, ExceptSeq
<1>8. DOMAIN shards' = 1..Len(room)
  BY <1>7, LenProperties
<1>9. QED
  BY <1>1, <1>2, <1>3, <1>5, <1>7, <1>8 DEF room, s, n

(* A restart gives the shard a new session, for the symbols it has now.     *)
LEMMA RestartFacts ==
  ASSUME TypeOK, changed # {}, Restart
  PROVE  /\ tasks' \in Seq(TaskRecords)
         /\ Len(tasks') = Len(tasks) + 1
         /\ DOMAIN tasks' = DOMAIN tasks \cup {Len(tasks) + 1}
         /\ \A t \in DOMAIN tasks : tasks'[t] = tasks[t]
         /\ tasks'[Len(tasks) + 1] = [symbols |-> ToSet(shards[Restarted].symbols),
                                      phase |-> "connecting", aborted |-> FALSE]
         /\ DOMAIN shards' = DOMAIN shards /\ Len(shards') = Len(shards)
         /\ \A i \in DOMAIN shards :
               /\ shards'[i].symbols = shards[i].symbols
               /\ shards'[i].task = IF i = Restarted THEN Len(tasks) + 1 ELSE shards[i].task
         /\ shards' \in Seq([symbols : Seq(Symbols), task : TaskNames'])
<1> DEFINE r == Restarted
           new == [symbols |-> ToSet(shards[r].symbols), phase |-> "connecting",
                   aborted |-> FALSE]
           given == [shards[r] EXCEPT !.task = Len(tasks) + 1]
           NewRecords == [symbols : Seq(Symbols), task : TaskNames']
<1>1. /\ r \in DOMAIN shards /\ DOMAIN shards = 1..Len(shards) /\ Len(shards) \in Nat
      /\ shards[r] \in ShardRecords
      /\ shards \in Seq(ShardRecords) /\ tasks \in Seq(TaskRecords)
      /\ Len(tasks) \in Nat /\ DOMAIN tasks = 1..Len(tasks)
  BY RestartedIsChanged, ShardsAndTasks DEF TypeOK, ShardRecords, TaskNames, TaskRecords
<1>2. new \in TaskRecords
  BY <1>1, ToSetType DEF TaskRecords, ShardRecords, Phases
<1>3. tasks' = Append(tasks, new) /\ shards' = [shards EXCEPT ![r].task = Len(tasks')]
  BY DEF Restart
<1> HIDE DEF new, r
<1>4. /\ tasks' \in Seq(TaskRecords) /\ Len(tasks') = Len(tasks) + 1
      /\ \A t \in 1..Len(tasks) : tasks'[t] = tasks[t]
      /\ tasks'[Len(tasks) + 1] = new
  BY <1>1, <1>2, <1>3, AppendProperties
<1>5. DOMAIN tasks' = 1..(Len(tasks) + 1)
  BY <1>4, LenProperties
<1>6. DOMAIN tasks' = DOMAIN tasks \cup {Len(tasks) + 1}
  BY <1>1, <1>5
<1>7. shards' = [shards EXCEPT ![r] = given]
  BY <1>3, <1>4
<1>8. given.symbols = shards[r].symbols /\ given.task = Len(tasks) + 1
  BY <1>1 DEF ShardRecords
<1>9. TaskNames \cup {Len(tasks) + 1} = TaskNames'
  BY <1>6 DEF TaskNames
<1>10. given \in NewRecords
  BY <1>1, <1>9 DEF ShardRecords
<1>11. shards \in Seq(NewRecords)
  <2>1. ShardRecords \subseteq NewRecords
    BY <1>9 DEF ShardRecords
  <2>2. QED
    BY <1>1, <2>1, SeqMonotonic
<1> HIDE DEF given, NewRecords
<1>12. /\ shards' \in Seq(NewRecords) /\ Len(shards') = Len(shards)
       /\ \A i \in 1..Len(shards) : shards'[i] = IF i = r THEN given ELSE shards[i]
  BY ONLY <1>1, <1>7, <1>10, <1>11, ExceptSeq
<1>13. DOMAIN shards' = 1..Len(shards)
  BY <1>12, LenProperties
<1>14. QED
  BY <1>1, <1>4, <1>6, <1>8, <1>12, <1>13 DEF new, r, NewRecords

-----------------------------------------------------------------------------
(* What the driver has still to do, and whose session a shard has.          *)

(* An assignment is under way only between its first and its last step, and *)
(* the prewarm it answers is of the symbols it has placed or has to place.  *)
DriverInOrder ==
    /\ driver \in {"off", "select"} => batch = <<>> /\ changed = {} /\ ack = NoList
    /\ driver = "awaiting" => batch = <<>> /\ changed # {}
    /\ ack \in Batches \cup {NoList}
    /\ ToSet(ack) \subseteq known \cup ToSet(batch)

LEMMA InitTyped == Init => TypeOK /\ DriverInOrder
<1> SUFFICES ASSUME Init PROVE TypeOK /\ DriverInOrder
  OBVIOUS
<1>1. batch \in Seq(Symbols)
  BY StartsAssumption DEF Init
<1>2. asked \subseteq Symbols
  BY <1>1, ToSetType DEF Init
<1>3. states \in [Symbols -> [connected : BOOLEAN, publisher : {NoTask} \cup DOMAIN tasks]]
  BY DEF Init, Fresh
<1>4. /\ channel \in Seq(Commands) /\ pending \in Seq(Symbols) /\ ack \in Seq(Symbols)
      /\ shards \in Seq([symbols : Seq(Symbols), task : {NoTask} \cup DOMAIN tasks])
      /\ tasks \in Seq([symbols : SUBSET Symbols, phase : Phases, aborted : BOOLEAN])
  BY EmptySeq DEF Init, NoList
<1>5. calls \in 0..MaxCalls /\ failures \in 0..MaxFailures
  BY MaxCallsAssumption, MaxFailuresAssumption DEF Init
<1>6. TypeOK
  BY <1>1, <1>2, <1>3, <1>4, <1>5 DEF Init, TypeOK
<1>7. DriverInOrder
  BY EmptyToSet DEF Init, DriverInOrder, NoList
<1>8. QED
  BY <1>6, <1>7

(* The commands are lists of symbols.                                       *)
LEMMA CommandSymbols ==
  ASSUME NEW c \in Commands
  PROVE  /\ c.symbols \in Seq(Symbols)
         /\ c.kind = "prewarm" => c.symbols \in Batches
         /\ c.kind = "subscribe" => c.symbols[1] \in Symbols
<1>1. CASE c \in [kind : {"subscribe"}, symbols : {<<s>> : s \in Symbols}]
  <2>1. PICK s \in Symbols : c.symbols = <<s>>
    BY <1>1
  <2>2. <<s>> \in Seq(Symbols) /\ <<s>>[1] = s
    OBVIOUS
  <2>3. QED
    BY <1>1, <2>1, <2>2
<1>2. CASE c \in [kind : {"prewarm"}, symbols : Batches]
  BY <1>2, BatchesAssumption
<1>3. QED
  BY <1>1, <1>2 DEF Commands

(* What is received is a command, and the rest of the channel remains.      *)
LEMMA ReceiveFacts ==
  ASSUME TypeOK, NEW kind, Receive(kind)
  PROVE  /\ channel' \in Seq(Commands)
         /\ Head(channel) \in Commands
         /\ Head(channel).kind = kind
         /\ Head(channel).symbols \in Seq(Symbols)
         /\ kind = "prewarm" => Head(channel).symbols \in Batches
         /\ kind = "subscribe" => Head(channel).symbols[1] \in Symbols
<1>1. /\ channel \in Seq(Commands) /\ channel # <<>>
      /\ channel' = Tail(channel) /\ Head(channel).kind = kind
  BY DEF TypeOK, Receive
<1>2. channel' \in Seq(Commands) /\ Head(channel) \in Commands
  BY <1>1, HeadTailProperties
<1>3. QED
  BY <1>1, <1>2, CommandSymbols

(* The parts of TypeOK that depend on the tasks, for a step that changes    *)
(* only the phase or the abortion of a task.                                *)
LEMMA SameNamesTyped ==
  ASSUME TypeOK, DOMAIN tasks' = DOMAIN tasks, tasks' \in Seq(TaskRecords),
         UNCHANGED <<asked, known, pending, armed, batch, changed, ack, acked, shards, calls>>,
         channel' \in Seq(Commands),
         driver' \in {"off", "select", "placing", "awaiting", "dropped"},
         failures' \in 0..MaxFailures,
         states' \in [Symbols -> [connected : BOOLEAN, publisher : TaskNames]]
  PROVE  TypeOK'
<1>1. TaskNames' = TaskNames
  BY DEF TaskNames
<1>2. QED
  BY <1>1 DEF TypeOK, TaskNames, TaskRecords, Commands, Phases

(* States are reset symbol by symbol.                                       *)
LEMMA StateTypes ==
  ASSUME TypeOK
  PROVE  /\ states \in [Symbols -> [connected : BOOLEAN, publisher : TaskNames]]
         /\ Fresh \in [connected : BOOLEAN, publisher : TaskNames]
BY DEF TypeOK, Fresh, TaskNames

LEMMA TypedCall ==
  ASSUME TypeOK, DriverInOrder, NEW c \in Commands, Call(c)
  PROVE  TypeOK' /\ DriverInOrder'
<1>1. c.symbols \in Seq(Symbols)
  BY CommandSymbols
<1>2. channel' \in Seq(Commands)
  BY AppendProperties DEF Call, TypeOK
<1>3. asked' \subseteq Symbols
  BY <1>1, ToSetType DEF Call, TypeOK
<1>4. calls' \in 0..MaxCalls
  BY MaxCallsAssumption DEF Call, TypeOK
<1>5. TypeOK'
  BY <1>2, <1>3, <1>4 DEF Call, TypeOK, Commands, Phases
<1>6. DriverInOrder'
  BY DEF Call, DriverInOrder, TypeOK
<1>7. QED
  BY <1>5, <1>6

LEMMA TypedReceive ==
  ASSUME TypeOK, DriverInOrder, ReceiveSubscribe \/ ReceivePrewarm \/ Debounced
  PROVE  TypeOK' /\ DriverInOrder'
<1>1. CASE ReceiveSubscribe
  <2>1. /\ channel' \in Seq(Commands)
        /\ Head(channel).symbols[1] \in Symbols
        /\ driver = "select"
    BY <1>1, ReceiveFacts DEF ReceiveSubscribe, Receive
  <2>2. pending' \in Seq(Symbols) /\ armed' \in BOOLEAN
    <3>1. Append(pending, Head(channel).symbols[1]) \in Seq(Symbols)
      BY <2>1, AppendProperties DEF TypeOK
    <3>2. pending' \in Seq(Symbols)
      BY <1>1, <3>1 DEF ReceiveSubscribe, TypeOK
    <3>3. armed' \in BOOLEAN
      BY <1>1 DEF ReceiveSubscribe, TypeOK
    <3>4. QED
      BY <3>2, <3>3
  <2>3. QED
    BY <1>1, <2>1, <2>2 DEF ReceiveSubscribe, TypeOK, DriverInOrder, Commands, Phases
<1>2. CASE ReceivePrewarm
  <2> DEFINE list == Head(channel).symbols
  <2>1. /\ channel' \in Seq(Commands)
        /\ list \in Seq(Symbols) /\ list \in Batches
        /\ driver = "select"
    BY <1>2, ReceiveFacts DEF ReceivePrewarm, Receive
  <2>2. pending \in Seq(Symbols) /\ <<>> \in Seq(Symbols)
    BY EmptySeq DEF TypeOK
  <2>3. batch' = pending \o list /\ ack' = list /\ pending' = <<>> /\ driver' = "placing"
    BY <1>2 DEF ReceivePrewarm, Together
  <2> HIDE DEF list
  <2>4. batch' \in Seq(Symbols) /\ ToSet(ack') \subseteq ToSet(batch')
    BY <2>1, <2>2, <2>3, ConcatProperties, ToSetOfConcat
  <2>5. QED
    BY <1>2, <2>1, <2>2, <2>3, <2>4 DEF ReceivePrewarm, TypeOK, DriverInOrder, Commands, Phases
<1>3. CASE Debounced
  <2>1. <<>> \in Seq(Symbols) /\ ToSet(NoList) = {}
    BY EmptySeq, EmptyToSet DEF NoList
  <2>2. QED
    BY <1>3, <2>1 DEF Debounced, TypeOK, DriverInOrder, Commands, Phases
<1>4. QED
  BY <1>1, <1>2, <1>3

LEMMA TypedPlace ==
  ASSUME TypeOK, DriverInOrder, Place
  PROVE  TypeOK' /\ DriverInOrder'
<1>1. /\ ToSet(batch) = {Head(batch)} \cup ToSet(Tail(batch))
      /\ Tail(batch) \in Seq(Symbols) /\ Head(batch) \in Symbols
      /\ batch' = Tail(batch)
  BY ToSetOfTail DEF TypeOK, Place
<1>2. CASE Head(batch) \in known
  BY <1>1, <1>2 DEF Place, TypeOK, DriverInOrder, Commands, Phases
<1>3. CASE Head(batch) \notin known
  <2>1. /\ shards' \in Seq(ShardRecords)
        /\ DOMAIN shards' = DOMAIN WithRoom
        /\ changed' = changed \cup {Len(WithRoom)}
        /\ known' = known \cup {Head(batch)}
    BY <1>3, PlaceFacts
  <2>2. changed' \subseteq DOMAIN shards'
    BY <2>1, RoomFacts DEF TypeOK
  <2>3. shards' \in Seq([symbols : Seq(Symbols), task : {NoTask} \cup DOMAIN tasks'])
    BY <2>1 DEF Place, ShardRecords, TaskNames
  <2>4. TypeOK'
    BY <1>1, <2>1, <2>2, <2>3 DEF Place, TypeOK, Commands, Phases
  <2>5. DriverInOrder'
    BY <1>1, <2>1 DEF Place, DriverInOrder
  <2>6. QED
    BY <2>4, <2>5
<1>4. QED
  BY <1>2, <1>3

LEMMA TypedRestart ==
  ASSUME TypeOK, DriverInOrder, Abort \/ Restart
  PROVE  TypeOK' /\ DriverInOrder'
<1>1. CASE Abort
  <2>1. changed # {} /\ batch = <<>> /\ driver' = "awaiting"
    BY <1>1 DEF Abort
  <2>2. shards[Restarted].task \in TaskNames
    BY <2>1, RestartedIsChanged, ShardsAndTasks
  <2>3. DOMAIN tasks' = DOMAIN tasks /\ tasks' \in Seq(TaskRecords)
    <3>1. CASE shards[Restarted].task = NoTask
      BY <1>1, <3>1 DEF Abort, TypeOK, TaskRecords
    <3>2. CASE shards[Restarted].task # NoTask
      <4>1. shards[Restarted].task \in DOMAIN tasks
        BY <2>2, <3>2 DEF TaskNames
      <4>2. tasks' = [tasks EXCEPT ![shards[Restarted].task].aborted = TRUE]
        BY <1>1, <3>2 DEF Abort
      <4>3. QED
        BY <4>1, <4>2, TaskAborts
    <3>3. QED
      BY <3>1, <3>2
  <2>4. TypeOK'
    BY <1>1, <2>1, <2>3, SameNamesTyped, StateTypes DEF Abort, TypeOK
  <2>5. DriverInOrder'
    BY <1>1, <2>1 DEF Abort, DriverInOrder
  <2>6. QED
    BY <2>4, <2>5
<1>2. CASE Restart
  <2>1. changed # {} /\ batch = <<>>
    BY <1>2 DEF Restart, DriverInOrder
  <2>2. /\ tasks' \in Seq(TaskRecords)
        /\ DOMAIN tasks' = DOMAIN tasks \cup {Len(tasks) + 1}
        /\ DOMAIN shards' = DOMAIN shards
        /\ shards' \in Seq([symbols : Seq(Symbols), task : TaskNames'])
    BY <1>2, <2>1, RestartFacts
  <2>3. /\ states \in [Symbols -> [connected : BOOLEAN, publisher : TaskNames']]
        /\ Fresh \in [connected : BOOLEAN, publisher : TaskNames']
    <3>1. TaskNames \subseteq TaskNames'
      BY <2>2 DEF TaskNames
    <3>2. [connected : BOOLEAN, publisher : TaskNames]
            \subseteq [connected : BOOLEAN, publisher : TaskNames']
      BY <3>1
    <3>3. QED
      BY <3>2, StateTypes
  <2>4. states' \in [Symbols -> [connected : BOOLEAN, publisher : TaskNames']]
    <3>1. states' = [s \in Symbols |-> IF s \in ToSet(shards[Restarted].symbols)
                                       THEN Fresh ELSE states[s]]
      BY <1>2 DEF Restart
    <3>2. QED
      BY <2>3, <3>1
  <2>5. TypeOK'
    BY <1>2, <2>2, <2>4 DEF Restart, TypeOK, TaskNames, TaskRecords, Commands, Phases
  <2>6. DriverInOrder'
    BY <1>2 DEF Restart, DriverInOrder
  <2>7. QED
    BY <2>5, <2>6
<1>3. QED
  BY <1>1, <1>2

LEMMA TypedAssigned ==
  ASSUME TypeOK, DriverInOrder, Assigned
  PROVE  TypeOK' /\ DriverInOrder'
<1>1. batch = <<>> /\ changed = {} /\ NoList \in Seq(Symbols) /\ ToSet(NoList) = {}
  BY EmptySeq, EmptyToSet DEF Assigned, NothingToAssign, NoList
<1>2. QED
  BY <1>1 DEF Assigned, TypeOK, DriverInOrder, Commands, Phases

LEMMA TypedDrop ==
  ASSUME TypeOK, DriverInOrder, Drop
  PROVE  TypeOK' /\ DriverInOrder'
<1>1. DOMAIN tasks' = DOMAIN tasks /\ tasks' \in Seq(TaskRecords)
  BY DropFacts
<1>2. <<>> \in Seq(Commands)
  BY EmptySeq
<1>3. TypeOK'
  BY <1>1, <1>2, SameNamesTyped, StateTypes DEF Drop, TypeOK
<1>4. DriverInOrder'
  BY DEF Drop, DriverInOrder
<1>5. QED
  BY <1>3, <1>4

(* What a session does changes its own phase and the states of its symbols. *)
LEMMA TaskStepFacts ==
  ASSUME TypeOK, NEW t \in DOMAIN tasks, TaskStep(t)
  PROVE  /\ DOMAIN tasks' = DOMAIN tasks /\ tasks' \in Seq(TaskRecords)
         /\ \A u \in DOMAIN tasks :
               /\ tasks'[u].symbols = tasks[u].symbols
               /\ tasks'[u].aborted = tasks[u].aborted
               /\ u # t => tasks'[u].phase = tasks[u].phase
         /\ tasks[t].phase = "cancelled" => tasks'[t].phase = "cancelled"
         /\ UNCHANGED <<channel, asked, driverVars, calls>>
         /\ failures' \in 0..MaxFailures
<1>1. TypeOK /\ tasks \in Seq(TaskRecords)
  BY DEF TypeOK, TaskRecords
<1>2. CASE Connect(t)
  <2>1. tasks' = [tasks EXCEPT ![t].phase = "connected"] /\ tasks[t].phase = "connecting"
    BY <1>2 DEF Connect, Moved
  <2>2. QED
    BY <1>2, <2>1, PhaseMoves DEF Connect, Phases, TypeOK
<1>3. CASE \E s \in Symbols : Publish(t, s)
  BY <1>1, <1>3 DEF Publish, TypeOK
<1>4. CASE SessionEnds(t)
  <2>1. /\ tasks' = [tasks EXCEPT ![t].phase = "ended"]
        /\ tasks[t].phase \in {"connecting", "connected"}
    BY <1>4 DEF SessionEnds, Moved
  <2>2. failures' \in 0..MaxFailures
    BY <1>4, MaxFailuresAssumption DEF SessionEnds, TypeOK
  <2>3. QED
    BY <1>4, <2>1, <2>2, PhaseMoves DEF SessionEnds, Phases
<1>5. CASE ResetByTask(t)
  <2>1. tasks' = [tasks EXCEPT ![t].phase = "connecting"] /\ tasks[t].phase = "ended"
    BY <1>5 DEF ResetByTask, Moved
  <2>2. QED
    BY <1>5, <2>1, PhaseMoves DEF ResetByTask, Phases, TypeOK
<1>6. CASE Cancelled(t)
  <2>1. tasks' = [tasks EXCEPT ![t].phase = "cancelled"]
    BY <1>6 DEF Cancelled
  <2>2. QED
    BY <1>6, <2>1, PhaseMoves DEF Cancelled, Phases, TypeOK
<1>7. QED
  BY <1>2, <1>3, <1>4, <1>5, <1>6 DEF TaskStep


LEMMA TypedTaskStep ==
  ASSUME TypeOK, DriverInOrder, NEW t \in DOMAIN tasks, TaskStep(t)
  PROVE  TypeOK' /\ DriverInOrder'
<1> DEFINE States == [connected : BOOLEAN, publisher : TaskNames]
<1>1. states \in [Symbols -> States] /\ Fresh \in States
  BY StateTypes
<1>2. \A s \in Symbols : /\ [states[s] EXCEPT !.connected = TRUE] \in States
                         /\ [states[s] EXCEPT !.publisher = t] \in States
  <2>1. t \in TaskNames
    BY DEF TaskNames
  <2>2. ASSUME NEW s \in Symbols
        PROVE  /\ [states[s] EXCEPT !.connected = TRUE] \in States
               /\ [states[s] EXCEPT !.publisher = t] \in States
    <3>1. states[s] \in States
      BY <1>1
    <3>2. QED
      BY <2>1, <3>1
  <2>3. QED
    BY <2>2
<1>3. states' \in [Symbols -> States]
  <2>1. CASE Connect(t)
    BY <2>1, <1>1, <1>2 DEF Connect
  <2>2. CASE \E s \in Symbols : Publish(t, s)
    <3>1. PICK s \in Symbols : states' = [states EXCEPT ![s].publisher = t]
      BY <2>2 DEF Publish
    <3>2. states' = [states EXCEPT ![s] = [states[s] EXCEPT !.publisher = t]]
      BY <3>1
    <3>3. QED
      BY <1>1, <1>2, <3>2
  <2>3. CASE SessionEnds(t) \/ Cancelled(t)
    BY <2>3, <1>1 DEF SessionEnds, Cancelled
  <2>4. CASE ResetByTask(t)
    BY <2>4, <1>1 DEF ResetByTask
  <2>5. QED
    BY <2>1, <2>2, <2>3, <2>4 DEF TaskStep
<1>4. /\ DOMAIN tasks' = DOMAIN tasks /\ tasks' \in Seq(TaskRecords)
      /\ UNCHANGED <<channel, asked, driverVars, calls>>
      /\ failures' \in 0..MaxFailures
  BY TaskStepFacts
<1>5. TypeOK'
  BY <1>3, <1>4, SameNamesTyped DEF driverVars, TypeOK
<1>6. DriverInOrder'
  BY <1>4 DEF driverVars, DriverInOrder
<1>7. QED
  BY <1>5, <1>6

LEMMA NextTyped == TypeOK /\ DriverInOrder /\ [Next]_sdVars => TypeOK' /\ DriverInOrder'
<1> SUFFICES ASSUME TypeOK, DriverInOrder, [Next]_sdVars
             PROVE  TypeOK' /\ DriverInOrder'
  OBVIOUS
<1>1. CASE \E c \in Commands : Call(c)
  BY <1>1, TypedCall
<1>2. CASE DriverStep
  BY <1>2, TypedReceive, TypedPlace, TypedRestart, TypedAssigned DEF DriverStep
<1>3. CASE \E t \in DOMAIN tasks : TaskStep(t)
  BY <1>3, TypedTaskStep
<1>4. CASE Drop
  BY <1>4, TypedDrop
<1>5. CASE UNCHANGED sdVars
  <2>1. UNCHANGED <<channel, asked, driver, known, pending, armed, batch, changed, ack,
                    acked, shards, tasks, states, calls, failures>>
    BY <1>5 DEF sdVars, driverVars
  <2>2. QED
    BY <2>1 DEF TypeOK, DriverInOrder, Commands, Phases
<1>6. QED
  BY <1>1, <1>2, <1>3, <1>4, <1>5 DEF Next

(* Every variable keeps its type, and a shard's task is one that exists.    *)
THEOREM DriverTypeCorrect == Spec => []TypeOK
<1>1. Spec => [](TypeOK /\ DriverInOrder)
  BY InitTyped, NextTyped, PTL DEF Spec
<1>2. QED
  BY <1>1, PTL

-----------------------------------------------------------------------------
(* The shards partition the known symbols.                                  *)

(* The three parts of Partitioned, the last two by element instead of by    *)
(* the set of all places.                                                   *)
ShardsFilled ==
    \A i \in DOMAIN shards :
        /\ Len(shards[i].symbols) \in 1..Capacity
        /\ i < Len(shards) => Len(shards[i].symbols) = Capacity

PlacedOnce ==
    \A i, j \in DOMAIN shards :
        \A k \in DOMAIN shards[i].symbols, l \in DOMAIN shards[j].symbols :
            shards[i].symbols[k] = shards[j].symbols[l] => i = j /\ k = l

KnownArePlaced ==
    \A s \in Symbols : s \in known <=> \E i \in DOMAIN shards : s \in ToSet(shards[i].symbols)

PartitionInv == ShardsFilled /\ PlacedOnce /\ KnownArePlaced

(* A symbol has at most one shard.                                          *)
LEMMA OneShard ==
  ASSUME PlacedOnce, NEW i \in DOMAIN shards, NEW j \in DOMAIN shards, NEW s,
         s \in ToSet(shards[i].symbols), s \in ToSet(shards[j].symbols)
  PROVE  i = j
BY DEF PlacedOnce, ToSet

(* A step that leaves every shard its symbols leaves the partition.         *)
LEMMA SameSymbols ==
  ASSUME PartitionInv, DOMAIN shards' = DOMAIN shards, Len(shards') = Len(shards),
         \A i \in DOMAIN shards : shards'[i].symbols = shards[i].symbols,
         known' = known
  PROVE  PartitionInv'
<1>1. ShardsFilled'
  BY DEF PartitionInv, ShardsFilled
<1>2. PlacedOnce'
  BY DEF PartitionInv, PlacedOnce
<1>3. KnownArePlaced'
  BY DEF PartitionInv, KnownArePlaced
<1>4. QED
  BY <1>1, <1>2, <1>3 DEF PartitionInv

(* Where a new symbol goes, and what stays where it was.                    *)
LEMMA PlacedSymbols ==
  ASSUME TypeOK, PartitionInv, Place, Head(batch) \notin known,
         NEW n, n = Len(WithRoom)
  PROVE  /\ n \in Nat /\ Len(shards') = n /\ DOMAIN shards' = 1..n
         /\ DOMAIN shards \subseteq DOMAIN shards'
         /\ \A i \in DOMAIN shards : shards'[i].task = shards[i].task
         /\ n \notin DOMAIN shards => shards'[n].task = NoTask
         /\ \A i \in DOMAIN shards' : i # n =>
               /\ i \in DOMAIN shards
               /\ shards'[i].symbols = shards[i].symbols
               /\ Len(shards'[i].symbols) = Capacity
         /\ n \in DOMAIN shards' /\ Len(shards'[n].symbols) \in 1..Capacity
         /\ \A k \in DOMAIN shards'[n].symbols :
               \/ k = Len(shards'[n].symbols) /\ shards'[n].symbols[k] = Head(batch)
               \/ /\ n \in DOMAIN shards /\ k \in DOMAIN shards[n].symbols
                  /\ shards'[n].symbols[k] = shards[n].symbols[k]
         /\ n \in DOMAIN shards =>
               ToSet(shards'[n].symbols) = ToSet(shards[n].symbols) \cup {Head(batch)}
         /\ n \notin DOMAIN shards => ToSet(shards'[n].symbols) = {Head(batch)}
<1> DEFINE s == Head(batch)
           q == WithRoom[n].symbols
<1>1. Len(shards) \in Nat /\ DOMAIN shards = 1..Len(shards)
  BY ShardsAndTasks
<1>2. /\ WithRoom \in Seq(ShardRecords) /\ n \in DOMAIN WithRoom
      /\ \A i \in DOMAIN shards : i \in DOMAIN WithRoom /\ WithRoom[i] = shards[i]
  BY RoomFacts
<1>3. \/ n = Len(shards) /\ ~ LastIsFull
      \/ /\ n = Len(shards) + 1
         /\ WithRoom[n] = [symbols |-> <<>>, task |-> NoTask]
         /\ Len(shards) \in DOMAIN shards => LastIsFull
  BY RoomFacts
<1>4. /\ s \in Symbols /\ q \in Seq(Symbols)
      /\ DOMAIN shards' = DOMAIN WithRoom /\ Len(shards') = n
      /\ \A i \in DOMAIN WithRoom :
            /\ shards'[i].task = WithRoom[i].task
            /\ i # n => shards'[i].symbols = WithRoom[i].symbols
      /\ shards'[n].symbols = Append(q, s)
  BY PlaceFacts
<1> HIDE DEF s, q
<1>5. n \in Nat /\ DOMAIN shards' = 1..n /\ n \in DOMAIN shards'
  BY <1>2, <1>4, LenProperties
<1>6. ASSUME NEW i \in DOMAIN shards', i # n
      PROVE  /\ i \in DOMAIN shards
             /\ shards'[i].symbols = shards[i].symbols
             /\ Len(shards'[i].symbols) = Capacity
  <2>1. i \in 1..Len(shards) /\ i \in DOMAIN shards
    <3>1. n = Len(shards) \/ n = Len(shards) + 1
      BY <1>3
    <3>2. i \in 1..n /\ i # n
      BY <1>5, <1>6
    <3>3. QED
      BY <3>1, <3>2, <1>1
  <2>2. shards'[i].symbols = shards[i].symbols
    BY <1>2, <1>4, <1>6, <2>1
  <2>3. Len(shards[i].symbols) = Capacity
    <3>1. CASE i < Len(shards)
      BY <2>1, <3>1 DEF PartitionInv, ShardsFilled
    <3>2. CASE i = Len(shards)
      <4>1. n # Len(shards)
        BY <1>6, <3>2
      <4>2. LastIsFull
        BY <1>3, <4>1, <2>1, <3>2
      <4>3. QED
        BY <4>2, <3>2 DEF LastIsFull
    <3>3. QED
      BY <1>1, <2>1, <3>1, <3>2
  <2>4. QED
    BY <2>1, <2>2, <2>3
<1>7. \/ n \in DOMAIN shards /\ q = shards[n].symbols
      \/ n \notin DOMAIN shards /\ q = <<>> /\ WithRoom[n].task = NoTask
  <2>1. CASE n = Len(shards)
    <3>1. n \in 1..Len(shards)
      BY <2>1, <1>2, <1>4, <1>5
    <3>2. QED
      BY <3>1, <1>1, <1>2 DEF q
  <2>2. CASE n = Len(shards) + 1 /\ WithRoom[n] = [symbols |-> <<>>, task |-> NoTask]
    BY <2>2, <1>1 DEF q
  <2>3. QED
    BY <1>3, <2>1, <2>2
<1>8. Len(q) \in Nat /\ Len(q) < Capacity
  <2>1. CASE n \in DOMAIN shards /\ q = shards[n].symbols
    <3>1. n = Len(shards) /\ ~ LastIsFull
      BY <2>1, <1>1, <1>3
    <3>2. Len(q) # Capacity
      BY <3>1, <2>1 DEF LastIsFull
    <3>3. Len(q) \in 1..Capacity
      BY <2>1 DEF PartitionInv, ShardsFilled
    <3>4. QED
      BY <3>2, <3>3, CapacityAssumption
  <2>2. CASE q = <<>>
    BY <2>2, EmptySeq, CapacityAssumption
  <2>3. QED
    BY <1>7, <2>1, <2>2
<1>9. /\ Append(q, s) \in Seq(Symbols)
      /\ Len(Append(q, s)) = Len(q) + 1 /\ DOMAIN Append(q, s) = 1..(Len(q) + 1)
      /\ DOMAIN q = 1..Len(q)
      /\ \A k \in 1..Len(q) : Append(q, s)[k] = q[k]
      /\ Append(q, s)[Len(q) + 1] = s
      /\ ToSet(Append(q, s)) = ToSet(q) \cup {s}
  BY <1>4, AppendProperties, LenProperties, ToSetOfAppend
<1>10. Len(shards'[n].symbols) \in 1..Capacity
  BY <1>4, <1>8, <1>9, CapacityAssumption
<1>11. \A i \in DOMAIN shards : shards'[i].task = shards[i].task
  BY <1>2, <1>4
<1>12. DOMAIN shards \subseteq DOMAIN shards'
  BY <1>2, <1>4
<1>13. n \notin DOMAIN shards => shards'[n].task = NoTask
  BY <1>2, <1>4, <1>7
<1>14. ASSUME NEW k \in DOMAIN shards'[n].symbols
       PROVE  \/ k = Len(shards'[n].symbols) /\ shards'[n].symbols[k] = s
              \/ /\ n \in DOMAIN shards /\ k \in DOMAIN shards[n].symbols
                 /\ shards'[n].symbols[k] = shards[n].symbols[k]
  <2>1. k \in 1..Len(q) \/ k = Len(q) + 1
    BY <1>4, <1>8, <1>9
  <2>2. CASE k = Len(q) + 1
    BY <2>2, <1>4, <1>9
  <2>3. CASE k \in 1..Len(q)
    <3>1. q # <<>>
      BY <2>3, EmptySeq
    <3>2. QED
      BY <3>1, <2>3, <1>4, <1>7, <1>9
  <2>4. QED
    BY <2>1, <2>2, <2>3
<1>15. /\ n \in DOMAIN shards => ToSet(shards'[n].symbols) = ToSet(shards[n].symbols) \cup {s}
       /\ n \notin DOMAIN shards => ToSet(shards'[n].symbols) = {s}
  BY <1>4, <1>7, <1>9, EmptyToSet
<1>16. QED
  BY <1>4, <1>5, <1>6, <1>10, <1>11, <1>12, <1>13, <1>14, <1>15 DEF s

LEMMA PlacePartitions ==
  ASSUME TypeOK, PartitionInv, Place
  PROVE  PartitionInv'
<1>1. CASE Head(batch) \in known
  <2>1. UNCHANGED <<known, shards>>
    BY <1>1 DEF Place
  <2>2. QED
    BY <2>1 DEF PartitionInv, ShardsFilled, PlacedOnce, KnownArePlaced
<1>2. CASE Head(batch) \notin known
  <2> DEFINE s == Head(batch)
             n == Len(WithRoom)
  <2>1. known' = known \cup {s} /\ s \in Symbols
    BY <1>2, PlaceFacts
  <2>2. /\ n \in Nat /\ Len(shards') = n /\ DOMAIN shards' = 1..n
        /\ DOMAIN shards \subseteq DOMAIN shards'
        /\ \A i \in DOMAIN shards' : i # n =>
              /\ i \in DOMAIN shards
              /\ shards'[i].symbols = shards[i].symbols
              /\ Len(shards'[i].symbols) = Capacity
        /\ n \in DOMAIN shards' /\ Len(shards'[n].symbols) \in 1..Capacity
    BY <1>2, PlacedSymbols
  <2>3. \A k \in DOMAIN shards'[n].symbols :
           \/ k = Len(shards'[n].symbols) /\ shards'[n].symbols[k] = s
           \/ /\ n \in DOMAIN shards /\ k \in DOMAIN shards[n].symbols
              /\ shards'[n].symbols[k] = shards[n].symbols[k]
    BY <1>2, PlacedSymbols
  <2>4. /\ n \in DOMAIN shards =>
              ToSet(shards'[n].symbols) = ToSet(shards[n].symbols) \cup {s}
        /\ n \notin DOMAIN shards => ToSet(shards'[n].symbols) = {s}
    BY <1>2, PlacedSymbols
  <2>5. \A i \in DOMAIN shards : s \notin ToSet(shards[i].symbols)
    BY <1>2, <2>1 DEF PartitionInv, KnownArePlaced
  <2> HIDE DEF s, n
  <2>6. ShardsFilled'
    BY <2>2, CapacityAssumption DEF ShardsFilled
  <2>7. \A i \in DOMAIN shards : \A k \in DOMAIN shards[i].symbols : shards[i].symbols[k] # s
    BY <2>5 DEF ToSet
  <2>8. ASSUME NEW i \in DOMAIN shards', NEW k \in DOMAIN shards'[i].symbols
        PROVE  \/ i = n /\ k = Len(shards'[n].symbols) /\ shards'[i].symbols[k] = s
               \/ /\ i \in DOMAIN shards /\ k \in DOMAIN shards[i].symbols
                  /\ shards'[i].symbols[k] = shards[i].symbols[k]
    BY <2>2, <2>3
  <2>9. PlacedOnce'
    <3>1. ASSUME NEW i \in DOMAIN shards', NEW j \in DOMAIN shards',
                 NEW k \in DOMAIN shards'[i].symbols, NEW l \in DOMAIN shards'[j].symbols,
                 shards'[i].symbols[k] = shards'[j].symbols[l]
          PROVE  i = j /\ k = l
      BY <2>7, <2>8, <3>1 DEF PartitionInv, PlacedOnce
    <3>2. QED
      BY <3>1 DEF PlacedOnce
  <2>10. KnownArePlaced'
    <3>1. ASSUME NEW x \in Symbols
          PROVE  x \in known' <=> \E i \in DOMAIN shards' : x \in ToSet(shards'[i].symbols)
      <4>1. ASSUME x \in known' PROVE \E i \in DOMAIN shards' : x \in ToSet(shards'[i].symbols)
        <5>1. CASE x = s
          BY <5>1, <2>2, <2>4
        <5>2. CASE x \in known
          <6>1. PICK i \in DOMAIN shards : x \in ToSet(shards[i].symbols)
            BY <5>2 DEF PartitionInv, KnownArePlaced
          <6>2. x \in ToSet(shards'[i].symbols) /\ i \in DOMAIN shards'
            BY <6>1, <2>2, <2>4
          <6>3. QED
            BY <6>2
        <5>3. QED
          BY <4>1, <5>1, <5>2, <2>1
      <4>2. ASSUME NEW i \in DOMAIN shards', x \in ToSet(shards'[i].symbols)
            PROVE  x \in known'
        <5>1. x = s \/ (i \in DOMAIN shards /\ x \in ToSet(shards[i].symbols))
          <6>1. CASE i = n
            BY <6>1, <4>2, <2>4
          <6>2. CASE i # n
            BY <6>2, <4>2, <2>2
          <6>3. QED
            BY <6>1, <6>2
        <5>2. QED
          BY <5>1, <2>1 DEF PartitionInv, KnownArePlaced
      <4>3. QED
        BY <4>1, <4>2
    <3>2. QED
      BY <3>1 DEF KnownArePlaced
  <2>11. QED
    BY <2>6, <2>9, <2>10 DEF PartitionInv
<1>3. QED
  BY <1>1, <1>2

LEMMA InitPartition == Init => PartitionInv
<1> SUFFICES ASSUME Init PROVE PartitionInv
  OBVIOUS
<1>1. DOMAIN shards = {} /\ known = {}
  BY DEF Init
<1>2. QED
  BY <1>1 DEF PartitionInv, ShardsFilled, PlacedOnce, KnownArePlaced

LEMMA NextPartition ==
  TypeOK /\ DriverInOrder /\ PartitionInv /\ [Next]_sdVars => PartitionInv'
<1> SUFFICES ASSUME TypeOK, DriverInOrder, PartitionInv, [Next]_sdVars
             PROVE  PartitionInv'
  OBVIOUS
<1>1. CASE Place
  BY <1>1, PlacePartitions
<1>2. CASE Restart
  <2>1. changed # {} /\ known' = known
    BY <1>2 DEF Restart, DriverInOrder
  <2>2. /\ DOMAIN shards' = DOMAIN shards /\ Len(shards') = Len(shards)
        /\ \A i \in DOMAIN shards : shards'[i].symbols = shards[i].symbols
    BY <1>2, <2>1, RestartFacts
  <2>3. QED
    BY <2>1, <2>2, SameSymbols
<1>3. CASE UNCHANGED <<known, shards>>
  <2>1. known' = known /\ shards' = shards
    BY <1>3
  <2>2. QED
    BY <2>1 DEF PartitionInv, ShardsFilled, PlacedOnce, KnownArePlaced
<1>4. Next => Place \/ Restart \/ UNCHANGED <<known, shards>>
  <2>1. (\E c \in Commands : Call(c)) => UNCHANGED <<known, shards>>
    BY DEF Call
  <2>2. DriverStep => Place \/ Restart \/ UNCHANGED <<known, shards>>
    BY DEF DriverStep, ReceiveSubscribe, ReceivePrewarm, Debounced, Abort, Assigned
  <2>3. ASSUME NEW t \in DOMAIN tasks, TaskStep(t) PROVE UNCHANGED <<known, shards>>
    BY <2>3, TaskStepFacts DEF driverVars
  <2>4. Drop => UNCHANGED <<known, shards>>
    BY DEF Drop
  <2>5. QED
    BY <2>1, <2>2, <2>3, <2>4 DEF Next
<1>5. UNCHANGED sdVars => UNCHANGED <<known, shards>>
  BY DEF sdVars, driverVars
<1>6. QED
  BY <1>1, <1>2, <1>3, <1>4, <1>5

LEMMA PartitionInvSuffices == TypeOK /\ PartitionInv => Partitioned
<1> SUFFICES ASSUME TypeOK, PartitionInv PROVE Partitioned
  OBVIOUS
<1>1. /\ Len(shards) \in Nat /\ DOMAIN shards = 1..Len(shards)
      /\ \A i \in DOMAIN shards : shards[i].symbols \in Seq(Symbols)
  BY ShardsAndTasks
<1>2. \A i \in DOMAIN shards :
         /\ DOMAIN shards[i].symbols = 1..Len(shards[i].symbols)
         /\ Len(shards[i].symbols) \in 1..Capacity
  BY <1>1, LenProperties DEF PartitionInv, ShardsFilled
<1>3. ASSUME NEW h \in Homes
      PROVE  /\ h[1] \in DOMAIN shards /\ h[2] \in DOMAIN shards[h[1]].symbols
             /\ h = <<h[1], h[2]>>
  <2>1. h \in (1..Len(shards)) \X (1..Capacity) /\ h[2] <= Len(shards[h[1]].symbols)
    BY DEF Homes
  <2>2. h[1] \in DOMAIN shards /\ h[2] \in 1..Capacity /\ h = <<h[1], h[2]>>
    BY <2>1, <1>1
  <2>3. h[2] \in 1..Len(shards[h[1]].symbols)
    BY <2>1, <2>2, <1>2, CapacityAssumption
  <2>4. QED
    BY <2>2, <2>3, <1>2
<1>4. ASSUME NEW i \in DOMAIN shards, NEW k \in DOMAIN shards[i].symbols
      PROVE  <<i, k>> \in Homes
  <2>1. k \in 1..Len(shards[i].symbols) /\ k \in 1..Capacity
    BY <1>2, CapacityAssumption
  <2>2. <<i, k>> \in (1..Len(shards)) \X (1..Capacity) /\ <<i, k>>[1] = i /\ <<i, k>>[2] = k
    BY <1>1, <2>1
  <2>3. <<i, k>>[2] <= Len(shards[<<i, k>>[1]].symbols)
    BY <2>1, <2>2, <1>2
  <2>4. QED
    BY <2>2, <2>3 DEF Homes
<1>5. \A g, h \in Homes : shards[g[1]].symbols[g[2]] = shards[h[1]].symbols[h[2]] => g = h
  <2>1. ASSUME NEW g \in Homes, NEW h \in Homes,
               shards[g[1]].symbols[g[2]] = shards[h[1]].symbols[h[2]]
        PROVE  g = h
    <3>1. g[1] = h[1] /\ g[2] = h[2]
      BY <1>3, <2>1 DEF PartitionInv, PlacedOnce
    <3>2. QED
      BY <3>1, <1>3
  <2>2. QED
    BY <2>1
<1>6. known = {shards[h[1]].symbols[h[2]] : h \in Homes}
  <2>1. ASSUME NEW s \in known PROVE \E h \in Homes : s = shards[h[1]].symbols[h[2]]
    <3>1. PICK i \in DOMAIN shards : s \in ToSet(shards[i].symbols)
      BY <2>1 DEF TypeOK, PartitionInv, KnownArePlaced
    <3>2. PICK k \in DOMAIN shards[i].symbols : s = shards[i].symbols[k]
      BY <3>1 DEF ToSet
    <3>3. <<i, k>> \in Homes /\ <<i, k>>[1] = i /\ <<i, k>>[2] = k
      BY <1>4
    <3>4. QED
      BY <3>2, <3>3
  <2>2. ASSUME NEW h \in Homes PROVE shards[h[1]].symbols[h[2]] \in known
    <3> DEFINE s == shards[h[1]].symbols[h[2]]
    <3>1. /\ h[1] \in DOMAIN shards /\ h[2] \in DOMAIN shards[h[1]].symbols
      BY <1>3
    <3>2. s \in ToSet(shards[h[1]].symbols)
      BY <3>1 DEF ToSet
    <3>3. s \in Symbols
      BY <3>1, <3>2, <1>1, ToSetType
    <3>4. QED
      BY <3>1, <3>2, <3>3 DEF PartitionInv, KnownArePlaced
  <2>3. QED
    BY <2>1, <2>2
<1>7. QED
  BY <1>2, <1>5, <1>6 DEF Partitioned, PartitionInv, ShardsFilled

(* The shards partition the known symbols, within the capacity of a         *)
(* connection and with only the last one not full.                          *)
THEOREM ShardsPartition == Spec => []Partitioned
<1>1. Init => TypeOK /\ DriverInOrder /\ PartitionInv
  BY InitTyped, InitPartition
<1>2. TypeOK /\ DriverInOrder /\ PartitionInv /\ [Next]_sdVars
         => (TypeOK /\ DriverInOrder /\ PartitionInv)'
  BY NextTyped, NextPartition
<1>3. QED
  BY <1>1, <1>2, PartitionInvSuffices, PTL DEF Spec

-----------------------------------------------------------------------------
(* Sessions: a running one is its shard's, and streams only symbols of the  *)
(* shard; one that is not to be restarted streams all of them.              *)

SessionsCover ==
    \A i \in DOMAIN shards :
        /\ shards[i].task # NoTask =>
               tasks[shards[i].task].symbols \subseteq ToSet(shards[i].symbols)
        /\ i \notin changed =>
               /\ shards[i].task # NoTask
               /\ tasks[shards[i].task].symbols = ToSet(shards[i].symbols)

LiveIsCurrent ==
    \A t \in DOMAIN tasks : Live(t) => \E i \in DOMAIN shards : shards[i].task = t

(* What is on show for a symbol comes from the session of a shard that      *)
(* streams it, which has connected if the symbol is marked connected.       *)
ShownByCurrent ==
    \A s \in Symbols : states[s] # Fresh =>
        \E i \in DOMAIN shards :
            /\ shards[i].task # NoTask
            /\ s \in tasks[shards[i].task].symbols
            /\ states[s].publisher \in {NoTask, shards[i].task}
            /\ states[s].connected => tasks[shards[i].task].phase # "connecting"

DriverInv == TypeOK /\ DriverInOrder /\ PartitionInv
SessionInv == SessionsCover /\ LiveIsCurrent

LEMMA InitSession == Init => SessionInv
<1> SUFFICES ASSUME Init PROVE SessionInv
  OBVIOUS
<1>1. DOMAIN shards = {} /\ DOMAIN tasks = {}
  BY DEF Init
<1>2. QED
  BY <1>1 DEF SessionInv, SessionsCover, LiveIsCurrent

(* A step that keeps the shards and the tasks but for phases, and ends no   *)
(* cancellation, keeps both parts.                                          *)
LEMMA SessionsKept ==
  ASSUME DriverInv, SessionInv, shards' = shards, changed' = changed,
         DOMAIN tasks' = DOMAIN tasks,
         \A u \in DOMAIN tasks :
             /\ tasks'[u].symbols = tasks[u].symbols
             /\ tasks[u].phase = "cancelled" => tasks'[u].phase = "cancelled"
  PROVE  SessionInv'
<1>1. \A i \in DOMAIN shards : shards[i].task # NoTask => shards[i].task \in DOMAIN tasks
  BY ShardsAndTasks DEF DriverInv, TaskNames
<1>2. SessionsCover'
  BY <1>1 DEF SessionInv, SessionsCover
<1>3. LiveIsCurrent'
  BY DEF SessionInv, LiveIsCurrent, Live
<1>4. QED
  BY <1>2, <1>3 DEF SessionInv

LEMMA PlaceSessions ==
  ASSUME DriverInv, SessionInv, Place
  PROVE  SessionInv'
<1>1. TypeOK /\ PartitionInv /\ tasks' = tasks
  BY DEF DriverInv, Place
<1>2. CASE Head(batch) \in known
  <2>1. shards' = shards /\ changed' = changed
    BY <1>2 DEF Place
  <2>2. QED
    BY <1>1, <2>1, SessionsKept
<1>3. CASE Head(batch) \notin known
  <2> DEFINE n == Len(WithRoom)
  <2>1. /\ DOMAIN shards \subseteq DOMAIN shards'
        /\ \A i \in DOMAIN shards : shards'[i].task = shards[i].task
        /\ n \notin DOMAIN shards => shards'[n].task = NoTask
        /\ \A i \in DOMAIN shards' : i # n =>
              /\ i \in DOMAIN shards
              /\ shards'[i].symbols = shards[i].symbols
    BY <1>1, <1>3, PlacedSymbols
  <2>2. n \in DOMAIN shards =>
           ToSet(shards'[n].symbols) = ToSet(shards[n].symbols) \cup {Head(batch)}
    BY <1>1, <1>3, PlacedSymbols
  <2>3. changed' = changed \cup {n}
    BY <1>1, <1>3, PlaceFacts
  <2> HIDE DEF n
  <2>4. ASSUME NEW i \in DOMAIN shards'
        PROVE  /\ shards'[i].task # NoTask =>
                      tasks'[shards'[i].task].symbols \subseteq ToSet(shards'[i].symbols)
               /\ i \notin changed' =>
                      /\ shards'[i].task # NoTask
                      /\ tasks'[shards'[i].task].symbols = ToSet(shards'[i].symbols)
    <3>1. CASE i # n
      BY <3>1, <1>1, <2>1, <2>3 DEF SessionInv, SessionsCover
    <3>2. CASE i = n /\ n \in DOMAIN shards
      BY <3>2, <1>1, <2>1, <2>2, <2>3 DEF SessionInv, SessionsCover
    <3>3. CASE i = n /\ n \notin DOMAIN shards
      BY <3>3, <2>1, <2>3
    <3>4. QED
      BY <3>1, <3>2, <3>3
  <2>5. SessionsCover'
    BY <2>4 DEF SessionsCover
  <2>6. LiveIsCurrent'
    BY <1>1, <2>1 DEF SessionInv, LiveIsCurrent, Live
  <2>7. QED
    BY <2>5, <2>6 DEF SessionInv
<1>4. QED
  BY <1>2, <1>3

LEMMA RestartSessions ==
  ASSUME DriverInv, SessionInv, Restart
  PROVE  SessionInv'
<1> DEFINE r == Restarted
           new == Len(tasks) + 1
<1>1. TypeOK /\ changed # {} /\ changed' = changed \ {r}
  BY DEF DriverInv, DriverInOrder, Restart
<1>2. r \in DOMAIN shards
  BY <1>1, RestartedIsChanged
<1>3. \A i \in DOMAIN shards : shards[i].task # NoTask => shards[i].task \in DOMAIN tasks
  BY <1>1, ShardsAndTasks DEF TaskNames
<1>4. /\ DOMAIN tasks' = DOMAIN tasks \cup {new}
      /\ \A t \in DOMAIN tasks : tasks'[t] = tasks[t]
      /\ tasks'[new].symbols = ToSet(shards[r].symbols)
      /\ DOMAIN shards' = DOMAIN shards
      /\ \A i \in DOMAIN shards :
            /\ shards'[i].symbols = shards[i].symbols
            /\ shards'[i].task = IF i = r THEN new ELSE shards[i].task
  BY <1>1, RestartFacts
<1>5. new # NoTask
  BY <1>1, ShardsAndTasks DEF NoTask
<1>6. OldTaskGone
  BY DEF Restart
<1> HIDE DEF r, new
<1>7. SessionsCover'
  <2>1. ASSUME NEW i \in DOMAIN shards'
        PROVE  /\ shards'[i].task # NoTask =>
                      tasks'[shards'[i].task].symbols \subseteq ToSet(shards'[i].symbols)
               /\ i \notin changed' =>
                      /\ shards'[i].task # NoTask
                      /\ tasks'[shards'[i].task].symbols = ToSet(shards'[i].symbols)
    <3>1. CASE i = r
      BY <3>1, <1>2, <1>4, <1>5
    <3>2. CASE i # r
      <4>1. /\ i \in DOMAIN shards /\ shards'[i].task = shards[i].task
            /\ shards'[i].symbols = shards[i].symbols
            /\ i \notin changed' => i \notin changed
        BY <3>2, <1>1, <1>4
      <4>2. shards[i].task # NoTask => tasks'[shards[i].task] = tasks[shards[i].task]
        BY <4>1, <1>3, <1>4
      <4>3. QED
        BY <4>1, <4>2 DEF SessionInv, SessionsCover
    <3>3. QED
      BY <3>1, <3>2
  <2>2. QED
    BY <2>1 DEF SessionsCover
<1>8. LiveIsCurrent'
  <2>1. ASSUME NEW t \in DOMAIN tasks', tasks'[t].phase # "cancelled"
        PROVE  \E i \in DOMAIN shards' : shards'[i].task = t
    <3>1. CASE t = new
      BY <3>1, <1>2, <1>4
    <3>2. CASE t \in DOMAIN tasks
      <4>1. tasks[t].phase # "cancelled"
        BY <3>2, <2>1, <1>4
      <4>2. PICK i \in DOMAIN shards : shards[i].task = t
        BY <3>2, <4>1 DEF SessionInv, LiveIsCurrent, Live
      <4>3. i # r
        <5>1. t # NoTask
          BY <3>2, <1>1, ShardsAndTasks
        <5>2. QED
          BY <4>1, <4>2, <5>1, <1>6 DEF OldTaskGone, r
      <4>4. QED
        BY <4>2, <4>3, <1>4
    <3>3. QED
      BY <3>1, <3>2, <1>4
  <2>2. QED
    BY <2>1 DEF LiveIsCurrent, Live
<1>9. QED
  BY <1>7, <1>8 DEF SessionInv

LEMMA AbortSessions ==
  ASSUME DriverInv, SessionInv, Abort
  PROVE  SessionInv'
<1>1. TypeOK /\ changed # {} /\ shards' = shards /\ changed' = changed
  BY DEF DriverInv, Abort
<1>2. shards[Restarted].task \in TaskNames
  BY <1>1, RestartedIsChanged, ShardsAndTasks
<1>3. /\ DOMAIN tasks' = DOMAIN tasks
      /\ \A u \in DOMAIN tasks :
            tasks'[u].symbols = tasks[u].symbols /\ tasks'[u].phase = tasks[u].phase
  <2>1. CASE shards[Restarted].task = NoTask
    BY <2>1 DEF Abort
  <2>2. CASE shards[Restarted].task # NoTask
    <3>1. shards[Restarted].task \in DOMAIN tasks
      BY <1>2, <2>2 DEF TaskNames
    <3>2. tasks' = [tasks EXCEPT ![shards[Restarted].task].aborted = TRUE]
      BY <2>2 DEF Abort
    <3>3. QED
      BY <1>1, <3>1, <3>2, TaskAborts
  <2>3. QED
    BY <2>1, <2>2
<1>4. QED
  BY <1>1, <1>3, SessionsKept

LEMMA NextSession == DriverInv /\ SessionInv /\ [Next]_sdVars => SessionInv'
<1> SUFFICES ASSUME DriverInv, SessionInv, [Next]_sdVars
             PROVE  SessionInv'
  OBVIOUS
<1>1. CASE UNCHANGED <<shards, changed, tasks>>
  <2>1. shards' = shards /\ changed' = changed /\ tasks' = tasks
    BY <1>1
  <2>2. QED
    BY <2>1, SessionsKept
<1>2. CASE \E t \in DOMAIN tasks : TaskStep(t)
  <2>1. PICK t \in DOMAIN tasks : TaskStep(t)
    BY <1>2
  <2>2. /\ shards' = shards /\ changed' = changed /\ DOMAIN tasks' = DOMAIN tasks
        /\ \A u \in DOMAIN tasks :
              /\ tasks'[u].symbols = tasks[u].symbols
              /\ tasks[u].phase = "cancelled" => tasks'[u].phase = "cancelled"
    BY <2>1, TaskStepFacts DEF driverVars, DriverInv
  <2>3. QED
    BY <2>2, SessionsKept
<1>3. CASE Drop
  <2>1. /\ DOMAIN tasks' = DOMAIN tasks
        /\ \A u \in DOMAIN tasks :
              tasks'[u].symbols = tasks[u].symbols /\ tasks'[u].phase = tasks[u].phase
    BY <1>3, DropFacts DEF DriverInv
  <2>2. shards' = shards /\ changed' = changed
    BY <1>3 DEF Drop
  <2>3. QED
    BY <2>1, <2>2, SessionsKept
<1>4. CASE DriverStep
  <2>1. CASE Place
    BY <2>1, PlaceSessions
  <2>2. CASE Restart
    BY <2>2, RestartSessions
  <2>3. CASE Abort
    BY <2>3, AbortSessions
  <2>4. CASE ReceiveSubscribe \/ ReceivePrewarm \/ Debounced \/ Assigned
    BY <1>1, <2>4 DEF ReceiveSubscribe, ReceivePrewarm, Debounced, Assigned
  <2>5. QED
    BY <1>4, <2>1, <2>2, <2>3, <2>4 DEF DriverStep
<1>5. (\E c \in Commands : Call(c)) \/ UNCHANGED sdVars => UNCHANGED <<shards, changed, tasks>>
  BY DEF Call, sdVars, driverVars
<1>6. QED
  BY <1>1, <1>2, <1>3, <1>4, <1>5 DEF Next

LEMMA NextDriverInv == DriverInv /\ [Next]_sdVars => DriverInv'
BY NextTyped, NextPartition DEF DriverInv

(* Two sessions that run at once are those of two shards, which have no     *)
(* symbol in common.                                                        *)
LEMMA LiveSessionsApart == DriverInv /\ SessionInv => OneSessionPerSymbol
<1> SUFFICES ASSUME DriverInv, SessionInv,
                    NEW t \in DOMAIN tasks, NEW u \in DOMAIN tasks, t # u, Live(t), Live(u),
                    NEW s \in tasks[t].symbols, s \in tasks[u].symbols
             PROVE  FALSE
  BY DEF OneSessionPerSymbol
<1>1. TypeOK /\ PlacedOnce /\ NoTask \notin DOMAIN tasks
  BY ShardsAndTasks DEF DriverInv, PartitionInv
<1>2. PICK i \in DOMAIN shards : shards[i].task = t
  BY DEF SessionInv, LiveIsCurrent
<1>3. PICK j \in DOMAIN shards : shards[j].task = u
  BY DEF SessionInv, LiveIsCurrent
<1>4. s \in ToSet(shards[i].symbols) /\ s \in ToSet(shards[j].symbols)
  BY <1>1, <1>2, <1>3 DEF SessionInv, SessionsCover
<1>5. i = j
  BY <1>1, <1>4, OneShard
<1>6. QED
  BY <1>2, <1>3, <1>5

(* At any time at most one running session streams a symbol.                *)
THEOREM OneSession == Spec => []OneSessionPerSymbol
<1>1. Init => DriverInv /\ SessionInv
  BY InitTyped, InitPartition, InitSession DEF DriverInv
<1>2. DriverInv /\ SessionInv /\ [Next]_sdVars => (DriverInv /\ SessionInv)'
  BY NextDriverInv, NextSession
<1>3. QED
  BY <1>1, <1>2, LiveSessionsApart, PTL DEF Spec

-----------------------------------------------------------------------------
(* What is on show comes from the current session.                          *)

LEMMA InitShown == Init => ShownByCurrent
BY DEF Init, ShownByCurrent

(* A step that changes no state, keeps the sessions' symbols and does not   *)
(* take one back to connecting.                                             *)
LEMMA ShownKept ==
  ASSUME DriverInv, ShownByCurrent, states' = states, DOMAIN shards \subseteq DOMAIN shards',
         \A i \in DOMAIN shards : shards'[i].task = shards[i].task,
         \A u \in DOMAIN tasks :
             /\ tasks'[u].symbols = tasks[u].symbols
             /\ tasks[u].phase # "connecting" => tasks'[u].phase # "connecting"
  PROVE  ShownByCurrent'
<1>1. \A i \in DOMAIN shards : shards[i].task # NoTask => shards[i].task \in DOMAIN tasks
  BY ShardsAndTasks DEF DriverInv, TaskNames
<1>2. Fresh' = Fresh
  BY DEF Fresh
<1>3. ASSUME NEW s \in Symbols, states[s] # Fresh
      PROVE  \E i \in DOMAIN shards' :
                /\ shards'[i].task # NoTask
                /\ s \in tasks'[shards'[i].task].symbols
                /\ states[s].publisher \in {NoTask, shards'[i].task}
                /\ states[s].connected => tasks'[shards'[i].task].phase # "connecting"
  <2>1. PICK i \in DOMAIN shards :
           /\ shards[i].task # NoTask
           /\ s \in tasks[shards[i].task].symbols
           /\ states[s].publisher \in {NoTask, shards[i].task}
           /\ states[s].connected => tasks[shards[i].task].phase # "connecting"
    BY <1>3 DEF ShownByCurrent
  <2>2. i \in DOMAIN shards' /\ shards'[i].task = shards[i].task /\ shards[i].task \in DOMAIN tasks
    BY <1>1, <2>1
  <2>3. QED
    BY <2>1, <2>2
<1>4. QED
  BY <1>2, <1>3 DEF ShownByCurrent

(* The shard whose session streams a symbol is the shard of the symbol.     *)
LEMMA StreamedByItsShard ==
  ASSUME DriverInv, SessionInv, NEW i \in DOMAIN shards, NEW j \in DOMAIN shards, NEW s,
         shards[i].task # NoTask, s \in tasks[shards[i].task].symbols,
         s \in ToSet(shards[j].symbols)
  PROVE  i = j
<1>1. s \in ToSet(shards[i].symbols)
  BY DEF SessionInv, SessionsCover
<1>2. QED
  BY <1>1, OneShard DEF DriverInv, PartitionInv

LEMMA ShownAfterTaskStep ==
  ASSUME DriverInv, SessionInv, ShownByCurrent, NEW t \in DOMAIN tasks, TaskStep(t)
  PROVE  ShownByCurrent'
<1>1. TypeOK
  BY DEF DriverInv
<1>2. /\ shards' = shards /\ DOMAIN tasks' = DOMAIN tasks
      /\ \A u \in DOMAIN tasks :
            /\ tasks'[u].symbols = tasks[u].symbols
            /\ u # t => tasks'[u].phase = tasks[u].phase
  BY <1>1, TaskStepFacts DEF driverVars
<1>3. CASE SessionEnds(t) \/ Cancelled(t)
  <2>1. /\ states' = states
        /\ tasks' = [tasks EXCEPT ![t].phase = "ended"]
           \/ tasks' = [tasks EXCEPT ![t].phase = "cancelled"]
    BY <1>3 DEF SessionEnds, Cancelled, Moved
  <2>2. tasks'[t].phase # "connecting"
    BY <1>1, <2>1, PhaseMoves DEF Phases
  <2>3. QED
    BY <1>2, <2>1, <2>2, ShownKept
<1> DEFINE Streams(i, s) == /\ shards[i].task # NoTask
                            /\ s \in tasks[shards[i].task].symbols
           Shown(i, s) == /\ Streams(i, s)
                          /\ states'[s].publisher \in {NoTask, shards[i].task}
                          /\ states'[s].connected => tasks'[shards[i].task].phase # "connecting"
<1>4. SUFFICES ASSUME NEW s \in Symbols, states'[s] # Fresh,
                      ~ (SessionEnds(t) \/ Cancelled(t))
               PROVE  \E i \in DOMAIN shards : Shown(i, s)
  <2>1. \A i \in DOMAIN shards : shards[i].task # NoTask => shards[i].task \in DOMAIN tasks
    BY <1>1, ShardsAndTasks DEF TaskNames
  <2>2. Fresh' = Fresh
    BY DEF Fresh
  <2>3. QED
    BY <1>2, <1>3, <2>1, <2>2 DEF ShownByCurrent
<1>5. /\ states \in [Symbols -> [connected : BOOLEAN, publisher : TaskNames]]
      /\ states[s] \in [connected : BOOLEAN, publisher : TaskNames]
  BY <1>1, StateTypes
<1>6. states[s] # Fresh =>
         \E i \in DOMAIN shards :
            /\ Streams(i, s)
            /\ states[s].publisher \in {NoTask, shards[i].task}
            /\ states[s].connected => tasks[shards[i].task].phase # "connecting"
  BY DEF ShownByCurrent
<1>7. \A i \in DOMAIN shards, j \in DOMAIN shards : Streams(i, s) /\ Streams(j, s) => i = j
  <2>1. ASSUME NEW i \in DOMAIN shards, NEW j \in DOMAIN shards, Streams(i, s), Streams(j, s)
        PROVE  i = j
    <3>1. s \in ToSet(shards[j].symbols)
      BY <2>1 DEF SessionInv, SessionsCover
    <3>2. QED
      BY <2>1, <3>1, StreamedByItsShard
  <2>2. QED
    BY <2>1
<1>8. tasks[t].phase # "cancelled" => \E i \in DOMAIN shards : shards[i].task = t
  BY DEF SessionInv, LiveIsCurrent, Live
<1>9. t # NoTask
  BY <1>1, ShardsAndTasks
<1>10. CASE Connect(t)
  <2>1. /\ tasks[t].phase = "connecting"
        /\ tasks' = [tasks EXCEPT ![t].phase = "connected"]
        /\ states'[s] = IF s \in tasks[t].symbols
                        THEN [states[s] EXCEPT !.connected = TRUE] ELSE states[s]
    BY <1>10 DEF Connect, Moved
  <2>2. tasks'[t].phase = "connected"
    BY <1>1, <2>1, PhaseMoves DEF Phases
  <2>3. CASE s \in tasks[t].symbols
    <3>1. PICK i \in DOMAIN shards : shards[i].task = t
      BY <1>8, <2>1
    <3>2. Streams(i, s)
      BY <3>1, <2>3, <1>9
    <3>3. states'[s].publisher = states[s].publisher
      BY <2>1, <2>3, <1>5
    <3>4. states[s].publisher \in {NoTask, shards[i].task}
      <4>1. CASE states[s] = Fresh
        BY <4>1 DEF Fresh
      <4>2. CASE states[s] # Fresh
        BY <4>2, <1>6, <1>7, <3>2
      <4>3. QED
        BY <4>1, <4>2
    <3>5. QED
      BY <3>1, <3>2, <3>3, <3>4, <2>2
  <2>4. CASE s \notin tasks[t].symbols
    <3>1. states'[s] = states[s]
      BY <2>1, <2>4
    <3>2. PICK i \in DOMAIN shards :
            /\ Streams(i, s)
            /\ states[s].publisher \in {NoTask, shards[i].task}
            /\ states[s].connected => tasks[shards[i].task].phase # "connecting"
      BY <1>4, <1>6, <3>1
    <3>3. shards[i].task # t /\ shards[i].task \in DOMAIN tasks
      BY <3>2, <2>4, <1>1, ShardsAndTasks DEF TaskNames
    <3>4. QED
      BY <3>1, <3>2, <3>3, <1>2
  <2>5. QED
    BY <2>3, <2>4
<1>11. CASE \E x \in Symbols : Publish(t, x)
  <2>1. PICK x \in Symbols : Publish(t, x)
    BY <1>11
  <2>2. /\ tasks[t].phase = "connected" /\ x \in tasks[t].symbols
        /\ states' = [states EXCEPT ![x].publisher = t] /\ tasks' = tasks
    BY <2>1 DEF Publish
  <2>3. CASE s = x
    <3>1. PICK i \in DOMAIN shards : shards[i].task = t
      BY <1>8, <2>2
    <3>2. states'[s].publisher = t
      BY <2>2, <2>3, <1>5
    <3>3. QED
      BY <1>9, <2>2, <2>3, <3>1, <3>2
  <2>4. CASE s # x
    <3>1. states'[s] = states[s]
      BY <2>2, <2>4, <1>5
    <3>2. QED
      BY <1>4, <1>6, <2>2, <3>1
  <2>5. QED
    BY <2>3, <2>4
<1>12. CASE ResetByTask(t)
  <2>1. states'[s] = IF s \in tasks[t].symbols THEN Fresh ELSE states[s]
    BY <1>12 DEF ResetByTask
  <2>2. s \notin tasks[t].symbols /\ states'[s] = states[s]
    BY <1>4, <2>1
  <2>3. PICK i \in DOMAIN shards :
          /\ Streams(i, s)
          /\ states[s].publisher \in {NoTask, shards[i].task}
          /\ states[s].connected => tasks[shards[i].task].phase # "connecting"
    BY <1>4, <1>6, <2>2
  <2>4. shards[i].task # t /\ shards[i].task \in DOMAIN tasks
    BY <2>2, <2>3, <1>1, ShardsAndTasks DEF TaskNames
  <2>5. QED
    BY <2>2, <2>3, <2>4, <1>2
<1>13. QED
  BY <1>4, <1>10, <1>11, <1>12 DEF TaskStep

LEMMA ShownAfterRestart ==
  ASSUME DriverInv, SessionInv, ShownByCurrent, Restart
  PROVE  ShownByCurrent'
<1> DEFINE r == Restarted
           new == Len(tasks) + 1
<1>1. TypeOK /\ changed # {}
  BY DEF DriverInv, DriverInOrder, Restart
<1>2. r \in DOMAIN shards
  BY <1>1, RestartedIsChanged
<1>3. /\ \A t \in DOMAIN tasks : tasks'[t] = tasks[t]
      /\ DOMAIN shards' = DOMAIN shards
      /\ \A i \in DOMAIN shards :
            shards'[i].task = IF i = r THEN new ELSE shards[i].task
  BY <1>1, RestartFacts
<1>4. \A s \in Symbols : states'[s] = IF s \in ToSet(shards[r].symbols) THEN Fresh ELSE states[s]
  BY DEF Restart
<1>5. \A i \in DOMAIN shards : shards[i].task # NoTask => shards[i].task \in DOMAIN tasks
  BY <1>1, ShardsAndTasks DEF TaskNames
<1>6. Fresh' = Fresh
  BY DEF Fresh
<1> HIDE DEF r, new
<1>7. ASSUME NEW s \in Symbols, states'[s] # Fresh
      PROVE  \E i \in DOMAIN shards' :
                /\ shards'[i].task # NoTask
                /\ s \in tasks'[shards'[i].task].symbols
                /\ states'[s].publisher \in {NoTask, shards'[i].task}
                /\ states'[s].connected => tasks'[shards'[i].task].phase # "connecting"
  <2>1. s \notin ToSet(shards[r].symbols) /\ states'[s] = states[s]
    BY <1>4, <1>7
  <2>2. PICK i \in DOMAIN shards :
           /\ shards[i].task # NoTask
           /\ s \in tasks[shards[i].task].symbols
           /\ states[s].publisher \in {NoTask, shards[i].task}
           /\ states[s].connected => tasks[shards[i].task].phase # "connecting"
    BY <1>7, <2>1 DEF ShownByCurrent
  <2>3. i # r
    BY <2>1, <2>2 DEF SessionInv, SessionsCover
  <2>4. i \in DOMAIN shards' /\ shards'[i].task = shards[i].task
        /\ tasks'[shards[i].task] = tasks[shards[i].task]
    BY <1>3, <1>5, <2>2, <2>3
  <2>5. QED
    BY <2>1, <2>2, <2>4
<1>8. QED
  BY <1>6, <1>7 DEF ShownByCurrent

LEMMA NextShown == DriverInv /\ SessionInv /\ ShownByCurrent /\ [Next]_sdVars => ShownByCurrent'
<1> SUFFICES ASSUME DriverInv, SessionInv, ShownByCurrent, [Next]_sdVars
             PROVE  ShownByCurrent'
  OBVIOUS
<1>1. TypeOK /\ PartitionInv /\ DriverInOrder
  BY DEF DriverInv
<1>2. CASE UNCHANGED <<shards, tasks, states>>
  <2>1. shards' = shards /\ tasks' = tasks /\ states' = states
    BY <1>2
  <2>2. QED
    BY <2>1, ShownKept
<1>3. CASE Place
  <2>1. states' = states /\ tasks' = tasks
    BY <1>3 DEF Place
  <2>2. /\ DOMAIN shards \subseteq DOMAIN shards'
        /\ \A i \in DOMAIN shards : shards'[i].task = shards[i].task
    <3>1. CASE Head(batch) \in known
      BY <3>1, <1>3 DEF Place
    <3>2. CASE Head(batch) \notin known
      BY <3>2, <1>1, <1>3, PlacedSymbols
    <3>3. QED
      BY <3>1, <3>2
  <2>3. QED
    BY <2>1, <2>2, ShownKept
<1>4. CASE Abort
  <2>1. changed # {} /\ states' = states /\ shards' = shards
    BY <1>4 DEF Abort
  <2>2. shards[Restarted].task \in TaskNames
    BY <1>1, <2>1, RestartedIsChanged, ShardsAndTasks
  <2>3. \A u \in DOMAIN tasks :
           tasks'[u].symbols = tasks[u].symbols /\ tasks'[u].phase = tasks[u].phase
    <3>1. CASE shards[Restarted].task = NoTask
      BY <3>1, <1>4 DEF Abort
    <3>2. CASE shards[Restarted].task # NoTask
      <4>1. shards[Restarted].task \in DOMAIN tasks
        BY <2>2, <3>2 DEF TaskNames
      <4>2. tasks' = [tasks EXCEPT ![shards[Restarted].task].aborted = TRUE]
        BY <1>4, <3>2 DEF Abort
      <4>3. QED
        BY <1>1, <4>1, <4>2, TaskAborts
    <3>3. QED
      BY <3>1, <3>2
  <2>4. QED
    BY <2>1, <2>3, ShownKept
<1>5. CASE Drop
  <2>1. states' = states /\ shards' = shards
    BY <1>5 DEF Drop
  <2>2. \A u \in DOMAIN tasks :
           tasks'[u].symbols = tasks[u].symbols /\ tasks'[u].phase = tasks[u].phase
    BY <1>1, <1>5, DropFacts
  <2>3. QED
    BY <2>1, <2>2, ShownKept
<1>6. CASE DriverStep
  BY <1>2, <1>3, <1>4, <1>6, ShownAfterRestart
     DEF DriverStep, ReceiveSubscribe, ReceivePrewarm, Debounced, Assigned
<1>7. CASE \E t \in DOMAIN tasks : TaskStep(t)
  BY <1>7, ShownAfterTaskStep
<1>8. (\E c \in Commands : Call(c)) \/ UNCHANGED sdVars => UNCHANGED <<shards, tasks, states>>
  BY DEF Call, sdVars, driverVars
<1>9. QED
  BY <1>2, <1>5, <1>6, <1>7, <1>8 DEF Next

LEMMA ShownSuffices ==
  DriverInv /\ SessionInv /\ ShownByCurrent => NothingFromOldSessions
<1> SUFFICES ASSUME DriverInv, SessionInv, ShownByCurrent,
                    NEW i \in DOMAIN shards, NEW s \in ToSet(shards[i].symbols)
             PROVE  /\ states[s].publisher \in {NoTask, shards[i].task}
                    /\ states[s].connected =>
                          /\ shards[i].task # NoTask
                          /\ tasks[shards[i].task].phase # "connecting"
  BY DEF NothingFromOldSessions
<1>1. s \in Symbols
  <2>1. shards[i].symbols \in Seq(Symbols)
    BY ShardsAndTasks DEF DriverInv
  <2>2. QED
    BY <2>1, ToSetType
<1>2. CASE states[s] = Fresh
  BY <1>2 DEF Fresh
<1>3. CASE states[s] # Fresh
  <2>1. PICK j \in DOMAIN shards :
           /\ shards[j].task # NoTask
           /\ s \in tasks[shards[j].task].symbols
           /\ states[s].publisher \in {NoTask, shards[j].task}
           /\ states[s].connected => tasks[shards[j].task].phase # "connecting"
    BY <1>1, <1>3 DEF ShownByCurrent
  <2>2. j = i
    BY <2>1, StreamedByItsShard
  <2>3. QED
    BY <2>1, <2>2
<1>4. QED
  BY <1>2, <1>3

(* "the old session must never publish into the replacement generation".    *)
THEOREM OldSessionsNeverPublish == Spec => []NothingFromOldSessions
<1>1. Init => DriverInv /\ SessionInv /\ ShownByCurrent
  BY InitTyped, InitPartition, InitSession, InitShown DEF DriverInv
<1>2. DriverInv /\ SessionInv /\ ShownByCurrent /\ [Next]_sdVars
         => (DriverInv /\ SessionInv /\ ShownByCurrent)'
  BY NextDriverInv, NextSession, NextShown
<1>3. QED
  BY <1>1, <1>2, ShownSuffices, PTL DEF Spec

-----------------------------------------------------------------------------
(* What a prewarm has acknowledged, and what a drop leaves running.         *)

LEMMA InitPrewarmed == Init => PrewarmedIsAssigned /\ NoOrphans
BY DEF Init, PrewarmedIsAssigned, NoOrphans

(* A symbol that is assigned stays assigned.                                *)
LEMMA AssignedStays ==
  ASSUME PrewarmedIsAssigned, acked' = acked, DOMAIN shards \subseteq DOMAIN shards',
         TypeOK, DOMAIN tasks \subseteq DOMAIN tasks',
         \A i \in DOMAIN shards : /\ ToSet(shards[i].symbols) \subseteq ToSet(shards'[i].symbols)
                                  /\ shards'[i].task = shards[i].task,
         \A u \in DOMAIN tasks : tasks'[u].symbols = tasks[u].symbols
  PROVE  PrewarmedIsAssigned'
<1>1. \A i \in DOMAIN shards : shards[i].task # NoTask => shards[i].task \in DOMAIN tasks
  BY ShardsAndTasks DEF TaskNames
<1>2. ASSUME NEW list \in acked, NEW s \in ToSet(list)
      PROVE  \E i \in DOMAIN shards' :
                /\ s \in ToSet(shards'[i].symbols)
                /\ shards'[i].task # NoTask
                /\ s \in tasks'[shards'[i].task].symbols
  <2>1. PICK i \in DOMAIN shards :
           /\ s \in ToSet(shards[i].symbols)
           /\ shards[i].task # NoTask
           /\ s \in tasks[shards[i].task].symbols
    BY <1>2 DEF PrewarmedIsAssigned
  <2>2. /\ i \in DOMAIN shards' /\ shards'[i].task = shards[i].task
        /\ s \in ToSet(shards'[i].symbols)
        /\ tasks'[shards[i].task].symbols = tasks[shards[i].task].symbols
    BY <1>1, <2>1
  <2>3. QED
    BY <2>1, <2>2
<1>3. QED
  BY <1>2 DEF PrewarmedIsAssigned, ToSet

LEMMA PrewarmedAfterRestart ==
  ASSUME DriverInv, PrewarmedIsAssigned, Restart
  PROVE  PrewarmedIsAssigned'
<1> DEFINE r == Restarted
           new == Len(tasks) + 1
<1>1. TypeOK /\ changed # {} /\ acked' = acked
  BY DEF DriverInv, DriverInOrder, Restart
<1>2. /\ \A t \in DOMAIN tasks : tasks'[t] = tasks[t]
      /\ tasks'[new].symbols = ToSet(shards[r].symbols)
      /\ DOMAIN shards' = DOMAIN shards
      /\ \A i \in DOMAIN shards :
            /\ shards'[i].symbols = shards[i].symbols
            /\ shards'[i].task = IF i = r THEN new ELSE shards[i].task
  BY <1>1, RestartFacts
<1>3. new # NoTask
  BY <1>1, ShardsAndTasks DEF NoTask
<1>4. \A i \in DOMAIN shards : shards[i].task # NoTask => shards[i].task \in DOMAIN tasks
  BY <1>1, ShardsAndTasks DEF TaskNames
<1> HIDE DEF r, new
<1>5. ASSUME NEW list \in acked, NEW s \in ToSet(list)
      PROVE  \E i \in DOMAIN shards' :
                /\ s \in ToSet(shards'[i].symbols)
                /\ shards'[i].task # NoTask
                /\ s \in tasks'[shards'[i].task].symbols
  <2>1. PICK i \in DOMAIN shards :
           /\ s \in ToSet(shards[i].symbols)
           /\ shards[i].task # NoTask
           /\ s \in tasks[shards[i].task].symbols
    BY <1>5 DEF PrewarmedIsAssigned
  <2>2. CASE i = r
    BY <2>1, <2>2, <1>2, <1>3
  <2>3. CASE i # r
    BY <2>1, <2>3, <1>2, <1>4
  <2>4. QED
    BY <2>2, <2>3
<1>6. QED
  BY <1>1, <1>5 DEF PrewarmedIsAssigned, ToSet

LEMMA PrewarmedAfterAssigned ==
  ASSUME DriverInv, SessionInv, PrewarmedIsAssigned, Assigned
  PROVE  PrewarmedIsAssigned'
<1>1. /\ batch = <<>> /\ changed = {} /\ shards' = shards /\ tasks' = tasks
      /\ acked' = acked \cup ({ack} \ {NoList})
  BY DEF Assigned, NothingToAssign
<1>2. ToSet(ack) \subseteq known /\ known \subseteq Symbols
  BY <1>1, EmptyToSet DEF DriverInv, DriverInOrder, TypeOK
<1>3. ASSUME NEW s \in ToSet(ack)
      PROVE  \E i \in DOMAIN shards :
                /\ s \in ToSet(shards[i].symbols)
                /\ shards[i].task # NoTask
                /\ s \in tasks[shards[i].task].symbols
  <2>1. PICK i \in DOMAIN shards : s \in ToSet(shards[i].symbols)
    BY <1>2, <1>3 DEF DriverInv, PartitionInv, KnownArePlaced
  <2>2. shards[i].task # NoTask /\ tasks[shards[i].task].symbols = ToSet(shards[i].symbols)
    BY <1>1 DEF SessionInv, SessionsCover
  <2>3. QED
    BY <2>1, <2>2
<1>4. QED
  BY <1>1, <1>3 DEF PrewarmedIsAssigned, ToSet

LEMMA NextPrewarmed ==
  DriverInv /\ SessionInv /\ PrewarmedIsAssigned /\ [Next]_sdVars => PrewarmedIsAssigned'
<1> SUFFICES ASSUME DriverInv, SessionInv, PrewarmedIsAssigned, [Next]_sdVars
             PROVE  PrewarmedIsAssigned'
  OBVIOUS
<1>1. TypeOK /\ PartitionInv /\ DriverInOrder
  BY DEF DriverInv
<1>2. CASE UNCHANGED <<acked, shards, tasks>>
  <2>1. acked' = acked /\ shards' = shards /\ tasks' = tasks
    BY <1>2
  <2>2. QED
    BY <1>1, <2>1, AssignedStays
<1>3. CASE Place
  <2>1. acked' = acked /\ tasks' = tasks
    BY <1>3 DEF Place
  <2>2. /\ DOMAIN shards \subseteq DOMAIN shards'
        /\ \A i \in DOMAIN shards :
              /\ ToSet(shards[i].symbols) \subseteq ToSet(shards'[i].symbols)
              /\ shards'[i].task = shards[i].task
    <3>1. CASE Head(batch) \in known
      BY <3>1, <1>3 DEF Place
    <3>2. CASE Head(batch) \notin known
      <4> DEFINE n == Len(WithRoom)
      <4>1. /\ DOMAIN shards \subseteq DOMAIN shards'
            /\ \A i \in DOMAIN shards : shards'[i].task = shards[i].task
            /\ \A i \in DOMAIN shards' : i # n => shards'[i].symbols = shards[i].symbols
            /\ n \in DOMAIN shards =>
                  ToSet(shards'[n].symbols) = ToSet(shards[n].symbols) \cup {Head(batch)}
        BY <3>2, <1>1, <1>3, PlacedSymbols
      <4> HIDE DEF n
      <4>2. ASSUME NEW i \in DOMAIN shards
            PROVE  ToSet(shards[i].symbols) \subseteq ToSet(shards'[i].symbols)
        <5>1. CASE i = n
          BY <5>1, <4>1
        <5>2. CASE i # n
          BY <5>2, <4>1
        <5>3. QED
          BY <5>1, <5>2
      <4>3. QED
        BY <4>1, <4>2
    <3>3. QED
      BY <3>1, <3>2
  <2>3. QED
    BY <1>1, <2>1, <2>2, AssignedStays
<1>4. CASE Abort
  <2>1. changed # {} /\ acked' = acked /\ shards' = shards
    BY <1>4 DEF Abort
  <2>2. shards[Restarted].task \in TaskNames
    BY <1>1, <2>1, RestartedIsChanged, ShardsAndTasks
  <2>3. /\ DOMAIN tasks' = DOMAIN tasks
        /\ \A u \in DOMAIN tasks : tasks'[u].symbols = tasks[u].symbols
    <3>1. CASE shards[Restarted].task = NoTask
      BY <3>1, <1>4 DEF Abort
    <3>2. CASE shards[Restarted].task # NoTask
      <4>1. shards[Restarted].task \in DOMAIN tasks
        BY <2>2, <3>2 DEF TaskNames
      <4>2. tasks' = [tasks EXCEPT ![shards[Restarted].task].aborted = TRUE]
        BY <1>4, <3>2 DEF Abort
      <4>3. QED
        BY <1>1, <4>1, <4>2, TaskAborts
    <3>3. QED
      BY <3>1, <3>2
  <2>4. QED
    BY <1>1, <2>1, <2>3, AssignedStays
<1>5. CASE Drop
  <2>1. acked' = acked /\ shards' = shards
    BY <1>5 DEF Drop
  <2>2. /\ DOMAIN tasks' = DOMAIN tasks
        /\ \A u \in DOMAIN tasks : tasks'[u].symbols = tasks[u].symbols
    BY <1>1, <1>5, DropFacts
  <2>3. QED
    BY <1>1, <2>1, <2>2, AssignedStays
<1>6. CASE DriverStep
  <2>1. ReceiveSubscribe \/ ReceivePrewarm \/ Debounced => UNCHANGED <<acked, shards, tasks>>
    BY DEF ReceiveSubscribe, ReceivePrewarm, Debounced
  <2>2. QED
    BY <1>2, <1>3, <1>4, <1>6, <2>1, PrewarmedAfterRestart, PrewarmedAfterAssigned
       DEF DriverStep
<1>7. CASE \E t \in DOMAIN tasks : TaskStep(t)
  <2>1. PICK t \in DOMAIN tasks : TaskStep(t)
    BY <1>7
  <2>2. /\ acked' = acked /\ shards' = shards /\ DOMAIN tasks' = DOMAIN tasks
        /\ \A u \in DOMAIN tasks : tasks'[u].symbols = tasks[u].symbols
    BY <1>1, <2>1, TaskStepFacts DEF driverVars
  <2>3. QED
    BY <1>1, <2>2, AssignedStays
<1>8. (\E c \in Commands : Call(c)) \/ UNCHANGED sdVars => UNCHANGED <<acked, shards, tasks>>
  BY DEF Call, sdVars, driverVars
<1>9. QED
  BY <1>2, <1>5, <1>6, <1>7, <1>8 DEF Next

(* When a prewarm returns, each of its symbols has a shard whose session    *)
(* streams it, or is being replaced by one that will.                       *)
THEOREM PrewarmAssigns == Spec => []PrewarmedIsAssigned
<1>1. Init => DriverInv /\ SessionInv /\ PrewarmedIsAssigned
  BY InitTyped, InitPartition, InitSession, InitPrewarmed DEF DriverInv
<1>2. DriverInv /\ SessionInv /\ PrewarmedIsAssigned /\ [Next]_sdVars
         => (DriverInv /\ SessionInv /\ PrewarmedIsAssigned)'
  BY NextDriverInv, NextSession, NextPrewarmed
<1>3. QED
  BY <1>1, <1>2, PTL DEF Spec

LEMMA NextNoOrphans ==
  DriverInv /\ SessionInv /\ NoOrphans /\ [Next]_sdVars => NoOrphans'
<1> SUFFICES ASSUME DriverInv, SessionInv, NoOrphans, [Next]_sdVars
             PROVE  NoOrphans'
  OBVIOUS
<1>1. TypeOK /\ NoTask \notin DOMAIN tasks
  BY ShardsAndTasks DEF DriverInv
<1>2. CASE Drop
  <2>1. /\ DOMAIN tasks' = DOMAIN tasks
        /\ \A u \in DOMAIN tasks : /\ tasks'[u].phase = tasks[u].phase
                                   /\ u \in AbortedByDrop => tasks'[u].aborted
    BY <1>1, <1>2, DropFacts
  <2>2. ASSUME NEW u \in DOMAIN tasks, tasks[u].phase # "cancelled"
        PROVE  u \in AbortedByDrop
    BY <1>1, <2>2 DEF SessionInv, LiveIsCurrent, Live, AbortedByDrop
  <2>3. QED
    BY <2>1, <2>2 DEF NoOrphans, Live
<1>3. CASE \E t \in DOMAIN tasks : TaskStep(t)
  <2>1. PICK t \in DOMAIN tasks : TaskStep(t)
    BY <1>3
  <2>2. /\ driver' = driver /\ DOMAIN tasks' = DOMAIN tasks
        /\ \A u \in DOMAIN tasks : /\ tasks'[u].aborted = tasks[u].aborted
                                   /\ tasks[u].phase = "cancelled" => tasks'[u].phase = "cancelled"
    BY <1>1, <2>1, TaskStepFacts DEF driverVars
  <2>3. QED
    BY <2>2 DEF NoOrphans, Live
<1>4. CASE UNCHANGED <<driver, tasks>>
  BY <1>4 DEF NoOrphans, Live
<1>5. CASE driver' # "dropped"
  BY <1>5 DEF NoOrphans
<1>6. (\E c \in Commands : Call(c)) => driver' # "dropped"
  BY DEF Call
<1>7. DriverStep => driver' # "dropped"
  BY DEF DriverStep, ReceiveSubscribe, ReceivePrewarm, Receive, Debounced, Place, Abort,
         Restart, Assigned
<1>8. UNCHANGED sdVars => UNCHANGED <<driver, tasks>>
  BY DEF sdVars, driverVars
<1>9. QED
  BY <1>2, <1>3, <1>4, <1>5, <1>6, <1>7, <1>8 DEF Next

(* Dropping the manager leaves no session running unaborted.                *)
THEOREM DropLeavesNoSession == Spec => []NoOrphans
<1>1. Init => DriverInv /\ SessionInv /\ NoOrphans
  BY InitTyped, InitPartition, InitSession, InitPrewarmed DEF DriverInv
<1>2. DriverInv /\ SessionInv /\ NoOrphans /\ [Next]_sdVars
         => (DriverInv /\ SessionInv /\ NoOrphans)'
  BY NextDriverInv, NextSession, NextNoOrphans
<1>3. QED
  BY <1>1, <1>2, PTL DEF Spec

-----------------------------------------------------------------------------
(* OrderbookReaders                                                         *)


(* A symbol that is not connected shows no book.                            *)
VisibleWhileConnected == entry = "visible" => connected

(* The readers past the queue are the one at its head.                      *)
Working == {"locked", "delay", "capture", "fetching", "settling"}
HeadWorks == \A r \in Readers : reader[r].phase \in Working => TurnOf(r)

InFlight(r) == reader[r].phase \in {"fetching", "settling"}

(* Why a further fetch is covered by an event that makes it necessary: at   *)
(* each point at which a reader may still come to fetch, or at which what   *)
(* was fetched is of no use, every fetch so far has an event of its own.    *)
Covered ==
    withDelta =>
        /\ fetches <= excuses + 1
        /\ \A r \in Readers : reader[r].phase = "capture" => fetches <= excuses
        /\ \A r \in Readers : InFlight(r) /\ ~SameConnection(r) => fetches <= excuses
        /\ (\A r \in Readers : ~InFlight(r)) /\ ~Servable => fetches <= excuses

IInv == ReadersTypeOK /\ VisibleWhileConnected /\ HeadWorks /\ Covered /\ NoLostWakeup

-----------------------------------------------------------------------------
(* Only one reader is past the queue.                                       *)
LEMMA OneWorks ==
  ASSUME HeadWorks, NEW r \in Readers, NEW q \in Readers,
         reader[r].phase \in Working, reader[q].phase \in Working
  PROVE  r = q
BY DEF HeadWorks, TurnOf

LEMMA InitInv == ReadersInit => IInv
<1> SUFFICES ASSUME ReadersInit PROVE IInv
  OBVIOUS
<1>1. ReadersTypeOK
  <2>1. AtRest \in [phase : ReaderPhases, generation : Nat, connected : BOOLEAN]
    BY DEF AtRest, ReaderPhases
  <2>2. /\ reader \in [Readers -> [phase : ReaderPhases, generation : Nat, connected : BOOLEAN]]
        /\ waiter \in [Waiters -> WaiterPhases]
    BY <2>1 DEF ReadersInit, WaiterPhases
  <2>3. entry \in Entries /\ reads \in 0 .. MaxReads /\ queue \in Seq(Readers)
    BY MaxReadsAssumption DEF ReadersInit, Entries
  <2>4. QED
    BY <2>2, <2>3 DEF ReadersInit, ReadersTypeOK
<1>2. VisibleWhileConnected /\ HeadWorks /\ Covered /\ NoLostWakeup
  BY DEF ReadersInit, VisibleWhileConnected, HeadWorks, Covered, NoLostWakeup, AtRest, Working,
         Servable, InFlight
<1>3. QED
  BY <1>1, <1>2 DEF IInv

-----------------------------------------------------------------------------
(* What the shard's session does.                                           *)
LEMMA SessionKeepsInv ==
  ASSUME IInv, SessionStep
  PROVE  IInv'
<1> USE DEF IInv
<1>1. CASE SymbolConnected
  <2>1. ReadersTypeOK'
    BY <1>1 DEF SymbolConnected, ReadersTypeOK
  <2>2. VisibleWhileConnected' /\ HeadWorks' /\ NoLostWakeup'
    BY <1>1 DEF SymbolConnected, VisibleWhileConnected, HeadWorks, TurnOf, NoLostWakeup, Servable
  <2>3. Covered'
    BY <1>1 DEF SymbolConnected, VisibleWhileConnected, Covered, InFlight, SameConnection, Servable
  <2>4. QED
    BY <2>1, <2>2, <2>3
<1>2. ASSUME NEW visible \in BOOLEAN, Update(visible)
      PROVE  IInv'
  <2>1. ReadersTypeOK'
    BY <1>2 DEF Update, ReadersTypeOK, Excuse, NotifyWaiters, Enabled, Entries
  <2>2. VisibleWhileConnected' /\ HeadWorks'
    BY <1>2 DEF Update, VisibleWhileConnected, HeadWorks, TurnOf
  <2>3. NoLostWakeup'
    BY <1>2 DEF Update, NoLostWakeup, NotifyWaiters, Enabled
  <2>4. Covered'
    <3>1. CASE ~visible
      BY <1>2, <3>1 DEF Update, Excuse, Covered, ReadersTypeOK
    <3>2. CASE visible
      BY <1>2, <3>2 DEF Update, Covered, InFlight, SameConnection, Servable, ReadersTypeOK
    <3>3. QED
      BY <3>1, <3>2
  <2>5. QED
    BY <2>1, <2>2, <2>3, <2>4
<1>3. CASE Age
  <2>1. ReadersTypeOK'
    <3>1. entry' \in Entries /\ excuses' \in Nat
      BY <1>3 DEF Age, ReadersTypeOK, Excuse, Entries
    <3>2. QED
      BY <1>3, <3>1 DEF Age, ReadersTypeOK
  <2>2. VisibleWhileConnected' /\ HeadWorks' /\ NoLostWakeup'
    BY <1>3 DEF Age, VisibleWhileConnected, HeadWorks, TurnOf, NoLostWakeup, Servable
  <2>3. Covered'
    BY <1>3 DEF Age, Excuse, Covered, ReadersTypeOK
  <2>4. QED
    BY <2>1, <2>2, <2>3
<1>4. CASE Reset
  <2>1. ReadersTypeOK'
    <3>1. generation' \in Nat /\ excuses' \in Nat
      BY <1>4 DEF Reset, ReadersTypeOK, Excuse
    <3>2. connected' \in BOOLEAN
      BY <1>4 DEF Reset
    <3>3. entry' \in Entries
      BY <1>4 DEF Reset, Entries
    <3>4. QED
      BY <1>4, <3>1, <3>2, <3>3 DEF Reset, ReadersTypeOK
  <2>2. VisibleWhileConnected' /\ HeadWorks' /\ NoLostWakeup'
    BY <1>4 DEF Reset, VisibleWhileConnected, HeadWorks, TurnOf, NoLostWakeup, Servable
  <2>3. Covered'
    BY <1>4 DEF Reset, Excuse, Covered, ReadersTypeOK
  <2>4. QED
    BY <2>1, <2>2, <2>3
<1>5. QED
  BY <1>1, <1>2, <1>3, <1>4 DEF SessionStep

-----------------------------------------------------------------------------
(* What a get_orderbook does.                                               *)
LEMMA ReaderKeepsInv ==
  ASSUME IInv, NEW r \in Readers, ReaderStep(r)
  PROVE  IInv'
<1> USE DEF IInv
<1>1. CASE Miss(r)
  <2>1. ReadersTypeOK'
    <3>1. reader' \in [Readers -> [phase : ReaderPhases, generation : Nat, connected : BOOLEAN]]
      BY <1>1 DEF Miss, Goes, ReadersTypeOK, ReaderPhases
    <3>2. queue' \in Seq(Readers)
      BY <1>1 DEF Miss, ReadersTypeOK
    <3>3. reads' \in 0 .. MaxReads
      BY <1>1, MaxReadsAssumption DEF Miss, ReadersTypeOK
    <3>4. QED
      BY <1>1, <3>1, <3>2, <3>3 DEF Miss, ReadersTypeOK, stateVars
  <2>2. VisibleWhileConnected' /\ NoLostWakeup'
    BY <1>1 DEF Miss, stateVars, VisibleWhileConnected, NoLostWakeup, Servable
  <2>3. HeadWorks'
    <3> SUFFICES ASSUME NEW q \in Readers, reader'[q].phase \in Working
                 PROVE  TurnOf(q)'
      BY DEF HeadWorks
    <3>1. q # r /\ reader[q].phase \in Working
      BY <1>1 DEF Miss, Goes, ReadersTypeOK, Working
    <3>2. queue \in Seq(Readers) /\ queue # <<>> /\ Head(queue) = q
      BY <3>1 DEF HeadWorks, TurnOf, ReadersTypeOK
    <3>3. queue' = Append(queue, r)
      BY <1>1 DEF Miss
    <3>4. queue' # <<>> /\ Head(queue') = q
      BY <3>2, <3>3
    <3>5. QED
      BY <3>4 DEF TurnOf
  <2>4. Covered'
    BY <1>1 DEF Miss, Goes, stateVars, Covered, InFlight, SameConnection, Servable, ReadersTypeOK
  <2>5. QED
    BY <2>1, <2>2, <2>3, <2>4
<1>2. CASE Lock(r)
  <2>1. ReadersTypeOK'
    BY <1>2 DEF Lock, Goes, ReadersTypeOK, stateVars, ReaderPhases
  <2>2. VisibleWhileConnected' /\ NoLostWakeup'
    BY <1>2 DEF Lock, stateVars, VisibleWhileConnected, NoLostWakeup, Servable
  <2>3. HeadWorks'
    BY <1>2 DEF Lock, Goes, HeadWorks, TurnOf, ReadersTypeOK
  <2>4. Covered'
    BY <1>2 DEF Lock, Goes, stateVars, Covered, InFlight, SameConnection, Servable, ReadersTypeOK
  <2>5. QED
    BY <2>1, <2>2, <2>3, <2>4
<1>3. CASE HitUnderLock(r)
  <2>1. ReadersTypeOK'
    <3>1. queue # <<>> /\ queue \in Seq(Readers)
      BY <1>3 DEF HitUnderLock, HeadWorks, TurnOf, Working, ReadersTypeOK
    <3>2. queue' \in Seq(Readers)
      BY <1>3, <3>1 DEF HitUnderLock, Released
    <3>3. QED
      BY <1>3, <3>2 DEF HitUnderLock, Returns, AtRest, ReadersTypeOK, stateVars, ReaderPhases
  <2>2. VisibleWhileConnected' /\ NoLostWakeup'
    BY <1>3 DEF HitUnderLock, stateVars, VisibleWhileConnected, NoLostWakeup, Servable
  <2>3. HeadWorks'
    <3>1. \A q \in Readers : reader'[q].phase \notin Working
      BY <1>3, OneWorks DEF HitUnderLock, Returns, AtRest, Working, ReadersTypeOK
    <3>2. QED
      BY <3>1 DEF HeadWorks
  <2>4. Covered'
    BY <1>3 DEF HitUnderLock, Returns, AtRest, stateVars, Covered, InFlight, SameConnection,
                Servable, ReadersTypeOK
  <2>5. QED
    BY <2>1, <2>2, <2>3, <2>4
<1>4. CASE MissUnderLock(r)
  <2>1. ReadersTypeOK'
    <3>1. \E to \in {"delay", "capture"} : reader' = [reader EXCEPT ![r].phase = to]
      BY <1>4 DEF MissUnderLock, Goes
    <3>2. reader \in [Readers -> [phase : ReaderPhases, generation : Nat, connected : BOOLEAN]]
          /\ {"delay", "capture"} \subseteq ReaderPhases
      BY DEF ReadersTypeOK, ReaderPhases
    <3>3. reader' \in [Readers -> [phase : ReaderPhases, generation : Nat, connected : BOOLEAN]]
      BY <3>1, <3>2
    <3>4. UNCHANGED <<stateVars, queue, waiter, notified, reads, fetches, excuses>>
      BY <1>4 DEF MissUnderLock
    <3>5. QED
      BY <3>3, <3>4 DEF ReadersTypeOK, stateVars
  <2>2. VisibleWhileConnected' /\ NoLostWakeup'
    BY <1>4 DEF MissUnderLock, stateVars, VisibleWhileConnected, NoLostWakeup, Servable
  <2>3. HeadWorks'
    BY <1>4 DEF MissUnderLock, Goes, HeadWorks, TurnOf, Working, ReadersTypeOK
  <2>4. Covered'
    <3> SUFFICES ASSUME withDelta PROVE Covered'
      BY <1>4 DEF MissUnderLock, stateVars, Covered
    <3>1. reader[r].phase \in {"locked", "delay"}
      BY <1>4 DEF MissUnderLock, Goes
    <3>2. \A q \in Readers : ~InFlight(q)
      BY <3>1, OneWorks DEF InFlight, Working
    <3>3. fetches <= excuses
      BY <1>4, <3>2 DEF Covered, MissUnderLock, FilledMeanwhile
    <3>4. fetches' <= excuses' /\ fetches' <= excuses' + 1
      BY <1>4, <3>3 DEF MissUnderLock, ReadersTypeOK
    <3>5. QED
      BY <3>4 DEF Covered
  <2>5. QED
    BY <2>1, <2>2, <2>3, <2>4
<1>5. CASE StartFetch(r)
  <2>1. ReadersTypeOK'
    BY <1>5 DEF StartFetch, ReadersTypeOK, stateVars, ReaderPhases
  <2>2. VisibleWhileConnected' /\ NoLostWakeup'
    BY <1>5 DEF StartFetch, stateVars, VisibleWhileConnected, NoLostWakeup, Servable
  <2>3. HeadWorks'
    BY <1>5 DEF StartFetch, HeadWorks, TurnOf, Working, ReadersTypeOK
  <2>4. Covered'
    <3> SUFFICES ASSUME withDelta PROVE Covered'
      BY <1>5 DEF StartFetch, stateVars, Covered
    <3>1. fetches <= excuses
      BY <1>5 DEF Covered, StartFetch
    <3>2. \A q \in Readers : q # r => reader[q].phase \notin Working /\ reader'[q] = reader[q]
      BY <1>5, OneWorks DEF StartFetch, Working, ReadersTypeOK
    <3>3. reader'[r] = [phase |-> "fetching", generation |-> generation, connected |-> connected]
      BY <1>5 DEF StartFetch, ReadersTypeOK
    <3>4. InFlight(r)' /\ \A q \in Readers : q # r => ~InFlight(q)'
      BY <3>2, <3>3 DEF InFlight, Working
    <3>5. \A q \in Readers : reader'[q].phase # "capture"
      BY <3>2, <3>3 DEF Working
    <3>6. fetches' <= excuses' + 1
      BY <1>5, <3>1 DEF StartFetch, ReadersTypeOK
    <3>7. ~SameConnection(r)' => fetches' <= excuses'
      BY <1>5, <3>1, <3>3 DEF StartFetch, stateVars, SameConnection, ReadersTypeOK
    <3>8. QED
      BY <3>4, <3>5, <3>6, <3>7 DEF Covered
  <2>5. QED
    BY <2>1, <2>2, <2>3, <2>4
<1>6. CASE FetchFails(r)
  <2>1. ReadersTypeOK'
    <3>1. queue # <<>> /\ queue \in Seq(Readers)
      BY <1>6 DEF FetchFails, HeadWorks, TurnOf, Working, ReadersTypeOK
    <3>2. queue' \in Seq(Readers)
      BY <1>6, <3>1 DEF FetchFails, Released
    <3>3. QED
      BY <1>6, <3>2 DEF FetchFails, Returns, AtRest, Excuse, ReadersTypeOK, stateVars, ReaderPhases
  <2>2. VisibleWhileConnected' /\ NoLostWakeup'
    BY <1>6 DEF FetchFails, stateVars, VisibleWhileConnected, NoLostWakeup, Servable
  <2>3. HeadWorks'
    <3>1. \A q \in Readers : reader'[q].phase \notin Working
      BY <1>6, OneWorks DEF FetchFails, Returns, AtRest, Working, ReadersTypeOK
    <3>2. QED
      BY <3>1 DEF HeadWorks
  <2>4. Covered'
    BY <1>6 DEF FetchFails, Excuse, stateVars, Covered, ReadersTypeOK
  <2>5. QED
    BY <2>1, <2>2, <2>3, <2>4
<1>7. CASE FetchAnswered(r)
  <2>1. ReadersTypeOK'
    BY <1>7 DEF FetchAnswered, Goes, ReadersTypeOK, stateVars, ReaderPhases
  <2>2. VisibleWhileConnected' /\ NoLostWakeup'
    BY <1>7 DEF FetchAnswered, stateVars, VisibleWhileConnected, NoLostWakeup, Servable
  <2>3. HeadWorks'
    BY <1>7 DEF FetchAnswered, Goes, HeadWorks, TurnOf, Working, ReadersTypeOK
  <2>4. Covered'
    BY <1>7 DEF FetchAnswered, Goes, stateVars, Covered, InFlight, SameConnection, Servable, ReadersTypeOK
  <2>5. QED
    BY <2>1, <2>2, <2>3, <2>4
<1>8. CASE Settle(r)
  <2>1. ReadersTypeOK'
    <3>1. queue # <<>> /\ queue \in Seq(Readers)
      BY <1>8 DEF Settle, HeadWorks, TurnOf, Working, ReadersTypeOK
    <3>2. queue' \in Seq(Readers)
      BY <1>8, <3>1 DEF Settle, Released
    <3>3. excuses' \in Nat /\ entry' \in Entries /\ notified' \subseteq Waiters
      BY <1>8 DEF Settle, ReadersTypeOK, Entries, NotifyWaiters, Enabled
    <3>4. QED
      BY <1>8, <3>2, <3>3 DEF Settle, Returns, AtRest, ReadersTypeOK, ReaderPhases
  <2>2. VisibleWhileConnected'
    BY <1>8 DEF Settle, SameConnection, VisibleWhileConnected
  <2>3. NoLostWakeup'
    BY <1>8 DEF Settle, NotifyWaiters, Enabled, NoLostWakeup, Servable
  <2>4. HeadWorks'
    <3>1. \A q \in Readers : reader'[q].phase \notin Working
      BY <1>8, OneWorks DEF Settle, Returns, AtRest, Working, ReadersTypeOK
    <3>2. QED
      BY <3>1 DEF HeadWorks
  <2>5. Covered'
    <3> SUFFICES ASSUME withDelta PROVE Covered'
      BY <1>8 DEF Settle, Covered
    <3>1. reader[r].phase = "settling" /\ InFlight(r) /\ fetches <= excuses + 1
      BY <1>8 DEF Settle, InFlight, Covered
    <3>2. \A q \in Readers : reader'[q].phase \notin Working
      BY <1>8, OneWorks DEF Settle, Returns, AtRest, Working, ReadersTypeOK
    <3>3. fetches' <= excuses' + 1 /\ (~Servable' => fetches' <= excuses')
      BY <1>8, <3>1 DEF Settle, Covered, SameConnection, Servable, ReadersTypeOK
    <3>4. QED
      BY <3>2, <3>3 DEF Covered, InFlight, Working
  <2>6. QED
    BY <2>1, <2>2, <2>3, <2>4, <2>5
<1>9. QED
  BY <1>1, <1>2, <1>3, <1>4, <1>5, <1>6, <1>7, <1>8 DEF ReaderStep, OwnStep

-----------------------------------------------------------------------------
(* What a wait_for_orderbook does.                                          *)
LEMMA WaiterKeepsInv ==
  ASSUME IInv, NEW w \in Waiters, WaiterStep(w)
  PROVE  IInv'
<1> USE DEF IInv
<1>1. /\ UNCHANGED <<stateVars, queue, reader, reads, fetches, excuses>>
      /\ waiter' \in [Waiters -> WaiterPhases] /\ notified' \subseteq Waiters
  BY DEF WaiterStep, Register, Check, Sleep, GiveUp, ReadersTypeOK, WaiterPhases
<1>2. ReadersTypeOK' /\ VisibleWhileConnected' /\ HeadWorks' /\ Covered'
  BY <1>1 DEF stateVars, ReadersTypeOK, VisibleWhileConnected, HeadWorks, TurnOf, Covered, InFlight,
              SameConnection, Servable
<1>3. NoLostWakeup'
  <2>1. CASE Register(w)
    BY <2>1 DEF Register, stateVars, NoLostWakeup, Servable, ReadersTypeOK
  <2>2. CASE Check(w)
    BY <2>2 DEF Check, stateVars, NoLostWakeup, Servable, ReadersTypeOK
  <2>3. CASE Sleep(w)
    BY <2>3 DEF Sleep, stateVars, NoLostWakeup, Servable, ReadersTypeOK
  <2>4. CASE GiveUp(w)
    BY <2>4 DEF GiveUp, stateVars, NoLostWakeup, Servable, ReadersTypeOK
  <2>5. QED
    BY <2>1, <2>2, <2>3, <2>4 DEF WaiterStep
<1>4. QED
  BY <1>2, <1>3

LEMMA StutterKeepsInv ==
  ASSUME IInv, UNCHANGED orVars
  PROVE  IInv'
BY DEF IInv, orVars, stateVars, ReadersTypeOK, VisibleWhileConnected, HeadWorks, TurnOf, Covered,
       InFlight, SameConnection, Servable, NoLostWakeup

(* The invariant holds in every state of the readers and waiters.           *)
THEOREM Invariance == ReadersSpec => []IInv
<1>1. IInv /\ [ReadersNext]_orVars => IInv'
  BY SessionKeepsInv, ReaderKeepsInv, WaiterKeepsInv, StutterKeepsInv DEF ReadersNext
<1>2. QED
  BY InitInv, <1>1, PTL DEF ReadersSpec

-----------------------------------------------------------------------------
(* wait_for_orderbook: a waiter that has looked at the cache and has not    *)
(* been woken since never stands beside a book it could have.               *)
THEOREM WakeupsAreNotLost == ReadersSpec => []NoLostWakeup
<1>1. IInv => NoLostWakeup
  BY DEF IInv
<1>2. QED
  BY Invariance, <1>1, PTL

(* get_orderbook: however many calls miss, a symbol is fetched over REST    *)
(* once, and once more for each event that spoils a fetch or its book.      *)
THEOREM RefillsAreShared == ReadersSpec => []FetchesAreShared
<1>1. IInv => FetchesAreShared
  BY DEF IInv, Covered, FetchesAreShared
<1>2. QED
  BY Invariance, <1>1, PTL
=============================================================================
