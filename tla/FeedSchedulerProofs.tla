------------------------- MODULE FeedSchedulerProofs -------------------------
(***************************************************************************)
(* One sync at a time for a feed, and prerequisites first, for every       *)
(* number of feeds, dependencies, polling loops, jobs and callers.         *)
(***************************************************************************)
EXTENDS FeedScheduler, FiniteSetTheorems, TLAPS

-----------------------------------------------------------------------------
(* Kahn's algorithm *)

Placed(s) == {s[i] : i \in 1..Len(s)}

\* Every feed in the sequence s comes after its prerequisites.
Ordered(s) == \A i \in 1..Len(s) : Deps[s[i]] \subseteq {s[j] : j \in 1..(i - 1)}
Distinct(s) == \A i, j \in 1..Len(s) : s[i] = s[j] => i = j

\* in_degree counts the prerequisites that are not in the order yet, and the queue holds
\* the feeds that lack none.
Kahn(s, degree, queue) ==
  /\ Ordered(s) /\ Distinct(s)
  /\ \A f \in Feeds : degree[f] = Cardinality(Deps[f] \ Placed(s))
  /\ queue = {f \in Feeds \ Placed(s) : degree[f] = 0}

LEMMA DepsFinite ==
  ASSUME SchedulerAssumption, NEW f \in Feeds, NEW S
  PROVE  IsFiniteSet(Deps[f] \ S) /\ Cardinality(Deps[f] \ S) \in Nat
  <1>1. Deps[f] \ S \in SUBSET Feeds /\ IsFiniteSet(Feeds)
    BY DEF SchedulerAssumption
  <1> QED
    BY <1>1, FS_Subset, FS_CardinalityType

LEMMA Appended ==
  ASSUME NEW s \in Seq(Feeds), NEW node \in Feeds
  PROVE  /\ Append(s, node) \in Seq(Feeds) /\ Len(Append(s, node)) = Len(s) + 1 /\ Len(s) \in Nat
         /\ \A i \in 1..Len(s) : Append(s, node)[i] = s[i]
         /\ Append(s, node)[Len(s) + 1] = node
  OBVIOUS

LEMMA PlacedAppended ==
  ASSUME NEW s \in Seq(Feeds), NEW node \in Feeds
  PROVE  /\ Placed(Append(s, node)) = Placed(s) \cup {node}
         /\ Placed(s) \subseteq Feeds
  <1>1. Len(s) \in Nat /\ 1..Len(Append(s, node)) = (1..Len(s)) \cup {Len(s) + 1}
    BY Appended
  <1>2. ASSUME NEW x PROVE x \in Placed(Append(s, node)) <=> x \in Placed(s) \cup {node}
    BY <1>1, Appended DEF Placed
  <1> QED
    BY <1>2 DEF Placed

\* A round of the algorithm.
LEMMA TakeKeepsKahn ==
  ASSUME SchedulerAssumption, NEW s \in Seq(Feeds), NEW degree \in [Feeds -> Nat],
         NEW queue, Kahn(s, degree, queue), NEW node \in queue
  PROVE  /\ Relaxed(degree, node) \in [Feeds -> Nat]
         /\ Kahn(Append(s, node), Relaxed(degree, node),
                 (queue \ {node}) \cup Released(degree, node))
  <1> DEFINE P == Placed(s)
             t == Append(s, node)
             d == Relaxed(degree, node)
  <1>1. node \in Feeds /\ node \notin P /\ degree[node] = 0
    BY DEF Kahn
  <1>2. Placed(t) = P \cup {node} /\ P \subseteq Feeds
    BY <1>1, PlacedAppended
  <1>3. Deps[node] \subseteq P
    <2>1. IsFiniteSet(Deps[node] \ P) /\ Cardinality(Deps[node] \ P) = 0
      BY <1>1, DepsFinite DEF Kahn
    <2> QED
      BY <2>1, FS_EmptySet
  <1>4. \A f \in P : Deps[f] \subseteq P
    BY DEF Kahn, Ordered, Placed
  <1>5. Ordered(t)
    <2>1. ASSUME NEW i \in 1..Len(s) PROVE Deps[t[i]] \subseteq {t[j] : j \in 1..(i - 1)}
      <3>1. t[i] = s[i] /\ \A j \in 1..(i - 1) : t[j] = s[j]
        BY <1>1, Appended
      <3> QED
        BY <3>1 DEF Kahn, Ordered
    <2>2. Deps[t[Len(s) + 1]] \subseteq {t[j] : j \in 1..Len(s)}
      BY <1>1, <1>3, Appended DEF Placed
    <2> QED
      BY <1>1, <2>1, <2>2, Appended DEF Ordered
  <1>6. Distinct(t)
    BY <1>1, Appended DEF Kahn, Distinct, Placed
  <1>7. \A f \in Feeds : /\ d[f] = Cardinality(Deps[f] \ Placed(t))
                         /\ d[f] = IF node \in Deps[f] THEN degree[f] - 1 ELSE degree[f]
    <2>1. ASSUME NEW f \in Feeds PROVE d[f] = Cardinality(Deps[f] \ Placed(t))
      <3>1. Deps[f] \ Placed(t) = (Deps[f] \ P) \ {node}
        BY <1>2
      <3>2. Cardinality((Deps[f] \ P) \ {node}) =
              IF node \in Deps[f] \ P THEN Cardinality(Deps[f] \ P) - 1 ELSE Cardinality(Deps[f] \ P)
        BY DepsFinite, FS_RemoveElement
      <3> QED
        BY <1>1, <3>1, <3>2 DEF Relaxed, Kahn
    <2> QED
      BY <2>1 DEF Relaxed
  <1>8. d \in [Feeds -> Nat]
    <2> HIDE DEF d
    <2>1. \A f \in Feeds : Cardinality(Deps[f] \ Placed(t)) \in Nat
      BY DepsFinite
    <2>2. \A f \in Feeds : d[f] \in Nat
      BY <1>7, <2>1
    <2>3. d = [f \in Feeds |-> d[f]]
      BY DEF d, Relaxed
    <2> QED
      BY <2>2, <2>3
  <1>9. (queue \ {node}) \cup Released(degree, node) = {f \in Feeds \ Placed(t) : d[f] = 0}
    <2>1. ASSUME NEW f \in Feeds, node \in Deps[f]
          PROVE  f \notin P /\ f # node /\ degree[f] # 0
      <3>1. f \notin P /\ f # node
        BY <2>1, <1>1, <1>3, <1>4
      <3>2. node \in Deps[f] \ P
        BY <2>1, <1>1
      <3>3. Cardinality(Deps[f] \ P) # 0
        BY <3>2, DepsFinite, FS_EmptySet
      <3> QED
        BY <3>1, <3>3 DEF Kahn
    <2>2. \A f \in Feeds : f \in queue <=> f \notin P /\ degree[f] = 0
      BY DEF Kahn
    <2>3. \A f \in Feeds : f \in Released(degree, node) <=> node \in Deps[f] /\ degree[f] = 1
      BY DEF Released
    <2>4. ASSUME NEW f \in Feeds
          PROVE  f \in (queue \ {node}) \cup Released(degree, node) <=> f \notin Placed(t) /\ d[f] = 0
      <3> HIDE DEF d
      <3>1. f \notin Placed(t) <=> f \notin P /\ f # node
        BY <1>2
      <3>2. CASE node \in Deps[f]
        <4>1. f \notin P /\ f # node /\ degree[f] # 0 /\ d[f] = degree[f] - 1 /\ degree[f] \in Nat
          BY <3>2, <2>1, <1>7
        <4> QED
          BY <4>1, <3>1, <3>2, <2>2, <2>3
      <3>3. CASE node \notin Deps[f]
        BY <3>1, <3>3, <2>2, <2>3, <1>7
      <3> QED
        BY <3>2, <3>3
    <2>5. queue \subseteq Feeds /\ Released(degree, node) \subseteq Feeds
      BY DEF Kahn, Released
    <2> QED
      BY <2>4, <2>5
  <1> QED
    BY <1>5, <1>6, <1>7, <1>8, <1>9 DEF Kahn

\* When the queue is empty and there is no cycle, every feed is in the order.
LEMMA KahnCompletes ==
  ASSUME SchedulerAssumption, NEW s \in Seq(Feeds), NEW degree, Kahn(s, degree, {}), ~ Cyclic
  PROVE  Len(s) = Cardinality(Feeds)
  <1> DEFINE S == Feeds \ Placed(s)
  <1>1. \A f \in S : Deps[f] \cap S # {}
    <2>1. ASSUME NEW f \in S PROVE Deps[f] \cap S # {}
      <3>1. Cardinality(Deps[f] \ Placed(s)) # 0
        BY DEF Kahn
      <3>2. Deps[f] \ Placed(s) # {}
        BY <3>1, FS_EmptySet
      <3> QED
        BY <3>2 DEF SchedulerAssumption
    <2> QED
      BY <2>1
  <1>2. S = {}
    BY <1>1 DEF Cyclic
  <1>3. Placed(s) = Feeds
    BY <1>2 DEF Placed
  <1>4. s \in Bijection(1..Len(s), Feeds)
    <2>1. s \in [1..Len(s) -> Feeds]
      OBVIOUS
    <2>2. \A f \in Feeds : \E i \in 1..Len(s) : s[i] = f
      BY <1>3 DEF Placed
    <2>3. \A i, j \in 1..Len(s) : s[i] = s[j] => i = j
      BY DEF Kahn, Distinct
    <2> QED
      BY <2>1, <2>2, <2>3 DEF Bijection, Injection, Surjection, IsInjective
  <1>5. ExistsBijection(1..Len(s), Feeds)
    BY <1>4 DEF ExistsBijection
  <1>6. IsFiniteSet(1..Len(s)) /\ Cardinality(1..Len(s)) = Len(s)
    <2>1. Len(s) \in Nat
      OBVIOUS
    <2> QED
      BY <2>1, FS_Interval
  <1> QED
    BY <1>5, <1>6, FS_Bijection

-----------------------------------------------------------------------------
(* The inductive invariant *)

\* A call of trigger_sync has the lock of its feed, and holds it while it synchronises.
ThreadSound(t) ==
  /\ frame[t].pc # "idle" => frame[t].feed \in Feeds
  /\ frame[t].pc \in {"trying", "syncing"} =>
       frame[t].lock \in Locks /\ frame[t].lock = feedLocks[frame[t].feed]
  /\ frame[t].pc = "syncing" => holder[frame[t].lock] = t

\* A call of sync_all sorts, or has been through the order as far as next.
CallSound(c) ==
  LET a == all[c]
  IN  /\ a.pc = "idle" => a = NoCall
      /\ a.pc = "sorting" => ~ Cyclic /\ Kahn(a.order, a.indegree, a.queue)
      /\ a.pc \in {"choosing", "waiting"} =>
           /\ Ordered(a.order)
           /\ a.next \in 1..(Len(a.order) + 1)
           /\ \A i \in 1..(a.next - 1) : a.order[i] \in Enabled => a.order[i] \in a.results
      /\ a.pc = "waiting" => a.next <= Len(a.order) /\ frame[c].feed = a.order[a.next]
      /\ frame[c].pc # "idle" => a.pc = "waiting"

Inv ==
  /\ TypeOK
  /\ \A l \in Loops : loop[l].pc = "spawning" => loop[l].feed \in Feeds
  /\ \A t \in Threads : ThreadSound(t)
  /\ \A c \in Callers : CallSound(c)

-----------------------------------------------------------------------------
(* What the steps do *)

LEMMA Constants ==
  ASSUME SchedulerAssumption
  PROVE  /\ None \notin Feeds /\ None \notin Locks /\ None \notin Threads
         /\ Callers \subseteq Threads /\ Jobs \subseteq Threads /\ Callers \cap Jobs = {}
         /\ Enabled \subseteq Feeds /\ Deps \in [Feeds -> SUBSET Feeds]
  BY DEF SchedulerAssumption, Threads

LEMMA Nothing ==
  /\ Idle \in Trigger /\ Idle.pc = "idle"
  /\ NoCall \in SyncAll /\ NoCall.pc = "idle"
  /\ Dead \in Polling /\ Dead.pc = "dead"
  BY DEF Idle, Trigger, NoCall, SyncAll, Dead, Polling

LEMMA Framed ==
  ASSUME TypeOK, NEW t \in Threads, NEW r \in Trigger, frame' = [frame EXCEPT ![t] = r]
  PROVE  frame' \in [Threads -> Trigger] /\ frame'[t] = r /\ \A u \in Threads \ {t} : frame'[u] = frame[u]
  BY DEF TypeOK

LEMMA Went ==
  ASSUME TypeOK, NEW t \in Threads, NEW stage \in {"locating", "syncing"}, Goto(t, stage)
  PROVE  /\ frame' \in [Threads -> Trigger] /\ \A u \in Threads \ {t} : frame'[u] = frame[u]
         /\ frame'[t].pc = stage /\ frame'[t].feed = frame[t].feed /\ frame'[t].lock = frame[t].lock
  <1> DEFINE r == [frame[t] EXCEPT !.pc = stage]
  <1>1. r \in Trigger /\ r.pc = stage /\ r.feed = frame[t].feed /\ r.lock = frame[t].lock
    BY DEF TypeOK, Trigger
  <1>2. frame' = [frame EXCEPT ![t] = r]
    BY DEF Goto
  <1> HIDE DEF r
  <1> QED
    BY <1>1, <1>2, Framed

\* There is a lock left for a feed that has none.
LEMMA LockFound ==
  ASSUME TypeOK, SchedulerAssumption, NEW f \in Feeds
  PROVE  LockOf(f) \in Locks /\ (feedLocks[f] # None => LockOf(f) = feedLocks[f])
  <1>1. CASE feedLocks[f] # None
    BY <1>1 DEF LockOf, TypeOK
  <1>2. CASE feedLocks[f] = None
    <2> DEFINE taken == {feedLocks[g] : g \in Feeds \ {f}}
               map == [g \in Feeds \ {f} |-> feedLocks[g]]
    <2>1. map \in Surjection(Feeds \ {f}, taken)
      BY DEF Surjection
    <2>2. IsFiniteSet(Feeds) /\ IsFiniteSet(Feeds \ {f})
          /\ Cardinality(Feeds \ {f}) = Cardinality(Feeds) - 1
      BY FS_RemoveElement DEF SchedulerAssumption
    <2> HIDE DEF map
    <2>3. IsFiniteSet(taken) /\ Cardinality(taken) <= Cardinality(Feeds \ {f})
      BY <2>1, <2>2, FS_Surjection
    <2>4. ~ (Locks \subseteq taken)
      <3>1. SUFFICES ASSUME Locks \subseteq taken PROVE FALSE
        OBVIOUS
      <3>2. Locks \in SUBSET taken
        BY <3>1
      <3>3. Cardinality(Locks) <= Cardinality(taken)
        BY <3>2, <2>3, FS_Subset
      <3>4. Cardinality(Feeds) \in Nat /\ Cardinality(Locks) \in Nat /\ Cardinality(taken) \in Nat
            /\ Cardinality(Feeds) <= Cardinality(Locks)
        BY <2>3, FS_CardinalityType DEF SchedulerAssumption
      <3> HIDE DEF taken
      <3> QED
        BY <2>2, <2>3, <3>3, <3>4
    <2>5. PICK k \in Locks : k \notin taken
      BY <2>4
    <2>6. \A g \in Feeds : feedLocks[g] # k
      BY <2>5, <1>2, Constants
    <2>7. NewLock \in Locks
      BY <2>5, <2>6 DEF NewLock
    <2> QED
      BY <1>2, <2>7 DEF LockOf
  <1> QED
    BY <1>1, <1>2

LEMMA LockGot ==
  ASSUME TypeOK, SchedulerAssumption, NEW f \in Feeds, GetLock(f)
  PROVE  /\ LockOf(f) \in Locks /\ feedLocks' \in [Feeds -> Locks \cup {None}]
         /\ feedLocks'[f] = LockOf(f)
         /\ \A g \in Feeds : feedLocks[g] # None => feedLocks'[g] = feedLocks[g]
  <1>1. LockOf(f) \in Locks /\ (feedLocks[f] # None => LockOf(f) = feedLocks[f])
    BY LockFound
  <1> QED
    BY <1>1 DEF GetLock, TypeOK

\* The end of a call of trigger_sync.
LEMMA CallDone ==
  ASSUME TypeOK, NEW t \in Threads, frame[t].feed \in Feeds, NEW ok \in BOOLEAN, Done(t, ok)
  PROVE  /\ frame' \in [Threads -> Trigger] /\ frame'[t] = Idle
         /\ \A u \in Threads \ {t} : frame'[u] = frame[u]
         /\ all' \in [Callers -> SyncAll] /\ \A c \in Callers \ {t} : all'[c] = all[c]
         /\ t \in Callers =>
              all'[t] \in {NoCall, [all[t] EXCEPT !.pc = "choosing", !.next = @ + 1,
                                                 !.results = @ \cup {frame[t].feed}]}
  <1>1. frame' \in [Threads -> Trigger] /\ frame'[t] = Idle /\ \A u \in Threads \ {t} : frame'[u] = frame[u]
    BY Nothing, Framed DEF Done
  <1> DEFINE a == [all[t] EXCEPT !.pc = "choosing", !.next = @ + 1,
                                 !.results = @ \cup {frame[t].feed}]
  <1>2. t \in Callers => a \in SyncAll
    <2>1. SUFFICES ASSUME t \in Callers PROVE a \in SyncAll
      OBVIOUS
    <2>2. all[t] \in SyncAll
      BY <2>1 DEF TypeOK
    <2>3. all[t].next + 1 \in Nat /\ all[t].results \cup {frame[t].feed} \in SUBSET Feeds
      BY <2>2 DEF SyncAll
    <2> QED
      BY <2>2, <2>3 DEF SyncAll
  <1>3. all' = IF t \notin Callers THEN all
               ELSE IF ok THEN [all EXCEPT ![t] = a] ELSE [all EXCEPT ![t] = NoCall]
    BY DEF Done
  <1> HIDE DEF a
  <1>4. /\ all' \in [Callers -> SyncAll] /\ \A c \in Callers \ {t} : all'[c] = all[c]
        /\ t \in Callers => all'[t] \in {NoCall, a}
    BY <1>2, <1>3, Nothing DEF TypeOK
  <1> QED
    BY <1>1, <1>4 DEF a

LEMMA ThreadUndisturbed ==
  ASSUME TypeOK, SchedulerAssumption, NEW u \in Threads, ThreadSound(u), frame'[u] = frame[u],
         \A g \in Feeds : feedLocks[g] # None => feedLocks'[g] = feedLocks[g],
         frame[u].pc = "syncing" => holder'[frame[u].lock] = holder[frame[u].lock]
  PROVE  ThreadSound(u)'
  BY Constants DEF ThreadSound

LEMMA CallUndisturbed ==
  ASSUME NEW c \in Callers, CallSound(c), all'[c] = all[c],
         frame'[c].feed = frame[c].feed, frame'[c].pc # "idle" => frame[c].pc # "idle"
  PROVE  CallSound(c)'
  BY DEF CallSound, Cyclic

-----------------------------------------------------------------------------
(* Every step keeps the invariant *)

\* A call of trigger_sync goes on.
LEMMA CallGoesOn ==
  ASSUME Inv, SchedulerAssumption, NEW t \in Threads, frame[t].pc # "idle",
         frame' \in [Threads -> Trigger], frame'[t].feed = frame[t].feed,
         \A u \in Threads \ {t} : frame'[u] = frame[u],
         ThreadSound(t)',
         feedLocks' \in [Feeds -> Locks \cup {None}],
         \A g \in Feeds : feedLocks[g] # None => feedLocks'[g] = feedLocks[g],
         holder' \in [Locks -> Threads \cup {None}],
         \A u \in Threads \ {t} :
            frame[u].pc = "syncing" => holder'[frame[u].lock] = holder[frame[u].lock],
         UNCHANGED <<running, loop, all, unhealthy>>
  PROVE  Inv'
  <1>1. TypeOK'
    BY DEF Inv, TypeOK
  <1>2. ASSUME NEW u \in Threads PROVE ThreadSound(u)'
    BY <1>2, ThreadUndisturbed DEF Inv
  <1>3. ASSUME NEW c \in Callers PROVE CallSound(c)'
    BY <1>3, CallUndisturbed, Constants DEF Inv
  <1> QED
    BY <1>1, <1>2, <1>3 DEF Inv

\* A call of trigger_sync ends.
LEMMA CallEnds ==
  ASSUME Inv, SchedulerAssumption, NEW t \in Threads, frame[t].pc # "idle",
         NEW ok \in BOOLEAN, Done(t, ok),
         holder' \in [Locks -> Threads \cup {None}],
         \A u \in Threads \ {t} :
            frame[u].pc = "syncing" => holder'[frame[u].lock] = holder[frame[u].lock],
         unhealthy' \subseteq Feeds,
         UNCHANGED <<running, loop, feedLocks>>
  PROVE  Inv'
  <1>1. frame[t].feed \in Feeds
    BY DEF Inv, ThreadSound
  <1>2. /\ frame' \in [Threads -> Trigger] /\ frame'[t] = Idle
        /\ \A u \in Threads \ {t} : frame'[u] = frame[u]
        /\ all' \in [Callers -> SyncAll] /\ \A c \in Callers \ {t} : all'[c] = all[c]
        /\ t \in Callers =>
             all'[t] \in {NoCall, [all[t] EXCEPT !.pc = "choosing", !.next = @ + 1,
                                                !.results = @ \cup {frame[t].feed}]}
    BY <1>1, CallDone DEF Inv
  <1>3. TypeOK'
    BY <1>2 DEF Inv, TypeOK
  <1>4. ASSUME NEW u \in Threads PROVE ThreadSound(u)'
    <2>1. CASE u = t
      BY <2>1, <1>2, Nothing DEF ThreadSound
    <2>2. CASE u # t
      BY <2>2, <1>2, ThreadUndisturbed DEF Inv
    <2> QED
      BY <2>1, <2>2
  <1>5. ASSUME NEW c \in Callers PROVE CallSound(c)'
    <2>1. CASE c # t
      BY <2>1, <1>2, CallUndisturbed, Constants DEF Inv
    <2>2. CASE c = t
      <3>1. CASE all'[t] = NoCall
        BY <3>1, <2>2, <1>2, Nothing DEF CallSound
      <3>2. CASE all'[t] = [all[t] EXCEPT !.pc = "choosing", !.next = @ + 1,
                                          !.results = @ \cup {frame[t].feed}]
        <4> DEFINE a == all[t]
                   b == all'[t]
        <4>1. /\ a.pc = "waiting" /\ Ordered(a.order) /\ a.next \in 1..(Len(a.order) + 1)
              /\ a.next <= Len(a.order) /\ frame[t].feed = a.order[a.next]
              /\ \A i \in 1..(a.next - 1) : a.order[i] \in Enabled => a.order[i] \in a.results
          BY <2>2 DEF Inv, CallSound
        <4>2. a \in SyncAll
          BY <2>2 DEF Inv, TypeOK
        <4>3. b.pc = "choosing" /\ b.order = a.order /\ b.next = a.next + 1
              /\ b.results = a.results \cup {frame[t].feed}
          BY <3>2, <4>2 DEF SyncAll
        <4>4. Len(a.order) \in Nat /\ a.next \in Nat
          BY <4>2 DEF SyncAll
        <4>5. \A i \in 1..(b.next - 1) : b.order[i] \in Enabled => b.order[i] \in b.results
          BY <4>1, <4>3, <4>4
        <4>6. b.next \in 1..(Len(b.order) + 1)
          BY <4>1, <4>3, <4>4
        <4>7. frame'[t].pc = "idle"
          BY <1>2, Nothing
        <4> HIDE DEF a, b
        <4>8. /\ b.pc = "choosing" /\ Ordered(b.order)
          BY <4>1, <4>3
        <4> QED
          BY <4>5, <4>6, <4>7, <4>8, <2>2 DEF CallSound, b
      <3> QED
        BY <2>2, <1>2, <3>1, <3>2
    <2> QED
      BY <2>1, <2>2
  <1> QED
    BY <1>3, <1>4, <1>5 DEF Inv

LEMMA CheckKeepsInv ==
  ASSUME Inv, SchedulerAssumption, NEW t \in Threads, Check(t)
  PROVE  Inv'
  <1>1. frame[t].pc = "checking" /\ UNCHANGED <<running, loop, feedLocks, holder, unhealthy>>
    BY DEF Check
  <1>2. CASE Goto(t, "locating") /\ UNCHANGED all
    <2>1. /\ frame' \in [Threads -> Trigger] /\ \A u \in Threads \ {t} : frame'[u] = frame[u]
          /\ frame'[t].pc = "locating" /\ frame'[t].feed = frame[t].feed
      BY <1>2, Went DEF Inv
    <2>2. ThreadSound(t)'
      BY <1>1, <2>1 DEF Inv, ThreadSound
    <2> QED
      BY <1>1, <1>2, <2>1, <2>2, CallGoesOn DEF Inv, TypeOK
  <1>3. CASE Done(t, FALSE)
    BY <1>1, <1>3, CallEnds DEF Inv, TypeOK
  <1> QED
    BY <1>2, <1>3 DEF Check

LEMMA LocateKeepsInv ==
  ASSUME Inv, SchedulerAssumption, NEW t \in Threads, Locate(t)
  PROVE  Inv'
  <1> DEFINE f == frame[t].feed
             r == [frame[t] EXCEPT !.pc = "trying", !.lock = LockOf(f)]
  <1>1. frame[t].pc = "locating" /\ f \in Feeds /\ UNCHANGED <<running, loop, holder, all, unhealthy>>
    BY DEF Locate, Inv, ThreadSound
  <1>2. /\ LockOf(f) \in Locks /\ feedLocks' \in [Feeds -> Locks \cup {None}]
        /\ feedLocks'[f] = LockOf(f)
        /\ \A g \in Feeds : feedLocks[g] # None => feedLocks'[g] = feedLocks[g]
    BY <1>1, LockGot DEF Locate, Inv
  <1>3. r \in Trigger /\ r.pc = "trying" /\ r.feed = f /\ r.lock = LockOf(f)
    <2>1. frame[t] \in Trigger
      BY DEF Inv, TypeOK
    <2>2. ASSUME NEW k \in Locks
          PROVE  LET q == [frame[t] EXCEPT !.pc = "trying", !.lock = k]
                 IN  q \in Trigger /\ q.pc = "trying" /\ q.feed = f /\ q.lock = k
      BY <2>1 DEF Trigger
    <2> QED
      BY <1>2, <2>2
  <1>4. frame' = [frame EXCEPT ![t] = r]
    BY DEF Locate
  <1> HIDE DEF r
  <1>5. frame' \in [Threads -> Trigger] /\ frame'[t] = r /\ \A u \in Threads \ {t} : frame'[u] = frame[u]
    BY <1>3, <1>4, Framed DEF Inv
  <1>6. ThreadSound(t)'
    BY <1>1, <1>2, <1>3, <1>5 DEF ThreadSound
  <1> QED
    BY <1>1, <1>2, <1>3, <1>5, <1>6, CallGoesOn DEF Inv, TypeOK

LEMMA TryKeepsInv ==
  ASSUME Inv, SchedulerAssumption, NEW t \in Threads, Try(t)
  PROVE  Inv'
  <1> DEFINE k == frame[t].lock
  <1>1. /\ frame[t].pc = "trying" /\ UNCHANGED <<running, loop, feedLocks, unhealthy>>
        /\ k \in Locks /\ k = feedLocks[frame[t].feed] /\ frame[t].feed \in Feeds
    BY DEF Try, Inv, ThreadSound
  <1>2. CASE holder[k] = None /\ Goto(t, "syncing") /\ holder' = [holder EXCEPT ![k] = t] /\ UNCHANGED all
    <2>1. /\ frame' \in [Threads -> Trigger] /\ \A u \in Threads \ {t} : frame'[u] = frame[u]
          /\ frame'[t].pc = "syncing" /\ frame'[t].feed = frame[t].feed /\ frame'[t].lock = k
      BY <1>2, Went DEF Inv
    <2>2. holder' \in [Locks -> Threads \cup {None}] /\ holder'[k] = t
          /\ \A j \in Locks \ {k} : holder'[j] = holder[j]
      BY <1>1, <1>2 DEF Inv, TypeOK
    <2>3. ThreadSound(t)'
      BY <1>1, <2>1, <2>2 DEF ThreadSound
    <2>4. \A u \in Threads \ {t} :
             frame[u].pc = "syncing" => holder'[frame[u].lock] = holder[frame[u].lock]
      BY <1>2, <2>2, Constants DEF Inv, ThreadSound
    <2> QED
      BY <1>1, <1>2, <2>1, <2>2, <2>3, <2>4, CallGoesOn DEF Inv, TypeOK
  <1>3. CASE Done(t, FALSE) /\ UNCHANGED holder
    BY <1>1, <1>3, CallEnds DEF Inv, TypeOK
  <1> QED
    BY <1>2, <1>3 DEF Try

LEMMA FinishKeepsInv ==
  ASSUME Inv, SchedulerAssumption, NEW t \in Threads, NEW ok \in BOOLEAN, Finish(t, ok)
  PROVE  Inv'
  <1> DEFINE k == frame[t].lock
  <1>1. /\ frame[t].pc = "syncing" /\ UNCHANGED <<running, loop, feedLocks>> /\ Done(t, ok)
        /\ holder' = [holder EXCEPT ![k] = None]
        /\ k \in Locks /\ holder[k] = t /\ frame[t].feed \in Feeds
    BY DEF Finish, Inv, ThreadSound
  <1>2. unhealthy' \subseteq Feeds
    BY <1>1 DEF Finish, Inv, TypeOK
  <1>3. holder' \in [Locks -> Threads \cup {None}] /\ \A j \in Locks \ {k} : holder'[j] = holder[j]
    BY <1>1 DEF Inv, TypeOK
  <1>4. \A u \in Threads \ {t} :
           frame[u].pc = "syncing" => holder'[frame[u].lock] = holder[frame[u].lock]
    BY <1>1, <1>3 DEF Inv, ThreadSound
  <1> QED
    BY <1>1, <1>2, <1>3, <1>4, CallEnds

\* start, stop and the polling loops do not touch the calls; Spawn starts one.
LEMMA PollingKeepsInv ==
  ASSUME Inv, SchedulerAssumption, running' \in BOOLEAN, loop' \in [Loops -> Polling],
         \A l \in Loops : loop'[l].pc = "spawning" => loop'[l].feed \in Feeds,
         UNCHANGED <<feedLocks, holder, frame, all, unhealthy>>
  PROVE  Inv'
  <1>1. TypeOK'
    BY DEF Inv, TypeOK
  <1>2. ASSUME NEW u \in Threads PROVE ThreadSound(u)'
    BY <1>2, ThreadUndisturbed DEF Inv
  <1>3. ASSUME NEW c \in Callers PROVE CallSound(c)'
    BY <1>3, CallUndisturbed DEF Inv
  <1> QED
    BY <1>1, <1>2, <1>3 DEF Inv

LEMMA LoopChanged ==
  ASSUME Inv, NEW l \in Loops, NEW r \in Polling, r.pc = "spawning" => r.feed \in Feeds,
         loop' = [loop EXCEPT ![l] = r]
  PROVE  /\ loop' \in [Loops -> Polling]
         /\ \A m \in Loops : loop'[m].pc = "spawning" => loop'[m].feed \in Feeds
  <1>1. loop' \in [Loops -> Polling] /\ loop'[l] = r /\ \A m \in Loops \ {l} : loop'[m] = loop[m]
    BY DEF Inv, TypeOK
  <1> QED
    BY <1>1 DEF Inv

LEMMA StartStopKeepsInv ==
  ASSUME Inv, SchedulerAssumption, Start \/ Stop
  PROVE  Inv'
  <1>1. CASE Start
    <2>1. PICK l \in Loops : loop' = [loop EXCEPT ![l].pc = "testing"]
      BY <1>1 DEF Start
    <2> DEFINE r == [loop[l] EXCEPT !.pc = "testing"]
    <2>2. r \in Polling /\ r.pc = "testing"
      BY DEF Inv, TypeOK, Polling
    <2>3. loop' = [loop EXCEPT ![l] = r]
      BY <2>1
    <2> HIDE DEF r
    <2> QED
      BY <1>1, <2>2, <2>3, LoopChanged, PollingKeepsInv DEF Start
  <1>2. CASE Stop
    BY <1>2, PollingKeepsInv DEF Stop, Inv, TypeOK
  <1> QED
    BY <1>1, <1>2

LEMMA TestKeepsInv ==
  ASSUME Inv, SchedulerAssumption, NEW l \in Loops, Test(l)
  PROVE  Inv'
  <1> DEFINE r == IF running THEN [Dead EXCEPT !.pc = "polling", !.todo = Enabled] ELSE Dead
  <1>1. r \in Polling /\ r.pc # "spawning"
    BY Constants DEF Dead, Polling
  <1>2. loop' = [loop EXCEPT ![l] = r]
    BY DEF Test
  <1> HIDE DEF r
  <1> QED
    BY <1>1, <1>2, LoopChanged, PollingKeepsInv DEF Test, Inv, TypeOK

LEMMA PollKeepsInv ==
  ASSUME Inv, SchedulerAssumption, NEW l \in Loops, Poll(l)
  PROVE  Inv'
  <1>1. ASSUME NEW f \in loop[l].todo,
               loop' = [loop EXCEPT ![l] = [pc |-> "spawning", todo |-> @.todo \ {f}, feed |-> f]]
        PROVE  Inv'
    <2> DEFINE r == [pc |-> "spawning", todo |-> loop[l].todo \ {f}, feed |-> f]
    <2>1. loop[l].todo \in SUBSET Feeds
      BY DEF Inv, TypeOK, Polling
    <2>2. r \in Polling /\ r.feed \in Feeds
      BY <2>1 DEF Polling
    <2>3. loop' = [loop EXCEPT ![l] = r]
      BY <1>1
    <2> HIDE DEF r
    <2> QED
      BY <2>2, <2>3, LoopChanged, PollingKeepsInv DEF Poll, Inv, TypeOK
  <1>2. CASE loop' = [loop EXCEPT ![l] = [Dead EXCEPT !.pc = "testing"]]
    <2> DEFINE r == [Dead EXCEPT !.pc = "testing"]
    <2>1. r \in Polling /\ r.pc # "spawning"
      BY DEF Dead, Polling
    <2>2. loop' = [loop EXCEPT ![l] = r]
      BY <1>2
    <2> HIDE DEF r
    <2> QED
      BY <2>1, <2>2, LoopChanged, PollingKeepsInv DEF Poll, Inv, TypeOK
  <1> QED
    BY <1>1, <1>2 DEF Poll

LEMMA SpawnKeepsInv ==
  ASSUME Inv, SchedulerAssumption, NEW l \in Loops, Spawn(l)
  PROVE  Inv'
  <1> DEFINE f == loop[l].feed
             r == [loop[l] EXCEPT !.pc = "polling", !.feed = None]
  <1>1. f \in Feeds /\ UNCHANGED <<running, holder, all, unhealthy>>
    BY DEF Spawn, Inv
  <1>2. r \in Polling /\ r.pc = "polling"
    BY DEF Inv, TypeOK, Polling
  <1>3. loop' = [loop EXCEPT ![l] = r]
    BY DEF Spawn
  <1> HIDE DEF r
  <1>4. /\ loop' \in [Loops -> Polling]
        /\ \A m \in Loops : loop'[m].pc = "spawning" => loop'[m].feed \in Feeds
    BY <1>2, <1>3, LoopChanged
  <1>5. /\ feedLocks' \in [Feeds -> Locks \cup {None}]
        /\ \A g \in Feeds : feedLocks[g] # None => feedLocks'[g] = feedLocks[g]
    BY <1>1, LockGot DEF Spawn, Inv
  <1>6. /\ frame' \in [Threads -> Trigger]
        /\ \A u \in Threads : frame'[u] = frame[u] \/ (frame'[u].pc = "checking" /\ frame'[u].feed = f)
        /\ \A c \in Callers : frame'[c] = frame[c]
    <2>1. CASE UNCHANGED frame
      BY <2>1 DEF Inv, TypeOK
    <2>2. CASE \E j \in Jobs : frame[j].pc = "idle" /\ Call(j, f)
      <3>1. PICK j \in Jobs : Call(j, f)
        BY <2>2
      <3> DEFINE q == [pc |-> "checking", feed |-> f, lock |-> None]
      <3>2. q \in Trigger /\ q.pc = "checking" /\ q.feed = f
        BY <1>1 DEF Trigger
      <3>3. frame' = [frame EXCEPT ![j] = q] /\ j \in Threads /\ j \notin Callers
        BY <3>1, Constants DEF Call
      <3> HIDE DEF q
      <3>4. frame' \in [Threads -> Trigger] /\ frame'[j] = q /\ \A u \in Threads \ {j} : frame'[u] = frame[u]
        BY <3>2, <3>3, Framed DEF Inv
      <3> QED
        BY <3>2, <3>3, <3>4, Constants
    <2> QED
      BY <2>1, <2>2 DEF Spawn
  <1>7. TypeOK'
    BY <1>1, <1>4, <1>5, <1>6 DEF Inv, TypeOK
  <1>8. ASSUME NEW u \in Threads PROVE ThreadSound(u)'
    <2>1. CASE frame'[u] = frame[u]
      BY <2>1, <1>1, <1>5, ThreadUndisturbed DEF Inv
    <2>2. CASE frame'[u].pc = "checking" /\ frame'[u].feed = f
      BY <2>2, <1>1 DEF ThreadSound
    <2> QED
      BY <2>1, <2>2, <1>6
  <1>9. ASSUME NEW c \in Callers PROVE CallSound(c)'
    BY <1>1, <1>6, CallUndisturbed DEF Inv
  <1> QED
    BY <1>4, <1>7, <1>8, <1>9 DEF Inv

\* sync_all does something of its own.
LEMMA SyncAllGoesOn ==
  ASSUME Inv, SchedulerAssumption, NEW c \in Callers, NEW a \in SyncAll,
         all' = [all EXCEPT ![c] = a], all'[c] = a => CallSound(c)',
         UNCHANGED <<running, loop, feedLocks, holder, frame, unhealthy>>
  PROVE  Inv'
  <1>1. all' \in [Callers -> SyncAll] /\ all'[c] = a /\ \A d \in Callers \ {c} : all'[d] = all[d]
    BY DEF Inv, TypeOK
  <1>2. TypeOK'
    BY <1>1 DEF Inv, TypeOK
  <1>3. ASSUME NEW u \in Threads PROVE ThreadSound(u)'
    BY <1>3, ThreadUndisturbed DEF Inv
  <1>4. ASSUME NEW d \in Callers PROVE CallSound(d)'
    BY <1>1, <1>4, CallUndisturbed DEF Inv
  <1> QED
    BY <1>2, <1>3, <1>4 DEF Inv

LEMMA BeginKeepsInv ==
  ASSUME Inv, SchedulerAssumption, NEW c \in Callers, Begin(c)
  PROVE  Inv'
  <1> DEFINE degree == [f \in Feeds |-> Cardinality(Deps[f])]
             queue == {f \in Feeds : degree[f] = 0}
             a == [NoCall EXCEPT !.pc = "sorting", !.indegree = degree, !.queue = queue]
  <1>1. all[c].pc = "idle" /\ all[c] = NoCall /\ ~ Cyclic /\ frame[c].pc = "idle"
        /\ UNCHANGED <<running, loop, feedLocks, holder, frame, unhealthy>>
    BY DEF Begin, Inv, CallSound
  <1>2. degree \in [Feeds -> Nat]
    <2>1. ASSUME NEW f \in Feeds PROVE Cardinality(Deps[f]) \in Nat
      <3>1. Deps[f] = Deps[f] \ {}
        OBVIOUS
      <3> QED
        BY <3>1, DepsFinite
    <2> QED
      BY <2>1
  <1>3. Kahn(<<>>, degree, queue)
    <2>1. Placed(<<>>) = {}
      BY DEF Placed
    <2>2. Ordered(<<>>) /\ Distinct(<<>>)
      BY DEF Ordered, Distinct
    <2>3. \A f \in Feeds : Deps[f] \ Placed(<<>>) = Deps[f]
      BY <2>1
    <2> QED
      BY <2>1, <2>2, <2>3 DEF Kahn
  <1>4. queue \in SUBSET Feeds
    OBVIOUS
  <1>5. all' = [all EXCEPT ![c] = a]
    BY <1>1 DEF Begin
  <1> HIDE DEF degree, queue
  <1>7. a \in SyncAll /\ a.pc = "sorting" /\ a.order = <<>> /\ a.indegree = degree /\ a.queue = queue
    BY <1>2, <1>4, Nothing DEF NoCall, SyncAll
  <1> HIDE DEF a
  <1>6. all'[c] = a => CallSound(c)'
    BY <1>1, <1>3, <1>7 DEF CallSound, Cyclic
  <1> QED
    BY <1>1, <1>5, <1>6, <1>7, SyncAllGoesOn

LEMMA TakeKeepsInv ==
  ASSUME Inv, SchedulerAssumption, NEW c \in Callers, NEW node \in Feeds, Take(c, node)
  PROVE  Inv'
  <1> DEFINE b == all[c]
             order == Append(b.order, node)
             degree == Relaxed(b.indegree, node)
             queue == (b.queue \ {node}) \cup Released(b.indegree, node)
             a == [b EXCEPT !.order = order, !.indegree = degree, !.queue = queue]
  <1>1. b.pc = "sorting" /\ node \in b.queue /\ ~ Cyclic /\ frame[c].pc = "idle"
        /\ Kahn(b.order, b.indegree, b.queue)
        /\ UNCHANGED <<running, loop, feedLocks, holder, frame, unhealthy>>
    BY DEF Take, Inv, CallSound
  <1>2. b \in SyncAll
    BY DEF Inv, TypeOK
  <1>3. b.order \in Seq(Feeds) /\ b.indegree \in [Feeds -> Nat] /\ b.queue \in SUBSET Feeds
    BY <1>2 DEF SyncAll
  <1>4. degree \in [Feeds -> Nat] /\ Kahn(order, degree, queue)
    BY <1>1, <1>3, TakeKeepsKahn
  <1>5. order \in Seq(Feeds) /\ queue \in SUBSET Feeds
    BY <1>3, Appended DEF Released
  <1>6. all' = [all EXCEPT ![c] = a]
    BY DEF Take
  <1> HIDE DEF order, degree, queue
  <1>7. a \in SyncAll /\ a.pc = "sorting" /\ a.order = order /\ a.indegree = degree /\ a.queue = queue
    BY <1>1, <1>2, <1>4, <1>5 DEF SyncAll
  <1> HIDE DEF a, b
  <1>8. all'[c] = a => CallSound(c)'
    BY <1>1, <1>4, <1>7 DEF CallSound, Cyclic
  <1> QED
    BY <1>1, <1>6, <1>7, <1>8, SyncAllGoesOn

LEMMA SortedKeepsInv ==
  ASSUME Inv, SchedulerAssumption, NEW c \in Callers, Sorted(c)
  PROVE  Inv'
  <1> DEFINE b == all[c]
             a == IF Len(b.order) # Cardinality(Feeds) THEN NoCall
                  ELSE [NoCall EXCEPT !.pc = "choosing", !.order = b.order]
  <1>1. b.pc = "sorting" /\ frame[c].pc = "idle" /\ Kahn(b.order, b.indegree, b.queue)
        /\ UNCHANGED <<running, loop, feedLocks, holder, frame, unhealthy>>
    BY DEF Sorted, Inv, CallSound
  <1>2. b.order \in Seq(Feeds)
    BY DEF Inv, TypeOK, SyncAll
  <1>3. all' = [all EXCEPT ![c] = a]
    BY DEF Sorted
  <1>4. /\ a \in SyncAll
        /\ a = NoCall \/ (a.pc = "choosing" /\ a.order = b.order /\ a.next = 1)
    BY <1>2, Nothing DEF NoCall, SyncAll
  <1> HIDE DEF a
  <1>5. all'[c] = a => CallSound(c)'
    <2>1. Len(b.order) \in Nat /\ Ordered(b.order)
      BY <1>1, <1>2 DEF Kahn
    <2> HIDE DEF b
    <2>2. CASE a = NoCall
      BY <2>2, <1>1, Nothing DEF CallSound
    <2>3. CASE a.pc = "choosing" /\ a.order = b.order /\ a.next = 1
      BY <2>1, <2>3, <1>1 DEF CallSound
    <2> QED
      BY <2>2, <2>3, <1>4
  <1> QED
    BY <1>1, <1>3, <1>4, <1>5, SyncAllGoesOn

LEMMA ReturnKeepsInv ==
  ASSUME Inv, SchedulerAssumption, NEW c \in Callers, Return(c)
  PROVE  Inv'
  <1>1. frame[c].pc = "idle"
    BY DEF Return, Inv, CallSound
  <1>2. all'[c] = NoCall => CallSound(c)'
    BY <1>1, Nothing DEF CallSound, Return
  <1> QED
    BY <1>2, Nothing, SyncAllGoesOn DEF Return

LEMMA ChooseKeepsInv ==
  ASSUME Inv, SchedulerAssumption, NEW c \in Callers, Choose(c)
  PROVE  Inv'
  <1> DEFINE b == all[c]
             f == b.order[b.next]
  <1>1. /\ b.pc = "choosing" /\ b.next <= Len(b.order) /\ frame[c].pc = "idle"
        /\ Ordered(b.order) /\ b.next \in 1..(Len(b.order) + 1)
        /\ \A i \in 1..(b.next - 1) : b.order[i] \in Enabled => b.order[i] \in b.results
        /\ UNCHANGED <<running, loop, feedLocks, holder, unhealthy>>
    BY DEF Choose, Inv, CallSound
  <1>2. b \in SyncAll /\ b.order \in Seq(Feeds) /\ b.next \in Nat /\ Len(b.order) \in Nat
    BY DEF Inv, TypeOK, SyncAll
  <1>3. f \in Feeds
    BY <1>1, <1>2
  <1>4. CASE f \in Enabled
    <2> DEFINE a == [b EXCEPT !.pc = "waiting"]
               q == [pc |-> "checking", feed |-> f, lock |-> None]
    <2>1. /\ a \in SyncAll /\ a.pc = "waiting" /\ a.order = b.order /\ a.next = b.next
          /\ a.results = b.results
      BY <1>2 DEF SyncAll
    <2>2. q \in Trigger /\ q.pc = "checking" /\ q.feed = f
      BY <1>3 DEF Trigger
    <2>3. all' = [all EXCEPT ![c] = a] /\ frame' = [frame EXCEPT ![c] = q]
      BY <1>4 DEF Choose, Call
    <2> HIDE DEF a, q
    <2>4. all' \in [Callers -> SyncAll] /\ all'[c] = a /\ \A d \in Callers \ {c} : all'[d] = all[d]
      BY <2>1, <2>3 DEF Inv, TypeOK
    <2>5. frame' \in [Threads -> Trigger] /\ frame'[c] = q /\ \A u \in Threads \ {c} : frame'[u] = frame[u]
      BY <2>2, <2>3, Framed, Constants DEF Inv
    <2>6. TypeOK'
      BY <1>1, <2>4, <2>5 DEF Inv, TypeOK
    <2>7. ASSUME NEW u \in Threads PROVE ThreadSound(u)'
      <3>1. CASE u = c
        BY <3>1, <1>3, <2>2, <2>5 DEF ThreadSound
      <3>2. CASE u # c
        BY <3>2, <1>1, <2>5, ThreadUndisturbed DEF Inv
      <3> QED
        BY <3>1, <3>2
    <2>8. ASSUME NEW d \in Callers PROVE CallSound(d)'
      <3>1. CASE d = c
        BY <3>1, <1>1, <2>1, <2>2, <2>4, <2>5 DEF CallSound
      <3>2. CASE d # c
        BY <3>2, <2>4, <2>5, CallUndisturbed, Constants DEF Inv
      <3> QED
        BY <3>1, <3>2
    <2> QED
      BY <1>1, <2>6, <2>7, <2>8 DEF Inv
  <1>5. CASE f \notin Enabled
    <2> DEFINE n == b.next + 1
               a == [b EXCEPT !.next = n]
    <2>6. n \in Nat
      BY <1>2
    <2>7. all' = [all EXCEPT ![c] = a] /\ UNCHANGED frame
      BY <1>5 DEF Choose
    <2>8. /\ a \in SyncAll /\ a.pc = "choosing" /\ a.order = b.order /\ a.next = n
          /\ a.results = b.results
      <3> HIDE DEF n, b
      <3> QED
        BY <1>1, <1>2, <2>6 DEF SyncAll
    <2>1. /\ a \in SyncAll /\ a.pc = "choosing" /\ a.order = b.order /\ a.next = b.next + 1
          /\ a.results = b.results
      BY <2>8
    <2>2. all' = [all EXCEPT ![c] = a] /\ UNCHANGED frame
      BY <2>7
    <2> HIDE DEF a
    <2>3. \A i \in 1..(a.next - 1) : a.order[i] \in Enabled => a.order[i] \in a.results
      BY <1>1, <1>2, <1>5, <2>1
    <2>4. a.next \in 1..(Len(a.order) + 1) /\ Ordered(a.order)
      BY <1>1, <1>2, <2>1
    <2> HIDE DEF b
    <2>5. all'[c] = a => CallSound(c)'
      BY <1>1, <2>1, <2>2, <2>3, <2>4 DEF CallSound
    <2> QED
      BY <1>1, <2>1, <2>2, <2>5, SyncAllGoesOn
  <1> QED
    BY <1>4, <1>5

-----------------------------------------------------------------------------
(* The results *)

LEMMA InitEstablishesInv ==
  ASSUME SchedulerAssumption, Init
  PROVE  Inv
  <1>1. TypeOK
    BY Nothing DEF Init, TypeOK
  <1>2. \A t \in Threads : ThreadSound(t)
    BY Nothing DEF Init, ThreadSound
  <1>3. \A c \in Callers : CallSound(c)
    BY Nothing, Constants DEF Init, CallSound
  <1> QED
    BY <1>1, <1>2, <1>3, Nothing DEF Inv, Init

LEMMA StutterKeepsInv ==
  ASSUME Inv, SchedulerAssumption, UNCHANGED vars
  PROVE  Inv'
  BY PollingKeepsInv DEF vars, Inv, TypeOK

LEMMA StepKeepsInv ==
  ASSUME Inv, SchedulerAssumption, [Next]_vars
  PROVE  Inv'
  <1>1. CASE Start \/ Stop
    BY <1>1, StartStopKeepsInv
  <1>2. ASSUME NEW l \in Loops, LoopStep(l) PROVE Inv'
    BY <1>2, TestKeepsInv, PollKeepsInv, SpawnKeepsInv DEF LoopStep
  <1>3. ASSUME NEW t \in Threads, TriggerStep(t) PROVE Inv'
    BY <1>3, CheckKeepsInv, LocateKeepsInv, TryKeepsInv, FinishKeepsInv DEF TriggerStep
  <1>4. ASSUME NEW c \in Callers, Begin(c) \/ SyncAllStep(c) PROVE Inv'
    BY <1>4, BeginKeepsInv, TakeKeepsInv, SortedKeepsInv, ChooseKeepsInv, ReturnKeepsInv DEF SyncAllStep
  <1> QED
    BY <1>1, <1>2, <1>3, <1>4, StutterKeepsInv DEF Next

THEOREM Invariance == Spec => []Inv
  <1>1. Init => Inv
    BY InitEstablishesInv, SchedulerAssumption
  <1>2. Inv /\ [Next]_vars => Inv'
    BY StepKeepsInv, SchedulerAssumption
  <1> QED
    BY <1>1, <1>2, PTL DEF Spec

\* Flags, frames, locks and orders keep their types; in_degree never falls below zero.
THEOREM TypeCorrect == Spec => []TypeOK
  BY Invariance, PTL DEF Inv

\* trigger_sync and _get_feed_lock: however many loops, jobs and callers there are, one
\* at most synchronises a feed.
THEOREM SyncsExclusive == Spec => []OneSyncPerFeed
  <1>1. Inv => OneSyncPerFeed
    BY DEF Inv, ThreadSound, OneSyncPerFeed
  <1> QED
    BY <1>1, Invariance, PTL

\* sync_all: for every acyclic graph of dependencies, a feed is synchronised after those
\* it needs.
THEOREM OrderRespected == Spec => []PrerequisitesFirst
  <1>1. ASSUME Inv, SchedulerAssumption, NEW c \in Callers, all[c].pc = "waiting"
        PROVE  Deps[all[c].order[all[c].next]] \cap Enabled \subseteq all[c].results
    <2> DEFINE a == all[c]
    <2>1. /\ Ordered(a.order) /\ a.next \in 1..(Len(a.order) + 1) /\ a.next <= Len(a.order)
          /\ \A i \in 1..(a.next - 1) : a.order[i] \in Enabled => a.order[i] \in a.results
      BY <1>1 DEF Inv, CallSound
    <2>2. Len(a.order) \in Nat
      BY <1>1 DEF Inv, TypeOK, SyncAll
    <2>4. a.next \in 1..Len(a.order)
      BY <2>1, <2>2
    <2> HIDE DEF a
    <2>3. Deps[a.order[a.next]] \subseteq {a.order[j] : j \in 1..(a.next - 1)}
      BY <2>1, <2>4 DEF Ordered
    <2>5. Deps[a.order[a.next]] \cap Enabled \subseteq a.results
      BY <2>1, <2>2, <2>3, <2>4
    <2> QED
      BY <2>5 DEF a
  <1>2. Inv => PrerequisitesFirst
    BY <1>1, SchedulerAssumption DEF PrerequisitesFirst
  <1> QED
    BY <1>2, Invariance, PTL

\* get_topological_order: once detect_cycles has found none, the last check of the sort,
\* that all feeds are in the order, never fails.
THEOREM SortNeverFails == Spec => []OrderComplete
  <1>1. ASSUME Inv, SchedulerAssumption, NEW c \in Callers, all[c].pc = "sorting", all[c].queue = {}
        PROVE  Len(all[c].order) = Cardinality(Feeds)
    <2>1. ~ Cyclic /\ Kahn(all[c].order, all[c].indegree, {}) /\ all[c].order \in Seq(Feeds)
      BY <1>1 DEF Inv, CallSound, TypeOK, SyncAll
    <2> QED
      BY <1>1, <2>1, KahnCompletes
  <1>2. Inv => OrderComplete
    BY <1>1, SchedulerAssumption DEF OrderComplete
  <1> QED
    BY <1>2, Invariance, PTL

-----------------------------------------------------------------------------
(* Calls come to an end, and loops wind down *)

Stage == [checking |-> 4, locating |-> 3, trying |-> 2, syncing |-> 1, idle |-> 0]

\* The steps that a call of sync_all has left at most, those of its calls of trigger_sync
\* included.
Ahead(c) ==
    LET a == all[c]
        left == 5 * (Len(a.order) + 1 - a.next)
    IN  IF a.pc = "idle" THEN 0
        ELSE IF a.pc = "sorting" THEN 6 * Cardinality(Feeds) + 2 - Len(a.order)
        ELSE IF a.pc = "choosing" THEN left + 1
        ELSE left - 4 + Stage[frame[c].pc]

\* sync_all: each step of the thread brings the call nearer to its return, and nobody
\* else, loops that take the locks of feeds included, takes it further from it.
SyncAllShortens ==
    [][\A c \in Callers :
          all[c].pc # "idle" =>
            /\ Ahead(c)' \in 0 .. Ahead(c)
            /\ TriggerStep(c) \/ SyncAllStep(c) => Ahead(c)' # Ahead(c)]_vars

Winding == [spawning |-> 3, polling |-> 2, testing |-> 1, dead |-> 0]

\* stop: while the scheduler is stopped, each step of a loop brings it nearer to its end.
LoopsWindDown ==
    [][\A l \in Loops :
          ~ running /\ ~ running' =>
            /\ Winding[loop'[l].pc] \in 0 .. Winding[loop[l].pc]
            /\ LoopStep(l) => loop'[l].pc # loop[l].pc]_vars

\* _run_feed_async: each step of a thread that a loop has started brings it nearer to its
\* end, and neither loops nor sync_all take it further away.
JobsWindDown ==
    [][\A j \in Jobs :
          frame[j].pc # "idle" =>
            /\ Stage[frame'[j].pc] \in 0 .. Stage[frame[j].pc]
            /\ TriggerStep(j) => frame'[j].pc # frame[j].pc]_vars

LEMMA OrderBounded ==
  ASSUME SchedulerAssumption, NEW s \in Seq(Feeds), Distinct(s)
  PROVE  Len(s) \in Nat /\ Cardinality(Feeds) \in Nat /\ Len(s) <= Cardinality(Feeds)
  <1>1. IsFiniteSet(Feeds) /\ Cardinality(Feeds) \in Nat /\ Len(s) \in Nat
    BY FS_CardinalityType DEF SchedulerAssumption
  <1>2. IsFiniteSet(1..Len(s)) /\ Cardinality(1..Len(s)) = Len(s)
    <2>1. Len(s) \in Nat
      BY <1>1
    <2> QED
      BY <2>1, FS_Interval
  <1>3. s \in Injection(1..Len(s), Feeds)
    BY DEF Injection, IsInjective, Distinct
  <1> QED
    BY <1>1, <1>2, <1>3, FS_Injection

\* What is left of the order, and of the feed it has come to.
LEMMA Left ==
  ASSUME NEW len \in Nat, NEW next \in Nat, next <= len, NEW stage \in Int, stage >= 0
  PROVE  LET left == 5 * (len + 1 - next) - 4 + stage
         IN  /\ left \in Nat /\ left > 0
             /\ 5 * (len + 1 - (next + 1)) + 1 \in Nat
             /\ stage > 0 => /\ 5 * (len + 1 - next) - 4 + (stage - 1) \in Nat
                             /\ 5 * (len + 1 - next) - 4 + (stage - 1) < left
                             /\ 5 * (len + 1 - (next + 1)) + 1 < left
  OBVIOUS

LEMMA AheadMeasured ==
  ASSUME Inv, SchedulerAssumption, NEW c \in Callers
  PROVE  Ahead(c) \in Nat /\ (all[c].pc # "idle" => Ahead(c) > 0)
  <1> DEFINE a == all[c]
  <1>1. a \in SyncAll /\ a.order \in Seq(Feeds) /\ Len(a.order) \in Nat /\ a.next \in Nat
        /\ a.pc \in {"idle", "sorting", "choosing", "waiting"}
    BY DEF Inv, TypeOK, SyncAll
  <1>2. CASE a.pc = "sorting"
    <2>1. Len(a.order) <= Cardinality(Feeds) /\ Cardinality(Feeds) \in Nat
      BY <1>1, <1>2, OrderBounded DEF Inv, CallSound, Kahn
    <2> QED
      BY <2>1, <1>1, <1>2 DEF Ahead
  <1>3. CASE a.pc = "choosing"
    <2>1. a.next \in 1 .. (Len(a.order) + 1)
      BY <1>3 DEF Inv, CallSound
    <2>2. Ahead(c) = 5 * (Len(a.order) + 1 - a.next) + 1
      BY <1>3 DEF Ahead
    <2> HIDE DEF a
    <2> QED
      BY <1>1, <2>1, <2>2
  <1>4. CASE a.pc = "waiting"
    <2>1. a.next <= Len(a.order)
      BY <1>4 DEF Inv, CallSound
    <2>2. Stage[frame[c].pc] \in 0 .. 4
      BY Constants DEF Inv, TypeOK, Trigger, Stage
    <2>3. Ahead(c) = 5 * (Len(a.order) + 1 - a.next) - 4 + Stage[frame[c].pc]
      BY <1>4 DEF Ahead
    <2> DEFINE len == Len(a.order)
               next == a.next
               stage == Stage[frame[c].pc]
    <2>4. len \in Nat /\ next \in Nat /\ next <= len /\ stage \in Int /\ stage >= 0
      BY <2>1, <2>2, <1>1
    <2>5. Ahead(c) = 5 * (len + 1 - next) - 4 + stage
      BY <2>3
    <2> HIDE DEF len, next, stage
    <2> QED
      BY <2>4, <2>5, Left
  <1> QED
    BY <1>1, <1>2, <1>3, <1>4 DEF Ahead

LEMMA AheadKept ==
  ASSUME NEW c \in Callers, all'[c] = all[c], frame'[c].pc = frame[c].pc
  PROVE  Ahead(c)' = Ahead(c)
  BY DEF Ahead, Stage

\* A step of trigger_sync is seen by its own thread only; it goes on or the call ends.
LEMMA TriggersGoOn ==
  ASSUME Inv, SchedulerAssumption, NEW t \in Threads, TriggerStep(t)
  PROVE  /\ frame[t].pc # "idle"
         /\ \A c \in Callers \ {t} : all'[c] = all[c] /\ frame'[c] = frame[c]
         /\ \A u \in Threads \ {t} : frame'[u] = frame[u]
         /\ UNCHANGED <<running, loop>>
         /\ \/ all' = all /\ frame[t].pc = "checking" /\ frame'[t].pc = "locating"
            \/ all' = all /\ frame[t].pc = "locating" /\ frame'[t].pc = "trying"
            \/ all' = all /\ frame[t].pc = "trying" /\ frame'[t].pc = "syncing"
            \/ \E ok \in BOOLEAN : Done(t, ok)
  <1>1. /\ frame \in [Threads -> Trigger] /\ Callers \subseteq Threads
        /\ frame[t].pc # "idle" => frame[t].feed \in Feeds
    BY Constants DEF Inv, TypeOK, ThreadSound
  <1>2. ASSUME frame[t].pc # "idle", NEW ok \in BOOLEAN, Done(t, ok)
        PROVE  /\ \A c \in Callers \ {t} : all'[c] = all[c] /\ frame'[c] = frame[c]
               /\ \A u \in Threads \ {t} : frame'[u] = frame[u]
    BY <1>1, <1>2, CallDone DEF Inv
  <1>3. CASE Check(t)
    <2>1. CASE Goto(t, "locating") /\ UNCHANGED all
      BY <1>1, <1>3, <2>1, Went DEF Check, Inv
    <2>2. CASE Done(t, FALSE)
      BY <1>2, <1>3, <2>2 DEF Check
    <2> QED
      BY <1>3, <2>1, <2>2 DEF Check
  <1>4. CASE Locate(t)
    BY <1>1, <1>4 DEF Locate, Trigger
  <1>5. CASE Try(t)
    <2>1. CASE Goto(t, "syncing") /\ UNCHANGED all
      BY <1>1, <1>5, <2>1, Went DEF Try, Inv
    <2>2. CASE Done(t, FALSE)
      BY <1>2, <1>5, <2>2 DEF Try
    <2> QED
      BY <1>5, <2>1, <2>2 DEF Try
  <1>6. ASSUME NEW ok \in BOOLEAN, Finish(t, ok)
        PROVE  /\ frame[t].pc # "idle" /\ Done(t, ok) /\ UNCHANGED <<running, loop>>
               /\ \A c \in Callers \ {t} : all'[c] = all[c] /\ frame'[c] = frame[c]
               /\ \A u \in Threads \ {t} : frame'[u] = frame[u]
    BY <1>2, <1>6 DEF Finish
  <1> QED
    BY <1>3, <1>4, <1>5, <1>6 DEF TriggerStep

\* What a call of sync_all does, in its own steps and in those of trigger_sync.
LEMMA AheadShrinks ==
  ASSUME Inv, SchedulerAssumption, NEW c \in Callers, TriggerStep(c) \/ SyncAllStep(c)
  PROVE  Ahead(c)' \in 0 .. Ahead(c) /\ Ahead(c)' # Ahead(c)
  <1> DEFINE a == all[c]
             b == all'[c]
  <1>1. /\ a \in SyncAll /\ a.order \in Seq(Feeds) /\ Len(a.order) \in Nat /\ a.next \in Nat
        /\ all \in [Callers -> SyncAll] /\ c \in Threads /\ frame \in [Threads -> Trigger]
    BY Constants DEF Inv, TypeOK, SyncAll
  <1>2. Inv'
    BY CheckKeepsInv, LocateKeepsInv, TryKeepsInv, FinishKeepsInv, TakeKeepsInv, SortedKeepsInv,
       ChooseKeepsInv, ReturnKeepsInv, <1>1 DEF TriggerStep, SyncAllStep
  <1>3. Ahead(c) \in Nat /\ (a.pc # "idle" => Ahead(c) > 0)
    BY AheadMeasured
  <1>4. SUFFICES Ahead(c)' \in Nat /\ Ahead(c)' < Ahead(c)
    BY <1>3
  <1>5. ASSUME b = NoCall, a.pc # "idle" PROVE Ahead(c)' \in Nat /\ Ahead(c)' < Ahead(c)
    BY <1>3, <1>5 DEF Ahead, NoCall
  <1>6. CASE TriggerStep(c)
    <2>1. a.pc = "waiting" /\ frame[c].pc # "idle" /\ a.next <= Len(a.order)
      BY <1>1, <1>6, TriggersGoOn DEF Inv, CallSound
    <2>2. frame[c].pc \in {"checking", "locating", "trying", "syncing"}
      BY <1>1, <2>1 DEF Trigger
    <2>3. Ahead(c) = 5 * (Len(a.order) + 1 - a.next) - 4 + Stage[frame[c].pc]
      BY <2>1 DEF Ahead
    <2>4. CASE all' = all /\ Stage[frame'[c].pc] + 1 = Stage[frame[c].pc] /\ Stage[frame[c].pc] \in 1 .. 4
      <3>1. Ahead(c)' = 5 * (Len(a.order) + 1 - a.next) - 4 + Stage[frame'[c].pc]
        BY <2>1, <2>4 DEF Ahead
      <3>2. Stage[frame'[c].pc] = Stage[frame[c].pc] - 1
        <4>1. Stage[frame'[c].pc] \in Int
          BY <1>2, <1>1 DEF Inv, TypeOK, Trigger, Stage
        <4> QED
          BY <4>1, <2>4
      <3> DEFINE len == Len(a.order)
                 next == a.next
                 stage == Stage[frame[c].pc]
      <3>3. len \in Nat /\ next \in Nat /\ next <= len /\ stage \in Int /\ stage > 0
        BY <1>1, <2>1, <2>4
      <3>4. /\ Ahead(c) = 5 * (len + 1 - next) - 4 + stage
            /\ Ahead(c)' = 5 * (len + 1 - next) - 4 + (stage - 1)
        BY <2>3, <3>1, <3>2
      <3> HIDE DEF len, next, stage
      <3> QED
        BY <3>3, <3>4, Left
    <2>5. ASSUME NEW ok \in BOOLEAN, Done(c, ok) PROVE Ahead(c)' \in Nat /\ Ahead(c)' < Ahead(c)
      <3>1. frame[c].feed \in Feeds
        BY <1>1, <2>1 DEF Inv, ThreadSound
      <3>2. b \in {NoCall, [a EXCEPT !.pc = "choosing", !.next = @ + 1,
                                     !.results = @ \cup {frame[c].feed}]}
        BY <1>1, <2>5, <3>1, CallDone DEF Inv
      <3>3. CASE b = NoCall
        BY <1>5, <2>1, <3>3
      <3>4. CASE b # NoCall
        <4>1. b.pc = "choosing" /\ b.order = a.order /\ b.next = a.next + 1
          BY <1>1, <3>2, <3>4 DEF SyncAll
        <4>2. Ahead(c)' = 5 * (Len(a.order) + 1 - (a.next + 1)) + 1
          BY <4>1 DEF Ahead
        <4>3. Stage[frame[c].pc] \in 1 .. 4
          BY <2>2 DEF Stage
        <4> DEFINE len == Len(a.order)
                   next == a.next
                   stage == Stage[frame[c].pc]
        <4>4. len \in Nat /\ next \in Nat /\ next <= len /\ stage \in Int /\ stage > 0
          BY <1>1, <2>1, <4>3
        <4>5. /\ Ahead(c) = 5 * (len + 1 - next) - 4 + stage
              /\ Ahead(c)' = 5 * (len + 1 - (next + 1)) + 1
          BY <2>3, <4>2
        <4> HIDE DEF len, next, stage
        <4> QED
          BY <4>4, <4>5, Left
      <3> QED
        BY <3>3, <3>4
    <2> QED
      BY <1>1, <1>6, <2>4, <2>5, TriggersGoOn DEF Stage
  <1>7. ASSUME NEW node \in Feeds, Take(c, node) PROVE Ahead(c)' \in Nat /\ Ahead(c)' < Ahead(c)
    <2>1. a.pc = "sorting" /\ b.pc = "sorting" /\ b.order = Append(a.order, node)
      BY <1>1, <1>7 DEF Take, SyncAll
    <2>2. Len(b.order) = Len(a.order) + 1
      BY <1>1, <2>1, Appended
    <2>3. b.order \in Seq(Feeds) /\ Distinct(b.order)
      BY <1>2, <2>1 DEF Inv, TypeOK, SyncAll, CallSound, Kahn
    <2>4. Len(b.order) <= Cardinality(Feeds) /\ Cardinality(Feeds) \in Nat
      BY <2>3, OrderBounded
    <2>5. /\ Ahead(c) = 6 * Cardinality(Feeds) + 2 - Len(a.order)
          /\ Ahead(c)' = 6 * Cardinality(Feeds) + 2 - Len(b.order)
      BY <2>1 DEF Ahead
    <2> HIDE DEF a, b
    <2> QED
      BY <1>1, <2>2, <2>4, <2>5
  <1>8. CASE Sorted(c)
    <2>1. a.pc = "sorting" /\ Cardinality(Feeds) \in Nat
      BY <1>8, FS_CardinalityType DEF Sorted, SchedulerAssumption
    <2>2. CASE b = NoCall
      BY <1>5, <2>1, <2>2
    <2>3. CASE Len(a.order) = Cardinality(Feeds)
      <3>1. b = [NoCall EXCEPT !.pc = "choosing", !.order = a.order]
        BY <1>1, <1>8, <2>3 DEF Sorted
      <3>2. b.pc = "choosing" /\ b.order = a.order /\ b.next = 1
        BY <3>1 DEF NoCall
      <3> QED
        BY <1>1, <2>1, <2>3, <3>2 DEF Ahead
    <2> QED
      BY <1>1, <1>8, <2>2, <2>3 DEF Sorted
  <1>9. CASE Choose(c)
    <2>1. a.pc = "choosing" /\ a.next <= Len(a.order)
      BY <1>9 DEF Choose
    <2>2. CASE a.order[a.next] \in Enabled
      <3>1. b.pc = "waiting" /\ b.order = a.order /\ b.next = a.next
        BY <1>1, <1>9, <2>2 DEF Choose, SyncAll
      <3>2. frame'[c].pc = "checking"
        BY <1>1, <1>9, <2>2 DEF Choose, Call
      <3> QED
        BY <1>1, <2>1, <3>1, <3>2 DEF Ahead, Stage
    <2>3. CASE a.order[a.next] \notin Enabled
      <3>1. b.pc = "choosing" /\ b.order = a.order /\ b.next = a.next + 1
        BY <1>1, <1>9, <2>1, <2>3 DEF Choose, SyncAll
      <3> QED
        BY <1>1, <2>1, <3>1 DEF Ahead
    <2> QED
      BY <2>2, <2>3
  <1>10. CASE Return(c)
    <2>1. a.pc = "choosing" /\ b = NoCall
      BY <1>1, <1>10 DEF Return
    <2> QED
      BY <1>5, <2>1
  <1> QED
    BY <1>6, <1>7, <1>8, <1>9, <1>10 DEF SyncAllStep

\* Who steps, and whom it concerns.
LEMMA OthersAhead ==
  ASSUME Inv, SchedulerAssumption, NEW c \in Callers, all[c].pc # "idle", [Next]_vars,
         ~ TriggerStep(c), ~ SyncAllStep(c)
  PROVE  Ahead(c)' = Ahead(c)
  <1>1. /\ all \in [Callers -> SyncAll] /\ frame \in [Threads -> Trigger] /\ Callers \subseteq Threads
        /\ Jobs \subseteq Threads /\ Callers \cap Jobs = {}
    BY Constants DEF Inv, TypeOK
  <1>2. CASE UNCHANGED vars
    BY <1>2, AheadKept DEF vars
  <1>3. CASE Start \/ Stop \/ \E l \in Loops : Test(l) \/ Poll(l)
    BY <1>3, AheadKept DEF Start, Stop, Test, Poll
  <1>4. ASSUME NEW l \in Loops, Spawn(l) PROVE Ahead(c)' = Ahead(c)
    BY <1>1, <1>4, AheadKept DEF Spawn, Call
  <1>5. ASSUME NEW t \in Threads, TriggerStep(t) PROVE Ahead(c)' = Ahead(c)
    <2>1. c # t
      BY <1>5
    <2> QED
      BY <1>5, <2>1, TriggersGoOn, AheadKept
  <1>6. ASSUME NEW d \in Callers, Begin(d) \/ SyncAllStep(d) PROVE Ahead(c)' = Ahead(c)
    <2>1. c # d
      BY <1>6 DEF Begin
    <2>2. all'[c] = all[c] /\ frame'[c] = frame[c]
      BY <1>1, <1>6, <2>1 DEF Begin, SyncAllStep, Take, Sorted, Choose, Return, Call
    <2> QED
      BY <2>2, AheadKept
  <1> QED
    BY <1>2, <1>3, <1>4, <1>5, <1>6 DEF Next, LoopStep

\* sync_all, the safety part of SyncAllReturns: for any graph and any number of loops and
\* jobs that compete for the locks, the steps a call has left are a natural number that
\* each of its own steps lowers and no other raises.
THEOREM SyncAllEnds == Spec => SyncAllShortens
  <1>1. ASSUME Inv, [Next]_vars, NEW c \in Callers, all[c].pc # "idle"
        PROVE  /\ Ahead(c)' \in 0 .. Ahead(c)
               /\ TriggerStep(c) \/ SyncAllStep(c) => Ahead(c)' # Ahead(c)
    <2>1. CASE TriggerStep(c) \/ SyncAllStep(c)
      BY <1>1, <2>1, AheadShrinks, SchedulerAssumption
    <2>2. CASE ~ (TriggerStep(c) \/ SyncAllStep(c))
      BY <1>1, <2>2, OthersAhead, AheadMeasured, SchedulerAssumption
    <2> QED
      BY <2>1, <2>2
  <1>2. Inv /\ [Next]_vars =>
          [\A c \in Callers :
              all[c].pc # "idle" =>
                /\ Ahead(c)' \in 0 .. Ahead(c)
                /\ TriggerStep(c) \/ SyncAllStep(c) => Ahead(c)' # Ahead(c)]_vars
    BY <1>1
  <1> QED
    BY <1>2, Invariance, PTL DEF Spec, SyncAllShortens

\* stop, the safety part of StopsPolling: once the flag is down every loop, also one that a
\* quick start has overtaken, has at most three steps left and nobody gives it more.
THEOREM LoopsEnd == Spec => LoopsWindDown
  <1>1. ASSUME Inv, [Next]_vars, NEW l \in Loops, ~ running, ~ running'
        PROVE  /\ Winding[loop'[l].pc] \in 0 .. Winding[loop[l].pc]
               /\ LoopStep(l) => loop'[l].pc # loop[l].pc
    <2>1. loop \in [Loops -> Polling] /\ loop[l].pc \in {"dead", "testing", "polling", "spawning"}
      BY <1>1 DEF Inv, TypeOK, Polling
    <2>2. ASSUME NEW k \in Loops, LoopStep(k)
          PROVE  /\ k # l => loop'[l] = loop[l]
                 /\ \/ loop[k].pc = "testing" /\ loop'[k].pc = "dead"
                    \/ loop[k].pc = "polling" /\ loop'[k].pc = "testing"
                    \/ loop[k].pc = "spawning" /\ loop'[k].pc = "polling"
      <3>1. CASE Test(k)
        BY <1>1, <2>1, <3>1 DEF Test, Dead
      <3>2. CASE Poll(k)
        BY <1>1, <2>1, <3>2 DEF Poll, Dead
      <3>3. CASE Spawn(k)
        BY <1>1, <2>1, <3>3 DEF Spawn, Polling
      <3> QED
        BY <2>2, <3>1, <3>2, <3>3 DEF LoopStep
    <2>3. CASE \E k \in Loops : LoopStep(k)
      BY <2>1, <2>2, <2>3 DEF Winding
    <2>4. CASE ~ \E k \in Loops : LoopStep(k)
      <3>1. loop' = loop
        <4>1. ASSUME NEW t \in Threads, TriggerStep(t) PROVE loop' = loop
          BY <1>1, <4>1, TriggersGoOn, SchedulerAssumption
        <4>2. ASSUME NEW c \in Callers, Begin(c) \/ SyncAllStep(c) PROVE loop' = loop
          BY <4>2 DEF Begin, SyncAllStep, Take, Sorted, Choose, Return
        <4>3. CASE Start \/ Stop \/ UNCHANGED vars
          BY <1>1, <4>3 DEF Start, Stop, vars
        <4> QED
          BY <1>1, <2>4, <4>1, <4>2, <4>3 DEF Next
      <3> QED
        BY <2>1, <2>4, <3>1 DEF Winding
    <2> QED
      BY <2>3, <2>4
  <1>2. Inv /\ [Next]_vars =>
          [\A l \in Loops :
              ~ running /\ ~ running' =>
                /\ Winding[loop'[l].pc] \in 0 .. Winding[loop[l].pc]
                /\ LoopStep(l) => loop'[l].pc # loop[l].pc]_vars
    BY <1>1
  <1> QED
    BY <1>2, Invariance, PTL DEF Spec, LoopsWindDown

\* stop, the rest of StopsPolling: a thread that a loop has started has at most four steps
\* left, of which the last is the sync itself (CallsComeToAnEnd of FeedSyncProofs).
THEOREM JobsEnd == Spec => JobsWindDown
  <1>1. ASSUME Inv, [Next]_vars, NEW j \in Jobs, frame[j].pc # "idle"
        PROVE  /\ Stage[frame'[j].pc] \in 0 .. Stage[frame[j].pc]
               /\ TriggerStep(j) => frame'[j].pc # frame[j].pc
    <2>1. /\ frame \in [Threads -> Trigger] /\ j \in Threads /\ j \notin Callers
          /\ frame[j].pc \in {"checking", "locating", "trying", "syncing"}
      BY <1>1, Constants, SchedulerAssumption DEF Inv, TypeOK, Trigger
    <2>2. ASSUME TriggerStep(j)
          PROVE  \/ frame[j].pc = "checking" /\ frame'[j].pc = "locating"
                 \/ frame[j].pc = "locating" /\ frame'[j].pc = "trying"
                 \/ frame[j].pc = "trying" /\ frame'[j].pc = "syncing"
                 \/ frame'[j].pc = "idle"
      <3>1. ASSUME NEW ok \in BOOLEAN, Done(j, ok) PROVE frame'[j].pc = "idle"
        BY <2>1, <3>1, Nothing DEF Done
      <3> QED
        BY <1>1, <2>1, <2>2, <3>1, TriggersGoOn, SchedulerAssumption
    <2>3. CASE TriggerStep(j)
      BY <2>1, <2>2, <2>3 DEF Stage
    <2>4. CASE ~ TriggerStep(j)
      <3>1. ASSUME NEW t \in Threads, TriggerStep(t) PROVE frame'[j] = frame[j]
        <4>1. j # t
          BY <2>4, <3>1
        <4> QED
          BY <1>1, <2>1, <3>1, <4>1, TriggersGoOn, SchedulerAssumption
      <3>2. ASSUME NEW c \in Callers, Begin(c) \/ SyncAllStep(c) PROVE frame'[j] = frame[j]
        BY <2>1, <3>2 DEF Begin, SyncAllStep, Take, Sorted, Choose, Return, Call
      <3>3. ASSUME NEW l \in Loops, LoopStep(l) PROVE frame'[j] = frame[j]
        BY <1>1, <2>1, <3>3 DEF LoopStep, Test, Poll, Spawn, Call
      <3>4. ASSUME Start \/ Stop \/ UNCHANGED vars PROVE frame'[j] = frame[j]
        BY <3>4 DEF Start, Stop, vars
      <3>5. frame'[j] = frame[j]
        BY <1>1, <3>1, <3>2, <3>3, <3>4 DEF Next
      <3> QED
        BY <2>1, <2>4, <3>5 DEF Stage
    <2> QED
      BY <2>3, <2>4
  <1>2. Inv /\ [Next]_vars =>
          [\A j \in Jobs :
              frame[j].pc # "idle" =>
                /\ Stage[frame'[j].pc] \in 0 .. Stage[frame[j].pc]
                /\ TriggerStep(j) => frame'[j].pc # frame[j].pc]_vars
    BY <1>1
  <1> QED
    BY <1>2, Invariance, PTL DEF Spec, JobsWindDown

=============================================================================
