-------------------------- MODULE ToolWorkerProofs --------------------------
(***************************************************************************)
(* Proofs about ToolWorker, for every set of pids and every limiter         *)
(* setting.  The invariants ToolWorker states are not inductive: they speak *)
(* of the points where the worker waits or launches, and say nothing of     *)
(* the code in between.  ControlInv says what holds at each point of the    *)
(* code, LimiterInv relates the two records of past restarts; together with *)
(* TypeOK they are inductive.                                               *)
(***************************************************************************)
EXTENDS ToolWorker, TLAPS, SequenceTheorems, WellFoundedInduction, NaturalsInduction

-----------------------------------------------------------------------------
(* The inductive invariant *)

Stopping   == {"await", "force", "reap", "kill", "settle"}
Exiting    == {"remains", "remainsWait", "remainsForce", "exited"}
Launching  == {"spawn", "attach", "failed"}
BetweenOps == {"recv", "poll", "start"}

\* What the runtime record shows at each point of the code, and whether a child is held
SnapshotInv ==
    /\ (pc \in BetweenOps) =>
         \/ Held /\ runtime.state = "Running" /\ runtime.pid = rootPid
         \/ ~Held /\ runtime.pid = NoPid /\ runtime.state \in {"Stopped", "Restarting", "Crashed"}
    /\ pc = "stop" =>
         \/ Held /\ runtime.state \in {"Running", "Restarting"} /\ runtime.pid = rootPid
         \/ ~Held /\ runtime.pid = NoPid /\ runtime.state \in {"Stopped", "Restarting", "Crashed"}
    /\ pc \in Stopping => Held /\ runtime.state = "Stopping" /\ runtime.pid = rootPid
    /\ pc \in Exiting => Held /\ runtime.state = "Running" /\ runtime.pid = rootPid
    /\ pc \in Launching => runtime.state = "Starting" /\ runtime.pid = NoPid
    /\ pc \in {"spawn", "failed"} => ~Held
    /\ pc = "attach" => Held
    /\ pc = "done" => ~Held /\ runtime.state = "Stopped" /\ runtime.pid = NoPid

\* What the worker still means to do at each point of the code
IntentInv ==
    /\ exiting => pc \in Stopping \cup {"stop", "done"}
    /\ pc = "done" => exiting
    /\ pc \in Launching => desired
    /\ pc \in BetweenOps =>
         /\ runtime.state = "Restarting" => desired /\ nextStart # NotScheduled
         /\ runtime.state = "Crashed" => ~desired \/ (pc # "recv" /\ nextStart = Due)
         /\ ~Held /\ desired /\ config.auto_restart => nextStart # NotScheduled
         /\ ~Held /\ desired /\ config.auto_restart => cause # "none"
    /\ pc \in Stopping \cup {"stop"} /\ ~exiting /\ desired =>
         nextStart # NotScheduled /\ cause # "none"
    /\ pc = "spawn" /\ config.auto_restart => cause # "none"

\* What the tree can still leave behind at each point of the code
TreeInv ==
    /\ ~Held => root = "none" /\ members = "none"
    /\ pc \in Exiting => root = "none"
    /\ pc \in {"reap", "kill", "settle"} =>
         stopFailed \/ (members # "alive" /\ (root = "alive" => escaped))
    /\ pc = "settle" => stopFailed \/ root # "alive"
    /\ pc = "exited" => stopFailed \/ members # "alive"
    /\ leftover => stopFailed

ControlInv == SnapshotInv /\ IntentInv /\ TreeInv

\* Ages never grow towards the back of the deque.
Sorted(ages) == \A i, j \in 1..Len(ages) : i <= j => ages[j] <= ages[i]

\* The exact ages are the tail of the remembered ones.
TailOf(m, ages) ==
    /\ Len(m) <= Len(ages)
    /\ \A i \in 1..Len(m) : m[i] = ages[Len(ages) - Len(m) + i]

LimiterInv ==
    /\ Sorted(restarts)
    /\ TailOf(meter, restarts)
    /\ \A i \in 1..Len(meter) : ~Stale(meter[i])
    /\ Len(restarts) <= MaxRestartCount
    /\ Len(restarts) <= runtime.restart_count

-----------------------------------------------------------------------------
(* The pruning loop *)

Age == 0..RestartWindow + 1

LEMMA NatMinimum ==
    ASSUME NEW T, T \subseteq Nat, T # {}
    PROVE  \E n \in T : \A m \in T : n <= m
<1> DEFINE Less == {p \in Nat \X Nat : p[1] < p[2]}
<1>1. IsWellFoundedOn(Less, Nat)
  BY NatLessThanWellFounded DEF OpToRel
<1>2. PICK n \in T : \A m \in T : ~(<<m, n>> \in Less)
  <2> HIDE DEF Less
  <2> QED BY <1>1, WFMin
<1>3. ASSUME NEW m \in T
      PROVE  n <= m
  <2>1. <<m, n>> \in Nat \X Nat /\ m \in Nat /\ n \in Nat
    OBVIOUS
  <2>2. m < n => <<m, n>> \in Less
    BY <2>1
  <2> QED BY <1>2, <2>1, <2>2
<1> QED BY <1>3

\* The loop stops in front of the first fresh entry, or at the end of the deque.
LEMMA ExpiredProperties ==
    ASSUME NEW ages \in Seq(Age)
    PROVE  /\ Expired(ages) \in 0..Len(ages)
           /\ \A i \in 1..Expired(ages) : Stale(ages[i])
           /\ Expired(ages) < Len(ages) => ~Stale(ages[Expired(ages) + 1])
<1> DEFINE Fresh == {n \in 0..Len(ages) : n < Len(ages) => ~Stale(ages[n + 1])}
<1>1. Fresh \subseteq Nat /\ Len(ages) \in Fresh
  OBVIOUS
<1>2. PICK n \in Fresh : \A m \in Fresh : n <= m
  BY <1>1, NatMinimum
<1>3. \A i \in 1..n : Stale(ages[i])
  <2>1. SUFFICES ASSUME NEW i \in 1..n, ~Stale(ages[i])
                 PROVE  FALSE
    OBVIOUS
  <2>2. i - 1 \in Fresh
    BY <2>1, <1>2
  <2> QED BY <2>2, <1>2
<1>4. \E k \in 0..Len(ages) :
         /\ \A i \in 1..k : Stale(ages[i])
         /\ k < Len(ages) => ~Stale(ages[k + 1])
  BY <1>2, <1>3
<1> QED BY <1>4 DEF Expired

\* Pruning removes entries at the front only.
LEMMA PruneProperties ==
    ASSUME NEW ages \in Seq(Age)
    PROVE  /\ Prune(ages) \in Seq(Age)
           /\ Len(Prune(ages)) = Len(ages) - Expired(ages)
           /\ \A i \in 1..Len(Prune(ages)) : Prune(ages)[i] = ages[Expired(ages) + i]
<1>1. Expired(ages) \in 0..Len(ages)
  BY ExpiredProperties
<1>2. \A i \in Expired(ages) + 1..Len(ages) : ages[i] \in Age
  BY <1>1
<1>3. /\ SubSeq(ages, Expired(ages) + 1, Len(ages)) \in Seq(Age)
      /\ Len(SubSeq(ages, Expired(ages) + 1, Len(ages))) =
            IF Expired(ages) + 1 <= Len(ages) THEN Len(ages) - (Expired(ages) + 1) + 1 ELSE 0
      /\ \A i \in 1..Len(ages) - (Expired(ages) + 1) + 1 :
            SubSeq(ages, Expired(ages) + 1, Len(ages))[i] = ages[Expired(ages) + 1 + i - 1]
  BY <1>1, <1>2, SubSeqProperties
<1> QED BY <1>1, <1>3 DEF Prune

LEMMA AgedProperties ==
    ASSUME NEW ages \in Seq(Age)
    PROVE  /\ Aged(ages) \in Seq(Age)
           /\ Len(Aged(ages)) = Len(ages)
           /\ \A i \in 1..Len(ages) : Aged(ages)[i] = Older(ages[i])
<1>1. \A a \in Age : Older(a) \in Age
  BY LimiterAssumption DEF Age, Older
<1> QED BY <1>1 DEF Aged

-----------------------------------------------------------------------------
(* The two records of past restarts *)

LEMMA PruneKeepsOrder ==
    ASSUME NEW ages \in Seq(Age), Sorted(ages)
    PROVE  Sorted(Prune(ages))
<1>1. SUFFICES ASSUME NEW i \in 1..Len(Prune(ages)), NEW j \in 1..Len(Prune(ages)), i <= j
               PROVE  Prune(ages)[j] <= Prune(ages)[i]
  BY DEF Sorted
<1>2. Expired(ages) \in 0..Len(ages) /\ Len(Prune(ages)) = Len(ages) - Expired(ages)
  BY ExpiredProperties, PruneProperties
<1>3. /\ Expired(ages) + i \in 1..Len(ages) /\ Expired(ages) + j \in 1..Len(ages)
      /\ Expired(ages) + i <= Expired(ages) + j
  BY <1>1, <1>2
<1>4. ages[Expired(ages) + j] <= ages[Expired(ages) + i]
  BY <1>3 DEF Sorted
<1> QED BY <1>4, PruneProperties

\* Nothing fresh is pruned: the loop does not reach into a tail without stale entries.
LEMMA PruneKeepsFreshTail ==
    ASSUME NEW ages \in Seq(Age), NEW m \in Seq(Age), TailOf(m, ages),
           \A i \in 1..Len(m) : ~Stale(m[i])
    PROVE  TailOf(m, Prune(ages))
<1> DEFINE gap == Len(ages) - Len(m)
<1>1. gap \in Nat /\ Len(m) \in Nat /\ Len(ages) \in Nat /\ Expired(ages) \in 0..Len(ages)
  BY ExpiredProperties DEF TailOf
<1>2. Expired(ages) <= gap
  <2>1. SUFFICES ASSUME gap < Expired(ages)
                 PROVE  FALSE
    BY <1>1
  <2>2. Stale(ages[gap + 1])
    BY <1>1, <2>1, ExpiredProperties
  <2>3. 1 \in 1..Len(m) /\ m[1] = ages[gap + 1]
    BY <1>1, <2>1 DEF TailOf
  <2> QED BY <2>2, <2>3
<1>3. Len(Prune(ages)) = Len(ages) - Expired(ages)
  BY PruneProperties
<1>4. ASSUME NEW i \in 1..Len(m)
      PROVE  m[i] = Prune(ages)[Len(Prune(ages)) - Len(m) + i]
  <2>1. Len(Prune(ages)) - Len(m) + i \in 1..Len(Prune(ages))
    BY <1>1, <1>2, <1>3
  <2>2. Prune(ages)[Len(Prune(ages)) - Len(m) + i] = ages[gap + i]
    <3>1. Expired(ages) + (Len(Prune(ages)) - Len(m) + i) = gap + i
      BY <1>1, <1>3
    <3> QED BY <2>1, <3>1, PruneProperties
  <2> QED BY <2>2 DEF TailOf
<1> QED BY <1>1, <1>2, <1>3, <1>4 DEF TailOf

LEMMA AppendKeepsTail ==
    ASSUME NEW ages \in Seq(Age), NEW m \in Seq(Age), TailOf(m, ages)
    PROVE  TailOf(Append(m, 0), Append(ages, 0))
<1>1. 0 \in Age
  BY LimiterAssumption DEF Age
<1>2. Len(Append(m, 0)) = Len(m) + 1 /\ Len(Append(ages, 0)) = Len(ages) + 1
  BY <1>1, AppendProperties
<1>3. ASSUME NEW i \in 1..Len(m) + 1
      PROVE  Append(m, 0)[i] = Append(ages, 0)[Len(ages) - Len(m) + i]
  <2>1. CASE i = Len(m) + 1
    <3>1. Append(m, 0)[i] = 0 /\ Append(ages, 0)[Len(ages) + 1] = 0
      BY <1>1, <2>1, AppendProperties
    <3> QED BY <2>1, <3>1
  <2>2. CASE i \in 1..Len(m)
    <3>1. Len(ages) - Len(m) + i \in 1..Len(ages)
      BY <2>2 DEF TailOf
    <3>2. Append(m, 0)[i] = m[i]
      BY <1>1, <2>2, AppendProperties
    <3>3. Append(ages, 0)[Len(ages) - Len(m) + i] = ages[Len(ages) - Len(m) + i]
      BY <1>1, <3>1, AppendProperties
    <3> QED BY <2>2, <3>2, <3>3 DEF TailOf
  <2>3. Len(m) \in Nat /\ (i = Len(m) + 1 \/ i \in 1..Len(m))
    BY LenProperties
  <2> QED BY <2>1, <2>2, <2>3
<1>4. Len(m) \in Nat /\ Len(ages) \in Nat /\ Len(m) <= Len(ages)
  BY LenProperties DEF TailOf
<1>5. ASSUME NEW i \in 1..Len(Append(m, 0))
      PROVE  Append(m, 0)[i] = Append(ages, 0)[Len(Append(ages, 0)) - Len(Append(m, 0)) + i]
  <2>1. i \in 1..Len(m) + 1
    BY <1>2
  <2>2. Len(Append(ages, 0)) - Len(Append(m, 0)) + i = Len(ages) - Len(m) + i
    BY <1>2, <1>4, <2>1
  <2> QED BY <1>3, <2>1, <2>2
<1> DEFINE longM == Append(m, 0)
           longA == Append(ages, 0)
<1>6. Len(longM) <= Len(longA)
  BY <1>2, <1>4
<1>7. \A i \in 1..Len(longM) : longM[i] = longA[Len(longA) - Len(longM) + i]
  BY <1>5
<1>8. TailOf(longM, longA)
  <2> HIDE DEF longM, longA
  <2> QED BY <1>6, <1>7 DEF TailOf
<1> QED BY <1>8

LEMMA AppendKeepsOrder ==
    ASSUME NEW ages \in Seq(Age), Sorted(ages)
    PROVE  Sorted(Append(ages, 0))
<1>1. 0 \in Age /\ \A a \in Age : a >= 0
  BY LimiterAssumption DEF Age
<1>2. SUFFICES ASSUME NEW i \in 1..Len(ages) + 1, NEW j \in 1..Len(ages) + 1, i <= j
               PROVE  Append(ages, 0)[j] <= Append(ages, 0)[i]
  BY <1>1, AppendProperties DEF Sorted
<1>3. CASE j = Len(ages) + 1
  <2>1. Append(ages, 0) \in Seq(Age) /\ Len(Append(ages, 0)) = Len(ages) + 1
    BY <1>1, AppendProperties
  <2>2. Append(ages, 0)[i] \in Age
    BY <2>1
  <2>3. Append(ages, 0)[j] = 0
    BY <1>1, <1>3, AppendProperties
  <2> QED BY <1>1, <2>2, <2>3 DEF Age
<1>4. CASE j \in 1..Len(ages)
  <2>1. i \in 1..Len(ages)
    BY <1>2, <1>4
  <2>2. Append(ages, 0)[i] = ages[i] /\ Append(ages, 0)[j] = ages[j]
    BY <1>1, <1>4, <2>1, AppendProperties
  <2> QED BY <1>2, <1>4, <2>1, <2>2 DEF Sorted
<1> QED BY <1>2, <1>3, <1>4

\* One tick on both records
LEMMA TickKeepsTail ==
    ASSUME NEW ages \in Seq(Age), NEW m \in Seq(Age), Sorted(ages), TailOf(m, ages)
    PROVE  /\ Sorted(Aged(ages))
           /\ TailOf(Prune(Aged(m)), Aged(ages))
           /\ \A i \in 1..Len(Prune(Aged(m))) : ~Stale(Prune(Aged(m))[i])
<1>1. \A a, b \in Age : a <= b => Older(a) <= Older(b)
  BY LimiterAssumption DEF Age, Older
<1>2. /\ Aged(ages) \in Seq(Age) /\ Len(Aged(ages)) = Len(ages)
      /\ \A i \in 1..Len(ages) : ages[i] \in Age /\ Aged(ages)[i] = Older(ages[i])
  BY AgedProperties
<1>3. /\ Aged(m) \in Seq(Age) /\ Len(Aged(m)) = Len(m)
      /\ \A i \in 1..Len(m) : m[i] \in Age /\ Aged(m)[i] = Older(m[i])
  BY AgedProperties
<1>4. Sorted(Aged(ages))
  BY <1>1, <1>2 DEF Sorted
<1>5. TailOf(Aged(m), Aged(ages))
  <2>1. \A i \in 1..Len(m) : Len(ages) - Len(m) + i \in 1..Len(ages)
    BY DEF TailOf
  <2> QED BY <1>2, <1>3, <2>1 DEF TailOf
<1> DEFINE k == Expired(Aged(m))
           p == Prune(Aged(m))
<1>6. k \in 0..Len(m) /\ Len(p) = Len(m) - k /\ \A i \in 1..Len(p) : p[i] = Aged(m)[k + i]
  BY <1>3, ExpiredProperties, PruneProperties
<1>7. TailOf(p, Aged(ages))
  <2> HIDE DEF k, p
  <2>1. Len(p) <= Len(Aged(ages))
    BY <1>2, <1>3, <1>5, <1>6 DEF TailOf
  <2>2. ASSUME NEW i \in 1..Len(p)
        PROVE  p[i] = Aged(ages)[Len(Aged(ages)) - Len(p) + i]
    <3>1. k + i \in 1..Len(Aged(m))
      BY <1>3, <1>6
    <3>2. Aged(m)[k + i] = Aged(ages)[Len(Aged(ages)) - Len(Aged(m)) + (k + i)]
      BY <1>5, <3>1 DEF TailOf
    <3>3. Len(Aged(ages)) - Len(Aged(m)) + (k + i) = Len(Aged(ages)) - Len(p) + i
      BY <1>2, <1>3, <1>6
    <3> QED BY <1>6, <3>2, <3>3
  <2> QED BY <2>1, <2>2 DEF TailOf
<1>8. ASSUME NEW i \in 1..Len(p)
      PROVE  ~Stale(p[i])
  <2>1. k < Len(Aged(m)) /\ ~Stale(Aged(m)[k + 1])
    BY <1>3, <1>6, ExpiredProperties
  <2>5. p[1] = Aged(m)[k + 1] /\ p[1] \in Age /\ p[i] \in Age
    <3>1. p \in Seq(Age) /\ 1 \in 1..Len(p)
      BY <1>3, PruneProperties
    <3> QED BY <1>6, <3>1
  <2> HIDE DEF k, p
  <2>2. p[i] = Aged(ages)[Len(ages) - Len(p) + i] /\ p[1] = Aged(ages)[Len(ages) - Len(p) + 1]
    BY <1>2, <1>6, <1>7 DEF TailOf
  <2>3. /\ Len(ages) - Len(p) + i \in 1..Len(ages) /\ Len(ages) - Len(p) + 1 \in 1..Len(ages)
        /\ Len(ages) - Len(p) + 1 <= Len(ages) - Len(p) + i
    <3>1. Len(p) \in Nat /\ Len(ages) \in Nat /\ Len(p) <= Len(ages)
      BY <1>2, <1>6, <1>7, LenProperties DEF TailOf
    <3> QED BY <3>1
  <2>4. p[i] <= p[1]
    BY <1>2, <1>4, <2>2, <2>3 DEF Sorted
  <2> QED BY <2>1, <2>4, <2>5, LimiterAssumption DEF Stale, Age
<1> QED BY <1>4, <1>7, <1>8

-----------------------------------------------------------------------------
(* Type correctness *)

LEMMA BumpType ==
    ASSUME NEW n \in 0..CountCap
    PROVE  Bump(n) \in 0..CountCap
BY BoundAssumption DEF Bump

LEMMA PruneType ==
    ASSUME NEW ages \in Seq(Age)
    PROVE  Prune(ages) \in Seq(Age) /\ Append(Prune(ages), 0) \in Seq(Age)
           /\ Append(ages, 0) \in Seq(Age)
<1>1. 0 \in Age
  BY LimiterAssumption DEF Age
<1> QED BY <1>1, PruneProperties, AppendProperties

LEMMA RuntimeUpdate ==
    ASSUME NEW r \in Runtime, NEW s \in ToolState,
           NEW p \in Pids \cup {NoPid}, NEW n \in 0..CountCap
    PROVE  /\ [r EXCEPT !.state = s] \in Runtime
           /\ [r EXCEPT !.restart_count = n] \in Runtime
           /\ [r EXCEPT !.state = s, !.pid = p] \in Runtime
           /\ [r EXCEPT !.state = s, !.restart_count = n] \in Runtime
           /\ [state |-> s, pid |-> p, restart_count |-> n] \in Runtime
BY DEF Runtime

LEMMA TypeInit == Init => TypeOK
<1> SUFFICES ASSUME Init
             PROVE  TypeOK
  OBVIOUS
<1>1. [state |-> "Stopped", pid |-> NoPid, restart_count |-> 0] \in Runtime
  BY BoundAssumption DEF Runtime, ToolState
<1>2. /\ nextStart \in {NotScheduled} \cup 0..RestartDelay
      /\ desired \in BOOLEAN /\ cause \in {"none", "boot", "user", "auto"}
  BY LimiterAssumption DEF Init, NotScheduled, Due
<1>3. /\ queue \in Seq(Control) /\ restarts \in Seq(0..RestartWindow + 1)
      /\ meter \in Seq(0..RestartWindow + 1)
  BY DEF Init
<1> QED
  BY <1>1, <1>2, <1>3 DEF Init, TypeOK, RootStatus, MemberStatus

LEMMA TypeStep == TypeOK /\ [Next]_vars => TypeOK'
<1> SUFFICES ASSUME TypeOK, [Next]_vars
             PROVE  TypeOK'
  OBVIOUS
<1> USE LimiterAssumption, BoundAssumption
<1>a. /\ restarts \in Seq(Age) /\ meter \in Seq(Age)
      /\ runtime \in Runtime /\ runtime.restart_count \in 0..CountCap
      /\ rootPid \in Pids \cup {NoPid}
  BY DEF TypeOK, Runtime, Age
<1>b. /\ {"Stopped", "Starting", "Running", "Stopping", "Restarting", "Crashed"} = ToolState
      /\ 0 \in 0..CountCap
  BY DEF ToolState
<1>1. CASE RecvStart
  <2>1. Tail(queue) \in Seq(Control)
    BY <1>1, HeadTailProperties DEF TypeOK, RecvStart, Receive
  <2>2. restarts' \in Seq(Age) /\ meter' \in Seq(Age) /\ runtime' \in Runtime
    <3>1. CASE Held
      BY <1>1, <1>a, <3>1 DEF RecvStart
    <3>2. CASE ~Held
      <4>1. [runtime EXCEPT !.restart_count = 0] \in Runtime
        BY <1>a, <1>b DEF Runtime
      <4> QED BY <1>1, <3>2, <4>1 DEF RecvStart
    <3> QED BY <3>1, <3>2
  <2>3. cause' \in {"none", "boot", "user", "auto"}
    BY <1>1 DEF RecvStart, TypeOK
  <2>4. /\ queue' = Tail(queue) /\ desired' = TRUE /\ nextStart' = Due /\ pc' = "poll"
        /\ UNCHANGED <<config, sender, exiting, treeVars>>
    BY <1>1 DEF RecvStart, Receive
  <2> QED BY <2>1, <2>2, <2>3, <2>4 DEF treeVars, TypeOK, Due, Age
<1>2. CASE RecvStop
  <2>1. Tail(queue) \in Seq(Control)
    BY <1>2, HeadTailProperties DEF TypeOK, RecvStop, Receive
  <2> QED BY <1>2, <2>1 DEF RecvStop, Receive, treeVars, TypeOK, NotScheduled
<1>3. CASE RecvRestart
  <2>1. Tail(queue) \in Seq(Control)
    BY <1>3, HeadTailProperties DEF TypeOK, RecvRestart, Receive
  <2>2. runtime' \in Runtime
    BY <1>3, <1>a, <1>b, RuntimeUpdate, BumpType DEF RecvRestart, Receive, Held
  <2> QED BY <1>3, <2>1, <2>2 DEF RecvRestart, Receive, treeVars, Held, TypeOK, Due
<1>4. CASE RecvShutdown
  <2>1. Tail(queue) \in Seq(Control)
    BY <1>4, HeadTailProperties DEF TypeOK, RecvShutdown, Receive
  <2> QED BY <1>4, <2>1 DEF RecvShutdown, Receive, treeVars, TypeOK
<1>5. CASE RecvDisconnected
  BY <1>5 DEF RecvDisconnected, userVars, treeVars, TypeOK
<1>6. CASE RecvTimeout
  BY <1>6 DEF RecvTimeout, userVars, treeVars, TypeOK
<1>7. CASE StopNothing
  <2>1. runtime' \in Runtime
    BY <1>7, <1>a, <1>b, RuntimeUpdate DEF StopNothing, Held
  <2> QED BY <1>7, <2>1 DEF StopNothing, stopUnchanged, userVars, treeVars, Held, AfterStop, TypeOK
<1>8. ASSUME NEW ok \in BOOLEAN, StopRequest(ok)
      PROVE  TypeOK'
  <2>1. runtime' \in Runtime
    BY <1>8, <1>a, <1>b, RuntimeUpdate DEF StopRequest, Held
  <2> QED BY <1>8, <2>1 DEF StopRequest, stopUnchanged, userVars, treeVars, Held, TypeOK
<1>9. CASE AwaitReap
  BY <1>9 DEF AwaitReap, stopUnchanged, userVars, TypeOK, RootStatus
<1>10. CASE AwaitOver
  BY <1>10 DEF AwaitOver, stopUnchanged, userVars, treeVars, TypeOK
<1>11. CASE ForceNotNeeded
  BY <1>11 DEF ForceNotNeeded, stopUnchanged, userVars, Reaped, TypeOK, RootStatus
<1>12. ASSUME NEW ok \in BOOLEAN, ForceStop(ok)
       PROVE  TypeOK'
  <2>1. root' \in RootStatus /\ members' \in MemberStatus /\ stopFailed' \in BOOLEAN
    BY <1>12 DEF ForceStop, Reaped, Killed, TypeOK, RootStatus, MemberStatus
  <2>2. /\ pc' \in {"reap", "kill"} /\ UNCHANGED <<runtime, escaped, rootPid, leftover>>
        /\ UNCHANGED <<config, userVars, exiting, desired, nextStart, restarts, cause, meter>>
    BY <1>12 DEF ForceStop, stopUnchanged
  <2> QED BY <2>1, <2>2 DEF userVars, TypeOK
<1>13. CASE FirstWait
  BY <1>13 DEF FirstWait, stopUnchanged, userVars, TypeOK, RootStatus
<1>14. ASSUME NEW ok \in BOOLEAN, KillRoot(ok)
       PROVE  TypeOK'
  BY <1>14 DEF KillRoot, stopUnchanged, userVars, Reaped, Killed, TypeOK, RootStatus
<1>15. CASE Settle
  <2>1. runtime' \in Runtime
    BY <1>15, <1>a, <1>b, RuntimeUpdate DEF Settle
  <2> QED BY <1>15, <2>1 DEF Settle, stopUnchanged, userVars, Abandons, ForgetTree, AfterStop, TypeOK,
             RootStatus, MemberStatus
<1>16. CASE PollGoesOn
  BY <1>16 DEF PollGoesOn, stopUnchanged, userVars, treeVars, TypeOK
<1>17. CASE PollReaps
  BY <1>17 DEF PollReaps, stopUnchanged, userVars, TypeOK, RootStatus
<1>18. CASE RemainsNothing
  BY <1>18 DEF RemainsNothing, stopUnchanged, userVars, treeVars, TypeOK
<1>19. ASSUME NEW ok \in BOOLEAN, RemainsRequest(ok)
       PROVE  TypeOK'
  BY <1>19 DEF RemainsRequest, stopUnchanged, userVars, treeVars, TypeOK
<1>20. CASE RemainsWait
  BY <1>20 DEF RemainsWait, stopUnchanged, userVars, treeVars, TypeOK
<1>21. ASSUME NEW ok \in BOOLEAN, RemainsForce(ok)
       PROVE  TypeOK'
  BY <1>21 DEF RemainsForce, stopUnchanged, userVars, Killed, TypeOK, MemberStatus
<1>22. CASE ExitRestarts
  <2>1. /\ Prune(restarts) \in Seq(Age) /\ Append(Prune(restarts), 0) \in Seq(Age)
        /\ Append(meter, 0) \in Seq(Age)
    BY <1>a, PruneType
  <2>2. runtime' \in Runtime
    BY <1>22, <1>a, <1>b, RuntimeUpdate, BumpType DEF ExitRestarts, LetGo
  <2>3. /\ restarts' = Append(Prune(restarts), 0) /\ meter' = Append(meter, 0)
        /\ nextStart' = RestartDelay /\ cause' = "auto" /\ pc' = "start" /\ UNCHANGED desired
        /\ UNCHANGED <<config, userVars, exiting, stopFailed>>
    BY <1>22 DEF ExitRestarts, ScheduleRestart, LetGo, exitUnchanged
  <2>4. /\ root' = "none" /\ escaped' = FALSE /\ members' = "none" /\ rootPid' = NoPid
        /\ leftover' \in BOOLEAN
    BY <1>22 DEF ExitRestarts, LetGo, ForgetTree, Abandons, TypeOK
  <2>5. /\ restarts' \in Seq(Age) /\ meter' \in Seq(Age)
        /\ nextStart' \in {NotScheduled} \cup 0..RestartDelay
        /\ root' \in RootStatus /\ members' \in MemberStatus
    BY <2>1, <2>3, <2>4 DEF RootStatus, MemberStatus
  <2>6. /\ cause' \in {"none", "boot", "user", "auto"}
        /\ UNCHANGED <<config, userVars, exiting, desired, stopFailed>>
    BY <2>3
  <2> HIDE <2>3
  <2> QED
    BY <2>2, <2>4, <2>5, <2>6, <1>22 DEF ExitRestarts, LetGo, userVars, TypeOK, Age
<1>23. CASE ExitCrashes
  <2>1. /\ Prune(restarts) \in Seq(Age) /\ Append(Prune(restarts), 0) \in Seq(Age)
        /\ Append(meter, 0) \in Seq(Age)
    BY <1>a, PruneType
  <2>2. runtime' \in Runtime
    BY <1>23, <1>a, <1>b, RuntimeUpdate DEF ExitCrashes, LetGo
  <2> QED BY <1>23, <2>1, <2>2 DEF ExitCrashes, AutoRestart, LetGo, LimitReached, exitUnchanged, userVars,
             Abandons, ForgetTree, TypeOK, RootStatus, MemberStatus, Age
<1>24. CASE ExitStops
  <2>1. runtime' \in Runtime
    BY <1>24, <1>a, <1>b, RuntimeUpdate DEF ExitStops, LetGo
  <2> QED BY <1>24, <2>1 DEF ExitStops, AutoRestart, LetGo, exitUnchanged, userVars, Abandons,
             ForgetTree, TypeOK, RootStatus, MemberStatus
<1>25. CASE StartDue
  <2>1. runtime' \in Runtime
    BY <1>25, <1>a, <1>b, RuntimeUpdate DEF StartDue, Held
  <2> QED BY <1>25, <2>1 DEF StartDue, userVars, treeVars, Held, TypeOK, NotScheduled
<1>26. CASE StartNotDue
  BY <1>26 DEF StartNotDue, stopUnchanged, userVars, treeVars, Held, TypeOK
<1>27. CASE SpawnFails
  BY <1>27 DEF SpawnFails, startUnchanged, userVars, treeVars, TypeOK
<1>28. ASSUME NEW p \in Pids, Spawn(p)
       PROVE  TypeOK'
  BY <1>28 DEF Spawn, startUnchanged, userVars, TypeOK, RootStatus
<1>29. CASE AttachSucceeds
  <2>1. runtime' \in Runtime
    BY <1>29, <1>a, <1>b, RuntimeUpdate DEF AttachSucceeds
  <2> QED BY <1>29, <2>1 DEF AttachSucceeds, startUnchanged, userVars, treeVars, TypeOK
<1>30. ASSUME NEW forced \in BOOLEAN, NEW killed \in BOOLEAN, AttachFails(forced, killed)
       PROVE  TypeOK'
  BY <1>30 DEF AttachFails, startUnchanged, userVars, Abandons, ForgetTree, Killed, TypeOK,
     RootStatus, MemberStatus
<1>31. CASE StartRetries
  <2>1. /\ Prune(restarts) \in Seq(Age) /\ Append(Prune(restarts), 0) \in Seq(Age)
        /\ Append(meter, 0) \in Seq(Age)
    BY <1>a, PruneType
  <2>2. runtime' \in Runtime
    BY <1>31, <1>a, <1>b, RuntimeUpdate, BumpType DEF StartRetries
  <2> QED BY <1>31, <2>1, <2>2 DEF StartRetries, ScheduleRestart, userVars, treeVars, TypeOK, Age
<1>32. CASE StartGivesUp
  <2>1. /\ Prune(restarts) \in Seq(Age) /\ Append(Prune(restarts), 0) \in Seq(Age)
        /\ Append(meter, 0) \in Seq(Age)
    BY <1>a, PruneType
  <2>2. runtime' \in Runtime
    BY <1>32, <1>a, <1>b, RuntimeUpdate DEF StartGivesUp
  <2> QED BY <1>32, <2>1, <2>2 DEF StartGivesUp, LimitReached, userVars, treeVars, TypeOK, Age
<1>33. ASSUME NEW control \in Requests, Request(control)
       PROVE  TypeOK'
  BY <1>33 DEF Request, workerVars, treeVars, TypeOK, Control
<1>34. CASE Shutdown
  BY <1>34 DEF Shutdown, workerVars, treeVars, TypeOK, Control
<1>35. CASE DropSender
  BY <1>35 DEF DropSender, workerVars, treeVars, TypeOK
<1>36. CASE RootExits
  BY <1>36 DEF RootExits, treeUnchanged, userVars, workerVars, TypeOK, RootStatus
<1>37. CASE RootEscapes
  BY <1>37 DEF RootEscapes, treeUnchanged, userVars, workerVars, TypeOK
<1>38. CASE MemberForks
  BY <1>38 DEF MemberForks, treeUnchanged, userVars, workerVars, TypeOK, MemberStatus
<1>39. CASE MembersExit
  BY <1>39 DEF MembersExit, treeUnchanged, userVars, workerVars, TypeOK, MemberStatus
<1>40. CASE LeftoverExits
  <2>1. /\ leftover' \in BOOLEAN
        /\ UNCHANGED <<config, userVars, workerVars, rootPid, stopFailed, cause, meter>>
        /\ UNCHANGED <<root, escaped, members>>
    BY <1>40 DEF LeftoverExits, treeUnchanged
  <2> QED BY <2>1 DEF userVars, workerVars, TypeOK
<1>41. CASE Tick
  <2>1. /\ restarts' \in Seq(Age) /\ meter' \in Seq(Age)
    BY <1>41, <1>a, AgedProperties, PruneType DEF Tick
  <2>2. nextStart' \in {NotScheduled} \cup 0..RestartDelay
    BY <1>41 DEF Tick, TypeOK, Due, NotScheduled
  <2>3. UNCHANGED <<config, userVars, pc, exiting, desired, runtime, treeVars, cause>>
    BY <1>41 DEF Tick
  <2> QED BY <2>1, <2>2, <2>3 DEF userVars, treeVars, TypeOK, Age
<1>42. CASE UNCHANGED vars
  BY <1>42 DEF vars, userVars, workerVars, treeVars, TypeOK
<1> QED
  BY <1>1, <1>2, <1>3, <1>4, <1>5, <1>6, <1>7, <1>8, <1>9, <1>10, <1>11, <1>12, <1>13,
       <1>14, <1>15, <1>16, <1>17, <1>18, <1>19, <1>20, <1>21, <1>22, <1>23, <1>24,
       <1>25, <1>26, <1>27, <1>28, <1>29, <1>30, <1>31, <1>32, <1>33, <1>34, <1>35,
       <1>36, <1>37, <1>38, <1>39, <1>40, <1>41, <1>42
    DEF Next, Worker, StopProcess, Poll, StartProcess, User, System

\* The state of the worker, its queue, its tree and its clock has its type throughout.
THEOREM TypeCorrect == Spec => []TypeOK
BY TypeInit, TypeStep, PTL DEF Spec

-----------------------------------------------------------------------------
(* What a snapshot shows *)

LEMMA SnapshotStep ==
    ASSUME TypeOK, ControlInv, [Next]_vars
    PROVE  SnapshotInv'
<1> USE DEF ControlInv
<1>a. runtime \in [state : ToolState, pid : Pids \cup {NoPid}, restart_count : 0..CountCap]
  BY DEF TypeOK, Runtime
<1> USE PidAssumption DEF BetweenOps, Stopping, Exiting, Launching
<1>1. CASE RecvStart
  BY <1>1, <1>a DEF RecvStart, Receive, treeVars, SnapshotInv, Held
<1>2. CASE RecvStop
  BY <1>2, <1>a DEF RecvStop, Receive, treeVars, SnapshotInv, Held
<1>3. CASE RecvRestart
  BY <1>3, <1>a DEF RecvRestart, Receive, treeVars, SnapshotInv, Held
<1>4. CASE RecvShutdown
  BY <1>4, <1>a DEF RecvShutdown, Receive, treeVars, SnapshotInv, Held
<1>5. CASE RecvDisconnected
  BY <1>5, <1>a DEF RecvDisconnected, treeVars, SnapshotInv, Held
<1>6. CASE RecvTimeout
  BY <1>6, <1>a DEF RecvTimeout, treeVars, SnapshotInv, Held
<1>7. CASE StopNothing
  BY <1>7, <1>a DEF StopNothing, stopUnchanged, treeVars, SnapshotInv, Held, AfterStop
<1>8. ASSUME NEW ok \in BOOLEAN, StopRequest(ok)
      PROVE  SnapshotInv'
  BY <1>8, <1>a DEF StopRequest, stopUnchanged, treeVars, SnapshotInv, Held
<1>9. CASE AwaitReap
  BY <1>9, <1>a DEF AwaitReap, stopUnchanged, SnapshotInv, Held
<1>10. CASE AwaitOver
  BY <1>10, <1>a DEF AwaitOver, stopUnchanged, treeVars, SnapshotInv, Held
<1>11. CASE ForceNotNeeded
  BY <1>11, <1>a DEF ForceNotNeeded, stopUnchanged, SnapshotInv, Held
<1>12. ASSUME NEW ok \in BOOLEAN, ForceStop(ok)
       PROVE  SnapshotInv'
  BY <1>12, <1>a DEF ForceStop, stopUnchanged, SnapshotInv, Held
<1>13. CASE FirstWait
  BY <1>13, <1>a DEF FirstWait, stopUnchanged, SnapshotInv, Held
<1>14. ASSUME NEW ok \in BOOLEAN, KillRoot(ok)
       PROVE  SnapshotInv'
  BY <1>14, <1>a DEF KillRoot, stopUnchanged, SnapshotInv, Held
<1>15. CASE Settle
  BY <1>15, <1>a DEF Settle, stopUnchanged, ForgetTree, SnapshotInv, Held, AfterStop
<1>16. CASE PollGoesOn
  BY <1>16, <1>a DEF PollGoesOn, stopUnchanged, treeVars, SnapshotInv, Held
<1>17. CASE PollReaps
  BY <1>17, <1>a DEF PollReaps, stopUnchanged, SnapshotInv, TreeInv, Held
<1>18. CASE RemainsNothing
  BY <1>18, <1>a DEF RemainsNothing, stopUnchanged, treeVars, SnapshotInv, Held
<1>19. ASSUME NEW ok \in BOOLEAN, RemainsRequest(ok)
       PROVE  SnapshotInv'
  BY <1>19, <1>a DEF RemainsRequest, stopUnchanged, treeVars, SnapshotInv, Held
<1>20. CASE RemainsWait
  BY <1>20, <1>a DEF RemainsWait, stopUnchanged, treeVars, SnapshotInv, Held
<1>21. ASSUME NEW ok \in BOOLEAN, RemainsForce(ok)
       PROVE  SnapshotInv'
  BY <1>21, <1>a DEF RemainsForce, stopUnchanged, SnapshotInv, Held
<1>22. CASE ExitRestarts
  BY <1>22, <1>a DEF ExitRestarts, LetGo, exitUnchanged, ForgetTree, SnapshotInv, Held
<1>23. CASE ExitCrashes
  BY <1>23, <1>a DEF ExitCrashes, LetGo, exitUnchanged, ForgetTree, SnapshotInv, Held
<1>24. CASE ExitStops
  BY <1>24, <1>a DEF ExitStops, LetGo, exitUnchanged, ForgetTree, SnapshotInv, Held
<1>25. CASE StartDue
  BY <1>25, <1>a DEF StartDue, treeVars, SnapshotInv, Held
<1>26. CASE StartNotDue
  BY <1>26, <1>a DEF StartNotDue, stopUnchanged, treeVars, SnapshotInv, Held
<1>27. CASE SpawnFails
  BY <1>27, <1>a DEF SpawnFails, startUnchanged, treeVars, SnapshotInv, Held
<1>28. ASSUME NEW p \in Pids, Spawn(p)
       PROVE  SnapshotInv'
  BY <1>28, <1>a DEF Spawn, startUnchanged, SnapshotInv, Held
<1>29. CASE AttachSucceeds
  BY <1>29, <1>a DEF AttachSucceeds, startUnchanged, treeVars, SnapshotInv, Held
<1>30. ASSUME NEW forced \in BOOLEAN, NEW killed \in BOOLEAN, AttachFails(forced, killed)
       PROVE  SnapshotInv'
  BY <1>30, <1>a DEF AttachFails, startUnchanged, ForgetTree, SnapshotInv, Held
<1>31. CASE StartRetries
  BY <1>31, <1>a DEF StartRetries, treeVars, SnapshotInv, Held
<1>32. CASE StartGivesUp
  BY <1>32, <1>a DEF StartGivesUp, treeVars, SnapshotInv, Held
<1>33. CASE User \/ System \/ Tick
  <2>1. UNCHANGED <<pc, runtime, rootPid>>
    BY <1>33 DEF User, System, Tick, Request, Shutdown, DropSender, RootExits, RootEscapes, MemberForks,
       MembersExit, LeftoverExits, treeUnchanged, workerVars, treeVars
  <2> QED BY <2>1 DEF SnapshotInv, Held
<1>34. CASE UNCHANGED vars
  BY <1>34 DEF vars, userVars, workerVars, treeVars, SnapshotInv, Held
<1> QED
  BY <1>1, <1>2, <1>3, <1>4, <1>5, <1>6, <1>7, <1>8, <1>9, <1>10, <1>11, <1>12, <1>13,
     <1>14, <1>15, <1>16, <1>17, <1>18, <1>19, <1>20, <1>21, <1>22, <1>23, <1>24, <1>25,
     <1>26, <1>27, <1>28, <1>29, <1>30, <1>31, <1>32, <1>33, <1>34
     DEF Next, Worker, StopProcess, Poll, StartProcess

-----------------------------------------------------------------------------
(* What the worker means to do *)

LEMMA IntentStep ==
    ASSUME TypeOK, ControlInv, [Next]_vars
    PROVE  IntentInv'
<1>a. /\ runtime \in [state : ToolState, pid : Pids \cup {NoPid}, restart_count : 0..CountCap]
      /\ nextStart \in {NotScheduled} \cup 0..RestartDelay
  BY DEF TypeOK, Runtime
<1> USE PidAssumption, LimiterAssumption
    DEF ControlInv, BetweenOps, Stopping, Exiting, Launching, NotScheduled, Due
<1>1. CASE RecvStart
  <2>1. /\ pc = "recv" /\ pc' = "poll" /\ desired' = TRUE /\ nextStart' = 0
        /\ UNCHANGED <<config, exiting, rootPid>>
    BY <1>1 DEF RecvStart, Receive, treeVars
  <2>2. runtime'.state = runtime.state
    BY <1>1, <1>a DEF RecvStart
  <2>3. ~Held => cause' = "user"
    BY <1>1 DEF RecvStart, TreeInv
  <2>4. ~exiting /\ (Held => runtime.state = "Running")
    BY <2>1, <1>a DEF IntentInv, SnapshotInv
  <2> QED BY <2>1, <2>2, <2>3, <2>4 DEF IntentInv, Held
<1>2. CASE RecvStop
  BY <1>2, <1>a DEF RecvStop, IntentInv
<1>3. CASE RecvRestart
  BY <1>3, <1>a DEF RecvRestart, Held, IntentInv
<1>4. CASE RecvShutdown
  BY <1>4, <1>a DEF RecvShutdown, IntentInv
<1>5. CASE RecvDisconnected
  BY <1>5, <1>a DEF RecvDisconnected, IntentInv
<1>6. CASE RecvTimeout
  BY <1>6, <1>a DEF RecvTimeout, IntentInv, treeVars, Held
<1>7. CASE StopNothing
  BY <1>7, <1>a DEF StopNothing, stopUnchanged, Held, AfterStop, IntentInv, SnapshotInv, treeVars
<1>8. ASSUME NEW ok \in BOOLEAN, StopRequest(ok)
      PROVE  IntentInv'
  BY <1>8, <1>a DEF StopRequest, stopUnchanged, Held, IntentInv
<1>9. CASE AwaitReap
  BY <1>9, <1>a DEF AwaitReap, stopUnchanged, IntentInv
<1>10. CASE AwaitOver
  BY <1>10, <1>a DEF AwaitOver, stopUnchanged, IntentInv
<1>11. CASE ForceNotNeeded
  BY <1>11, <1>a DEF ForceNotNeeded, stopUnchanged, IntentInv
<1>12. ASSUME NEW ok \in BOOLEAN, ForceStop(ok)
       PROVE  IntentInv'
  BY <1>12, <1>a DEF ForceStop, stopUnchanged, IntentInv
<1>13. CASE FirstWait
  BY <1>13, <1>a DEF FirstWait, stopUnchanged, IntentInv
<1>14. ASSUME NEW ok \in BOOLEAN, KillRoot(ok)
       PROVE  IntentInv'
  BY <1>14, <1>a DEF KillRoot, stopUnchanged, IntentInv
<1>15. CASE Settle
  BY <1>15, <1>a DEF Settle, stopUnchanged, AfterStop, IntentInv, ForgetTree
<1>16. CASE PollGoesOn
  BY <1>16, <1>a DEF PollGoesOn, stopUnchanged, IntentInv, treeVars, Held
<1>17. CASE PollReaps
  BY <1>17, <1>a DEF PollReaps, stopUnchanged, IntentInv, SnapshotInv, TreeInv
<1>18. CASE RemainsNothing
  BY <1>18, <1>a DEF RemainsNothing, stopUnchanged, IntentInv
<1>19. ASSUME NEW ok \in BOOLEAN, RemainsRequest(ok)
       PROVE  IntentInv'
  BY <1>19, <1>a DEF RemainsRequest, stopUnchanged, IntentInv
<1>20. CASE RemainsWait
  BY <1>20, <1>a DEF RemainsWait, stopUnchanged, IntentInv
<1>21. ASSUME NEW ok \in BOOLEAN, RemainsForce(ok)
       PROVE  IntentInv'
  BY <1>21, <1>a DEF RemainsForce, stopUnchanged, IntentInv
<1>22. CASE ExitRestarts
  BY <1>22, <1>a DEF ExitRestarts, AutoRestart, LetGo, ScheduleRestart, exitUnchanged, IntentInv,
     SnapshotInv
<1>23. CASE ExitCrashes
  BY <1>23, <1>a DEF ExitCrashes, AutoRestart, LetGo, LimitReached, exitUnchanged, IntentInv,
     SnapshotInv
<1>24. CASE ExitStops
  BY <1>24, <1>a DEF ExitStops, AutoRestart, LetGo, exitUnchanged, IntentInv, SnapshotInv, Held,
     ForgetTree
<1>25. CASE StartDue
  BY <1>25, <1>a DEF StartDue, Held, IntentInv, Held
<1>26. CASE StartNotDue
  BY <1>26, <1>a DEF StartNotDue, stopUnchanged, Held, IntentInv, treeVars, SnapshotInv
<1>27. CASE SpawnFails
  BY <1>27, <1>a DEF SpawnFails, startUnchanged, IntentInv
<1>28. ASSUME NEW p \in Pids, Spawn(p)
       PROVE  IntentInv'
  BY <1>28, <1>a DEF Spawn, startUnchanged, IntentInv
<1>29. CASE AttachSucceeds
  BY <1>29, <1>a DEF AttachSucceeds, startUnchanged, IntentInv, SnapshotInv, Held, treeVars
<1>30. ASSUME NEW forced \in BOOLEAN, NEW killed \in BOOLEAN, AttachFails(forced, killed)
       PROVE  IntentInv'
  BY <1>30, <1>a DEF AttachFails, startUnchanged, IntentInv
<1>31. CASE StartRetries
  BY <1>31, <1>a DEF StartRetries, ScheduleRestart, IntentInv, treeVars, SnapshotInv, Held
<1>32. CASE StartGivesUp
  BY <1>32, <1>a DEF StartGivesUp, LimitReached, IntentInv, treeVars, SnapshotInv, Held
<1>33. CASE User \/ System \/ Tick
  <2>1. UNCHANGED <<config, pc, exiting, desired, runtime, rootPid, cause>>
    BY <1>33 DEF User, System, Tick, Request, Shutdown, DropSender, RootExits, RootEscapes, MemberForks,
       MembersExit, LeftoverExits, treeUnchanged, workerVars, treeVars
  <2>2. CASE UNCHANGED nextStart
    BY <2>1, <2>2 DEF IntentInv, Held
  <2>3. CASE Tick
    <3>1. nextStart' = IF nextStart > 0 THEN nextStart - 1 ELSE nextStart
      BY <2>3 DEF Tick
    <3>2. /\ nextStart' = -1 <=> nextStart = -1
          /\ nextStart = 0 => nextStart' = 0
      BY <1>a, <3>1
    <3> QED BY <2>1, <3>2 DEF IntentInv, Held
  <2> QED
    BY <1>33, <2>2, <2>3 DEF User, System, Request, Shutdown, DropSender, RootExits, RootEscapes,
       MemberForks, MembersExit, LeftoverExits, treeUnchanged, workerVars
<1>34. CASE UNCHANGED vars
  BY <1>34 DEF vars, workerVars, treeVars, IntentInv, Held
<1> QED
  BY <1>1, <1>2, <1>3, <1>4, <1>5, <1>6, <1>7, <1>8, <1>9, <1>10, <1>11, <1>12, <1>13,
     <1>14, <1>15, <1>16, <1>17, <1>18, <1>19, <1>20, <1>21, <1>22, <1>23, <1>24, <1>25,
     <1>26, <1>27, <1>28, <1>29, <1>30, <1>31, <1>32, <1>33, <1>34
     DEF Next, Worker, StopProcess, Poll, StartProcess

-----------------------------------------------------------------------------
(* What the tree can leave behind *)

LEMMA TreeStep ==
    ASSUME TypeOK, ControlInv, [Next]_vars
    PROVE  TreeInv'
<1>a. /\ root \in RootStatus /\ members \in MemberStatus /\ leftover \in BOOLEAN
      /\ stopFailed \in BOOLEAN
  BY DEF TypeOK
<1> USE PidAssumption
    DEF ControlInv, BetweenOps, Stopping, Exiting, Launching, Held, RootStatus, MemberStatus
<1>1. CASE RecvStart
  BY <1>1, <1>a DEF RecvStart, treeVars, TreeInv
<1>2. CASE RecvStop
  BY <1>2, <1>a DEF RecvStop, treeVars, TreeInv
<1>3. CASE RecvRestart
  BY <1>3, <1>a DEF RecvRestart, treeVars, TreeInv
<1>4. CASE RecvShutdown
  BY <1>4, <1>a DEF RecvShutdown, treeVars, TreeInv
<1>5. CASE RecvDisconnected
  BY <1>5, <1>a DEF RecvDisconnected, treeVars, TreeInv
<1>6. CASE RecvTimeout
  BY <1>6, <1>a DEF RecvTimeout, treeVars, TreeInv
<1>7. CASE StopNothing
  BY <1>7, <1>a DEF StopNothing, stopUnchanged, treeVars, TreeInv, AfterStop
<1>8. ASSUME NEW ok \in BOOLEAN, StopRequest(ok)
      PROVE  TreeInv'
  BY <1>8, <1>a DEF StopRequest, stopUnchanged, treeVars, TreeInv
<1>9. CASE AwaitReap
  BY <1>9, <1>a DEF AwaitReap, stopUnchanged, TreeInv
<1>10. CASE AwaitOver
  BY <1>10, <1>a DEF AwaitOver, stopUnchanged, treeVars, TreeInv
<1>11. CASE ForceNotNeeded
  BY <1>11, <1>a DEF ForceNotNeeded, stopUnchanged, Reaped, TreeInv
<1>12. ASSUME NEW ok \in BOOLEAN, ForceStop(ok)
       PROVE  TreeInv'
  BY <1>12, <1>a DEF ForceStop, stopUnchanged, Reaped, Killed, TreeInv
<1>13. CASE FirstWait
  BY <1>13, <1>a DEF FirstWait, stopUnchanged, TreeInv
<1>14. ASSUME NEW ok \in BOOLEAN, KillRoot(ok)
       PROVE  TreeInv'
  BY <1>14, <1>a DEF KillRoot, stopUnchanged, Reaped, Killed, TreeInv
<1>15. CASE Settle
  BY <1>15, <1>a DEF Settle, stopUnchanged, Abandons, ForgetTree, TreeInv, AfterStop
<1>16. CASE PollGoesOn
  BY <1>16, <1>a DEF PollGoesOn, stopUnchanged, treeVars, TreeInv
<1>17. CASE PollReaps
  BY <1>17, <1>a DEF PollReaps, stopUnchanged, TreeInv, SnapshotInv
<1>18. CASE RemainsNothing
  BY <1>18, <1>a DEF RemainsNothing, stopUnchanged, treeVars, TreeInv
<1>19. ASSUME NEW ok \in BOOLEAN, RemainsRequest(ok)
       PROVE  TreeInv'
  BY <1>19, <1>a DEF RemainsRequest, stopUnchanged, treeVars, TreeInv
<1>20. CASE RemainsWait
  BY <1>20, <1>a DEF RemainsWait, stopUnchanged, treeVars, TreeInv
<1>21. ASSUME NEW ok \in BOOLEAN, RemainsForce(ok)
       PROVE  TreeInv'
  BY <1>21, <1>a DEF RemainsForce, stopUnchanged, Killed, TreeInv
<1>22. CASE ExitRestarts
  BY <1>22, <1>a DEF ExitRestarts, LetGo, exitUnchanged, Abandons, ForgetTree, TreeInv
<1>23. CASE ExitCrashes
  BY <1>23, <1>a DEF ExitCrashes, LetGo, exitUnchanged, Abandons, ForgetTree, TreeInv
<1>24. CASE ExitStops
  BY <1>24, <1>a DEF ExitStops, LetGo, exitUnchanged, Abandons, ForgetTree, TreeInv
<1>25. CASE StartDue
  BY <1>25, <1>a DEF StartDue, treeVars, TreeInv
<1>26. CASE StartNotDue
  BY <1>26, <1>a DEF StartNotDue, stopUnchanged, treeVars, TreeInv
<1>27. CASE SpawnFails
  BY <1>27, <1>a DEF SpawnFails, startUnchanged, treeVars, TreeInv
<1>28. ASSUME NEW p \in Pids, Spawn(p)
       PROVE  TreeInv'
  BY <1>28, <1>a DEF Spawn, startUnchanged, TreeInv, SnapshotInv
<1>29. CASE AttachSucceeds
  BY <1>29, <1>a DEF AttachSucceeds, startUnchanged, treeVars, TreeInv, SnapshotInv
<1>30. ASSUME NEW forced \in BOOLEAN, NEW killed \in BOOLEAN, AttachFails(forced, killed)
       PROVE  TreeInv'
  BY <1>30, <1>a DEF AttachFails, startUnchanged, Abandons, ForgetTree, Killed, TreeInv
<1>31. CASE StartRetries
  BY <1>31, <1>a DEF StartRetries, treeVars, TreeInv
<1>32. CASE StartGivesUp
  BY <1>32, <1>a DEF StartGivesUp, treeVars, TreeInv
<1>33. CASE User \/ System \/ Tick
  <2>1. CASE User \/ Tick
    <3>1. UNCHANGED <<pc, root, escaped, members, rootPid, leftover, stopFailed>>
      BY <2>1 DEF User, Tick, Request, Shutdown, DropSender, workerVars, treeVars
    <3> QED BY <3>1 DEF TreeInv
  <2>2. CASE RootExits
    BY <1>a, <2>2 DEF RootExits, treeUnchanged, workerVars, TreeInv
  <2>3. CASE RootEscapes
    BY <1>a, <2>3 DEF RootEscapes, treeUnchanged, workerVars, TreeInv
  <2>4. CASE MemberForks
    BY <1>a, <2>4 DEF MemberForks, treeUnchanged, workerVars, TreeInv
  <2>5. CASE MembersExit
    BY <1>a, <2>5 DEF MembersExit, treeUnchanged, workerVars, TreeInv
  <2>6. CASE LeftoverExits
    BY <1>a, <2>6 DEF LeftoverExits, treeUnchanged, workerVars, TreeInv
  <2> QED BY <1>33, <2>1, <2>2, <2>3, <2>4, <2>5, <2>6 DEF System
<1>34. CASE UNCHANGED vars
  BY <1>34 DEF vars, workerVars, treeVars, TreeInv
<1> QED
  BY <1>1, <1>2, <1>3, <1>4, <1>5, <1>6, <1>7, <1>8, <1>9, <1>10, <1>11, <1>12, <1>13,
     <1>14, <1>15, <1>16, <1>17, <1>18, <1>19, <1>20, <1>21, <1>22, <1>23, <1>24, <1>25,
     <1>26, <1>27, <1>28, <1>29, <1>30, <1>31, <1>32, <1>33, <1>34
     DEF Next, Worker, StopProcess, Poll, StartProcess

-----------------------------------------------------------------------------
(* What the limiter remembers *)

LEMMA LimiterKept ==
    ASSUME LimiterInv, TypeOK, TypeOK', UNCHANGED <<restarts, meter>>,
           runtime.restart_count <= runtime'.restart_count
    PROVE  LimiterInv'
<1>1. /\ runtime.restart_count \in Nat /\ runtime'.restart_count \in Nat
      /\ Len(restarts) \in Nat
  BY BoundAssumption DEF TypeOK, Runtime
<1> QED BY <1>1 DEF LimiterInv

LEMMA LimiterPruned ==
    ASSUME LimiterInv, TypeOK
    PROVE  /\ Sorted(Prune(restarts)) /\ TailOf(meter, Prune(restarts))
           /\ Prune(restarts) \in Seq(Age) /\ meter \in Seq(Age)
           /\ Len(Prune(restarts)) \in Nat /\ Len(Prune(restarts)) <= Len(restarts)
<1>1. restarts \in Seq(Age) /\ meter \in Seq(Age)
  BY DEF TypeOK, Age
<1>2. Sorted(Prune(restarts)) /\ TailOf(meter, Prune(restarts))
  BY <1>1, PruneKeepsOrder, PruneKeepsFreshTail DEF LimiterInv
<1>3. /\ Prune(restarts) \in Seq(Age) /\ Len(Prune(restarts)) = Len(restarts) - Expired(restarts)
      /\ Expired(restarts) \in 0..Len(restarts)
  BY <1>1, PruneProperties, ExpiredProperties
<1> QED BY <1>1, <1>2, <1>3, LenProperties

\* The limiter is full: nothing is remembered that was not remembered before.
LEMMA LimiterShrinks ==
    ASSUME LimiterInv, TypeOK, restarts' = Prune(restarts), UNCHANGED meter,
           runtime'.restart_count = runtime.restart_count
    PROVE  LimiterInv'
<1>1. /\ Len(restarts) \in Nat /\ runtime.restart_count \in Nat
  BY BoundAssumption DEF TypeOK, Runtime
<1>2. Len(restarts') <= MaxRestartCount /\ Len(restarts') <= runtime'.restart_count
  BY <1>1, LimiterPruned, LimiterAssumption DEF LimiterInv
<1>3. Sorted(restarts') /\ TailOf(meter', restarts')
  BY LimiterPruned
<1>4. \A i \in 1..Len(meter') : ~Stale(meter'[i])
  BY DEF LimiterInv
<1> QED BY <1>2, <1>3, <1>4 DEF LimiterInv

\* The limiter has room: one restart more is remembered and counted.
LEMMA LimiterGrows ==
    ASSUME LimiterInv, TypeOK, Len(Prune(restarts)) < MaxRestartCount,
           restarts' = Append(Prune(restarts), 0), meter' = Append(meter, 0),
           runtime'.restart_count = Bump(runtime.restart_count)
    PROVE  LimiterInv'
<1>1. /\ Prune(restarts) \in Seq(Age) /\ meter \in Seq(Age) /\ 0 \in Age
      /\ Len(Prune(restarts)) \in Nat /\ Len(restarts) \in Nat /\ Len(meter) \in Nat
      /\ Len(Prune(restarts)) <= Len(restarts)
  BY LimiterPruned, LimiterAssumption, LenProperties DEF Age, TypeOK
<1>2. Len(restarts') = Len(Prune(restarts)) + 1
  BY <1>1, AppendProperties
<1>3. Len(restarts') <= MaxRestartCount
  BY <1>1, <1>2, LimiterAssumption
<1>4. Len(restarts') <= runtime'.restart_count
  <2>1. runtime.restart_count \in 0..CountCap
    BY DEF TypeOK, Runtime
  <2>2. Len(restarts) <= runtime.restart_count
    BY DEF LimiterInv
  <2> QED BY <1>1, <1>2, <1>3, <2>1, <2>2, BoundAssumption, LimiterAssumption DEF Bump
<1>5. Sorted(restarts')
  BY <1>1, LimiterPruned, AppendKeepsOrder
<1>6. TailOf(meter', restarts')
  BY <1>1, LimiterPruned, AppendKeepsTail
<1>7. ASSUME NEW i \in 1..Len(meter')
      PROVE  ~Stale(meter'[i])
  <2>1. Len(meter') = Len(meter) + 1
    BY <1>1, AppendProperties
  <2>2. CASE i = Len(meter) + 1
    BY <1>1, <2>2, AppendProperties, LimiterAssumption DEF Stale
  <2>3. CASE i \in 1..Len(meter)
    BY <1>1, <2>3, AppendProperties DEF LimiterInv
  <2> QED BY <1>1, <2>1, <2>2, <2>3
<1> QED BY <1>3, <1>4, <1>5, <1>6, <1>7 DEF LimiterInv

LEMMA LimiterStep ==
    ASSUME TypeOK, TypeOK', LimiterInv, [Next]_vars
    PROVE  LimiterInv'
<1>a. runtime \in [state : ToolState, pid : Pids \cup {NoPid}, restart_count : 0..CountCap]
  BY DEF TypeOK, Runtime
<1>b. runtime.restart_count <= runtime.restart_count
  BY <1>a, BoundAssumption
<1>c. runtime.restart_count <= Bump(runtime.restart_count)
  BY <1>a, BoundAssumption DEF Bump
<1>1. CASE RecvStart
  <2>1. CASE Held
    <3>1. UNCHANGED <<restarts, runtime, meter>>
      BY <1>1, <2>1 DEF RecvStart
    <3> QED BY <1>b, <3>1, LimiterKept
  <2>2. CASE ~Held
    <3>1. restarts' = <<>> /\ meter' = <<>>
      BY <1>1, <2>2 DEF RecvStart
    <3>2. runtime'.restart_count \in Nat
      BY BoundAssumption DEF TypeOK, Runtime
    <3>3. Len(restarts') = 0 /\ Len(meter') = 0
      BY <3>1
    <3> QED BY <3>2, <3>3, LimiterAssumption DEF LimiterInv, Sorted, TailOf
  <2> QED BY <2>1, <2>2
<1>2. CASE RecvRestart
  <2>1. UNCHANGED <<restarts, meter>> /\ runtime.restart_count <= runtime'.restart_count
    BY <1>2, <1>a, <1>b, <1>c DEF RecvRestart
  <2> QED BY <2>1, LimiterKept
<1>3. CASE ExitRestarts
  <2>1. /\ Len(Prune(restarts)) < MaxRestartCount
        /\ restarts' = Append(Prune(restarts), 0) /\ meter' = Append(meter, 0)
    BY <1>3 DEF ExitRestarts, ScheduleRestart
  <2>2. runtime'.restart_count = Bump(runtime.restart_count)
    BY <1>3 DEF ExitRestarts
  <2> QED BY <2>1, <2>2, LimiterGrows
<1>4. CASE StartRetries
  <2>1. /\ Len(Prune(restarts)) < MaxRestartCount
        /\ restarts' = Append(Prune(restarts), 0) /\ meter' = Append(meter, 0)
    BY <1>4 DEF StartRetries, ScheduleRestart
  <2>2. runtime'.restart_count = Bump(runtime.restart_count)
    BY <1>4, <1>a DEF StartRetries
  <2> QED BY <2>1, <2>2, LimiterGrows
<1>5. CASE ExitCrashes
  <2>1. restarts' = Prune(restarts) /\ UNCHANGED meter
    BY <1>5 DEF ExitCrashes, LimitReached
  <2>2. runtime'.restart_count = runtime.restart_count
    BY <1>5, <1>a DEF ExitCrashes
  <2> QED BY <2>1, <2>2, LimiterShrinks
<1>6. CASE StartGivesUp
  <2>1. runtime'.restart_count = runtime.restart_count
    BY <1>6, <1>a DEF StartGivesUp
  <2>2. CASE config.auto_restart
    <3>1. restarts' = Prune(restarts) /\ UNCHANGED meter
      BY <1>6, <2>2 DEF StartGivesUp, LimitReached
    <3> QED BY <2>1, <3>1, LimiterShrinks
  <2>3. CASE ~config.auto_restart
    <3>1. UNCHANGED <<restarts, meter>>
      BY <1>6, <2>3 DEF StartGivesUp
    <3> QED BY <1>b, <2>1, <3>1, LimiterKept
  <2> QED BY <2>2, <2>3
<1>7. CASE Tick
  <2>1. /\ restarts' = Aged(restarts) /\ meter' = Prune(Aged(meter)) /\ UNCHANGED runtime
    BY <1>7 DEF Tick
  <2>2. /\ restarts \in Seq(Age) /\ meter \in Seq(Age)
        /\ Sorted(restarts) /\ TailOf(meter, restarts)
    BY DEF TypeOK, Age, LimiterInv
  <2>3. /\ Sorted(restarts') /\ TailOf(meter', restarts')
        /\ \A i \in 1..Len(meter') : ~Stale(meter'[i])
    BY <2>1, <2>2, TickKeepsTail
  <2>4. Len(restarts') = Len(restarts)
    BY <2>1, <2>2, AgedProperties
  <2> QED BY <2>1, <2>3, <2>4 DEF LimiterInv
<1>8. CASE /\ UNCHANGED <<restarts, meter>>
           /\ runtime'.restart_count = runtime.restart_count
  BY <1>b, <1>8, LimiterKept
<1>9. ASSUME RecvStop
      PROVE  /\ UNCHANGED <<restarts, meter>>
              /\ runtime'.restart_count = runtime.restart_count
  BY <1>9, <1>a DEF RecvStop
<1>10. ASSUME RecvShutdown
       PROVE  /\ UNCHANGED <<restarts, meter>>
               /\ runtime'.restart_count = runtime.restart_count
  BY <1>10, <1>a DEF RecvShutdown
<1>11. ASSUME RecvDisconnected
       PROVE  /\ UNCHANGED <<restarts, meter>>
               /\ runtime'.restart_count = runtime.restart_count
  BY <1>11, <1>a DEF RecvDisconnected
<1>12. ASSUME RecvTimeout
       PROVE  /\ UNCHANGED <<restarts, meter>>
               /\ runtime'.restart_count = runtime.restart_count
  BY <1>12, <1>a DEF RecvTimeout
<1>13. ASSUME StopNothing
       PROVE  /\ UNCHANGED <<restarts, meter>>
               /\ runtime'.restart_count = runtime.restart_count
  BY <1>13, <1>a DEF StopNothing, stopUnchanged
<1>14. ASSUME NEW ok \in BOOLEAN, StopRequest(ok)
       PROVE  /\ UNCHANGED <<restarts, meter>>
               /\ runtime'.restart_count = runtime.restart_count
  BY <1>14, <1>a DEF StopRequest, stopUnchanged
<1>15. ASSUME AwaitReap
       PROVE  /\ UNCHANGED <<restarts, meter>>
               /\ runtime'.restart_count = runtime.restart_count
  BY <1>15, <1>a DEF AwaitReap, stopUnchanged
<1>16. ASSUME AwaitOver
       PROVE  /\ UNCHANGED <<restarts, meter>>
               /\ runtime'.restart_count = runtime.restart_count
  BY <1>16, <1>a DEF AwaitOver, stopUnchanged
<1>17. ASSUME ForceNotNeeded
       PROVE  /\ UNCHANGED <<restarts, meter>>
               /\ runtime'.restart_count = runtime.restart_count
  BY <1>17, <1>a DEF ForceNotNeeded, stopUnchanged
<1>18. ASSUME NEW ok \in BOOLEAN, ForceStop(ok)
       PROVE  /\ UNCHANGED <<restarts, meter>>
               /\ runtime'.restart_count = runtime.restart_count
  BY <1>18, <1>a DEF ForceStop, stopUnchanged
<1>19. ASSUME FirstWait
       PROVE  /\ UNCHANGED <<restarts, meter>>
               /\ runtime'.restart_count = runtime.restart_count
  BY <1>19, <1>a DEF FirstWait, stopUnchanged
<1>20. ASSUME NEW ok \in BOOLEAN, KillRoot(ok)
       PROVE  /\ UNCHANGED <<restarts, meter>>
               /\ runtime'.restart_count = runtime.restart_count
  BY <1>20, <1>a DEF KillRoot, stopUnchanged
<1>21. ASSUME Settle
       PROVE  /\ UNCHANGED <<restarts, meter>>
               /\ runtime'.restart_count = runtime.restart_count
  BY <1>21, <1>a DEF Settle, stopUnchanged
<1>22. ASSUME PollGoesOn
       PROVE  /\ UNCHANGED <<restarts, meter>>
               /\ runtime'.restart_count = runtime.restart_count
  BY <1>22, <1>a DEF PollGoesOn, stopUnchanged
<1>23. ASSUME PollReaps
       PROVE  /\ UNCHANGED <<restarts, meter>>
               /\ runtime'.restart_count = runtime.restart_count
  BY <1>23, <1>a DEF PollReaps, stopUnchanged
<1>24. ASSUME RemainsNothing
       PROVE  /\ UNCHANGED <<restarts, meter>>
               /\ runtime'.restart_count = runtime.restart_count
  BY <1>24, <1>a DEF RemainsNothing, stopUnchanged
<1>25. ASSUME NEW ok \in BOOLEAN, RemainsRequest(ok)
       PROVE  /\ UNCHANGED <<restarts, meter>>
               /\ runtime'.restart_count = runtime.restart_count
  BY <1>25, <1>a DEF RemainsRequest, stopUnchanged
<1>26. ASSUME RemainsWait
       PROVE  /\ UNCHANGED <<restarts, meter>>
               /\ runtime'.restart_count = runtime.restart_count
  BY <1>26, <1>a DEF RemainsWait, stopUnchanged
<1>27. ASSUME NEW ok \in BOOLEAN, RemainsForce(ok)
       PROVE  /\ UNCHANGED <<restarts, meter>>
               /\ runtime'.restart_count = runtime.restart_count
  BY <1>27, <1>a DEF RemainsForce, stopUnchanged
<1>28. ASSUME ExitStops
       PROVE  /\ UNCHANGED <<restarts, meter>>
               /\ runtime'.restart_count = runtime.restart_count
  BY <1>28, <1>a DEF ExitStops, exitUnchanged
<1>29. ASSUME StartDue
       PROVE  /\ UNCHANGED <<restarts, meter>>
               /\ runtime'.restart_count = runtime.restart_count
  BY <1>29, <1>a DEF StartDue
<1>30. ASSUME StartNotDue
       PROVE  /\ UNCHANGED <<restarts, meter>>
               /\ runtime'.restart_count = runtime.restart_count
  BY <1>30, <1>a DEF StartNotDue, stopUnchanged
<1>31. ASSUME SpawnFails
       PROVE  /\ UNCHANGED <<restarts, meter>>
               /\ runtime'.restart_count = runtime.restart_count
  BY <1>31, <1>a DEF SpawnFails, startUnchanged
<1>32. ASSUME NEW p \in Pids, Spawn(p)
       PROVE  /\ UNCHANGED <<restarts, meter>>
               /\ runtime'.restart_count = runtime.restart_count
  BY <1>32, <1>a DEF Spawn, startUnchanged
<1>33. ASSUME AttachSucceeds
       PROVE  /\ UNCHANGED <<restarts, meter>>
               /\ runtime'.restart_count = runtime.restart_count
  BY <1>33, <1>a DEF AttachSucceeds, startUnchanged
<1>34. ASSUME NEW forced \in BOOLEAN, NEW killed \in BOOLEAN, AttachFails(forced, killed)
       PROVE  /\ UNCHANGED <<restarts, meter>>
               /\ runtime'.restart_count = runtime.restart_count
  BY <1>34, <1>a DEF AttachFails, startUnchanged
<1>35. ASSUME NEW control \in Requests, Request(control)
       PROVE  /\ UNCHANGED <<restarts, meter>>
               /\ runtime'.restart_count = runtime.restart_count
  BY <1>35, <1>a DEF Request, workerVars
<1>36. ASSUME Shutdown
       PROVE  /\ UNCHANGED <<restarts, meter>>
               /\ runtime'.restart_count = runtime.restart_count
  BY <1>36, <1>a DEF Shutdown, workerVars
<1>37. ASSUME DropSender
       PROVE  /\ UNCHANGED <<restarts, meter>>
               /\ runtime'.restart_count = runtime.restart_count
  BY <1>37, <1>a DEF DropSender, workerVars
<1>38. ASSUME RootExits
       PROVE  /\ UNCHANGED <<restarts, meter>>
               /\ runtime'.restart_count = runtime.restart_count
  BY <1>38, <1>a DEF RootExits, treeUnchanged, workerVars
<1>39. ASSUME RootEscapes
       PROVE  /\ UNCHANGED <<restarts, meter>>
               /\ runtime'.restart_count = runtime.restart_count
  BY <1>39, <1>a DEF RootEscapes, treeUnchanged, workerVars
<1>40. ASSUME MemberForks
       PROVE  /\ UNCHANGED <<restarts, meter>>
               /\ runtime'.restart_count = runtime.restart_count
  BY <1>40, <1>a DEF MemberForks, treeUnchanged, workerVars
<1>41. ASSUME MembersExit
       PROVE  /\ UNCHANGED <<restarts, meter>>
               /\ runtime'.restart_count = runtime.restart_count
  BY <1>41, <1>a DEF MembersExit, treeUnchanged, workerVars
<1>42. ASSUME LeftoverExits
       PROVE  /\ UNCHANGED <<restarts, meter>>
               /\ runtime'.restart_count = runtime.restart_count
  BY <1>42, <1>a DEF LeftoverExits, treeUnchanged, workerVars
<1>43. ASSUME UNCHANGED vars
       PROVE  /\ UNCHANGED <<restarts, meter>>
               /\ runtime'.restart_count = runtime.restart_count
  BY <1>43 DEF vars, workerVars
<1> QED
  BY <1>1, <1>2, <1>3, <1>4, <1>5, <1>6, <1>7, <1>8, <1>9, <1>10, <1>11, <1>12, <1>13,
     <1>14, <1>15, <1>16, <1>17, <1>18, <1>19, <1>20, <1>21, <1>22, <1>23, <1>24, <1>25,
     <1>26, <1>27, <1>28, <1>29, <1>30, <1>31, <1>32, <1>33, <1>34, <1>35, <1>36, <1>37,
     <1>38, <1>39, <1>40, <1>41, <1>42, <1>43
     DEF Next, Worker, StopProcess, Poll, StartProcess, User, System

-----------------------------------------------------------------------------
(* The inductive invariant, and what follows from it *)

Inv == TypeOK /\ ControlInv /\ LimiterInv

LEMMA InvInit == Init => Inv
<1> SUFFICES ASSUME Init
             PROVE  Inv
  OBVIOUS
<1>1. SnapshotInv /\ IntentInv /\ TreeInv
  <2>1. /\ pc = "recv" /\ ~exiting /\ ~Held /\ root = "none" /\ members = "none" /\ ~leftover
        /\ runtime.state = "Stopped" /\ runtime.pid = NoPid
        /\ desired => nextStart = 0 /\ cause = "boot"
    BY DEF Init, Held, Due
  <2> QED BY <2>1 DEF SnapshotInv, IntentInv, TreeInv, BetweenOps, Stopping, Exiting,
             Launching, NotScheduled
<1>2. LimiterInv
  <2>1. restarts = <<>> /\ meter = <<>> /\ runtime.restart_count = 0
    BY DEF Init
  <2>2. Len(restarts) = 0 /\ Len(meter) = 0
    BY <2>1
  <2> QED BY <2>1, <2>2, LimiterAssumption DEF LimiterInv, Sorted, TailOf
<1> QED BY <1>1, <1>2, TypeInit DEF Inv, ControlInv

LEMMA InvStep == Inv /\ [Next]_vars => Inv'
<1> SUFFICES ASSUME Inv, [Next]_vars
             PROVE  Inv'
  OBVIOUS
<1>1. TypeOK /\ ControlInv /\ LimiterInv
  BY DEF Inv
<1>2. TypeOK'
  BY <1>1, TypeStep
<1>3. ControlInv'
  <2>1. SnapshotInv' /\ IntentInv' /\ TreeInv'
    BY <1>1, SnapshotStep, IntentStep, TreeStep
  <2> QED BY <2>1 DEF ControlInv
<1>4. LimiterInv'
  BY <1>1, <1>2, LimiterStep
<1> QED BY <1>2, <1>3, <1>4 DEF Inv

LEMMA Invariance == Spec => []Inv
BY InvInit, InvStep, PTL DEF Spec

\* At every point of the worker's code where a reader can take the lock on the runtime
\* record, what the record shows agrees with the process the worker holds.
THEOREM SnapshotIsCorrect == Spec => []SnapshotMatchesProcess
<1>1. Inv => SnapshotMatchesProcess
  <2> SUFFICES ASSUME Inv
               PROVE  SnapshotMatchesProcess
    OBVIOUS
  <2>1. /\ SnapshotInv
        /\ pc \in BetweenOps \cup Stopping \cup Exiting \cup Launching \cup {"stop", "done"}
    BY DEF Inv, ControlInv, TypeOK, BetweenOps, Stopping, Exiting, Launching
  <2> QED BY <2>1, PidAssumption DEF SnapshotInv, SnapshotMatchesProcess, Held, BetweenOps,
             Stopping, Exiting, Launching
<1> QED BY <1>1, Invariance, PTL

\* When the worker waits for a message it has forgotten no launch it owes, whatever mix of
\* requests, exits and failed launches came before.
THEOREM NothingIsForgotten == Spec => []NothingForgotten
<1>1. Inv => NothingForgotten
  BY DEF Inv, ControlInv, IntentInv, NothingForgotten, BetweenOps
<1> QED BY <1>1, Invariance, PTL

\* A tool with auto_restart is launched for a reason: the start of the manager, a user's
\* request or a granted restart, and never after a Stop or after it was given up.
THEOREM StartsAreJustified == Spec => []JustifiedStart
<1>1. Inv => JustifiedStart
  BY DEF Inv, ControlInv, IntentInv, JustifiedStart
<1> QED BY <1>1, Invariance, PTL

\* On none of the paths that let go of a process tree does a process of it run on, unless
\* the operating system refused to stop one.
THEOREM NothingIsLeftOver == Spec => []NoLeftoverUnlessRefused
<1>1. Inv => NoLeftoverUnlessRefused
  BY DEF Inv, ControlInv, TreeInv, NoLeftoverUnlessRefused
<1> QED BY <1>1, Invariance, PTL

\* However exits and failed launches mix, and however the deque is pruned between them, no
\* window of restart_window_seconds holds more than max_restart_count automatic restarts.
THEOREM RestartsAreLimited == Spec => []RateLimit
<1>1. Inv => RateLimit
  <2> SUFFICES ASSUME Inv
               PROVE  RateLimit
    OBVIOUS
  <2>1. /\ Len(meter) <= Len(restarts) /\ Len(restarts) <= MaxRestartCount
        /\ Len(meter) \in Nat /\ Len(restarts) \in Nat
    BY DEF Inv, LimiterInv, TailOf, TypeOK
  <2> QED BY <2>1, LimiterAssumption DEF RateLimit
<1> QED BY <1>1, Invariance, PTL

\* The restart count shown is never below the restarts the limiter still holds.
THEOREM CountIsNotBelowLimiter == Spec => []CountCoversLimiter
<1>1. Inv => CountCoversLimiter
  BY DEF Inv, LimiterInv, CountCoversLimiter
<1> QED BY <1>1, Invariance, PTL

-----------------------------------------------------------------------------
(* The worker implements the lifecycle its readers are promised *)

LEMMA LifecycleStep ==
    ASSUME TypeOK, SnapshotInv, [Next]_vars
    PROVE  [Lifecycle!Next]_Lifecycle!vars
<1>a. /\ runtime \in [state : ToolState, pid : Pids \cup {NoPid}, restart_count : 0..CountCap]
      /\ rootPid \in Pids \cup {NoPid}
  BY DEF TypeOK, Runtime
<1> USE PidAssumption DEF BetweenOps, Stopping, Exiting, Launching
<1>1. ASSUME RecvStart
      PROVE  UNCHANGED Lifecycle!vars
  <2>1. CASE Held
    BY <1>1, <2>1 DEF RecvStart, Lifecycle!vars
  <2>2. CASE ~Held
    BY <1>1, <1>a, <2>2 DEF RecvStart, Lifecycle!vars
  <2> QED BY <2>1, <2>2
<1>2. ASSUME RecvStop
      PROVE  UNCHANGED Lifecycle!vars
  BY <1>2 DEF RecvStop, Lifecycle!vars
<1>3. ASSUME RecvRestart
      PROVE  Lifecycle!AskRestart
  BY <1>3, <1>a DEF RecvRestart, Receive, SnapshotInv, Held, Lifecycle!AskRestart, Lifecycle!AtRest
<1>4. ASSUME RecvShutdown
      PROVE  UNCHANGED Lifecycle!vars
  BY <1>4 DEF RecvShutdown, Lifecycle!vars
<1>5. ASSUME RecvDisconnected
      PROVE  UNCHANGED Lifecycle!vars
  BY <1>5 DEF RecvDisconnected, Lifecycle!vars
<1>6. ASSUME RecvTimeout
      PROVE  UNCHANGED Lifecycle!vars
  BY <1>6 DEF RecvTimeout, Lifecycle!vars
<1>7. ASSUME StopNothing
      PROVE  Lifecycle!ClearState
  BY <1>7, <1>a DEF StopNothing, SnapshotInv, Held, Lifecycle!ClearState, Lifecycle!AtRest
<1>8. ASSUME NEW ok \in BOOLEAN, StopRequest(ok)
      PROVE  Lifecycle!BeginStop
  BY <1>8, <1>a DEF StopRequest, Held, SnapshotInv, Lifecycle!BeginStop
<1>9. ASSUME AwaitReap
      PROVE  UNCHANGED Lifecycle!vars
  BY <1>9 DEF AwaitReap, Lifecycle!vars
<1>10. ASSUME AwaitOver
       PROVE  UNCHANGED Lifecycle!vars
  BY <1>10 DEF AwaitOver, Lifecycle!vars
<1>11. ASSUME ForceNotNeeded
       PROVE  UNCHANGED Lifecycle!vars
  BY <1>11 DEF ForceNotNeeded, Lifecycle!vars
<1>12. ASSUME NEW ok \in BOOLEAN, ForceStop(ok)
       PROVE  UNCHANGED Lifecycle!vars
  BY <1>12 DEF ForceStop, Lifecycle!vars
<1>13. ASSUME FirstWait
       PROVE  UNCHANGED Lifecycle!vars
  BY <1>13 DEF FirstWait, Lifecycle!vars
<1>14. ASSUME NEW ok \in BOOLEAN, KillRoot(ok)
       PROVE  UNCHANGED Lifecycle!vars
  BY <1>14 DEF KillRoot, Lifecycle!vars
<1>15. ASSUME Settle
       PROVE  Lifecycle!EndStop
  BY <1>15, <1>a DEF Settle, SnapshotInv, Held, Lifecycle!EndStop
<1>16. ASSUME PollGoesOn
       PROVE  UNCHANGED Lifecycle!vars
  BY <1>16 DEF PollGoesOn, Lifecycle!vars
<1>17. ASSUME PollReaps
       PROVE  UNCHANGED Lifecycle!vars
  BY <1>17 DEF PollReaps, Lifecycle!vars
<1>18. ASSUME RemainsNothing
       PROVE  UNCHANGED Lifecycle!vars
  BY <1>18 DEF RemainsNothing, Lifecycle!vars
<1>19. ASSUME NEW ok \in BOOLEAN, RemainsRequest(ok)
       PROVE  UNCHANGED Lifecycle!vars
  BY <1>19 DEF RemainsRequest, Lifecycle!vars
<1>20. ASSUME RemainsWait
       PROVE  UNCHANGED Lifecycle!vars
  BY <1>20 DEF RemainsWait, Lifecycle!vars
<1>21. ASSUME NEW ok \in BOOLEAN, RemainsForce(ok)
       PROVE  UNCHANGED Lifecycle!vars
  BY <1>21 DEF RemainsForce, Lifecycle!vars
<1>22. ASSUME ExitRestarts
       PROVE  Lifecycle!LoseProcess
  BY <1>22, <1>a DEF ExitRestarts, LetGo, SnapshotInv, Held, Lifecycle!LoseProcess, Lifecycle!AtRest
<1>23. ASSUME ExitCrashes
       PROVE  Lifecycle!LoseProcess
  BY <1>23, <1>a DEF ExitCrashes, LetGo, SnapshotInv, Held, Lifecycle!LoseProcess, Lifecycle!AtRest
<1>24. ASSUME ExitStops
       PROVE  Lifecycle!LoseProcess
  BY <1>24, <1>a DEF ExitStops, LetGo, SnapshotInv, Held, Lifecycle!LoseProcess, Lifecycle!AtRest
<1>25. ASSUME StartDue
       PROVE  Lifecycle!BeginStart
  BY <1>25, <1>a DEF StartDue, SnapshotInv, Held, Lifecycle!BeginStart, Lifecycle!AtRest
<1>26. ASSUME StartNotDue
       PROVE  UNCHANGED Lifecycle!vars
  BY <1>26 DEF StartNotDue, Lifecycle!vars
<1>27. ASSUME SpawnFails
       PROVE  UNCHANGED Lifecycle!vars
  BY <1>27 DEF SpawnFails, Lifecycle!vars
<1>28. ASSUME NEW p \in Pids, Spawn(p)
       PROVE  UNCHANGED Lifecycle!vars
  BY <1>28 DEF Spawn, Lifecycle!vars
<1>29. ASSUME AttachSucceeds
       PROVE  Lifecycle!Publish
  BY <1>29, <1>a DEF AttachSucceeds, Held, SnapshotInv, Lifecycle!Publish
<1>30. ASSUME NEW forced \in BOOLEAN, NEW killed \in BOOLEAN, AttachFails(forced, killed)
       PROVE  UNCHANGED Lifecycle!vars
  BY <1>30 DEF AttachFails, Lifecycle!vars
<1>31. ASSUME StartRetries
       PROVE  Lifecycle!GiveUpStart
  BY <1>31, <1>a DEF StartRetries, SnapshotInv, Held, Lifecycle!GiveUpStart
<1>32. ASSUME StartGivesUp
       PROVE  Lifecycle!GiveUpStart
  BY <1>32, <1>a DEF StartGivesUp, SnapshotInv, Held, Lifecycle!GiveUpStart
<1>33. ASSUME User \/ System \/ Tick \/ UNCHANGED vars
       PROVE  UNCHANGED Lifecycle!vars
  BY <1>33 DEF User, System, Tick, Request, Shutdown, DropSender, RootExits, RootEscapes, MemberForks,
     MembersExit, LeftoverExits, treeUnchanged, workerVars, vars, Lifecycle!vars
<1> QED
  BY <1>1, <1>2, <1>3, <1>4, <1>5, <1>6, <1>7, <1>8, <1>9, <1>10, <1>11, <1>12, <1>13,
     <1>14, <1>15, <1>16, <1>17, <1>18, <1>19, <1>20, <1>21, <1>22, <1>23, <1>24, <1>25,
     <1>26, <1>27, <1>28, <1>29, <1>30, <1>31, <1>32, <1>33
     DEF Next, Worker, StopProcess, Poll, StartProcess, Lifecycle!Next

\* Every change a reader of snapshots can observe is one ToolLifecycle allows.
THEOREM WorkerImplementsLifecycle == Spec => LifecycleSpec
<1>1. Init => Lifecycle!Init
  BY DEF Init, Lifecycle!Init
<1>2. Inv /\ [Next]_vars => [Lifecycle!Next]_Lifecycle!vars
  BY LifecycleStep DEF Inv, ControlInv
<1> QED BY <1>1, <1>2, Invariance, PTL DEF Spec, LifecycleSpec, Lifecycle!Spec

=============================================================================
