------------------------ MODULE SingleInstanceProofs ------------------------
(***************************************************************************)
(* Proofs about SingleInstance, for every number of processes.  That the     *)
(* window opens only when it was asked for rests on the order in which an    *)
(* instance takes the lock and removes the request: from the removal on, a   *)
(* request that is there was written while this instance held the lock.      *)
(***************************************************************************)
EXTENDS SingleInstance, TLAPS

-----------------------------------------------------------------------------
(* The inductive invariant *)

\* Past DropRequest
Serving == {"boot", "loop", "closing"}

\* Who takes the lock for a launch that opens the window has it asked for from there on,
\* and so has a request that is found after the old one was removed.
AskedInv ==
    /\ visible => asked
    /\ \A i \in Instances : phase[i] \in Serving => (request => asked)

Inv == TypeOK /\ AskedInv

-----------------------------------------------------------------------------
(* Facts the steps share *)

\* None is the holder of no lock: a free lock means that nobody is past try_acquire.
LEMMA FreeLock ==
    ASSUME TypeOK, lock = None
    PROVE  /\ \A i \in Instances : phase[i] \notin Holding
           /\ ~visible
  BY NoneAssumption DEF TypeOK, Holding

\* Two processes past try_acquire are one and the same.
LEMMA OneHolder ==
    ASSUME TypeOK, NEW i \in Instances, NEW j \in Instances,
           phase[i] \in Holding, phase[j] \in Holding
    PROVE  i = j
  BY DEF TypeOK

-----------------------------------------------------------------------------
(* Type correctness, with mutual exclusion past the lock *)

LEMMA InitTypeOK == Init => TypeOK
  BY NoneAssumption DEF Init, TypeOK, Phase, Holding

\* No step of a process breaks the types, lets a second process past the lock or leaves a
\* window behind that no process has.
LEMMA NextTypeOK == TypeOK /\ [Next]_vars => TypeOK'
  <1> SUFFICES ASSUME TypeOK, [Next]_vars
               PROVE  TypeOK'
    OBVIOUS
  <1>1. ASSUME NEW i \in Instances, NEW open \in BOOLEAN, Launch(i, open)
        PROVE  TypeOK'
    BY <1>1 DEF Launch, At, TypeOK, Phase, Holding
  <1>2. ASSUME NEW i \in Instances, TakeLock(i)
        PROVE  TypeOK'
    <2>1. \A j \in Instances : phase[j] \notin Holding /\ ~visible
      BY <1>2, FreeLock DEF TakeLock
    <2> QED
      BY <1>2, <2>1, NoneAssumption DEF TakeLock, At, TypeOK, Phase, Holding
  <1>3. ASSUME NEW i \in Instances, FindLocked(i)
        PROVE  TypeOK'
    BY <1>3 DEF FindLocked, At, TypeOK, Phase, Holding
  <1>4. ASSUME NEW i \in Instances, DropRequest(i)
        PROVE  TypeOK'
    BY <1>4 DEF DropRequest, At, TypeOK, Phase, Holding
  <1>5. ASSUME NEW i \in Instances, NEW minimize \in BOOLEAN, EnterLoop(i, minimize)
        PROVE  TypeOK'
    BY <1>5 DEF EnterLoop, Opened, At, TypeOK, Phase, Holding
  <1>6. ASSUME NEW i \in Instances, RequestActivation(i)
        PROVE  TypeOK'
    BY <1>6 DEF RequestActivation, At, TypeOK, Phase, Holding
  <1>7. ASSUME NEW i \in Instances, TakeRequest(i)
        PROVE  TypeOK'
    BY <1>7 DEF TakeRequest, Opened, TypeOK
  <1>8. ASSUME NEW i \in Instances, OpenFromTray(i)
        PROVE  TypeOK'
    BY <1>8 DEF OpenFromTray, Opened, TypeOK
  <1>9. ASSUME NEW i \in Instances, HideWindow(i)
        PROVE  TypeOK'
    BY <1>9 DEF HideWindow, TypeOK
  <1>10. ASSUME NEW i \in Instances, Quit(i)
         PROVE  TypeOK'
    BY <1>10 DEF Quit, At, TypeOK, Phase, Holding
  <1>11. ASSUME NEW i \in Instances, Ends(i)
         PROVE  TypeOK'
    <2>1. CASE lock = i
      <3>1. \A j \in Instances : j # i => phase[j] \notin Holding
        BY <2>1 DEF TypeOK
      <3> QED
        BY <1>11, <2>1, <3>1, NoneAssumption DEF Ends, TypeOK, Phase, Holding
    <2>2. CASE lock # i
      <3>1. phase[i] \notin Holding
        BY <2>2 DEF TypeOK
      <3> QED
        BY <1>11, <2>2, <3>1 DEF Ends, TypeOK, Phase, Holding
    <2> QED
      BY <2>1, <2>2
  <1>12. CASE UNCHANGED vars
    BY <1>12 DEF vars, TypeOK
  <1> QED
    BY <1>1, <1>2, <1>3, <1>4, <1>5, <1>6, <1>7, <1>8, <1>9, <1>10, <1>11, <1>12
       DEF Next, Main, User, Exit, Die

-----------------------------------------------------------------------------
(* No stale activation *)

LEMMA InitAskedInv == Init => AskedInv
  BY DEF Init, AskedInv, Serving

\* A request can be older than the lock only until its holder has removed it.
LEMMA NextAskedInv == Inv /\ [Next]_vars => AskedInv'
  <1> SUFFICES ASSUME TypeOK, AskedInv, [Next]_vars
               PROVE  AskedInv'
    BY DEF Inv
  <1>1. ASSUME NEW i \in Instances, NEW open \in BOOLEAN, Launch(i, open)
        PROVE  AskedInv'
    BY <1>1 DEF Launch, At, TypeOK, AskedInv, Serving
  <1>2. ASSUME NEW i \in Instances, TakeLock(i)
        PROVE  AskedInv'
    <2>1. \A j \in Instances : phase[j] \notin Holding /\ ~visible
      BY <1>2, FreeLock DEF TakeLock
    <2> QED
      BY <1>2, <2>1 DEF TakeLock, At, TypeOK, AskedInv, Serving, Holding
  <1>3. ASSUME NEW i \in Instances, FindLocked(i)
        PROVE  AskedInv'
    BY <1>3 DEF FindLocked, At, TypeOK, AskedInv, Serving
  <1>4. ASSUME NEW i \in Instances, DropRequest(i)
        PROVE  AskedInv'
    BY <1>4 DEF DropRequest, At, TypeOK, AskedInv, Serving
  <1>5. ASSUME NEW i \in Instances, NEW minimize \in BOOLEAN, EnterLoop(i, minimize)
        PROVE  AskedInv'
    BY <1>5 DEF EnterLoop, Opened, At, TypeOK, AskedInv, Serving
  <1>6. ASSUME NEW i \in Instances, RequestActivation(i)
        PROVE  AskedInv'
    BY <1>6 DEF RequestActivation, At, TypeOK, AskedInv, Serving
  <1>7. ASSUME NEW i \in Instances, TakeRequest(i)
        PROVE  AskedInv'
    BY <1>7 DEF TakeRequest, Opened, TypeOK, AskedInv, Serving
  <1>8. ASSUME NEW i \in Instances, OpenFromTray(i)
        PROVE  AskedInv'
    BY <1>8 DEF OpenFromTray, Opened, AskedInv
  <1>9. ASSUME NEW i \in Instances, HideWindow(i)
        PROVE  AskedInv'
    BY <1>9 DEF HideWindow, AskedInv
  <1>10. ASSUME NEW i \in Instances, Quit(i)
         PROVE  AskedInv'
    BY <1>10 DEF Quit, At, TypeOK, AskedInv, Serving
  <1>11. ASSUME NEW i \in Instances, Ends(i)
         PROVE  AskedInv'
    BY <1>11 DEF Ends, TypeOK, AskedInv, Serving
  <1>12. CASE UNCHANGED vars
    BY <1>12 DEF vars, AskedInv
  <1> QED
    BY <1>1, <1>2, <1>3, <1>4, <1>5, <1>6, <1>7, <1>8, <1>9, <1>10, <1>11, <1>12
       DEF Next, Main, User, Exit, Die

-----------------------------------------------------------------------------
(* Theorems *)

LEMMA Invariance == Spec => []Inv
  <1>1. Init => Inv
    BY InitTypeOK, InitAskedInv DEF Inv
  <1>2. Inv /\ [Next]_vars => Inv'
    BY NextTypeOK, NextAskedInv DEF Inv
  <1> QED
    BY <1>1, <1>2, PTL DEF Spec

\* However many launches race for it, the lock has one holder, the point of main each process
\* has reached says who, and only a process that runs the event loop or leaves it has a window.
THEOREM SpecTypeOK == Spec => []TypeOK
  <1>1. Inv => TypeOK
    BY DEF Inv
  <1> QED
    BY Invariance, <1>1, PTL

\* At most one process is past try_acquire.
MutualExclusion ==
    \A i, j \in Instances : phase[i] \in Holding /\ phase[j] \in Holding => i = j

\* One manager at a time, for any number of launches: SingleInstanceGuard is what it says.
THEOREM SpecMutualExclusion == Spec => []MutualExclusion
  <1>1. Inv => MutualExclusion
    BY OneHolder DEF Inv, MutualExclusion
  <1> QED
    BY Invariance, <1>1, PTL

\* A manager that was launched minimized opens its window only for someone who asked for it
\* while it held the lock, however the launches, ends and deaths before it left the file.
THEOREM SpecNoStaleActivation == Spec => []NoStaleActivation
  <1>1. Inv => NoStaleActivation
    BY DEF Inv, AskedInv, NoStaleActivation
  <1> QED
    BY Invariance, <1>1, PTL

=============================================================================
