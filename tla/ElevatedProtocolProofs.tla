----------------------- MODULE ElevatedProtocolProofs -----------------------
(***************************************************************************)
(* Safety proofs about ElevatedProtocol, for every number of commands, of   *)
(* launches of either side and of helpers, and for every set of faults.     *)
(*                                                                         *)
(* The number a helper has acknowledged is at least that of every command   *)
(* it has executed, which is why it executes none twice.  That it has       *)
(* skipped none needs more: where every command that was not executed yet   *)
(* is to be found, and the order in which the helper will come to it.       *)
(***************************************************************************)
EXTENDS ElevatedProtocol, TLAPS, WellFoundedInduction, NaturalsInduction

-----------------------------------------------------------------------------
(* The inductive invariant *)

\* The helper that runs was launched, and what it executed it has acknowledged, the command
\* whose file it is about to remove included.
OnceInv ==
    /\ helper # "down" => launches > 0
    /\ \A id \in 1..MaxId : executed[id] <= launches
    /\ helper # "down" => \A id \in 1..MaxId : executed[id] = launches => id <= acknowledged
    /\ helper = "remove" => claimed # None /\ claimed.id <= acknowledged

Working == helper \in {"work", "remove"}

\* Numbers in use are behind the clock.
Behind ==
    /\ \A f \in files : f.id < clock
    /\ claimed # None => claimed.id < clock
    /\ pending # None => pending.id < clock
    /\ state # None => state.ack < clock
    /\ draft # None => draft.ack < clock
    /\ acknowledged < clock

\* A command that was sent and not executed is in its file.
Kept ==
    \A id \in 1..clock - 1 :
        executed[id] # 0 \/ id \in Ids(files) \/ (claimed # None /\ id = claimed.id)

ExecutedUpTo(number) == \A id \in 1..number : executed[id] # 0

Accounted ==
    /\ ExecutedUpTo(acknowledged)
    /\ state # None => ExecutedUpTo(state.ack)
    /\ draft # None => ExecutedUpTo(draft.ack)

\* The helper holds a file only while it works, and it comes before those still listed.
ClaimedFirst ==
    /\ claimed # None => Working \/ helper = "down"
    /\ Working /\ claimed # None => \A id \in batch : claimed.id < id

\* What a working helper has not executed it is about to, or it came after the listing.
InOrder ==
    Working =>
        \A id \in 1..clock - 1 :
            \/ executed[id] # 0
            \/ id \in batch
            \/ claimed # None /\ id = claimed.id
            \/ /\ \A listed \in batch : listed < id
               /\ claimed # None => claimed.id < id

\* No fault that loses a command, or its place in the order, has happened.
Undisturbed == faults \subseteq {"exit"}

OrderInv ==
    Undisturbed => Behind /\ Kept /\ Accounted /\ ClaimedFirst /\ InOrder

Inv == TypeOK /\ OnceInv /\ OrderInv

-----------------------------------------------------------------------------
(* What the steps of the proxy have in common *)

LEMMA NatMinimum ==
    ASSUME NEW T, T \subseteq Nat, T # {}
    PROVE  \E n \in T : \A m \in T : n <= m
<1> DEFINE Less == {p \in Nat \X Nat : p[1] < p[2]}
<1>1. IsWellFoundedOn(Less, Nat)
  BY NatLessThanWellFounded DEF OpToRel
<1>2. PICK n \in T : \A m \in T : ~(<<m, n>> \in Less)
  <2> HIDE DEF Less
  <2> QED BY <1>1, WFMin
<1>3. ASSUME NEW m \in T
      PROVE  n <= m
  <2>1. <<m, n>> \in Nat \X Nat /\ m \in Nat /\ n \in Nat
    OBVIOUS
  <2>2. m < n => <<m, n>> \in Less
    BY <2>1
  <2> QED BY <1>2, <2>1, <2>2
<1> QED BY <1>3

LEMMA LeastListed ==
    ASSUME TypeOK, batch # {}
    PROVE  /\ Least(batch) \in batch /\ Least(batch) \in 1..MaxId
           /\ \A id \in batch \ {Least(batch)} : Least(batch) < id
  <1>1. batch \subseteq 1..MaxId /\ batch \subseteq Nat
    BY BoundAssumption DEF TypeOK, Ids, Request
  <1>2. Least(batch) \in batch /\ \A id \in batch : Least(batch) <= id
    BY <1>1, NatMinimum DEF Least
  <1>3. \A id \in batch \ {Least(batch)} : Least(batch) < id
    <2> SUFFICES ASSUME NEW id \in batch, id # Least(batch)
                 PROVE  Least(batch) < id
      OBVIOUS
    <2>1. id \in Nat /\ Least(batch) \in Nat /\ Least(batch) <= id
      BY <1>1, <1>2
    <2> QED BY <2>1
  <1> QED BY <1>1, <1>2, <1>3

LEMMA NextIdType ==
    ASSUME TypeOK
    PROVE  NextId \in Nat /\ NextId >= clock
  BY BoundAssumption DEF TypeOK, NextId, State

\* A command is sent: the clock moves on, and the command may still be pending.
Sends ==
    \E command \in Command :
        SendCommand(command) /\ pending' \in {Sent(command), pending, None}

\* A command is written again under its old number.
Repeats ==
    /\ pending # None /\ UNCHANGED <<clock, pending>>
    /\ \/ Written(pending) /\ UNCHANGED faults
       \/ UNCHANGED files /\ Fault("write")

\* Nothing is written.
Listens == UNCHANGED <<clock, files, faults>> /\ pending' \in {pending, None}

ProxySteps == User \/ Proxy \/ EightSecondsUnavailable \/ ManagerStarts \/ ManagerDies

\* Each step of the proxy leaves the helper's side alone and writes one file at most.
LEMMA ProxyWrites ==
    ASSUME ProxySteps
    PROVE  /\ UNCHANGED <<claimed, state, helperVars, executed>>
           /\ Sends \/ Repeats \/ Listens
  <1> USE DEF Command, proxyUnchanged, Forgotten
  <1>1. CASE ReceiveStart
    BY <1>1 DEF ReceiveStart, Receive, Sends
  <1>2. CASE ReceiveStop
    BY <1>2 DEF ReceiveStop, Receive, Sends
  <1>3. CASE ReceiveRestart
    BY <1>3 DEF ReceiveRestart, Receive, Sends
  <1>4. CASE ReceiveSample
    BY <1>4 DEF ReceiveSample, Sends
  <1>5. CASE ReceiveShutdown
    BY <1>5 DEF ReceiveShutdown, Sends
  <1>6. CASE ReceiveTimeout
    BY <1>6 DEF ReceiveTimeout, Listens
  <1>7. CASE ReadChangedHelper
    BY <1>7 DEF ReadChangedHelper, ReadFresh, Reissue, Wanted, Sends
  <1>8. CASE ReadFirstHelper
    BY <1>8 DEF ReadFirstHelper, ReadFresh, Reissue, Wanted, Sends
  <1>9. CASE ReadResends
    BY <1>9 DEF ReadResends, ReadFresh, Unacknowledged, Repeats
  <1>10. CASE ReadReconciles
    BY <1>10 DEF ReadReconciles, ReadFresh, Reissue, Wanted, Sends
  <1>11. CASE ReadOnly
    BY <1>11 DEF ReadOnly, ReadFresh, Unacknowledged, Listens
  <1>12. CASE ReadUnavailable \/ EightSecondsUnavailable
    BY <1>12 DEF ReadUnavailable, Unavailable, EightSecondsUnavailable, Listens
  <1>13. CASE ManagerStarts
    BY <1>13 DEF ManagerStarts, Sends, Listens
  <1>14. CASE ManagerDies
    BY <1>14 DEF ManagerDies, Listens
  <1> QED
    BY <1>1, <1>2, <1>3, <1>4, <1>5, <1>6, <1>7, <1>8, <1>9, <1>10, <1>11, <1>12, <1>13, <1>14
    DEF ProxySteps, User, Proxy, ReadState

LEMMA WriteType ==
    ASSUME TypeOK, Sends \/ Repeats \/ Listens
    PROVE  /\ clock' \in 1..MaxId + 1 /\ files \subseteq files'
           /\ files' \subseteq Request /\ pending' \in Request \cup {None}
           /\ faults' \subseteq Faults
  <1>1. CASE Sends
    <2>1. PICK command \in Command :
            SendCommand(command) /\ pending' \in {Sent(command), pending, None}
      BY <1>1 DEF Sends
    <2>2. [id |-> NextId, command |-> command] \in Request /\ clock <= MaxId
      BY <2>1, NextIdType, BoundAssumption DEF TypeOK, SendCommand, Request
    <2>3. clock' \in 1..MaxId + 1
      BY <2>1, <2>2, BoundAssumption DEF TypeOK, SendCommand
    <2>4. files \subseteq files' /\ files' \subseteq Request /\ faults' \subseteq Faults
      BY <2>1, <2>2 DEF TypeOK, SendCommand, Written, Fault
    <2>5. pending' \in Request \cup {None}
      BY <2>1, <2>2 DEF TypeOK, Sent
    <2> QED BY <2>3, <2>4, <2>5
  <1>2. CASE Repeats
    BY <1>2 DEF Repeats, TypeOK, Written, Fault
  <1>3. CASE Listens
    BY <1>3 DEF Listens, TypeOK
  <1> QED BY <1>1, <1>2, <1>3

-----------------------------------------------------------------------------
(* Types *)

\* The types of what only the proxy has.
ProxyType ==
    /\ manager \in {"up", "shutdown", "dead"} /\ boots \in 0..MaxBoots
    /\ reading \in BOOLEAN /\ desired \in BOOLEAN /\ satisfied \in BOOLEAN
    /\ seen \in 0..MaxHelpers /\ unavailable \in {"no", "since", "due"}
    /\ shown \in ToolState \cup {"Starting", "Stopping", "Restarting"}

LEMMA ProxyKeepsType ==
    ASSUME TypeOK, ProxySteps
    PROVE  ProxyType' /\ UNCHANGED <<autoStart, fresh>>
  <1>a. 0 \in 0..MaxHelpers /\ (boots < MaxBoots => boots + 1 \in 0..MaxBoots)
    BY BoundAssumption DEF TypeOK
  <1>b. state # None => state.helper \in 0..MaxHelpers /\ state.tool \in ToolState
    BY BoundAssumption DEF TypeOK, State
  <1> USE DEF TypeOK, ProxyType, proxyUnchanged, Forgotten, ToolState
  <1>1. CASE ReceiveStart \/ ReceiveStop \/ ReceiveRestart
    BY <1>1 DEF ReceiveStart, ReceiveStop, ReceiveRestart, Receive
  <1>2. CASE ReceiveSample \/ ReceiveTimeout
    BY <1>2 DEF ReceiveSample, ReceiveTimeout
  <1>3. CASE ReceiveShutdown
    BY <1>a, <1>3 DEF ReceiveShutdown
  <1>4. ASSUME ReadFresh, satisfied' \in BOOLEAN
        PROVE  ProxyType' /\ UNCHANGED <<autoStart, fresh>>
    BY <1>b, <1>4 DEF ReadFresh
  <1>5. CASE ReadState
    BY <1>4, <1>5
    DEF ReadState, ReadChangedHelper, ReadFirstHelper, ReadResends, ReadReconciles, ReadOnly,
        Matches
  <1>6. CASE ReadUnavailable \/ EightSecondsUnavailable
    BY <1>6 DEF ReadUnavailable, Unavailable, EightSecondsUnavailable
  <1>7. CASE ManagerStarts
    BY <1>a, <1>7 DEF ManagerStarts
  <1>8. CASE ManagerDies
    BY <1>a, <1>8 DEF ManagerDies
  <1> QED
    BY <1>1, <1>2, <1>3, <1>5, <1>6, <1>7, <1>8 DEF ProxySteps, User, Proxy

LEMMA TypeStep ==
    ASSUME TypeOK, OnceInv, [Next]_vars
    PROVE  TypeOK'
  <1>1. CASE ProxySteps
    <2>1. ProxyType' /\ UNCHANGED <<autoStart, fresh, claimed, state, helperVars, executed>>
      BY <1>1, ProxyKeepsType, ProxyWrites
    <2>2. /\ clock' \in 1..MaxId + 1 /\ files \subseteq files'
          /\ files' \subseteq Request /\ pending' \in Request \cup {None}
          /\ faults' \subseteq Faults
      BY <1>1, ProxyWrites, WriteType
    <2>3. batch' \subseteq Ids(files')
      BY <2>1, <2>2 DEF TypeOK, helperVars, Ids
    <2> QED BY <2>1, <2>2, <2>3 DEF TypeOK, ProxyType, helperVars
  <1> USE BoundAssumption DEF helperUnchanged, workerUnchanged, proxyVars, helperVars, TypeOK
  <1>2. CASE HelperStarts
    <2>1. files' \subseteq Request /\ batch \subseteq Ids(files')
      BY <1>2 DEF HelperStarts, Written, Ids
    <2>2. launches' \in 0..MaxHelpers /\ acknowledged' \in 0..MaxId
      BY <1>2 DEF HelperStarts, State
    <2> QED BY <1>2, <2>1, <2>2 DEF HelperStarts
  <1>3. CASE HelperLists
    BY <1>3 DEF HelperLists
  <1>4. CASE HelperClaims
    <2>1. /\ Least(batch) \in batch
          /\ \A id \in batch' : id # Least(batch) /\ id \in batch
      BY <1>4, LeastListed DEF HelperClaims
    <2>2. /\ files' \subseteq Request /\ claimed' \in Request \cup {None}
          /\ faults' \subseteq Faults
      BY <1>4 DEF HelperClaims, Fault
    <2>3. batch' \subseteq Ids(files')
      BY <1>4, <2>1 DEF HelperClaims, Ids
    <2> QED BY <1>4, <2>2, <2>3 DEF HelperClaims
  <1>5. CASE HelperExecutes
    <2>1. claimed \in Request /\ claimed.id \in 1..MaxId
      BY <1>5 DEF HelperExecutes, Request
    <2>2. todo' \in Seq(Request)
      BY <1>5, <2>1 DEF HelperExecutes
    <2>3. executed' \in [1..MaxId -> 0..MaxHelpers] /\ acknowledged' \in 0..MaxId
      BY <1>5, <2>1 DEF HelperExecutes
    <2> QED BY <1>5, <2>2, <2>3 DEF HelperExecutes
  <1>6. CASE HelperRemoves
    BY <1>6 DEF HelperRemoves
  <1>7. CASE HelperPublishes
    <2>1. draft' \in State
      BY <1>7 DEF HelperPublishes, State, OnceInv
    <2> QED BY <1>7, <2>1 DEF HelperPublishes
  <1>8. CASE HelperReplaces
    BY <1>8 DEF HelperReplaces
  <1>9. CASE HelperSkips
    BY <1>9 DEF HelperSkips
  <1>10. CASE HelperDies
    BY <1>10 DEF HelperDies, ToolState
  <1>11. CASE WorkerLaunches
    <2>0. todo \in Seq(Request) /\ todo # <<>> /\ todo' = Tail(todo)
      BY <1>11 DEF WorkerLaunches
    <2>1. todo' \in Seq(Request)
      BY <2>0
    <2>2. tool' \in ToolState /\ faults' \subseteq Faults
      BY <1>11 DEF WorkerLaunches, Fault, ToolState
    <2>3. /\ UNCHANGED <<autoStart, clock, fresh, proxyVars, launches>>
          /\ UNCHANGED <<helper, batch, acknowledged, draft, files, claimed, state, executed>>
      BY <1>11 DEF WorkerLaunches
    <2> QED BY <2>1, <2>2, <2>3
  <1>12. CASE WorkerStops
    <2>1. todo' \in Seq(Request) /\ tool' \in ToolState
      BY <1>12 DEF WorkerStops, ToolState
    <2> QED BY <1>12, <2>1 DEF WorkerStops
  <1>13. CASE ToolExits
    BY <1>13 DEF ToolExits, Fault, ToolState
  <1>14. CASE StateAges
    <2>1. /\ fresh' \in BOOLEAN
          /\ UNCHANGED <<autoStart, clock, files, claimed, state, proxyVars, helperVars, executed,
                         faults>>
      BY <1>14 DEF StateAges
    <2> QED BY <2>1
  <1>15. CASE ClockStepsBack
    <2>1. clock' \in 1..MaxId + 1 /\ faults' \subseteq Faults
      BY <1>15 DEF ClockStepsBack, Fault
    <2> QED BY <1>15, <2>1 DEF ClockStepsBack
  <1>16. CASE UNCHANGED vars
    BY <1>16 DEF vars
  <1> QED
    BY <1>1, <1>2, <1>3, <1>4, <1>5, <1>6, <1>7, <1>8, <1>9, <1>10, <1>11, <1>12, <1>13, <1>14,
       <1>15, <1>16
    DEF Next, ProxySteps, Helper, Worker, Environment

-----------------------------------------------------------------------------
(* No command is executed twice *)

LEMMA OnceStep ==
    ASSUME TypeOK, OnceInv, [Next]_vars
    PROVE  /\ OnceInv'
           /\ (helper = "work" /\ helper' = "remove") => executed[claimed.id] # launches
  <1> USE DEF OnceInv
  <1>1. CASE UNCHANGED <<helper, launches, acknowledged, executed, claimed>>
    BY <1>1
  <1>2. CASE HelperStarts
    <2>1. \A id \in 1..MaxId : executed[id] \in 0..launches
      BY DEF TypeOK
    <2>2. /\ helper # "work" /\ helper' = "list"
          /\ launches' = launches + 1 /\ launches \in Nat
          /\ UNCHANGED executed
      BY <1>2 DEF HelperStarts, TypeOK
    <2> QED BY <2>1, <2>2
  <1>3. CASE HelperExecutes
    <2>1. /\ claimed.id \in 1..MaxId /\ claimed.id > acknowledged
          /\ acknowledged' = claimed.id /\ helper' = "remove" /\ helper = "work"
          /\ claimed' = claimed /\ claimed # None /\ launches' = launches /\ executed' = [executed EXCEPT ![claimed.id] = launches]
      BY <1>3 DEF HelperExecutes, helperUnchanged, TypeOK, Request
    <2>2. executed[claimed.id] # launches
      BY <2>1, BoundAssumption DEF TypeOK
    <2> QED BY <2>1, <2>2, BoundAssumption DEF TypeOK
  <1>4. CASE HelperLists \/ HelperPublishes \/ HelperReplaces \/ HelperSkips
    BY <1>4 DEF HelperLists, HelperPublishes, HelperReplaces, HelperSkips, helperUnchanged
  <1>5. CASE HelperDies
    BY <1>5 DEF HelperDies, helperUnchanged
  <1>6. CASE HelperClaims \/ HelperRemoves
    BY <1>6 DEF HelperClaims, HelperRemoves, helperUnchanged
  <1>7. CASE Worker
    BY <1>1, <1>7 DEF Worker, WorkerLaunches, WorkerStops, workerUnchanged, helperUnchanged
  <1>8. CASE ToolExits \/ StateAges \/ ClockStepsBack
    BY <1>1, <1>8
    DEF ToolExits, StateAges, ClockStepsBack, workerUnchanged, helperUnchanged, helperVars
  <1>9. CASE ProxySteps
    BY <1>1, <1>9, ProxyWrites DEF helperVars
  <1>10. CASE UNCHANGED vars
    BY <1>1, <1>10 DEF vars, helperVars
  <1> QED
    BY <1>2, <1>3, <1>4, <1>5, <1>6, <1>7, <1>8, <1>9, <1>10
    DEF Next, ProxySteps, Helper, Environment

-----------------------------------------------------------------------------
(* No command is skipped *)

\* A command that is sent takes the number of the clock, and is filed.
LEMMA SendKeepsOrder ==
    ASSUME TypeOK, Behind, Kept, Accounted, ClaimedFirst, InOrder, Undisturbed',
           Sends, UNCHANGED <<claimed, state, helperVars, executed>>
    PROVE  Behind' /\ Kept' /\ Accounted' /\ ClaimedFirst' /\ InOrder'
  <1>1. PICK command \in Command :
          SendCommand(command) /\ pending' \in {Sent(command), pending, None}
    BY DEF Sends
  <1>2. clock \in 1..MaxId /\ clock' = clock + 1 /\ NextId = clock
    <2>1. clock' = clock + 1 /\ NextId <= MaxId
      BY <1>1 DEF SendCommand
    <2>2. NextId = clock
      <3>1. state # None => state.ack \in Nat /\ state.ack < clock
        BY BoundAssumption DEF TypeOK, State, Behind
      <3>2. clock \in Nat /\ clock > 0
        BY BoundAssumption DEF TypeOK
      <3> QED BY <3>1, <3>2 DEF NextId
    <2> QED BY <2>1, <2>2, BoundAssumption DEF TypeOK
  <1>3. /\ UNCHANGED faults
        /\ Written([id |-> clock, command |-> command])
        /\ Sent(command) = [id |-> clock, command |-> command]
    BY <1>1, <1>2 DEF SendCommand, Sent, Fault, Undisturbed
  <1>4. files' = files \cup {[id |-> clock, command |-> command]}
    <2>1. \A f \in files : f.id \in Nat /\ f.id < clock
      BY BoundAssumption DEF TypeOK, Request, Behind
    <2>2. clock \notin Ids(files)
      BY <1>2, <2>1, BoundAssumption DEF Ids
    <2> QED BY <1>3, <2>2 DEF Written
  <1>5. Ids(files') = Ids(files) \cup {clock}
    <2> DEFINE new == [id |-> clock, command |-> command]
    <2>1. new.id = clock
      OBVIOUS
    <2>2. files' = files \cup {new}
      BY <1>4
    <2> HIDE DEF new
    <2> QED BY <2>1, <2>2 DEF Ids
  <1> USE DEF helperVars, Working
  <1>6. Behind'
    <2>1. /\ claimed # None => claimed.id \in Nat
          /\ pending # None => pending.id \in Nat
          /\ state # None => state.ack \in Nat
          /\ draft # None => draft.ack \in Nat
          /\ \A f \in files : f.id \in Nat
          /\ acknowledged \in Nat /\ clock \in Nat
      BY BoundAssumption DEF TypeOK, Request, State
    <2>2. \A f \in files' : f.id < clock'
      BY <1>2, <1>4, <2>1 DEF Behind
    <2>3. pending' # None => pending'.id < clock'
      BY <1>1, <1>2, <1>3, <2>1 DEF Behind
    <2> QED BY <1>2, <2>1, <2>2, <2>3 DEF Behind
  <1>7. \A id \in 1..clock' - 1 : id \in 1..clock - 1 \/ id = clock
    BY <1>2, BoundAssumption
  <1>8. Kept'
    BY <1>5, <1>7 DEF Kept
  <1>9. Accounted' /\ ClaimedFirst'
    BY DEF Accounted, ExecutedUpTo, ClaimedFirst
  <1>10. InOrder'
    <2>1. (\A listed \in batch : listed < clock) /\ (claimed # None => claimed.id < clock)
      BY DEF TypeOK, Behind, Ids
    <2> QED BY <1>7, <2>1 DEF InOrder
  <1> QED BY <1>6, <1>8, <1>9, <1>10

\* A command that is written again has a number behind the clock.
LEMMA RepeatKeepsOrder ==
    ASSUME TypeOK, Behind, Kept, Accounted, ClaimedFirst, InOrder, Undisturbed',
           Repeats, UNCHANGED <<claimed, state, helperVars, executed>>
    PROVE  Behind' /\ Kept' /\ Accounted' /\ ClaimedFirst' /\ InOrder'
  <1>1. /\ pending # None /\ UNCHANGED <<clock, pending, faults>> /\ Written(pending)
    BY DEF Repeats, Fault, Undisturbed
  <1>2. files \subseteq files' /\ Ids(files) \subseteq Ids(files')
    BY <1>1 DEF Written, Ids
  <1>3. Behind'
    BY <1>1 DEF Behind, Written, helperVars
  <1> QED
    BY <1>1, <1>2, <1>3 DEF Kept, Accounted, ExecutedUpTo, ClaimedFirst, InOrder, Working, helperVars

LEMMA OrderStep ==
    ASSUME TypeOK, OnceInv, OrderInv, None \notin Request, [Next]_vars
    PROVE  OrderInv'
  <1> SUFFICES ASSUME Undisturbed'
               PROVE  Behind' /\ Kept' /\ Accounted' /\ ClaimedFirst' /\ InOrder'
    BY DEF OrderInv
  <1>1. CASE ProxySteps
    <2>1. /\ UNCHANGED <<claimed, state, helperVars, executed>>
          /\ Sends \/ Repeats \/ Listens
      BY <1>1, ProxyWrites
    <2>2. Undisturbed
      <3>1. faults' = faults \/ faults = {}
        BY <2>1 DEF Sends, Repeats, Listens, SendCommand, Fault
      <3> QED BY <3>1 DEF Undisturbed
    <2>3. CASE Sends
      BY <2>1, <2>2, <2>3, SendKeepsOrder DEF OrderInv
    <2>4. CASE Repeats
      BY <2>1, <2>2, <2>4, RepeatKeepsOrder DEF OrderInv
    <2>5. CASE Listens
      BY <2>1, <2>2, <2>5
      DEF OrderInv, Listens, Behind, Kept, Accounted, ExecutedUpTo, ClaimedFirst, InOrder,
          Working, helperVars
    <2> QED BY <2>1, <2>3, <2>4, <2>5
  <1>2. Undisturbed
    <2>1. CASE UNCHANGED faults
      BY <2>1 DEF Undisturbed
    <2>2. CASE \E kind : Fault(kind)
      BY <2>2 DEF Fault, Undisturbed
    <2>3. CASE HelperClaims \/ WorkerLaunches \/ ToolExits \/ ClockStepsBack
      BY <2>1, <2>2, <2>3 DEF HelperClaims, WorkerLaunches, ToolExits, ClockStepsBack
    <2>4. CASE ProxySteps
      <3>1. faults' = faults \/ faults = {}
        BY <2>4, ProxyWrites DEF Sends, Repeats, Listens, SendCommand, Fault
      <3> QED BY <3>1 DEF Undisturbed
    <2>5. CASE HelperStarts \/ HelperLists \/ HelperExecutes \/ HelperRemoves
                 \/ HelperPublishes \/ HelperReplaces \/ HelperSkips \/ HelperDies
      BY <2>1, <2>5
      DEF HelperStarts, HelperLists, HelperExecutes, HelperRemoves, HelperPublishes,
          HelperReplaces, HelperSkips, HelperDies
    <2>6. CASE WorkerStops \/ StateAges \/ UNCHANGED vars
      BY <2>1, <2>6 DEF WorkerStops, StateAges, vars
    <2> QED
      BY <2>3, <2>4, <2>5, <2>6 DEF Next, ProxySteps, Helper, Worker, Environment
  <1>3. Behind /\ Kept /\ Accounted /\ ClaimedFirst /\ InOrder
    BY <1>2 DEF OrderInv
  <1>4. CASE UNCHANGED <<clock, files, claimed, pending, state, helper, batch, acknowledged,
                         draft, executed>>
    BY <1>3, <1>4 DEF Behind, Kept, Accounted, ExecutedUpTo, ClaimedFirst, InOrder, Working
  <1>5. CASE WorkerLaunches \/ WorkerStops \/ ToolExits
    BY <1>4, <1>5
    DEF WorkerLaunches, WorkerStops, ToolExits, workerUnchanged, helperUnchanged, proxyVars
  <1>6. CASE StateAges \/ UNCHANGED vars
    BY <1>4, <1>6 DEF StateAges, vars, proxyVars, helperVars
  <1>7. ~ClockStepsBack
    BY DEF ClockStepsBack, Fault, Undisturbed
  <1> USE DEF helperUnchanged, proxyVars, Working
  <1>8. CASE HelperStarts
    <2>1. Ids(files') = Ids(files) \cup (IF claimed # None THEN {claimed.id} ELSE {})
      BY <1>8 DEF HelperStarts, Written, Ids
    <2>2. Behind'
      BY <1>3, <1>8, BoundAssumption DEF Behind, HelperStarts, Written, TypeOK
    <2>3. Kept'
      BY <1>3, <1>8, <2>1 DEF Kept, HelperStarts
    <2>4. Accounted'
      BY <1>3, <1>8 DEF Accounted, ExecutedUpTo, HelperStarts
    <2> QED BY <1>8, <2>2, <2>3, <2>4 DEF HelperStarts, ClaimedFirst, InOrder
  <1>9. CASE HelperLists
    <2>1. claimed = None
      BY <1>3, <1>9 DEF HelperLists, ClaimedFirst
    <2>2. Behind' /\ Kept' /\ Accounted'
      BY <1>3, <1>9 DEF HelperLists, Behind, Kept, Accounted, ExecutedUpTo
    <2>3. ClaimedFirst' /\ InOrder'
      BY <1>3, <1>9, <2>1 DEF HelperLists, ClaimedFirst, InOrder, Kept
    <2> QED BY <2>2, <2>3
  <1>10. CASE HelperClaims
    <2>1. /\ Least(batch) \in batch
          /\ \A id \in batch' : Least(batch) < id /\ id \in batch
          /\ batch' = batch \ {Least(batch)}
      BY <1>10, LeastListed DEF HelperClaims
    <2>2. /\ claimed' \in files /\ claimed'.id = Least(batch)
          /\ files' = files \ {claimed'} /\ claimed' # None
      BY <1>10 DEF HelperClaims, Fault, Undisturbed, TypeOK
    <2>3. claimed = None /\ helper = "work"
          /\ UNCHANGED <<clock, pending, helper, state, acknowledged, draft, executed>>
      BY <1>10 DEF HelperClaims
    <2>4. Behind'
      BY <1>3, <2>2, <2>3 DEF Behind
    <2>5. Kept'
      BY <1>3, <2>2, <2>3 DEF Kept, Ids
    <2>6. Accounted' /\ ClaimedFirst'
      BY <1>3, <2>1, <2>2, <2>3 DEF Accounted, ExecutedUpTo, ClaimedFirst
    <2>7. InOrder'
      BY <1>3, <2>1, <2>2, <2>3 DEF InOrder
    <2> QED BY <2>4, <2>5, <2>6, <2>7
  <1>11. CASE HelperExecutes
    <2>1. /\ claimed # None /\ claimed \in Request /\ claimed.id \in 1..MaxId
          /\ claimed.id > acknowledged /\ helper = "work" /\ helper' = "remove"
          /\ acknowledged' = claimed.id
          /\ executed' = [executed EXCEPT ![claimed.id] = launches]
          /\ UNCHANGED <<clock, files, claimed, pending, state, batch, draft>>
      BY <1>11 DEF HelperExecutes, TypeOK, Request
    <2>2. launches # 0
      BY <2>1, BoundAssumption DEF OnceInv, TypeOK
    <2>3. /\ \A id \in 1..MaxId : executed[id] # 0 => executed'[id] # 0
          /\ executed'[claimed.id] # 0
      BY <2>1, <2>2 DEF TypeOK
    <2>4. clock \in 1..MaxId + 1 /\ MaxId \in Nat
      BY BoundAssumption DEF TypeOK
    <2>5. Behind' /\ ClaimedFirst'
      BY <1>3, <2>1 DEF Behind, ClaimedFirst
    <2>6. Kept'
      BY <1>3, <2>1, <2>3, <2>4 DEF Kept
    <2>7. InOrder'
      BY <1>3, <2>1, <2>3, <2>4 DEF InOrder
    <2>8. \A id \in 1..claimed.id : executed'[id] # 0
      <3> SUFFICES ASSUME NEW id \in 1..claimed.id, id # claimed.id
                   PROVE  executed[id] # 0
        BY <2>1, <2>3
      <3>1. id \in Nat /\ id < claimed.id /\ id \in 1..clock - 1 /\ claimed.id < clock
        BY <1>3, <2>1, <2>4 DEF Behind
      <3>2. ~(claimed.id < id) /\ claimed.id \in Nat
        BY <2>1, <3>1
      <3>3. id \notin batch
        BY <1>3, <2>1, <3>2 DEF ClaimedFirst
      <3> QED BY <1>3, <2>1, <3>1, <3>2, <3>3 DEF InOrder
    <2>9. Accounted'
      <3>1. state # None => state.ack \in 0..MaxId
        BY DEF TypeOK, State
      <3>2. draft # None => draft.ack \in 0..MaxId
        BY DEF TypeOK, State
      <3>3. ASSUME NEW n \in 0..MaxId, ExecutedUpTo(n)
            PROVE  ExecutedUpTo(n)'
        BY <2>3, <2>4, <3>3 DEF ExecutedUpTo
      <3>4. state # None => ExecutedUpTo(state.ack)'
        BY <1>3, <3>1, <2>1, <2>3, <2>4 DEF Accounted, ExecutedUpTo
      <3>5. draft # None => ExecutedUpTo(draft.ack)'
        BY <1>3, <3>2, <2>1, <2>3, <2>4 DEF Accounted, ExecutedUpTo
      <3> QED BY <2>1, <2>8, <3>4, <3>5 DEF Accounted, ExecutedUpTo
    <2> QED BY <2>5, <2>6, <2>7, <2>9
  <1>12. CASE HelperRemoves
    <2>1. /\ claimed # None /\ claimed.id \in 1..MaxId /\ claimed.id <= acknowledged
          /\ claimed' = None /\ Working /\ Working'
          /\ UNCHANGED <<clock, files, pending, state, batch, acknowledged, draft, executed>>
      BY <1>12 DEF HelperRemoves, OnceInv, TypeOK, Request
    <2>2. executed[claimed.id] # 0
      BY <1>3, <2>1, BoundAssumption DEF Accounted, ExecutedUpTo, TypeOK
    <2>3. Behind' /\ Accounted' /\ ClaimedFirst'
      BY <1>3, <2>1 DEF Behind, Accounted, ExecutedUpTo, ClaimedFirst
    <2>4. Kept' /\ InOrder'
      BY <1>3, <2>1, <2>2 DEF Kept, InOrder
    <2> QED BY <2>3, <2>4
  <1>13. CASE HelperPublishes
    <2>1. /\ draft'.ack = acknowledged /\ state' = None /\ helper' = "replace" /\ claimed = None
          /\ UNCHANGED <<clock, files, claimed, pending, batch, acknowledged, executed>>
      BY <1>13 DEF HelperPublishes
    <2> QED
      BY <1>3, <2>1 DEF Behind, Kept, Accounted, ExecutedUpTo, ClaimedFirst, InOrder
  <1>14. CASE HelperReplaces
    BY <1>3, <1>14
    DEF HelperReplaces, Behind, Kept, Accounted, ExecutedUpTo, ClaimedFirst, InOrder
  <1>15. CASE HelperSkips
    BY <1>3, <1>15
    DEF HelperSkips, Behind, Kept, Accounted, ExecutedUpTo, ClaimedFirst, InOrder
  <1>16. CASE HelperDies
    BY <1>3, <1>16, BoundAssumption
    DEF HelperDies, Behind, Kept, Accounted, ExecutedUpTo, ClaimedFirst, InOrder, TypeOK
  <1> QED
    BY <1>1, <1>5, <1>6, <1>7, <1>8, <1>9, <1>10, <1>11, <1>12, <1>13, <1>14, <1>15, <1>16
    DEF Next, ProxySteps, Helper, Worker, Environment

-----------------------------------------------------------------------------
(* The theorems *)

LEMMA InitInv == Init => Inv
  <1> SUFFICES ASSUME Init
               PROVE  Inv
    OBVIOUS
  <1> USE BoundAssumption DEF Init
  <1>1. TypeOK
    <2>1. 0 \in 0..MaxBoots /\ 0 \in 0..MaxHelpers /\ 0 \in 0..MaxId /\ 1 \in 1..MaxId + 1
      OBVIOUS
    <2>2. executed \in [1..MaxId -> 0..MaxHelpers]
      BY <2>1
    <2>3. batch \subseteq Ids(files) /\ todo \in Seq(Request)
      OBVIOUS
    <2> QED BY <2>1, <2>2, <2>3 DEF TypeOK, ToolState
  <1>2. OnceInv
    BY DEF OnceInv
  <1>3. OrderInv
    BY DEF OrderInv, Behind, Kept, Accounted, ExecutedUpTo, ClaimedFirst, InOrder, Working
  <1> QED BY <1>1, <1>2, <1>3 DEF Inv

LEMMA Invariance ==
    ASSUME None \notin Request
    PROVE  Spec => []Inv
  <1>1. Inv /\ [Next]_vars => Inv'
    BY TypeStep, OnceStep, OrderStep DEF Inv
  <1> QED BY <1>1, InitInv, PTL DEF Spec

LEMMA TypeInvariance == Spec => [](TypeOK /\ OnceInv)
  <1>1. Init => TypeOK /\ OnceInv
    BY InitInv DEF Inv
  <1>2. TypeOK /\ OnceInv /\ [Next]_vars => (TypeOK /\ OnceInv)'
    BY TypeStep, OnceStep
  <1> QED BY <1>1, <1>2, PTL DEF Spec

\* However many commands are sent and however often either side dies, every file, every number
\* and every published state is of its type; no helper works before it was launched.
THEOREM SpecTypeOK == Spec => []TypeOK
  <1> QED BY TypeInvariance, PTL

\* No helper executes a command twice: not when the proxy writes it again, not when the clock
\* steps back and gives its number to another.
THEOREM SpecAtMostOncePerHelper == Spec => AtMostOncePerHelper
  <1>1. TypeOK /\ OnceInv /\ [Next]_vars =>
          [(helper = "work" /\ helper' = "remove") => executed[claimed.id] # launches]_vars
    BY OnceStep
  <1> QED BY <1>1, TypeInvariance, PTL DEF Spec, AtMostOncePerHelper

\* While no file operation fails and the clock only moves on, what the state file acknowledges
\* was executed, whichever side dies at whatever point, and however often.
THEOREM SpecAcknowledgedIsExecuted ==
    ASSUME None \notin Request
    PROVE  Spec => []AcknowledgedIsExecuted
  <1>1. Inv => AcknowledgedIsExecuted
    <2> SUFFICES ASSUME Inv, state # None, Undisturbed,
                        NEW id \in 1..clock - 1, id <= state.ack
                 PROVE  executed[id] # 0
      BY DEF AcknowledgedIsExecuted, Undisturbed
    <2>1. state.ack \in Nat
      BY BoundAssumption DEF Inv, TypeOK, State
    <2> QED BY <2>1, BoundAssumption DEF Inv, OrderInv, Accounted, ExecutedUpTo, TypeOK
  <1> QED BY <1>1, Invariance, PTL

=============================================================================
