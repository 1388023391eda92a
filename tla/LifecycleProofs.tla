--------------------------- MODULE LifecycleProofs ---------------------------
(***************************************************************************)
(* Theorems about MqttLifecycle for any set of devices, any bound on the   *)
(* failure counter and any point at which the backoff overflows.           *)
(***************************************************************************)
EXTENDS MqttLifecycle, TLAPS

USE LifecycleAssumption

\* Whatever the failures before and the kind of the last, next_delay returns a wait
\* between the floor the broker needs and the cap.
LEMMA WaitBounds ==
  ASSUME NEW n \in Nat, NEW kind
  PROVE  Delays(n, kind) \subseteq ReconnectInitial..ReconnectMax
<1>1. Doubled(n) \in ReconnectInitial..ReconnectMax
  <2>1. CASE n < 4
    <3>1. n = 0 \/ n = 1 \/ n = 2 \/ n = 3
      BY <2>1
    <3>2. QED
      BY <2>1, <3>1 DEF Doubled, ReconnectInitial, ReconnectMax
  <2>2. CASE ~(n < 4)
    BY <2>2 DEF Doubled, ReconnectInitial, ReconnectMax
  <2>3. QED
    BY <2>1, <2>2
<1>2. BaseDelay(n, kind) \in ReconnectInitial..ReconnectMax
  BY <1>1 DEF BaseDelay, Least, ReconnectInitial, ReconnectMax
<1>3. \A b \in ReconnectInitial..ReconnectMax : (b * 5) \div 4 \in Nat /\ (b * 5) \div 4 >= b
  BY DEF ReconnectInitial, ReconnectMax
<1>4. QED
  BY <1>2, <1>3 DEF Delays, Least, ReconnectInitial, ReconnectMax

\* The state after the first refresh, with the first attempt under way, satisfies IInv.
LEMMA InitIInv == Init => IInv
<1> SUFFICES ASSUME Init PROVE IInv
  OBVIOUS
<1> USE DEF Init, LoopStates, LoopActive, DefaultScan, MqttScan
<1>1. Switches
  BY DEF Switches
<1>2. TypeOK
  BY <1>1 DEF TypeOK, ReconnectMax
<1>3. Control
  BY DEF Control
<1>4. UpMeansServed /\ NoLostSession /\ OneAttemptAtATime
  BY DEF UpMeansServed, NoLostSession, OneAttemptAtATime
<1>5. AlwaysReconnecting /\ StoppedStaysStopped /\ SlowRestNeedsMqtt /\ WaitInRange
  BY DEF AlwaysReconnecting, StoppedStaysStopped, SlowRestNeedsMqtt, WaitInRange
<1>6. QED
  BY <1>2, <1>3, <1>4, <1>5 DEF IInv

\* Every handler, every step of the executor thread and every event of the link
\* preserves IInv.
LEMMA NextIInv == IInv /\ [Next]_vars => IInv'
<1> SUFFICES ASSUME IInv, [Next]_vars PROVE IInv'
  OBVIOUS
<1> USE DEF LoopStates, LoopActive, DefaultScan, MqttScan
<1>1. ASSUME Prepared PROVE IInv'
  <2>0. Switches'
    BY <1>1 DEF Prepared, IInv, TypeOK, Switches
  <2>1. TypeOK'
    BY <1>1, <2>0 DEF Prepared, IInv, TypeOK
  <2>2. Control'
        BY <1>1 DEF Prepared, IInv, TypeOK, Switches, Control, OneAttemptAtATime,
       NoLostSession, StoppedStaysStopped
  <2>3. UpMeansServed' /\ NoLostSession' /\ OneAttemptAtATime'
        BY <1>1 DEF Prepared, IInv, TypeOK, Switches, Control, UpMeansServed,
       OneAttemptAtATime, NoLostSession
  <2>4. AlwaysReconnecting' /\ StoppedStaysStopped' /\ SlowRestNeedsMqtt' /\ WaitInRange'
        BY <1>1 DEF Prepared, IInv, TypeOK, Switches, Control, AlwaysReconnecting,
       AlreadyConnected, StoppedStaysStopped, SlowRestNeedsMqtt, WaitInRange
  <2>5. QED
    BY <2>1, <2>2, <2>3, <2>4 DEF IInv
<1>2. ASSUME StartReturns PROVE IInv'
  <2>0. Switches'
    BY <1>2 DEF StartReturns, ResetAttempt, StartedInterval, IInv, TypeOK, Switches
  <2>1. TypeOK'
    BY <1>2, <2>0 DEF StartReturns, ResetAttempt, StartedInterval, IInv, TypeOK
  <2>2. Control'
        BY <1>2 DEF StartReturns, ResetAttempt, StartedInterval, IInv, TypeOK, Switches,
       Control, OneAttemptAtATime, NoLostSession, StoppedStaysStopped
  <2>3. UpMeansServed' /\ NoLostSession' /\ OneAttemptAtATime'
        BY <1>2 DEF StartReturns, ResetAttempt, StartedInterval, IInv, TypeOK, Switches,
       Control, UpMeansServed, OneAttemptAtATime, NoLostSession,
       StoppedStaysStopped
  <2>4. AlwaysReconnecting' /\ StoppedStaysStopped' /\ SlowRestNeedsMqtt' /\ WaitInRange'
        BY <1>2 DEF StartReturns, ResetAttempt, StartedInterval, IInv, TypeOK, Switches,
       Control, AlwaysReconnecting, AlreadyConnected, StoppedStaysStopped,
       SlowRestNeedsMqtt, WaitInRange
  <2>5. QED
    BY <2>1, <2>2, <2>3, <2>4 DEF IInv
<1>3. ASSUME SetupFails PROVE IInv'
  <2>0. Switches'
    BY <1>3 DEF SetupFails, AttemptFails, AttemptOver, Rescheduled, IInv, TypeOK, Switches
  <2>1. TypeOK'
    BY <1>3, <2>0 DEF SetupFails, AttemptFails, AttemptOver, Rescheduled, IInv, TypeOK
  <2>2. Control'
        BY <1>3 DEF SetupFails, AttemptFails, AttemptOver, Rescheduled, IInv, TypeOK,
       Switches, Control, OneAttemptAtATime, NoLostSession,
       StoppedStaysStopped
  <2>3. UpMeansServed' /\ NoLostSession' /\ OneAttemptAtATime'
        BY <1>3 DEF SetupFails, AttemptFails, AttemptOver, Rescheduled, IInv, TypeOK,
       Switches, Control, UpMeansServed, OneAttemptAtATime, NoLostSession
  <2>4. AlwaysReconnecting' /\ StoppedStaysStopped' /\ SlowRestNeedsMqtt' /\ WaitInRange'
        BY <1>3 DEF SetupFails, AttemptFails, AttemptOver, Rescheduled, IInv, TypeOK,
       Switches, Control, AlwaysReconnecting, AlreadyConnected, StoppedStaysStopped,
       SlowRestNeedsMqtt, WaitInRange
  <2>5. QED
    BY <2>1, <2>2, <2>3, <2>4 DEF IInv
<1>4. ASSUME LoopDies PROVE IInv'
  <2>0. Switches'
    BY <1>4 DEF LoopDies, AttemptFails, AttemptOver, IInv, TypeOK, Switches
  <2>1. TypeOK'
    BY <1>4, <2>0 DEF LoopDies, AttemptFails, AttemptOver, IInv, TypeOK
  <2>2. Control'
        BY <1>4 DEF LoopDies, AttemptFails, AttemptOver, IInv, TypeOK, Switches,
       Control, OneAttemptAtATime, NoLostSession, StoppedStaysStopped
  <2>3. UpMeansServed' /\ NoLostSession' /\ OneAttemptAtATime'
        BY <1>4 DEF LoopDies, AttemptFails, AttemptOver, IInv, TypeOK, Switches,
       Control, UpMeansServed, OneAttemptAtATime, NoLostSession,
       StoppedStaysStopped
  <2>4. AlwaysReconnecting' /\ StoppedStaysStopped' /\ SlowRestNeedsMqtt' /\ WaitInRange'
        BY <1>4 DEF LoopDies, AttemptFails, AttemptOver, IInv, TypeOK, Switches,
       Control, AlwaysReconnecting, AlreadyConnected, StoppedStaysStopped,
       SlowRestNeedsMqtt, WaitInRange
  <2>5. QED
    BY <2>1, <2>2, <2>3, <2>4 DEF IInv
<1>5. ASSUME LoopAttempts PROVE IInv'
  <2>0. Switches'
    BY <1>5 DEF LoopAttempts, Cleanup, Disconnect, IInv, TypeOK, Switches
  <2>1. TypeOK'
    BY <1>5, <2>0 DEF LoopAttempts, Cleanup, Disconnect, IInv, TypeOK
  <2>2. Control'
        BY <1>5 DEF LoopAttempts, Cleanup, Disconnect, IInv, TypeOK, Switches, Control,
       OneAttemptAtATime, NoLostSession, StoppedStaysStopped
  <2>3. UpMeansServed' /\ NoLostSession' /\ OneAttemptAtATime'
        BY <1>5 DEF LoopAttempts, Cleanup, Disconnect, IInv, TypeOK, Switches, Control,
       UpMeansServed, OneAttemptAtATime, NoLostSession
  <2>4. AlwaysReconnecting' /\ StoppedStaysStopped' /\ SlowRestNeedsMqtt' /\ WaitInRange'
        BY <1>5 DEF LoopAttempts, Cleanup, Disconnect, IInv, TypeOK, Switches, Control,
       AlwaysReconnecting, AlreadyConnected, StoppedStaysStopped, SlowRestNeedsMqtt,
       WaitInRange
  <2>5. QED
    BY <2>1, <2>2, <2>3, <2>4 DEF IInv
<1>6. ASSUME LoopWakes PROVE IInv'
  <2>0. Switches'
    BY <1>6 DEF LoopWakes, IInv, TypeOK, Switches
  <2>1. TypeOK'
    BY <1>6, <2>0 DEF LoopWakes, IInv, TypeOK
  <2>2. Control'
        BY <1>6 DEF LoopWakes, IInv, TypeOK, Switches, Control, OneAttemptAtATime,
       NoLostSession, StoppedStaysStopped
  <2>3. UpMeansServed' /\ NoLostSession' /\ OneAttemptAtATime'
    BY <1>6 DEF LoopWakes, IInv, TypeOK, Control, UpMeansServed, OneAttemptAtATime,
       NoLostSession, StoppedStaysStopped
  <2>4. AlwaysReconnecting' /\ StoppedStaysStopped' /\ SlowRestNeedsMqtt' /\ WaitInRange'
        BY <1>6 DEF LoopWakes, IInv, TypeOK, Switches, Control, AlwaysReconnecting,
       AlreadyConnected, StoppedStaysStopped, SlowRestNeedsMqtt, WaitInRange
  <2>5. QED
    BY <2>1, <2>2, <2>3, <2>4 DEF IInv
<1>7. ASSUME ThreadStep PROVE IInv'
  <2>0. Switches'
        BY <1>7 DEF ThreadStep, ThreadMakesPaho, ThreadConnects, ThreadFails,
       ThreadRejected, IInv, TypeOK, Switches
  <2>1. TypeOK'
        BY <1>7, <2>0 DEF ThreadStep, ThreadMakesPaho, ThreadConnects, ThreadFails,
       ThreadRejected, IInv, TypeOK
  <2>2. Control'
        BY <1>7 DEF ThreadStep, ThreadMakesPaho, ThreadConnects, ThreadFails,
       ThreadRejected, IInv, TypeOK, Switches, Control, OneAttemptAtATime, NoLostSession, StoppedStaysStopped
  <2>3. UpMeansServed' /\ NoLostSession' /\ OneAttemptAtATime'
        BY <1>7 DEF ThreadStep, ThreadMakesPaho, ThreadConnects, ThreadFails,
       ThreadRejected, IInv, TypeOK, Switches, Control, UpMeansServed,
       OneAttemptAtATime, NoLostSession
  <2>4. AlwaysReconnecting' /\ StoppedStaysStopped' /\ SlowRestNeedsMqtt' /\ WaitInRange'
        BY <1>7 DEF ThreadStep, ThreadMakesPaho, ThreadConnects, ThreadFails,
       ThreadRejected, IInv, TypeOK, Control, OneAttemptAtATime, AlwaysReconnecting,
       AlreadyConnected, StoppedStaysStopped, SlowRestNeedsMqtt, WaitInRange
  <2>5. QED
    BY <2>1, <2>2, <2>3, <2>4 DEF IInv
<1>8. ASSUME RefreshDetectsLoss PROVE IInv'
  <2>0. Switches'
        BY <1>8 DEF RefreshDetectsLoss, Cleanup, Disconnect, RestoredInterval,
       Rescheduled, IInv, TypeOK, Switches
  <2>1. TypeOK'
        BY <1>8, <2>0 DEF RefreshDetectsLoss, Cleanup, Disconnect, RestoredInterval,
       Rescheduled, IInv, TypeOK
  <2>2. Control'
        BY <1>8 DEF RefreshDetectsLoss, Cleanup, Disconnect, RestoredInterval,
       Rescheduled, IInv, TypeOK, Switches, Control, OneAttemptAtATime, NoLostSession, StoppedStaysStopped
  <2>3. UpMeansServed' /\ NoLostSession' /\ OneAttemptAtATime'
        BY <1>8 DEF RefreshDetectsLoss, Cleanup, Disconnect, RestoredInterval,
       Rescheduled, IInv, TypeOK, Switches, Control, UpMeansServed, OneAttemptAtATime,
       NoLostSession
  <2>4. AlwaysReconnecting' /\ StoppedStaysStopped' /\ SlowRestNeedsMqtt' /\ WaitInRange'
        BY <1>8 DEF RefreshDetectsLoss, Cleanup, Disconnect, RestoredInterval,
       Rescheduled, IInv, TypeOK, Switches, Control, AlwaysReconnecting,
       AlreadyConnected, StoppedStaysStopped, SlowRestNeedsMqtt, WaitInRange
  <2>5. QED
    BY <2>1, <2>2, <2>3, <2>4 DEF IInv
<1>9. ASSUME NEW d \in MqttDevices, RefreshLearns(d) PROVE IInv'
  <2>0. Switches'
    BY <1>9 DEF RefreshLearns, IInv, TypeOK, Switches
  <2>1. TypeOK'
    BY <1>9, <2>0 DEF RefreshLearns, IInv, TypeOK
  <2>2. Control'
        BY <1>9 DEF RefreshLearns, IInv, TypeOK, Switches, Control, OneAttemptAtATime,
       NoLostSession, StoppedStaysStopped
  <2>3. UpMeansServed' /\ NoLostSession' /\ OneAttemptAtATime'
        BY <1>9 DEF RefreshLearns, IInv, TypeOK, Switches, Control, UpMeansServed,
       OneAttemptAtATime, NoLostSession
  <2>4. AlwaysReconnecting' /\ StoppedStaysStopped' /\ SlowRestNeedsMqtt' /\ WaitInRange'
        BY <1>9 DEF RefreshLearns, IInv, TypeOK, Switches, Control, AlwaysReconnecting,
       AlreadyConnected, StoppedStaysStopped, SlowRestNeedsMqtt, WaitInRange
  <2>5. QED
    BY <2>1, <2>2, <2>3, <2>4 DEF IInv
<1>10. ASSUME Stop PROVE IInv'
  <2>0. Switches'
        BY <1>10 DEF Stop, Cancellable, Cleanup, Disconnect, RestoredInterval, IInv,
       TypeOK, Switches
  <2>1. TypeOK'
        BY <1>10, <2>0 DEF Stop, Cancellable, Cleanup, Disconnect, RestoredInterval,
       IInv, TypeOK
  <2>2. Control'
        BY <1>10 DEF Stop, Cancellable, Cleanup, Disconnect, RestoredInterval, IInv,
       TypeOK, Switches, Control, OneAttemptAtATime, NoLostSession,
       StoppedStaysStopped
  <2>3. UpMeansServed' /\ NoLostSession' /\ OneAttemptAtATime'
        BY <1>10 DEF Stop, Cancellable, Cleanup, Disconnect, RestoredInterval, IInv,
       TypeOK, Switches, Control, UpMeansServed, OneAttemptAtATime, NoLostSession
  <2>4. AlwaysReconnecting' /\ StoppedStaysStopped' /\ SlowRestNeedsMqtt' /\ WaitInRange'
        BY <1>10 DEF Stop, Cancellable, Cleanup, Disconnect, RestoredInterval, IInv,
       TypeOK, Switches, Control, AlwaysReconnecting, AlreadyConnected,
       StoppedStaysStopped, SlowRestNeedsMqtt, WaitInRange
  <2>5. QED
    BY <2>1, <2>2, <2>3, <2>4 DEF IInv
<1>11. ASSUME LoopFails PROVE IInv'
  <2>1. delay' \in ReconnectInitial..ReconnectMax
    BY <1>11, WaitBounds DEF LoopFails, IInv, TypeOK
  <2>0. Switches'
    BY <1>11 DEF LoopFails, AttemptFails, Cleanup, Disconnect, IInv, TypeOK, Switches
  <2>2. TypeOK'
        BY <1>11, <2>0, <2>1 DEF LoopFails, NextAttempt, Least, AttemptFails,
       AttemptOver, Cleanup,
       Disconnect, IInv, TypeOK, ReconnectInitial, ReconnectMax
  <2>3. Control'
    BY <1>11 DEF LoopFails, AttemptFails, AttemptOver, Cleanup, Disconnect, IInv, TypeOK,
       Control, StoppedStaysStopped, OneAttemptAtATime
  <2>4. UpMeansServed' /\ NoLostSession' /\ OneAttemptAtATime' /\ AlwaysReconnecting'
    BY <1>11 DEF LoopFails, AttemptFails, AttemptOver, Cleanup, Disconnect, IInv, TypeOK,
       Control, UpMeansServed, NoLostSession, OneAttemptAtATime, AlwaysReconnecting,
       AlreadyConnected
  <2>5. StoppedStaysStopped' /\ SlowRestNeedsMqtt' /\ WaitInRange'
        BY <1>11, <2>1 DEF LoopFails, AttemptFails, Cleanup, Disconnect, IInv, TypeOK,
       Switches, Control,
       StoppedStaysStopped, SlowRestNeedsMqtt, WaitInRange
  <2>6. QED
    BY <2>2, <2>3, <2>4, <2>5 DEF IInv
<1>12. ASSUME LinkDrops \/ PahoReconnects PROVE IInv'
      BY <1>12 DEF LinkDrops, PahoReconnects, IInv, TypeOK, Switches, Control,
       UpMeansServed, NoLostSession,
     OneAttemptAtATime, AlwaysReconnecting, AlreadyConnected, StoppedStaysStopped,
     SlowRestNeedsMqtt, WaitInRange
<1>13. ASSUME UNCHANGED vars PROVE IInv'
      BY <1>13 DEF vars, IInv, TypeOK, Switches, Control, UpMeansServed, NoLostSession,
     OneAttemptAtATime, AlwaysReconnecting, AlreadyConnected, StoppedStaysStopped,
     SlowRestNeedsMqtt, WaitInRange
<1>14. QED
  BY <1>1, <1>2, <1>3, <1>4, <1>5, <1>6, <1>7, <1>8, <1>9, <1>10, <1>11, <1>12, <1>13
     DEF Next, StartStep, LoopStep

\* IInv is an invariant of the lifecycle: what the setup task, the reconnect loop,
\* the executor thread and the refresh rely on about one another.
THEOREM LifecycleInvariant == Spec => []IInv
  BY InitIInv, NextIInv, PTL DEF Spec

\* Type correctness of the manager's and the client's state.
THEOREM LifecycleTypes == Spec => []TypeOK
  BY LifecycleInvariant, PTL DEF IInv

\* _mqtt_connected is never set without a client, a poll task and a reset backoff.
THEOREM UpIsServed == Spec => []UpMeansServed
  BY LifecycleInvariant, PTL DEF IInv

\* A client that the manager has let go of leaves no session behind, but for a stop that
\* finds the executor busy.
THEOREM SessionsAreReachable == Spec => []NoLostSession
  BY LifecycleInvariant, PTL DEF IInv

\* Two connection attempts never overlap, even through the executor.
THEOREM AttemptsDoNotOverlap == Spec => []OneAttemptAtATime
  BY LifecycleInvariant, PTL DEF IInv

\* After async_stop no handler of the integration starts anything again.
THEOREM StopIsFinal == Spec => []StoppedStaysStopped
  BY LifecycleInvariant, PTL DEF IInv

\* Every wait of the reconnect loop is between 45 and 600 seconds, whatever the
\* number and kinds of the failures before it.
THEOREM WaitsAreBounded == Spec => []WaitInRange
  BY LifecycleInvariant, PTL DEF IInv

==============================================================================
