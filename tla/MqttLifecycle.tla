---------------------------- MODULE MqttLifecycle ----------------------------
(***************************************************************************)
(* The life of the MQTT connection: mqtt_manager.py (async_start,          *)
(* async_stop, the reconnect loop), api/mqtt_client.py (the two connect    *)
(* phases, paho's own network thread), mqtt/connection.py (backoff), and   *)
(* the parts of coordinator.py and __init__.py that start, watch and stop  *)
(* it.                                                                     *)
(*                                                                         *)
(* Four threads of control meet here: the event loop's setup task and      *)
(* reconnect task, the executor thread that runs connect_blocking, paho's  *)
(* network thread, and the periodic REST refresh.  At most one async_start *)
(* is in progress; a cancelled one leaves its executor thread running.     *)
(***************************************************************************)
EXTENDS Integers, Sequences

CONSTANTS MqttDevices,  \* configured devices on the mqtt+rest data path
          RestOnly,     \* TRUE if some configured device has only REST
          MaxAttempt,   \* bound: the failure counter is not counted beyond it
          OverflowAt    \* attempts at which 45.0 * 2 ** attempt overflows (1024)

ASSUME LifecycleAssumption ==
    /\ RestOnly \in BOOLEAN
    /\ MaxAttempt \in Nat
    /\ OverflowAt \in Nat

DefaultScan == 30   \* DEFAULT_SCAN_INTERVAL, seconds
MqttScan == 60      \* MQTT_SCAN_INTERVAL

(* mqtt/connection.py                                                        *)
ReconnectInitial == 45
ReconnectMax == 600
Kinds == {"session_conflict", "unreachable", "auth", "unknown"}

VARIABLES stopping,    \* manager._stopping
          setup,       \* async_setup_entry: "starting" or "done"
          loop,        \* manager._reconnect_task
          phase,       \* the async_start in progress: "none", "prepare", "connect"
          owner,       \* who awaits that async_start: "none", "setup", "loop"
          flag,        \* manager._mqtt_connected
          held,        \* manager._mqtt_client is not None
          paho,        \* newest client: "none" (no paho object), "offline", "online"
          network,     \* paho's background network thread runs
          thread,      \* executor thread inside connect_blocking
          poll,        \* manager._poll_task is running
          attempt,     \* ReconnectPolicy._attempt
          delay,       \* the last wait chosen, seconds
          interval,    \* coordinator.update_interval, seconds
          known,       \* devices whose sub_sn the coordinator's data holds
          topics       \* devices in _topic_to_sn, subscribed at the broker

vars == <<stopping, setup, loop, phase, owner, flag, held, paho, network, thread,
          poll, attempt, delay, interval, known, topics>>

LoopActive == {"ready", "starting", "sleeping"}
LoopStates == LoopActive \cup {"none", "done", "dead", "cancelled"}

------------------------------------------------------------------------------
(* ReconnectPolicy.                                                          *)

\* min(a, b), as Python's builtin.
Least(a, b) == IF a <= b THEN a ELSE b

\* A mutated form of the delays that follow: jitter may shorten a wait.
JitterBothWays(n, kind) == {ReconnectInitial, (ReconnectInitial * 3) \div 4}

\* min(RECONNECT_INITIAL * 2 ** _attempt, RECONNECT_MAX): the fifth wait is past
\* the cap.
Doubled(n) ==
    IF n < 4 THEN ReconnectInitial * <<1, 2, 4, 8>>[n + 1] ELSE ReconnectMax

\* Stretched for a contended session, and capped again.
BaseDelay(n, kind) ==
    IF kind = "session_conflict" THEN Least(Doubled(n) * 2, ReconnectMax) ELSE Doubled(n)

\* Jitter extends a wait by up to a quarter and never past the cap: the two ends
\* of its range, in whole seconds.
Delays(n, kind) ==
    LET base == BaseDelay(n, kind)
    IN {base, Least((base * 5) \div 4, ReconnectMax)}

\* The float product overflows: next_delay raises instead of returning.
Overflows(n) == n >= OverflowAt

NextAttempt == Least(attempt + 1, MaxAttempt)

------------------------------------------------------------------------------
(* Mutated forms, each standing for a plausible bug in the operator it       *)
(* replaces when the mutation runs are made.                                 *)

SessionForgotten == UNCHANGED <<paho, network>>
NotRescheduled(s) == s
OnlyIdleCancelled == {"ready", "sleeping"}
NoReset == attempt
AttemptTimedOut == phase # "none"

------------------------------------------------------------------------------
(* Pieces shared by several handlers.                                        *)

\* disconnect(): stop the network thread, send DISCONNECT, drop the paho object.
\* It does nothing while the executor thread has not made a paho object yet.
Disconnect == paho' = "none" /\ network' = FALSE

\* ReconnectPolicy.reset, when a connection succeeded.
ResetAttempt == 0

\* An attempt fails when async_prepare raises, or when connect_blocking has
\* raised: the executor thread is never left behind.
AttemptOver == phase = "prepare" \/ thread \in {"failed", "rejected"}

\* The REST interval once MQTT is up.
StartedInterval == IF RestOnly THEN DefaultScan ELSE MqttScan

\* async_stop cancels the reconnect task unless it is done.
Cancellable == LoopActive

\* The REST interval once a connection is lost or given up.
RestoredInterval == DefaultScan

\* _cleanup_mqtt_client: cancel the poll task, disconnect and drop the client,
\* which async_start replaces at once by a new one.
Cleanup(replaced) ==
    /\ poll' = FALSE
    /\ IF held THEN Disconnect ELSE UNCHANGED <<paho, network>>
    /\ held' = replaced
    /\ flag' = FALSE

\* _schedule_reconnect: one reconnect task at a time, none once stopping.
Rescheduled(s) == IF stopping \/ s \in LoopActive THEN s ELSE "ready"

\* async_start returns at once when this holds.
AlreadyConnected == held /\ paho = "online"

------------------------------------------------------------------------------
\* async_setup_entry after the first refresh: the first async_start is under way.
Init ==
    /\ stopping = FALSE /\ setup = "starting" /\ loop = "none"
    /\ phase = "prepare" /\ owner = "setup"
    /\ flag = FALSE /\ held = TRUE /\ paho = "none" /\ network = FALSE
    /\ thread = "idle" /\ poll = FALSE
    /\ attempt = 0 /\ delay = 0
    /\ interval = DefaultScan
    /\ known \in SUBSET MqttDevices
    /\ topics = {}

(* async_start.                                                              *)

\* async_prepare succeeded; connect_blocking is handed to the executor.
Prepared ==
    /\ phase = "prepare"
    /\ phase' = "connect" /\ thread' = "early"
    /\ UNCHANGED <<stopping, setup, loop, owner, flag, held, paho, network, poll,
                   attempt, delay, interval, known, topics>>

\* connect_blocking returned: subscribe to the devices known now, slow REST down
\* unless a device depends on it, start polling.  The caller is done.
StartReturns ==
    /\ phase = "connect" /\ thread = "ok"
    /\ phase' = "none" /\ owner' = "none" /\ thread' = "idle"
    /\ flag' = TRUE /\ poll' = TRUE /\ attempt' = ResetAttempt
    /\ topics' = topics \cup known
    /\ interval' = StartedInterval
    /\ setup' = "done"
    /\ loop' = IF owner = "loop" THEN "done" ELSE loop
    /\ UNCHANGED <<stopping, held, paho, network, delay, known>>

\* What the failure of an attempt looks like to classify_failure.
FailureKinds ==
    CASE phase = "prepare" -> {"auth", "unknown"}
      [] thread = "failed" -> {"unreachable", "unknown"}
      [] thread = "rejected" -> {"session_conflict"}
      [] OTHER -> {}

AttemptFails ==
    /\ AttemptOver
    /\ phase' = "none" /\ owner' = "none"
    /\ thread' = IF thread \in {"failed", "rejected"} THEN "idle" ELSE thread

\* async_setup_entry's handler: the client is left as it is, a reconnect task is
\* scheduled, setup goes on.
SetupFails ==
    /\ owner = "setup" /\ AttemptFails
    /\ setup' = "done"
    /\ loop' = Rescheduled(loop)
    /\ UNCHANGED <<stopping, flag, held, paho, network, poll, attempt, delay,
                   interval, known, topics>>

\* The reconnect loop's handler: choose a wait, clean up, go to sleep.
LoopFails ==
    /\ owner = "loop" /\ AttemptFails
    /\ ~Overflows(attempt)
    /\ \E kind \in FailureKinds : delay' \in Delays(attempt, kind)
    /\ attempt' = NextAttempt
    /\ Cleanup(FALSE)
    /\ loop' = "sleeping"
    /\ UNCHANGED <<stopping, setup, interval, known, topics>>

\* The same handler when next_delay raises: the exception ends the task.
LoopDies ==
    /\ owner = "loop" /\ AttemptFails
    /\ Overflows(attempt)
    /\ loop' = "dead"
    /\ UNCHANGED <<stopping, setup, flag, held, paho, network, poll, attempt, delay,
                   interval, known, topics>>

\* One round of the reconnect loop begins.  async_start's early return for a
\* client that is already connected has no step: see AlwaysReconnecting.
LoopAttempts ==
    /\ loop = "ready" /\ ~stopping
    /\ ~AlreadyConnected
    /\ loop' = "starting"
    /\ phase' = "prepare" /\ owner' = "loop"
    /\ Cleanup(TRUE)
    /\ UNCHANGED <<stopping, setup, thread, attempt, delay, interval, known, topics>>

LoopWakes ==
    /\ loop = "sleeping"
    /\ loop' = "ready"
    /\ UNCHANGED <<stopping, setup, phase, owner, flag, held, paho, network, thread,
                   poll, attempt, delay, interval, known, topics>>

(* connect_blocking, in the executor thread.                                 *)

\* Steps 1 to 3 succeed and a paho object exists from here on.
ThreadMakesPaho ==
    /\ thread = "early"
    /\ thread' = "handshake" /\ paho' = "offline"
    /\ UNCHANGED <<stopping, setup, loop, phase, owner, flag, held, network, poll,
                   attempt, delay, interval, known, topics>>

\* CONNACK accepted, then loop_start().
ThreadConnects ==
    /\ thread = "handshake" /\ paho = "offline"
    /\ thread' = "ok" /\ paho' = "online" /\ network' = TRUE
    /\ UNCHANGED <<stopping, setup, loop, phase, owner, flag, held, poll,
                   attempt, delay, interval, known, topics>>

\* No certificate, no TCP, no TLS, a network error, or the paho object was
\* dropped by disconnect() under the thread: an exception.
ThreadFails ==
    /\ thread \in {"early", "handshake"}
    /\ thread' = "failed"
    /\ UNCHANGED <<stopping, setup, loop, phase, owner, flag, held, paho, network,
                   poll, attempt, delay, interval, known, topics>>

\* CONNACK refused or never received.
ThreadRejected ==
    /\ thread = "handshake" /\ paho = "offline"
    /\ thread' = "rejected"
    /\ UNCHANGED <<stopping, setup, loop, phase, owner, flag, held, paho, network,
                   poll, attempt, delay, interval, known, topics>>

(* The rest of the integration.                                              *)

\* A REST refresh that finds the connection lost.
RefreshDetectsLoss ==
    /\ setup = "done"
    /\ flag /\ held /\ paho # "online"
    /\ Cleanup(FALSE)
    /\ interval' = RestoredInterval
    /\ loop' = Rescheduled(loop)
    /\ UNCHANGED <<stopping, setup, phase, owner, thread, attempt, delay,
                   known, topics>>

\* A REST refresh whose device list has the sub_sn of one more device.
RefreshLearns(d) ==
    /\ setup = "done" /\ d \notin known
    /\ known' = known \cup {d}
    /\ UNCHANGED <<stopping, setup, loop, phase, owner, flag, held, paho, network,
                   thread, poll, attempt, delay, interval, topics>>

\* async_stop, at unload or shutdown.  Cancelling the reconnect task abandons the
\* async_start it awaits, but not that one's executor thread.
Stop ==
    /\ setup = "done"
    /\ stopping' = TRUE
    /\ IF loop \in Cancellable
       THEN loop' = "cancelled" /\ phase' = "none" /\ owner' = "none"
       ELSE UNCHANGED <<loop, phase, owner>>
    /\ Cleanup(FALSE)
    /\ topics' = {}
    /\ interval' = RestoredInterval
    /\ UNCHANGED <<setup, thread, attempt, delay, known>>

(* The link, seen by paho's network thread.                                  *)

LinkDrops ==
    /\ paho = "online"
    /\ paho' = "offline"
    /\ UNCHANGED <<stopping, setup, loop, phase, owner, flag, held, network, thread,
                   poll, attempt, delay, interval, known, topics>>

\* paho reconnects by itself and subscribes again in _on_connect.
PahoReconnects ==
    /\ paho = "offline" /\ network
    /\ paho' = "online"
    /\ UNCHANGED <<stopping, setup, loop, phase, owner, flag, held, network, thread,
                   poll, attempt, delay, interval, known, topics>>

------------------------------------------------------------------------------
ThreadStep == ThreadMakesPaho \/ ThreadConnects \/ ThreadFails \/ ThreadRejected
LoopStep == LoopAttempts \/ LoopWakes
StartStep == Prepared \/ StartReturns \/ SetupFails \/ LoopFails \/ LoopDies

Next ==
    \/ StartStep
    \/ LoopStep
    \/ ThreadStep
    \/ RefreshDetectsLoss
    \/ \E d \in MqttDevices : RefreshLearns(d)
    \/ Stop
    \/ LinkDrops
    \/ PahoReconnects

Spec == Init /\ [][Next]_vars

\* The event loop and the executor run what is ready, sleeps and network calls
\* end (every one of them has a timeout), and Home Assistant keeps refreshing:
\* the refresh timer is only put off by MQTT pushes, and none arrive while the
\* connection is lost.  Nothing is assumed of the broker.
Fairness ==
    /\ WF_vars(StartStep) /\ WF_vars(LoopStep) /\ WF_vars(ThreadStep)
    /\ WF_vars(RefreshDetectsLoss)

FairSpec == Spec /\ Fairness

\* The broker and the certificate service do not refuse for ever: a connection
\* that is attempted again and again succeeds in the end.
BrokerRelents == SF_vars(Prepared) /\ SF_vars(ThreadMakesPaho) /\ SF_vars(ThreadConnects)

RelentingSpec == FairSpec /\ BrokerRelents

------------------------------------------------------------------------------
(* Properties.                                                               *)

\* Type correctness.
Switches ==
    /\ stopping \in BOOLEAN /\ flag \in BOOLEAN /\ held \in BOOLEAN
    /\ network \in BOOLEAN /\ poll \in BOOLEAN
TypeOK ==
    /\ Switches
    /\ setup \in {"starting", "done"}
    /\ loop \in LoopStates
    /\ phase \in {"none", "prepare", "connect"}
    /\ owner \in {"none", "setup", "loop"}
    /\ paho \in {"none", "offline", "online"}
    /\ thread \in {"idle", "early", "handshake", "ok", "failed", "rejected"}
    /\ attempt \in 0..MaxAttempt
    /\ delay \in 0..ReconnectMax
    /\ interval \in {DefaultScan, MqttScan}
    /\ known \subseteq MqttDevices /\ topics \subseteq MqttDevices

\* _mqtt_connected is only set while there is a client to use, the poll task runs
\* and no reconnect task competes with it; the backoff then starts afresh.
UpMeansServed ==
    flag => /\ held /\ poll /\ paho # "none"
            /\ loop \notin LoopActive
            /\ phase = "none"
            /\ attempt = 0

\* A client the manager has let go of leaves no session behind, whether an attempt failed,
\* the link was lost, the client was replaced or the integration stopped, except by a stop
\* that finds connect_blocking in the executor (the account has a single session).
NoLostSession == ~held /\ (~stopping \/ thread = "idle") => paho = "none" /\ ~network

\* Until the integration stops, connect_blocking runs in the executor only for
\* the async_start that waits for it, and a new attempt never starts while an
\* older one is in the executor: two never write the same PEM files at once.
OneAttemptAtATime ==
    /\ ~stopping /\ thread # "idle" => phase = "connect"
    /\ loop = "ready" => phase = "none" /\ owner = "none" /\ thread = "idle"

\* The reconnect loop never runs on a connected client, so async_start's early
\* return is not taken from it.
AlwaysReconnecting == loop = "ready" => ~AlreadyConnected

\* After async_stop nothing comes back to life: no client, no polling, no
\* reconnect task, no topic to route a frame by, and REST at its fast pace.
StoppedStaysStopped ==
    stopping => /\ ~held /\ ~flag /\ ~poll
                /\ loop \notin LoopActive
                /\ topics = {}
                /\ interval = DefaultScan

\* REST is slowed down only while MQTT was up at the last look, and never when a
\* device has nothing but REST.
SlowRestNeedsMqtt == interval = MqttScan => flag /\ ~RestOnly

\* Every wait the loop sleeps for lies between the floor the broker needs and the
\* cap, after any number of failures of any kind, jitter included.
WaitInRange == loop = "sleeping" => delay \in ReconnectInitial..ReconnectMax

\* When the broker relents, the integration is on line again and again, whatever attempts
\* failed before, unless the backoff has overflowed and ended the reconnect task.
BackOnline == []<>(paho = "online" \/ stopping \/ loop = "dead")

\* What the threads of control know of one another: who waits for the async_start
\* in progress, how far the executor thread has come for it, and that the link is
\* neither up nor coming up whenever a reconnect task starts or sleeps.
Control ==
    /\ phase = "none" <=> owner = "none"
    /\ owner = "setup" <=> setup = "starting"
    /\ owner = "loop" <=> loop = "starting"
    /\ setup = "starting" => loop = "none" /\ ~stopping
    /\ phase # "none" => held /\ ~flag /\ ~poll
    /\ phase = "prepare" => paho = "none" /\ ~network /\ thread = "idle"
    /\ phase = "connect" => thread # "idle"
    /\ phase = "connect" /\ thread \in {"early", "handshake", "failed", "rejected"}
           => ~network /\ paho # "online"
    /\ phase = "connect" /\ thread = "ok" => paho # "none"
    /\ ~stopping /\ phase = "none" /\ ~flag => ~network /\ paho # "online"
    /\ loop \in {"ready", "sleeping", "dead"} => phase = "none" /\ ~flag
    /\ flag => ~stopping
    /\ poll => flag

\* The inductive invariant.
IInv ==
    /\ TypeOK /\ Control
    /\ UpMeansServed /\ NoLostSession /\ OneAttemptAtATime
    /\ AlwaysReconnecting /\ StoppedStaysStopped /\ SlowRestNeedsMqtt /\ WaitInRange

(* A statement of the repository that the code does not meet.                *)

\* mqtt_manager.py, async_stop: "Disconnect MQTT client, cancel reconnection, and
\* clean up."
NoSessionAfterStop == stopping => paho # "online"

==============================================================================
