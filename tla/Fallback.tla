------------------------------- MODULE Fallback -------------------------------
(***************************************************************************)
(* MQTT and REST together, in time: the timer of the REST refresh, which   *)
(* every push of MQTT data restarts, the two intervals, the loss of the    *)
(* link that only a refresh notices, and the entities, whose availability  *)
(* is judged by the age of the last contact but only when they are written *)
(* (coordinator.py, entity.py, mqtt_manager.py).                           *)
(*                                                                         *)
(* A config entry has a device that is read over MQTT and REST, "hybrid",  *)
(* and maybe one that has REST only.  A refresh looks at the link when it  *)
(* begins and then awaits its requests, one after another; frames, pushes, *)
(* losses and new connections come in between.  A connection is there or   *)
(* not: MqttLifecycle has how it is made.                                  *)
(*                                                                         *)
(* The parts of the specification have Fallback in their names, to be told *)
(* from Session's where both are extended.                                 *)
(***************************************************************************)
EXTENDS Integers

CONSTANTS Fast,   \* DEFAULT_SCAN_INTERVAL
          Slow,   \* MQTT_SCAN_INTERVAL
          Stale,  \* DEVICE_STALE_AFTER
          Longest \* bound: the time a refresh takes, with the timeouts of the HTTP session

ASSUME FallbackAssumption ==
    /\ Fast \in Nat \ {0} /\ Slow \in Nat /\ Stale \in Nat \ {0} /\ Fast <= Slow
    /\ Longest \in Nat

\* Each device of the entry is known by its kind.
Kinds == {"hybrid", "rest"}

VARIABLES devices,   \* the entry's devices, never changed
          link,      \* the MQTT client is connected
          lost,      \* time since it no longer was
          connected, \* manager._mqtt_connected, with a client
          interval,  \* coordinator.update_interval
          due,       \* time until the timer of the next refresh, NoTimer if none is set
          running,   \* a refresh is under way
          since,     \* time since the last refresh began or, if it has ended, ended
          pushed,    \* whether the timer was restarted since then
          left,      \* devices the refresh has not read yet
          result,    \* ages of last_seen in its result
          overlay,   \* age of last_seen in overlays["hybrid"]
          cache,     \* ages of last_seen in _last_good_data
          data,      \* ages of last_seen in coordinator.data
          silence,   \* ages of what the integration last received from each device
          success,   \* coordinator.last_update_success
          shown      \* the devices whose entities were written as available

conn == <<link, lost, connected>>
timer == <<interval, due, since, pushed>>
refresh == <<running, left, result>>
ages == <<overlay, cache, data, silence>>
entities == <<success, shown>>
fallbackVars == <<devices, conn, timer, refresh, ages, entities>>

\* From the end of one refresh to the end of the next.
Round == Slow + Longest
NoTimer == Slow + 1
Longer(time) == IF time <= Round THEN time + 1 ELSE time

\* Ages are told apart up to Old, the most an available device's may be.  No time at all
\* counts as older than any.
Old == Stale + Round
Never == Old + 1
Ages == 0..Never
Unread == [d \in Kinds |-> Never]
Older(age) == IF age < Old THEN age + 1 ELSE age
Newer(a, b) == IF a <= b THEN a ELSE b

Overlay(d) == IF d = "hybrid" THEN overlay ELSE Never

------------------------------------------------------------------------------
(* Mutated forms, each standing for a plausible bug in the operator it       *)
(* replaces when the mutation runs are made.                                 *)

ListedIsHeard(d, heard) == 0
AfterSuccess == connected /\ ~link /\ success
SlowUntilStop(noticed) == interval

------------------------------------------------------------------------------
(* Pieces of the handlers.                                                   *)

\* A device without a contact time counts as reachable.
is_device_reachable(age) == age = Never \/ age < Stale

\* CoordinatorEntity.available and BluettiCloudEntity.available, as the entities write
\* their states.
Written(ok, contact) == {d \in Kinds : ok /\ is_device_reachable(contact[d])}

\* The contact time of a device the refresh has read: the overlay's replaces that of REST,
\* then the previous refresh's counts if it is newer.
Kept(d, heard) ==
    LET fetched == IF Overlay(d) # Never THEN Overlay(d) ELSE IF heard THEN 0 ELSE Never
    IN Newer(cache[d], fetched)

\* The refresh looks at the link before it lists devices, so also if that fails; and never
\* again before the next one.
LossNoticed == connected /\ ~link

RestoredInterval(noticed) == IF noticed THEN Fast ELSE interval

\* async_start slows the refresh unless REST is the only source of some device.
StartedInterval == IF "rest" \in devices THEN Fast ELSE Slow

\* The coordinator has the outcome of the refresh: it writes the entities and sets the
\* timer anew.  If a push did so meanwhile and that timer has fired, the refresh it is for
\* has waited for this one and is due now.
Concludes ==
    /\ running
    /\ running' = FALSE /\ left' = {} /\ result' = Unread
    /\ due' = IF due = 0 THEN 0 ELSE interval
    /\ since' = 0 /\ pushed' = FALSE
    /\ shown' = Written(success', data')
    /\ UNCHANGED <<devices, conn, interval, overlay, silence>>

------------------------------------------------------------------------------
\* Set up, after a first refresh that has heard some of the devices.
FallbackInit ==
    /\ devices \in {{"hybrid"}, {"hybrid", "rest"}}
    /\ link = FALSE /\ lost = Round + 1 /\ connected = FALSE
    /\ interval = Fast /\ due = Fast /\ since = 0 /\ pushed = FALSE
    /\ running = FALSE /\ left = {} /\ result = Unread
    /\ overlay = Never
    /\ data \in [Kinds -> {0, Never}] /\ cache = data /\ silence = data
    /\ success = TRUE /\ shown = Kinds

\* Time passes, unless a refresh is due or has taken its time.
Tick ==
    /\ IF running THEN since < Longest ELSE due > 0
    /\ due' = IF due \in 1..Slow THEN due - 1 ELSE due
    /\ since' = Longer(since) /\ lost' = Longer(lost)
    /\ overlay' = Older(overlay)
    /\ cache' = [d \in Kinds |-> Older(cache[d])]
    /\ data' = [d \in Kinds |-> Older(data[d])]
    /\ result' = [d \in Kinds |-> Older(result[d])]
    /\ silence' = [d \in Kinds |-> Older(silence[d])]
    /\ UNCHANGED <<devices, link, connected, interval, pushed, running, left, entities>>

(* _async_update_data, whose timer is gone once it has fired.                *)

RefreshBegins ==
    /\ ~running /\ due = 0
    /\ connected' = (connected /\ ~LossNoticed)
    /\ interval' = RestoredInterval(LossNoticed)
    /\ running' = TRUE /\ left' = devices /\ due' = NoTimer /\ since' = 0 /\ pushed' = FALSE
    /\ UNCHANGED <<devices, link, lost, result, ages, entities>>

\* A device of the list has been read, with real telemetry or without.
ReadsDevice(d, heard) ==
    /\ d \in left
    /\ left' = left \ {d}
    /\ result' = [result EXCEPT ![d] = Kept(d, heard)]
    /\ silence' = [silence EXCEPT ![d] = IF heard THEN 0 ELSE @]
    /\ UNCHANGED <<devices, conn, timer, running, overlay, cache, data, entities>>

\* A device that is missing from the list keeps what is cached.
MissesDevice(d) ==
    /\ d \in left
    /\ left' = left \ {d}
    /\ result' = [result EXCEPT ![d] = cache[d]]
    /\ UNCHANGED <<devices, conn, timer, running, ages, entities>>

RefreshEnds ==
    /\ left = {}
    /\ data' = result /\ cache' = result /\ success' = TRUE
    /\ Concludes

\* The list fails, and the cached result is shown.
RefreshFails ==
    /\ left = devices
    /\ data' = cache /\ success' = TRUE
    /\ UNCHANGED cache
    /\ Concludes

\* The retry after code 805 of some request fails with an error of aiohttp, which nothing
\* handles.
RefreshRaises ==
    /\ success' = FALSE
    /\ UNCHANGED <<cache, data>>
    /\ Concludes

(* MQTT.                                                                     *)

\* A frame, maybe one still in the queue of the event loop when the link was lost.
Frame ==
    /\ link \/ lost = 0
    /\ overlay' = 0 /\ silence' = [silence EXCEPT !["hybrid"] = 0]

\* _note_seen alone: a frame that nothing is made of.
QuietFrame == Frame /\ UNCHANGED <<devices, conn, timer, refresh, cache, data, entities>>

\* _push_mqtt_update: async_set_updated_data restarts the timer and writes all entities; a
\* refresh that waits for the one under way waits on.
Push ==
    /\ Frame
    /\ data' = [data EXCEPT !["hybrid"] = 0] /\ success' = TRUE
    /\ shown' = Written(TRUE, data')
    /\ due' = IF running /\ due = 0 THEN 0 ELSE interval
    /\ pushed' = TRUE
    /\ UNCHANGED <<devices, conn, interval, since, refresh, cache>>

\* async_start succeeds, at set-up or in the reconnect loop; the link may be lost again by
\* then.
Start ==
    /\ ~connected
    /\ connected' = TRUE /\ link' \in BOOLEAN /\ lost' = 0
    /\ interval' = StartedInterval
    /\ UNCHANGED <<devices, due, since, pushed, refresh, ages, entities>>

LinkDrops ==
    /\ link
    /\ link' = FALSE /\ lost' = 0
    /\ UNCHANGED <<devices, connected, timer, refresh, ages, entities>>

PahoReconnects ==
    /\ connected /\ ~link
    /\ link' = TRUE
    /\ UNCHANGED <<devices, lost, connected, timer, refresh, ages, entities>>

------------------------------------------------------------------------------
FallbackNext ==
    \/ Tick \/ RefreshBegins \/ RefreshEnds \/ RefreshFails \/ RefreshRaises
    \/ \E d \in Kinds : MissesDevice(d) \/ \E heard \in BOOLEAN : ReadsDevice(d, heard)
    \/ QuietFrame \/ Push \/ Start \/ LinkDrops \/ PahoReconnects

FallbackSpec == FallbackInit /\ [][FallbackNext]_fallbackVars

------------------------------------------------------------------------------
(* Properties.                                                               *)

\* A device that was heard from and has gone silent is shown as unavailable no later than
\* an interval and a refresh after its time is up, however pushes, refreshes and failures
\* alternate; unless the cached result never had a contact time of it.
SilenceShows ==
    \A d \in shown : silence[d] \in {Never} \cup 0..Old - 1 \/ cache[d] = Never

\* A lost link is noticed by the first refresh that begins after the loss: no later than
\* the time a refresh under way takes and one interval, whether or not REST answers, though
\* the frames last received had restarted the timer.
LossInTime == connected /\ ~link => lost <= Round

\* The next refresh begins within Fast of the last whenever REST is the only source of some
\* device's data, and else within Slow, unless pushes have come in between.
ReadInTime ==
    ~running /\ ~pushed => since <= IF connected /\ "rest" \notin devices THEN Slow ELSE Fast

\* The inductive invariant: types,
FallbackTypeOK ==
    /\ devices \subseteq Kinds
    /\ link \in BOOLEAN /\ lost \in 0..Round + 1 /\ connected \in BOOLEAN
    /\ interval \in {Fast, Slow} /\ due \in 0..NoTimer /\ since \in 0..Round + 1
    /\ pushed \in BOOLEAN
    /\ running \in BOOLEAN /\ left \subseteq devices /\ result \in [Kinds -> Ages]
    /\ overlay \in Ages /\ cache \in [Kinds -> Ages] /\ data \in [Kinds -> Ages]
    /\ silence \in [Kinds -> Ages]
    /\ success \in BOOLEAN /\ shown \subseteq Kinds

\* the timer, which is set to at most the interval when a refresh ends, and was when the
\* link was last there,
Timer ==
    /\ link => connected
    /\ running => since <= Longest
    /\ ~running => due <= Slow
    /\ ~connected \/ "rest" \in devices => interval = Fast /\ (running \/ due <= Fast)
    /\ connected /\ ~link =>
          IF running THEN lost <= since ELSE lost + due <= Round
    /\ ~running /\ ~pushed =>
          since + due <= IF connected /\ "rest" \notin devices THEN Slow ELSE Fast

\* and the contact times, none of which is newer than the contact was, and of which one
\* that is there is less than Old at the next time entities are written.
ToWrite == IF running THEN Longest - since ELSE due + Longest
Contacts ==
    /\ overlay >= silence["hybrid"]
    /\ \A d \in Kinds : /\ silence[d] <= data[d] /\ data[d] <= cache[d]
                         /\ silence[d] <= result[d]
    /\ \A d \in shown : silence[d] = Never \/ cache[d] = Never \/ silence[d] + ToWrite < Old

FallbackIInv == FallbackTypeOK /\ Timer /\ Contacts

==============================================================================
