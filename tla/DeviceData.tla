------------------------------ MODULE DeviceData ------------------------------
(***************************************************************************)
(* The values the entities show.  coordinator.py merges what a periodic    *)
(* REST refresh fetched with the overlay that mqtt_manager.py accumulates; *)
(* each MQTT frame in between merges the overlay into what is shown; an    *)
(* entity writes the value it just sent to the device straight into it     *)
(* (entity.py).                                                            *)
(*                                                                         *)
(* The refresh runs on the event loop and gives way at its awaits: the     *)
(* device list, then per device the live telemetry and the energy totals.  *)
(* Frames and writes come in between.  Everything from one await to the    *)
(* next is one action.                                                     *)
(*                                                                         *)
(* A device's dict is a function from some of Keys: one key for each way a *)
(* field gets its value.  A key that is absent stands for None too.  The   *)
(* output switch is told by the number of writes the device had applied    *)
(* when the value was sampled, contact and energy by a clock.              *)
(***************************************************************************)
EXTENDS Naturals, Sequences, FiniteSets

CONSTANTS Sns,        \* _device_sns, the configured devices in order
          MqttSns,    \* those on the mqtt+rest data path; the others have only REST
          NullSns,    \* those whose REST telemetry is null, as an AC300's is
          MaxTime,    \* bound: the clock runs from 1 to MaxTime
          MaxWrites   \* bound: writes a user makes to one device

ASSUME DeviceDataAssumption ==
    /\ Sns \in Seq({Sns[i] : i \in 1..Len(Sns)}) /\ Len(Sns) > 0
    /\ \A i, j \in 1..Len(Sns) : Sns[i] = Sns[j] => i = j
    /\ MqttSns \cup NullSns \subseteq {Sns[i] : i \in 1..Len(Sns)}
    /\ MaxTime \in Nat \ {0} /\ MaxWrites \in Nat

Devices == {Sns[i] : i \in 1..Len(Sns)}

Keys == {"switch",      \* in REST and in MQTT, and written by the user
         "energy",      \* in REST only
         "last_seen"}   \* when the device was heard from, on either

VARIABLES now,       \* time.time()
          loaded,    \* a refresh has succeeded: coordinator.data exists
          data,      \* coordinator.data, what the entities read
          cache,     \* coordinator._last_good_data
          shared,    \* data and cache are the same Python object
          overlays,  \* manager.overlays
          success,   \* coordinator.last_update_success
          phase,     \* what the refresh in progress awaits
          listing,   \* the devices in the list it got, and their embedded values
          at,        \* position in Sns it has reached
          fetched,   \* device_data of the device it is at
          result,    \* the devices it is done with
          asked,     \* device -> writes made by the user
          state,     \* device -> writes the device has applied
          cloud      \* device -> writes applied when it last reported to the cloud

refresh == <<phase, listing, at, fetched, result>>
world == <<asked, state, cloud>>
vars == <<now, loaded, data, cache, shared, overlays, success, refresh, world>>

------------------------------------------------------------------------------
(* Dicts.                                                                    *)

NoValues == [k \in {} |-> 0]
Value(k, v) == [x \in {k} |-> v]

\* a.update(b)
Updated(a, b) ==
    [k \in DOMAIN a \cup DOMAIN b |-> IF k \in DOMAIN b THEN b[k] ELSE a[k]]

\* d.get("last_seen", 0)
Seen(d) == IF "last_seen" \in DOMAIN d THEN d["last_seen"] ELSE 0

------------------------------------------------------------------------------
(* Mutated forms, each standing for a plausible bug in the operator it       *)
(* replaces when the mutation runs are made.                                 *)

PushedOverlayOnly(o) ==
    data' = [sn \in Devices |-> o[sn]] /\ shared' = FALSE /\ success' = TRUE
ForgetsPrevious(d, previous) == d
PreviousWins(d, previous) ==
    IF previous > 0 THEN Updated(d, Value("last_seen", previous)) ELSE d
NotPushed(o) == UNCHANGED <<data, shared, success>>

------------------------------------------------------------------------------
(* Pieces of the refresh.                                                    *)

\* Overlay MQTT data: it takes precedence for the fields it provides.
Overlaid(d, o) == Updated(d, o)

\* Keep the most recent contact time: the previous refresh's, if it is later.
KeepSeen(d, previous) ==
    IF previous > Seen(d) THEN Updated(d, Value("last_seen", previous)) ELSE d

\* What a refresh stores for a device it fetched.
Finished(sn, d) == KeepSeen(Overlaid(d, overlays[sn]), Seen(cache[sn]))

\* n is the position of the first listed device from k on, or past the end.
IsNextListed(list, k, n) ==
    /\ n <= Len(Sns) => Sns[n] \in DOMAIN list
    /\ \A i \in k..n - 1 : Sns[i] \notin DOMAIN list

\* The refresh ends: its result is shown and cached, as one object.
Commit(devices) ==
    /\ data' = devices /\ cache' = devices /\ shared' = TRUE
    /\ loaded' = TRUE /\ success' = TRUE
    /\ phase' = "idle" /\ at' = 0
    /\ listing' = NoValues /\ fetched' = NoValues /\ result' = NoValues

\* On to the next listed device.  Those before it are not in the list: each keeps
\* what was cached, or nothing, and no await comes in between.
Proceed(list, k, done) ==
    \E n \in k..Len(Sns) + 1 :
        LET sofar == Updated([sn \in {Sns[i] : i \in k..n - 1} |-> cache[sn]], done)
        IN /\ IsNextListed(list, k, n)
           /\ \/ /\ n > Len(Sns)
                 /\ Commit(sofar)
              \/ /\ n <= Len(Sns)
                 /\ phase' = "alive" /\ at' = n
                 /\ listing' = list /\ fetched' = list[Sns[n]] /\ result' = sofar
                 /\ UNCHANGED <<loaded, data, cache, shared, success>>

\* A refresh that ends without a result.
GiveUp ==
    /\ phase' = "idle" /\ at' = 0
    /\ listing' = NoValues /\ fetched' = NoValues /\ result' = NoValues

\* _push_mqtt_update with overlays o: a new dict for every device.
Push(o) ==
    /\ data' = [sn \in Devices |-> Overlaid(data[sn], o[sn])]
    /\ shared' = FALSE
    /\ success' = TRUE

------------------------------------------------------------------------------
Init ==
    /\ now = 1 /\ loaded = FALSE /\ shared = FALSE /\ success = FALSE
    /\ data = [sn \in Devices |-> NoValues]
    /\ cache = [sn \in Devices |-> NoValues]
    /\ overlays = [sn \in Devices |-> NoValues]
    /\ phase = "idle" /\ at = 0
    /\ listing = NoValues /\ fetched = NoValues /\ result = NoValues
    /\ asked = [sn \in Devices |-> 0]
    /\ state = [sn \in Devices |-> 0]
    /\ cloud = [sn \in Devices |-> 0]

(* The REST refresh.  DataUpdateCoordinator runs one at a time.              *)

RefreshStarts ==
    /\ phase = "idle"
    /\ phase' = "list"
    /\ UNCHANGED <<now, loaded, data, cache, shared, overlays, success,
                   listing, at, fetched, result, world>>

\* get_devices fails: the cache is shown again, or setup fails and is retried.
ListFails ==
    /\ phase = "list"
    /\ GiveUp
    /\ IF loaded
       THEN data' = cache /\ shared' = TRUE /\ success' = TRUE
       ELSE UNCHANGED <<data, shared, success>>
    /\ UNCHANGED <<now, loaded, cache, overlays, world>>

\* The list arrives, with some of the devices and, for some of them, the values
\* the cloud has.
ListAnswers ==
    /\ phase = "list"
    /\ \E listed \in SUBSET Devices : \E telling \in SUBSET (listed \ NullSns) :
          Proceed([sn \in listed |-> IF sn \in telling THEN Value("switch", cloud[sn])
                                                       ELSE NoValues], 1, NoValues)
    /\ UNCHANGED <<now, overlays, world>>

\* getDeviceLastAlive answers with real telemetry: the device was heard from, and
\* the values it has, if any, replace the embedded ones.
AliveAnswers ==
    /\ phase = "alive" /\ Sns[at] \notin NullSns
    /\ phase' = "energy"
    /\ \E told \in {Value("switch", cloud[Sns[at]]), NoValues} :
          fetched' = Updated(fetched, Updated(Value("last_seen", now), told))
    /\ UNCHANGED <<now, loaded, data, cache, shared, overlays, success,
                   listing, at, result, world>>

\* It fails, or all its fields are null: the embedded values stay.
AliveIsNull ==
    /\ phase = "alive"
    /\ phase' = "energy"
    /\ UNCHANGED <<now, loaded, data, cache, shared, overlays, success,
                   listing, at, fetched, result, world>>

\* The energy totals arrive, or not (an error, or all zeroes); the device is
\* finished and the next one begins.
EnergyAnswers ==
    /\ phase = "energy"
    /\ \E energy \in {Value("energy", now), NoValues} :
          Proceed(listing, at + 1,
                  Updated(result,
                          Value(Sns[at], Finished(Sns[at], Updated(fetched, energy)))))
    /\ UNCHANGED <<now, overlays, world>>

\* An error the refresh does not handle ends it; DataUpdateCoordinator keeps data
\* and notes the failure.
RefreshRaises ==
    /\ phase # "idle"
    /\ GiveUp
    /\ success' = FALSE
    /\ UNCHANGED <<now, loaded, data, cache, shared, overlays, world>>

(* MQTT frames.  Any frame notes the contact; those whose block is parsed also *)
(* update fields and push.  MQTT starts after the first refresh.              *)

Noted(sn, fields) ==
    [overlays EXCEPT ![sn] = Updated(@, Updated(Value("last_seen", now), fields))]

Frame(sn, fields) ==
    /\ loaded
    /\ overlays' = Noted(sn, fields)
    /\ Push(overlays')
    /\ UNCHANGED <<now, loaded, cache, refresh, world>>

\* States of the switch a frame may still bring: the device's frames arrive in
\* order, any time after it sent them.
Reportable(sn) ==
    {v \in 0..state[sn] :
        "switch" \in DOMAIN overlays[sn] => v >= overlays[sn]["switch"]}

\* A settings block.
SettingsArrive(sn) == \E v \in Reportable(sn) : Frame(sn, Value("switch", v))

\* A write echo: it carries the value of a write.
EchoArrives(sn) == \E v \in Reportable(sn) \ {0} : Frame(sn, Value("switch", v))

\* A block that says nothing of the switch: its fields are MQTT's own.
OtherBlockArrives(sn) == Frame(sn, NoValues)

\* An error reply, or a frame nothing is parsed from.
QuietFrame(sn) ==
    /\ loaded
    /\ overlays' = Noted(sn, NoValues)
    /\ UNCHANGED <<now, loaded, data, cache, shared, success, refresh, world>>

(* The user and the device.                                                  *)

\* _send_switch_command: the write is sent, then set_optimistic puts its value into
\* coordinator.data in place.
UserWrites(sn) ==
    /\ loaded /\ asked[sn] < MaxWrites
    /\ asked' = [asked EXCEPT ![sn] = @ + 1]
    /\ data' = [data EXCEPT ![sn] = Updated(@, Value("switch", asked[sn] + 1))]
    /\ cache' = IF shared THEN data' ELSE cache
    /\ UNCHANGED <<now, loaded, shared, overlays, success, refresh, state, cloud>>

DeviceApplies(sn) ==
    /\ state[sn] < asked[sn]
    /\ state' = [state EXCEPT ![sn] = @ + 1]
    /\ UNCHANGED <<now, loaded, data, cache, shared, overlays, success, refresh,
                   asked, cloud>>

\* The device reports to the cloud.
Uploads(sn) ==
    /\ cloud[sn] # state[sn]
    /\ cloud' = [cloud EXCEPT ![sn] = state[sn]]
    /\ UNCHANGED <<now, loaded, data, cache, shared, overlays, success, refresh,
                   asked, state>>

Tick ==
    /\ now < MaxTime
    /\ now' = now + 1
    /\ UNCHANGED <<loaded, data, cache, shared, overlays, success, refresh, world>>

------------------------------------------------------------------------------
RefreshStep ==
    \/ RefreshStarts \/ ListFails \/ ListAnswers \/ AliveAnswers \/ AliveIsNull
    \/ EnergyAnswers \/ RefreshRaises

Next ==
    \/ RefreshStep
    \/ \E sn \in MqttSns :
          \/ SettingsArrive(sn) \/ EchoArrives(sn) \/ OtherBlockArrives(sn) \/ QuietFrame(sn)
          \/ UserWrites(sn) \/ DeviceApplies(sn) \/ Uploads(sn)
    \/ Tick

Spec == Init /\ [][Next]_vars

\* A device applies what it was sent, and its settings blocks keep arriving: it is
\* polled for them, or pushes them.  Nothing is assumed of the REST refresh, which
\* may fail, be cut short or hang.
ReportsNow(sn) == Frame(sn, Value("switch", state[sn]))

FairSpec ==
    Spec /\ \A sn \in MqttSns : WF_vars(DeviceApplies(sn)) /\ WF_vars(ReportsNow(sn))

------------------------------------------------------------------------------
(* Properties.                                                               *)

\* Type correctness.
Times == 1..MaxTime
Values(k) == IF k = "switch" THEN 0..MaxWrites ELSE Times
Dicts == {d \in UNION {[K -> Times \cup 0..MaxWrites] : K \in SUBSET Keys} :
             \A k \in DOMAIN d : d[k] \in Values(k)}
TypeOK ==
    /\ now \in Times
    /\ loaded \in BOOLEAN /\ shared \in BOOLEAN /\ success \in BOOLEAN
    /\ data \in [Devices -> Dicts]
    /\ cache \in [Devices -> Dicts]
    /\ overlays \in [Devices -> Dicts]
    /\ phase \in {"idle", "list", "alive", "energy"}
    /\ at \in 0..Len(Sns)
    /\ \A devices \in {listing, result} :
          /\ DOMAIN devices \subseteq Devices
          /\ \A sn \in DOMAIN devices : devices[sn] \in Dicts
    /\ fetched \in Dicts
    /\ \A w \in {asked, state, cloud} : w \in [Devices -> 0..MaxWrites]

\* What only REST provides is shown as the last completed refresh left it: neither a
\* push, nor a write, nor a refresh that fails half-way or falls back on the cache
\* loses it or brings an older one back.
RestFieldsKept ==
    \A sn \in Devices :
        /\ "energy" \in DOMAIN data[sn] <=> "energy" \in DOMAIN cache[sn]
        /\ "energy" \in DOMAIN data[sn] => data[sn]["energy"] = cache[sn]["energy"]

\* The contact time in the cache never goes back, so neither does the availability
\* the fallback shows: not when a device is missing from the list, nor when its
\* telemetry fails, nor when the overlay is older.
CachedContactAdvances ==
    [][\A sn \in Devices : Seen(cache'[sn]) >= Seen(cache[sn])]_vars

\* A contact that a completed refresh had over REST is shown, for a device that MQTT
\* has never heard from.
RestContactShown ==
    [][\A sn \in Devices :
          /\ phase = "energy" /\ sn = Sns[at] /\ phase' = "idle" /\ success'
          /\ "last_seen" \in DOMAIN fetched /\ "last_seen" \notin DOMAIN overlays[sn]
          => Seen(data'[sn]) = Seen(fetched)]_vars

\* What is shown of the switch follows the device: whatever writes were assumed to
\* have succeeded, and whatever older values a refresh or its cache brought back,
\* what the user asked for last is shown again and again.
SwitchSettles ==
    \A sn \in MqttSns :
        []<>(loaded => "switch" \in DOMAIN data[sn] /\ data[sn]["switch"] = asked[sn])

\* The inductive invariant: an overlay holds nothing that only REST provides, one
\* object has one value, a refresh has finished exactly the devices before the one it
\* is at, and no contact in its result is older than the cached one.
OverlayIsMqtt == \A sn \in Devices : DOMAIN overlays[sn] \subseteq Keys \ {"energy"}
SharedIsSame == shared => data = cache
ResultSoFar ==
    /\ phase \in {"alive", "energy"} =>
          /\ at \in 1..Len(Sns)
          /\ DOMAIN result = {Sns[i] : i \in 1..at - 1}
    /\ \A sn \in DOMAIN result : Seen(result[sn]) >= Seen(cache[sn])
IInv == TypeOK /\ RestFieldsKept /\ OverlayIsMqtt /\ SharedIsSame /\ ResultSoFar

\* What RestContactShown needs in addition: no contact time is ahead of the clock, and one
\* that the refresh has got over REST is not older than any in the cache.
ContactsPast ==
    /\ \A sn \in Devices : Seen(cache[sn]) <= now
    /\ \A sn \in Devices : Seen(overlays[sn]) <= now
    /\ \A sn \in DOMAIN result : Seen(result[sn]) <= now
    /\ Seen(fetched) <= now
FetchedIsFresh ==
    /\ \A sn \in DOMAIN listing : "last_seen" \notin DOMAIN listing[sn]
    /\ phase = "alive" => "last_seen" \notin DOMAIN fetched
    /\ phase = "energy" /\ "last_seen" \in DOMAIN fetched =>
          \A sn \in Devices : Seen(cache[sn]) <= Seen(fetched)

==============================================================================
