--------------------------- MODULE DeviceDataProofs ---------------------------
(***************************************************************************)
(* Theorems about DeviceData for any list of devices on either data path,  *)
(* any length of time and any number of writes.                            *)
(***************************************************************************)
EXTENDS DeviceData, TLAPS

USE DeviceDataAssumption

\* What membership in Dicts says.
LEMMA DictElim ==
  ASSUME NEW d \in Dicts
  PROVE  /\ DOMAIN d \subseteq Keys
         /\ \A k \in DOMAIN d : d[k] \in Values(k)
BY DEF Dicts

\* How a dict is known to be one.
LEMMA DictIntro ==
  ASSUME NEW K \in SUBSET Keys, NEW d \in [K -> Times \cup 0..MaxWrites],
         \A k \in K : d[k] \in Values(k)
  PROVE  d \in Dicts
BY DEF Dicts

\* The values of a key are times or counts.
LEMMA ValuesAreNumbers == \A k \in Keys : Values(k) \subseteq Times \cup 0..MaxWrites
BY DEF Values

\* dict.update keeps a dict a dict.
LEMMA UpdatedType ==
  ASSUME NEW a \in Dicts, NEW b \in Dicts
  PROVE  Updated(a, b) \in Dicts
<1> DEFINE K == DOMAIN a \cup DOMAIN b
           d == [k \in K |-> IF k \in DOMAIN b THEN b[k] ELSE a[k]]
<1>1. K \in SUBSET Keys
  BY DictElim
<1>2. \A k \in K : d[k] \in Values(k)
  BY DictElim
<1>3. d \in [K -> Times \cup 0..MaxWrites]
  BY <1>1, <1>2, ValuesAreNumbers
<1>4. d \in Dicts
  <2> HIDE DEF d, K
  <2> QED BY <1>1, <1>2, <1>3, DictIntro
<1>5. QED
  BY <1>4 DEF Updated

\* The dicts the code makes of one field, and of none.
LEMMA ValueType ==
  /\ NoValues \in Dicts
  /\ \A t \in Times : Value("energy", t) \in Dicts /\ Value("last_seen", t) \in Dicts
  /\ \A v \in 0..MaxWrites : Value("switch", v) \in Dicts
<1>1. NoValues \in Dicts
  <2>1. NoValues \in [{} -> Times \cup 0..MaxWrites]
    BY DEF NoValues
  <2>2. QED
    BY <2>1, DictIntro
<1>2. ASSUME NEW k \in Keys, NEW v \in Values(k)
      PROVE  Value(k, v) \in Dicts
  <2>1. Value(k, v) \in [{k} -> Times \cup 0..MaxWrites]
    BY <1>2, ValuesAreNumbers DEF Value
  <2>2. \A x \in {k} : Value(k, v)[x] \in Values(x)
    BY <1>2 DEF Value
  <2>3. QED
    BY <2>1, <2>2, DictIntro
<1>3. QED
  BY <1>1, <1>2 DEF Keys, Values

\* The contact time of a dict is a number.
LEMMA SeenType ==
  ASSUME NEW d \in Dicts
  PROVE  Seen(d) \in Nat /\ (Seen(d) # 0 => Seen(d) \in Times)
BY DictElim DEF Seen, Values, Times, Keys

\* The empty dict has no key.
LEMMA NothingIsEmpty == DOMAIN NoValues = {}
BY DEF NoValues

\* A device is finished with the overlay's values first and a contact time that is
\* not older than the cached one.
LEMMA FinishedFacts ==
  ASSUME NEW sn \in Devices, NEW d \in Dicts, overlays[sn] \in Dicts, cache[sn] \in Dicts
  PROVE  /\ Finished(sn, d) \in Dicts
         /\ Seen(Finished(sn, d)) >= Seen(cache[sn])
<1> DEFINE o == Overlaid(d, overlays[sn])
           previous == Seen(cache[sn])
<1>1. o \in Dicts
  BY UpdatedType DEF Overlaid
<1>2. Seen(o) \in Nat /\ previous \in Nat /\ (previous # 0 => previous \in Times)
  BY <1>1, SeenType
<1>3. CASE previous > Seen(o)
  <2>1. Value("last_seen", previous) \in Dicts
    BY <1>2, <1>3, ValueType
  <2>2. KeepSeen(o, previous) = Updated(o, Value("last_seen", previous))
    BY <1>3 DEF KeepSeen
  <2>3. Seen(Updated(o, Value("last_seen", previous))) = previous
    BY DEF Seen, Updated, Value
  <2>4. QED
    BY <1>1, <1>2, <2>1, <2>2, <2>3, UpdatedType DEF Finished
<1>4. CASE ~(previous > Seen(o))
  <2>1. KeepSeen(o, previous) = o
    BY <1>4 DEF KeepSeen
  <2>2. QED
    BY <1>1, <1>2, <1>4, <2>1 DEF Finished
<1>5. QED
  BY <1>3, <1>4

------------------------------------------------------------------------------
(* The invariant.                                                            *)

\* The start, before the first refresh, satisfies IInv.
LEMMA InitIInv == Init => IInv
<1> SUFFICES ASSUME Init PROVE IInv
  OBVIOUS
<1>0. DOMAIN NoValues = {}
  BY DEF NoValues
<1>1. TypeOK
  <2>0. now \in Times
    BY DEF Init, Times
  <2>1. loaded \in BOOLEAN /\ shared \in BOOLEAN /\ success \in BOOLEAN
    BY DEF Init
  <2>2. \A f \in {data, cache, overlays} : f \in [Devices -> Dicts]
    BY ValueType DEF Init
  <2>3. \A w \in {asked, state, cloud} : w \in [Devices -> 0..MaxWrites]
    BY DEF Init
  <2>4. phase = "idle" /\ at = 0 /\ 0 \in 0..Len(Sns)
    BY DEF Init
  <2>5. listing = NoValues /\ result = NoValues /\ fetched \in Dicts
    BY ValueType DEF Init
  <2>6. QED
    BY <1>0, <2>0, <2>1, <2>2, <2>3, <2>4, <2>5 DEF TypeOK
<1>2. RestFieldsKept /\ OverlayIsMqtt /\ SharedIsSame /\ ResultSoFar
  BY DEF Init, RestFieldsKept, OverlayIsMqtt, SharedIsSame, ResultSoFar, NoValues
<1>3. QED
  BY <1>1, <1>2 DEF IInv

\* What Proceed does to the refresh, for a result so far that covers the devices
\* before position k: it ends, or stands at a later device with all before it done.
LEMMA ProceedFacts ==
  ASSUME IInv,
         NEW list, NEW k \in 1..Len(Sns) + 1, NEW done,
         DOMAIN list \subseteq Devices,
         \A sn \in DOMAIN list : list[sn] \in Dicts,
         DOMAIN done = {Sns[i] : i \in 1..k - 1},
         \A sn \in DOMAIN done : done[sn] \in Dicts /\ Seen(done[sn]) >= Seen(cache[sn]),
         Proceed(list, k, done),
         UNCHANGED <<now, overlays, world>>
  PROVE  IInv' /\ \A sn \in Devices : Seen(cache'[sn]) >= Seen(cache[sn])
<1>1. PICK n \in k..Len(Sns) + 1 :
         LET sofar == Updated([sn \in {Sns[i] : i \in k..n - 1} |-> cache[sn]], done)
         IN /\ IsNextListed(list, k, n)
            /\ \/ /\ n > Len(Sns)
                  /\ Commit(sofar)
               \/ /\ n <= Len(Sns)
                  /\ phase' = "alive" /\ at' = n
                  /\ listing' = list /\ fetched' = list[Sns[n]] /\ result' = sofar
                  /\ UNCHANGED <<loaded, data, cache, shared, success>>
  BY DEF Proceed
<1> DEFINE sofar == Updated([sn \in {Sns[i] : i \in k..n - 1} |-> cache[sn]], done)
<1>2. k \in Nat /\ n \in Nat /\ Len(Sns) \in Nat /\ n >= k /\ n <= Len(Sns) + 1
  OBVIOUS
<1>3. DOMAIN sofar = {Sns[i] : i \in 1..n - 1}
  <2>1. DOMAIN sofar = {Sns[i] : i \in k..n - 1} \cup {Sns[i] : i \in 1..k - 1}
    BY DEF Updated
  <2>2. 1..n - 1 = (1..k - 1) \cup (k..n - 1)
    BY <1>2
  <2>3. QED
    BY <2>1, <2>2
<1>4. \A sn \in Devices : cache[sn] \in Dicts
  BY DEF IInv, TypeOK
<1>5. \A sn \in DOMAIN sofar :
         /\ sn \in Devices
         /\ sofar[sn] \in Dicts
         /\ Seen(sofar[sn]) >= Seen(cache[sn])
  <2> SUFFICES ASSUME NEW sn \in DOMAIN sofar
      PROVE /\ sn \in Devices
            /\ sofar[sn] \in Dicts
            /\ Seen(sofar[sn]) >= Seen(cache[sn])
    OBVIOUS
  <2>1. sn \in Devices
    BY <1>2, <1>3 DEF Devices
  <2>2. sofar[sn] = IF sn \in DOMAIN done THEN done[sn] ELSE cache[sn]
    BY DEF Updated
  <2> HIDE DEF sofar
  <2>3. CASE sn \in DOMAIN done
    BY <2>1, <2>2, <2>3
  <2>4. CASE sn \notin DOMAIN done
    <3>1. sofar[sn] = cache[sn] /\ cache[sn] \in Dicts
      BY <1>4, <2>1, <2>2, <2>4
    <3>2. Seen(cache[sn]) \in Nat
      BY <3>1, SeenType
    <3>3. QED
      BY <2>1, <3>1, <3>2
  <2>5. QED
    BY <2>3, <2>4
<1>6. CASE n > Len(Sns) /\ Commit(sofar)
  <2>1. DOMAIN sofar = Devices
    <3>1. n - 1 = Len(Sns)
      BY <1>2, <1>6
    <3>2. QED
      BY <1>3, <3>1 DEF Devices
  <2>2. sofar \in [Devices -> Dicts]
    <3>1. sofar = [sn \in DOMAIN sofar |-> sofar[sn]]
      BY DEF Updated
    <3> HIDE DEF sofar
    <3>2. QED
      BY <1>5, <2>1, <3>1
  <2> HIDE DEF sofar
  <2>3. TypeOK'
    BY <1>6, <2>2, ValueType DEF IInv, TypeOK, Commit, world, NoValues
  <2>4. RestFieldsKept' /\ OverlayIsMqtt' /\ SharedIsSame' /\ ResultSoFar'
    BY <1>6 DEF IInv, RestFieldsKept, OverlayIsMqtt, SharedIsSame, ResultSoFar, Commit, NoValues
  <2>5. QED
    BY <1>5, <1>6, <2>1, <2>3, <2>4 DEF IInv, Commit
<1>7. CASE /\ n <= Len(Sns)
           /\ phase' = "alive" /\ at' = n
           /\ listing' = list /\ fetched' = list[Sns[n]] /\ result' = sofar
           /\ UNCHANGED <<loaded, data, cache, shared, success>>
  <2>1. list[Sns[n]] \in Dicts
    BY <1>1, <1>7 DEF IsNextListed
  <2> HIDE DEF sofar
  <2>2. TypeOK'
    <3>1. at' \in 0..Len(Sns)
      BY <1>2, <1>7
    <3>2. /\ DOMAIN listing' \subseteq Devices /\ DOMAIN result' \subseteq Devices
          /\ \A sn \in DOMAIN listing' : listing'[sn] \in Dicts
          /\ \A sn \in DOMAIN result' : result'[sn] \in Dicts
      BY <1>5, <1>7
    <3>3. QED
      BY <1>7, <2>1, <3>1, <3>2 DEF IInv, TypeOK, world
  <2>3. ResultSoFar'
    <3>1. n \in 1..Len(Sns) /\ at' = n
      BY <1>2, <1>7
    <3>2. DOMAIN result' = {Sns[i] : i \in 1..n - 1}
      BY <1>3, <1>7
    <3>3. \A sn \in DOMAIN result' : Seen(result'[sn]) >= Seen(cache'[sn])
      BY <1>5, <1>7
    <3>4. QED
      BY <3>1, <3>2, <3>3 DEF ResultSoFar
  <2>4. RestFieldsKept' /\ OverlayIsMqtt' /\ SharedIsSame'
    BY <1>7 DEF IInv, RestFieldsKept, OverlayIsMqtt, SharedIsSame
  <2>5. QED
    BY <1>4, <1>7, <2>2, <2>3, <2>4, SeenType DEF IInv
<1>8. QED
  BY <1>1, <1>6, <1>7

\* A frame's note of the contact, and what it brings from MQTT, keep the overlays
\* dicts without anything that only REST provides.
LEMMA NotedFacts ==
  ASSUME IInv, NEW sn \in Devices, NEW fields \in Dicts, "energy" \notin DOMAIN fields
  PROVE  /\ Noted(sn, fields) \in [Devices -> Dicts]
         /\ \A d \in Devices : "energy" \notin DOMAIN Noted(sn, fields)[d]
<1> DEFINE news == Updated(Value("last_seen", now), fields)
           new == Updated(overlays[sn], news)
<1>1. overlays \in [Devices -> Dicts]
  BY DEF IInv, TypeOK
<1>2. news \in Dicts /\ "energy" \notin DOMAIN news
  <2>1. Value("last_seen", now) \in Dicts
    BY ValueType DEF IInv, TypeOK
  <2>2. QED
    BY <2>1, UpdatedType DEF Updated, Value
<1>3. new \in Dicts /\ "energy" \notin DOMAIN new
  <2> HIDE DEF news
  <2>1. "energy" \notin DOMAIN overlays[sn]
    BY DEF IInv, OverlayIsMqtt
  <2>2. new \in Dicts
    BY <1>1, <1>2, UpdatedType
  <2>3. "energy" \notin DOMAIN new
    BY <1>2, <2>1 DEF Updated
  <2>4. QED
    BY <2>2, <2>3
<1>4. Noted(sn, fields) = [overlays EXCEPT ![sn] = new]
  BY DEF Noted
<1> HIDE DEF new
<1>5. QED
  BY <1>1, <1>3, <1>4 DEF IInv, OverlayIsMqtt

\* Every await of the refresh, every frame, every write and every step of the
\* device preserves IInv, and none takes a cached contact time back.
LEMMA NextIInv ==
  ASSUME IInv, [Next]_vars
  PROVE  IInv' /\ \A sn \in Devices : Seen(cache'[sn]) >= Seen(cache[sn])
<1> DEFINE Advances == \A sn \in Devices : Seen(cache'[sn]) >= Seen(cache[sn])
<1>0. \A sn \in Devices : data[sn] \in Dicts /\ cache[sn] \in Dicts /\ overlays[sn] \in Dicts
  BY DEF IInv, TypeOK
<1>1. ASSUME cache' = cache PROVE Advances
  BY <1>0, <1>1, SeenType
<1>2. CASE RefreshStarts
  <2>1. TypeOK'
    BY <1>2 DEF RefreshStarts, IInv, TypeOK, world
  <2>2. RestFieldsKept' /\ OverlayIsMqtt' /\ SharedIsSame' /\ ResultSoFar'
    BY <1>2 DEF RefreshStarts, IInv, RestFieldsKept, OverlayIsMqtt, SharedIsSame, ResultSoFar
  <2>3. QED
    BY <1>1, <1>2, <2>1, <2>2 DEF RefreshStarts, IInv
<1>3. CASE ListFails
  <2>1. data' \in {data, cache}
    BY <1>3 DEF ListFails
  <2>2. TypeOK'
    <3>1. shared' \in BOOLEAN /\ success' \in BOOLEAN /\ loaded' \in BOOLEAN
      BY <1>3 DEF ListFails, IInv, TypeOK
    <3>2. data' \in [Devices -> Dicts]
      BY <2>1 DEF IInv, TypeOK
    <3>3. phase' = "idle" /\ at' = 0 /\ at' \in 0..Len(Sns)
      BY <1>3 DEF ListFails, GiveUp
    <3>4. QED
      BY <1>3, <3>1, <3>2, <3>3, ValueType, NothingIsEmpty
         DEF ListFails, GiveUp, IInv, TypeOK, world
  <2>3. RestFieldsKept' /\ OverlayIsMqtt' /\ SharedIsSame' /\ ResultSoFar'
    BY <1>3, <2>1, NothingIsEmpty
       DEF ListFails, GiveUp, IInv, RestFieldsKept, OverlayIsMqtt, SharedIsSame, ResultSoFar
  <2>4. QED
    BY <1>1, <1>3, <2>2, <2>3 DEF ListFails, IInv
<1>4. CASE ListAnswers
  <2>1. PICK listed \in SUBSET Devices : \E telling \in SUBSET (listed \ NullSns) :
          Proceed([sn \in listed |-> IF sn \in telling THEN Value("switch", cloud[sn])
                                                       ELSE NoValues], 1, NoValues)
    BY <1>4 DEF ListAnswers
  <2>2. PICK telling \in SUBSET (listed \ NullSns) :
          Proceed([sn \in listed |-> IF sn \in telling THEN Value("switch", cloud[sn])
                                                       ELSE NoValues], 1, NoValues)
    BY <2>1
  <2> DEFINE list == [sn \in listed |-> IF sn \in telling THEN Value("switch", cloud[sn])
                                                          ELSE NoValues]
  <2>3. DOMAIN list \subseteq Devices /\ \A sn \in DOMAIN list : list[sn] \in Dicts
    BY ValueType DEF IInv, TypeOK
  <2>4. DOMAIN NoValues = {Sns[i] : i \in 1..1 - 1} /\ 1 \in 1..Len(Sns) + 1
    BY NothingIsEmpty
  <2>5. Proceed(list, 1, NoValues) /\ UNCHANGED <<now, overlays, world>>
    BY <1>4, <2>2 DEF ListAnswers
  <2> HIDE DEF list
  <2>6. QED
    BY <2>3, <2>4, <2>5, ProceedFacts, NothingIsEmpty
<1>5. CASE AliveAnswers
  <2>1. at \in 1..Len(Sns) /\ Sns[at] \in Devices
    BY <1>5 DEF AliveAnswers, IInv, ResultSoFar, Devices
  <2>2. fetched' \in Dicts
    <3>1. PICK told \in {Value("switch", cloud[Sns[at]]), NoValues} :
            fetched' = Updated(fetched, Updated(Value("last_seen", now), told))
      BY <1>5 DEF AliveAnswers
    <3>2. told \in Dicts /\ Value("last_seen", now) \in Dicts /\ fetched \in Dicts
      BY <2>1, ValueType DEF IInv, TypeOK
    <3>3. QED
      BY <3>1, <3>2, UpdatedType
  <2>3. TypeOK'
    BY <1>5, <2>2 DEF AliveAnswers, IInv, TypeOK, world
  <2>4. RestFieldsKept' /\ OverlayIsMqtt' /\ SharedIsSame' /\ ResultSoFar'
    BY <1>5 DEF AliveAnswers, IInv, RestFieldsKept, OverlayIsMqtt, SharedIsSame, ResultSoFar
  <2>5. QED
    BY <1>1, <1>5, <2>3, <2>4 DEF AliveAnswers, IInv
<1>6. CASE AliveIsNull
  <2>1. TypeOK'
    BY <1>6 DEF AliveIsNull, IInv, TypeOK, world
  <2>2. RestFieldsKept' /\ OverlayIsMqtt' /\ SharedIsSame' /\ ResultSoFar'
    BY <1>6 DEF AliveIsNull, IInv, RestFieldsKept, OverlayIsMqtt, SharedIsSame, ResultSoFar
  <2>3. QED
    BY <1>1, <1>6, <2>1, <2>2 DEF AliveIsNull, IInv
<1>7. CASE EnergyAnswers
  <2>1. PICK energy \in {Value("energy", now), NoValues} :
          Proceed(listing, at + 1,
                  Updated(result,
                          Value(Sns[at], Finished(Sns[at], Updated(fetched, energy)))))
    BY <1>7 DEF EnergyAnswers
  <2> DEFINE device == Finished(Sns[at], Updated(fetched, energy))
             done == Updated(result, Value(Sns[at], device))
  <2>2. at \in 1..Len(Sns) /\ Sns[at] \in Devices
    BY <1>7 DEF EnergyAnswers, IInv, ResultSoFar, Devices
  <2>3. device \in Dicts /\ Seen(device) >= Seen(cache[Sns[at]])
    <3>1. Updated(fetched, energy) \in Dicts
      BY ValueType, UpdatedType DEF IInv, TypeOK
    <3>2. QED
      BY <1>0, <2>2, <3>1, FinishedFacts
  <2>4. DOMAIN done = {Sns[i] : i \in 1..(at + 1) - 1}
    <3>1. DOMAIN done = {Sns[i] : i \in 1..at - 1} \cup {Sns[at]}
      BY <1>7 DEF EnergyAnswers, IInv, ResultSoFar, Updated, Value
    <3>2. 1..(at + 1) - 1 = (1..at - 1) \cup {at}
      BY <2>2
    <3>3. QED
      BY <3>1, <3>2
  <2>5. \A sn \in DOMAIN done : done[sn] \in Dicts /\ Seen(done[sn]) >= Seen(cache[sn])
    <3>1. \A sn \in DOMAIN done :
            \/ sn = Sns[at] /\ done[sn] = device
            \/ sn \in DOMAIN result /\ done[sn] = result[sn]
      BY DEF Updated, Value
    <3> HIDE DEF done, device
    <3>2. QED
      BY <2>3, <3>1 DEF IInv, TypeOK, ResultSoFar
  <2>6. DOMAIN listing \subseteq Devices /\ \A sn \in DOMAIN listing : listing[sn] \in Dicts
    BY DEF IInv, TypeOK
  <2>7. at + 1 \in 1..Len(Sns) + 1
    BY <2>2
  <2>8. Proceed(listing, at + 1, done) /\ UNCHANGED <<now, overlays, world>>
    BY <1>7, <2>1 DEF EnergyAnswers
  <2> HIDE DEF done
  <2>9. QED
    BY <2>4, <2>5, <2>6, <2>7, <2>8, ProceedFacts
<1>8. CASE RefreshRaises
  <2>1. phase' = "idle" /\ at' = 0 /\ at' \in 0..Len(Sns)
    BY <1>8 DEF RefreshRaises, GiveUp
  <2>2. TypeOK'
    BY <1>8, <2>1, ValueType, NothingIsEmpty
       DEF RefreshRaises, GiveUp, IInv, TypeOK, world
  <2>3. RestFieldsKept' /\ OverlayIsMqtt' /\ SharedIsSame' /\ ResultSoFar'
    BY <1>8, NothingIsEmpty
       DEF RefreshRaises, GiveUp, IInv, RestFieldsKept, OverlayIsMqtt, SharedIsSame, ResultSoFar
  <2>4. QED
    BY <1>1, <1>8, <2>2, <2>3 DEF RefreshRaises, IInv
<1>9. ASSUME NEW sn \in Devices, NEW fields \in Dicts, "energy" \notin DOMAIN fields,
             Frame(sn, fields)
      PROVE  IInv' /\ Advances
  <2>1. /\ overlays' \in [Devices -> Dicts]
        /\ \A d \in Devices : "energy" \notin DOMAIN overlays'[d]
    BY <1>9, NotedFacts DEF Frame
  <2>2. data' = [d \in Devices |-> Updated(data[d], overlays'[d])]
    BY <1>9 DEF Frame, Push, Overlaid
  <2>3. data' \in [Devices -> Dicts]
    BY <1>0, <2>1, <2>2, UpdatedType
  <2>4. TypeOK'
    BY <1>9, <2>1, <2>3 DEF Frame, Push, IInv, TypeOK, refresh, world
  <2>5. RestFieldsKept'
    <3>1. \A d \in Devices :
            /\ "energy" \in DOMAIN data'[d] <=> "energy" \in DOMAIN data[d]
            /\ "energy" \in DOMAIN data[d] => data'[d]["energy"] = data[d]["energy"]
      BY <2>1, <2>2 DEF Updated
    <3>2. QED
      BY <1>9, <3>1 DEF Frame, IInv, RestFieldsKept
  <2>6. OverlayIsMqtt' /\ SharedIsSame'
    BY <1>9, <2>1, DictElim DEF OverlayIsMqtt, SharedIsSame, Frame, Push
  <2>7. ResultSoFar'
    BY <1>9 DEF Frame, IInv, ResultSoFar, refresh
  <2>8. QED
    BY <1>1, <1>9, <2>4, <2>5, <2>6, <2>7 DEF Frame, IInv
<1>10. ASSUME NEW sn \in Devices, QuietFrame(sn) PROVE IInv' /\ Advances
  <2>1. /\ overlays' \in [Devices -> Dicts]
        /\ \A d \in Devices : "energy" \notin DOMAIN overlays'[d]
    BY <1>10, NotedFacts, ValueType, NothingIsEmpty DEF QuietFrame
  <2>2. TypeOK'
    BY <1>10, <2>1 DEF QuietFrame, IInv, TypeOK, refresh, world
  <2>3. RestFieldsKept' /\ SharedIsSame' /\ ResultSoFar'
    BY <1>10 DEF QuietFrame, IInv, RestFieldsKept, SharedIsSame, ResultSoFar, refresh
  <2>4. OverlayIsMqtt'
    BY <2>1, DictElim DEF OverlayIsMqtt
  <2>5. QED
    BY <1>1, <1>10, <2>2, <2>3, <2>4 DEF QuietFrame, IInv
<1>11. ASSUME NEW sn \in Devices, UserWrites(sn) PROVE IInv' /\ Advances
  <2> DEFINE new == Updated(data[sn], Value("switch", asked[sn] + 1))
  <2>1. asked[sn] + 1 \in 0..MaxWrites /\ asked' \in [Devices -> 0..MaxWrites]
    <3>1. asked \in [Devices -> 0..MaxWrites] /\ asked[sn] < MaxWrites
      BY <1>11 DEF UserWrites, IInv, TypeOK
    <3>2. asked[sn] + 1 \in 0..MaxWrites
      BY <3>1
    <3>3. QED
      BY <1>11, <3>1, <3>2 DEF UserWrites
  <2>2. new \in Dicts
    BY <1>0, <2>1, ValueType, UpdatedType
  <2>3. /\ "energy" \in DOMAIN new <=> "energy" \in DOMAIN data[sn]
        /\ "energy" \in DOMAIN data[sn] => new["energy"] = data[sn]["energy"]
        /\ Seen(new) = Seen(data[sn])
    BY DEF Updated, Value, Seen
  <2>4. data' = [data EXCEPT ![sn] = new] /\ cache' = IF shared THEN data' ELSE cache
    BY <1>11 DEF UserWrites
  <2> HIDE DEF new
  <2>5. data \in [Devices -> Dicts] /\ cache \in [Devices -> Dicts]
    BY DEF IInv, TypeOK
  <2>6. data' \in [Devices -> Dicts] /\ cache' \in [Devices -> Dicts]
    BY <2>2, <2>4, <2>5
  <2>7. \A d \in Devices :
          /\ "energy" \in DOMAIN data'[d] <=> "energy" \in DOMAIN data[d]
          /\ "energy" \in DOMAIN data[d] => data'[d]["energy"] = data[d]["energy"]
          /\ Seen(data'[d]) = Seen(data[d])
    BY <2>3, <2>4, <2>5
  <2>8. TypeOK'
    BY <1>11, <2>1, <2>6 DEF UserWrites, IInv, TypeOK, refresh
  <2>9. RestFieldsKept'
    <3>1. CASE shared
      BY <2>4, <3>1 DEF RestFieldsKept
    <3>2. CASE ~shared
      BY <2>4, <2>7, <3>2 DEF IInv, RestFieldsKept
    <3>3. QED
      BY <3>1, <3>2
  <2>10. Advances /\ \A d \in Devices : Seen(cache'[d]) = Seen(cache[d])
    <3>1. \A d \in Devices : Seen(cache'[d]) = Seen(cache[d])
      <4>1. CASE shared
        BY <2>4, <2>7, <4>1 DEF IInv, SharedIsSame
      <4>2. CASE ~shared
        BY <2>4, <4>2
      <4>3. QED
        BY <4>1, <4>2
    <3>2. QED
      BY <1>0, <3>1, SeenType
  <2>11. OverlayIsMqtt' /\ SharedIsSame'
    BY <1>11, <2>4 DEF UserWrites, IInv, OverlayIsMqtt, SharedIsSame
  <2>12. ResultSoFar'
    <3>1. DOMAIN result \subseteq Devices
      BY DEF IInv, TypeOK
    <3>2. QED
      BY <1>11, <2>10, <3>1 DEF UserWrites, IInv, ResultSoFar, refresh
  <2>13. QED
    BY <2>8, <2>9, <2>10, <2>11, <2>12 DEF IInv
<1>12. ASSUME NEW sn \in Devices, DeviceApplies(sn) PROVE IInv' /\ Advances
  <2>1. state' \in [Devices -> 0..MaxWrites]
    <3>1. /\ state \in [Devices -> 0..MaxWrites] /\ asked \in [Devices -> 0..MaxWrites]
          /\ state[sn] < asked[sn]
      BY <1>12 DEF DeviceApplies, IInv, TypeOK
    <3>2. state[sn] + 1 \in 0..MaxWrites
      BY <3>1
    <3>3. QED
      BY <1>12, <3>1, <3>2 DEF DeviceApplies
  <2>2. TypeOK'
    BY <1>12, <2>1 DEF DeviceApplies, IInv, TypeOK, refresh
  <2>3. RestFieldsKept' /\ OverlayIsMqtt' /\ SharedIsSame' /\ ResultSoFar'
    BY <1>12 DEF DeviceApplies, refresh, IInv, RestFieldsKept, OverlayIsMqtt, SharedIsSame, ResultSoFar
  <2>4. QED
    BY <1>1, <1>12, <2>2, <2>3 DEF DeviceApplies, IInv
<1>13. ASSUME NEW sn \in Devices, Uploads(sn) PROVE IInv' /\ Advances
  <2>1. cloud' \in [Devices -> 0..MaxWrites]
    BY <1>13 DEF Uploads, IInv, TypeOK
  <2>2. TypeOK'
    BY <1>13, <2>1 DEF Uploads, IInv, TypeOK, refresh
  <2>3. RestFieldsKept' /\ OverlayIsMqtt' /\ SharedIsSame' /\ ResultSoFar'
    BY <1>13 DEF Uploads, refresh, IInv, RestFieldsKept, OverlayIsMqtt, SharedIsSame, ResultSoFar
  <2>4. QED
    BY <1>1, <1>13, <2>2, <2>3 DEF Uploads, IInv
<1>14. CASE Tick
  <2>1. now' \in Times
    BY <1>14 DEF Tick, IInv, TypeOK, Times
  <2>2. TypeOK'
    BY <1>14, <2>1 DEF Tick, IInv, TypeOK, refresh, world
  <2>3. RestFieldsKept' /\ OverlayIsMqtt' /\ SharedIsSame' /\ ResultSoFar'
    BY <1>14 DEF Tick, refresh, IInv, RestFieldsKept, OverlayIsMqtt, SharedIsSame, ResultSoFar
  <2>4. QED
    BY <1>1, <1>14, <2>2, <2>3 DEF Tick, IInv
<1>15. CASE UNCHANGED vars
  <2>1. TypeOK'
    BY <1>15 DEF vars, IInv, TypeOK, refresh, world
  <2>2. RestFieldsKept' /\ OverlayIsMqtt' /\ SharedIsSame' /\ ResultSoFar'
    BY <1>15 DEF vars, refresh, IInv, RestFieldsKept, OverlayIsMqtt, SharedIsSame, ResultSoFar
  <2>3. QED
    BY <1>1, <1>15, <2>1, <2>2 DEF vars, IInv
<1>16. ASSUME NEW sn \in MqttSns,
              SettingsArrive(sn) \/ EchoArrives(sn) \/ OtherBlockArrives(sn)
       PROVE  IInv' /\ Advances
  <2>1. sn \in Devices
    BY DEF Devices
  <2>2. PICK fields \in {Value("switch", v) : v \in Reportable(sn)} \cup {NoValues} :
          Frame(sn, fields)
    BY <1>16 DEF SettingsArrive, EchoArrives, OtherBlockArrives
  <2>3. fields \in Dicts /\ "energy" \notin DOMAIN fields
    <3>1. state[sn] \in 0..MaxWrites
      BY <2>1 DEF IInv, TypeOK
    <3>2. Reportable(sn) \subseteq 0..MaxWrites
      BY <3>1 DEF Reportable
    <3>3. \A v \in Reportable(sn) : "energy" \notin DOMAIN Value("switch", v)
      BY DEF Value
    <3>4. QED
      BY <3>2, <3>3, ValueType, NothingIsEmpty
  <2>4. QED
    BY <1>9, <2>1, <2>2, <2>3
<1>17. MqttSns \subseteq Devices
  BY DEF Devices
<1> HIDE DEF Advances
<1>18. QED
  BY <1>2, <1>3, <1>4, <1>5, <1>6, <1>7, <1>8, <1>10, <1>11, <1>12, <1>13, <1>14, <1>15,
     <1>16, <1>17 DEF Next, RefreshStep, Advances

------------------------------------------------------------------------------
(* The contact of a completed refresh.                                       *)

\* dict.update takes the contact time of the update, if it has one.
LEMMA UpdatedSeen ==
  ASSUME NEW a, NEW b
  PROVE  Seen(Updated(a, b)) = IF "last_seen" \in DOMAIN b THEN Seen(b) ELSE Seen(a)
BY DEF Seen, Updated

\* The contact times of the dicts the code makes of one field, and of none.
LEMMA ValueSeen ==
  /\ "last_seen" \notin DOMAIN NoValues /\ Seen(NoValues) = 0
  /\ \A t : "last_seen" \in DOMAIN Value("last_seen", t) /\ Seen(Value("last_seen", t)) = t
  /\ \A v : "last_seen" \notin DOMAIN Value("switch", v)
  /\ \A v : "last_seen" \notin DOMAIN Value("energy", v)
BY DEF Seen, Value, NoValues

\* Whatever is not newer than the clock before the merge of a finished device is not
\* afterwards, and without an overlay or a newer cached contact the fetched one stays.
LEMMA FinishedSeen ==
  ASSUME NEW sn \in Devices, NEW d \in Dicts, NEW t \in Nat,
         overlays[sn] \in Dicts, cache[sn] \in Dicts
  PROVE  /\ /\ Seen(d) <= t /\ Seen(overlays[sn]) <= t /\ Seen(cache[sn]) <= t
            => Seen(Finished(sn, d)) <= t
         /\ "last_seen" \notin DOMAIN overlays[sn] /\ Seen(cache[sn]) <= Seen(d)
            => Seen(Finished(sn, d)) = Seen(d)
<1> DEFINE o == Overlaid(d, overlays[sn])
           previous == Seen(cache[sn])
<1>1. Seen(o) \in {Seen(d), Seen(overlays[sn])}
  BY UpdatedSeen DEF Overlaid
<1>2. "last_seen" \notin DOMAIN overlays[sn] => Seen(o) = Seen(d)
  BY UpdatedSeen DEF Overlaid
<1>3. Seen(d) \in Nat /\ Seen(overlays[sn]) \in Nat /\ previous \in Nat
  BY SeenType
<1>4. Seen(Finished(sn, d)) = IF previous > Seen(o) THEN previous ELSE Seen(o)
  BY UpdatedSeen, ValueSeen DEF Finished, KeepSeen
<1> HIDE DEF o, previous
<1>5. /\ Seen(d) <= t /\ Seen(overlays[sn]) <= t /\ previous <= t
      => Seen(Finished(sn, d)) <= t
  BY <1>1, <1>3, <1>4
<1>6. "last_seen" \notin DOMAIN overlays[sn] /\ previous <= Seen(d) => Seen(Finished(sn, d)) = Seen(d)
  BY <1>2, <1>3, <1>4
<1>7. QED
  BY <1>5, <1>6 DEF previous

\* The invariant of contact times, inductive together with IInv.
Contacts == ContactsPast /\ FetchedIsFresh

\* The start, at time 1 and with nothing heard, satisfies Contacts.
LEMMA InitContacts == Init => Contacts
BY ValueSeen, NothingIsEmpty DEF Init, Contacts, ContactsPast, FetchedIsFresh

\* Steps that change neither the dicts' contact times nor the refresh keep Contacts.
LEMMA QuietContacts ==
  ASSUME IInv, Contacts, UNCHANGED <<overlays, refresh>>,
         now' \in Nat, now' >= now,
         \A sn \in Devices : Seen(cache'[sn]) = Seen(cache[sn])
  PROVE  Contacts'
<1>1. now \in Nat
  BY DEF IInv, TypeOK, Times
<1>2. /\ \A sn \in Devices : Seen(cache[sn]) \in Nat /\ Seen(overlays[sn]) \in Nat
      /\ \A sn \in DOMAIN result : Seen(result[sn]) \in Nat
      /\ Seen(fetched) \in Nat
  BY SeenType DEF IInv, TypeOK
<1>3. ContactsPast'
  BY <1>1, <1>2 DEF Contacts, ContactsPast, refresh
<1>4. FetchedIsFresh'
  BY DEF Contacts, FetchedIsFresh, refresh
<1>5. QED
  BY <1>3, <1>4 DEF Contacts

\* A refresh that moves on to its next device, or ends, stores no contact time that is
\* ahead of the clock.
LEMMA ProceedContacts ==
  ASSUME IInv, Contacts,
         NEW list, NEW k \in 1..Len(Sns) + 1, NEW done,
         \A sn \in DOMAIN list : "last_seen" \notin DOMAIN list[sn],
         DOMAIN done = {Sns[i] : i \in 1..k - 1},
         \A sn \in DOMAIN done : Seen(done[sn]) <= now,
         Proceed(list, k, done),
         UNCHANGED <<now, overlays, world>>
  PROVE  Contacts'
<1>1. PICK n \in k..Len(Sns) + 1 :
         LET sofar == Updated([sn \in {Sns[i] : i \in k..n - 1} |-> cache[sn]], done)
         IN /\ IsNextListed(list, k, n)
            /\ \/ /\ n > Len(Sns)
                  /\ Commit(sofar)
               \/ /\ n <= Len(Sns)
                  /\ phase' = "alive" /\ at' = n
                  /\ listing' = list /\ fetched' = list[Sns[n]] /\ result' = sofar
                  /\ UNCHANGED <<loaded, data, cache, shared, success>>
  BY DEF Proceed
<1> DEFINE sofar == Updated([sn \in {Sns[i] : i \in k..n - 1} |-> cache[sn]], done)
<1>2. k \in Nat /\ n \in Nat /\ Len(Sns) \in Nat /\ n <= Len(Sns) + 1 /\ now \in Nat
  BY DEF IInv, TypeOK, Times
<1>3. \A sn \in DOMAIN sofar : Seen(sofar[sn]) <= now
  <2> SUFFICES ASSUME NEW sn \in DOMAIN sofar PROVE Seen(sofar[sn]) <= now
    OBVIOUS
  <2>1. sofar[sn] = IF sn \in DOMAIN done THEN done[sn] ELSE cache[sn]
    BY DEF Updated
  <2>2. sn \in Devices
    <3>1. DOMAIN sofar = {Sns[i] : i \in k..n - 1} \cup DOMAIN done
      BY DEF Updated
    <3>2. QED
      BY <1>2, <3>1 DEF Devices
  <2>3. Seen(cache[sn]) <= now
    BY <2>2 DEF Contacts, ContactsPast
  <2> HIDE DEF sofar
  <2>4. QED
    BY <2>1, <2>3
<1> HIDE DEF sofar
<1>4. CASE n > Len(Sns) /\ Commit(sofar)
  <2>1. /\ cache' = sofar /\ phase' = "idle"
        /\ listing' = NoValues /\ fetched' = NoValues /\ result' = NoValues
    BY <1>4 DEF Commit
  <2>2. Devices \subseteq DOMAIN sofar
    <3>1. Devices \subseteq {Sns[i] : i \in k..n - 1} \cup {Sns[i] : i \in 1..k - 1}
      BY <1>2, <1>4 DEF Devices
    <3>2. QED
      BY <3>1 DEF sofar, Updated
  <2>3. ContactsPast'
    BY <1>2, <1>3, <2>1, <2>2, ValueSeen, NothingIsEmpty DEF Contacts, ContactsPast
  <2>4. FetchedIsFresh'
    BY <2>1, NothingIsEmpty DEF FetchedIsFresh
  <2>5. QED
    BY <2>3, <2>4 DEF Contacts
<1>5. CASE /\ n <= Len(Sns)
           /\ phase' = "alive" /\ at' = n
           /\ listing' = list /\ fetched' = list[Sns[n]] /\ result' = sofar
           /\ UNCHANGED <<loaded, data, cache, shared, success>>
  <2>1. Sns[n] \in DOMAIN list
    BY <1>1, <1>5 DEF IsNextListed
  <2>2. "last_seen" \notin DOMAIN fetched' /\ Seen(fetched') = 0
    BY <1>5, <2>1 DEF Seen
  <2>3. ContactsPast'
    BY <1>2, <1>3, <1>5, <2>2 DEF Contacts, ContactsPast
  <2>4. FetchedIsFresh'
    BY <1>5, <2>2 DEF FetchedIsFresh
  <2>5. QED
    BY <2>3, <2>4 DEF Contacts
<1>6. QED
  BY <1>1, <1>4, <1>5 DEF sofar

\* A frame notes its contact at the present time, and leaves no other contact behind.
LEMMA NotedContacts ==
  ASSUME IInv, Contacts, NEW sn \in Devices, NEW fields, "last_seen" \notin DOMAIN fields,
         overlays' = Noted(sn, fields),
         UNCHANGED <<now, cache, refresh>>
  PROVE  Contacts'
<1> DEFINE new == Updated(overlays[sn], Updated(Value("last_seen", now), fields))
<1>1. Seen(new) = now
  <2>1. Seen(Updated(Value("last_seen", now), fields)) = now
    BY UpdatedSeen, ValueSeen
  <2>2. "last_seen" \in DOMAIN Updated(Value("last_seen", now), fields)
    BY ValueSeen DEF Updated
  <2>3. QED
    BY <2>1, <2>2, UpdatedSeen
<1>2. overlays' = [overlays EXCEPT ![sn] = new] /\ overlays \in [Devices -> Dicts]
  BY DEF Noted, IInv, TypeOK
<1> HIDE DEF new
<1>3. now \in Nat
  BY DEF IInv, TypeOK, Times
<1>4. \A d \in Devices : Seen(overlays'[d]) <= now
  BY <1>1, <1>2, <1>3 DEF Contacts, ContactsPast
<1>5. QED
  BY <1>4 DEF Contacts, ContactsPast, FetchedIsFresh, refresh

\* Every await of the refresh, every frame and every write preserves Contacts.
LEMMA NextContacts == IInv /\ Contacts /\ [Next]_vars => Contacts'
<1> SUFFICES ASSUME IInv, Contacts, [Next]_vars PROVE Contacts'
  OBVIOUS
<1>0. now \in Nat
  BY DEF IInv, TypeOK, Times
<1>1. CASE RefreshStarts
  BY <1>1 DEF RefreshStarts, Contacts, ContactsPast, FetchedIsFresh
<1>2. CASE ListFails \/ RefreshRaises
  <2>1. /\ phase' = "idle" /\ UNCHANGED <<now, cache, overlays>>
        /\ listing' = NoValues /\ fetched' = NoValues /\ result' = NoValues
    BY <1>2 DEF ListFails, RefreshRaises, GiveUp
  <2>2. QED
    BY <1>0, <2>1, ValueSeen, NothingIsEmpty DEF Contacts, ContactsPast, FetchedIsFresh
<1>3. CASE ListAnswers
  <2>1. PICK listed \in SUBSET Devices : \E telling \in SUBSET (listed \ NullSns) :
          Proceed([sn \in listed |-> IF sn \in telling THEN Value("switch", cloud[sn])
                                                       ELSE NoValues], 1, NoValues)
    BY <1>3 DEF ListAnswers
  <2>2. PICK telling \in SUBSET (listed \ NullSns) :
          Proceed([sn \in listed |-> IF sn \in telling THEN Value("switch", cloud[sn])
                                                       ELSE NoValues], 1, NoValues)
    BY <2>1
  <2> DEFINE list == [sn \in listed |-> IF sn \in telling THEN Value("switch", cloud[sn])
                                                          ELSE NoValues]
  <2>3. \A sn \in DOMAIN list : "last_seen" \notin DOMAIN list[sn]
    BY ValueSeen
  <2>4. DOMAIN NoValues = {Sns[i] : i \in 1..1 - 1} /\ 1 \in 1..Len(Sns) + 1
    BY NothingIsEmpty
  <2>5. Proceed(list, 1, NoValues) /\ UNCHANGED <<now, overlays, world>>
    BY <1>3, <2>2 DEF ListAnswers
  <2> HIDE DEF list
  <2>6. QED
    BY <2>3, <2>4, <2>5, ProceedContacts, NothingIsEmpty
<1>4. CASE AliveAnswers
  <2>1. PICK told \in {Value("switch", cloud[Sns[at]]), NoValues} :
          fetched' = Updated(fetched, Updated(Value("last_seen", now), told))
    BY <1>4 DEF AliveAnswers
  <2>2. Seen(fetched') = now
    <3>1. Seen(Updated(Value("last_seen", now), told)) = now
      BY UpdatedSeen, ValueSeen
    <3>2. "last_seen" \in DOMAIN Updated(Value("last_seen", now), told)
      BY ValueSeen DEF Updated
    <3>3. QED
      BY <2>1, <3>1, <3>2, UpdatedSeen
  <2>3. ContactsPast'
    BY <1>0, <1>4, <2>2 DEF AliveAnswers, Contacts, ContactsPast
  <2>4. FetchedIsFresh'
    BY <1>4, <2>2 DEF AliveAnswers, Contacts, ContactsPast, FetchedIsFresh
  <2>5. QED
    BY <2>3, <2>4 DEF Contacts
<1>5. CASE AliveIsNull
  BY <1>5 DEF AliveIsNull, Contacts, ContactsPast, FetchedIsFresh
<1>6. CASE EnergyAnswers
  <2>1. PICK energy \in {Value("energy", now), NoValues} :
          Proceed(listing, at + 1,
                  Updated(result,
                          Value(Sns[at], Finished(Sns[at], Updated(fetched, energy)))))
    BY <1>6 DEF EnergyAnswers
  <2> DEFINE device == Finished(Sns[at], Updated(fetched, energy))
             done == Updated(result, Value(Sns[at], device))
  <2>2. at \in 1..Len(Sns) /\ Sns[at] \in Devices
    BY <1>6 DEF EnergyAnswers, IInv, ResultSoFar, Devices
  <2>3. Seen(device) <= now
    <3>1. Updated(fetched, energy) \in Dicts /\ Seen(Updated(fetched, energy)) <= now
      BY ValueType, UpdatedType, UpdatedSeen, ValueSeen DEF IInv, TypeOK, Contacts, ContactsPast
    <3>2. overlays[Sns[at]] \in Dicts /\ cache[Sns[at]] \in Dicts
      BY <2>2 DEF IInv, TypeOK
    <3>3. Seen(overlays[Sns[at]]) <= now /\ Seen(cache[Sns[at]]) <= now
      BY <2>2 DEF Contacts, ContactsPast
    <3>4. QED
      BY <1>0, <2>2, <3>1, <3>2, <3>3, FinishedSeen
  <2>4. DOMAIN done = {Sns[i] : i \in 1..(at + 1) - 1}
    <3>1. DOMAIN done = {Sns[i] : i \in 1..at - 1} \cup {Sns[at]}
      BY <1>6 DEF EnergyAnswers, IInv, ResultSoFar, Updated, Value
    <3>2. 1..(at + 1) - 1 = (1..at - 1) \cup {at}
      BY <2>2
    <3>3. QED
      BY <3>1, <3>2
  <2>5. \A sn \in DOMAIN done : Seen(done[sn]) <= now
    <3>1. \A sn \in DOMAIN done :
            \/ sn = Sns[at] /\ done[sn] = device
            \/ sn \in DOMAIN result /\ done[sn] = result[sn]
      BY DEF Updated, Value
    <3> HIDE DEF done, device
    <3>2. QED
      BY <2>3, <3>1 DEF Contacts, ContactsPast
  <2>6. \A sn \in DOMAIN listing : "last_seen" \notin DOMAIN listing[sn]
    BY DEF Contacts, FetchedIsFresh
  <2>7. at + 1 \in 1..Len(Sns) + 1
    BY <2>2
  <2>8. Proceed(listing, at + 1, done) /\ UNCHANGED <<now, overlays, world>>
    BY <1>6, <2>1 DEF EnergyAnswers
  <2> HIDE DEF done
  <2>9. QED
    BY <2>4, <2>5, <2>6, <2>7, <2>8, ProceedContacts
<1>7. ASSUME NEW sn \in MqttSns,
             SettingsArrive(sn) \/ EchoArrives(sn) \/ OtherBlockArrives(sn) \/ QuietFrame(sn)
      PROVE  Contacts'
  <2>1. sn \in Devices
    BY DEF Devices
  <2>2. CASE SettingsArrive(sn) \/ EchoArrives(sn) \/ OtherBlockArrives(sn)
    <3>1. PICK fields \in {Value("switch", v) : v \in Reportable(sn)} \cup {NoValues} :
            Frame(sn, fields)
      BY <2>2 DEF SettingsArrive, EchoArrives, OtherBlockArrives
    <3>2. "last_seen" \notin DOMAIN fields
      BY ValueSeen
    <3>3. overlays' = Noted(sn, fields) /\ UNCHANGED <<now, cache, refresh>>
      BY <3>1 DEF Frame
    <3>4. QED
      BY <2>1, <3>2, <3>3, NotedContacts
  <2>3. CASE QuietFrame(sn)
    BY <2>1, <2>3, ValueSeen, NotedContacts DEF QuietFrame
  <2>4. QED
    BY <1>7, <2>2, <2>3
<1>8. ASSUME NEW sn \in MqttSns, UserWrites(sn) PROVE Contacts'
  <2>1. \A d \in Devices : Seen(cache'[d]) = Seen(cache[d])
    <3>1. ASSUME shared, NEW d \in Devices PROVE Seen(cache'[d]) = Seen(cache[d])
      <4>1. data = cache /\ data \in [Devices -> Dicts] /\ cache' = data'
        BY <1>8, <3>1 DEF UserWrites, IInv, SharedIsSame, TypeOK
      <4> DEFINE new == Updated(data[sn], Value("switch", asked[sn] + 1))
      <4>2. Seen(new) = Seen(data[sn])
        BY UpdatedSeen, ValueSeen
      <4>3. data' = [data EXCEPT ![sn] = new]
        BY <1>8 DEF UserWrites
      <4> HIDE DEF new
      <4>4. QED
        BY <4>1, <4>2, <4>3
    <3>2. QED
      BY <1>8, <3>1 DEF UserWrites
  <2>2. QED
    BY <1>0, <1>8, <2>1, QuietContacts DEF UserWrites
<1>9. ASSUME NEW sn \in MqttSns, DeviceApplies(sn) \/ Uploads(sn) PROVE Contacts'
  BY <1>0, <1>9, QuietContacts DEF DeviceApplies, Uploads
<1>10. CASE Tick
  BY <1>0, <1>10, QuietContacts DEF Tick
<1>11. CASE UNCHANGED vars
  BY <1>0, <1>11, QuietContacts DEF vars
<1>12. QED
  BY <1>1, <1>2, <1>3, <1>4, <1>5, <1>6, <1>7, <1>8, <1>9, <1>10, <1>11 DEF Next, RefreshStep

\* One step's part of RestContactShown.
ContactStep ==
    \A sn \in Devices :
          /\ phase = "energy" /\ sn = Sns[at] /\ phase' = "idle" /\ success'
          /\ "last_seen" \in DOMAIN fetched /\ "last_seen" \notin DOMAIN overlays[sn]
          => Seen(data'[sn]) = Seen(fetched)

\* Of the steps that end a refresh after its last energy totals only one succeeds,
\* and it shows the device it was at as Finished left it.
LEMMA StepShowsContact == IInv /\ Contacts /\ [Next]_vars => ContactStep
<1> SUFFICES ASSUME IInv, Contacts, [Next]_vars, NEW sn \in Devices,
                    phase = "energy", sn = Sns[at], phase' = "idle", success',
                    "last_seen" \in DOMAIN fetched, "last_seen" \notin DOMAIN overlays[sn]
             PROVE  Seen(data'[sn]) = Seen(fetched)
  BY DEF ContactStep
<1>1. EnergyAnswers
  <2>1. /\ ~RefreshStarts /\ ~ListFails /\ ~ListAnswers /\ ~AliveAnswers /\ ~AliveIsNull
        /\ ~RefreshRaises
    BY DEF RefreshStarts, ListFails, ListAnswers, AliveAnswers, AliveIsNull, RefreshRaises
  <2>2. \A d \in MqttSns :
          /\ ~SettingsArrive(d) /\ ~EchoArrives(d) /\ ~OtherBlockArrives(d) /\ ~QuietFrame(d)
          /\ ~UserWrites(d) /\ ~DeviceApplies(d) /\ ~Uploads(d)
    BY DEF SettingsArrive, EchoArrives, OtherBlockArrives, QuietFrame, Frame,
           UserWrites, DeviceApplies, Uploads, refresh
  <2>3. ~Tick /\ ~UNCHANGED vars
    BY DEF Tick, vars, refresh
  <2>4. QED
    BY <2>1, <2>2, <2>3 DEF Next, RefreshStep
<1>2. PICK energy \in {Value("energy", now), NoValues} :
        Proceed(listing, at + 1,
                Updated(result, Value(sn, Finished(sn, Updated(fetched, energy)))))
  BY <1>1 DEF EnergyAnswers
<1> DEFINE device == Finished(sn, Updated(fetched, energy))
           done == Updated(result, Value(sn, device))
<1>3. Seen(device) = Seen(fetched)
  <2>1. Updated(fetched, energy) \in Dicts /\ Seen(Updated(fetched, energy)) = Seen(fetched)
    BY ValueType, UpdatedType, UpdatedSeen, ValueSeen DEF IInv, TypeOK
  <2>2. overlays[sn] \in Dicts /\ cache[sn] \in Dicts /\ 0 \in Nat
    BY DEF IInv, TypeOK
  <2>3. Seen(cache[sn]) <= Seen(fetched)
    BY DEF Contacts, FetchedIsFresh
  <2>4. QED
    BY <2>1, <2>2, <2>3, FinishedSeen
<1>4. sn \in DOMAIN done /\ done[sn] = device
  BY DEF Updated, Value
<1> HIDE DEF device, done
<1>5. PICK n \in at + 1..Len(Sns) + 1 :
        Commit(Updated([d \in {Sns[i] : i \in at + 1..n - 1} |-> cache[d]], done))
  BY <1>2 DEF Proceed, done, device
<1>6. data'[sn] = device
  BY <1>4, <1>5 DEF Commit, Updated
<1>7. QED
  BY <1>3, <1>6

------------------------------------------------------------------------------
(* The theorems.                                                             *)

\* In every reachable state the inductive invariant holds.
THEOREM DeviceDataInvariant == Spec => []IInv
<1>1. IInv /\ [Next]_vars => IInv'
  BY NextIInv
<1>2. QED
  BY InitIInv, <1>1, PTL DEF Spec

\* Every value shown, cached or kept in an overlay has the type of its field, however
\* the refresh of coordinator.py, the frames and the writes interleave.
THEOREM DeviceDataTypes == Spec => []TypeOK
<1>1. IInv => TypeOK
  BY DEF IInv
<1>2. QED
  BY DeviceDataInvariant, <1>1, PTL

\* What only REST provides is shown as the last completed refresh left it: no push,
\* no write and no fallback of coordinator.py loses it or takes it back.
THEOREM RestFieldsAreKept == Spec => []RestFieldsKept
<1>1. IInv => RestFieldsKept
  BY DEF IInv
<1>2. QED
  BY DeviceDataInvariant, <1>1, PTL

\* No refresh, fallback, frame or write takes back the contact time that
\* coordinator.py keeps for a device in _last_good_data.
THEOREM CachedContactNeverBack == Spec => CachedContactAdvances
<1>1. IInv /\ [Next]_vars => [\A sn \in Devices : Seen(cache'[sn]) >= Seen(cache[sn])]_vars
  BY NextIInv
<1>2. QED
  BY DeviceDataInvariant, <1>1, PTL DEF Spec, CachedContactAdvances

\* What a completed refresh of coordinator.py heard of a device over REST is shown, if
\* MQTT has never heard of the device: the merge with what was cached does not hide it.
THEOREM RestContactIsShown == Spec => RestContactShown
<1>1. Spec => []Contacts
  BY InitContacts, NextContacts, DeviceDataInvariant, PTL DEF Spec
<1>2. IInv /\ Contacts /\ [Next]_vars => [ContactStep]_vars
  BY StepShowsContact
<1>3. QED
  BY <1>1, <1>2, DeviceDataInvariant, PTL DEF Spec, RestContactShown, ContactStep

==============================================================================
