----------------------------- MODULE EntryProofs ------------------------------
(***************************************************************************)
(* What is proved of a config entry.                                       *)
(*                                                                         *)
(* Of Session, for any accounts, devices and dialogues: IInv is inductive, *)
(* so a dialogue creates at most one entry for an account, and an entry    *)
(* has the name and model of what it monitors.                             *)
(*                                                                         *)
(* Of Fallback, for any two intervals, any longest refresh and any age at  *)
(* which contact is too old: FallbackIInv is inductive, so the timer       *)
(* bounds when a lost link, a REST-only device and a silent device are     *)
(* attended to.                                                            *)
(***************************************************************************)
EXTENDS Session, Fallback, TLAPS

------------------------------------------------------------------------------
(* Session.                                                                  *)

\* At the start there are no entries and no dialogues.
LEMMA InitIInv == Init => IInv
  <1> SUFFICES ASSUME Init PROVE IInv
    OBVIOUS
  <1>1. /\ Idle \in [at : Steps, of : Accounts \cup {Nobody}, known : SUBSET Devices,
                      offered : SUBSET Devices, chosen : SUBSET Devices]
        /\ Idle.at = "closed" /\ Idle.known = {} /\ Idle.offered = {} /\ Idle.chosen = {}
    BY DEF Idle, Steps
  <1>2. TypeOK
    BY <1>1 DEF Init, TypeOK, EntryStates, Tokens, Calls
  <1>3. Forms /\ Claims /\ SelectedIsNamed
    BY <1>1 DEF Init, Forms, Claims, SelectedIsNamed
  <1> QED BY <1>2, <1>3 DEF IInv

States == [at : Steps, of : Accounts \cup {Nobody}, known : SUBSET Devices,
           offered : SUBSET Devices, chosen : SUBSET Devices]

\* What a state of a dialogue needs, by itself and next to the others, if the entries stay
\* as they are.
LEMMA FlowIInv ==
    ASSUME IInv, NEW f \in Flows, NEW s \in States, GoesTo(f, s),
           UNCHANGED <<entries, token, call>>,
           s.at \notin {"closed", "user"} => s.of \in Accounts,
           s.offered = s.known /\ s.chosen \subseteq s.known,
           s.at # "resubmitted" => s.chosen = {}, s.at = "resubmitted" => s.known = {},
           s.at \in {"listing", "devices"} =>
               /\ entry[s.of] = "none"
               /\ \A g \in Flows \ {f} : flow[g].at \in {"listing", "devices"} => flow[g].of # s.of,
           s.at \in {"fetching", "form", "resubmitted"} => entry[s.of] # "none"
    PROVE  IInv'
  <1>1. flow' \in [Flows -> States] /\ flow'[f] = s /\ \A g \in Flows \ {f} : flow'[g] = flow[g]
    BY DEF GoesTo, IInv, TypeOK, States
  <1>2. TypeOK' /\ SelectedIsNamed'
    BY <1>1 DEF IInv, TypeOK, SelectedIsNamed, States, entries
  <1>3. Forms'
    BY <1>1 DEF IInv, Forms, entries
  <1>4. Claims'
    BY <1>1 DEF IInv, Claims
  <1> QED BY <1>2, <1>3, <1>4 DEF IInv

\* The entries change, and dialogues only by being closed: an account that gets an entry
\* is no longer claimed, and one that loses it no longer changed.
LEMMA EntryIInv ==
    ASSUME IInv, NEW closed \in SUBSET Flows,
           flow' = [f \in Flows |-> IF f \in closed THEN Idle ELSE flow[f]],
           entry' \in [Accounts -> EntryStates], token' \in [Accounts -> Tokens],
           call' \in [Accounts -> Calls],
           selected' \in [Accounts -> SUBSET Devices], named' = selected',
           \A f \in Flows \ closed :
              /\ flow[f].at \in {"listing", "devices"} => entry'[flow[f].of] = "none"
              /\ flow[f].at \in {"fetching", "form", "resubmitted"} => entry'[flow[f].of] # "none"
    PROVE  IInv'
  <1>1. Idle \in States /\ Idle.at = "closed" /\ Idle.offered = Idle.known
        /\ Idle.chosen = {}
    BY DEF Idle, States, Steps
  <1>2. flow' \in [Flows -> States]
        /\ \A f \in Flows : flow'[f] = IF f \in closed THEN Idle ELSE flow[f]
    BY <1>1 DEF IInv, TypeOK, States
  <1>3. TypeOK' /\ SelectedIsNamed'
    BY <1>2 DEF TypeOK, SelectedIsNamed, States
  <1>4. Forms'
    BY <1>1, <1>2 DEF IInv, Forms
  <1>5. Claims'
    BY <1>1, <1>2 DEF IInv, Claims
  <1> QED BY <1>3, <1>4, <1>5 DEF IInv

\* A dialogue that ends sets an entry up, with some of the devices it knows.
LEMMA SetsUpIInv ==
    ASSUME IInv, NEW f \in Flows, NEW choice \in SUBSET Devices, NEW options,
           choice \subseteq options, flow[f].of \in Accounts,
           flow[f].at = "devices" \/ entry[flow[f].of] # "none",
           Stores(flow[f].of, choice, options), SetsUp(flow[f].of), GoesTo(f, Idle)
    PROVE  IInv'
  <1> DEFINE a == flow[f].of
  <1>1. named' = selected' /\ selected' \in [Accounts -> SUBSET Devices]
    BY DEF Stores, IInv, TypeOK, SelectedIsNamed
  <1>2. /\ entry' = [entry EXCEPT ![a] = "login"] /\ entry' \in [Accounts -> EntryStates]
        /\ token' \in [Accounts -> Tokens] /\ call' \in [Accounts -> Calls]
    BY DEF SetsUp, IInv, TypeOK, EntryStates, Tokens, Calls
  <1>3. flow' = [g \in Flows |-> IF g \in {f} THEN Idle ELSE flow[g]]
    BY DEF GoesTo, IInv, TypeOK
  <1>4. \A g \in Flows \ {f} :
           flow[g].at \in {"listing", "devices"} => flow[g].of # a /\ entry[flow[g].of] = "none"
    BY DEF IInv, Forms, Claims
  <1>5. \A g \in Flows \ {f} :
           /\ flow[g].at \in {"listing", "devices"} => entry'[flow[g].of] = "none"
           /\ flow[g].at \in {"fetching", "form", "resubmitted"} => entry'[flow[g].of] # "none"
    BY <1>2, <1>4 DEF IInv, TypeOK, Forms
  <1>6. {f} \in SUBSET Flows
    OBVIOUS
  <1> HIDE DEF a
  <1> QED BY <1>1, <1>2, <1>3, <1>5, <1>6, EntryIInv

\* The steps of a dialogue.
LEMMA FlowStepIInv ==
    ASSUME SessionAssumption, IInv, NEW f \in Flows, FlowStep(f)
    PROVE  IInv'
  <1>1. flow[f] \in States /\ Idle \in States /\ {} \in SUBSET Devices
    BY DEF IInv, TypeOK, States, Idle, Steps
  <1>2. /\ flow[f].at \notin {"closed", "user"} => flow[f].of \in Accounts
        /\ flow[f].offered = flow[f].known /\ flow[f].chosen \subseteq flow[f].known
        /\ flow[f].at # "resubmitted" => flow[f].chosen = {}
        /\ flow[f].at = "resubmitted" => flow[f].known = {}
    BY DEF IInv, Forms
  <1>3. CASE Open(f)
    <2>1. [Idle EXCEPT !.at = "user"] \in States
      BY DEF Idle, States, Steps
    <2> QED BY <1>3, <2>1, FlowIInv DEF Open, Idle
  <1>4. CASE Close(f)
    BY <1>1, <1>4, FlowIInv DEF Close, Idle
  <1>5. CASE ListingFails(f)
    <2>1. [flow[f] EXCEPT !.at = "user"] \in States
      BY <1>1 DEF States, Steps
    <2> QED BY <1>1, <1>2, <1>5, <2>1, FlowIInv DEF ListingFails, States
  <1>6. ASSUME NEW a \in Accounts, SubmitUser(f, a) PROVE IInv'
    <2> DEFINE s == [flow[f] EXCEPT !.at = "listing", !.of = a]
    <2>1. s \in States /\ s.at = "listing" /\ s.of = a /\ s.known = flow[f].known
          /\ s.offered = flow[f].offered /\ s.chosen = flow[f].chosen
      BY <1>1 DEF States, Steps
    <2>2. CASE MayAdd(f, a) /\ GoesTo(f, s)
      <3>1. /\ entry[s.of] = "none"
            /\ \A g \in Flows \ {f} : flow[g].at \in {"listing", "devices"} => flow[g].of # s.of
        BY <2>1, <2>2 DEF MayAdd
      <3> HIDE DEF s
      <3> QED BY <1>2, <1>6, <2>1, <2>2, <3>1, FlowIInv DEF SubmitUser
    <2>3. CASE GoesTo(f, Idle)
      BY <1>1, <1>6, <2>3, FlowIInv DEF SubmitUser, Idle
    <2> QED BY <1>6, <2>2, <2>3 DEF SubmitUser
  <1>7. ASSUME NEW a \in Accounts, Reconfigure(f, a) PROVE IInv'
    <2> DEFINE s == [Idle EXCEPT !.at = "fetching", !.of = a]
    <2>1. s \in States /\ s.at = "fetching" /\ s.of = a /\ s.known = {} /\ s.offered = {}
          /\ s.chosen = {}
      BY DEF States, Steps, Idle
    <2>2. GoesTo(f, s) /\ entry[a] # "none" /\ UNCHANGED <<entries, token, call>>
      BY <1>7 DEF Reconfigure
    <2> HIDE DEF s
    <2> QED BY <2>1, <2>2, FlowIInv
  <1>8. ASSUME NEW options \in SUBSET Devices, Listed(f, options) PROVE IInv'
    <2> DEFINE s == [flow[f] EXCEPT !.at = "devices", !.known = options, !.offered = options]
    <2>1. s \in States /\ s.at = "devices" /\ s.of = flow[f].of /\ s.known = options
          /\ s.offered = options /\ s.chosen = flow[f].chosen
      BY <1>1 DEF States, Steps
    <2>2. GoesTo(f, s) /\ flow[f].at = "listing" /\ UNCHANGED <<entries, token, call>>
      BY <1>8 DEF Listed
    <2>3. /\ entry[s.of] = "none" /\ flow[f].chosen = {}
          /\ \A g \in Flows \ {f} : flow[g].at \in {"listing", "devices"} => flow[g].of # s.of
      BY <2>1, <2>2 DEF IInv, Forms, Claims
    <2> HIDE DEF s
    <2> QED BY <1>2, <2>1, <2>2, <2>3, FlowIInv
  <1>9. ASSUME NEW choice \in SUBSET Devices, SubmitDevices(f, choice) PROVE IInv'
    <2>1. /\ flow[f].at = "devices" /\ choice \subseteq flow[f].known /\ flow[f].of \in Accounts
          /\ Stores(flow[f].of, choice, flow[f].known) /\ SetsUp(flow[f].of) /\ GoesTo(f, Idle)
      BY <1>2, <1>9 DEF SubmitDevices
    <2> QED BY <2>1, SetsUpIInv
  <1>10. ASSUME NEW options \in SUBSET Devices, Fetched(f, options) PROVE IInv'
    <2>1. flow[f].at \in {"fetching", "resubmitted"} /\ Reconfigured(f, options)
          /\ flow[f].of \in Accounts /\ entry[flow[f].of] # "none"
      BY <1>2, <1>10 DEF Fetched, IInv, Forms
    <2>2. CASE flow[f].at = "fetching" \/ options = {}
      <3> DEFINE s == [flow[f] EXCEPT !.at = "form", !.known = options, !.offered = options,
                                      !.chosen = {}]
      <3>1. s \in States /\ s.at = "form" /\ s.of = flow[f].of /\ s.known = options
            /\ s.offered = options /\ s.chosen = {}
        BY <1>1 DEF States, Steps
      <3>2. GoesTo(f, s) /\ UNCHANGED <<entries, token, call>>
        BY <2>1, <2>2 DEF Reconfigured
      <3> HIDE DEF s
      <3> QED BY <2>1, <3>1, <3>2, FlowIInv
    <2>3. CASE ~(flow[f].at = "fetching" \/ options = {})
      <3>1. /\ Stores(flow[f].of, flow[f].chosen, options) /\ SetsUp(flow[f].of)
            /\ GoesTo(f, Idle)
        BY <2>1, <2>3 DEF Reconfigured
      <3>2. flow[f].chosen = {}
        BY <2>1, <2>3 DEF IInv, Forms
      <3> QED BY <1>1, <2>1, <3>1, <3>2, SetsUpIInv
    <2> QED BY <2>2, <2>3
  <1>11. ASSUME NEW choice \in SUBSET Devices, SubmitForm(f, choice) PROVE IInv'
    <2>1. flow[f].at = "form" /\ choice \subseteq flow[f].known
          /\ flow[f].of \in Accounts /\ entry[flow[f].of] # "none"
      BY <1>2, <1>11 DEF SubmitForm, IInv, Forms
    <2>2. CASE ListsDevices(f)
      <3> DEFINE s == [flow[f] EXCEPT !.at = "resubmitted", !.chosen = choice]
      <3>1. s \in States /\ s.at = "resubmitted" /\ s.of = flow[f].of /\ s.known = flow[f].known
            /\ s.offered = flow[f].offered /\ s.chosen = choice
        BY <1>1 DEF States, Steps
      <3>2. GoesTo(f, s) /\ UNCHANGED <<entries, token, call>>
        BY <1>11, <2>2 DEF SubmitForm
      <3>3. s.known = {}
        BY <2>2, <3>1 DEF ListsDevices
      <3> HIDE DEF s
      <3> QED BY <1>2, <2>1, <3>1, <3>2, <3>3, FlowIInv
    <2>3. CASE ~ListsDevices(f)
      <3>1. /\ Stores(flow[f].of, choice, flow[f].known) /\ SetsUp(flow[f].of)
            /\ GoesTo(f, Idle)
        BY <1>11, <2>3 DEF SubmitForm
      <3> QED BY <2>1, <3>1, SetsUpIInv
    <2> QED BY <2>2, <2>3
  <1> QED BY <1>3, <1>4, <1>5, <1>6, <1>7, <1>8, <1>9, <1>10, <1>11 DEF FlowStep

\* The steps of an entry.
LEMMA EntryStepIInv ==
    ASSUME SessionAssumption, IInv, NEW a \in Accounts, EntryStep(a)
    PROVE  IInv'
  <1>1. /\ flow \in [Flows -> States] /\ entry \in [Accounts -> EntryStates]
        /\ token \in [Accounts -> Tokens] /\ call \in [Accounts -> Calls]
        /\ selected \in [Accounts -> SUBSET Devices] /\ named = selected
    BY DEF IInv, TypeOK, States, SelectedIsNamed
  <1>2. CASE Remove(a)
    <2> DEFINE closed == {f \in Flows : Changes(f, a)}
    <2>1. /\ flow' = [f \in Flows |-> IF f \in closed THEN Idle ELSE flow[f]]
          /\ entry' = [entry EXCEPT ![a] = "none"] /\ entry[a] # "none"
          /\ selected' = [selected EXCEPT ![a] = {}] /\ named' = [named EXCEPT ![a] = {}]
          /\ token' = [token EXCEPT ![a] = "none"] /\ call' = [call EXCEPT ![a] = "none"]
      BY <1>2 DEF Remove
    <2>2. /\ entry' \in [Accounts -> EntryStates] /\ token' \in [Accounts -> Tokens]
          /\ call' \in [Accounts -> Calls] /\ selected' \in [Accounts -> SUBSET Devices]
          /\ named' = selected'
      BY <1>1, <2>1 DEF EntryStates, Tokens, Calls
    <2>3. \A f \in Flows \ closed :
             /\ flow[f].at \in {"listing", "devices"} => entry'[flow[f].of] = "none"
             /\ flow[f].at \in {"fetching", "form", "resubmitted"} => entry'[flow[f].of] # "none"
      BY <1>1, <2>1 DEF IInv, Forms, Changes
    <2> HIDE DEF closed
    <2>4. closed \in SUBSET Flows
      BY DEF closed
    <2> QED BY <2>1, <2>2, <2>3, <2>4, EntryIInv
  <1>3. ASSUME flow' = flow, selected' = selected, named' = named,
               token' \in [Accounts -> Tokens], call' \in [Accounts -> Calls],
               entry' \in [Accounts -> EntryStates],
               \A b \in Accounts : entry'[b] = "none" <=> entry[b] = "none"
        PROVE  IInv'
    <2>1. flow' = [f \in Flows |-> IF f \in {} THEN Idle ELSE flow[f]]
      BY <1>1, <1>3
    <2>2. \A f \in Flows \ {} :
             /\ flow[f].at \in {"listing", "devices"} => entry'[flow[f].of] = "none"
             /\ flow[f].at \in {"fetching", "form", "resubmitted"} => entry'[flow[f].of] # "none"
      BY <1>3 DEF IInv, Forms
    <2>3. {} \in SUBSET Flows
      OBVIOUS
    <2> QED BY <1>1, <1>3, <2>1, <2>2, <2>3, EntryIInv
  <1> USE <1>1 DEF EntryStates, Tokens, Calls
  <1>4. CASE Reload(a)
    BY <1>3, <1>4 DEF Reload, SetsUp
  <1>5. CASE LoginAtSetUp(a) \/ LoginFailsAtSetUp(a)
    BY <1>3, <1>5 DEF LoginAtSetUp, LoginFailsAtSetUp
  <1>6. CASE Asks(a) \/ LogsIn(a)
    BY <1>3, <1>6 DEF Asks, LogsIn, entries
  <1>7. ASSUME NEW outcome, Ends(a, outcome) PROVE IInv'
    BY <1>3, <1>7 DEF Ends
  <1>8. CASE Answered(a) \/ CallFails(a)
    <2>1. CASE Code805(a)
      BY <1>3, <2>1 DEF Code805, entries
    <2> QED BY <1>7, <1>8, <2>1 DEF Answered, CallFails
  <1>9. CASE \E state \in Tokens : Loses(a, state)
    BY <1>3, <1>9 DEF Loses, entries
  <1> QED BY <1>2, <1>4, <1>5, <1>6, <1>8, <1>9 DEF EntryStep

\* IInv is inductive: the steps of dialogues, entries, clients and of none of them.
LEMMA NextIInv == IInv /\ [Next]_vars => IInv'
  <1>1. IInv /\ UNCHANGED vars => IInv'
    BY DEF IInv, TypeOK, Forms, Claims, SelectedIsNamed, vars, entries
  <1> QED BY <1>1, FlowStepIInv, EntryStepIInv, SessionAssumption DEF Next

\* IInv holds in every state, for any accounts, devices and number of dialogues.
THEOREM SessionInvariant == Spec => []IInv
  BY InitIInv, NextIInv, PTL DEF Spec

\* A dialogue never creates a second entry for an account.
THEOREM DialoguesCreateNew == Spec => []CreatesNew
  <1>1. IInv => CreatesNew
    BY DEF IInv, Forms, Claims, CreatesNew
  <1> QED BY <1>1, SessionInvariant, PTL

\* An entry has the name and model of each device it monitors.
THEOREM SelectedAreNamed == Spec => []SelectedIsNamed
  <1>1. IInv => SelectedIsNamed
    BY DEF IInv
  <1> QED BY <1>1, SessionInvariant, PTL

------------------------------------------------------------------------------
(* Fallback, for intervals and an age as Fallback assumes them.              *)

\* Members of the ranges.
LEMMA Numbers ==
    /\ 0 \in Ages /\ Never \in Ages /\ Ages \subseteq Nat
    /\ Old \in Nat /\ Stale <= Old /\ Round \in Nat /\ Slow <= Round /\ Longest <= Round
    /\ \A age \in Ages : age <= Never /\ 0 <= age
    /\ 0 \in 0..Round + 1 /\ Round + 1 \in 0..Round + 1
    /\ 0 \in 0..NoTimer /\ NoTimer \in 0..NoTimer /\ Fast \in 0..NoTimer /\ Slow \in 0..NoTimer
    /\ NoTimer = Slow + 1 /\ Round = Slow + Longest /\ Fast \in Nat /\ Slow \in Nat
  BY FallbackAssumption DEF Ages, Never, Old, Round, NoTimer

\* The result of a refresh that has read nothing.
LEMMA NothingRead ==
    Unread \in [Kinds -> Ages] /\ \A d \in Kinds : Unread[d] = Never
  BY Numbers DEF Unread

\* What a timer that has just been set adds up to.
LEMMA TimerSet ==
    ASSUME NEW timeout \in 0..Slow
    PROVE  /\ timeout <= Slow /\ 0 + timeout = timeout /\ 0 <= Longest
           /\ timeout \in 0..NoTimer /\ timeout + Longest \in 0..Round
           /\ \A time \in 0..Round + 1 : time <= Longest => time + timeout <= Round
  BY FallbackAssumption DEF Round, NoTimer

\* The integration has just been set up: REST has been read, and no link made yet.
LEMMA InitFallback == FallbackInit => FallbackIInv
  <1> SUFFICES ASSUME FallbackInit PROVE FallbackIInv
    OBVIOUS
  <1>1. 0 \in Ages /\ Never \in Ages /\ 0 <= Never
    BY Numbers
  <1>2. /\ data \in [Kinds -> Ages] /\ cache = data /\ silence = data
        /\ \A d \in Kinds : data[d] \in {0, Never}
        /\ result \in [Kinds -> Ages] /\ \A d \in Kinds : result[d] = Never
    BY <1>1, NothingRead DEF FallbackInit
  <1>3. FallbackTypeOK
    BY <1>1, <1>2, Numbers DEF FallbackInit, FallbackTypeOK, Kinds
  <1>4. Timer
    BY FallbackAssumption DEF FallbackInit, Timer
  <1>5. Contacts
    <2>1. "hybrid" \in Kinds /\ overlay = Never /\ shown = Kinds
      BY DEF FallbackInit, Kinds
    <2>2. \A d \in Kinds : /\ silence[d] = data[d] /\ data[d] = cache[d] /\ cache[d] \in Nat
                           /\ silence[d] <= Never /\ silence[d] \in {0, Never}
      BY <1>2, Numbers
    <2>3. 0 + ToWrite < Old
      BY FallbackAssumption DEF FallbackInit, ToWrite, Old, Round
    <2> QED BY <1>2, <2>1, <2>2, <2>3, Numbers DEF Contacts
  <1> QED BY <1>3, <1>4, <1>5 DEF FallbackIInv

\* Entities that are written at this moment have contacts that will do until the next time.
LEMMA WrittenInTime ==
    ASSUME ToWrite' \in 0..Round,
           data' \in [Kinds -> Ages], cache' \in [Kinds -> Ages],
           silence' \in [Kinds -> Ages],
           \A d \in Kinds : silence'[d] <= data'[d] /\ data'[d] <= cache'[d],
           shown' = Written(success', data')
    PROVE  \A d \in shown' :
              silence'[d] = Never \/ cache'[d] = Never \/ silence'[d] + ToWrite' < Old
  <1> SUFFICES ASSUME NEW d \in shown', cache'[d] # Never
               PROVE  silence'[d] + ToWrite' < Old
    OBVIOUS
  <1>1. d \in Kinds /\ (data'[d] = Never \/ data'[d] < Stale)
    BY DEF Written, is_device_reachable
  <1>2. data'[d] \in Ages /\ cache'[d] \in Ages /\ silence'[d] \in Ages
        /\ silence'[d] <= data'[d] /\ data'[d] <= cache'[d]
    BY <1>1
  <1>3. data'[d] < Stale
    BY <1>1, <1>2, FallbackAssumption DEF Ages, Never, Old, Round
  <1> QED BY <1>2, <1>3, FallbackAssumption DEF Ages, Never, Old, Round

\* The end of a refresh, whatever its outcome: the timer is set to the interval, or due if
\* another refresh has waited.
LEMMA RefreshEnded ==
    ASSUME FallbackIInv, Concludes, success' \in BOOLEAN,
           data' \in [Kinds -> Ages], cache' \in [Kinds -> Ages],
           \A d \in Kinds : silence[d] <= data'[d] /\ data'[d] <= cache'[d]
    PROVE  FallbackIInv'
  <1>1. /\ running' = FALSE /\ left' = {} /\ result' = Unread /\ pushed' = FALSE
        /\ shown' = Written(success', data')
        /\ UNCHANGED <<devices, link, lost, connected, interval, overlay, silence>>
    BY DEF Concludes, conn
  <1>2. running /\ since' = 0 /\ due' \in {0, interval}
    BY DEF Concludes
  <1>3. /\ interval \in {Fast, Slow} /\ since \in 0..Round + 1 /\ lost \in 0..Round + 1
        /\ connected \in BOOLEAN /\ silence \in [Kinds -> Ages]
    BY DEF FallbackIInv, FallbackTypeOK
  <1>4. due' \in 0..Slow
    BY <1>2, <1>3, FallbackAssumption
  <1>5. FallbackTypeOK'
    <2>1. result' \in [Kinds -> Ages] /\ due' \in 0..NoTimer /\ since' \in 0..Round + 1
      BY <1>1, <1>2, <1>4, TimerSet, Numbers, NothingRead
    <2>2. running' \in BOOLEAN /\ pushed' \in BOOLEAN /\ left' \subseteq devices' /\ shown' \subseteq Kinds
      BY <1>1 DEF Written
    <2> QED BY <1>1, <2>1, <2>2 DEF FallbackIInv, FallbackTypeOK
  <1>6. Timer'
    <2>1. /\ ~connected \/ "rest" \in devices => interval = Fast
          /\ connected /\ ~link => lost <= since
          /\ since <= Longest /\ (link => connected)
      BY <1>2 DEF FallbackIInv, Timer
    <2>2. ASSUME connected, ~link PROVE lost + due' <= Round
      <3>1. \A a, b \in 0..Round + 1 : a <= b /\ b <= Longest => a <= Longest
        BY FallbackAssumption
      <3> QED BY <1>3, <1>4, <2>1, <2>2, <3>1, TimerSet
    <2>3. due' <= Slow /\ since' + due' = due' /\ since' <= Longest
      BY <1>2, <1>4, TimerSet
    <2>4. ~connected \/ "rest" \in devices => interval = Fast /\ due' <= Fast
      BY <1>2, <2>1, FallbackAssumption
    <2>5. due' <= IF connected /\ "rest" \notin devices THEN Slow ELSE Fast
      BY <2>3, <2>4
    <2> QED BY <1>1, <2>1, <2>2, <2>3, <2>4, <2>5 DEF Timer
  <1>7. Contacts'
    <2>1. ToWrite' = due' + Longest
      BY <1>1 DEF ToWrite
    <2>2. due' + Longest \in 0..Round
      BY <1>4, TimerSet
    <2>3. \A d \in shown' : silence'[d] = Never \/ cache'[d] = Never \/ silence'[d] + ToWrite' < Old
      BY <1>1, <1>3, <2>1, <2>2, WrittenInTime
    <2>4. overlay' >= silence'["hybrid"]
      BY <1>1 DEF FallbackIInv, Contacts
    <2>5. \A d \in Kinds : silence'[d] <= result'[d]
      BY <1>1, <1>3, NothingRead, Numbers
    <2> HIDE DEF ToWrite
    <2> QED BY <1>1, <2>3, <2>4, <2>5 DEF Contacts
  <1> QED BY <1>5, <1>6, <1>7 DEF FallbackIInv

\* A device that has been read, or was missing, has no newer contact in the result than it
\* had.
LEMMA ReadIInv ==
    ASSUME FallbackIInv, NEW d \in Kinds, NEW age \in Ages,
           result' = [result EXCEPT ![d] = age], left' \subseteq left,
           \/ silence' = silence /\ silence[d] <= age
           \/ silence' = [silence EXCEPT ![d] = 0],
           UNCHANGED <<devices, conn, timer, running, overlay, cache, data, entities>>
    PROVE  FallbackIInv'
  <1>1. /\ silence' \in [Kinds -> Ages] /\ result' \in [Kinds -> Ages]
        /\ \A e \in Kinds : silence'[e] <= silence[e] /\ silence'[e] <= result'[e]
        /\ \A e \in Kinds : silence'[e] = silence[e] \/ silence'[e] = 0
    BY FallbackAssumption DEF FallbackIInv, FallbackTypeOK, Contacts, Ages, Never, Old, Round
  <1>2. FallbackTypeOK'
    BY <1>1 DEF FallbackIInv, FallbackTypeOK, conn, timer, entities
  <1>3. Timer'
    BY DEF FallbackIInv, Timer, conn, timer
  <1>4. Contacts'
    <2>1. ToWrite' = ToWrite /\ cache' = cache /\ data' = data /\ overlay' = overlay /\ shown' = shown
      BY DEF ToWrite, timer, entities
    <2>2. ToWrite \in 0..Round
      BY FallbackAssumption DEF FallbackIInv, FallbackTypeOK, Timer, ToWrite, Round
    <2>3. \A e \in Kinds : silence[e] \in Nat /\ silence'[e] \in Nat /\ data[e] \in Nat
      BY <1>1, Numbers DEF FallbackIInv, FallbackTypeOK
    <2>4. "hybrid" \in Kinds /\ overlay \in Nat /\ shown \subseteq Kinds
      BY Numbers DEF FallbackIInv, FallbackTypeOK, Kinds
    <2>5. \A e \in shown : silence'[e] = Never \/ cache[e] = Never \/ silence'[e] + ToWrite < Old
      <3>1. 0 + ToWrite < Old
        BY <2>2, FallbackAssumption DEF Old, Round
      <3> HIDE DEF ToWrite
      <3> QED BY <1>1, <2>4, <3>1 DEF FallbackIInv, Contacts
    <2>6. overlay >= silence'["hybrid"]
      BY <1>1, <2>3, <2>4 DEF FallbackIInv, Contacts
    <2>7. \A e \in Kinds : silence'[e] <= data[e] /\ data[e] <= cache[e]
      BY <1>1, <2>3 DEF FallbackIInv, Contacts
    <2> QED BY <1>1, <2>1, <2>5, <2>6, <2>7 DEF Contacts
  <1> QED BY <1>2, <1>3, <1>4 DEF FallbackIInv

\* Every step preserves FallbackIInv.
LEMMA NextFallback == FallbackIInv /\ [FallbackNext]_fallbackVars => FallbackIInv'
  <1> SUFFICES ASSUME FallbackIInv, [FallbackNext]_fallbackVars PROVE FallbackIInv'
    OBVIOUS
  <1>1. CASE Tick
    <2>1. \A age \in Ages : Older(age) \in Ages /\ (Older(age) = Never <=> age = Never)
      BY FallbackAssumption DEF Older, Ages, Never, Old, Round
    <2>2. \A a, b \in Ages : a <= b => Older(a) <= Older(b)
      BY FallbackAssumption DEF Older, Ages, Never, Old, Round
    <2>3. /\ \A t \in 0..Round + 1 : Longer(t) \in 0..Round + 1
          /\ since' = Longer(since) /\ lost' = Longer(lost)
          /\ due' = IF due \in 1..Slow THEN due - 1 ELSE due
          /\ UNCHANGED <<devices, link, connected, interval, pushed, running, left, success, shown>>
      BY <1>1, FallbackAssumption DEF Longer, Round, Tick, entities
    <2>4. FallbackTypeOK'
      <3>1. due' \in 0..NoTimer
        BY <2>3, FallbackAssumption DEF FallbackIInv, FallbackTypeOK, NoTimer
      <3> QED BY <1>1, <2>1, <2>3, <3>1 DEF Tick, FallbackIInv, FallbackTypeOK
    <2>5. Timer'
      BY <1>1, <2>3, FallbackAssumption
      DEF Tick, FallbackIInv, FallbackTypeOK, Timer, Longer, Round, NoTimer
    <2>6. /\ overlay' >= silence'["hybrid"]
          /\ \A d \in Kinds : /\ silence'[d] <= data'[d] /\ data'[d] <= cache'[d]
                              /\ silence'[d] <= result'[d]
      BY <1>1, <2>2 DEF Tick, FallbackIInv, FallbackTypeOK, Contacts, Kinds
    <2>7. ToWrite \in 1..Round /\ ToWrite' = ToWrite - 1
      BY <1>1, <2>3, FallbackAssumption
      DEF Tick, FallbackIInv, FallbackTypeOK, Timer, Longer, Round, NoTimer, ToWrite
    <2>8. ASSUME NEW d \in shown', silence'[d] # Never, cache'[d] # Never
          PROVE  silence'[d] + ToWrite' < Old
      <3>1. d \in Kinds /\ d \in shown /\ silence'[d] = Older(silence[d])
            /\ cache'[d] = Older(cache[d]) /\ silence[d] \in Ages /\ cache[d] \in Ages
        BY <1>1, <2>3 DEF Tick, FallbackIInv, FallbackTypeOK
      <3>2. silence[d] # Never /\ cache[d] # Never
        BY <2>1, <2>8, <3>1
      <3>3. silence[d] + ToWrite < Old
        BY <3>1, <3>2 DEF FallbackIInv, Contacts
      <3>4. silence[d] \in Nat /\ silence'[d] = silence[d] + 1
        BY <2>7, <3>1, <3>3, FallbackAssumption DEF Older, Ages, Never, Old, Round
      <3> HIDE DEF ToWrite
      <3> QED BY <2>7, <3>3, <3>4, Numbers
    <2> HIDE DEF ToWrite
    <2> QED BY <2>4, <2>5, <2>6, <2>8 DEF FallbackIInv, Contacts
  <1>2. CASE RefreshBegins
    <2>1. /\ ~running /\ due = 0 /\ running' = TRUE /\ left' = devices /\ due' = NoTimer
          /\ since' = 0 /\ pushed' = FALSE /\ connected' = (connected /\ ~(connected /\ ~link))
          /\ interval' = (IF connected /\ ~link THEN Fast ELSE interval)
          /\ UNCHANGED <<devices, link, lost, result, overlay, cache, data, silence, success, shown>>
      BY <1>2 DEF RefreshBegins, LossNoticed, RestoredInterval, ages, entities
    <2>2. connected' \in BOOLEAN /\ interval' \in {Fast, Slow}
      BY <2>1 DEF FallbackIInv, FallbackTypeOK
    <2>3. FallbackTypeOK'
      BY <2>1, <2>2, Numbers DEF FallbackIInv, FallbackTypeOK
    <2>4. ~connected' \/ "rest" \in devices' => interval' = Fast
      BY <2>1 DEF FallbackIInv, FallbackTypeOK, Timer
    <2>5. connected' <=> link'
      BY <2>1 DEF FallbackIInv, FallbackTypeOK, Timer
    <2>6. Timer'
      BY <2>1, <2>4, <2>5, FallbackAssumption DEF Timer
    <2>7. ToWrite' = ToWrite
      BY <2>1, FallbackAssumption DEF ToWrite
    <2>8. Contacts'
      BY <2>1, <2>7 DEF FallbackIInv, Contacts
    <2> QED BY <2>3, <2>6, <2>8 DEF FallbackIInv
  <1>3. ASSUME NEW d \in Kinds, NEW heard \in BOOLEAN, ReadsDevice(d, heard) PROVE FallbackIInv'
    <2>1. Kept(d, heard) \in Ages /\ (~heard => silence[d] <= Kept(d, heard))
      BY FallbackAssumption
      DEF Kept, Overlay, Newer, FallbackIInv, FallbackTypeOK, Contacts, Ages, Never, Old, Round, Kinds
    <2>2. /\ result' = [result EXCEPT ![d] = Kept(d, heard)] /\ left' \subseteq left
          /\ UNCHANGED <<devices, conn, timer, running, overlay, cache, data, entities>>
      BY <1>3 DEF ReadsDevice
    <2>3. CASE heard
      <3>1. silence' = [silence EXCEPT ![d] = 0]
        BY <1>3, <2>3 DEF ReadsDevice
      <3> QED BY <2>1, <2>2, <3>1, ReadIInv
    <2>4. CASE ~heard
      <3>1. silence' = silence
        BY <1>3, <2>4 DEF ReadsDevice, FallbackIInv, FallbackTypeOK
      <3> QED BY <2>1, <2>2, <2>4, <3>1, ReadIInv
    <2> QED BY <2>3, <2>4
  <1>4. ASSUME NEW d \in Kinds, MissesDevice(d) PROVE FallbackIInv'
    <2>1. cache[d] \in Ages /\ silence[d] <= cache[d]
      BY FallbackAssumption DEF FallbackIInv, FallbackTypeOK, Contacts, Ages, Never, Old, Round
    <2>2. /\ result' = [result EXCEPT ![d] = cache[d]] /\ left' \subseteq left /\ silence' = silence
          /\ UNCHANGED <<devices, conn, timer, running, overlay, cache, data, entities>>
      BY <1>4 DEF MissesDevice, ages
    <2> QED BY <2>1, <2>2, ReadIInv
  <1>5. CASE RefreshEnds
    <2>1. Concludes /\ data' = result /\ cache' = result /\ success' = TRUE
      BY <1>5 DEF RefreshEnds
    <2>2. \A d \in Kinds : silence[d] <= data'[d] /\ data'[d] <= cache'[d]
      BY <2>1, FallbackAssumption
      DEF FallbackIInv, FallbackTypeOK, Contacts, Ages, Never, Old, Round
    <2> QED BY <2>1, <2>2, RefreshEnded DEF FallbackIInv, FallbackTypeOK
  <1>6. CASE RefreshFails
    <2>1. Concludes /\ data' = cache /\ cache' = cache /\ success' = TRUE
      BY <1>6 DEF RefreshFails
    <2>2. \A d \in Kinds : silence[d] <= data'[d] /\ data'[d] <= cache'[d]
      BY <2>1, FallbackAssumption
      DEF FallbackIInv, FallbackTypeOK, Contacts, Ages, Never, Old, Round
    <2> QED BY <2>1, <2>2, RefreshEnded DEF FallbackIInv, FallbackTypeOK
  <1>7. CASE RefreshRaises
    <2>1. Concludes /\ data' = data /\ cache' = cache /\ success' = FALSE
      BY <1>7 DEF RefreshRaises
    <2>2. \A d \in Kinds : silence[d] <= data'[d] /\ data'[d] <= cache'[d]
      BY <2>1, FallbackAssumption
      DEF FallbackIInv, FallbackTypeOK, Contacts, Ages, Never, Old, Round
    <2> QED BY <2>1, <2>2, RefreshEnded DEF FallbackIInv, FallbackTypeOK
  <1>8. CASE QuietFrame
    <2>1. overlay' = 0 /\ silence' = [silence EXCEPT !["hybrid"] = 0]
          /\ UNCHANGED <<devices, conn, timer, refresh, cache, data, entities>>
      BY <1>8 DEF QuietFrame, Frame
    <2>2. FallbackTypeOK' /\ Timer'
      <3>1. overlay' \in Ages /\ silence' \in [Kinds -> Ages]
        BY <2>1, Numbers DEF FallbackIInv, FallbackTypeOK
      <3>2. FallbackTypeOK'
        BY <2>1, <3>1 DEF FallbackIInv, FallbackTypeOK, conn, timer, refresh, entities
      <3>3. Timer'
        BY <2>1 DEF FallbackIInv, Timer, conn, timer, refresh
      <3> QED BY <3>2, <3>3
    <2>3. ToWrite' = ToWrite /\ ToWrite \in 0..Round
      BY <2>1, FallbackAssumption
      DEF FallbackIInv, FallbackTypeOK, Timer, ToWrite, timer, refresh, Round
    <2>4. Contacts'
      <3>1. 0 + ToWrite < Old
        BY <2>3, FallbackAssumption DEF Old, Round
      <3>2. /\ UNCHANGED <<cache, data, result, shown>> /\ "hybrid" \in Kinds /\ shown \subseteq Kinds
            /\ \A d \in Kinds : silence'[d] = silence[d] \/ silence'[d] = 0
            /\ silence'["hybrid"] = 0 /\ overlay' = 0
        BY <2>1 DEF refresh, entities, FallbackIInv, FallbackTypeOK, Kinds
      <3>3. \A d \in Kinds : silence[d] \in Nat /\ data[d] \in Nat /\ cache[d] \in Nat /\ result[d] \in Nat
        BY Numbers DEF FallbackIInv, FallbackTypeOK
      <3>4. \A d \in Kinds : /\ silence'[d] <= data[d] /\ data[d] <= cache[d]
                             /\ silence'[d] <= result[d]
        BY <3>2, <3>3 DEF FallbackIInv, Contacts
      <3> HIDE DEF ToWrite
      <3>5. \A d \in shown : silence'[d] = Never \/ cache[d] = Never \/ silence'[d] + ToWrite < Old
        BY <3>1, <3>2 DEF FallbackIInv, Contacts
      <3> QED BY <2>3, <3>2, <3>4, <3>5 DEF Contacts
    <2> QED BY <2>2, <2>4 DEF FallbackIInv
  <1>9. CASE Push
    <2>1. /\ overlay' = 0 /\ silence' = [silence EXCEPT !["hybrid"] = 0]
          /\ data' = [data EXCEPT !["hybrid"] = 0] /\ success' = TRUE
          /\ shown' = Written(success', data')
          /\ due' = (IF running /\ due = 0 THEN 0 ELSE interval) /\ pushed' = TRUE
          /\ link \/ lost = 0
          /\ UNCHANGED <<devices, link, lost, connected, interval, since, running, left, result, cache>>
      BY <1>9 DEF Push, Frame, conn, refresh
    <2>2. due' \in 0..Slow
      BY <2>1, FallbackAssumption DEF FallbackIInv, FallbackTypeOK
    <2>3. FallbackTypeOK'
      <3>1. overlay' \in Ages /\ silence' \in [Kinds -> Ages] /\ data' \in [Kinds -> Ages]
        BY <2>1, Numbers DEF FallbackIInv, FallbackTypeOK
      <3>2. due' \in 0..NoTimer
        BY <2>2, FallbackAssumption DEF NoTimer
      <3> QED BY <2>1, <3>1, <3>2 DEF FallbackIInv, FallbackTypeOK, Written
    <2>4. Timer'
      BY <2>1, <2>2, FallbackAssumption DEF FallbackIInv, FallbackTypeOK, Timer, Round
    <2>5. \A d \in Kinds : /\ silence'[d] <= data'[d] /\ data'[d] <= cache'[d]
                           /\ silence'[d] <= result'[d]
      BY <2>1, FallbackAssumption
      DEF FallbackIInv, FallbackTypeOK, Contacts, Kinds, Ages, Never, Old, Round
    <2>6. ToWrite' \in 0..Round
      BY <2>1, <2>2, FallbackAssumption DEF FallbackIInv, FallbackTypeOK, Timer, ToWrite, Round
    <2>7. \A d \in shown' : silence'[d] = Never \/ cache'[d] = Never \/ silence'[d] + ToWrite' < Old
      BY <2>1, <2>3, <2>5, <2>6, WrittenInTime DEF FallbackTypeOK
    <2>8. overlay' >= silence'["hybrid"]
      BY <2>1 DEF FallbackIInv, FallbackTypeOK, Kinds
    <2> HIDE DEF ToWrite
    <2> QED BY <2>3, <2>4, <2>5, <2>7, <2>8 DEF FallbackIInv, Contacts
  <1>10. CASE Start
    <2>1. /\ ~connected /\ connected' = TRUE /\ link' \in BOOLEAN /\ lost' = 0
          /\ interval' \in {Fast, Slow} /\ ("rest" \in devices => interval' = Fast)
          /\ UNCHANGED <<devices, due, since, pushed, running, left, result, overlay, cache, data,
                         silence, success, shown>>
      BY <1>10 DEF Start, StartedInterval, refresh, ages, entities
    <2>2. FallbackTypeOK'
      BY <2>1, Numbers DEF FallbackIInv, FallbackTypeOK
    <2>3. Timer'
      BY <2>1, FallbackAssumption DEF FallbackIInv, FallbackTypeOK, Timer, Round
    <2>4. ToWrite' = ToWrite
      BY <2>1 DEF ToWrite
    <2>5. Contacts'
      BY <2>1, <2>4 DEF FallbackIInv, Contacts
    <2> QED BY <2>2, <2>3, <2>5 DEF FallbackIInv
  <1>11. CASE LinkDrops
    <2>1. /\ link' = FALSE /\ lost' = 0
          /\ UNCHANGED <<devices, connected, timer, refresh, ages, entities>>
      BY <1>11 DEF LinkDrops
    <2>2. lost' \in 0..Round + 1 /\ link' \in BOOLEAN
      BY <2>1, Numbers
    <2>3. FallbackTypeOK'
      BY <2>1, <2>2 DEF FallbackIInv, FallbackTypeOK, timer, refresh, ages, entities
    <2>4. Timer'
      BY <2>1, FallbackAssumption DEF FallbackIInv, FallbackTypeOK, Timer, timer, refresh, Round
    <2>5. ToWrite' = ToWrite
      BY <2>1 DEF ToWrite, timer, refresh
    <2>6. Contacts'
      BY <2>1, <2>5 DEF FallbackIInv, Contacts, refresh, ages, entities
    <2> QED BY <2>3, <2>4, <2>6 DEF FallbackIInv
  <1>12. CASE PahoReconnects
    <2>1. /\ connected /\ link' = TRUE
          /\ UNCHANGED <<devices, lost, connected, timer, refresh, ages, entities>>
      BY <1>12 DEF PahoReconnects
    <2>2. FallbackTypeOK' /\ Timer'
      BY <2>1 DEF FallbackIInv, FallbackTypeOK, Timer, timer, refresh, ages, entities
    <2>3. ToWrite' = ToWrite
      BY <2>1 DEF ToWrite, timer, refresh
    <2>4. Contacts'
      BY <2>1, <2>3 DEF FallbackIInv, Contacts, refresh, ages, entities
    <2> QED BY <2>2, <2>4 DEF FallbackIInv
  <1>13. CASE UNCHANGED fallbackVars
    BY <1>13
    DEF FallbackIInv, FallbackTypeOK, Timer, Contacts, ToWrite, fallbackVars, conn, timer, refresh,
        ages, entities
  <1> QED BY <1>1, <1>2, <1>3, <1>4, <1>5, <1>6, <1>7, <1>8, <1>9, <1>10, <1>11, <1>12, <1>13
          DEF FallbackNext

\* FallbackIInv holds in every state, for any intervals and any longest refresh.
THEOREM FallbackInvariant == FallbackSpec => []FallbackIInv
  BY InitFallback, NextFallback, PTL DEF FallbackSpec

\* A silent device is shown as unavailable in time, for any Stale, any intervals and any
\* longest refresh, with the exception SilenceShows names.
THEOREM SilenceIsShown == FallbackSpec => []SilenceShows
  <1>1. ASSUME FallbackIInv PROVE SilenceShows
    <2>1. ToWrite \in 0..Round
      BY <1>1, FallbackAssumption DEF FallbackIInv, FallbackTypeOK, Timer, ToWrite, Round
    <2>2. \A d \in shown : silence[d] \in Nat
      BY <1>1, Numbers DEF FallbackIInv, FallbackTypeOK
    <2>3. \A d \in shown : silence[d] = Never \/ cache[d] = Never \/ silence[d] + ToWrite < Old
      BY <1>1 DEF FallbackIInv, Contacts
    <2> HIDE DEF ToWrite
    <2> QED BY <2>1, <2>2, <2>3, Numbers DEF SilenceShows
  <1> QED BY <1>1, FallbackInvariant, PTL

\* A lost link is noticed by the first refresh that begins after the loss: within the time
\* of a refresh under way and the longer interval, whatever REST does.
THEOREM LossIsNoticedInTime == FallbackSpec => []LossInTime
  <1>1. FallbackIInv => LossInTime
    BY FallbackAssumption DEF FallbackIInv, FallbackTypeOK, Timer, LossInTime, Round, NoTimer
  <1> QED BY <1>1, FallbackInvariant, PTL

\* The next refresh begins in time wherever no push has put it off.
THEOREM RestIsReadInTime == FallbackSpec => []ReadInTime
  <1>1. FallbackIInv => ReadInTime
    BY FallbackAssumption DEF FallbackIInv, FallbackTypeOK, Timer, ReadInTime, NoTimer
  <1> QED BY <1>1, FallbackInvariant, PTL

===============================================================================
