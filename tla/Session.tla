-------------------------------- MODULE Session --------------------------------
(***************************************************************************)
(* How an account becomes a config entry and stays logged in: the dialogue *)
(* that adds an account or changes its devices (config_flow.py), the set-  *)
(* up of an entry (__init__.py) and the requests of its client, which log  *)
(* in again when the token is found expired or refused (api/client.py).    *)
(*                                                                         *)
(* Home Assistant runs the dialogues and the set-up; what it does between  *)
(* the handlers, as the test for another flow with the same account, is    *)
(* taken from how the code relies on it.                                   *)
(***************************************************************************)
EXTENDS FiniteSets

CONSTANTS Accounts, Devices, \* the user's accounts, and devices they may list
          Flows,             \* bound: dialogues open at a time
          Nobody             \* no account

ASSUME SessionAssumption == Nobody \notin Accounts

VARIABLES flow,      \* dialogue -> its step and what it knows
          entry,     \* account -> the state of its config entry
          selected,  \* account -> entry.data["devices"]
          named,     \* account -> the devices in entry.data["device_info"]
          token,     \* account -> the token of its entry's client
          call       \* account -> how far a _request of it has come

entries == <<entry, selected, named>>
vars == <<flow, entries, token, call>>

\* "user" and "listing" are async_step_user with its form on screen and at its awaits,
\* "devices" the second form; "fetching" and "form" are async_step_reconfigure, as
\* "resubmitted" is with user_input.
Steps == {"closed", "user", "listing", "devices", "fetching", "form", "resubmitted"}

\* "login" and "first" are async_setup_entry at its awaits; "retry" is after
\* ConfigEntryNotReady, "failed" after another exception.
EntryStates == {"none", "login", "first", "loaded", "retry", "failed"}

\* An expired token is known to be so from its ttl, a revoked one not.
Tokens == {"none", "good", "expired", "revoked"}

\* Where _request awaits: _ensure_authenticated, the first answer, the login after code
\* 805, and the second answer.
Calls == {"none", "ensure", "asked", "relogin", "again"}

------------------------------------------------------------------------------
(* Mutated forms, each standing for a plausible bug in the operator it       *)
(* replaces when the mutation runs are made.                                 *)

OnlyConfigured(f, a) == entry[a] = "none"
ListsAgain(f) == TRUE

------------------------------------------------------------------------------
(* Pieces of the handlers.                                                   *)

\* async_set_unique_id aborts if another flow has the account, _abort_if_unique_id_configured
\* if an entry has.
MayAdd(f, a) ==
    /\ entry[a] = "none"
    /\ \A g \in Flows \ {f} : ~(flow[g].at \in {"user", "listing", "devices"} /\ flow[g].of = a)

\* async_step_reconfigure lists devices until it has some.
ListsDevices(f) == flow[f].known = {}

\* of is the unique id of a dialogue, or the account of the entry it changes; known is
\* self._devices, offered the options in its form, chosen the user_input it is handling.
Idle == [at |-> "closed", of |-> Nobody, known |-> {}, offered |-> {}, chosen |-> {}]
GoesTo(f, state) == flow' = [flow EXCEPT ![f] = state]
Changes(f, a) == flow[f].at \in {"fetching", "form", "resubmitted"} /\ flow[f].of = a

\* Setting up begins, with a new client.
SetsUp(a) ==
    /\ entry' = [entry EXCEPT ![a] = "login"]
    /\ token' = [token EXCEPT ![a] = "none"] /\ call' = [call EXCEPT ![a] = "none"]

\* The entry's data: device_info has those of the chosen devices that the dialogue knows.
Stores(a, choice, devices) ==
    /\ selected' = [selected EXCEPT ![a] = choice]
    /\ named' = [named EXCEPT ![a] = choice \cap devices]

\* A request of _request ends, and with the first one the set-up.
Ends(a, outcome) ==
    /\ call' = [call EXCEPT ![a] = "none"]
    /\ entry' = [entry EXCEPT ![a] = IF @ # "first" THEN @
                                     ELSE IF outcome = "ok" THEN "loaded" ELSE "retry"]
    /\ UNCHANGED <<flow, selected, named, token>>

\* A mutated form of the next operator: the answer is taken for an empty list.
Code805Ignored(a) == Ends(a, "ok")

\* Code 805 of the first answer.
Code805(a) ==
    /\ call' = [call EXCEPT ![a] = "relogin"]
    /\ UNCHANGED <<flow, entries, token>>

------------------------------------------------------------------------------
Init ==
    /\ flow = [f \in Flows |-> Idle]
    /\ entry = [a \in Accounts |-> "none"]
    /\ selected = [a \in Accounts |-> {}] /\ named = selected
    /\ token = [a \in Accounts |-> "none"] /\ call = token

(* The dialogues.                                                            *)

\* The user opens a dialogue to add an account, or closes one.
Open(f) ==
    /\ flow[f].at = "closed"
    /\ GoesTo(f, [Idle EXCEPT !.at = "user"])
    /\ UNCHANGED <<entries, token, call>>

Close(f) ==
    /\ flow[f].at \in {"user", "devices", "form"}
    /\ GoesTo(f, Idle)
    /\ UNCHANGED <<entries, token, call>>

\* async_step_user with credentials: aborted, or on to login and get_devices.
SubmitUser(f, a) ==
    /\ flow[f].at = "user"
    /\ \/ MayAdd(f, a) /\ GoesTo(f, [flow[f] EXCEPT !.at = "listing", !.of = a])
       \/ ~MayAdd(f, a) /\ GoesTo(f, Idle)
    /\ UNCHANGED <<entries, token, call>>

\* They fail or there are no devices, and the form is shown again,
ListingFails(f) ==
    /\ flow[f].at = "listing"
    /\ GoesTo(f, [flow[f] EXCEPT !.at = "user"])
    /\ UNCHANGED <<entries, token, call>>

\* or the devices are offered.
Listed(f, devices) ==
    /\ flow[f].at = "listing" /\ devices # {}
    /\ GoesTo(f, [flow[f] EXCEPT !.at = "devices", !.known = devices, !.offered = devices])
    /\ UNCHANGED <<entries, token, call>>

\* async_step_devices with a choice: the entry is created and set up.
SubmitDevices(f, choice) ==
    /\ flow[f].at = "devices" /\ choice \subseteq flow[f].offered
    /\ Stores(flow[f].of, choice, flow[f].known) /\ SetsUp(flow[f].of)
    /\ GoesTo(f, Idle)

\* The user opens a dialogue to change the devices of an entry.
Reconfigure(f, a) ==
    /\ flow[f].at = "closed" /\ entry[a] # "none"
    /\ GoesTo(f, [Idle EXCEPT !.at = "fetching", !.of = a])
    /\ UNCHANGED <<entries, token, call>>

\* async_step_reconfigure once it has what devices there are, if any: an error or no input
\* shows the form, and the input changes the entry, which is reloaded, after a set-up that
\* is under way.
Reconfigured(f, devices) ==
    LET a == flow[f].of
    IN IF flow[f].at = "fetching" \/ devices = {}
       THEN /\ GoesTo(f, [flow[f] EXCEPT !.at = "form", !.known = devices, !.offered = devices,
                                     !.chosen = {}])
            /\ UNCHANGED <<entries, token, call>>
       ELSE /\ entry[a] \notin {"login", "first"}
            /\ Stores(a, flow[f].chosen, devices) /\ SetsUp(a)
            /\ GoesTo(f, Idle)

\* The awaits of the handler are over; a failure leaves it without devices, as it was.
Fetched(f, devices) == flow[f].at \in {"fetching", "resubmitted"} /\ Reconfigured(f, devices)

\* The form is submitted; devices are listed now if they could not be before.
SubmitForm(f, choice) ==
    /\ flow[f].at = "form" /\ choice \subseteq flow[f].offered
    /\ IF ListsDevices(f)
       THEN /\ GoesTo(f, [flow[f] EXCEPT !.at = "resubmitted", !.chosen = choice])
            /\ UNCHANGED <<entries, token, call>>
       ELSE LET a == flow[f].of
            IN /\ entry[a] \notin {"login", "first"}
               /\ Stores(a, choice, flow[f].known) /\ SetsUp(a)
               /\ GoesTo(f, Idle)

(* The entries.                                                              *)

\* The user reloads an entry, or Home Assistant tries again.
Reload(a) ==
    /\ entry[a] \in {"loaded", "retry", "failed"}
    /\ SetsUp(a)
    /\ UNCHANGED <<flow, selected, named>>

\* The user removes an entry; a dialogue about it fails at its next step.
Remove(a) ==
    /\ entry[a] \in {"loaded", "retry", "failed"}
    /\ flow' = [f \in Flows |-> IF Changes(f, a) THEN Idle ELSE flow[f]]
    /\ entry' = [entry EXCEPT ![a] = "none"]
    /\ selected' = [selected EXCEPT ![a] = {}] /\ named' = [named EXCEPT ![a] = {}]
    /\ token' = [token EXCEPT ![a] = "none"] /\ call' = [call EXCEPT ![a] = "none"]

\* The login of the set-up: it gives a token for the first refresh,
LoginAtSetUp(a) ==
    /\ entry[a] = "login"
    /\ entry' = [entry EXCEPT ![a] = "first"]
    /\ token' = [token EXCEPT ![a] = "good"] /\ call' = [call EXCEPT ![a] = "asked"]
    /\ UNCHANGED <<flow, selected, named>>

\* or raises what Home Assistant does not try again after.
LoginFailsAtSetUp(a) ==
    /\ entry[a] = "login"
    /\ entry' = [entry EXCEPT ![a] = "failed"]
    /\ UNCHANGED <<flow, selected, named, token, call>>

(* The client.                                                               *)

\* A refresh makes a request.
Asks(a) ==
    /\ entry[a] = "loaded" /\ call[a] = "none"
    /\ call' = [call EXCEPT ![a] = IF token[a] = "expired" THEN "ensure" ELSE "asked"]
    /\ UNCHANGED <<flow, entries, token>>

\* A login of _ensure_authenticated or after code 805.
LogsIn(a) ==
    /\ call[a] \in {"ensure", "relogin"}
    /\ token' = [token EXCEPT ![a] = "good"]
    /\ call' = [call EXCEPT ![a] = IF @ = "ensure" THEN "asked" ELSE "again"]
    /\ UNCHANGED <<flow, entries>>

\* An answer; the second one is not looked at for code 805.
Answered(a) ==
    \/ call[a] = "asked" /\ token[a] = "good" /\ Ends(a, "ok")
    \/ call[a] = "asked" /\ token[a] # "good" /\ Code805(a)
    \/ call[a] = "again" /\ Ends(a, "ok")

\* BluettiCloudApiError of a login or a request, or an error of aiohttp from the second
\* request, which is not turned into one.
CallFails(a) == call[a] # "none" /\ Ends(a, "error")

\* The token's ttl runs out, or another login of the account ends it.
Loses(a, state) ==
    /\ token[a] = "good" /\ state \in {"expired", "revoked"}
    /\ token' = [token EXCEPT ![a] = state]
    /\ UNCHANGED <<flow, entries, call>>

------------------------------------------------------------------------------
FlowStep(f) ==
    \/ Open(f) \/ Close(f) \/ ListingFails(f)
    \/ \E a \in Accounts : SubmitUser(f, a) \/ Reconfigure(f, a)
    \/ \E devices \in SUBSET Devices :
          \/ Listed(f, devices) \/ SubmitDevices(f, devices)
          \/ Fetched(f, devices) \/ SubmitForm(f, devices)
EntryStep(a) ==
    \/ Reload(a) \/ Remove(a) \/ LoginAtSetUp(a) \/ LoginFailsAtSetUp(a)
    \/ Asks(a) \/ LogsIn(a) \/ Answered(a) \/ CallFails(a)
    \/ \E state \in Tokens : Loses(a, state)

Next == (\E f \in Flows : FlowStep(f)) \/ (\E a \in Accounts : EntryStep(a))

Spec == Init /\ [][Next]_vars

\* Logins and requests do not fail every time.  Nothing makes requests go on: each push of
\* MQTT data restarts the timer of the refresh, which may then never come.
FairSpec ==
    /\ Spec
    /\ \A a \in Accounts : SF_vars(LogsIn(a)) /\ SF_vars(Answered(a))

------------------------------------------------------------------------------
(* Properties.                                                               *)

\* A dialogue that has come to its second form creates a new entry: meanwhile no entry of
\* the account was made and no other dialogue is about to make one, however the dialogues
\* overlap and whichever accounts they try in turn.
CreatesNew ==
    \A f \in Flows :
        flow[f].at = "devices" => /\ entry[flow[f].of] = "none"
                               /\ \A g \in Flows \ {f} : flow[g].at = "devices" => flow[g].of # flow[f].of

\* Every device an entry monitors has its name and model in the entry, so that there is a
\* profile for it before REST has answered, whatever the lists of the account were while
\* the dialogue went on.
SelectedIsNamed == \A a \in Accounts : selected[a] = named[a]

\* Where requests of an entry go on being made, a token that has expired or was ended by
\* another login is renewed, unless the entry goes away: however it was lost, and at
\* whatever point of a request or a login.
TokenRenewed ==
    \A a \in Accounts :
        []<><<Asks(a)>>_vars =>
            (entry[a] = "loaded" /\ token[a] # "good" ~> token[a] = "good" \/ entry[a] # "loaded")

\* The inductive invariant: types,
TypeOK ==
    /\ flow \in [Flows -> [at : Steps, of : Accounts \cup {Nobody}, known : SUBSET Devices,
                           offered : SUBSET Devices, chosen : SUBSET Devices]]
    /\ entry \in [Accounts -> EntryStates]
    /\ selected \in [Accounts -> SUBSET Devices] /\ named \in [Accounts -> SUBSET Devices]
    /\ token \in [Accounts -> Tokens] /\ call \in [Accounts -> Calls]

\* the forms, which offer what the dialogue knows,
Forms ==
    \A f \in Flows :
        /\ flow[f].at \notin {"closed", "user"} => flow[f].of \in Accounts
        /\ flow[f].offered = flow[f].known
        /\ flow[f].chosen \subseteq flow[f].known
        /\ flow[f].at # "resubmitted" => flow[f].chosen = {}
        /\ flow[f].at = "resubmitted" => flow[f].known = {}
        /\ flow[f].at \in {"listing", "devices"} => entry[flow[f].of] = "none"
        /\ flow[f].at \in {"fetching", "form", "resubmitted"} => entry[flow[f].of] # "none"

\* and an account that is being added, by one dialogue.
Claims ==
    \A f, g \in Flows :
        /\ flow[f].at \in {"listing", "devices"} /\ flow[g].at \in {"listing", "devices"}
        /\ flow[f].of = flow[g].of
        => f = g

IInv == TypeOK /\ Forms /\ Claims /\ SelectedIsNamed

==============================================================================
