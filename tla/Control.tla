------------------------------- MODULE Control --------------------------------
(***************************************************************************)
(* A setting of a device on its way to the device and back: the entity     *)
(* that shows and writes it (switch.py, number.py, select.py), the guarded *)
(* write (mqtt_client.py, modbus.py), the frames that report it, and the   *)
(* handler of mqtt_manager.py that tells which block a frame is and stores *)
(* what its parser reads.                                                  *)
(*                                                                         *)
(* There is one device, of any of four kinds, and one entity is followed,  *)
(* any of those the platforms make.  What the entity shows is the value in *)
(* coordinator.data, or the one written last where that is None.  A frame  *)
(* carries the device's registers as they were when it was sent, and       *)
(* reading a byte of it gives the value of the register that is there.     *)
(***************************************************************************)
EXTENDS Blocks, Sequences, TLC

CONSTANTS Models,      \* the models that may be configured
          Followed,    \* data keys of the entities of which one is followed
          Nodes,       \* addresses that answer pack reads
          Pushed,      \* the first registers of the blocks a V2 device pushes
          PushSizes,   \* lengths of the blocks a V2 device pushes
          Short,       \* lengths of the replies that hold fewer registers than were asked for
          UserValues,  \* values the user may ask for, where they are accepted
          MaxWrites,   \* bound: writes of the user
          MaxOnWire,   \* bound: messages under way, each way
          MaxMarked    \* bound, by model: requests marked as refused, when one more is refused

\* A V1 device that pushes, one that is polled, a V2 device in the registry, and
\* another V2 device (its name is "Elite 200 V2").
AllModels == {"AC300", "EB3A", "AP300", "Elite200V2"}
V2Models == {"AP300", "Elite200V2"}

VARIABLES model,     \* the configured model, never changed
          key,       \* data key of the entity that is followed, never changed
          version,   \* factoryProtocolVer behind _profiles[sn], None before there is one
          listed,    \* coordinator.data[sn] has a sub_sn
          entity,    \* whether the platform made the entity: "wait", "made", "none"
          link,      \* the MQTT client is connected
          fc16,      \* sn is in _fc16_devices
          streaming, \* is_streaming(sn): something was pushed in the last PUSH_ACTIVE_WINDOW
          regular,   \* the cycle under way asks for the blocks a streaming device sends
          unsupported, \* _unsupported_registers[sn]
          pending,   \* manager._pending_request
          outbound,  \* messages on their way to the device
          inbound,   \* frames on their way from it
          regs,      \* the device's registers
          overlay,   \* overlays[sn][key]
          data,      \* coordinator.data[sn][key]
          cache,     \* coordinator._last_good_data[sn][key]
          shared,    \* these two are of one and the same dict
          attr,      \* _attr_is_on, _attr_native_value or _attr_current_option
          wanted     \* the values written so far, in order

fixed == <<model, key>>
known == <<version, listed, entity>>
shown == <<overlay, data, cache, shared, attr>>
gates == <<fc16, streaming, regular, unsupported>>
vars == <<fixed, known, link, gates, pending, outbound, inbound, regs, shown, wanted>>

NoRequest == [register |-> None, slave |-> None]

\* What is read of a byte that no setting is in.
Junk == -2

\* A message to the device: fc is 3 for a read and 6 for a write.
Message(envelope, slave, fc, register, value) ==
    [envelope |-> envelope, slave |-> slave, fc |-> fc, register |-> register, value |-> value]

------------------------------------------------------------------------------
(* The entities.                                                             *)

OutputKeys == {"ac_switch", "dc_switch"}
EcoKeys == {"ac_eco", "dc_eco"}
GridKeys == {"grid_charge", "feed_in"}
SwitchKeys == OutputKeys \cup EcoKeys \cup GridKeys

\* The registers that number entities write.
ECO_NUMBER_DESCRIPTIONS ==
    [ac_eco_auto_off |-> AC_ECO_AUTO_OFF_HOURS, ac_eco_power |-> AC_ECO_POWER,
     dc_eco_auto_off |-> DC_ECO_AUTO_OFF_HOURS, dc_eco_power |-> DC_ECO_POWER]
NumberKeys == DOMAIN ECO_NUMBER_DESCRIPTIONS

Keys == SwitchKeys \cup NumberKeys \cup {"charging_mode_setting"}

ASSUME ControlAssumption ==
    /\ Models \subseteq AllModels /\ Models # {} /\ Followed \subseteq Keys
    /\ Nodes \subseteq Nat /\ Pushed \subseteq Nat /\ PushSizes \subseteq Nat /\ Short \subseteq Nat
    /\ UserValues \subseteq Nat
    /\ MaxWrites \in Nat /\ MaxOnWire \in Nat /\ MaxMarked \in [Models -> Nat]

\* The platforms' async_setup_entry: whether a device of this profile gets the entity.
Offers(profile) ==
    \/ key \in OutputKeys /\ controllable(profile)
    \/ key \in EcoKeys /\ controllable(profile) /\ has_eco(profile)
    \/ key \in GridKeys /\ controllable(profile) /\ has_grid_control(profile)
    \/ key \in NumberKeys /\ has_eco(profile)
    \/ key = "charging_mode_setting" /\ key \in DOMAIN profile.regs

\* The profile a refresh resolved, or that of the configured model.
profile_for == get_profile(model, IF version = None THEN 0 ELSE version)

------------------------------------------------------------------------------
(* Mutated forms, each standing for a plausible bug in the operator it       *)
(* replaces when the mutation runs are made.                                 *)

SwappedOutputs(profile) ==
    CASE key \in NumberKeys -> ECO_NUMBER_DESCRIPTIONS[key]
      [] key = "ac_switch" /\ key \in DOMAIN profile.regs -> profile.regs["dc_switch"]
      [] key # "ac_switch" /\ key \in DOMAIN profile.regs -> profile.regs[key]
      [] OTHER -> None
LowByteFirst(f, at) ==
    LET r == f.start + at \div 2
    IN IF at % 2 = 1 /\ r \in DOMAIN f.regs THEN 256 * f.regs[r] ELSE Junk
ByPending(f) ==
    IF f.fc = 16 THEN [register |-> f.start, slave |-> f.slave]
    ELSE IF pending # NoRequest THEN pending
    ELSE [register |-> identify_block(f.size), slave |-> f.slave]
NeverStored(f) == {}
DefaultSlave(profile, register, value) == Message(profile.envelope, 1, 6, register, value)

------------------------------------------------------------------------------
(* Writes.                                                                   *)

\* The register the entity writes, and the values its builder accepts.
Target(profile) ==
    CASE key \in NumberKeys -> ECO_NUMBER_DESCRIPTIONS[key]
      [] key \in DOMAIN profile.regs -> profile.regs[key]
      [] OTHER -> None
Accepted(register) ==
    IF key \in SwitchKeys THEN build_switch_payload(register) ELSE build_setting_payload(register)

------------------------------------------------------------------------------
(* The device.  It is not in the repository: what it does is what the code,  *)
(* its comments and its tests take it to do.                                 *)

\* Where a V2 device, or a V1 device, keeps each setting.
OwnRegister ==
    IF model \notin V2Models
    THEN CASE key = "ac_switch" -> AC_SWITCH [] key = "dc_switch" -> DC_SWITCH [] OTHER -> None
    ELSE CASE key = "ac_switch" -> 2011 [] key = "dc_switch" -> 2012
           [] key = "dc_eco" -> 2014 [] key = "dc_eco_auto_off" -> 2015
           [] key = "dc_eco_power" -> 2016 [] key = "ac_eco" -> 2017
           [] key = "ac_eco_auto_off" -> 2018 [] key = "ac_eco_power" -> 2019
           [] key = "charging_mode_setting" -> 2020
           [] key = "grid_charge" -> 2207 [] key = "feed_in" -> 2208

Registers ==
    IF model \in V2Models
    THEN {2010, 2023, 2213, 2215} \cup 2011..2020 \cup {2207, 2208} \cup Destructive
    ELSE {PACK_SELECT, AC_SWITCH, DC_SWITCH}

\* What a register holds at first.
Lowest(values) == IF values = {} THEN 0 ELSE CHOOSE v \in values : \A w \in values : v <= w

\* It answers its own protocol, at its own address or, for packs, at theirs.
Understands(m) ==
    IF model \in V2Models
    THEN m.envelope /\ m.slave \in {0} \cup Nodes
    ELSE ~m.envelope /\ m.slave \in {1} \cup (Nodes \ {0})

\* A frame with the registers as they are now; start is the register its data begin at, or
\* the one a write echo names.
Frame(fc, slave, start, size) ==
    [fc |-> fc, slave |-> slave, start |-> start, size |-> size, regs |-> regs]

\* How long a reply with all the registers that are asked for is, and how long a reply is:
\* a device answers with the registers it has.  An AP300's pack record was seen to have 180
\* bytes of 208, and its cell block 44 of 50.
SizeAsked(register) ==
    CASE register = HOME_DATA -> HOME_DATA_SIZE
      [] register = INV_BASE_SETTINGS -> INV_BASE_SETTINGS_SIZE
      [] register = INV_ADV_SETTINGS -> INV_ADV_SETTINGS_SIZE
      [] register = PACK_MAIN_INFO -> PACK_MAIN_INFO_SIZE
      [] register = PACK_ITEM_INFO ->
            IF model \in V2Models THEN PACK_ITEM_INFO_SIZE_V2 ELSE PACK_ITEM_INFO_SIZE
      [] register = PACK_CELL_INFO -> PACK_CELL_INFO_SIZE
ReplySizes(register) ==
    {SizeAsked(register)} \cup {size \in Short : size < SizeAsked(register)}

\* The lengths of the blocks it pushes.
PushSizesOf(start) ==
    CASE start = 36 -> {2 * 34} [] start = 70 -> {2 * 60} [] start = 3000 -> {2 * 62}
      [] OTHER -> PushSizes

\* Byte at of a frame.  Settings are in the low bytes; an AC300 repeats its switches in
\* registers 48 and 49.
At(f, at) ==
    LET r == f.start + at \div 2
    IN IF at % 2 = 0 THEN Junk
       ELSE IF r \in DOMAIN f.regs THEN f.regs[r]
       ELSE IF model = "AC300" /\ r \in {48, 49} THEN f.regs[r - 48 + AC_SWITCH]
       ELSE Junk

\* The ctrl word of a polled V1 device's homeData tells its outputs; a V2 device's does not.
CtrlBit(f, bit) ==
    IF model = "EB3A" /\ f.start = HOME_DATA /\ bit \in {0, 1} THEN f.regs[AC_SWITCH + bit] ELSE Junk

\* The word that is taken for the charging status: an AC300 holds another value there, and
\* a pack record the end of a name, which is empty in the names that occur.
charging_status_raw(f) == IF model = "AC300" /\ f.start = HOME_DATA THEN 5760 ELSE 0

------------------------------------------------------------------------------
(* The handler.                                                              *)

\* _handle_telemetry_data and _handle_write_multiple_data: the block a frame is taken for
\* and the address it is filed under.  register is None for a frame that is ignored.
Route(f) ==
    CASE f.fc = 16 -> [register |-> f.start, slave |-> f.slave]
      [] f.fc = 3 /\ identify_block(f.size) # None ->
            [register |-> identify_block(f.size), slave |-> f.slave]
      [] f.fc = 3 /\ identify_block(f.size) = None /\ pending # NoRequest -> pending
      [] OTHER -> [register |-> _UNSOLICITED_BY_LENGTH(f.size), slave |-> 1]

\* The layout _route_register_data has a block read by, for a part count of n.
Layout(register, f, n) ==
    CASE register = HOME_DATA -> parse_home_data
      [] register = PACK_MAIN_INFO -> parse_pack_main_info
      [] register = PACK_ITEM_INFO ->
            IF profile_for.envelope THEN parse_pack_item_info_v2 ELSE parse_pack_item_info
      [] register = PACK_CELL_INFO -> parse_pack_cells(f.size, n, n)
      [] register = INV_BASE_INFO -> parse_inv_base_info
      [] register = INV_PV_INFO -> parse_inv_pv_info(f.size, n, n)
      [] register = INV_GRID_INFO -> parse_inv_grid_info(f.size, n)
      [] register = INV_LOAD_INFO -> parse_inv_load_info
      [] register = INV_INV_INFO -> parse_inv_inv_info
      [] register = INV_BASE_SETTINGS -> parse_inv_base_settings
      [] register = INV_ADV_SETTINGS -> parse_inv_adv_settings
      [] OTHER -> {}

\* The settings blocks, whose fields are stored under their own names.
SettingsLayout(register, f) ==
    IF register \in {INV_BASE_SETTINGS, INV_ADV_SETTINGS} THEN Layout(register, f, 0) ELSE {}

\* The names that parsers give the value of this entity.
_MQTT_SWITCH_MAP ==
    CASE key = "ac_switch" -> {"ctrl_ac_switch", "ac_output_on"}
      [] key = "dc_switch" -> {"ctrl_dc_switch", "dc_output_on"}
      [] OTHER -> {key}

\* _process_inv_base_settings, _process_block.
FromSettings(f) ==
    {At(f, x.at) : x \in {y \in Reported(SettingsLayout(Route(f).register, f), f.size) :
                             y.name \in _MQTT_SWITCH_MAP}}

\* _process_home_data: not of a device that pushes FC=16, nor with a status out of range;
\* the ctrl bits only of a V1 device.
HomeDataAccepted(f) ==
    /\ Route(f).register = HOME_DATA /\ ~fc16
    /\ Reported(parse_home_data, f.size) # {} /\ charging_status_raw(f) <= 10
FromHomeData(f) ==
    IF HomeDataAccepted(f) /\ ~profile_for.envelope
    THEN {CtrlBit(f, CTRL_STATUS_BITS[b]) : b \in DOMAIN CTRL_STATUS_BITS \cap _MQTT_SWITCH_MAP}
    ELSE {}

\* _process_fc16_data, for what the profile takes for a V1 device.
IsV1Push(f) ==
    f.fc = 16 /\ ~profile_for.envelope /\ parse_fc16_registers(f.start, f.size) # {}
FromPush(f) ==
    IF IsV1Push(f)
    THEN {At(f, 2 * (e[1] - f.start) + 1) :
             e \in {x \in parse_fc16_registers(f.start, f.size) : x[2] \in _MQTT_SWITCH_MAP}}
    ELSE {}

\* _handle_write_echo: echoes of the switches only.
_REGISTER_TO_SWITCH ==
    CASE key = "ac_switch" -> {AC_SWITCH, AC_SWITCH_V2} [] key = "dc_switch" -> {DC_SWITCH, DC_SWITCH_V2}
      [] key = "ac_eco" -> {AC_ECO_MODE} [] key = "dc_eco" -> {DC_ECO_MODE}
      [] key = "grid_charge" -> {CTRL_GRID} [] key = "feed_in" -> {CTRL_FEED}
      [] OTHER -> {}
FromEcho(f) == IF f.start \in _REGISTER_TO_SWITCH THEN {f.regs[f.start]} ELSE {}

\* What a frame tells of the setting: one value, or none.
Told(f) == IF f.fc = 6 THEN FromEcho(f) ELSE FromSettings(f) \cup FromHomeData(f) \cup FromPush(f)

\* Whether its parser reports anything, so that the overlay is pushed.
Pushes(f) ==
    CASE f.fc = 6 -> Told(f) # {}
      [] f.fc # 6 /\ Route(f).register = HOME_DATA -> HomeDataAccepted(f)
      [] OTHER -> Reported(Layout(Route(f).register, f, 0), f.size) # {} \/ IsV1Push(f)

------------------------------------------------------------------------------
Init ==
    /\ model \in Models /\ key \in Followed /\ OwnRegister # None
    /\ version = None /\ listed = FALSE /\ entity = "wait" /\ link = FALSE
    /\ fc16 = FALSE /\ streaming = FALSE /\ regular = FALSE /\ unsupported = {}
    /\ pending = NoRequest /\ outbound = <<>> /\ inbound = <<>>
    /\ regs = [r \in Registers |-> Lowest(build_setting_payload(r))]
    /\ overlay = None /\ data = None /\ cache = None /\ shared = FALSE /\ attr = None
    /\ wanted = <<>>

(* The refresh, the platforms and the link.                                  *)

\* A refresh that lists the device, with its protocol version or, where that makes a
\* difference, without, and with or without the state of its outputs: the profile is
\* resolved, and the data are built anew.
RefreshLists ==
    /\ \/ version' = IF model \in V2Models THEN 2015 ELSE 1000
       \/ model \notin {"AC300", "AP300"} /\ version' = 0
    /\ listed' = TRUE
    /\ \E rest \in {None} \cup {regs[r] : r \in {OwnRegister : k \in {key} \cap OutputKeys}} :
          data' = IF overlay # None THEN overlay ELSE rest
    /\ cache' = data' /\ shared' = TRUE
    /\ UNCHANGED <<fixed, entity, link, gates, pending, outbound, inbound, regs, overlay, attr, wanted>>

\* A refresh whose listing fails, or has not the device in it: what the last one left is put
\* back, as it was then, or with what has been written to that very dict.  Before the device
\* was listed there is nothing to put back.
RefreshCached ==
    /\ listed
    /\ data' = cache /\ shared' = TRUE
    /\ UNCHANGED <<fixed, known, link, gates, pending, outbound, inbound, regs, overlay, cache, attr, wanted>>

\* async_forward_entry_setups, after the first refresh: with or without the device in it.
SetUp ==
    /\ entity = "wait"
    /\ entity' = IF Offers(profile_for) THEN "made" ELSE "none"
    /\ UNCHANGED <<fixed, version, listed, link, gates, pending, outbound, inbound, regs, shown, wanted>>

\* async_start, which subscribes to the device's topic.
LinkUp ==
    /\ ~link /\ listed
    /\ link' = TRUE
    /\ UNCHANGED <<fixed, known, gates, pending, outbound, inbound, regs, shown, wanted>>

\* What is under way is lost, the polling cycle too where the client is cleaned up.
LinkDown ==
    /\ link
    /\ link' = FALSE
    /\ outbound' = <<>> /\ inbound' = <<>> /\ pending' = NoRequest
    /\ regular' \in {regular, FALSE}
    /\ UNCHANGED <<fixed, known, fc16, streaming, unsupported, regs, shown, wanted>>

(* The user.                                                                 *)

\* _send_switch_command, async_set_native_value, async_select_option, once model, sub_sn
\* and connection have been found to be there; a register that is None, and a value the
\* builder does not accept, raise before anything is sent or stored.
WriteMessage(profile, register, value) ==
    Message(profile.envelope, profile.slave_addr, 6, register, value)

UserWrites(value) ==
    /\ entity = "made" /\ Len(wanted) < MaxWrites
    /\ listed /\ link /\ Len(outbound) < MaxOnWire
    /\ LET register == Target(profile_for)
       IN /\ value \in Accepted(register)
          /\ outbound' = Append(outbound, WriteMessage(profile_for, register, value))
    /\ attr' = value /\ data' = value /\ cache' = IF shared THEN value ELSE cache
    /\ wanted' = Append(wanted, value)
    /\ UNCHANGED <<fixed, known, link, gates, pending, inbound, regs, overlay, shared>>

(* The polling loop.                                                         *)

\* Nothing has been pushed for PUSH_ACTIVE_WINDOW.
StreamEnds ==
    /\ streaming
    /\ streaming' = FALSE
    /\ UNCHANGED <<fixed, known, link, fc16, regular, unsupported, pending, outbound, inbound,
                   regs, shown, wanted>>

\* _poll_once of a V2 device looks once whether it streams.
CycleBegins ==
    /\ link /\ ~fc16 /\ profile_for.envelope /\ pending = NoRequest
    /\ regular' = ~streaming
    /\ UNCHANGED <<fixed, known, link, fc16, streaming, unsupported, pending, outbound, inbound,
                   regs, shown, wanted>>

\* What a cycle asks for.
Requests ==
    IF profile_for.envelope
    THEN {[register |-> r, slave |-> 0] :
             r \in {b \in {HOME_DATA, INV_BASE_SETTINGS, INV_ADV_SETTINGS} : regular}}
         \cup {[register |-> r, slave |-> n] : r \in {PACK_ITEM_INFO, PACK_CELL_INFO}, n \in Nodes}
    ELSE {[register |-> r, slave |-> 1] : r \in {HOME_DATA, PACK_MAIN_INFO}}
         \cup {[register |-> PACK_ITEM_INFO, slave |-> n] : n \in Nodes \ {0}}

\* Never for what the device is taken to have refused.
Ask(r) ==
    /\ link /\ ~fc16 /\ pending = NoRequest /\ Len(outbound) < MaxOnWire
    /\ r \in Requests \ unsupported
    /\ pending' = r
    /\ outbound' = Append(outbound, Message(profile_for.envelope, r.slave, 3, r.register, 0))
    /\ UNCHANGED <<fixed, known, link, gates, inbound, regs, shown, wanted>>

\* It is answered, refused or given up.
RequestEnds ==
    /\ pending # NoRequest
    /\ pending' = NoRequest
    /\ UNCHANGED <<fixed, known, link, gates, outbound, inbound, regs, shown, wanted>>

(* The device.                                                               *)

\* The registers after message m.
Applied(m) ==
    IF Understands(m) /\ m.fc = 6 /\ m.register \in Registers
    THEN [regs EXCEPT ![m.register] = m.value] ELSE regs

\* It takes a message without a word, as it does one it does not understand; never because
\* MaxOnWire leaves no room for its answer.
DeviceSilent ==
    /\ outbound # <<>> /\ Len(inbound) < MaxOnWire
    /\ regs' = Applied(Head(outbound))
    /\ outbound' = Tail(outbound)
    /\ UNCHANGED <<fixed, known, link, gates, pending, inbound, shown, wanted>>

\* It answers: the echo of a write, or the block that is read.
DeviceAnswers ==
    /\ outbound # <<>> /\ Len(inbound) < MaxOnWire
    /\ LET m == Head(outbound)
       IN /\ Understands(m)
          /\ regs' = Applied(m)
          /\ \/ /\ m.fc = 6 /\ m.register \in Registers
                /\ inbound' = Append(inbound, [Frame(6, m.slave, m.register, 0) EXCEPT !.regs = regs'])
             \/ /\ m.fc = 3
                /\ \E size \in ReplySizes(m.register) :
                      inbound' = Append(inbound, Frame(3, m.slave, m.register, size))
    /\ outbound' = Tail(outbound)
    /\ UNCHANGED <<fixed, known, link, gates, pending, shown, wanted>>

\* It refuses: the error frame names no register.
DeviceRefuses ==
    /\ outbound # <<>> /\ Len(inbound) < MaxOnWire /\ Cardinality(unsupported) < MaxMarked[model]
    /\ LET m == Head(outbound)
       IN Understands(m) /\ inbound' = Append(inbound, Frame(m.fc + 128, m.slave, 0, 0))
    /\ outbound' = Tail(outbound)
    /\ UNCHANGED <<fixed, known, link, gates, pending, regs, shown, wanted>>

\* It pushes a block under FC=16,
DevicePushes(start, size) ==
    /\ link /\ Len(inbound) < MaxOnWire
    /\ \/ /\ model = "AC300" /\ start \in {36, 70, 3000} /\ size \in PushSizesOf(start)
          /\ inbound' = Append(inbound, Frame(16, 1, start, size))
       \/ /\ model \in V2Models /\ start \in Pushed /\ size \in PushSizesOf(start)
          /\ inbound' = Append(inbound, Frame(16, 0, start, size))
    /\ UNCHANGED <<fixed, known, link, gates, pending, outbound, regs, shown, wanted>>

\* or homeData and base settings as an answer to no one.
DeviceVolunteers(start) ==
    /\ link /\ Len(inbound) < MaxOnWire /\ model \in V2Models
    /\ \E size \in ReplySizes(start) : inbound' = Append(inbound, Frame(3, 0, start, size))
    /\ UNCHANGED <<fixed, known, link, gates, pending, outbound, regs, shown, wanted>>

(* The handler, on the event loop.                                           *)

\* The function codes of error frames.  One marks whatever is being asked for.
Errors == {131, 134}

Handle ==
    /\ inbound # <<>>
    /\ LET f == Head(inbound)
       IN /\ overlay' = IF Told(f) = {} THEN overlay ELSE CHOOSE v \in Told(f) : TRUE
          /\ data' = IF Pushes(f) /\ overlay' # None THEN overlay' ELSE data
          /\ shared' = (shared /\ ~Pushes(f))
          /\ fc16' = (fc16 \/ IsV1Push(f))
          /\ streaming' = (streaming \/ (f.fc = 16 /\ profile_for.envelope))
          /\ unsupported' = unsupported \cup {p \in {pending} : f.fc \in Errors /\ p # NoRequest}
    /\ inbound' = Tail(inbound)
    /\ UNCHANGED <<fixed, known, link, regular, pending, outbound, regs, cache, attr, wanted>>

------------------------------------------------------------------------------
Next ==
    \/ RefreshLists \/ RefreshCached \/ SetUp \/ LinkUp \/ LinkDown
    \/ \E value \in UserValues : UserWrites(value)
    \/ StreamEnds \/ CycleBegins
    \/ \E r \in Requests : Ask(r)
    \/ RequestEnds \/ DeviceSilent \/ DeviceAnswers \/ DeviceRefuses
    \/ \E start \in Pushed \cup {36, 70, 3000} : \E size \in PushSizesOf(start) :
          DevicePushes(start, size)
    \/ \E start \in {HOME_DATA, INV_BASE_SETTINGS} : DeviceVolunteers(start)
    \/ Handle

Spec == Init /\ [][Next]_vars

\* The event loop calls the handler for a frame that has come.
FairSpec == Spec /\ WF_vars(Handle)

------------------------------------------------------------------------------
(* Properties.                                                               *)

\* Type correctness.  A value shown is one that the setting accepts, if it is known and no
\* junk: of a block taken for another, bytes are stored that no setting is in.
OwnValues == Accepted(OwnRegister)
Values == {None, Junk} \cup OwnValues
RegisterValues == 0..6000
Asked == [register : Nat, slave : {0, 1} \cup Nodes]
Frames == [fc : {3, 6, 16} \cup Errors, slave : {0, 1} \cup Nodes, start : Nat, size : Nat,
           regs : [Registers -> RegisterValues]]
Messages == [envelope : BOOLEAN, slave : {0, 1} \cup Nodes, fc : {3, 6}, register : Nat,
             value : UserValues \cup {0}]
TypeOK ==
    /\ model \in Models /\ key \in Followed
    /\ version \in {None, 0, 1000, 2015} /\ listed \in BOOLEAN
    /\ entity \in {"wait", "made", "none"}
    /\ link \in BOOLEAN /\ fc16 \in BOOLEAN /\ streaming \in BOOLEAN /\ regular \in BOOLEAN
    /\ unsupported \subseteq Asked /\ pending \in Asked \cup {NoRequest}
    /\ outbound \in Seq(Messages) /\ Len(outbound) <= MaxOnWire
    /\ inbound \in Seq(Frames) /\ Len(inbound) <= MaxOnWire
    /\ regs \in [Registers -> RegisterValues]
    /\ overlay \in Values /\ data \in Values /\ cache \in Values /\ attr \in Values
    /\ shared \in BOOLEAN
    /\ wanted \in Seq(UserValues) /\ Len(wanted) <= MaxWrites

\* The profile in use is of the device's own generation.  It may not be so while a model
\* that is not in the registry has been listed by no refresh, or without its version.
RightGeneration == profile_for.envelope <=> model \in V2Models

\* A frame is taken for the block it is and filed under the address that sent it, whatever
\* has been asked since: replies outlive their requests, pushes come in between.  This holds
\* of every push, of every whole reply but a V1 pack record, whose size no table has, and of
\* cell blocks with any number of cells that _CELL_SIZE_RANGE allows for; another reply with
\* fewer registers than were asked for may be taken for what is pending, or for the block
\* whose size it happens to have.
AsSent(f) == f.fc \in {3, 16} => Route(f) = [register |-> f.start, slave |-> f.slave]
Cut(f) == f.fc = 3 /\ f.size < SizeAsked(f.start)
Ambiguous(f) ==
    \/ f.size = PACK_ITEM_INFO_SIZE
    \/ Cut(f) /\ ~(f.start = PACK_CELL_INFO /\ f.size \in _CELL_SIZE_RANGE)
RoutedAsSent == \A i \in 1..Len(inbound) : AsSent(inbound[i]) \/ Ambiguous(inbound[i])

\* No parser reads past the end of a frame, however short the frame and however many
\* cells, strings or phases it claims to have.
ReadsInside ==
    \A i \in 1..Len(inbound) : \A n \in {0, 1, 4, 255} :
        LET f == inbound[i]
        IN \A x \in Reported(Layout(Route(f).register, f, n), f.size) : x.at + x.width <= f.size

\* The device changes only the setting the user asked for, and only to what was asked: a
\* neighbouring register would be another output, or switch the device off.
OnlyAskedChanges ==
    [][\A r \in DOMAIN regs :
          regs'[r] # regs[r] => r = OwnRegister /\ \E i \in 1..Len(wanted) : wanted[i] = regs'[r]]_vars

\* What is sent is in the device's own dialect, once a listing has told its generation: no
\* entity made from the fallback profile sends a frame of the other one.
SentUnderstood ==
    [][/\ Len(outbound') > Len(outbound) /\ RightGeneration
       => Understands(outbound'[Len(outbound')])]_vars

\* The block that tells the setting when it is read, or pushed by an AC300.  Nothing makes it
\* come: it is not asked for while the device streams, nor once it is marked as refused.
SettingBlock ==
    CASE model = "AC300" -> 3000
      [] model = "EB3A" -> HOME_DATA
      [] model \in V2Models /\ key \in GridKeys -> INV_ADV_SETTINGS
      [] OTHER -> INV_BASE_SETTINGS
SettingSize == IF model = "AC300" THEN 2 * 62 ELSE SizeAsked(SettingBlock)
SettingComes ==
    /\ inbound # <<>>
    /\ LET f == Head(inbound)
       IN f.fc \in {3, 16} /\ f.start = SettingBlock /\ f.size >= SettingSize

\* Once the user has stopped, and while the block of the setting comes again and again, the
\* value shown is the device's again and again: the optimistic value of a write that was lost
\* is corrected, and that of one that arrived is confirmed, by whichever block or echo comes.
\* It is so for good from some time on, unless frames go on being taken for other blocks, or
\* refreshes go on failing or missing the device: each puts back what the last good one left.
Shown == IF data = None THEN attr ELSE data
InOrder == \A i \in 1..Len(inbound) : AsSent(inbound[i])
WritesSettle ==
    (<>[](entity = "made" /\ link /\ RightGeneration) /\ []<>SettingComes)
        => /\ []<>(Shown = regs[OwnRegister])
           /\ []<>~InOrder \/ []<><<RefreshCached>>_vars \/ <>[](Shown = regs[OwnRegister])

\* The inductive invariant: types; what is known of the device's generation, and that a
\* model without a profile of its own has no entities but the outputs;
Generations ==
    /\ OwnRegister # None
    /\ version = 2015 => model \in V2Models
    /\ version = 1000 => model \notin V2Models
    /\ model = "Elite200V2" /\ entity = "made" => key \in OutputKeys

\* that a write under way would change the setting or nothing, to a value asked for, and
\* that only the blocks of the polling cycles are read;
Readable == {HOME_DATA, INV_BASE_SETTINGS, INV_ADV_SETTINGS, PACK_MAIN_INFO, PACK_ITEM_INFO,
             PACK_CELL_INFO}
MessageFits(m) ==
    /\ m.fc = 6 => /\ Understands(m) => m.register = OwnRegister
                  /\ m.value \in OwnValues
                  /\ \E i \in 1..Len(wanted) : wanted[i] = m.value
    /\ m.fc = 3 => m.register \in Readable
MessagesFit == \A i \in 1..Len(outbound) : MessageFits(outbound[i])

\* and that a frame under way carries a value of the setting and is an echo of its register,
\* a push, an error, or a reply to such a read, whole or with fewer registers.
FrameFits(f) ==
    /\ f.regs[OwnRegister] \in OwnValues
    /\ f.fc = 6 => f.start = OwnRegister
    /\ f.fc = 3 => f.start \in Readable /\ f.size \in ReplySizes(f.start)
    /\ f.fc \in Errors => f.size = 0
FramesFit ==
    /\ regs[OwnRegister] \in OwnValues
    /\ \A i \in 1..Len(inbound) : FrameFits(inbound[i])

IInv == TypeOK /\ Generations /\ MessagesFit /\ FramesFit

==============================================================================
