-------------------------------- MODULE Blocks --------------------------------
(***************************************************************************)
(* What api/modbus.py and api/profiles.py say of the devices' registers:   *)
(* their addresses, the blocks that are read or pushed, where the parser   *)
(* of each block looks for its fields, which registers may be written and  *)
(* with what, and how each model is talked to.                             *)
(*                                                                         *)
(* A field is where it is: its first byte in the data, its width in bytes, *)
(* and the length the data must have for the parser to report it.  What    *)
(* the parser makes of the bytes (scale, sign, text) is left out.          *)
(***************************************************************************)
EXTENDS Integers, FiniteSets

------------------------------------------------------------------------------
(* Registers.  Those of a V1 device, of a V2 device, and the blocks.         *)

PACK_SELECT == 3006
AC_SWITCH == 3007
DC_SWITCH == 3008

AC_SWITCH_V2 == 2011
DC_SWITCH_V2 == 2012
DC_ECO_MODE == 2014
DC_ECO_AUTO_OFF_HOURS == 2015
DC_ECO_POWER == 2016
AC_ECO_MODE == 2017
AC_ECO_AUTO_OFF_HOURS == 2018
AC_ECO_POWER == 2019
CHARGING_MODE == 2020
SYS_SOC_HIGH_CAPACITY == 2023
CTRL_GRID == 2207
CTRL_FEED == 2208
GRID_MAX_POWER == 2213
FEED_MAX_POWER == 2215

\* SYSTEM_POWER_OFF, a factory reset, a battery-ageing routine: never to be written.
Destructive == {2013, 2206, 2233}

HOME_DATA == 100
INV_BASE_INFO == 1100
INV_PV_INFO == 1200
INV_GRID_INFO == 1300
INV_LOAD_INFO == 1400
INV_INV_INFO == 1500
INV_BASE_SETTINGS == 2000
INV_ADV_SETTINGS == 2200
PACK_MAIN_INFO == 6000
PACK_ITEM_INFO == 6100
PACK_CELL_INFO == 6300
NODE_INFO == 21000

\* Bytes in a reply to a read of the whole block: the _COUNT constants, doubled.
HOME_DATA_SIZE == 2 * 62
INV_BASE_SETTINGS_SIZE == 2 * 30
INV_ADV_SETTINGS_SIZE == 2 * 20
PACK_MAIN_INFO_SIZE == 2 * 34
PACK_ITEM_INFO_SIZE == 2 * 90
PACK_ITEM_INFO_SIZE_V2 == 2 * 104
PACK_CELL_INFO_SIZE == 2 * 25

------------------------------------------------------------------------------
(* Which block a reply of some size is.                                      *)

None == -1

_BLOCK_BY_SIZE(size) ==
    CASE size = HOME_DATA_SIZE -> HOME_DATA
      [] size = INV_BASE_SETTINGS_SIZE -> INV_BASE_SETTINGS
      [] size = INV_ADV_SETTINGS_SIZE -> INV_ADV_SETTINGS
      [] size = PACK_MAIN_INFO_SIZE -> PACK_MAIN_INFO
      [] size = PACK_ITEM_INFO_SIZE_V2 -> PACK_ITEM_INFO
      [] OTHER -> None

\* The cell block's length varies with the number of cells.
_CELL_SIZE_RANGE == 42..58

identify_block(size) ==
    IF _BLOCK_BY_SIZE(size) # None THEN _BLOCK_BY_SIZE(size)
    ELSE IF size \in _CELL_SIZE_RANGE THEN PACK_CELL_INFO ELSE None

\* The lengths that identify a frame nobody asked for.
_UNSOLICITED_BY_LENGTH(size) ==
    CASE size = HOME_DATA_SIZE -> HOME_DATA
      [] size = INV_BASE_SETTINGS_SIZE -> INV_BASE_SETTINGS
      [] OTHER -> None

------------------------------------------------------------------------------
(* Where the parsers look.                                                   *)

Field(name, at, width, over) == [name |-> name, at |-> at, width |-> width, over |-> over]
Byte(name, at, over) == Field(name, at, 1, over)
Word(name, at, over) == Field(name, at, 2, over)
Long(name, at, over) == Field(name, at, 4, over)

\* The ctrl bits of homeData, all in one word.
CTRL_STATUS_BITS == [ctrl_ac_switch |-> 0, ctrl_dc_switch |-> 1, ctrl_pv_switch |-> 2,
                     ctrl_grid_switch |-> 3]

parse_home_data ==
    {Word("pack_voltage", 0, 12), Word("pack_current", 2, 12), Word("battery_soc", 4, 12),
     Word("charging_status", 6, 12), Word("charge_time_remaining", 8, 12),
     Word("discharge_time_remaining", 10, 12), Word("pack_aging_info", 12, 14),
     Word("pack_count", 14, 16), Word("pack_online_mask", 16, 18),
     Field("device_model", 20, 12, 32), Field("device_sn", 32, 8, 40),
     Byte("inverter_count", 41, 42), Byte("inverter_power_type", 45, 46),
     Word("energy_flow", 46, 48), Word("ctrl", 48, 50),
     Long("total_dc_power", 80, 100), Long("total_ac_power", 84, 100),
     Long("total_pv_power", 88, 100), Long("total_grid_power", 92, 100),
     Long("total_inv_power", 96, 100), Long("total_dc_energy", 100, 120),
     Long("total_ac_energy", 104, 120), Long("total_pv_energy", 108, 120),
     Long("total_grid_energy", 112, 120), Long("total_feedback_energy", 116, 120),
     Byte("charging_mode", 121, 122), Byte("inv_working_status", 123, 124)}

parse_pack_main_info ==
    {Word("pack_volt_type", 0, 20), Byte("pack_count", 3, 20), Word("pack_online_mask", 4, 20),
     Word("pack_total_voltage", 6, 20), Word("pack_total_current", 8, 20),
     Byte("pack_total_soc", 11, 20), Byte("pack_total_soh", 13, 20),
     Word("pack_average_temp", 14, 20), Byte("pack_running_status", 17, 20),
     Byte("pack_charging_status", 19, 20), Word("charge_full_time", 34, 36),
     Word("discharge_empty_time", 36, 38)}

parse_inv_base_info ==
    {Word("ambient_temp", 102, 108), Word("inverter_temp", 104, 108),
     Word("pv_dcdc_temp", 106, 108)}

parse_inv_load_info ==
    {Long("dc_load_power", 0, 48), Long("dc_load_energy", 4, 48), Word("dc_5v_power", 8, 48),
     Word("dc_12v_power", 12, 48), Word("dc_24v_power", 16, 48), Long("ac_load_power", 40, 48),
     Long("ac_load_energy", 44, 48), Word("dc_load_voltage", 24, 48),
     Word("dc_load_current", 26, 48), Byte("ac_load_phases", 59, 60)}

parse_inv_inv_info ==
    {Word("inverter_frequency", 0, 18), Long("inverter_energy", 2, 18),
     Byte("inverter_phases", 17, 18)}

parse_inv_adv_settings == {Byte("grid_charge", 15, 18), Byte("feed_in", 17, 18)}

parse_inv_base_settings ==
    {Byte("ctrl_inverter", 21, 26), Byte("ctrl_ac_switch", 23, 26), Byte("ctrl_dc_switch", 25, 26),
     Byte("charging_mode_setting", 41, 42),
     Byte("dc_eco", 29, 40), Byte("dc_eco_auto_off", 31, 40), Byte("dc_eco_power", 33, 40),
     Byte("ac_eco", 35, 40), Byte("ac_eco_auto_off", 37, 40), Byte("ac_eco_power", 39, 40)}

\* The two layouts of a pack record; least is the length below which nothing is read.
PackRecord(least, over) ==
    {Byte("pack_id", 1, least), Field("pack_type", 2, 12, least), Field("pack_sn", 14, 8, least),
     Word("pack_voltage", 22, least), Word("pack_current", 24, least),
     Byte("pack_soc", 27, over[27]), Byte("pack_soh", 29, over[29]),
     Word("pack_average_temp", 30, over[31]), Byte("pack_running_status", 49, over[49]),
     Byte("pack_charging_status", 51, over[51])}

parse_pack_item_info == PackRecord(26, [i \in 27..51 |-> i + 1])

parse_pack_item_info_v2 ==
    PackRecord(100, [i \in 27..51 |-> 100]) \cup
    {Byte("total_cell_count", 105, 106), Byte("ntc_cell_count", 107, 108),
     Byte("bmu_count", 109, 110)}

\* Parts that come as often as a count in the data says, as far as the data goes: each is
\* stride bytes after the one before and is read over its first width bytes.
Parts(name, from, stride, width, count, length) ==
    {Field(name, from + stride * i, width, length) :
        i \in {k \in 0..count - 1 : from + stride * k + width <= length}}

parse_inv_pv_info(length, acStrings, dcStrings) ==
    {Long("pv_total_power", 0, 20), Long("pv_total_energy", 4, 20), Byte("string_counts", 19, 20)}
    \cup (IF length < 20 THEN {} ELSE Parts("pv_string", 20, 16, 10, acStrings + dcStrings, length))

parse_inv_grid_info(length, phases) ==
    {Word("grid_frequency", 0, 26), Long("grid_power", 2, 26), Long("grid_import_energy", 6, 26),
     Long("grid_export_energy", 10, 26), Byte("grid_phases", 25, 26)}
    \cup (IF length < 26 THEN {} ELSE Parts("grid_phase", 26, 12, 8, phases, length))

\* Temperatures follow the cells the count claims, two to a register.
parse_pack_cells(length, cells, ntcs) ==
    {Byte("cell_count", 1, 6), Byte("ntc_count", 3, 6)}
    \cup (IF length < 6 THEN {}
          ELSE Parts("cell", 4, 2, 2, cells, length)
               \cup Parts("ntc", 4 + 2 * cells, 2, 2, (ntcs + 1) \div 2, length))

\* A NODE_INFO reply: a header of 4 bytes, then 16 for each node.
parse_node_info(length) ==
    IF length < 20 THEN {} ELSE Parts("node", 4, 16, 16, (length - 4) \div 16, length)

\* A mutated form of the next operator: the CRC is taken for data.
CountsTrailer(layout, length) == {f \in layout : f.over <= length + 2}

\* What is reported of data of this length.
Reported(layout, length) == {f \in layout : f.over <= length}

\* The registers of an AC300 that FC=16 pushes report, by address.
_AC300_REGISTER_MAP ==
    {<<36, "dc_input_power">>, <<37, "ac_input_power">>, <<38, "ac_output_power">>,
     <<39, "dc_output_power">>, <<43, "total_battery_percent">>, <<48, "ac_output_on">>,
     <<49, "dc_output_on">>, <<86, "pv_input_voltage">>, <<87, "pv_input_power">>,
     <<88, "pv_input_current">>, <<91, "pack_num_max">>, <<92, "total_battery_voltage">>,
     <<93, "total_battery_current">>, <<96, "pack_num">>, <<97, "pack_status">>,
     <<98, "pack_voltage">>, <<99, "pack_battery_percent">>,
     <<AC_SWITCH, "ctrl_ac_switch">>, <<DC_SWITCH, "ctrl_dc_switch">>}

\* Those in a push of this many bytes from start on.
parse_fc16_registers(start, size) ==
    {e \in _AC300_REGISTER_MAP : e[1] \in start..start + size \div 2 - 1}

------------------------------------------------------------------------------
(* What may be written.                                                      *)

CONTROL_REGISTERS == {AC_SWITCH, DC_SWITCH, AC_SWITCH_V2, DC_SWITCH_V2,
                      DC_ECO_MODE, AC_ECO_MODE, CTRL_GRID, CTRL_FEED}

SETTING_RANGES(register) ==
    CASE register \in {DC_ECO_AUTO_OFF_HOURS, AC_ECO_AUTO_OFF_HOURS} -> 1..4
      [] register = DC_ECO_POWER -> 5..20
      [] register = AC_ECO_POWER -> 10..40
      [] register = SYS_SOC_HIGH_CAPACITY -> 1..100
      [] register = GRID_MAX_POWER -> 300..6000
      [] register = FEED_MAX_POWER -> 0..6000
      [] OTHER -> {}

CHARGING_MODES == {0, 1, 2, 4}

\* The values each builder accepts for a register; for any other it raises ValueError.
build_switch_payload(register) == IF register \in CONTROL_REGISTERS THEN {0, 1} ELSE {}
build_setting_payload(register) ==
    IF register = CHARGING_MODE THEN CHARGING_MODES ELSE SETTING_RANGES(register)

------------------------------------------------------------------------------
(* Profiles.                                                                 *)

PROTOCOL_VER_V2 == 2000

\* envelope: iot_payload_ver >= IOT_PAYLOAD_VER_V2.  regs: the registers that the profile
\* names, under the data key of the entity that writes them.
AC300_PROFILE ==
    [envelope |-> FALSE, slave_addr |-> 1,
     regs |-> [ac_switch |-> AC_SWITCH, dc_switch |-> DC_SWITCH]]

AP300_PROFILE ==
    [envelope |-> TRUE, slave_addr |-> 0,
     regs |-> [ac_switch |-> AC_SWITCH_V2, dc_switch |-> DC_SWITCH_V2,
               ac_eco |-> AC_ECO_MODE, dc_eco |-> DC_ECO_MODE,
               grid_charge |-> CTRL_GRID, feed_in |-> CTRL_FEED,
               charging_mode_setting |-> CHARGING_MODE]]

GENERIC_V2_PROFILE ==
    [envelope |-> TRUE, slave_addr |-> 0, regs |-> [key \in {} |-> None]]

\* A model in the registry has its profile, whatever its version; another falls back by
\* generation.
get_profile(model, protocol_ver) ==
    CASE model = "AC300" -> AC300_PROFILE
      [] model = "AP300" -> AP300_PROFILE
      [] model \notin {"AC300", "AP300"} /\ protocol_ver >= PROTOCOL_VER_V2 -> GENERIC_V2_PROFILE
      [] OTHER -> AC300_PROFILE

Names(profile, keys) == DOMAIN profile.regs \cap keys # {}
controllable(profile) == Names(profile, {"ac_switch", "dc_switch"})
has_eco(profile) == Names(profile, {"ac_eco", "dc_eco"})
has_grid_control(profile) == Names(profile, {"grid_charge", "feed_in"})

==============================================================================
