---------------------------- MODULE ControlProofs -----------------------------
(***************************************************************************)
(* Proofs of the safety properties of Control, for any models, entities,   *)
(* addresses, pushed blocks, lengths of frames and values of the user.      *)
(***************************************************************************)
EXTENDS Control, TLAPS

------------------------------------------------------------------------------
(* The tables of registers and values.                                       *)

\* What build_setting_payload accepts.
LEMMA PayloadTable ==
  /\ build_setting_payload(2015) = 1..4 /\ build_setting_payload(2018) = 1..4
  /\ build_setting_payload(2016) = 5..20 /\ build_setting_payload(2019) = 10..40
  /\ build_setting_payload(2023) = 1..100
  /\ build_setting_payload(2213) = 300..6000 /\ build_setting_payload(2215) = 0..6000
  /\ build_setting_payload(2020) = {0, 1, 2, 4}
  /\ \A r \in Int : r \notin {2015, 2016, 2018, 2019, 2020, 2023, 2213, 2215}
                      => build_setting_payload(r) = {}
BY DEF build_setting_payload, SETTING_RANGES, CHARGING_MODE, CHARGING_MODES,
       DC_ECO_AUTO_OFF_HOURS, AC_ECO_AUTO_OFF_HOURS, DC_ECO_POWER, AC_ECO_POWER,
       SYS_SOC_HIGH_CAPACITY, GRID_MAX_POWER, FEED_MAX_POWER

\* A setting: one of those there are, that the device has.
Setting == key \in Keys /\ model \in AllModels /\ OwnRegister # None

\* Every setting has a register of its own.
LEMMA OwnTable ==
  ASSUME Setting
  PROVE  \/ key = "ac_switch" /\ OwnRegister = IF model \in V2Models THEN 2011 ELSE 3007
         \/ key = "dc_switch" /\ OwnRegister = IF model \in V2Models THEN 2012 ELSE 3008
         \/ /\ model \in V2Models
            /\ \/ key = "dc_eco" /\ OwnRegister = 2014
               \/ key = "dc_eco_auto_off" /\ OwnRegister = 2015
               \/ key = "dc_eco_power" /\ OwnRegister = 2016
               \/ key = "ac_eco" /\ OwnRegister = 2017
               \/ key = "ac_eco_auto_off" /\ OwnRegister = 2018
               \/ key = "ac_eco_power" /\ OwnRegister = 2019
               \/ key = "charging_mode_setting" /\ OwnRegister = 2020
               \/ key = "grid_charge" /\ OwnRegister = 2207
               \/ key = "feed_in" /\ OwnRegister = 2208
<1>1. \/ key \in {"ac_switch", "dc_switch"}
      \/ key \in {"dc_eco", "ac_eco", "grid_charge", "feed_in"}
      \/ key \in {"dc_eco_auto_off", "dc_eco_power", "ac_eco_auto_off", "ac_eco_power"}
      \/ key = "charging_mode_setting"
  BY DEF Setting, Keys, SwitchKeys, OutputKeys, EcoKeys, GridKeys, NumberKeys, ECO_NUMBER_DESCRIPTIONS
<1>2. CASE model \in V2Models
  BY <1>1, <1>2 DEF OwnRegister
<1>3. CASE model \notin V2Models
  BY <1>1, <1>3 DEF Setting, OwnRegister, AC_SWITCH, DC_SWITCH, None
<1> QED BY <1>2, <1>3

\* What a register holds at first: the least value, or zero where there is none.
LEMMA LowestIn ==
  ASSUME NEW S, NEW m \in S, \A w \in S : m <= w
  PROVE  Lowest(S) \in S
BY DEF Lowest

\* Where a register accepts nothing it holds zero.
LEMMA LowestOfNone ==
  ASSUME NEW S, S = {}
  PROVE  Lowest(S) = 0
BY DEF Lowest

\* It is one of the values its builder accepts, where there are any.
LEMMA LowestValue ==
  ASSUME NEW r \in Int
  PROVE  /\ Lowest(build_setting_payload(r)) \in RegisterValues
         /\ r \in {2015, 2016, 2018, 2019, 2020}
              => Lowest(build_setting_payload(r)) \in build_setting_payload(r)
<1>1. 0 \in RegisterValues /\ \A v \in build_setting_payload(r) : v \in RegisterValues
  BY PayloadTable DEF RegisterValues
<1>2. CASE r \notin {2015, 2016, 2018, 2019, 2020, 2023, 2213, 2215}
  <2>1. build_setting_payload(r) = {}
    BY <1>2, PayloadTable
  <2>2. Lowest(build_setting_payload(r)) = 0
    BY <2>1, LowestOfNone, Zenon
  <2> QED BY <1>1, <1>2, <2>2
<1>3. CASE r \in {2015, 2018}
  <2>1. 1 \in build_setting_payload(r) /\ \A w \in build_setting_payload(r) : 1 <= w
    BY <1>3, PayloadTable
  <2> QED BY <1>1, <2>1, LowestIn
<1>4. CASE r = 2016
  <2>1. 5 \in build_setting_payload(r) /\ \A w \in build_setting_payload(r) : 5 <= w
    BY <1>4, PayloadTable
  <2> QED BY <1>1, <2>1, LowestIn
<1>5. CASE r = 2019
  <2>1. 10 \in build_setting_payload(r) /\ \A w \in build_setting_payload(r) : 10 <= w
    BY <1>5, PayloadTable
  <2> QED BY <1>1, <2>1, LowestIn
<1>6. CASE r = 2020
  <2>1. 0 \in build_setting_payload(r) /\ \A w \in build_setting_payload(r) : 0 <= w
    BY <1>6, PayloadTable
  <2> QED BY <1>1, <2>1, LowestIn
<1>7. CASE r = 2023
  <2>1. 1 \in build_setting_payload(r) /\ \A w \in build_setting_payload(r) : 1 <= w
    BY <1>7, PayloadTable
  <2> QED BY <1>1, <2>1, LowestIn
<1>8. CASE r = 2213
  <2>1. build_setting_payload(r) = 300..6000
    BY <1>8, PayloadTable
  <2>2. 300 \in build_setting_payload(r) /\ \A w \in build_setting_payload(r) : 300 <= w
    BY <2>1
  <2> QED BY <1>1, <2>2, LowestIn
<1>9. CASE r = 2215
  <2>1. build_setting_payload(r) = 0..6000
    BY <1>9, PayloadTable
  <2>2. 0 \in build_setting_payload(r) /\ \A w \in build_setting_payload(r) : 0 <= w
    BY <2>1
  <2> QED BY <1>1, <2>2, LowestIn
<1> QED BY <1>2, <1>3, <1>4, <1>5, <1>6, <1>7, <1>8, <1>9

\* The register of the setting and the values it may have.
LEMMA OwnFacts ==
  ASSUME Setting
  PROVE  /\ OwnRegister \in Registers /\ OwnRegister \in Nat
         /\ Lowest(build_setting_payload(OwnRegister)) \in OwnValues
         /\ \A v \in OwnValues : v \in RegisterValues
         /\ key \in SwitchKeys => OwnValues = {0, 1}
         /\ key \notin SwitchKeys => OwnValues = build_setting_payload(OwnRegister)
<1>1. OwnRegister \in Nat
  BY OwnTable
<1>2. OwnRegister \in Registers
  BY OwnTable DEF Registers, AC_SWITCH, DC_SWITCH
<1>3. CASE key \in SwitchKeys
  <2>1. /\ OwnRegister \in {2011, 2012, 3007, 3008, 2014, 2017, 2207, 2208}
    BY <1>3, OwnTable DEF SwitchKeys, OutputKeys, EcoKeys, GridKeys
  <2>2. OwnRegister \in CONTROL_REGISTERS
    BY <2>1 DEF CONTROL_REGISTERS, AC_SWITCH, DC_SWITCH, AC_SWITCH_V2, DC_SWITCH_V2,
                DC_ECO_MODE, AC_ECO_MODE, CTRL_GRID, CTRL_FEED
  <2>3. OwnValues = {0, 1}
    BY <1>3, <2>2 DEF OwnValues, Accepted, build_switch_payload
  <2>4. build_setting_payload(OwnRegister) = {}
    BY <2>1, PayloadTable
  <2>5. Lowest(build_setting_payload(OwnRegister)) = 0
    BY <2>4, LowestOfNone, Zenon
  <2> QED BY <1>1, <1>2, <1>3, <2>3, <2>5 DEF RegisterValues
<1>4. CASE key \notin SwitchKeys
  <2>1. OwnRegister \in {2015, 2016, 2018, 2019, 2020}
    BY <1>4, OwnTable DEF SwitchKeys, OutputKeys, EcoKeys, GridKeys
  <2>2. OwnValues = build_setting_payload(OwnRegister)
    BY <1>4 DEF OwnValues, Accepted
  <2>3. build_setting_payload(OwnRegister) \subseteq 0..6000
    BY <2>1, PayloadTable
  <2>4. Lowest(build_setting_payload(OwnRegister)) \in build_setting_payload(OwnRegister)
    BY <1>1, <2>1, LowestValue
  <2> QED BY <1>1, <1>2, <1>4, <2>2, <2>3, <2>4 DEF RegisterValues
<1> QED BY <1>3, <1>4

------------------------------------------------------------------------------
(* Where the parsers look.                                                   *)

\* A field is within the data that its parser asks for.
Within(x) == x.at \in Nat /\ x.width \in Nat /\ x.over \in Nat /\ x.at + x.width <= x.over

\* Parts are read as far as the data goes, whatever their count claims.
LEMMA PartsWithin ==
  ASSUME NEW name, NEW from \in Nat, NEW stride \in Nat, NEW width \in Nat,
         NEW count \in Int, NEW length \in Nat,
         NEW x \in Parts(name, from, stride, width, count, length)
  PROVE  Within(x)
<1>1. PICK i \in 0..count - 1 :
        from + stride * i + width <= length /\ x = Field(name, from + stride * i, width, length)
  BY DEF Parts
<1>2. stride * i \in Nat
  OBVIOUS
<1> QED BY <1>1, <1>2 DEF Within, Field

\* The layouts of fixed length.
LEMMA FixedWithin ==
  ASSUME NEW x \in parse_home_data \cup parse_pack_main_info \cup parse_pack_item_info
                   \cup parse_pack_item_info_v2 \cup parse_inv_base_info \cup parse_inv_load_info
                   \cup parse_inv_inv_info \cup parse_inv_base_settings \cup parse_inv_adv_settings
  PROVE  Within(x)
<1> USE DEF Within, Byte, Word, Long, Field
<1>1. CASE x \in parse_home_data
  BY <1>1 DEF parse_home_data
<1>2. CASE x \in parse_pack_main_info
  BY <1>2 DEF parse_pack_main_info
<1>3. CASE x \in parse_pack_item_info
  BY <1>3 DEF parse_pack_item_info, PackRecord
<1>4. CASE x \in parse_pack_item_info_v2
  BY <1>4 DEF parse_pack_item_info_v2, PackRecord
<1>5. CASE x \in parse_inv_base_info \cup parse_inv_load_info \cup parse_inv_inv_info
  BY <1>5 DEF parse_inv_base_info, parse_inv_load_info, parse_inv_inv_info
<1>6. CASE x \in parse_inv_base_settings \cup parse_inv_adv_settings
  BY <1>6 DEF parse_inv_base_settings, parse_inv_adv_settings
<1> QED BY <1>1, <1>2, <1>3, <1>4, <1>5, <1>6

\* Those whose length depends on what the data claim.
LEMMA CountedWithin ==
  ASSUME NEW length \in Nat, NEW n \in Nat, NEW m \in Nat,
         NEW x \in parse_inv_pv_info(length, n, m) \cup parse_inv_grid_info(length, n)
                   \cup parse_pack_cells(length, n, m)
  PROVE  Within(x)
<1>1. CASE x \in parse_inv_pv_info(length, n, m)
  <2>1. CASE x \in Parts("pv_string", 20, 16, 10, n + m, length)
    BY <2>1, PartsWithin
  <2>2. CASE x \notin Parts("pv_string", 20, 16, 10, n + m, length)
    BY <1>1, <2>2 DEF parse_inv_pv_info, Within, Byte, Long, Field
  <2> QED BY <2>1, <2>2
<1>2. CASE x \in parse_inv_grid_info(length, n)
  <2>1. CASE x \in Parts("grid_phase", 26, 12, 8, n, length)
    BY <2>1, PartsWithin
  <2>2. CASE x \notin Parts("grid_phase", 26, 12, 8, n, length)
    BY <1>2, <2>2 DEF parse_inv_grid_info, Within, Byte, Word, Long, Field
  <2> QED BY <2>1, <2>2
<1>3. CASE x \in parse_pack_cells(length, n, m)
  <2>1. CASE x \in Parts("cell", 4, 2, 2, n, length)
    BY <2>1, PartsWithin
  <2>2. CASE x \in Parts("ntc", 4 + 2 * n, 2, 2, (m + 1) \div 2, length)
    <3>1. 4 + 2 * n \in Nat /\ (m + 1) \div 2 \in Int
      OBVIOUS
    <3> QED BY <2>2, <3>1, PartsWithin
  <2>3. CASE /\ x \notin Parts("cell", 4, 2, 2, n, length)
             /\ x \notin Parts("ntc", 4 + 2 * n, 2, 2, (m + 1) \div 2, length)
    BY <1>3, <2>3 DEF parse_pack_cells, Within, Byte, Field
  <2> QED BY <2>1, <2>2, <2>3
<1> QED BY <1>1, <1>2, <1>3

\* Whatever the block a frame is taken for, its length and the counts in it, its parser
\* stays within the data.
LEMMA LayoutWithin ==
  ASSUME NEW register, NEW f, f.size \in Nat, NEW n \in Nat,
         NEW x \in Reported(Layout(register, f, n), f.size)
  PROVE  x.at + x.width <= f.size
<1>1. x \in Layout(register, f, n) /\ x.over <= f.size
  BY DEF Reported
<1>2. \/ x \in parse_home_data \cup parse_pack_main_info \cup parse_pack_item_info
              \cup parse_pack_item_info_v2 \cup parse_inv_base_info \cup parse_inv_load_info
              \cup parse_inv_inv_info \cup parse_inv_base_settings \cup parse_inv_adv_settings
      \/ x \in parse_inv_pv_info(f.size, n, n) \cup parse_inv_grid_info(f.size, n)
              \cup parse_pack_cells(f.size, n, n)
  BY <1>1 DEF Layout
<1>3. Within(x)
  BY <1>2, FixedWithin, CountedWithin
<1> QED BY <1>1, <1>3 DEF Within

------------------------------------------------------------------------------
(* What a frame is taken for, and what it tells.                             *)

\* The lengths of the replies with all that is asked for.
LEMMA SizesAsked ==
  /\ SizeAsked(100) = 124 /\ SizeAsked(2000) = 60 /\ SizeAsked(2200) = 40
  /\ SizeAsked(6000) = 68 /\ SizeAsked(6100) \in {180, 208} /\ SizeAsked(6300) = 50
BY DEF SizeAsked, HOME_DATA, INV_BASE_SETTINGS, INV_ADV_SETTINGS, PACK_MAIN_INFO, PACK_ITEM_INFO,
       PACK_CELL_INFO, HOME_DATA_SIZE, INV_BASE_SETTINGS_SIZE, INV_ADV_SETTINGS_SIZE,
       PACK_MAIN_INFO_SIZE, PACK_ITEM_INFO_SIZE, PACK_ITEM_INFO_SIZE_V2, PACK_CELL_INFO_SIZE

\* The blocks that are read.
LEMMA ReadableTable ==
  Readable = {100, 2000, 2200, 6000, 6100, 6300}
BY DEF Readable, HOME_DATA, INV_BASE_SETTINGS, INV_ADV_SETTINGS, PACK_MAIN_INFO, PACK_ITEM_INFO,
       PACK_CELL_INFO

\* A reply is as long as what is asked for, or shorter.
LEMMA RepliesSized ==
  ASSUME NEW register \in Readable, NEW size \in ReplySizes(register)
  PROVE  /\ size \in Nat /\ SizeAsked(register) \in Nat
         /\ size = SizeAsked(register) \/ size < SizeAsked(register)
<1>1. SizeAsked(register) \in Nat
  BY ReadableTable, SizesAsked
<1>2. size = SizeAsked(register) \/ (size \in Short /\ size < SizeAsked(register))
  BY DEF ReplySizes
<1> QED BY <1>1, <1>2, ControlAssumption DEF ControlAssumption

\* A whole reply is known by its length, but for a pack record of 180 bytes; so is a cell block
\* in the range of lengths, and a push, which names its own block.
LEMMA RouteFits ==
  ASSUME NEW f \in Frames, FrameFits(f), ~Ambiguous(f)
  PROVE  AsSent(f)
<1>1. CASE f.fc = 16
  BY <1>1 DEF AsSent, Route
<1>2. CASE f.fc = 3
  <2>1. f.start \in {100, 2000, 2200, 6000, 6100, 6300} /\ f.size \in ReplySizes(f.start)
    BY <1>2, ReadableTable DEF FrameFits
  <2>2. /\ f.size # 180 /\ f.size \in Nat
        /\ f.size = SizeAsked(f.start) \/ (f.start = 6300 /\ f.size \in 42..58)
    BY <1>2, <2>1, RepliesSized, ReadableTable
       DEF Ambiguous, Cut, PACK_ITEM_INFO_SIZE, PACK_CELL_INFO, _CELL_SIZE_RANGE
  <2>3. \/ f.start = 100 /\ f.size = 124
        \/ f.start = 2000 /\ f.size = 60
        \/ f.start = 2200 /\ f.size = 40
        \/ f.start = 6000 /\ f.size = 68
        \/ f.start = 6100 /\ f.size = 208
        \/ f.start = 6300 /\ f.size \in 42..58
    BY <2>1, <2>2, SizesAsked
  <2>4. identify_block(f.size) = f.start
    BY <2>2, <2>3 DEF identify_block, _BLOCK_BY_SIZE, _CELL_SIZE_RANGE,
       HOME_DATA, INV_BASE_SETTINGS, INV_ADV_SETTINGS, PACK_MAIN_INFO, PACK_ITEM_INFO,
       PACK_CELL_INFO, HOME_DATA_SIZE, INV_BASE_SETTINGS_SIZE, INV_ADV_SETTINGS_SIZE,
       PACK_MAIN_INFO_SIZE, PACK_ITEM_INFO_SIZE_V2, None
  <2>5. f.start # None
    BY <2>1 DEF None
  <2> QED BY <1>2, <2>4, <2>5 DEF AsSent, Route
<1>3. CASE f.fc \notin {3, 16}
  BY <1>3 DEF AsSent
<1> QED BY <1>1, <1>2, <1>3

\* A settings block that is taken for another has fewer registers than were asked for.
LEMMA CutFits ==
  ASSUME NEW f \in Frames, FrameFits(f), f.fc \in {3, 16}, ~AsSent(f)
  PROVE  /\ f.fc = 3 /\ f.start \in {100, 2000, 2200, 6000, 6100, 6300} /\ f.size \in Nat
         /\ f.start = 2000 => f.size < 60
         /\ f.start = 2200 => f.size < 40
<1>1. f.fc = 3
  BY DEF AsSent, Route
<1>2. f.start \in Readable /\ f.size \in ReplySizes(f.start)
  BY <1>1 DEF FrameFits
<1>3. /\ f.size \in Nat /\ SizeAsked(f.start) \in Nat
      /\ f.size = SizeAsked(f.start) \/ f.size < SizeAsked(f.start)
  BY <1>2, RepliesSized
<1>4. f.size = 180 \/ f.size < SizeAsked(f.start)
  BY RouteFits DEF Ambiguous, Cut, PACK_ITEM_INFO_SIZE
<1> QED BY <1>1, <1>2, <1>3, <1>4, ReadableTable, SizesAsked

\* The registers of a device are far from the blocks of packs and of pushed switches.
LEMMA RegistersRange ==
  Registers \subseteq 2010..3008
BY DEF Registers, Destructive, PACK_SELECT, AC_SWITCH, DC_SWITCH

\* A byte of a frame is the setting where its register is, and tells nothing elsewhere.
LEMMA ByteTold ==
  ASSUME Setting, NEW f \in Frames, FrameFits(f), NEW at \in Nat,
         \/ f.start + at \div 2 = OwnRegister
         \/ f.start + at \div 2 \notin Registers \cup {48, 49}
  PROVE  At(f, at) \in {Junk} \cup OwnValues
<1>1. DOMAIN f.regs = Registers
  BY DEF Frames
<1>2. OwnRegister \notin {48, 49}
  BY OwnFacts, RegistersRange DEF Setting
<1>3. f.regs[OwnRegister] \in OwnValues
  BY DEF FrameFits
<1> QED BY <1>1, <1>2, <1>3 DEF At

\* The bytes of the settings blocks that are stored under the name of a setting are those of
\* its register.
LEMMA SettingByte ==
  ASSUME Setting, model \in V2Models,
         NEW x \in parse_inv_base_settings, x.name \in _MQTT_SWITCH_MAP
  PROVE  x.at \in Nat /\ 2000 + x.at \div 2 = OwnRegister
BY OwnTable DEF parse_inv_base_settings, Byte, Field, _MQTT_SWITCH_MAP

\* The same of the block of grid settings.
LEMMA AdvancedByte ==
  ASSUME Setting, model \in V2Models,
         NEW x \in parse_inv_adv_settings, x.name \in _MQTT_SWITCH_MAP
  PROVE  x.at \in Nat /\ 2200 + x.at \div 2 = OwnRegister
BY OwnTable DEF parse_inv_adv_settings, Byte, Field, _MQTT_SWITCH_MAP

\* A V1 device has none of these registers.
LEMMA SettingsOfV1 ==
  ASSUME model \notin V2Models,
         NEW start \in {INV_BASE_SETTINGS, INV_ADV_SETTINGS}, NEW at \in 0..50
  PROVE  start + at \div 2 \notin Registers \cup {48, 49}
BY DEF Registers, PACK_SELECT, AC_SWITCH, DC_SWITCH, INV_BASE_SETTINGS, INV_ADV_SETTINGS

\* An error frame is no block.
LEMMA ErrorIsNoBlock ==
  ASSUME NEW f, f.fc \in Errors, f.size = 0
  PROVE  Route(f).register = None
BY DEF Errors, Route, _UNSOLICITED_BY_LENGTH, HOME_DATA_SIZE, INV_BASE_SETTINGS_SIZE

\* The settings blocks tell the setting or nothing of it, and so does what is taken for one.
LEMMA SettingsTold ==
  ASSUME Setting, NEW f \in Frames, FrameFits(f), f.fc # 6
  PROVE  FromSettings(f) \subseteq {Junk} \cup OwnValues
<1> SUFFICES ASSUME NEW x \in SettingsLayout(Route(f).register, f),
                    x.name \in _MQTT_SWITCH_MAP, x.over <= f.size
             PROVE  At(f, x.at) \in {Junk} \cup OwnValues
  BY DEF FromSettings, Reported
<1>1. \/ Route(f).register = INV_BASE_SETTINGS /\ x \in parse_inv_base_settings
      \/ Route(f).register = INV_ADV_SETTINGS /\ x \in parse_inv_adv_settings
  BY DEF SettingsLayout, Layout, INV_BASE_SETTINGS, INV_ADV_SETTINGS, HOME_DATA, PACK_MAIN_INFO,
         PACK_ITEM_INFO, PACK_CELL_INFO, INV_BASE_INFO, INV_PV_INFO, INV_GRID_INFO,
         INV_LOAD_INFO, INV_INV_INFO
<1>2. x.at \in 0..50 /\ x.over \in Nat /\ (x.over < 40 => x.at < 26)
  BY <1>1 DEF parse_inv_base_settings, parse_inv_adv_settings, Byte, Field
<1>3. f.fc \in {3, 16}
  <2>1. f.fc \notin Errors
    BY <1>1, ErrorIsNoBlock DEF FrameFits, INV_BASE_SETTINGS, INV_ADV_SETTINGS, None
  <2> QED BY <2>1 DEF Frames
<1>4. CASE AsSent(f)
  <2>1. Route(f).register = f.start
    BY <1>3, <1>4 DEF AsSent
  <2>2. CASE model \in V2Models
    BY <1>1, <1>2, <2>1, <2>2, SettingByte, AdvancedByte, ByteTold
           DEF INV_BASE_SETTINGS, INV_ADV_SETTINGS
  <2>3. CASE model \notin V2Models
    BY <1>1, <1>2, <2>1, <2>3, SettingsOfV1, ByteTold
  <2> QED BY <2>2, <2>3
<1>5. CASE ~AsSent(f)
  <2>1. /\ f.fc = 3 /\ f.start \in {100, 2000, 2200, 6000, 6100, 6300} /\ f.size \in Nat
        /\ f.start = 2000 => f.size < 60
        /\ f.start = 2200 => f.size < 40
    BY <1>3, <1>5, CutFits
  <2>2. CASE f.start \in {100, 6000, 6100, 6300}
    <3>1. f.start + x.at \div 2 \notin Registers \cup {48, 49}
      BY <1>2, <2>2, RegistersRange
    <3> QED BY <1>2, <3>1, ByteTold
  <2>3. CASE f.start = 2000
    <3>1. CASE x \in parse_inv_base_settings /\ model \in V2Models
      BY <2>3, <3>1, SettingByte, ByteTold
    <3>2. CASE x \in parse_inv_adv_settings
      <4>1. x.at \in {15, 17}
        BY <3>2 DEF parse_inv_adv_settings, Byte, Field
      <4>2. f.start + x.at \div 2 \notin Registers \cup {48, 49}
        BY <2>3, <4>1, RegistersRange
      <4> QED BY <1>2, <4>2, ByteTold
    <3>3. CASE model \notin V2Models
      BY <1>2, <2>3, <3>3, SettingsOfV1, ByteTold DEF INV_BASE_SETTINGS
    <3> QED BY <1>1, <3>1, <3>2, <3>3
  <2>4. CASE f.start = 2200
    <3>1. CASE x \in parse_inv_adv_settings /\ model \in V2Models
      BY <2>4, <3>1, AdvancedByte, ByteTold
    <3>2. CASE x \in parse_inv_base_settings
      <4>1. x.at \in {21, 23, 25}
        <5>1. x.over < 40
          BY <1>2, <2>1, <2>4
        <5> QED BY <3>2, <5>1 DEF parse_inv_base_settings, Byte, Field
      <4>2. f.start + x.at \div 2 \in 2210..2212
        BY <2>4, <4>1
      <4>3. \A r \in 2210..2212 : r \notin Registers \cup {48, 49}
        BY DEF Registers, Destructive, PACK_SELECT, AC_SWITCH, DC_SWITCH
      <4> QED BY <1>2, <4>2, <4>3, ByteTold
    <3>3. CASE model \notin V2Models
      BY <1>2, <2>4, <3>3, SettingsOfV1, ByteTold DEF INV_ADV_SETTINGS
    <3> QED BY <1>1, <3>1, <3>2, <3>3
  <2> QED BY <2>1, <2>2, <2>3, <2>4
<1> QED BY <1>4, <1>5

\* So do the ctrl bits of homeData,
LEMMA HomeDataTold ==
  ASSUME Setting, NEW f \in Frames, FrameFits(f)
  PROVE  FromHomeData(f) \subseteq {Junk} \cup OwnValues
<1> SUFFICES ASSUME NEW b \in DOMAIN CTRL_STATUS_BITS \cap _MQTT_SWITCH_MAP
             PROVE  CtrlBit(f, CTRL_STATUS_BITS[b]) \in {Junk} \cup OwnValues
  BY DEF FromHomeData
<1>1. CASE model = "EB3A"
  <2>1. AC_SWITCH + CTRL_STATUS_BITS[b] = OwnRegister
    BY <1>1, OwnTable DEF CTRL_STATUS_BITS, _MQTT_SWITCH_MAP, V2Models, AC_SWITCH
  <2>2. f.regs[OwnRegister] \in OwnValues
    BY DEF FrameFits
  <2> QED BY <2>1, <2>2 DEF CtrlBit
<1>2. CASE model # "EB3A"
  BY <1>2 DEF CtrlBit
<1> QED BY <1>1, <1>2

\* the registers an AC300 pushes,
LEMMA PushTold ==
  ASSUME Setting, NEW f \in Frames, FrameFits(f)
  PROVE  FromPush(f) \subseteq {Junk} \cup OwnValues
<1> SUFFICES ASSUME NEW e \in _AC300_REGISTER_MAP, e[2] \in _MQTT_SWITCH_MAP, e[1] >= f.start
             PROVE  At(f, 2 * (e[1] - f.start) + 1) \in {Junk} \cup OwnValues
  <2>1. f.start \in Nat /\ f.size \in Nat
    BY DEF Frames
  <2>2. \A e \in _AC300_REGISTER_MAP : e[1] \in Nat
    BY DEF _AC300_REGISTER_MAP, AC_SWITCH, DC_SWITCH
  <2> QED BY <2>1, <2>2 DEF FromPush, parse_fc16_registers
<1> DEFINE at == 2 * (e[1] - f.start) + 1
<1>1. f.start \in Nat /\ e[1] \in Nat
  BY DEF Frames, _AC300_REGISTER_MAP, AC_SWITCH, DC_SWITCH
<1>2. at \in Nat /\ f.start + at \div 2 = e[1]
  <2> DEFINE d == e[1] - f.start
  <2>1. d \in Nat /\ f.start + d = e[1]
    BY <1>1
  <2> HIDE DEF d
  <2>2. (2 * d + 1) \div 2 = d
    BY <2>1
  <2>3. at = 2 * d + 1
    BY DEF d
  <2> QED BY <2>1, <2>2, <2>3
<1>3. \/ key = "ac_switch" /\ e[1] \in {48, 3007}
      \/ key = "dc_switch" /\ e[1] \in {49, 3008}
  BY OwnTable DEF _AC300_REGISTER_MAP, _MQTT_SWITCH_MAP, AC_SWITCH, DC_SWITCH
<1>4. CASE e[1] \in {3007, 3008}
  <2>1. e[1] = OwnRegister \/ e[1] \notin Registers \cup {48, 49}
    BY <1>3, <1>4, OwnTable DEF Registers, Destructive
  <2> QED BY <1>2, <2>1, ByteTold
<1>5. CASE e[1] \in {48, 49}
  <2>1. f.regs[OwnRegister] \in OwnValues /\ DOMAIN f.regs = Registers
    BY DEF FrameFits, Frames
  <2>2. e[1] \notin Registers
    BY <1>5, RegistersRange
  <2>3. model = "AC300" => e[1] - 48 + AC_SWITCH = OwnRegister
    BY <1>3, <1>5, OwnTable DEF AC_SWITCH, V2Models
  <2> HIDE DEF at
  <2> QED BY <1>2, <2>1, <2>2, <2>3 DEF At, at
<1> QED BY <1>3, <1>4, <1>5

\* and the echo of a write.
LEMMA FrameTold ==
  ASSUME Setting, NEW f \in Frames, FrameFits(f)
  PROVE  Told(f) \subseteq {Junk} \cup OwnValues
<1>1. CASE f.fc = 6
  BY <1>1 DEF Told, FromEcho, FrameFits
<1>2. CASE f.fc # 6
  BY <1>2, SettingsTold, HomeDataTold, PushTold DEF Told
<1> QED BY <1>1, <1>2

------------------------------------------------------------------------------
(* What is sent.                                                             *)

Versions == version \in {None, 0, 1000, 2015}

\* The profile in use: a V1 device's is always its own, an AP300's too.
LEMMA ProfileTable ==
  ASSUME Setting, Versions, Generations
  PROVE  /\ model \notin V2Models => profile_for = AC300_PROFILE
         /\ model = "AP300" => profile_for = AP300_PROFILE
         /\ model = "Elite200V2" => profile_for \in {AC300_PROFILE, GENERIC_V2_PROFILE}
<1>1. CASE model = "AC300"
  BY <1>1 DEF V2Models, profile_for, get_profile
<1>2. CASE model = "AP300"
  BY <1>2 DEF V2Models, profile_for, get_profile
<1>3. CASE version = 2015 /\ model \notin {"AC300", "AP300"}
  <2>1. profile_for = GENERIC_V2_PROFILE
    BY <1>3 DEF profile_for, get_profile, PROTOCOL_VER_V2, None
  <2>2. model = "Elite200V2"
    BY <1>3 DEF Setting, Generations, AllModels, V2Models
  <2> QED BY <2>1, <2>2 DEF V2Models
<1>4. CASE version # 2015 /\ model \notin {"AC300", "AP300"}
  <2>1. profile_for = AC300_PROFILE
    BY <1>4 DEF Versions, profile_for, get_profile, PROTOCOL_VER_V2, None
  <2> QED BY <1>4, <2>1
<1> QED BY <1>1, <1>2, <1>3, <1>4

\* How it talks to a device.
LEMMA ProfileTalks ==
  ASSUME Setting, Versions, Generations
  PROVE  /\ profile_for.envelope \in BOOLEAN
         /\ profile_for.slave_addr = IF profile_for.envelope THEN 0 ELSE 1
         /\ profile_for.envelope => model \in V2Models
<1>1. model \notin V2Models \/ model = "AP300" \/ model = "Elite200V2"
  BY DEF V2Models
<1>2. \/ profile_for = AC300_PROFILE
      \/ model \in V2Models /\ profile_for \in {AP300_PROFILE, GENERIC_V2_PROFILE}
  BY <1>1, ProfileTable, Zenon DEF Setting, AllModels, V2Models
<1>3. /\ AC300_PROFILE.envelope = FALSE /\ AC300_PROFILE.slave_addr = 1
      /\ AP300_PROFILE.envelope = TRUE /\ AP300_PROFILE.slave_addr = 0
      /\ GENERIC_V2_PROFILE.envelope = TRUE /\ GENERIC_V2_PROFILE.slave_addr = 0
  BY DEF AC300_PROFILE, AP300_PROFILE, GENERIC_V2_PROFILE
<1> QED BY <1>2, <1>3

\* The values an entity's builder accepts are those of the setting, and the register it
\* writes is that of the setting, unless the device does not understand the frame.
LEMMA TargetFits ==
  ASSUME Setting, Versions, Generations, entity = "made",
         NEW value \in Accepted(Target(profile_for))
  PROVE  /\ Target(profile_for) \in Nat /\ value \in OwnValues
         /\ profile_for.envelope <=> model \in V2Models => Target(profile_for) = OwnRegister
<1>1. CASE key \in SwitchKeys
  <2>1. Target(profile_for) \in CONTROL_REGISTERS /\ value \in {0, 1}
    BY <1>1 DEF Accepted, build_switch_payload
  <2>2. key \notin NumberKeys
    BY <1>1 DEF SwitchKeys, OutputKeys, EcoKeys, GridKeys, NumberKeys, ECO_NUMBER_DESCRIPTIONS
  <2>3. Target(profile_for) \in Nat
    BY <2>1 DEF CONTROL_REGISTERS, AC_SWITCH, DC_SWITCH, AC_SWITCH_V2, DC_SWITCH_V2, DC_ECO_MODE,
                AC_ECO_MODE, CTRL_GRID, CTRL_FEED
  <2>4. key \in DOMAIN profile_for.regs /\ Target(profile_for) = profile_for.regs[key]
    BY <2>2, <2>3 DEF Target, None
  <2>5. ASSUME model \notin V2Models
        PROVE  Target(profile_for) = OwnRegister
    <3>1. profile_for = AC300_PROFILE
      BY <2>5, ProfileTable
    <3>2. key \in DOMAIN AC300_PROFILE.regs /\ Target(profile_for) = AC300_PROFILE.regs[key]
      BY <2>4, <3>1, Zenon
    <3>3. CASE key = "ac_switch"
      BY <2>5, <3>2, <3>3 DEF AC300_PROFILE, OwnRegister, AC_SWITCH
    <3>4. CASE key = "dc_switch"
      BY <2>5, <3>2, <3>4 DEF AC300_PROFILE, OwnRegister, DC_SWITCH
    <3> QED BY <3>2, <3>3, <3>4 DEF AC300_PROFILE
  <2>6. ASSUME model = "AP300"
        PROVE  Target(profile_for) = OwnRegister
    <3>1. profile_for = AP300_PROFILE
      BY <2>6, ProfileTable
    <3>2. Target(profile_for) = AP300_PROFILE.regs[key]
      BY <2>4, <3>1, Zenon
    <3>3. /\ model \in V2Models
          /\ key \in {"ac_switch", "dc_switch", "dc_eco", "ac_eco", "grid_charge", "feed_in"}
      BY <1>1, <2>6 DEF V2Models, SwitchKeys, OutputKeys, EcoKeys, GridKeys
    <3> QED BY <3>2, <3>3 DEF AP300_PROFILE, OwnRegister, AC_SWITCH_V2, DC_SWITCH_V2, DC_ECO_MODE,
                             AC_ECO_MODE, CTRL_GRID, CTRL_FEED
  <2>7. ASSUME model = "Elite200V2"
        PROVE  ~(profile_for.envelope <=> model \in V2Models)
    <3>1. CASE profile_for = AC300_PROFILE
      BY <2>7, <3>1 DEF V2Models, AC300_PROFILE
    <3>2. CASE profile_for = GENERIC_V2_PROFILE
      BY <2>4, <3>2 DEF GENERIC_V2_PROFILE
    <3> QED BY <2>7, <3>1, <3>2, ProfileTable
  <2>8. value \in OwnValues
    BY <1>1, <2>1, OwnFacts
  <2> QED BY <2>3, <2>5, <2>6, <2>7, <2>8 DEF Setting, AllModels, V2Models
<1>2. CASE key \notin SwitchKeys
  <2>1. model = "AP300"
    BY <1>2, OwnTable DEF Generations, SwitchKeys, OutputKeys, AllModels, V2Models
  <2>2. Target(profile_for) = OwnRegister
    BY <1>2, <2>1, ProfileTable, OwnTable DEF V2Models, Target, NumberKeys,
       ECO_NUMBER_DESCRIPTIONS, SwitchKeys, OutputKeys, EcoKeys, GridKeys, AP300_PROFILE,
       DC_ECO_AUTO_OFF_HOURS, DC_ECO_POWER, AC_ECO_AUTO_OFF_HOURS, AC_ECO_POWER, CHARGING_MODE
  <2>3. value \in OwnValues
    BY <2>2 DEF OwnValues
  <2> QED BY <2>2, <2>3, OwnFacts
<1> QED BY <1>1, <1>2

------------------------------------------------------------------------------
(* The parts of the invariant that a step leaves alone.                      *)

\* IInv's parts have all that the lemmas ask of model, setting and versions.
LEMMA SettingHolds ==
  ASSUME ControlAssumption, TypeOK, Generations
  PROVE  Setting /\ Versions
BY DEF ControlAssumption, TypeOK, Generations, Setting, Versions

\* The entity that is followed and the model never change: nor does what follows from them.
LEMMA FixedHolds ==
  ASSUME UNCHANGED fixed
  PROVE  /\ Registers' = Registers /\ OwnRegister' = OwnRegister /\ OwnValues' = OwnValues
         /\ Values' = Values /\ Frames' = Frames
<1>1. model' = model /\ key' = key
  BY DEF fixed
<1>2. Registers' = Registers
  BY <1>1 DEF Registers
<1>3. OwnRegister' = OwnRegister
  BY <1>1 DEF OwnRegister
<1>4. OwnValues' = OwnValues
  BY <1>1, <1>3 DEF OwnValues, Accepted
<1>5. Values' = Values
  BY <1>4 DEF Values
<1>6. Frames' = Frames
  BY <1>2 DEF Frames
<1> QED BY <1>2, <1>3, <1>4, <1>5, <1>6

\* What fits goes on to fit while model, setting and wishes are the same.
LEMMA FitsHold ==
  ASSUME UNCHANGED fixed, NEW x
  PROVE  /\ Understands(x)' = Understands(x) /\ FrameFits(x)' = FrameFits(x)
         /\ UNCHANGED wanted => MessageFits(x)' = MessageFits(x)
<1>1. model' = model /\ key' = key
  BY DEF fixed
<1>2. OwnRegister' = OwnRegister /\ OwnValues' = OwnValues
  BY FixedHolds
<1>3. Understands(x)' = Understands(x)
  BY <1>1 DEF Understands
<1>4. FrameFits(x)' = FrameFits(x)
  BY <1>1, <1>2 DEF FrameFits, ReplySizes, SizeAsked
<1>5. UNCHANGED wanted => MessageFits(x)' = MessageFits(x)
  BY <1>2, <1>3 DEF MessageFits
<1> QED BY <1>3, <1>4, <1>5

\* What is known of the generation changes with a refresh or a set-up only.
LEMMA GenerationsHold ==
  ASSUME Generations, UNCHANGED <<fixed, version, entity>>
  PROVE  Generations'
<1>1. OwnRegister' = OwnRegister
  BY FixedHolds
<1> QED BY <1>1 DEF Generations, fixed

\* Messages under way go on to fit while none is added and nothing is asked for.
LEMMA MessagesHold ==
  ASSUME MessagesFit, UNCHANGED <<fixed, outbound, wanted>>
  PROVE  MessagesFit'
BY FitsHold DEF MessagesFit

\* Frames under way go on to fit while none is added and no register changes.
LEMMA FramesHold ==
  ASSUME FramesFit, UNCHANGED <<fixed, inbound, regs>>
  PROVE  FramesFit'
BY FitsHold, FixedHolds DEF FramesFit

------------------------------------------------------------------------------
(* Messages and frames come and go.                                          *)

\* The device takes the first message, which fits.
LEMMA FirstMessage ==
  ASSUME TypeOK, MessagesFit, outbound # <<>>
  PROVE  Head(outbound) \in Messages /\ MessageFits(Head(outbound))
<1>1. outbound \in Seq(Messages)
  BY DEF TypeOK
<1>2. 1 \in 1..Len(outbound) /\ Head(outbound) = outbound[1] /\ outbound[1] \in Messages
  BY <1>1
<1> QED BY <1>2 DEF MessagesFit

\* Those after it stay as they were.
LEMMA MessageTaken ==
  ASSUME TypeOK, MessagesFit, outbound # <<>>, outbound' = Tail(outbound), UNCHANGED <<fixed, wanted>>
  PROVE  outbound' \in Seq(Messages) /\ Len(outbound') <= MaxOnWire /\ MessagesFit'
<1>1. outbound \in Seq(Messages) /\ Len(outbound) \in Nat /\ Len(outbound) <= MaxOnWire
  BY DEF TypeOK
<1>2. /\ outbound' \in Seq(Messages) /\ Len(outbound') = Len(outbound) - 1
      /\ \A i \in 1..Len(outbound') : outbound'[i] = outbound[i + 1] /\ i + 1 \in 1..Len(outbound)
  BY <1>1
<1>3. Len(outbound') <= MaxOnWire
  BY <1>1, <1>2, ControlAssumption DEF ControlAssumption
<1>4. \A i \in 1..Len(outbound') : MessageFits(outbound'[i])
  BY <1>2 DEF MessagesFit
<1>5. MessagesFit'
  BY <1>4, FitsHold DEF MessagesFit
<1> QED BY <1>2, <1>3, <1>5

\* A message that fits may be sent.
LEMMA MessageSent ==
  ASSUME TypeOK, MessagesFit, Len(outbound) < MaxOnWire, NEW m \in Messages, MessageFits(m),
         outbound' = Append(outbound, m), UNCHANGED <<fixed, wanted>>
  PROVE  outbound' \in Seq(Messages) /\ Len(outbound') <= MaxOnWire /\ MessagesFit'
<1>1. outbound \in Seq(Messages) /\ Len(outbound) \in Nat
  BY DEF TypeOK
<1>2. /\ outbound' \in Seq(Messages) /\ Len(outbound') = Len(outbound) + 1
      /\ \A i \in 1..Len(outbound') :
            outbound'[i] = IF i \in 1..Len(outbound) THEN outbound[i] ELSE m
  BY <1>1
<1>3. Len(outbound') <= MaxOnWire
  BY <1>1, <1>2, ControlAssumption DEF ControlAssumption
<1>4. \A i \in 1..Len(outbound') : MessageFits(outbound'[i])
  BY <1>2 DEF MessagesFit
<1>5. MessagesFit'
  BY <1>4, FitsHold DEF MessagesFit
<1> QED BY <1>2, <1>3, <1>5

\* _handle_mqtt_message takes the first frame, which fits.
LEMMA FirstFrame ==
  ASSUME TypeOK, FramesFit, inbound # <<>>
  PROVE  Head(inbound) \in Frames /\ FrameFits(Head(inbound))
<1>1. inbound \in Seq(Frames)
  BY DEF TypeOK
<1>2. 1 \in 1..Len(inbound) /\ Head(inbound) = inbound[1] /\ inbound[1] \in Frames
  BY <1>1
<1> QED BY <1>2 DEF FramesFit

\* Those after it stay as they were.
LEMMA FrameTaken ==
  ASSUME TypeOK, FramesFit, inbound # <<>>, inbound' = Tail(inbound), UNCHANGED <<fixed, regs>>
  PROVE  inbound' \in Seq(Frames) /\ Len(inbound') <= MaxOnWire /\ FramesFit'
<1>1. inbound \in Seq(Frames) /\ Len(inbound) \in Nat /\ Len(inbound) <= MaxOnWire
  BY DEF TypeOK
<1>2. /\ inbound' \in Seq(Frames) /\ Len(inbound') = Len(inbound) - 1
      /\ \A i \in 1..Len(inbound') : inbound'[i] = inbound[i + 1] /\ i + 1 \in 1..Len(inbound)
  BY <1>1
<1>3. Len(inbound') <= MaxOnWire
  BY <1>1, <1>2, ControlAssumption DEF ControlAssumption
<1>4. \A i \in 1..Len(inbound') : FrameFits(inbound'[i])
  BY <1>2 DEF FramesFit
<1>5. FramesFit'
  BY <1>4, FitsHold, FixedHolds DEF FramesFit
<1> QED BY <1>2, <1>3, <1>5

\* A frame that fits may be sent, with a write applied or not.
LEMMA FrameSent ==
  ASSUME TypeOK, FramesFit, Len(inbound) < MaxOnWire, NEW f \in Frames, FrameFits(f),
         inbound' = Append(inbound, f), UNCHANGED fixed, regs'[OwnRegister] \in OwnValues
  PROVE  inbound' \in Seq(Frames) /\ Len(inbound') <= MaxOnWire /\ FramesFit'
<1>1. inbound \in Seq(Frames) /\ Len(inbound) \in Nat
  BY DEF TypeOK
<1>2. /\ inbound' \in Seq(Frames) /\ Len(inbound') = Len(inbound) + 1
      /\ \A i \in 1..Len(inbound') :
            inbound'[i] = IF i \in 1..Len(inbound) THEN inbound[i] ELSE f
  BY <1>1
<1>3. Len(inbound') <= MaxOnWire
  BY <1>1, <1>2, ControlAssumption DEF ControlAssumption
<1>4. \A i \in 1..Len(inbound') : FrameFits(inbound'[i])
  BY <1>2 DEF FramesFit
<1>5. FramesFit'
  BY <1>4, FitsHold, FixedHolds DEF FramesFit
<1> QED BY <1>2, <1>3, <1>5

\* A message changes the setting or nothing, and to what it asks for.
LEMMA AppliedFits ==
  ASSUME TypeOK, Generations, FramesFit, NEW m \in Messages, MessageFits(m)
  PROVE  /\ Applied(m) \in [Registers -> RegisterValues]
         /\ Applied(m)[OwnRegister] \in OwnValues
         /\ \A r \in DOMAIN regs : Applied(m)[r] # regs[r]
               => m.fc = 6 /\ r = OwnRegister /\ Applied(m)[r] = m.value
<1>1. regs \in [Registers -> RegisterValues]
  BY DEF TypeOK
<1>2. Setting
  BY SettingHolds, ControlAssumption
<1>3. OwnRegister \in Registers /\ \A v \in OwnValues : v \in RegisterValues
  BY <1>2, OwnFacts
<1>4. regs[OwnRegister] \in OwnValues
  BY DEF FramesFit
<1>5. CASE Understands(m) /\ m.fc = 6
  <2>1. m.register = OwnRegister /\ m.value \in OwnValues
    BY <1>5 DEF MessageFits
  <2>2. Applied(m) = [regs EXCEPT ![OwnRegister] = m.value]
    BY <1>3, <1>5, <2>1, Zenon DEF Applied
  <2>3. m.value \in RegisterValues
    BY <1>3, <2>1
  <2>4. [regs EXCEPT ![OwnRegister] = m.value] \in [Registers -> RegisterValues]
    BY <1>1, <2>3
  <2>5. \A r \in DOMAIN regs :
           [regs EXCEPT ![OwnRegister] = m.value][r] = IF r = OwnRegister THEN m.value ELSE regs[r]
    BY <1>1
  <2>6. OwnRegister \in DOMAIN regs
    BY <1>1, <1>3
  <2>7. Applied(m)[OwnRegister] \in OwnValues
    BY <2>1, <2>2, <2>5, <2>6, Zenon
  <2> QED BY <1>5, <2>2, <2>4, <2>5, <2>7, Zenon
<1>6. CASE ~(Understands(m) /\ m.fc = 6)
  <2>1. Applied(m) = regs
    BY <1>6, Zenon DEF Applied
  <2> QED BY <1>1, <1>4, <2>1, Zenon
<1> QED BY <1>5, <1>6

------------------------------------------------------------------------------
(* The inductive invariant.                                                  *)

\* Any model, setting and registers that the device may start with satisfy IInv.
LEMMA InitIInv ==
  ASSUME Init
  PROVE  IInv
<1> USE ControlAssumption DEF ControlAssumption
<1>1. /\ model \in AllModels /\ key \in Keys /\ OwnRegister # None
  BY DEF Init
<1>2. Setting
  BY <1>1 DEF Setting
<1>3. Generations
  BY DEF Init, Generations, None
<1>4. \A r \in Registers : Lowest(build_setting_payload(r)) \in RegisterValues
  <2>1. \A r \in Registers : r \in Int
    BY DEF Registers, Destructive, PACK_SELECT, AC_SWITCH, DC_SWITCH
  <2> QED BY <2>1, LowestValue
<1>5. regs \in [Registers -> RegisterValues]
  BY <1>4 DEF Init
<1>6. regs[OwnRegister] \in OwnValues
  <2>1. /\ OwnRegister \in Registers
        /\ Lowest(build_setting_payload(OwnRegister)) \in OwnValues
    BY <1>2, OwnFacts
  <2>2. regs = [r \in Registers |-> Lowest(build_setting_payload(r))]
    BY DEF Init
  <2> HIDE DEF Init
  <2> QED BY <2>1, <2>2, Zenon
<1>7. TypeOK
  <2>1. /\ model \in Models /\ key \in Followed
        /\ version = None /\ listed = FALSE /\ entity = "wait" /\ link = FALSE
        /\ fc16 = FALSE /\ streaming = FALSE /\ regular = FALSE /\ unsupported = {}
        /\ pending = NoRequest /\ outbound = <<>> /\ inbound = <<>>
        /\ overlay = None /\ data = None /\ cache = None /\ shared = FALSE /\ attr = None
        /\ wanted = <<>>
    BY DEF Init
  <2>2. None \in Values
    BY DEF Values
  <2>3. /\ <<>> \in Seq(Messages) /\ <<>> \in Seq(Frames) /\ <<>> \in Seq(UserValues)
        /\ Len(<<>>) <= MaxOnWire /\ Len(<<>>) <= MaxWrites
    OBVIOUS
  <2> HIDE DEF Init
  <2> QED BY <1>5, <2>1, <2>2, <2>3 DEF TypeOK
<1>8. MessagesFit /\ FramesFit
  <2>1. outbound = <<>> /\ inbound = <<>>
    BY DEF Init
  <2>2. 1..Len(<<>>) = {}
    OBVIOUS
  <2> QED BY <1>6, <2>1, <2>2, Zenon DEF MessagesFit, FramesFit
<1> QED BY <1>3, <1>7, <1>8 DEF IInv

\* What each action keeps.
LEMMA RefreshIInv ==
  ASSUME IInv, RefreshLists
  PROVE  IInv'
<1> USE DEF IInv, RefreshLists
<1>1. UNCHANGED fixed
  OBVIOUS
<1>2. Setting
  BY SettingHolds, ControlAssumption
<1>3. version' \in {0, 1000, 2015} /\ (version' = 2015 => model \in V2Models)
      /\ (version' = 1000 => model \notin V2Models)
  OBVIOUS
<1>4. Generations'
  BY <1>1, <1>3, FixedHolds DEF Generations, fixed
<1>5. data' \in Values /\ cache' \in Values
  <2>1. overlay \in Values /\ regs[OwnRegister] \in Values /\ None \in Values
    BY DEF TypeOK, FramesFit, Values
  <2> QED BY <2>1
<1>6. TypeOK'
  BY <1>1, <1>3, <1>5, FixedHolds DEF TypeOK, fixed, gates
<1>7. MessagesFit' /\ FramesFit'
  BY <1>1, MessagesHold, FramesHold
<1> QED BY <1>4, <1>6, <1>7

\* What is put back was shown before.
LEMMA CachedIInv ==
  ASSUME IInv, RefreshCached
  PROVE  IInv'
<1> USE DEF IInv, RefreshCached
<1>1. TypeOK'
  BY FixedHolds DEF TypeOK, fixed, known, gates
<1>2. Generations' /\ MessagesFit' /\ FramesFit'
  BY GenerationsHold, MessagesHold, FramesHold DEF known
<1> QED BY <1>1, <1>2

\* async_setup_entry of the platform makes an entity, or none, as the profile says.
LEMMA SetUpIInv ==
  ASSUME IInv, SetUp
  PROVE  IInv'
<1> USE DEF IInv, SetUp
<1>1. UNCHANGED fixed /\ UNCHANGED version
  OBVIOUS
<1>2. Setting /\ Versions
  BY SettingHolds, ControlAssumption
<1>3. entity' \in {"made", "none"} /\ (entity' = "made" => Offers(profile_for))
  OBVIOUS
<1>4. ASSUME model = "Elite200V2", Offers(profile_for)
      PROVE  key \in OutputKeys
  <2>1. CASE profile_for = AC300_PROFILE
    <3>1. DOMAIN AC300_PROFILE.regs = {"ac_switch", "dc_switch"}
      BY DEF AC300_PROFILE
    <3>2. DOMAIN profile_for.regs = {"ac_switch", "dc_switch"}
      BY <2>1, <3>1, Zenon
    <3> QED BY <1>4, <3>2 DEF Offers, has_eco, has_grid_control, Names
  <2>2. CASE profile_for = GENERIC_V2_PROFILE
    <3>1. DOMAIN GENERIC_V2_PROFILE.regs = {}
      BY DEF GENERIC_V2_PROFILE
    <3>2. DOMAIN profile_for.regs = {}
      BY <2>2, <3>1, Zenon
    <3> QED BY <1>4, <3>2 DEF Offers, has_eco, controllable, Names
  <2> QED BY <1>2, <1>4, <2>1, <2>2, ProfileTable
<1>5. Generations'
  BY <1>1, <1>3, <1>4, FixedHolds DEF Generations, fixed
<1>6. TypeOK'
  BY <1>1, <1>3, FixedHolds DEF TypeOK, fixed, shown, gates
<1>7. MessagesFit' /\ FramesFit'
  BY <1>1, MessagesHold, FramesHold
<1> QED BY <1>5, <1>6, <1>7

\* A connection that is lost takes what is under way with it.
LEMMA LinkIInv ==
  ASSUME IInv, LinkUp \/ LinkDown
  PROVE  IInv'
<1> USE DEF IInv
<1>1. /\ UNCHANGED fixed /\ UNCHANGED known /\ UNCHANGED fc16 /\ UNCHANGED streaming
      /\ regular' \in {regular, FALSE} /\ UNCHANGED unsupported /\ UNCHANGED regs
      /\ UNCHANGED shown /\ UNCHANGED wanted /\ link' \in BOOLEAN
      /\ \/ outbound' = <<>> /\ inbound' = <<>> /\ pending' = NoRequest
         \/ UNCHANGED outbound /\ UNCHANGED inbound /\ UNCHANGED pending
  BY DEF LinkUp, LinkDown, gates
<1>2. Generations' /\ regular' \in BOOLEAN
  <2>1. regular \in BOOLEAN /\ FALSE \in BOOLEAN
    BY DEF TypeOK
  <2> QED BY <1>1, <2>1, GenerationsHold, Zenon DEF known
<1>3. CASE UNCHANGED outbound /\ UNCHANGED inbound /\ UNCHANGED pending
  <2>1. TypeOK'
    BY <1>1, <1>2, <1>3, FixedHolds DEF TypeOK, fixed, known, shown
  <2> QED BY <1>1, <1>2, <1>3, <2>1, MessagesHold, FramesHold
<1>4. CASE outbound' = <<>> /\ inbound' = <<>> /\ pending' = NoRequest
  <2>1. /\ <<>> \in Seq(Messages) /\ <<>> \in Seq(Frames)
        /\ Len(<<>>) <= MaxOnWire /\ 1..Len(<<>>) = {}
    BY ControlAssumption DEF ControlAssumption
  <2>2. TypeOK'
    BY <1>1, <1>2, <1>4, <2>1, FixedHolds DEF TypeOK, fixed, known, shown
  <2>3. regs'[OwnRegister'] \in OwnValues'
    BY <1>1, FixedHolds DEF FramesFit
  <2>4. MessagesFit' /\ FramesFit'
    BY <1>4, <2>1, <2>3, Zenon DEF MessagesFit, FramesFit
  <2> QED BY <1>2, <2>2, <2>4
<1> QED BY <1>1, <1>3, <1>4

\* A request that ends leaves messages and frames alone.
LEMMA RequestEndsIInv ==
  ASSUME IInv, RequestEnds
  PROVE  IInv'
<1> USE DEF IInv, RequestEnds
<1>1. TypeOK'
  BY FixedHolds DEF TypeOK, fixed, known, shown, gates
<1>2. Generations' /\ MessagesFit' /\ FramesFit'
  BY GenerationsHold, MessagesHold, FramesHold DEF known
<1> QED BY <1>1, <1>2

\* The gates of the polling loop leave messages and frames alone.
LEMMA GatesIInv ==
  ASSUME IInv, StreamEnds \/ CycleBegins
  PROVE  IInv'
<1> USE DEF IInv
<1>1. /\ UNCHANGED fixed /\ UNCHANGED known /\ UNCHANGED link /\ UNCHANGED fc16
      /\ UNCHANGED unsupported /\ UNCHANGED pending /\ UNCHANGED outbound /\ UNCHANGED inbound
      /\ UNCHANGED regs /\ UNCHANGED shown /\ UNCHANGED wanted
      /\ streaming' \in BOOLEAN /\ regular' \in BOOLEAN
  <2>1. streaming \in BOOLEAN /\ regular \in BOOLEAN
    BY DEF TypeOK
  <2>2. CASE StreamEnds
    BY <2>1, <2>2 DEF StreamEnds
  <2>3. CASE CycleBegins
    BY <2>1, <2>3 DEF CycleBegins
  <2> QED BY <2>2, <2>3
<1>2. TypeOK'
  BY <1>1, FixedHolds DEF TypeOK, fixed, known, shown
<1>3. Generations' /\ MessagesFit' /\ FramesFit'
  BY <1>1, GenerationsHold, MessagesHold, FramesHold DEF known
<1> QED BY <1>2, <1>3

\* A write sends a message that fits, and shows and remembers its value.
LEMMA WriteFits ==
  ASSUME IInv, NEW value \in UserValues, UserWrites(value)
  PROVE  LET m == WriteMessage(profile_for, Target(profile_for), value)
         IN /\ m \in Messages /\ m.fc = 6 /\ m.value = value /\ value \in OwnValues
            /\ Understands(m) => m.register = OwnRegister
            /\ outbound' = Append(outbound, m)
<1> DEFINE m == WriteMessage(profile_for, Target(profile_for), value)
<1>1. Setting /\ Versions /\ Generations
  BY SettingHolds, ControlAssumption DEF IInv
<1>2. entity = "made" /\ value \in Accepted(Target(profile_for)) /\ outbound' = Append(outbound, m)
  BY DEF UserWrites
<1>3. /\ Target(profile_for) \in Nat /\ value \in OwnValues
      /\ profile_for.envelope <=> model \in V2Models => Target(profile_for) = OwnRegister
  BY <1>1, <1>2, TargetFits
<1>4. /\ profile_for.envelope \in BOOLEAN
      /\ profile_for.slave_addr = IF profile_for.envelope THEN 0 ELSE 1
  BY <1>1, ProfileTalks
<1>5. /\ m.envelope = profile_for.envelope /\ m.slave = profile_for.slave_addr /\ m.fc = 6
      /\ m.register = Target(profile_for) /\ m.value = value
  BY DEF WriteMessage, Message
<1>6. m \in Messages
  BY <1>3, <1>4 DEF WriteMessage, Message, Messages
<1>7. Understands(m) => m.register = OwnRegister
  BY <1>3, <1>4, <1>5 DEF Understands
<1> QED BY <1>2, <1>3, <1>5, <1>6, <1>7

\* The user's write is remembered, sent if it may be, and shown.
LEMMA UserWritesIInv ==
  ASSUME IInv, NEW value \in UserValues, UserWrites(value)
  PROVE  IInv'
<1> DEFINE m == WriteMessage(profile_for, Target(profile_for), value)
<1>1. /\ m \in Messages /\ m.fc = 6 /\ m.value = value /\ value \in OwnValues
      /\ Understands(m) => m.register = OwnRegister
      /\ outbound' = Append(outbound, m)
  BY WriteFits
<1>2. /\ UNCHANGED fixed /\ UNCHANGED known /\ UNCHANGED link /\ UNCHANGED gates
      /\ UNCHANGED pending /\ UNCHANGED inbound /\ UNCHANGED regs /\ UNCHANGED overlay
      /\ UNCHANGED shared /\ cache' \in {value, cache}
      /\ attr' = value /\ data' = value /\ wanted' = Append(wanted, value)
      /\ Len(wanted) < MaxWrites /\ Len(outbound) < MaxOnWire
  BY DEF UserWrites
<1> HIDE DEF m
<1>3. /\ outbound \in Seq(Messages) /\ Len(outbound) \in Nat
      /\ wanted \in Seq(UserValues) /\ Len(wanted) \in Nat
  BY DEF IInv, TypeOK
<1>4. /\ outbound' \in Seq(Messages) /\ Len(outbound') = Len(outbound) + 1
      /\ \A i \in 1..Len(outbound') :
            outbound'[i] = IF i \in 1..Len(outbound) THEN outbound[i] ELSE m
  BY <1>1, <1>3
<1>5. /\ wanted' \in Seq(UserValues) /\ Len(wanted') = Len(wanted) + 1
      /\ \A i \in 1..Len(wanted) : wanted'[i] = wanted[i]
      /\ wanted'[Len(wanted')] = value
      /\ 1..Len(wanted) \subseteq 1..Len(wanted') /\ Len(wanted') \in 1..Len(wanted')
  BY <1>2, <1>3
<1>6. Len(wanted') <= MaxWrites /\ Len(outbound') <= MaxOnWire
  BY <1>2, <1>3, <1>4, <1>5, ControlAssumption DEF ControlAssumption
<1>7. Generations' /\ FramesFit'
  BY <1>2, GenerationsHold, FramesHold DEF IInv, known
<1>8. TypeOK'
  <2>1. value \in Values
    BY <1>1 DEF Values
  <2> QED BY <1>2, <1>4, <1>5, <1>6, <2>1, FixedHolds DEF IInv, TypeOK, fixed, known, gates
<1>9. ASSUME NEW x, MessageFits(x) \/ x = m
      PROVE  MessageFits(x)'
  <2>1. Understands(x)' = Understands(x) /\ OwnRegister' = OwnRegister /\ OwnValues' = OwnValues
    BY <1>2, FitsHold, FixedHolds
  <2>2. CASE MessageFits(x)
    BY <1>5, <2>1, <2>2 DEF MessageFits
  <2>3. CASE x = m
    BY <1>1, <1>5, <2>1, <2>3 DEF MessageFits
  <2> QED BY <1>9, <2>2, <2>3
<1>10. \A i \in 1..Len(outbound') : MessageFits(outbound'[i]) \/ outbound'[i] = m
  BY <1>4 DEF IInv, MessagesFit
<1>11. MessagesFit'
  BY <1>9, <1>10 DEF MessagesFit
<1> QED BY <1>7, <1>8, <1>11 DEF IInv

\* A read asks for a block of the device, in its profile's dialect.
LEMMA AskFits ==
  ASSUME IInv, NEW r \in Requests, Ask(r)
  PROVE  LET m == Message(profile_for.envelope, r.slave, 3, r.register, 0)
         IN /\ m \in Messages /\ MessageFits(m) /\ outbound' = Append(outbound, m)
            /\ r \in Asked
            /\ m.envelope = profile_for.envelope
            /\ m.slave \in IF profile_for.envelope THEN {0} \cup Nodes ELSE {1} \cup (Nodes \ {0})
<1> DEFINE m == Message(profile_for.envelope, r.slave, 3, r.register, 0)
<1>1. profile_for.envelope \in BOOLEAN
  BY SettingHolds, ProfileTalks, ControlAssumption DEF IInv
<1>2. /\ r.register \in Readable
      /\ r.slave \in IF profile_for.envelope THEN {0} \cup Nodes ELSE {1} \cup (Nodes \ {0})
      /\ r = [register |-> r.register, slave |-> r.slave]
  BY <1>1 DEF Requests, Readable
<1>3. r.register \in Nat
  BY <1>2 DEF Readable, HOME_DATA, INV_BASE_SETTINGS, INV_ADV_SETTINGS, PACK_MAIN_INFO,
              PACK_ITEM_INFO, PACK_CELL_INFO
<1>4. m \in Messages
  BY <1>1, <1>2, <1>3 DEF Messages, Message
<1>5. MessageFits(m)
  BY <1>2 DEF MessageFits, Message
<1>6. r \in Asked
  BY <1>2, <1>3 DEF Asked
<1> QED BY <1>2, <1>4, <1>5, <1>6 DEF Ask, Message

\* A request is for a block that is read.
LEMMA AskIInv ==
  ASSUME IInv, NEW r \in Requests, Ask(r)
  PROVE  IInv'
<1> DEFINE m == Message(profile_for.envelope, r.slave, 3, r.register, 0)
<1>1. /\ m \in Messages /\ MessageFits(m) /\ outbound' = Append(outbound, m)
      /\ r \in Asked
  BY AskFits
<1>2. /\ UNCHANGED fixed /\ UNCHANGED known /\ UNCHANGED link /\ UNCHANGED gates
      /\ UNCHANGED inbound /\ UNCHANGED regs /\ UNCHANGED shown /\ UNCHANGED wanted
      /\ pending' = r /\ Len(outbound) < MaxOnWire
  BY DEF Ask
<1> HIDE DEF m
<1>3. outbound' \in Seq(Messages) /\ Len(outbound') <= MaxOnWire /\ MessagesFit'
  BY <1>1, <1>2, MessageSent DEF IInv
<1>4. TypeOK'
  BY <1>1, <1>2, <1>3, FixedHolds DEF IInv, TypeOK, fixed, known, shown, gates
<1>5. Generations' /\ FramesFit'
  BY <1>2, GenerationsHold, FramesHold DEF IInv, known
<1> QED BY <1>3, <1>4, <1>5 DEF IInv

\* A device that gives no answer may have applied the write.
LEMMA DeviceSilentIInv ==
  ASSUME IInv, DeviceSilent
  PROVE  IInv'
<1> USE DEF IInv
<1>1. /\ UNCHANGED fixed /\ UNCHANGED known /\ UNCHANGED link /\ UNCHANGED gates
      /\ UNCHANGED pending /\ UNCHANGED inbound /\ UNCHANGED shown /\ UNCHANGED wanted
      /\ outbound # <<>> /\ outbound' = Tail(outbound) /\ regs' = Applied(Head(outbound))
  BY DEF DeviceSilent
<1>2. Head(outbound) \in Messages /\ MessageFits(Head(outbound))
  BY <1>1, FirstMessage
<1>3. regs' \in [Registers -> RegisterValues] /\ regs'[OwnRegister] \in OwnValues
  BY <1>1, <1>2, AppliedFits
<1>4. outbound' \in Seq(Messages) /\ Len(outbound') <= MaxOnWire /\ MessagesFit'
  BY <1>1, MessageTaken
<1>5. TypeOK'
  BY <1>1, <1>3, <1>4, FixedHolds DEF TypeOK, fixed, known, shown, gates
<1>6. FramesFit'
  BY <1>1, <1>3, FitsHold, FixedHolds DEF FramesFit
<1>7. Generations'
  BY <1>1, GenerationsHold DEF known
<1> QED BY <1>4, <1>5, <1>6, <1>7

\* The device's answer is one that fits.
LEMMA AnswerFits ==
  ASSUME IInv, DeviceAnswers
  PROVE  \E f \in Frames : FrameFits(f) /\ inbound' = Append(inbound, f)
<1> DEFINE m == Head(outbound)
<1>1. outbound # <<>> /\ Understands(m) /\ regs' = Applied(m)
  BY DEF DeviceAnswers
<1>2. m \in Messages /\ MessageFits(m)
  BY <1>1, FirstMessage DEF IInv
<1>3. /\ regs \in [Registers -> RegisterValues] /\ regs[OwnRegister] \in OwnValues
      /\ regs' \in [Registers -> RegisterValues] /\ regs'[OwnRegister] \in OwnValues
  BY <1>1, <1>2, AppliedFits DEF IInv, TypeOK, FramesFit
<1>4. CASE m.fc = 6 /\ inbound' = Append(inbound, [Frame(6, m.slave, m.register, 0) EXCEPT !.regs = regs'])
  <2> DEFINE f == [fc |-> 6, slave |-> m.slave, start |-> m.register, size |-> 0, regs |-> regs']
  <2>1. [Frame(6, m.slave, m.register, 0) EXCEPT !.regs = regs'] = f
    BY DEF Frame
  <2>2. m.register = OwnRegister
    BY <1>1, <1>2, <1>4 DEF MessageFits
  <2>3. f \in Frames
    BY <1>2, <1>3 DEF Frames, Messages
  <2>4. FrameFits(f)
    BY <1>3, <2>2 DEF FrameFits
  <2> QED BY <1>4, <2>1, <2>3, <2>4
<1>5. ASSUME m.fc = 3, NEW size \in ReplySizes(m.register),
             inbound' = Append(inbound, Frame(3, m.slave, m.register, size))
      PROVE  \E f \in Frames : FrameFits(f) /\ inbound' = Append(inbound, f)
  <2> DEFINE f == Frame(3, m.slave, m.register, size)
  <2>1. m.register \in Readable
    BY <1>2, <1>5 DEF MessageFits
  <2>2. f \in Frames
    BY <1>2, <1>3, <2>1, RepliesSized DEF Frames, Messages, Frame
  <2>3. FrameFits(f)
    BY <1>3, <2>1 DEF FrameFits, Frame, Errors
  <2> QED BY <1>5, <2>2, <2>3
<1> QED BY <1>4, <1>5 DEF DeviceAnswers

\* It answers a write with its echo, and a read with the block, or less of it.
LEMMA DeviceAnswersIInv ==
  ASSUME IInv, DeviceAnswers
  PROVE  IInv'
<1>1. /\ UNCHANGED fixed /\ UNCHANGED known /\ UNCHANGED link /\ UNCHANGED gates
      /\ UNCHANGED pending /\ UNCHANGED shown /\ UNCHANGED wanted
      /\ outbound # <<>> /\ outbound' = Tail(outbound) /\ regs' = Applied(Head(outbound))
      /\ Len(inbound) < MaxOnWire
  BY DEF DeviceAnswers
<1>2. Head(outbound) \in Messages /\ MessageFits(Head(outbound))
  BY <1>1, FirstMessage DEF IInv
<1>3. regs' \in [Registers -> RegisterValues] /\ regs'[OwnRegister] \in OwnValues
  BY <1>1, <1>2, AppliedFits DEF IInv
<1>4. outbound' \in Seq(Messages) /\ Len(outbound') <= MaxOnWire /\ MessagesFit'
  BY <1>1, MessageTaken DEF IInv
<1>5. inbound' \in Seq(Frames) /\ Len(inbound') <= MaxOnWire /\ FramesFit'
  BY <1>1, <1>3, AnswerFits, FrameSent DEF IInv
<1>6. TypeOK'
  BY <1>1, <1>3, <1>4, <1>5, FixedHolds DEF IInv, TypeOK, fixed, known, shown, gates
<1>7. Generations'
  BY <1>1, GenerationsHold DEF IInv, known
<1> QED BY <1>4, <1>5, <1>6, <1>7 DEF IInv

\* A refusal carries the registers and nothing else.
LEMMA DeviceRefusesIInv ==
  ASSUME IInv, DeviceRefuses
  PROVE  IInv'
<1>1. /\ UNCHANGED fixed /\ UNCHANGED known /\ UNCHANGED link /\ UNCHANGED gates
      /\ UNCHANGED pending /\ UNCHANGED regs /\ UNCHANGED shown /\ UNCHANGED wanted
      /\ outbound # <<>> /\ outbound' = Tail(outbound) /\ Len(inbound) < MaxOnWire
  BY DEF DeviceRefuses
<1>2. outbound' \in Seq(Messages) /\ Len(outbound') <= MaxOnWire /\ MessagesFit'
  BY <1>1, MessageTaken DEF IInv
<1>3. Head(outbound).fc \in {3, 6} /\ Head(outbound).slave \in {0, 1} \cup Nodes
  BY <1>1, FirstMessage DEF IInv, Messages
<1>4. regs \in [Registers -> RegisterValues] /\ regs[OwnRegister] \in OwnValues
  BY DEF IInv, TypeOK, FramesFit
<1>5. PICK f \in Frames : FrameFits(f) /\ inbound' = Append(inbound, f)
  <2> DEFINE m == Head(outbound)
             f == Frame(m.fc + 128, m.slave, 0, 0)
  <2>1. inbound' = Append(inbound, f)
    BY DEF DeviceRefuses
  <2>2. m.fc + 128 \in Errors /\ m.fc + 128 \notin {3, 6}
    BY <1>3 DEF Errors
  <2>3. f \in Frames
    BY <1>3, <1>4, <2>2 DEF Frames, Frame
  <2>4. FrameFits(f)
    BY <1>4, <2>2 DEF FrameFits, Frame
  <2> QED BY <2>1, <2>3, <2>4
<1>6. inbound' \in Seq(Frames) /\ Len(inbound') <= MaxOnWire /\ FramesFit'
  BY <1>1, <1>4, <1>5, FrameSent DEF IInv
<1>7. TypeOK'
  BY <1>1, <1>2, <1>6, FixedHolds DEF IInv, TypeOK, fixed, known, shown, gates
<1>8. Generations'
  BY <1>1, GenerationsHold DEF IInv, known
<1> QED BY <1>2, <1>6, <1>7, <1>8 DEF IInv

\* What it pushes fits too,
LEMMA PushFits ==
  ASSUME IInv, NEW start \in Pushed \cup {36, 70, 3000}, NEW size \in PushSizesOf(start),
         DevicePushes(start, size)
  PROVE  \E f \in Frames : FrameFits(f) /\ inbound' = Append(inbound, f)
<1>1. start \in Nat /\ size \in Nat
  BY ControlAssumption DEF ControlAssumption, PushSizesOf
<1>2. regs \in [Registers -> RegisterValues] /\ regs[OwnRegister] \in OwnValues
  BY DEF IInv, TypeOK, FramesFit
<1>3. ASSUME NEW slave \in {0, 1}
      PROVE  Frame(16, slave, start, size) \in Frames /\ FrameFits(Frame(16, slave, start, size))
  BY <1>1, <1>2 DEF Frame, Frames, FrameFits, Errors
<1> QED BY <1>3 DEF DevicePushes

\* under FC=3 as well.
LEMMA VolunteerFits ==
  ASSUME IInv, NEW start \in {HOME_DATA, INV_BASE_SETTINGS}, DeviceVolunteers(start)
  PROVE  \E f \in Frames : FrameFits(f) /\ inbound' = Append(inbound, f)
<1>1. start \in Nat /\ start \in Readable
  BY DEF Readable, HOME_DATA, INV_BASE_SETTINGS
<1>2. regs \in [Registers -> RegisterValues] /\ regs[OwnRegister] \in OwnValues
  BY DEF IInv, TypeOK, FramesFit
<1>3. ASSUME NEW size \in ReplySizes(start)
      PROVE  Frame(3, 0, start, size) \in Frames /\ FrameFits(Frame(3, 0, start, size))
  <2>1. size \in Nat
    BY <1>1, RepliesSized
  <2> QED BY <1>1, <1>2, <2>1 DEF Frame, Frames, FrameFits, Errors
<1> QED BY <1>3 DEF DeviceVolunteers

\* It pushes what its registers hold.
LEMMA PushedIInv ==
  ASSUME IInv,
         \/ \E start \in Pushed \cup {36, 70, 3000} : \E size \in PushSizesOf(start) :
               DevicePushes(start, size)
         \/ \E start \in {HOME_DATA, INV_BASE_SETTINGS} : DeviceVolunteers(start)
  PROVE  IInv'
<1>1. /\ UNCHANGED fixed /\ UNCHANGED known /\ UNCHANGED link /\ UNCHANGED gates
      /\ UNCHANGED pending /\ UNCHANGED outbound /\ UNCHANGED regs /\ UNCHANGED shown
      /\ UNCHANGED wanted /\ Len(inbound) < MaxOnWire
  BY DEF DevicePushes, DeviceVolunteers
<1>2. regs'[OwnRegister] \in OwnValues
  BY <1>1 DEF IInv, FramesFit
<1>3. \E f \in Frames : FrameFits(f) /\ inbound' = Append(inbound, f)
  BY PushFits, VolunteerFits
<1>4. inbound' \in Seq(Frames) /\ Len(inbound') <= MaxOnWire /\ FramesFit'
  BY <1>1, <1>2, <1>3, FrameSent DEF IInv
<1>5. TypeOK'
  BY <1>1, <1>4, FixedHolds DEF IInv, TypeOK, fixed, known, shown, gates
<1>6. Generations' /\ MessagesFit'
  BY <1>1, GenerationsHold, MessagesHold DEF IInv, known
<1> QED BY <1>4, <1>5, <1>6 DEF IInv

\* What the handler takes from a frame and shows is a value of the setting.
LEMMA HandleIInv ==
  ASSUME IInv, Handle
  PROVE  IInv'
<1> DEFINE f == Head(inbound)
<1>1. /\ UNCHANGED fixed /\ UNCHANGED known /\ UNCHANGED link /\ UNCHANGED pending
      /\ UNCHANGED outbound /\ UNCHANGED regs /\ UNCHANGED attr /\ UNCHANGED wanted
      /\ inbound # <<>> /\ inbound' = Tail(inbound)
      /\ overlay' = IF Told(f) = {} THEN overlay ELSE CHOOSE v \in Told(f) : TRUE
      /\ data' = IF Pushes(f) /\ overlay' # None THEN overlay' ELSE data
      /\ fc16' = (fc16 \/ IsV1Push(f)) /\ shared' = (shared /\ ~Pushes(f))
      /\ streaming' = (streaming \/ (f.fc = 16 /\ profile_for.envelope))
      /\ unsupported' = unsupported \cup {p \in {pending} : f.fc \in Errors /\ p # NoRequest}
      /\ UNCHANGED regular /\ UNCHANGED cache
  BY DEF Handle
<1>2. Told(f) \subseteq {Junk} \cup OwnValues
  BY <1>1, FirstFrame, FrameTold, SettingHolds, ControlAssumption DEF IInv
<1> HIDE DEF f
<1>3. overlay' \in Values
  <2>1. CASE Told(f) = {}
    BY <1>1, <2>1 DEF IInv, TypeOK
  <2>2. CASE Told(f) # {}
    <3>1. overlay' \in Told(f)
      BY <1>1, <2>2
    <3> QED BY <1>2, <3>1 DEF Values
  <2> QED BY <2>1, <2>2
<1>4. data' \in Values
  BY <1>1, <1>3 DEF IInv, TypeOK
<1>5. inbound' \in Seq(Frames) /\ Len(inbound') <= MaxOnWire /\ FramesFit'
  BY <1>1, FrameTaken DEF IInv
<1>6. /\ fc16' \in BOOLEAN /\ shared' \in BOOLEAN /\ streaming' \in BOOLEAN
      /\ unsupported' \subseteq Asked /\ regular' \in BOOLEAN
  <2>1. pending \in Asked \cup {NoRequest} /\ unsupported \subseteq Asked /\ regular \in BOOLEAN
    BY DEF IInv, TypeOK
  <2> QED BY <1>1, <2>1, Zenon
<1>7. TypeOK'
  BY <1>1, <1>3, <1>4, <1>5, <1>6, FixedHolds DEF IInv, TypeOK, fixed, known
<1>8. Generations' /\ MessagesFit'
  BY <1>1, GenerationsHold, MessagesHold DEF IInv, known
<1> QED BY <1>5, <1>7, <1>8 DEF IInv

\* IInv is inductive.
LEMMA NextIInv ==
  ASSUME IInv, [Next]_vars
  PROVE  IInv'
<1>1. CASE RefreshLists
  BY <1>1, RefreshIInv
<1>2. CASE SetUp
  BY <1>2, SetUpIInv
<1>3. CASE LinkUp \/ LinkDown
  BY <1>3, LinkIInv
<1>4. ASSUME NEW value \in UserValues, UserWrites(value)
      PROVE  IInv'
  BY <1>4, UserWritesIInv
<1>5. ASSUME NEW r \in Requests, Ask(r)
      PROVE  IInv'
  BY <1>5, AskIInv
<1>6. CASE RequestEnds
  BY <1>6, RequestEndsIInv
<1>7. CASE DeviceSilent
  BY <1>7, DeviceSilentIInv
<1>8. CASE DeviceAnswers
  BY <1>8, DeviceAnswersIInv
<1>9. ASSUME \/ \E start \in Pushed \cup {36, 70, 3000} : \E size \in PushSizesOf(start) :
                   DevicePushes(start, size)
             \/ \E start \in {HOME_DATA, INV_BASE_SETTINGS} : DeviceVolunteers(start)
      PROVE  IInv'
  BY <1>9, PushedIInv
<1>10. CASE Handle
  BY <1>10, HandleIInv
<1>12. CASE RefreshCached
  BY <1>12, CachedIInv
<1>13. CASE StreamEnds \/ CycleBegins
  BY <1>13, GatesIInv
<1>14. CASE DeviceRefuses
  BY <1>14, DeviceRefusesIInv
<1>11. CASE UNCHANGED vars
  <2>1. /\ UNCHANGED fixed /\ UNCHANGED known /\ UNCHANGED link /\ UNCHANGED gates
        /\ UNCHANGED pending /\ UNCHANGED outbound /\ UNCHANGED inbound /\ UNCHANGED regs
        /\ UNCHANGED shown /\ UNCHANGED wanted
    BY <1>11 DEF vars
  <2>2. TypeOK'
    BY <2>1, FixedHolds DEF IInv, TypeOK, fixed, known, shown, gates
  <2>3. Generations' /\ MessagesFit' /\ FramesFit'
    BY <2>1, GenerationsHold, MessagesHold, FramesHold DEF IInv, known
  <2> QED BY <2>2, <2>3 DEF IInv
<1> QED BY <1>1, <1>2, <1>3, <1>4, <1>5, <1>6, <1>7, <1>8, <1>9, <1>10, <1>11, <1>12, <1>13, <1>14
   DEF Next

------------------------------------------------------------------------------
(* The theorems.                                                             *)

\* The invariant: a write under way changes the setting the user asked for or nothing, a
\* frame under way carries a value of the setting, is of no more registers than were asked
\* for if it is a reply, and what is known of the device's generation is so.
THEOREM ControlInvariant == Spec => []IInv
<1>1. Init => IInv
  BY InitIInv
<1>2. IInv /\ [Next]_vars => IInv'
  BY NextIInv
<1> QED BY <1>1, <1>2, PTL DEF Spec

\* Type correctness, with this: what an entity shows is unknown, or a value that the setting
\* accepts, or junk where a block was taken for another, whatever the blocks, echoes and
\* pushes it is read from: never the value of another setting that this one does not accept.
THEOREM ControlTypes == Spec => []TypeOK
<1>1. IInv => TypeOK
  BY DEF IInv
<1> QED BY <1>1, ControlInvariant, PTL

\* _handle_telemetry_data: every push, every whole reply but a pack record of 180 bytes, and
\* every cell block that _CELL_SIZE_RANGE allows for is taken for the block it is, and filed
\* under the address that sent it, however late it comes and whatever is pending.
THEOREM FramesRoutedAsSent == Spec => []RoutedAsSent
<1>1. IInv => RoutedAsSent
  <2> SUFFICES ASSUME IInv, NEW i \in 1..Len(inbound), ~Ambiguous(inbound[i])
               PROVE  AsSent(inbound[i])
    BY DEF RoutedAsSent
  <2>1. inbound[i] \in Frames /\ FrameFits(inbound[i])
    BY DEF IInv, TypeOK, FramesFit
  <2> QED BY <2>1, RouteFits
<1> QED BY <1>1, ControlInvariant, PTL

\* parse_*: no parser reads past the end of a frame that comes, whatever counts it claims.
THEOREM ParsersReadInside == Spec => []ReadsInside
<1>1. IInv => ReadsInside
  <2> SUFFICES ASSUME IInv, NEW i \in 1..Len(inbound), NEW n \in {0, 1, 4, 255}
               PROVE  LET f == inbound[i]
                      IN \A x \in Reported(Layout(Route(f).register, f, n), f.size) :
                            x.at + x.width <= f.size
    BY DEF ReadsInside
  <2> DEFINE f == inbound[i]
  <2>1. f.size \in Nat
    <3>1. f \in Frames
      BY DEF IInv, TypeOK
    <3> QED BY <3>1 DEF Frames
  <2>2. n \in Nat
    OBVIOUS
  <2> HIDE DEF f
  <2>3. ASSUME NEW x \in Reported(Layout(Route(f).register, f, n), f.size)
        PROVE  x.at + x.width <= f.size
    BY <2>1, <2>2, LayoutWithin
  <2> QED BY <2>3 DEF f
<1> QED BY <1>1, ControlInvariant, PTL

\* _send_switch_command, async_set_native_value, async_select_option: the device changes no
\* register but that of the setting, and it to nothing but a value that was asked for.
THEOREM OnlyAskedIsChanged == Spec => OnlyAskedChanges
<1>1. ASSUME IInv, Next, NEW r \in DOMAIN regs, regs'[r] # regs[r]
      PROVE  r = OwnRegister /\ \E i \in 1..Len(wanted) : wanted[i] = regs'[r]
  <2>1. DeviceSilent \/ DeviceAnswers
    <3>1. CASE RefreshLists \/ RefreshCached \/ SetUp \/ LinkUp \/ LinkDown \/ StreamEnds
               \/ CycleBegins \/ RequestEnds \/ DeviceRefuses \/ Handle
      BY <1>1, <3>1 DEF RefreshLists, RefreshCached, SetUp, LinkUp, LinkDown, StreamEnds,
                        CycleBegins, RequestEnds, DeviceRefuses, Handle
    <3>2. CASE \/ \E value \in UserValues : UserWrites(value)
               \/ \E q \in Requests : Ask(q)
               \/ \E start \in Pushed \cup {36, 70, 3000} : \E size \in PushSizesOf(start) :
                     DevicePushes(start, size)
               \/ \E start \in {HOME_DATA, INV_BASE_SETTINGS} : DeviceVolunteers(start)
      BY <1>1, <3>2 DEF UserWrites, Ask, DevicePushes, DeviceVolunteers
    <3> QED BY <1>1, <3>1, <3>2 DEF Next
  <2>2. outbound # <<>> /\ regs' = Applied(Head(outbound))
    BY <2>1 DEF DeviceSilent, DeviceAnswers
  <2>3. Head(outbound) \in Messages /\ MessageFits(Head(outbound))
    BY <1>1, <2>2, FirstMessage DEF IInv
  <2>4. Head(outbound).fc = 6 /\ r = OwnRegister /\ regs'[r] = Head(outbound).value
    BY <1>1, <2>2, <2>3, AppliedFits DEF IInv
  <2> QED BY <2>3, <2>4 DEF MessageFits
<1>2. IInv /\ [Next]_vars =>
        [\A r \in DOMAIN regs :
            regs'[r] # regs[r] => r = OwnRegister /\ \E i \in 1..Len(wanted) : wanted[i] = regs'[r]]_vars
  BY <1>1
<1> QED BY <1>2, ControlInvariant, PTL DEF Spec, OnlyAskedChanges

\* get_profile: once the device's generation is known, every frame sent, be it of the user or
\* of the polling loop, is in a dialect and to an address that the device answers.
THEOREM DialectUnderstood == Spec => SentUnderstood
<1>1. ASSUME IInv, Next, Len(outbound') > Len(outbound), RightGeneration
      PROVE  Understands(outbound'[Len(outbound')])
  <2>1. Setting /\ Versions /\ Generations /\ outbound \in Seq(Messages) /\ Len(outbound) \in Nat
    BY <1>1, SettingHolds, ControlAssumption DEF IInv, TypeOK
  <2>2. /\ profile_for.envelope \in BOOLEAN
        /\ profile_for.slave_addr = IF profile_for.envelope THEN 0 ELSE 1
    BY <2>1, ProfileTalks
  <2>3. \/ \E value \in UserValues : UserWrites(value)
        \/ \E r \in Requests : Ask(r)
    <3>1. outbound' # outbound /\ outbound' # <<>> /\ (outbound # <<>> => outbound' # Tail(outbound))
      BY <1>1, <2>1
    <3>2. CASE RefreshLists \/ RefreshCached \/ SetUp \/ LinkUp \/ LinkDown \/ StreamEnds
               \/ CycleBegins \/ RequestEnds \/ Handle
      BY <3>1, <3>2 DEF RefreshLists, RefreshCached, SetUp, LinkUp, LinkDown, StreamEnds,
                        CycleBegins, RequestEnds, Handle
    <3>3. CASE DeviceSilent \/ DeviceAnswers \/ DeviceRefuses
      BY <3>1, <3>3 DEF DeviceSilent, DeviceAnswers, DeviceRefuses
    <3>4. CASE \/ \E start \in Pushed \cup {36, 70, 3000} : \E size \in PushSizesOf(start) :
                     DevicePushes(start, size)
               \/ \E start \in {HOME_DATA, INV_BASE_SETTINGS} : DeviceVolunteers(start)
      BY <3>1, <3>4 DEF DevicePushes, DeviceVolunteers
    <3> QED BY <1>1, <3>2, <3>3, <3>4 DEF Next
  <2>4. ASSUME NEW m \in Messages, outbound' = Append(outbound, m), Understands(m)
        PROVE  Understands(outbound'[Len(outbound')])
    <3>1. outbound'[Len(outbound')] = m
      BY <2>1, <2>4
    <3> QED BY <2>4, <3>1, Zenon
  <2>5. ASSUME NEW value \in UserValues, UserWrites(value)
        PROVE  Understands(outbound'[Len(outbound')])
    <3> DEFINE m == WriteMessage(profile_for, Target(profile_for), value)
    <3>1. m \in Messages /\ outbound' = Append(outbound, m)
      BY <1>1, <2>5, WriteFits
    <3>2. Understands(m)
      BY <1>1, <2>2 DEF RightGeneration, Understands, WriteMessage, Message
    <3> QED BY <2>4, <3>1, <3>2
  <2>6. ASSUME NEW r \in Requests, Ask(r)
        PROVE  Understands(outbound'[Len(outbound')])
    <3> DEFINE m == Message(profile_for.envelope, r.slave, 3, r.register, 0)
    <3>1. /\ m \in Messages /\ outbound' = Append(outbound, m) /\ m.envelope = profile_for.envelope
          /\ m.slave \in IF profile_for.envelope THEN {0} \cup Nodes ELSE {1} \cup (Nodes \ {0})
      BY <1>1, <2>6, AskFits
    <3>2. Understands(m)
      BY <1>1, <2>2, <3>1 DEF RightGeneration, Understands
    <3> QED BY <2>4, <3>1, <3>2
  <2> QED BY <2>3, <2>5, <2>6
<1>2. IInv /\ [Next]_vars =>
        [Len(outbound') > Len(outbound) /\ RightGeneration
           => Understands(outbound'[Len(outbound')])]_vars
  BY <1>1
<1> QED BY <1>2, ControlInvariant, PTL DEF Spec, SentUnderstood

===============================================================================
