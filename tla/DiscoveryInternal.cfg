SPECIFICATION FairSpec
CONSTANTS
    SlotCounts <- MCSlotCounts
    MaxPacks = 3
    Addresses <- MCAddresses
    Main = 0
    Batteries <- MCBatteries
    WithPack <- MCWithPack
    MaxOnWire = 2
PROPERTIES
    InternalBatteryShown
