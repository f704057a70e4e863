-------------------------------- MODULE Pci --------------------------------
(***************************************************************************)
(* Finding the AHCI controller on the PCI bus and switching it on          *)
(* (HALKit/AMD64/PCI/Iterator.cc, PCI/Device.cc and drv_std_init in        *)
(* Storage/AHCI-DMA.cc).  The configuration space is hardware; each slot   *)
(* has one function here.                                                  *)
(***************************************************************************)
EXTENDS Integers, FiniteSets, FiniteSetsExt

CONSTANTS
    BusCount,       \* ZKA_BUS_COUNT
    SlotCount       \* the slots of a bus; ZKA_DEVICE_COUNT is one more
ASSUME PciSizes == BusCount \in Nat \ {0} /\ SlotCount \in Nat \ {0}

Slots == (0 .. BusCount - 1) \X (0 .. SlotCount - 1)
NoSlot == <<-1, -1>>

VARIABLES
    machine,     \* what sits in a slot: nothing, another mass storage, AHCI
    command,     \* the bits of the controller's command register
    bar,         \* its BAR 5: the upper half and the writable bits of the lower
    fDevices,    \* Iterator: the slot kept for a bus
    start,       \* where drv_std_init is
    kAhciDevice, \* the slot of the device it works on
    overwritten, \* whether an entry was no longer there when it was read
    mem_ahci     \* the address it takes for the controller's registers

pciVars == <<machine, command, bar, fDevices, start, kAhciDevice, overwritten, mem_ahci>>

PciInit ==
    /\ machine \in [Slots -> {"none", "ide", "ahci"}]
    /\ command \in {{}, {"memory"}, {"memory", "master"}}   \* as the firmware leaves it
    /\ bar \in [high : {1}, low : {0, 1}]
    /\ fDevices = [b \in 0 .. BusCount - 1 |-> NoSlot]
    /\ start = "probe" /\ kAhciDevice = NoSlot /\ overwritten = FALSE
    /\ mem_ahci = [high |-> 0, low |-> 0]
-----------------------------------------------------------------------------
\* ZKA_PCIReadRaw ORs the device number into the word above the slot bits: the
\* one number too many is the first slot of the bus with the lowest bit set.
Addressed(b, d) == IF d < SlotCount THEN <<b, d>>
                   ELSE <<IF b % 2 = 0 THEN b + 1 ELSE b, 0>>

IsStorage(s) == s \in Slots /\ machine[s] \in {"ide", "ahci"}

\* The last match of a bus is kept.
Kept(b) ==
    LET hits == {d \in 0 .. SlotCount : IsStorage(Addressed(b, d))}
    IN  IF hits = {} THEN NoSlot ELSE Addressed(b, Max(hits))

\* PCI::Iterator
Probe ==
    /\ start = "probe"
    /\ fDevices' = [b \in 0 .. BusCount - 1 |-> Kept(b)]
    /\ start' = "select"
    /\ UNCHANGED <<machine, command, bar, kAhciDevice, overwritten, mem_ahci>>

IsAhci(s) == s \in Slots /\ machine[s] = "ahci"

\* The loop over the buses.  operator[] returns Ref(T), the address of a copy
\* that is gone (NewKit/Ref.h): what drv_std_init copies from there is the
\* entry, or whatever slot the memory names by then.  The entry of a bus without
\* storage was never set and names some slot, or none.
Select ==
    /\ start = "select"
    /\ \E entry \in [0 .. BusCount - 1 -> Slots \cup {NoSlot}] :
         LET hits == {b \in 0 .. BusCount - 1 : IsAhci(entry[b])}
         IN  /\ kAhciDevice' = entry[IF hits = {} THEN BusCount - 1 ELSE Min(hits)]
             /\ start' = IF hits = {} THEN "missing" ELSE "mmio"
             /\ overwritten' = \E b \in 0 .. BusCount - 1 : fDevices[b] \notin {NoSlot, entry[b]}
    /\ UNCHANGED <<machine, command, bar, fDevices, mem_ahci>>

\* EnableMmio and BecomeBusMaster keep "value or bit" in a bool, which is 1,
\* and store it in the lower half of the register they are given: BAR 5.
\* Of that half only the address bits can be written, and 1 has none.
Enabled(value) == 0

EnableMmio ==
    /\ start = "mmio"
    /\ bar' = [bar EXCEPT !.low = Enabled(@)]
    /\ start' = "master"
    /\ UNCHANGED <<machine, command, fDevices, kAhciDevice, overwritten, mem_ahci>>

BecomeBusMaster ==
    /\ start = "master"
    /\ bar' = [bar EXCEPT !.low = Enabled(@)]
    /\ start' = "bar"
    /\ UNCHANGED <<machine, command, fDevices, kAhciDevice, overwritten, mem_ahci>>

Bar ==
    /\ start = "bar"
    /\ mem_ahci' = bar
    /\ start' = "ready"
    /\ UNCHANGED <<machine, command, bar, fDevices, kAhciDevice, overwritten>>

PciNext == Probe \/ Select \/ EnableMmio \/ BecomeBusMaster \/ Bar
-----------------------------------------------------------------------------
PciTypeOK ==
    /\ start \in {"probe", "select", "missing", "mmio", "master", "bar", "ready"}
    /\ kAhciDevice \in Slots \cup {NoSlot} /\ mem_ahci.low \in {0, 1}
    /\ overwritten \in BOOLEAN

\* An AHCI controller that is the only mass storage of the machine is found
\* (AHCI-DMA.cc:73), wherever it sits and whatever the unset entries of the
\* iterator hold, unless one of the copies that are gone was overwritten before
\* it was read; and then no other device is taken for it.
ControllerFound ==
    \A s \in Slots : IsAhci(s) /\ (\A t \in Slots : IsStorage(t) => t = s)
        => /\ start = "missing" => overwritten
           /\ start \notin {"probe", "select", "missing"} => kAhciDevice = s

\* The driver goes on with the upper half of the controller's address only
\* (AHCI-DMA.cc:84): what the lower half said is gone by then, so a controller
\* not aligned to 64 KiB is looked for where it is not.
LowHalfLost == start = "ready" => mem_ahci = bar /\ bar.low = 0

=============================================================================
