--------------------------------- MODULE Pci ---------------------------------
(***************************************************************************)
(* The PCI bus (buses/pci.c) over the registry of kernel/drivers.c: the    *)
(* scan of the configuration space, the binding of drivers, and the access *)
(* to a register through the ports.                                        *)
(***************************************************************************)
EXTENDS Integers, Sequences, SequencesExt

CONSTANTS
  Devices,      (* Number of devices; the 256 buses of 32 are one range.   *)
  Functions,    (* 8                                                       *)
  MaxDevices,   (* MAX_PCI_DEVICES                                         *)
  MaxDrivers    (* MAX_PCI_DRIVERS                                         *)

ASSUME PciAssumption == {Devices, Functions, MaxDevices, MaxDrivers} \subseteq Nat \ {0}

(* The vendor 0xFFFF is read where there is no device.                     *)
Absent == [id |-> 0, class |-> 0, multi |-> TRUE]

(* The order of the three nested loops.                                    *)
Addresses ==
  [i \in 1 .. (Devices * Functions) |-> <<(i - 1) \div Functions, (i - 1) % Functions>>]

(* The break after function 0, when the bit for several functions is set.  *)
StopsDevice(space, a) == a[2] = 0 /\ space[a] # Absent /\ space[a].multi

(* The addresses at which the loops find a device.                         *)
Scan(space) ==
  SelectSeq(Addresses, LAMBDA a : /\ space[a] # Absent
                                  /\ a[2] # 0 => ~StopsDevice(space, <<a[1], 0>>))

drivers_pci_register(registry, driver) ==
  IF Len(registry) >= MaxDrivers THEN registry ELSE Append(registry, driver)

(* A driver is for one model of device or for a class of them.             *)
Matches(driver, header) ==
  IF driver.type = "specific" THEN driver.code = header.id ELSE driver.code = header.class

NoDriver == 0

(* The loop over the registry: no match ends it, so that all of them are   *)
(* called and the last one stays in the slot.                              *)
Bind(registry, header, slot) ==
  LET match == {i \in 1 .. Len(registry) : Matches(registry[i], header)}
  IN  [slot EXCEPT !.driver = IF match = {} THEN @ ELSE CHOOSE i \in match : \A j \in match : j <= i,
                   !.inits  = @ \o SelectSeq([i \in 1 .. Len(registry) |-> i], LAMBDA i : i \in match)]

(* Mutant: the table takes one device more than it has room for.           *)
pci_discover_past(space, registry) ==
  LET found == Scan(space)
  IN  [i \in 1 .. (IF Len(found) > MaxDevices THEN MaxDevices + 1 ELSE Len(found)) |->
         Bind(registry, space[found[i]], [at |-> found[i], driver |-> NoDriver, inits |-> <<>>])]

(* The table of devices; inits are the drivers whose init was called.      *)
pci_discover(space, registry) ==
  LET found == Scan(space)
  IN  [i \in 1 .. (IF Len(found) > MaxDevices THEN MaxDevices ELSE Len(found)) |->
         Bind(registry, space[found[i]], [at |-> found[i], driver |-> NoDriver, inits |-> <<>>])]

(* Mutant: a bound device is bound again.                                  *)
pci_init_unbound_devices_all(space, slots, registry) ==
  [i \in DOMAIN slots |-> Bind(registry, space[slots[i].at], slots[i])]

pci_init_unbound_devices(space, slots, registry) ==
  [i \in DOMAIN slots |->
     IF slots[i].driver # NoDriver THEN slots[i] ELSE Bind(registry, space[slots[i].at], slots[i])]

(* The first device of a class, or the empty sequence.                     *)
pci_find_device(space, class) ==
  LET hits == SelectSeq(Scan(space), LAMBDA a : space[a].class = class)
  IN  IF hits = <<>> THEN <<>> ELSE <<hits[1]>>

(* One register of four bytes behind the data port, lowest byte first: the *)
(* bytes that a one- or two-byte access reaches.                           *)
Lane(offset, size) == IF size = 1 THEN offset % 4 ELSE IF size = 2 THEN (offset % 4) - (offset % 2) ELSE 0

legacy_pci_read(dword, offset, size) == SubSeq(dword, Lane(offset, size) + 1, Lane(offset, size) + size)

Out(dword, value, lane, size) ==
  [i \in 1 .. 4 |-> IF i > lane /\ i <= lane + size THEN value[i - lane] ELSE dword[i]]

(* The narrow stores do not return: the store of all four bytes follows.   *)
legacy_pci_write(dword, value, offset, size) ==
  Out(Out(dword, value, Lane(offset, size), size), value, 0, 4)
=============================================================================
