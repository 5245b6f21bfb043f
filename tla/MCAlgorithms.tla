---------------------------- MODULE MCAlgorithms ----------------------------
(***************************************************************************)
(* The kernel's pure algorithms against what they are meant to compute,    *)
(* one input at a time: every input within the bounds is a state.          *)
(***************************************************************************)
EXTENDS KmallocSizes, Prdt, Stdstr, Pci, FiniteSets

CONSTANTS
  MaxSize,      (* Requests to kmalloc.                                    *)
  MaxFrame,     (* Frames of the pages of a buffer.                        *)
  BufferPages,
  MaxNumber,    (* Numbers that are converted.                             *)
  MaxText,      (* Lengths of the texts that are compared.                 *)
  Chars,        (* Their characters, signed as the build has them.         *)
  MaxArea,      (* Addresses and sizes of the areas that are filled.       *)
  Headers,      (* What a function of a device may answer.                 *)
  Early,        (* Drivers registered before the scan, and after it.       *)
  Late

VARIABLE case

NoCase == [kind |-> "none"]
Init == case = NoCase

Size == \E s \in 1 .. MaxSize : case' = [kind |-> "size", size |-> s]

Buffer ==
  \E frames \in [1 .. BufferPages -> 0 .. MaxFrame], offset \in 0 .. (PageSize - 1) :
    \E bytes \in 0 .. (BufferPages * PageSize - offset) :
      case' = [kind |-> "buffer", frames |-> frames, offset |-> offset, bytes |-> bytes]

Number ==
  \E n \in 0 .. MaxNumber, size \in 0 .. 7 :
    case' = [kind |-> "number", number |-> n, size |-> size]

Texts == UNION {[1 .. n -> Chars] : n \in 0 .. MaxText}
Pair == \E a, b \in Texts : case' = [kind |-> "pair", a |-> a, b |-> b]

Area ==
  \E start, size \in 0 .. MaxArea : case' = [kind |-> "area", start |-> start, size |-> size]

Bus ==
  \E space \in [{Addresses[i] : i \in DOMAIN Addresses} -> Headers], early \in Early, late \in Late :
    case' = [kind |-> "bus", space |-> space, early |-> early, late |-> late]

(* The upper bytes of a value are zero, as in the calls of ahci.c.         *)
Register ==
  \E dword \in [1 .. 4 -> {0, 1}], size \in {1, 2, 4}, offset \in 0 .. 3 :
    \E low \in [1 .. size -> {0, 1}] :
      /\ offset % size = 0
      /\ case' = [kind |-> "register", dword |-> dword, size |-> size, offset |-> offset,
                  value |-> [i \in 1 .. 4 |-> IF i <= size THEN low[i] ELSE 0]]

Next ==
  \/ /\ case = NoCase
     /\ Size \/ Buffer \/ Number \/ Pair \/ Area \/ Bus \/ Register
  \/ case # NoCase /\ case' = NoCase

Spec == Init /\ [][Next]_case

(* get_bucket_from_size gives every request the smallest bucket that holds *)
(* it, and the flag for whole pages to those that no bucket holds. For     *)
(* that bucket allocate_page_for_bucket cuts a page into blocks that lie   *)
(* between the descriptor and the end of the page, and there is no room    *)
(* for another.                                                            *)
BucketExact ==
  case.kind = "size" =>
    LET holds == {b \in Buckets : case.size <= bucket_size(b)}
        b     == get_bucket_from_size(case.size)
        end   == FirstBlock(b) + total_blocks(b) * bucket_size(b)
    IN  IF holds = {} THEN b = Whole
        ELSE /\ b \in holds /\ \A c \in holds : b <= c
             /\ FirstBlock(b) >= HeaderBytes
             /\ end <= PageBytes /\ end + bucket_size(b) > PageBytes

(* kmalloc.c line 40: the rounding to whole pages is overflow-proof, so    *)
(* that the pages cover the request.                                       *)
RoundingCovers ==
  case.kind = "size" /\ case.size > Largest => rounded_size(case.size) >= case.size

CaseTable == Table(case.frames, case.offset, case.bytes)

(* The regions that ahci_read and ahci_write hand to the device are the    *)
(* bytes of the buffer, each of them once and in the buffer's order. The   *)
(* loop merges every page that continues the chunk before it, so that a    *)
(* command takes the fewest entries.                                       *)
PrdtExact ==
  case.kind = "buffer" =>
    LET t == CaseTable
    IN  /\ Transferred(t) = [b \in 1 .. case.bytes |-> Physical(case.frames, case.offset + b - 1)]
        /\ \A i \in 1 .. (Len(t) - 1) : t[i].dba + t[i].dbc + 1 # t[i + 1].dba

Value(text, base) == FoldLeft(LAMBDA n, d : n * base + d, 0, text)

Converted(r, number, size, base, prefix) ==
  /\ r.ret = "success" => /\ Value(r.text, base) = number
                          /\ r.text[1] = 0 => number = 0
  /\ Len(r.text) > 0 => Len(r.text) + prefix + 1 <= size
  /\ (r.ret = "success") = (size >= prefix + 2 /\ number < base^(size - 1 - prefix))

(* ultoa and ultox succeed exactly when the digits, the prefix and the     *)
(* terminator fit, and then the text reads as the number, with no leading  *)
(* zero; what they write always leaves room for the terminator.            *)
ConvertsExactly ==
  case.kind = "number" =>
    /\ Converted(ultoa(case.number, case.size), case.number, case.size, 10, 0)
    /\ Converted(ultox(case.number, case.size), case.number, case.size, 16, 2)

(* str_ncmp, which does not read past the lengths it is given, answers as  *)
(* str_cmp does on the terminated texts, says equal of equal texts only,   *)
(* and changes its sign with the order of its arguments.                   *)
ComparesAlike ==
  case.kind = "pair" =>
    /\ str_ncmp(case.a, case.b) = str_cmp(case.a, case.b)
    /\ (str_ncmp(case.a, case.b) = 0) = (case.a = case.b)
    /\ str_ncmp(case.b, case.a) = -str_ncmp(case.a, case.b)

(* The head, the words and the tail of memset cover the area and nothing   *)
(* else, no byte is stored twice, and every wide store is aligned.         *)
FillsExactly ==
  case.kind = "area" =>
    LET stores == memset(case.start, case.size)
        Covers(s) == s.at .. (s.at + s.bytes - 1)
    IN  /\ UNION {Covers(s) : s \in stores} = case.start .. (case.start + case.size - 1)
        /\ \A s, t \in stores : s # t => Covers(s) \cap Covers(t) = {}
        /\ \A s \in stores : s.bytes = WordBytes => s.at % WordBytes = 0

Slots == pci_discover(case.space, case.early)
Before(a, b) == a[1] < b[1] \/ (a[1] = b[1] /\ a[2] < b[2])

(* pci_discover lists present functions in bus order, none of them twice,  *)
(* within the table; a table with room left has function 0 of every device *)
(* and all functions of a device whose function 0 is not marked as one of  *)
(* several. pci_find_device agrees with the table.                         *)
PciFound ==
  case.kind = "bus" =>
    LET at == {Slots[i].at : i \in DOMAIN Slots}
    IN  /\ Len(Slots) <= MaxDevices
        /\ \A a \in at : case.space[a] # Absent
        /\ \A i \in 1 .. (Len(Slots) - 1) : Before(Slots[i].at, Slots[i + 1].at)
        /\ Len(Slots) < MaxDevices =>
             \A a \in DOMAIN case.space \ at :
               case.space[a] # Absent => a[2] # 0 /\ case.space[<<a[1], 0>>].multi
        /\ \A i \in DOMAIN Slots :
             LET hit == pci_find_device(case.space, case.space[Slots[i].at].class)
             IN  hit # <<>> /\ ~Before(Slots[i].at, hit[1])

(* Once pci_init_unbound_devices has run with the drivers registered since *)
(* the scan, a listed device has a driver exactly if one matches it, that  *)
(* driver matches and was called with it, no driver was called twice with  *)
(* it, and a device that was bound by the scan keeps its driver.           *)
PciServed ==
  case.kind = "bus" =>
    LET registry == FoldLeft(drivers_pci_register, case.early, case.late)
        after    == pci_init_unbound_devices(case.space, Slots, registry)
    IN  \A i \in DOMAIN after :
          LET s == after[i]
              h == case.space[s.at]
          IN  /\ (s.driver = NoDriver) = (\A d \in DOMAIN registry : ~Matches(registry[d], h))
              /\ s.driver # NoDriver =>
                   /\ Matches(registry[s.driver], h)
                   /\ \E n \in DOMAIN s.inits : s.inits[n] = s.driver
              /\ Cardinality({s.inits[n] : n \in DOMAIN s.inits}) = Len(s.inits)
              /\ Slots[i].driver # NoDriver => s.driver = Slots[i].driver

(* pci.c line 128: the size of a write is that of the size parameter, so   *)
(* that the other bytes of the register keep their values.                 *)
WritesOnlySize ==
  case.kind = "register" =>
    legacy_pci_write(case.dword, case.value, case.offset, case.size) =
      Out(case.dword, case.value, case.offset, case.size)

(* pci.c line 217: only where a device has one function are the others not *)
(* looked at, so that no function of several is missed.                    *)
AllFunctionsFound ==
  case.kind = "bus" /\ Len(Slots) < MaxDevices =>
    \A a \in DOMAIN case.space :
      case.space[a] # Absent /\ case.space[<<a[1], 0>>] # Absent /\ case.space[<<a[1], 0>>].multi
        => \E i \in DOMAIN Slots : Slots[i].at = a

MCHeaders ==
  {Absent, [id |-> 1, class |-> 1, multi |-> FALSE], [id |-> 1, class |-> 1, multi |-> TRUE],
   [id |-> 2, class |-> 2, multi |-> FALSE]}
ForClass(c) == [type |-> "class", code |-> c]
MCEarly == {<<>>, <<ForClass(1)>>, <<ForClass(1), [type |-> "specific", code |-> 1]>>}
MCLate == {<<>>, <<ForClass(2)>>, <<ForClass(2), ForClass(1)>>}
MCChars == {-1, 1, 2}
=============================================================================
