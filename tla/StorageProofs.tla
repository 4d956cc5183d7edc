---------------------------- MODULE StorageProofs ----------------------------
(* Proofs about the storages of a boot: whatever calls fail and wherever the    *)
(* power goes, vold is never told something wrong, it agrees with the           *)
(* framework, and a plan of the user is carried out by the next boot.           *)
EXTENDS Storage, TLAPS

\* storage_list once init_msm_properties has arranged it.
Arranged ==
    /\ swapped = stor_swapped
    /\ storage_list[PRIMARY].sdcc # storage_list[SECONDARY].sdcc
    /\ stor_swapped <=> storage_list[PRIMARY].sdcc = 2
    /\ ~storage_list[PRIMARY].removable
    /\ \A s \in Slots :
          /\ storage_list[s].storageDescription = "internal" <=> storage_list[s].sdcc = emmcSdcc
          /\ storage_list[s].storageDescription = "internal" => ~storage_list[s].allowMassStorage
          /\ storage_list[s].part_num \in {AUTO, usbmsc[storage_list[s].sdcc]}

\* Each controller has the entry of its slot.
FstabOfList == \A s \in Slots : fstab_storages[storage_list[s].sdcc] = get_voldmanaged(s)

\* How far the boot has come decides which of its outputs can be relied on.  After a
\* loss of power the memory of the dead init is still there to look at.
BootInv ==
    /\ pc \in {"plan", "arrange"} => storage_list = DefaultList
    /\ pc \in {"plan", "arrange", "parts", "fstab"} => fstab_storages = NONE
    /\ pc \in {"parts", "fstab", "list", "write", "up"} => Arranged
    /\ fstab_storages # NONE => Arranged /\ FstabOfList

\* The list on /data is the one of this boot, unless a call that writes it failed.
ListInv == pc = "up" /\ "list" \notin failed => storage_list_xml = describes(storage_list)

\* planned_swap can only change on a device that is up.
PlanInv == pc \in {"arrange", "parts", "fstab", "list", "write"} /\ "plan" \notin failed =>
              (stor_swapped <=> planned_swap = 1)

IInv == TypeOK /\ BootInv /\ ListInv /\ PlanInv

USE DEF PRIMARY, SECONDARY, Slots, Sdcc, AUTO

-----------------------------------------------------------------------------
\* The items of the two storages: the eMMC where the boot argument puts it and never
\* offered as mass storage, no partition number yet.
Untouched(list) ==
    \A s \in Slots : /\ list[s].emmc <=> list[s].sdcc = emmcSdcc
                     /\ list[s].emmc => ~list[s].allowMassStorage
                     /\ list[s].part_num = AUTO

LEMMA DefaultItems ==
    /\ DefaultList \in [Slots -> Items]
    /\ DefaultList[0] = Item(TRUE, 1, "internal", FALSE, FALSE)
    /\ DefaultList[1] = Item(FALSE, 2, "sd_card", TRUE, TRUE)
BY DEF DefaultList, Item, Items

LEMMA SwapSdccFields ==
    ASSUME NEW arg \in {1, 2}, NEW list \in [Slots -> Items]
    PROVE  /\ swap_sdcc(arg, list)[0] = [list[0] EXCEPT !.emmc = FALSE, !.sdcc = 1, !.removable = FALSE]
           /\ swap_sdcc(arg, list)[1] = [list[1] EXCEPT !.emmc = TRUE, !.sdcc = 2, !.removable = FALSE,
                                                        !.allowMassStorage = FALSE]
<1>1. swap_sdcc(arg, list)[0] = [list[0] EXCEPT !.emmc = FALSE, !.sdcc = 1, !.removable = FALSE]
  BY DEF swap_sdcc, Items
<1>2. swap_sdcc(arg, list)[1] = [list[1] EXCEPT !.emmc = TRUE, !.sdcc = 2, !.removable = FALSE,
                                                !.allowMassStorage = FALSE]
  BY DEF swap_sdcc, Items
<1> QED
  BY <1>1, <1>2

\* Whatever the boot argument, the items are in the order of their controllers.
LEMMA SwapSdccItems ==
    ASSUME bootArg \in Int, NEW list, list = swap_sdcc(bootArg, DefaultList)
    PROVE  /\ list \in [Slots -> Items] /\ Untouched(list)
           /\ list[0].sdcc = 1 /\ list[1].sdcc = 2
<1>1. CASE bootArg \in {1, 2}
  <2>1. /\ list[0] = [DefaultList[0] EXCEPT !.emmc = FALSE, !.sdcc = 1, !.removable = FALSE]
        /\ list[1] = [DefaultList[1] EXCEPT !.emmc = TRUE, !.sdcc = 2, !.removable = FALSE,
                                            !.allowMassStorage = FALSE]
    BY <1>1, DefaultItems, SwapSdccFields
  <2>2. list = [s \in Slots |-> list[s]]
    BY <1>1, DefaultItems DEF swap_sdcc
  <2>3. list[0] \in Items /\ list[1] \in Items
    BY <2>1, DefaultItems DEF Items
  <2>4. /\ list[0].sdcc = 1 /\ list[1].sdcc = 2 /\ ~list[0].emmc /\ list[1].emmc
        /\ ~list[1].allowMassStorage /\ list[0].part_num = AUTO /\ list[1].part_num = AUTO
    BY <2>1, DefaultItems DEF Item, Items
  <2>5. emmcSdcc = 2
    BY <1>1 DEF emmcSdcc
  <2> QED
    BY <2>2, <2>3, <2>4, <2>5 DEF Untouched
<1>2. CASE bootArg \notin {1, 2}
  <2>1. list = DefaultList /\ emmcSdcc = 1
    BY <1>2 DEF swap_sdcc, emmcSdcc
  <2> QED
    BY <2>1, DefaultItems DEF Untouched, Item
<1> QED
  BY <1>1, <1>2

\* A swap exchanges the slots of the items and nothing else.
LEMMA SwappedItems ==
    ASSUME stor_swapped \in BOOLEAN, NEW list \in [Slots -> Items], Untouched(list),
           list[0].sdcc = 1, list[1].sdcc = 2
    PROVE  /\ swapItems(list) \in [Slots -> Items] /\ Untouched(swapItems(list))
           /\ swapItems(list)[0].sdcc # swapItems(list)[1].sdcc
           /\ stor_swapped <=> swapItems(list)[0].sdcc = 2
<1>1. CASE stor_swapped
  <2>1. swapItems(list) = [s \in Slots |-> list[1 - s]]
    BY <1>1 DEF swapItems
  <2>2. swapItems(list)[0] = list[1] /\ swapItems(list)[1] = list[0]
    BY <2>1
  <2> QED
    BY <1>1, <2>1, <2>2 DEF Untouched
<1>2. CASE ~stor_swapped
  BY <1>2 DEF swapItems
<1> QED
  BY <1>1, <1>2

\* The description follows the eMMC, and only the description changes.
LEMMA DescribedItems ==
    ASSUME NEW list \in [Slots -> Items], Untouched(list), list[0].sdcc # list[1].sdcc
    PROVE  /\ describe(list) \in [Slots -> Items]
           /\ \A s \in Slots :
                 /\ describe(list)[s].storageDescription = "internal" <=> list[s].emmc
                 /\ describe(list)[s].sdcc = list[s].sdcc
                 /\ describe(list)[s].removable = list[s].removable
                 /\ describe(list)[s].allowMassStorage = list[s].allowMassStorage
                 /\ describe(list)[s].part_num = list[s].part_num
<1> DEFINE internal == IF list[1].emmc /\ ~list[0].emmc THEN 1 ELSE 0
           name(s) == IF s = internal THEN "internal" ELSE "sd_card"
<1>1. list[0].emmc \in BOOLEAN /\ list[1].emmc \in BOOLEAN /\ list[0].sdcc \in Sdcc /\ list[1].sdcc \in Sdcc
  BY DEF Items
<1>2. list[0].emmc <=> ~list[1].emmc
  BY <1>1 DEF Untouched, emmcSdcc
<1>3. \A s \in Slots : name(s) = "internal" <=> list[s].emmc
  BY <1>1, <1>2
<1>4. \A s \in Slots : name(s) \in {"internal", "sd_card"}
  OBVIOUS
<1>5. describe(list) = [s \in Slots |-> [list[s] EXCEPT !.storageDescription = name(s)]]
  BY DEF describe
<1> HIDE DEF name
<1>6. ASSUME NEW s \in Slots
      PROVE  /\ [list[s] EXCEPT !.storageDescription = name(s)] \in Items
             /\ describe(list)[s].storageDescription = name(s)
             /\ describe(list)[s].sdcc = list[s].sdcc
             /\ describe(list)[s].removable = list[s].removable
             /\ describe(list)[s].allowMassStorage = list[s].allowMassStorage
             /\ describe(list)[s].part_num = list[s].part_num
  BY <1>4, <1>5 DEF Items
<1> QED
  BY <1>3, <1>5, <1>6

\* storage_list after the step arrange, for every boot argument and every plan.
LEMMA ArrangedList ==
    ASSUME storage_list = DefaultList, stor_swapped \in BOOLEAN, bootArg \in Int, NEW list,
           list = describe([swapItems(swap_sdcc(bootArg, storage_list)) EXCEPT ![PRIMARY].removable = FALSE])
    PROVE  /\ list \in [Slots -> Items]
           /\ list[0].sdcc # list[1].sdcc
           /\ stor_swapped <=> list[0].sdcc = 2
           /\ ~list[0].removable
           /\ \A s \in Slots :
                 /\ list[s].storageDescription = "internal" <=> list[s].sdcc = emmcSdcc
                 /\ list[s].storageDescription = "internal" => ~list[s].allowMassStorage
                 /\ list[s].part_num = AUTO
<1> DEFINE placed == swapItems(swap_sdcc(bootArg, storage_list))
           kept == [placed EXCEPT ![PRIMARY].removable = FALSE]
<1>1. /\ placed \in [Slots -> Items] /\ Untouched(placed)
      /\ placed[0].sdcc # placed[1].sdcc /\ (stor_swapped <=> placed[0].sdcc = 2)
  BY SwapSdccItems, SwappedItems
<1> HIDE DEF placed
<1>2. kept \in [Slots -> Items] /\ ~kept[0].removable
  BY <1>1 DEF Items
<1>3. \A s \in Slots : /\ kept[s].emmc = placed[s].emmc /\ kept[s].sdcc = placed[s].sdcc
                       /\ kept[s].allowMassStorage = placed[s].allowMassStorage
                       /\ kept[s].part_num = placed[s].part_num
  BY <1>1 DEF Items
<1> HIDE DEF kept
<1>4. Untouched(kept) /\ kept[0].sdcc # kept[1].sdcc /\ (stor_swapped <=> kept[0].sdcc = 2)
  BY <1>1, <1>3 DEF Untouched
<1>5. list = describe(kept)
  BY DEF kept, placed
<1> QED
  BY <1>2, <1>4, <1>5, DescribedItems DEF Untouched

-----------------------------------------------------------------------------
(* The steps of the boot. *)

LEMMA InitInv == Init => IInv
<1> SUFFICES ASSUME Init PROVE IInv
  OBVIOUS
<1>1. /\ 0 \in 0 .. MaxBoots /\ 0 \in 0 .. MaxPlans /\ 0 \in 0 .. MaxFaults
      /\ [d \in Sdcc |-> NONE] \in [Sdcc -> Parts \cup {NONE}]
  BY StorageAssumption
<1>2. TypeOK
  BY <1>1, DefaultItems DEF Init, TypeOK
<1> QED
  BY <1>2 DEF Init, IInv, BootInv, ListInv, PlanInv

\* A call that works or fails only adds its own name to the failed ones.
LEMMA CallTypes ==
    ASSUME TypeOK, NEW call \in {"plan", "parts", "fstab", "list"}, works \/ fails(call)
    PROVE  /\ failed' \subseteq {"plan", "parts", "fstab", "list"} /\ failed \subseteq failed'
           /\ faults' \in 0 .. MaxFaults
<1>1. CASE works
  BY <1>1 DEF works, TypeOK
<1>2. CASE fails(call)
  <2>1. failed' \subseteq {"plan", "parts", "fstab", "list"} /\ failed \subseteq failed'
    BY <1>2 DEF fails, TypeOK
  <2>2. faults' \in 0 .. MaxFaults
    BY <1>2, StorageAssumption DEF fails, TypeOK
  <2> QED
    BY <2>1, <2>2
<1> QED
  BY <1>1, <1>2

LEMMA PlanStep ==
    ASSUME IInv, init_prop_forced_list
    PROVE  IInv'
<1>1. /\ pc = "plan" /\ pc' = "arrange" /\ storage_list = DefaultList /\ fstab_storages = NONE
      /\ UNCHANGED <<planned_swap, storage_list_xml, usbmsc, bootArg, storage_list, swapped,
                     fstab_storages, boots, plans>>
  BY DEF init_prop_forced_list, at, goto, IInv, BootInv
<1>2. TypeOK
  BY DEF IInv
<1>3. /\ stor_swapped' \in BOOLEAN
      /\ failed' \subseteq {"plan", "parts", "fstab", "list"} /\ faults' \in 0 .. MaxFaults
      /\ "plan" \notin failed' => (stor_swapped' <=> planned_swap = 1)
  <2>1. CASE stor_swapped' = (planned_swap = 1) /\ works
    BY <1>2, <2>1 DEF works, TypeOK
  <2>2. CASE stor_swapped' = FALSE /\ fails("plan")
    <3>1. "plan" \in failed'
      BY <2>2 DEF fails
    <3> QED
      BY <1>2, <2>2, <3>1, CallTypes
  <2> QED
    BY <2>1, <2>2 DEF init_prop_forced_list
<1>4. TypeOK'
  BY <1>1, <1>2, <1>3 DEF TypeOK
<1> QED
  BY <1>1, <1>3, <1>4 DEF IInv, BootInv, ListInv, PlanInv

LEMMA ArrangeStep ==
    ASSUME IInv, arrange
    PROVE  IInv'
<1>1. /\ pc = "arrange" /\ pc' = "parts" /\ storage_list = DefaultList /\ fstab_storages = NONE
      /\ swapped' = stor_swapped
      /\ UNCHANGED <<planned_swap, storage_list_xml, usbmsc, bootArg, stor_swapped, fstab_storages,
                     failed, boots, plans, faults>>
  BY DEF arrange, at, goto, IInv, BootInv
<1>2. stor_swapped \in BOOLEAN /\ bootArg \in Int
  BY StorageAssumption DEF IInv, TypeOK
<1>3. /\ storage_list' \in [Slots -> Items]
      /\ storage_list'[0].sdcc # storage_list'[1].sdcc
      /\ stor_swapped <=> storage_list'[0].sdcc = 2
      /\ ~storage_list'[0].removable
      /\ \A s \in Slots :
            /\ storage_list'[s].storageDescription = "internal" <=> storage_list'[s].sdcc = emmcSdcc
            /\ storage_list'[s].storageDescription = "internal" => ~storage_list'[s].allowMassStorage
            /\ storage_list'[s].part_num = AUTO
  BY <1>1, <1>2, ArrangedList DEF arrange
<1>4. TypeOK'
  BY <1>1, <1>2, <1>3 DEF IInv, TypeOK
<1>5. emmcSdcc' = emmcSdcc
  BY <1>1 DEF emmcSdcc
<1>6. Arranged'
  BY <1>1, <1>3, <1>5 DEF Arranged
<1> QED
  BY <1>1, <1>4, <1>6 DEF IInv, BootInv, ListInv, PlanInv

LEMMA PartsStep ==
    ASSUME IInv, get_part_num
    PROVE  IInv'
<1>1. /\ pc = "parts" /\ pc' = "fstab" /\ fstab_storages = NONE /\ Arranged
      /\ UNCHANGED <<planned_swap, storage_list_xml, usbmsc, bootArg, stor_swapped, swapped,
                     fstab_storages, boots, plans>>
  BY DEF get_part_num, at, goto, IInv, BootInv
<1>2. TypeOK
  BY DEF IInv
<1>3. PICK found \in SUBSET Slots :
        /\ storage_list' = [s \in Slots |->
               LET n == usbmsc[storage_list[s].sdcc]
               IN IF s \in found /\ n # NONE THEN [storage_list[s] EXCEPT !.part_num = n]
                  ELSE storage_list[s]]
        /\ IF found = Slots THEN works ELSE fails("parts")
  BY DEF get_part_num
<1>4. /\ failed' \subseteq {"plan", "parts", "fstab", "list"} /\ faults' \in 0 .. MaxFaults
      /\ failed \subseteq failed'
  BY <1>2, <1>3, CallTypes
<1>5. ASSUME NEW s \in Slots
      PROVE  /\ storage_list'[s] \in Items
             /\ storage_list'[s].sdcc = storage_list[s].sdcc
             /\ storage_list'[s].storageDescription = storage_list[s].storageDescription
             /\ storage_list'[s].removable = storage_list[s].removable
             /\ storage_list'[s].allowMassStorage = storage_list[s].allowMassStorage
             /\ storage_list'[s].part_num \in {AUTO, usbmsc[storage_list[s].sdcc]}
  <2> DEFINE n == usbmsc[storage_list[s].sdcc]
  <2>1. storage_list[s] \in Items /\ n \in Parts \cup {NONE} /\ storage_list[s].part_num \in {AUTO, n}
    BY <1>1, <1>2 DEF TypeOK, Items, Arranged
  <2>2. CASE s \in found /\ n # NONE
    <3>1. storage_list'[s] = [storage_list[s] EXCEPT !.part_num = n]
      BY <1>3, <2>2
    <3> HIDE DEF n
    <3> QED
      BY <2>1, <2>2, <3>1 DEF Items, n
  <2>3. CASE ~(s \in found /\ n # NONE)
    <3>1. storage_list'[s] = storage_list[s]
      BY <1>3, <2>3
    <3> QED
      BY <2>1, <3>1
  <2> QED
    BY <2>2, <2>3
<1>6. storage_list' \in [Slots -> Items]
  BY <1>3, <1>5
<1>7. TypeOK'
  BY <1>1, <1>2, <1>4, <1>6 DEF TypeOK
<1>8. Arranged'
  BY <1>1, <1>5 DEF Arranged, emmcSdcc
<1> QED
  BY <1>1, <1>4, <1>7, <1>8 DEF IInv, BootInv, ListInv, PlanInv

LEMMA FstabStep ==
    ASSUME IInv, create_ftab_storage
    PROVE  IInv'
<1>1. /\ pc = "fstab" /\ pc' = "list" /\ fstab_storages = NONE /\ Arranged
      /\ UNCHANGED <<planned_swap, storage_list_xml, usbmsc, bootArg, stor_swapped, storage_list,
                     swapped, boots, plans>>
  BY DEF create_ftab_storage, at, goto, IInv, BootInv
<1>2. TypeOK
  BY DEF IInv
<1>3. Arranged'
  BY <1>1 DEF Arranged, emmcSdcc
<1>4. CASE UNCHANGED fstab_storages /\ fails("fstab")
  <2>1. TypeOK' /\ failed \subseteq failed'
    BY <1>1, <1>2, <1>4, StorageAssumption DEF TypeOK, fails
  <2> QED
    BY <1>1, <1>3, <1>4, <2>1 DEF IInv, BootInv, ListInv, PlanInv
<1>5. CASE /\ fstab_storages' = [d \in Sdcc |->
                 IF \E s \in Slots : storage_list[s].sdcc = d
                   THEN get_voldmanaged(CHOOSE s \in Slots : storage_list[s].sdcc = d) ELSE NONE]
           /\ works
  <2>1. \A s \in Slots : storage_list[s] \in Items /\ storage_list[s].sdcc \in Sdcc
    BY <1>2 DEF TypeOK, Items
  <2>2. ASSUME NEW s \in Slots
        PROVE  fstab_storages'[storage_list[s].sdcc] = get_voldmanaged(s)
    <3>1. s = CHOOSE r \in Slots : storage_list[r].sdcc = storage_list[s].sdcc
      BY <1>1 DEF Arranged
    <3> QED
      BY <1>5, <2>1, <3>1
  <2>3. ASSUME NEW d \in Sdcc
        PROVE  fstab_storages'[d] \in Entries
    <3>1. PICK s \in Slots : storage_list[s].sdcc = d
      BY <1>1, <2>1 DEF Arranged
    <3>2. get_voldmanaged(s) \in Entries
      BY <2>1 DEF get_voldmanaged, Entries, Items
    <3> QED
      BY <2>2, <3>1, <3>2
  <2>4. fstab_storages' \in [Sdcc -> Entries]
    BY <1>5, <2>3
  <2>5. TypeOK' /\ failed' = failed
    BY <1>1, <1>2, <1>5, <2>4 DEF TypeOK, works
  <2>6. FstabOfList'
    BY <1>1, <2>2 DEF FstabOfList, get_voldmanaged
  <2> QED
    BY <1>1, <1>3, <2>5, <2>6 DEF IInv, BootInv, ListInv, PlanInv
<1> QED
  BY <1>4, <1>5 DEF create_ftab_storage

LEMMA OpenListStep ==
    ASSUME IInv, create_storage_list
    PROVE  IInv'
<1>1. /\ pc = "list" /\ pc' \in {"write", "up"} /\ Arranged /\ storage_list_xml' \in {storage_list_xml, TORN}
      /\ pc' = "up" => "list" \in failed'
      /\ UNCHANGED <<planned_swap, usbmsc, bootArg, memory, boots, plans>>
  BY DEF create_storage_list, at, goto, fails, IInv, BootInv
<1>2. TypeOK
  BY DEF IInv
<1>3. /\ failed' \subseteq {"plan", "parts", "fstab", "list"} /\ faults' \in 0 .. MaxFaults
      /\ failed \subseteq failed'
  BY <1>2, CallTypes DEF create_storage_list
<1>4. TypeOK'
  BY <1>1, <1>2, <1>3 DEF TypeOK, memory
<1>5. Arranged' /\ (FstabOfList => FstabOfList')
  BY <1>1 DEF Arranged, emmcSdcc, FstabOfList, get_voldmanaged, memory
<1> QED
  BY <1>1, <1>3, <1>4, <1>5 DEF IInv, BootInv, ListInv, PlanInv, memory

LEMMA WriteListStep ==
    ASSUME IInv, writeList
    PROVE  IInv'
<1>1. /\ pc = "write" /\ pc' = "up" /\ Arranged
      /\ storage_list_xml' \in {storage_list_xml, describes(storage_list)}
      /\ "list" \notin failed' => storage_list_xml' = describes(storage_list)
      /\ UNCHANGED <<planned_swap, usbmsc, bootArg, memory, boots, plans>>
  BY DEF writeList, at, goto, fails, works, IInv, BootInv
<1>2. TypeOK
  BY DEF IInv
<1>3. /\ failed' \subseteq {"plan", "parts", "fstab", "list"} /\ faults' \in 0 .. MaxFaults
  BY <1>2, CallTypes DEF writeList
<1>4. describes(storage_list) \in Lists
  <2>1. storage_list \in [Slots -> Items]
    BY <1>2 DEF TypeOK
  <2> QED
    BY <2>1 DEF describes, Lists, Items
<1>5. TypeOK'
  BY <1>1, <1>2, <1>3, <1>4 DEF TypeOK, memory
<1>6. Arranged' /\ (FstabOfList => FstabOfList') /\ describes(storage_list)' = describes(storage_list)
  BY <1>1 DEF Arranged, emmcSdcc, FstabOfList, get_voldmanaged, memory, describes
<1> QED
  BY <1>1, <1>5, <1>6 DEF IInv, BootInv, ListInv, PlanInv, memory

LEMMA BootStep ==
    ASSUME IInv, Boot
    PROVE  IInv'
<1>1. TypeOK
  BY DEF IInv
<1>2. TypeOK'
  <2>1. /\ boots' \in 0 .. MaxBoots /\ bootArg' \in SwapArgs /\ usbmsc' \in [Sdcc -> Parts \cup {NONE}]
        /\ pc' = "plan" /\ UNCHANGED <<planned_swap, storage_list_xml, plans, faults>>
    BY <1>1, StorageAssumption DEF Boot, goto, TypeOK
  <2>2. /\ stor_swapped' \in BOOLEAN /\ storage_list' \in [Slots -> Items]
        /\ swapped' = NONE /\ fstab_storages' = NONE /\ failed' = {}
    BY DefaultItems DEF Boot
  <2> QED
    BY <1>1, <2>1, <2>2 DEF TypeOK
<1>3. pc' = "plan" /\ storage_list' = DefaultList /\ fstab_storages' = NONE
  BY DEF Boot, goto
<1> QED
  BY <1>2, <1>3 DEF IInv, BootInv, ListInv, PlanInv

\* The other steps leave what init computed as it is.
LEMMA OtherStep ==
    ASSUME IInv, PowerOff \/ (\E v \in {0, 1} : onPreferenceChange(v)) \/ UNCHANGED vars
    PROVE  IInv'
<1>1. TypeOK
  BY DEF IInv
<1>2. /\ UNCHANGED <<storage_list_xml, usbmsc, bootArg, memory, failed>>
      /\ \/ pc' = "off"
         \/ pc = "up" /\ pc' = "up"
         \/ UNCHANGED <<pc, planned_swap>>
  BY DEF PowerOff, onPreferenceChange, vars, memory, at, goto
<1>3. TypeOK'
  <2>1. CASE PowerOff \/ UNCHANGED vars
    BY <1>1, <2>1 DEF TypeOK, PowerOff, vars, memory, goto
  <2>2. CASE \E v \in {0, 1} : onPreferenceChange(v)
    BY <1>1, <2>2, StorageAssumption DEF TypeOK, onPreferenceChange, memory
  <2> QED
    BY <2>1, <2>2
<1>4. /\ Arranged => Arranged' /\ (FstabOfList => FstabOfList')
      /\ describes(storage_list)' = describes(storage_list)
  BY <1>2 DEF Arranged, emmcSdcc, FstabOfList, get_voldmanaged, memory, describes
<1> QED
  BY <1>2, <1>3, <1>4 DEF IInv, BootInv, ListInv, PlanInv, memory

LEMMA NextInv == IInv /\ [Next]_vars => IInv'
BY PlanStep, ArrangeStep, PartsStep, FstabStep, OpenListStep, WriteListStep, BootStep, OtherStep
   DEF Next

LEMMA Invariance == Spec => []IInv
BY InitInv, NextInv, PTL DEF Spec

-----------------------------------------------------------------------------
(* What the boot promises. *)

\* The variables of init_msm_properties keep their types through any mixture of
\* failing calls, losses of power and changes in the settings.
THEOREM StorageTypes == Spec => []TypeOK
BY Invariance, PTL DEF IInv

\* vold is never told something wrong: create_ftab_storage, which fills its template
\* by controller, gives the two controllers different mount points, the main one to
\* the storage the property names, and each its own partition number or none.
THEOREM FstabNeverWrong == Spec => []FstabTrue
<1>1. IInv => FstabTrue
  <2> SUFFICES ASSUME TypeOK, Arranged, FstabOfList, fstab_storages # NONE
               PROVE  FstabTrue
    BY DEF IInv, BootInv, FstabTrue
  <2>1. /\ storage_list[0].sdcc \in Sdcc /\ storage_list[1].sdcc \in Sdcc
        /\ storage_list[0].sdcc # storage_list[1].sdcc
    BY DEF TypeOK, Items, Arranged
  <2>2. \A s \in Slots : /\ fstab_storages[storage_list[s].sdcc].mount = s
                         /\ fstab_storages[storage_list[s].sdcc].part = storage_list[s].part_num
                         /\ fstab_storages[storage_list[s].sdcc].nonremovable = ~storage_list[s].removable
    BY DEF FstabOfList, get_voldmanaged
  <2>3. \A d \in Sdcc : \E s \in Slots : storage_list[s].sdcc = d
    BY <2>1
  <2>4. fstab_storages[1].mount # fstab_storages[2].mount
    BY <2>1, <2>2
  <2>5. swapped <=> fstab_storages[2].mount = PRIMARY
    BY <2>1, <2>2 DEF Arranged
  <2>6. ASSUME NEW d \in Sdcc
        PROVE  /\ fstab_storages[d].mount = PRIMARY => fstab_storages[d].nonremovable
               /\ fstab_storages[d].part \in {AUTO, usbmsc[d]}
    <3>1. PICK s \in Slots : storage_list[s].sdcc = d
      BY <2>3
    <3>2. fstab_storages[d].part \in {AUTO, usbmsc[d]}
      BY <2>2, <3>1 DEF Arranged
    <3>3. fstab_storages[d].mount = PRIMARY => fstab_storages[d].nonremovable
      BY <2>2, <3>1 DEF Arranged
    <3> QED
      BY <3>2, <3>3
  <2> QED
    BY <2>4, <2>5, <2>6 DEF FstabTrue
<1> QED
  BY <1>1, Invariance, PTL

\* On a device that is up and could write storage_list.xml in this boot, vold and the
\* framework agree: both views are made of the same storage_list, after its last change.
THEOREM VoldAndFrameworkAgree == Spec => []ViewsAgree
<1>1. IInv => ViewsAgree
  <2> SUFFICES ASSUME TypeOK, Arranged, FstabOfList, storage_list_xml = describes(storage_list),
                      NEW d \in Sdcc
               PROVE  LET view == storage_list_xml[fstab_storages[d].mount] IN
                      /\ view.storageDescription = "internal" <=> d = emmcSdcc
                      /\ view.storageDescription = "internal" => ~view.allowMassStorage
                      /\ view.removable = ~fstab_storages[d].nonremovable
    BY DEF IInv, BootInv, ListInv, ViewsAgree
  <2>1. PICK s \in Slots : storage_list[s].sdcc = d
    BY DEF TypeOK, Items, Arranged
  <2>2. fstab_storages[d].mount = s /\ fstab_storages[d].nonremovable = ~storage_list[s].removable
    BY <2>1 DEF FstabOfList, get_voldmanaged
  <2>3. /\ storage_list_xml[s].storageDescription = storage_list[s].storageDescription
        /\ storage_list_xml[s].removable = storage_list[s].removable
        /\ storage_list_xml[s].allowMassStorage = storage_list[s].allowMassStorage
    BY DEF describes
  <2>4. storage_list[s].removable \in BOOLEAN
    BY DEF TypeOK, Items
  <2> QED
    BY <2>1, <2>2, <2>3, <2>4 DEF Arranged
<1> QED
  BY <1>1, Invariance, PTL

\* The main storage of a device that comes up is the one last chosen in the settings,
\* unless the file of the property could not be read in this boot.
THEOREM PlanIsCarriedOut == Spec => PlanApplied
<1>1. IInv /\ [Next]_vars =>
        [pc # "up" /\ pc' = "up" /\ "plan" \notin failed' => swapped' = (planned_swap' = 1)]_vars
  <2> SUFFICES ASSUME IInv, Next, pc # "up", pc' = "up", "plan" \notin failed'
               PROVE  swapped' = (planned_swap' = 1)
    OBVIOUS
  <2>1. create_storage_list \/ writeList
    BY DEF Next, init_prop_forced_list, arrange, get_part_num, create_ftab_storage, Boot, PowerOff,
           onPreferenceChange, at, goto
  <2>2. pc \in {"list", "write"} /\ UNCHANGED <<swapped, planned_swap>> /\ failed \subseteq failed'
    BY <2>1 DEF create_storage_list, writeList, at, works, fails, memory
  <2>3. swapped = stor_swapped /\ stor_swapped \in BOOLEAN /\ (stor_swapped <=> planned_swap = 1)
    BY <2>2 DEF IInv, BootInv, PlanInv, TypeOK, Arranged
  <2> QED
    BY <2>2, <2>3
<1> QED
  BY <1>1, Invariance, PTL DEF Spec, PlanApplied
=============================================================================
