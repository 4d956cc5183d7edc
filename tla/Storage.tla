------------------------------- MODULE Storage -------------------------------
(***************************************************************************)
(* Which storage is the main one (init/init_d10f.c and JSR_Settings).  The  *)
(* user plans a swap of the internal storage and the SD card in the         *)
(* settings; the next boot reads the plan in init_msm_properties, arranges  *)
(* storage_list and writes its three views: the property                    *)
(* persist.storages.swapped, /fstab.storages for vold (in the ram disk) and *)
(* storage_list.xml for the framework (on /data, where the list of an       *)
(* earlier boot stays if it cannot be written).                             *)
(*                                                                          *)
(* Any of the calls may fail and the power may go at any step.              *)
(***************************************************************************)
EXTENDS Integers

CONSTANTS
    NONE, TORN,     \* no value; a list that was being written
    Parts,          \* numbers a partition usbmsc can have
    SwapArgs,       \* values of the boot argument swap_sdcc
    MaxBoots,       \* bound: boots
    MaxPlans,       \* bound: changes in the settings
    MaxFaults       \* bound: failing calls

ASSUME StorageAssumption ==
    /\ Parts \subseteq Nat \ {0} /\ SwapArgs \subseteq Int /\ NONE \notin Int
    /\ MaxBoots \in Nat /\ MaxPlans \in Nat /\ MaxFaults \in Nat

PRIMARY == 0
SECONDARY == 1
Slots == {PRIMARY, SECONDARY}       \* mounted on sdcard0 and sdcard1; the USB disk never changes
Sdcc == {1, 2}                      \* the controllers of the two storages
AUTO == -1

VARIABLES
    planned_swap,       \* /data/property/persist.storages.planned_swap
    storage_list_xml,   \* the list on /data: NONE, TORN or what describes(storage_list) was
    pc,                 \* "off", the next step of init_msm_properties, "up"
    usbmsc,             \* number of the partition usbmsc on each controller, or NONE
    bootArg,            \* ro.boot.swap_sdcc of this boot
    stor_swapped, storage_list,     \* memory of init
    swapped,            \* persist.storages.swapped
    fstab_storages,     \* /fstab.storages: voldmanaged of each controller
    failed,             \* calls of this boot that failed
    boots, plans, faults

memory == <<stor_swapped, storage_list, swapped, fstab_storages>>
vars == <<planned_swap, storage_list_xml, pc, usbmsc, bootArg, stor_swapped, storage_list, swapped,
          fstab_storages, failed, boots, plans, faults>>

\* The initial value of storage_list; maxFileSize, mtpReserve and emulated stay 0.
Item(emmc, sdcc, name, removable, mass) ==
    [emmc |-> emmc, sdcc |-> sdcc, part_num |-> AUTO, storageDescription |-> name,
     removable |-> removable, allowMassStorage |-> mass]
DefaultList == [s \in Slots |-> IF s = PRIMARY THEN Item(TRUE, 1, "internal", FALSE, FALSE)
                                ELSE Item(FALSE, 2, "sd_card", TRUE, TRUE)]

-----------------------------------------------------------------------------
(* init_msm_properties, in its order. *)

at(step) == pc = step
goto(step) == pc' = step
fails(call) == faults < MaxFaults /\ faults' = faults + 1 /\ failed' = failed \cup {call}
works == UNCHANGED <<faults, failed>>

\* Slip: any value of the property counts as a plan to swap.
init_prop_forced_list_AnyValue ==
    /\ at("plan")
    /\ \/ stor_swapped' = (planned_swap # NONE) /\ works
       \/ stor_swapped' = FALSE /\ fails("plan")
    /\ goto("arrange")
    /\ UNCHANGED <<planned_swap, storage_list_xml, usbmsc, bootArg, storage_list, swapped,
                   fstab_storages, boots, plans>>

\* A regular file, readable, private to root; else the property stays unset.
init_prop_forced_list ==
    /\ at("plan")
    /\ \/ stor_swapped' = (planned_swap = 1) /\ works
       \/ stor_swapped' = FALSE /\ fails("plan")
    /\ goto("arrange")
    /\ UNCHANGED <<planned_swap, storage_list_xml, usbmsc, bootArg, storage_list, swapped,
                   fstab_storages, boots, plans>>

\* With swap_sdcc the SD card is on controller 1 and the eMMC on controller 2.
swap_sdcc(arg, list) ==
    IF arg \in {1, 2}
      THEN [list EXCEPT ![PRIMARY].emmc = FALSE, ![PRIMARY].sdcc = 1, ![PRIMARY].removable = FALSE,
                        ![SECONDARY].emmc = TRUE, ![SECONDARY].sdcc = 2,
                        ![SECONDARY].removable = FALSE, ![SECONDARY].allowMassStorage = FALSE]
      ELSE list

swapItems(list) == IF stor_swapped THEN [s \in Slots |-> list[1 - s]] ELSE list

\* Slip: the primary storage is always called internal.
describe_ByPlace(list) ==
    [s \in Slots |-> [list[s] EXCEPT !.storageDescription = IF s = PRIMARY THEN "internal" ELSE "sd_card"]]

describe(list) ==
    LET internal == IF list[SECONDARY].emmc /\ ~list[PRIMARY].emmc THEN SECONDARY ELSE PRIMARY
    IN [s \in Slots |-> [list[s] EXCEPT !.storageDescription =
                            IF s = internal THEN "internal" ELSE "sd_card"]]

arrange ==
    /\ at("arrange")
    /\ storage_list' = describe([swapItems(swap_sdcc(bootArg, storage_list)) EXCEPT ![PRIMARY].removable = FALSE])
    /\ swapped' = stor_swapped
    /\ goto("parts")
    /\ UNCHANGED <<planned_swap, storage_list_xml, usbmsc, bootArg, stor_swapped, fstab_storages,
                   failed, boots, plans, faults>>

\* Slip: the number is used without testing rc > 0.
get_part_num_Unchecked ==
    /\ at("parts")
    /\ storage_list' = [s \in Slots |-> [storage_list[s] EXCEPT !.part_num = usbmsc[storage_list[s].sdcc]]]
    /\ goto("fstab")
    /\ UNCHANGED <<planned_swap, storage_list_xml, usbmsc, bootArg, stor_swapped, swapped,
                   fstab_storages, failed, boots, plans, faults>>

\* The number of usbmsc on each controller, if there is one and its link can be read.
get_part_num ==
    /\ at("parts")
    /\ \E found \in SUBSET Slots :
        /\ storage_list' = [s \in Slots |->
               LET n == usbmsc[storage_list[s].sdcc]
               IN IF s \in found /\ n # NONE THEN [storage_list[s] EXCEPT !.part_num = n]
                  ELSE storage_list[s]]
        /\ IF found = Slots THEN works ELSE fails("parts")
    /\ goto("fstab")
    /\ UNCHANGED <<planned_swap, storage_list_xml, usbmsc, bootArg, stor_swapped, swapped,
                   fstab_storages, boots, plans>>

get_voldmanaged(s) ==
    [mount |-> s, part |-> storage_list[s].part_num, nonremovable |-> ~storage_list[s].removable]

\* Slip: the places of the template are filled by position, not by controller.
create_ftab_storage_ByPosition ==
    /\ at("fstab")
    /\ \/ fstab_storages' = [d \in Sdcc |-> get_voldmanaged(d - 1)] /\ works
       \/ UNCHANGED fstab_storages /\ fails("fstab")
    /\ goto("list")
    /\ UNCHANGED <<planned_swap, storage_list_xml, usbmsc, bootArg, stor_swapped, storage_list,
                   swapped, boots, plans>>

\* str_replace puts the entry of slot s in the place %d of the template, d its
\* controller; a place no slot has keeps its text.  Nothing is written when the
\* template or the output cannot be opened.
create_ftab_storage ==
    /\ at("fstab")
    /\ \/ /\ fstab_storages' = [d \in Sdcc |->
                 IF \E s \in Slots : storage_list[s].sdcc = d
                   THEN get_voldmanaged(CHOOSE s \in Slots : storage_list[s].sdcc = d) ELSE NONE]
          /\ works
       \/ UNCHANGED fstab_storages /\ fails("fstab")
    /\ goto("list")
    /\ UNCHANGED <<planned_swap, storage_list_xml, usbmsc, bootArg, stor_swapped, storage_list,
                   swapped, boots, plans>>

describes(list) ==
    [s \in Slots |-> [storageDescription |-> list[s].storageDescription, primary |-> s = PRIMARY,
                      removable |-> list[s].removable, allowMassStorage |-> list[s].allowMassStorage]]

\* fopen("w+") empties the old list; it stays as it is when fopen fails.
create_storage_list ==
    /\ at("list")
    /\ \/ storage_list_xml' = TORN /\ goto("write") /\ works
       \/ UNCHANGED storage_list_xml /\ goto("up") /\ fails("list")
    /\ UNCHANGED <<planned_swap, usbmsc, bootArg, memory, boots, plans>>

\* Nothing looks at the results of fprintf and fclose: a full /data leaves it torn.
writeList ==
    /\ at("write")
    /\ \/ storage_list_xml' = describes(storage_list) /\ works
       \/ UNCHANGED storage_list_xml /\ fails("list")
    /\ goto("up")
    /\ UNCHANGED <<planned_swap, usbmsc, bootArg, memory, boots, plans>>

-----------------------------------------------------------------------------
(* The device around it. *)

\* Power on, with whatever card is inserted: the ram disk and the memory of init are new.
Boot ==
    /\ at("off") /\ boots < MaxBoots
    /\ boots' = boots + 1
    /\ bootArg' \in SwapArgs
    /\ usbmsc' \in [Sdcc -> Parts \cup {NONE}]
    /\ stor_swapped' = FALSE /\ storage_list' = DefaultList
    /\ swapped' = NONE /\ fstab_storages' = NONE /\ failed' = {}
    /\ goto("plan")
    /\ UNCHANGED <<planned_swap, storage_list_xml, plans, faults>>

\* A reboot, or a loss of power during the boot.
PowerOff ==
    /\ pc # "off"
    /\ goto("off")
    /\ UNCHANGED <<planned_swap, storage_list_xml, usbmsc, bootArg, memory, failed, boots, plans, faults>>

\* The list preference main_storage: a persistent property is on /data at once.
onPreferenceChange(v) ==
    /\ at("up") /\ plans < MaxPlans
    /\ plans' = plans + 1
    /\ planned_swap' = v
    /\ UNCHANGED <<storage_list_xml, pc, usbmsc, bootArg, memory, failed, boots, faults>>

Init ==
    /\ planned_swap = NONE /\ storage_list_xml = NONE
    /\ pc = "off" /\ usbmsc = [d \in Sdcc |-> NONE] /\ bootArg \in SwapArgs
    /\ stor_swapped = FALSE /\ storage_list = DefaultList
    /\ swapped = NONE /\ fstab_storages = NONE /\ failed = {}
    /\ boots = 0 /\ plans = 0 /\ faults = 0

Next ==
    \/ init_prop_forced_list \/ arrange \/ get_part_num \/ create_ftab_storage
    \/ create_storage_list \/ writeList
    \/ Boot \/ PowerOff
    \/ \E v \in {0, 1} : onPreferenceChange(v)

Spec == Init /\ [][Next]_vars

-----------------------------------------------------------------------------
(* Properties. *)

Items == [emmc : BOOLEAN, sdcc : Sdcc, part_num : Parts \cup {AUTO},
          storageDescription : {"internal", "sd_card"}, removable : BOOLEAN, allowMassStorage : BOOLEAN]
Entries == [mount : Slots, part : Parts \cup {AUTO}, nonremovable : BOOLEAN]
Lists == [Slots -> [storageDescription : {"internal", "sd_card"}, primary : BOOLEAN,
                    removable : BOOLEAN, allowMassStorage : BOOLEAN]]

\* The variables have their types.
TypeOK ==
    /\ planned_swap \in {NONE, 0, 1} /\ storage_list_xml \in Lists \cup {NONE, TORN}
    /\ pc \in {"off", "plan", "arrange", "parts", "fstab", "list", "write", "up"}
    /\ usbmsc \in [Sdcc -> Parts \cup {NONE}] /\ bootArg \in SwapArgs
    /\ stor_swapped \in BOOLEAN /\ storage_list \in [Slots -> Items]
    /\ swapped \in BOOLEAN \cup {NONE} /\ fstab_storages \in [Sdcc -> Entries] \cup {NONE}
    /\ failed \subseteq {"plan", "parts", "fstab", "list"}
    /\ boots \in 0 .. MaxBoots /\ plans \in 0 .. MaxPlans /\ faults \in 0 .. MaxFaults

\* The eMMC is on controller 1 unless the boot argument says otherwise.
emmcSdcc == IF bootArg \in {1, 2} THEN 2 ELSE 1

\* What vold mounts: sdcard0 and sdcard1 are different controllers, sdcard0 is on the
\* second one exactly when the property says swapped, is never removable, and each
\* controller gets the number of its own partition.  Failing calls leave at most no
\* fstab or no number, never a wrong one.
FstabTrue ==
    fstab_storages # NONE =>
        /\ fstab_storages[1].mount # fstab_storages[2].mount
        /\ (swapped <=> fstab_storages[2].mount = PRIMARY)
        /\ \A d \in Sdcc :
              /\ fstab_storages[d].mount = PRIMARY => fstab_storages[d].nonremovable
              /\ fstab_storages[d].part \in {AUTO, usbmsc[d]}

\* vold and the framework agree on a device that is up and whose list was written in
\* this boot, whatever was left by boots that failed or lost power: the storage the
\* framework calls internal is the eMMC, at the place where vold mounts it, and is not
\* offered as mass storage; what vold holds nonremovable the framework does.
ViewsAgree ==
    pc = "up" /\ "list" \notin failed /\ fstab_storages # NONE =>
        \A d \in Sdcc :
            LET view == storage_list_xml[fstab_storages[d].mount] IN
            /\ view.storageDescription = "internal" <=> d = emmcSdcc
            /\ view.storageDescription = "internal" => ~view.allowMassStorage
            /\ view.removable = ~fstab_storages[d].nonremovable

\* A boot that could read the plan comes up with the main storage of the last plan made
\* before it, however many boots failed or lost power since that plan was made.
PlanApplied == [][pc # "up" /\ pc' = "up" /\ "plan" \notin failed' => swapped' = (planned_swap' = 1)]_vars
=============================================================================
