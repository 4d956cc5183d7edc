----------------------------- MODULE MmcExtCsd -----------------------------
(***************************************************************************)
(* The commands of mmc_utils that change EXT_CSD, the register file of an    *)
(* eMMC card (mmc_utils/mmc_cmds.c).  Each command is a process: it reads    *)
(* the whole register file, decides, and then writes one byte per ioctl;     *)
(* the partitioning commands then check the sizes and set the one-time       *)
(* programmable PARTITION_SETTING_COMPLETED.  An ioctl may fail, the card    *)
(* may ignore a byte although the ioctl succeeds, the process may be killed  *)
(* and the card may lose power between any two of them.                      *)
(*                                                                          *)
(* A byte is the set of its bits, so | is union and & ~ is difference;       *)
(* registers keep the addresses of mmc.h, on which the commands do           *)
(* arithmetic.                                                               *)
(***************************************************************************)
EXTENDS Integers, Sequences

CONSTANTS
    Procs,          \* mmc processes that may run at the same time
    Commands,       \* the command lines users run
    HcWpGrpSize, HcEraseGrpSize, SecCount, MaxEnhSizeMult,  \* read-only registers
    Word,           \* 2^32: width of unsigned int and of unsigned long on the device
    Supports,       \* the optional features cards may have, sets of the names below
    MaxCommands, MaxFaults, MaxCycles       \* bounds

Features == {"enh_attribute", "hs_ctrl_rel", "en_rel_wr", "native_4k", "emulating", "bkops",
             "v4_5", "cache"}
\* The group sizes are bytes of EXT_CSD; their product fits into a word, which
\* has at most 32 bits.
ASSUME SizesAssumption ==
    /\ HcWpGrpSize \in 1 .. 255 /\ HcEraseGrpSize \in 1 .. 255
    /\ SecCount \in Nat \ {0} /\ MaxEnhSizeMult \in Nat
    /\ Word \in Nat /\ Word > 512 * 255 * 255 /\ Word \div 65536 <= 65536
ASSUME BoundsAssumption == MaxCommands \in Nat /\ MaxFaults \in Nat /\ MaxCycles \in Nat
\* Command lines by their operation, with numbers as strtol returns them.
Lengths == 0 .. Word - 1
CommandLines ==
    [op : {"gp"}, yes : BOOLEAN, length : Lengths, p : Int, enh : BOOLEAN, ext : Nat]
      \cup [op : {"enh"}, yes : BOOLEAN, start : Lengths, length : Lengths]
      \cup [op : {"rel"}, yes : BOOLEAN, p : Nat]
      \cup [op : {"bootpart"}, area : Int, ack : BOOLEAN]
      \cup [op : {"bootbus"}, mode : {"single_backward", "single_hs", "dual"},
           reset : {"x1", "retain"}, width : {"x1", "x4", "x8"}]
      \cup [op : {"cache"}, value : {0, 1}]
      \cup [op : {"wp", "native", "hwreset_en", "hwreset_dis", "bkops", "sanitize"}]
ASSUME CommandsAssumption == \A c \in Commands : c \in CommandLines
ASSUME SupportsAssumption == Supports \subseteq SUBSET Features

VARIABLES
    card,           \* EXT_CSD, the writable registers
    support,        \* EXT_CSD, what the read-only registers offer
    proc,           \* per process: place, command line, register writes still to do
    sealedBy,       \* history: the command that set PARTITION_SETTING_COMPLETED
    dryWritten,     \* history: areas whose size was last written by a dry run
    missed,         \* history: the card ignored a byte of the last partitioning command
    before,         \* history: the extended attribute the last gp create found
    commands, faults, cycles

vars == <<card, support, proc, sealedBy, dryWritten, missed, before, commands, faults, cycles>>

Byte == 0 .. 7
toByte(n) == {b \in Byte : (n \div 2^b) % 2 = 1}
number(B) ==
    LET bit(b) == IF b \in B THEN 2^b ELSE 0
    IN bit(0) + bit(1) + bit(2) + bit(3) + bit(4) + bit(5) + bit(6) + bit(7)

CACHE_CTRL == 33
EXT_PARTITIONS_ATTRIBUTE_0 == 52
USE_NATIVE_SECTOR == 62
ENH_START_ADDR_0 == 136
ENH_SIZE_MULT_0 == 140
GP_SIZE_MULT_1_0 == 143
PARTITION_SETTING_COMPLETED == 155
PARTITIONS_ATTRIBUTE == 156
RST_N_FUNCTION == 162
BKOPS_EN == 163
SANITIZE_START == 165
WR_REL_SET == 167
BOOT_WP == 173
ERASE_GROUP_DEF == 175
BOOT_BUS_CONDITIONS == 177
PART_CONFIG == 179

\* The settings PARTITION_SETTING_COMPLETED makes permanent.
PartitionRegs == {52, 53} \cup 136 .. 154 \cup {PARTITIONS_ATTRIBUTE, WR_REL_SET}
\* The settings that do not survive a power cycle.
VolatileRegs == {CACHE_CTRL, ERASE_GROUP_DEF, SANITIZE_START, BOOT_WP}
Regs == PartitionRegs \cup VolatileRegs
          \cup {USE_NATIVE_SECTOR, PARTITION_SETTING_COMPLETED, RST_N_FUNCTION, BKOPS_EN,
                BOOT_BUS_CONDITIONS, PART_CONFIG}
Sealed == card[PARTITION_SETTING_COMPLETED] # {}

NoCommand == [op |-> "none"]
Idle == [pc |-> "idle", cmd |-> NoCommand, writes |-> <<>>]
Partitioning == {"gp", "enh", "rel"}

-----------------------------------------------------------------------------
(* The values the commands compute from their arguments and the snapshot e. *)

Align == (512 * HcWpGrpSize * HcEraseGrpSize) % Word
sizeMult(length_kib) == ((length_kib + Align \div 2) % Word) \div Align
blockAddressed == SecCount > 2 * 1024 * 1024 * (1024 \div 512)
startAddr(start_kib) ==
    LET a == ((start_kib * 1024) % Word) \div (IF blockAddressed THEN 512 ELSE 1)
    IN (a \div Align) * Align

\* Digit d of the size of general purpose partition p.  ENH_SIZE_MULT lies
\* just below the partitions, where partition 0 would be.
sizeAddress(p, d) == GP_SIZE_MULT_1_0 + d + (p - 1) * 3
\* C rounds (partition - 1) / 2 towards zero.
extAddress(p) == EXT_PARTITIONS_ATTRIBUTE_0 + IF p = 0 THEN 0 ELSE (p - 1) \div 2

\* Slip: the number is cut to a byte before its digits are taken.
bigEndian_OneByte(base, n, digits) ==
    [i \in 1 .. digits |-> <<base + digits - i,
                             toByte(((n % 256) \div 256^(digits - i)) % 256)>>]
bigEndian(base, n, digits) ==
    [i \in 1 .. digits |-> <<base + digits - i, toByte((n \div 256^(digits - i)) % 256)>>]

attribute(e, p, on) == IF on THEN e[PARTITIONS_ATTRIBUTE] \cup {p}
                             ELSE e[PARTITIONS_ATTRIBUTE] \ {p}
\* ext_attr << (4 * ((partition - 1) % 2)), as a byte.  For partition 0 the
\* code shifts by -4, which leaves no bit of a byte on either instruction set
\* the tool is built for.
shifted(ext_attr, p) ==
    IF p = 0 THEN {} ELSE {b + 4 * ((p - 1) % 2) : b \in toByte(ext_attr)} \cap Byte

\* Slip: the mask of the wrong half is kept when the attribute is cleared.
extAttribute_WrongNibble(e, p, ext_attr) ==
    LET old == e[extAddress(p)] IN
    IF ext_attr # 0
      THEN old \cup shifted(ext_attr, p)
      ELSE old \cap IF p % 2 = 1 THEN 0 .. 3 ELSE 4 .. 7
extAttribute(e, p, ext_attr) ==
    LET old == e[extAddress(p)] IN
    IF ext_attr # 0
      THEN old \cup shifted(ext_attr, p)
      ELSE old \cap IF p % 2 = 1 THEN 4 .. 7 ELSE 0 .. 3

\* The half of the extended attribute byte that is partition p's.
extNibble(e, p) == {b \in 0 .. 3 : b + 4 * ((p - 1) % 2) \in e[extAddress(p)]}

do_create_gp_partition(c, e) ==
    <<<<ERASE_GROUP_DEF, {0}>>>>
      \o bigEndian(sizeAddress(c.p, 0), sizeMult(c.length), 3)
      \o <<<<PARTITIONS_ATTRIBUTE, attribute(e, c.p, c.enh)>>,
           <<extAddress(c.p), extAttribute(e, c.p, c.ext)>>>>

do_enh_area_set(c, e) ==
    <<<<ERASE_GROUP_DEF, {0}>>>>
      \o bigEndian(ENH_START_ADDR_0, startAddr(c.start), 4)
      \o bigEndian(ENH_SIZE_MULT_0, sizeMult(c.length), 3)
      \o <<<<PARTITIONS_ATTRIBUTE, attribute(e, 0, TRUE)>>>>

\* Slip: the partition number is not cut to the width of the register.
do_write_reliability_set_Wide(c, e) ==
    <<<<WR_REL_SET, e[WR_REL_SET] \cup {c.p}>>>>

do_write_reliability_set(c, e) ==
    <<<<WR_REL_SET, e[WR_REL_SET] \cup ({c.p} \cap Byte)>>>>

\* Slip: switching the boot area leaves the bits of the user area.
do_write_boot_en_KeepsBits(c, e) ==
    LET old == e[PART_CONFIG]
        enabled == CASE c.area = 1 -> (old \cup {3}) \ {4}
                     [] c.area = 2 -> (old \cup {4}) \ {3}
                     [] c.area = 7 -> old \cup {3, 4, 5}
    IN <<<<PART_CONFIG, IF c.ack THEN enabled \cup {6} ELSE enabled \ {6}>>>>

do_write_boot_en(c, e) ==
    LET old == e[PART_CONFIG]
        enabled == CASE c.area = 1 -> (old \cup {3}) \ {4, 5}
                     [] c.area = 2 -> (old \cup {4}) \ {3, 5}
                     [] c.area = 7 -> old \cup {3, 4, 5}
    IN <<<<PART_CONFIG, IF c.ack THEN enabled \cup {6} ELSE enabled \ {6}>>>>

do_boot_bus_conditions_set(c) ==
    <<<<BOOT_BUS_CONDITIONS,
        (CASE c.mode = "single_backward" -> {} [] c.mode = "single_hs" -> {3}
           [] c.mode = "dual" -> {4})
        \cup (CASE c.reset = "x1" -> {} [] c.reset = "retain" -> {2})
        \cup (CASE c.width = "x1" -> {} [] c.width = "x4" -> {0} [] c.width = "x8" -> {1})>>>>

do_disable_512B_emulation ==
    IF {"native_4k", "emulating", "en_rel_wr"} \subseteq support
      THEN <<<<USE_NATIVE_SECTOR, {0}>>>> ELSE <<>>

do_writeprotect_set(e) == <<<<BOOT_WP, e[BOOT_WP] \cup {0}>>>>
do_hwreset(value) == <<<<RST_N_FUNCTION, value>>>>
do_write_bkops_en == <<<<BKOPS_EN, {0}>>>>
do_cache_ctrl(value) == <<<<CACHE_CTRL, toByte(value)>>>>
do_sanitize == <<<<SANITIZE_START, {0}>>>>

\* The register writes of command c, in order, from the snapshot e.
Program(c, e) ==
    CASE c.op = "gp" -> do_create_gp_partition(c, e)
      [] c.op = "enh" -> do_enh_area_set(c, e)
      [] c.op = "rel" -> do_write_reliability_set(c, e)
      [] c.op = "wp" -> do_writeprotect_set(e)
      [] c.op = "native" -> do_disable_512B_emulation
      [] c.op = "bootpart" -> do_write_boot_en(c, e)
      [] c.op = "bootbus" -> do_boot_bus_conditions_set(c)
      [] c.op = "hwreset_en" -> do_hwreset({0})
      [] c.op = "hwreset_dis" -> do_hwreset({1})
      [] c.op = "bkops" -> do_write_bkops_en
      [] c.op = "cache" -> do_cache_ctrl(c.value)
      [] c.op = "sanitize" -> do_sanitize

badArguments(c) ==
    \/ c.op = "gp" /\ (c.p \notin 0 .. 4 \/ (c.enh /\ c.ext # 0))
    \/ c.op = "bootpart" /\ c.area \notin {1, 2, 7}

unsupported(c) ==
    \/ c.op = "enh" /\ "enh_attribute" \notin support
    \/ c.op = "rel" /\ "hs_ctrl_rel" \notin support
    \/ c.op = "bkops" /\ "bkops" \notin support
    \/ c.op = "cache" /\ ~ {"v4_5", "cache"} \subseteq support

\* Slip: write reliability does not look whether the card is partitioned.
alreadyPartitioned_NotRel(c, e) ==
    c.op \in {"gp", "enh"} /\ e[PARTITION_SETTING_COMPLETED] # {}
alreadyPartitioned(c, e) ==
    c.op \in Partitioning /\ e[PARTITION_SETTING_COMPLETED] # {}

\* Slip: a permanently disabled reset is not recognised.
resetChosen_OnlyEnabled(c, e) ==
    c.op \in {"hwreset_en", "hwreset_dis"} /\ e[RST_N_FUNCTION] \cap {0, 1} = {0}
resetChosen(c, e) ==
    c.op \in {"hwreset_en", "hwreset_dis"} /\ e[RST_N_FUNCTION] \cap {0, 1} \in {{0}, {1}}

\* The arguments or the snapshot make the command exit before it writes.
Refused(c, e) ==
    badArguments(c) \/ unsupported(c) \/ alreadyPartitioned(c, e) \/ resetChosen(c, e)

\* The multiplier that the three bytes of area p hold.
mult(e, p) == number(e[sizeAddress(p, 2)]) * 65536 + number(e[sizeAddress(p, 1)]) * 256
                + number(e[sizeAddress(p, 0)])
Areas == 0 .. 4
sizeKiB(e, p) == (Align * mult(e, p)) % Word
\* The size of the areas in S together.
totalKiB(e, S) ==
    LET size(p) == IF p \in S THEN sizeKiB(e, p) ELSE 0
    IN (size(0) + size(1) + size(2) + size(3) + size(4)) % Word
enhanced(e) == Areas \cap e[PARTITIONS_ATTRIBUTE]

\* Slip: the size of the enhanced user area is left out of the total.
check_enhanced_area_total_limit_NoUser(e) ==
    /\ totalKiB(e, enhanced(e)) <= (Align * MaxEnhSizeMult) % Word
    /\ totalKiB(e, Areas \ {0}) <= SecCount \div 2

check_enhanced_area_total_limit(e) ==
    /\ totalKiB(e, enhanced(e)) <= (Align * MaxEnhSizeMult) % Word
    /\ totalKiB(e, Areas) <= SecCount \div 2

-----------------------------------------------------------------------------
(* Steps of a process. *)

Exit(m) == proc' = [proc EXCEPT ![m] = Idle]
Fault == faults < MaxFaults /\ faults' = faults + 1
NoFault == UNCHANGED faults

attributeFound(c, e) == IF c.op = "gp" /\ c.p # 0 THEN extNibble(e, c.p) ELSE {}

\* read_extcsd and everything up to the first write.  A read that fails ends
\* the command like a refusal.
Invoke(m, c) ==
    /\ proc[m] = Idle /\ commands < MaxCommands
    /\ commands' = commands + 1
    /\ IF Refused(c, card) \/ Program(c, card) = <<>>
         THEN UNCHANGED <<proc, missed, before>>
         ELSE /\ proc' = [proc EXCEPT ![m] = [pc |-> "write", cmd |-> c,
                                              writes |-> Program(c, card)]]
              /\ IF c.op \in Partitioning
                   THEN missed' = FALSE /\ before' = attributeFound(c, card)
                   ELSE UNCHANGED <<missed, before>>
    /\ UNCHANGED <<card, support, sealedBy, dryWritten, faults, cycles>>

\* The card takes a byte.
store(m, r, v) ==
    /\ card' = [card EXCEPT ![r] = v]
    /\ dryWritten' =
         LET areas == {p \in Areas : \E d \in 0 .. 2 : r = sizeAddress(p, d)}
         IN IF proc[m].cmd.op \in Partitioning /\ ~proc[m].cmd.yes
              THEN dryWritten \cup areas ELSE dryWritten \ areas

\* Where a command goes after its last register write.
afterWrites(c) == CASE c.op \in {"gp", "enh"} -> "check"
                    [] c.op = "rel" -> "seal"
                    [] OTHER -> "idle"

goOn(m) ==
    LET rest == Tail(proc[m].writes)
        next == IF rest # <<>> THEN "write" ELSE afterWrites(proc[m].cmd)
    IN IF next = "idle" THEN Exit(m)
       ELSE proc' = [proc EXCEPT ![m].pc = next, ![m].writes = rest]

write_extcsd_value(m) ==
    /\ proc[m].pc = "write"
    /\ store(m, Head(proc[m].writes)[1], Head(proc[m].writes)[2])
    /\ goOn(m)
    /\ UNCHANGED <<support, sealedBy, missed, before, commands, cycles>> /\ NoFault

\* The card refuses the switch: the ioctl succeeds and SWITCH_ERROR stands in
\* the status, which the commands read for PARTITION_SETTING_COMPLETED only.
write_extcsd_value_Ignored(m) ==
    /\ proc[m].pc = "write" /\ Fault
    /\ goOn(m)
    /\ missed' = (missed \/ proc[m].cmd.op \in Partitioning)
    /\ UNCHANGED <<card, support, sealedBy, dryWritten, before, commands, cycles>>

\* The ioctl reports an error, after the card has taken the byte or not.
write_extcsd_value_Fails(m) ==
    /\ proc[m].pc = "write" /\ Fault
    /\ \/ store(m, Head(proc[m].writes)[1], Head(proc[m].writes)[2])
       \/ UNCHANGED <<card, dryWritten>>
    /\ Exit(m)
    /\ UNCHANGED <<support, sealedBy, missed, before, commands, cycles>>

\* check_enhanced_area_total_limit on a new snapshot.
CheckLimits(m) ==
    /\ proc[m].pc = "check"
    /\ \/ /\ check_enhanced_area_total_limit(card)
          /\ proc' = [proc EXCEPT ![m].pc = "seal"]
          /\ NoFault
       \/ /\ ~check_enhanced_area_total_limit(card)
          /\ Exit(m) /\ NoFault
       \/ Exit(m) /\ Fault
    /\ UNCHANGED <<card, support, sealedBy, dryWritten, missed, before, commands, cycles>>

seal(m) ==
    /\ card' = [card EXCEPT ![PARTITION_SETTING_COMPLETED] = {0}]
    /\ sealedBy' = IF Sealed THEN sealedBy ELSE proc[m].cmd

\* The last step; a dry run stops here, with all registers written.
set_partitioning_setting_completed(m) ==
    /\ proc[m].pc = "seal"
    /\ \/ ~proc[m].cmd.yes /\ UNCHANGED <<card, sealedBy>> /\ NoFault
       \/ proc[m].cmd.yes /\ seal(m) /\ NoFault
       \* the ioctl fails, or the card answers SWITCH_ERROR in the status
       \/ proc[m].cmd.yes /\ (seal(m) \/ UNCHANGED <<card, sealedBy>>) /\ Fault
    /\ Exit(m)
    /\ UNCHANGED <<support, dryWritten, missed, before, commands, cycles>>

-----------------------------------------------------------------------------
(* The environment. *)

\* The process is killed between two ioctls.
Kill(m) ==
    /\ proc[m] # Idle /\ Fault
    /\ Exit(m)
    /\ UNCHANGED <<card, support, sealedBy, dryWritten, missed, before, commands, cycles>>

\* Partition settings that were not completed are lost; volatile registers are
\* reset; 4 KB sectors come into use; every process is gone.
PowerCycle ==
    /\ cycles < MaxCycles
    /\ cycles' = cycles + 1
    /\ LET lost == VolatileRegs \cup IF Sealed THEN {} ELSE PartitionRegs
       IN card' = [r \in Regs |-> IF r \in lost THEN {} ELSE card[r]]
    /\ dryWritten' = IF Sealed THEN dryWritten ELSE {}
    /\ support' = IF card[USE_NATIVE_SECTOR] # {} THEN support \ {"emulating"} ELSE support
    /\ proc' = [m \in Procs |-> Idle]
    /\ UNCHANGED <<sealedBy, missed, before, commands, faults>>

\* PART_CONFIG's low bits are the partition the kernel is accessing.
Init ==
    /\ \E acc \in {{}, {0}} : card = [r \in Regs |-> IF r = PART_CONFIG THEN acc ELSE {}]
    /\ support \in Supports
    /\ proc = [m \in Procs |-> Idle]
    /\ sealedBy = NoCommand
    /\ dryWritten = {}
    /\ missed = FALSE /\ before = {}
    /\ commands = 0 /\ faults = 0 /\ cycles = 0

Step(m) ==
    \/ \E c \in Commands : Invoke(m, c)
    \/ write_extcsd_value(m)
    \/ write_extcsd_value_Ignored(m)
    \/ write_extcsd_value_Fails(m)
    \/ CheckLimits(m)
    \/ set_partitioning_setting_completed(m)
    \/ Kill(m)

Next == PowerCycle \/ \E m \in Procs : Step(m)

Spec == Init /\ [][Next]_vars

-----------------------------------------------------------------------------
(* Properties. *)

\* A register is a byte, a running command has work left, and only a sealed
\* card has a command that sealed it.
TypeOK ==
    /\ card \in [Regs -> SUBSET Byte]
    /\ support \subseteq Features
    /\ \A m \in Procs :
         \/ proc[m] = Idle
         \/ /\ proc[m].cmd \in Commands
            /\ proc[m].pc \in {"write", "check", "seal"}
            /\ proc[m].pc = "write" <=> proc[m].writes # <<>>
            /\ \A i \in DOMAIN proc[m].writes : proc[m].writes[i] \in Regs \X SUBSET Byte
    /\ sealedBy \in Commands \cup {NoCommand} /\ (Sealed <=> sealedBy # NoCommand)
    /\ dryWritten \subseteq Areas
    /\ missed \in BOOLEAN /\ before \subseteq 0 .. 3
    /\ commands \in 0 .. MaxCommands /\ faults \in 0 .. MaxFaults /\ cycles \in 0 .. MaxCycles

totalMult(e, S) ==
    LET size(p) == IF p \in S THEN mult(e, p) ELSE 0
    IN size(0) + size(1) + size(2) + size(3) + size(4)
start(e) == [d \in 0 .. 3 |-> e[ENH_START_ADDR_0 + d]]

\* The registers e say what the command line c asks for.  gp create adds its
\* extended attribute to the one it found (801), which it clears only for
\* ext_attr 0.  Partition 0, which line 721 accepts, is the user area; it has
\* no extended attribute.
Holds(e, c, found) ==
    /\ c.op = "gp" =>
         /\ mult(e, c.p) = sizeMult(c.length)
         /\ (c.p \in e[PARTITIONS_ATTRIBUTE]) = c.enh
         /\ c.p # 0 =>
              extNibble(e, c.p) = IF c.ext = 0 THEN {} ELSE found \cup toByte(c.ext)
    /\ c.op = "enh" =>
         /\ mult(e, 0) = sizeMult(c.length)
         /\ start(e) = [d \in 0 .. 3 |-> toByte((startAddr(c.start) \div 256^d) % 256)]
         /\ 0 \in e[PARTITIONS_ATTRIBUTE]
    /\ c.op = "rel" /\ c.p \in Byte => c.p \in e[WR_REL_SET]

\* What was made permanent is what the sealing command line says, unless the
\* card ignored one of its bytes: after interrupted, failed and dry runs before
\* it and power cycles in between, all digits of its sizes and its attribute
\* bits are in the card.  Two exceptions are the code's.  It never reads the
\* status of these writes (762-805), so that it seals a card that has refused
\* one of them; and the extended attribute sealed is the one asked for together
\* with the bits an earlier run left: after a dry run with 1, a run with 2
\* seals 3.
SealedAsRequested == Sealed /\ ~missed => Holds(card, sealedBy, before)

\* A card sealed by gp create or enh_area set does not exceed its capacity or
\* its maximum enhanced size, whatever earlier commands left in its registers.
SealedWithinLimits ==
    Sealed /\ sealedBy.op \in {"gp", "enh"} =>
      /\ Align * totalMult(card, Areas) <= SecCount \div 2
      /\ totalMult(card, enhanced(card)) <= MaxEnhSizeMult

\* "Device is already partitioned": once the card is sealed, by a command that
\* finished or one that was told the ioctl had failed, no command changes a
\* partition setting and no power cycle clears one.  This is for commands run
\* one at a time: they take no lock, and of two that overlap the slower one
\* writes to the card the other has sealed.
SealedFrozen ==
    [][Sealed => /\ Sealed'
                 /\ \A r \in PartitionRegs : card'[r] = card[r]]_vars

\* Area q of the cards e and f, whose extended attribute may have been cleared.
SameArea(e, f, q, clears) ==
    /\ mult(f, q) = mult(e, q)
    /\ (q \in f[PARTITIONS_ATTRIBUTE]) = (q \in e[PARTITIONS_ATTRIBUTE])
    /\ q # 0 => \/ extNibble(f, q) = extNibble(e, q)
                \/ clears /\ extNibble(f, q) = {}
\* Line 803 clears partition 2's attribute for partition 0 and ext_attr 0.
ClearsSecond(c, q) == c.p = 0 /\ c.ext = 0 /\ q = 2

\* gp create changes no other area than the one it names: sizes, enhanced and
\* extended attributes share bytes and have neighbouring addresses.  The area
\* named by partition 0 is the user area (761-777 write ENH_SIZE_MULT), although
\* the message at 722 says [1-4]; that command with ext_attr 0 does change one
\* thing of another partition, it may clear the extended attribute of partition 2.
OthersUntouched ==
    [][\A m \in Procs :
         proc[m].pc = "write" /\ proc[m].cmd.op = "gp" /\ cycles' = cycles =>
           \A q \in Areas \ {proc[m].cmd.p} :
             SameArea(card, card', q, ClearsSecond(proc[m].cmd, q))]_vars

\* bootpart enable leaves PART_CONFIG with one of the boot areas 0, 1, 2 and 7
\* enabled, from whichever area was enabled before.
BootAreaValid ==
    {b \in {3, 4, 5} : b \in card[PART_CONFIG]} \in {{}, {3}, {4}, {3, 4, 5}}

\* "H/W Reset is already permanently enabled": a choice made once is not changed.
HwResetOnce ==
    [][card[RST_N_FUNCTION] # {} => card'[RST_N_FUNCTION] = card[RST_N_FUNCTION]]_vars

\* "Dry-run only unless -y is passed": what a dry run wrote is never made
\* permanent.
DryRunHarmless == Sealed => dryWritten = {}
=============================================================================
