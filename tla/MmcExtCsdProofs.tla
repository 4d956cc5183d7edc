-------------------------- MODULE MmcExtCsdProofs --------------------------
(***************************************************************************)
(* What the card keeps for ever, for every set of command lines, every card  *)
(* geometry and every width of the arithmetic.  Types and the boot area need *)
(* no assumption on who runs the commands; the rest holds as long as one mmc *)
(* process runs at a time.                                                   *)
(***************************************************************************)
EXTENDS MmcExtCsd, SequenceTheorems, TLAPS

Resets == {"hwreset_en", "hwreset_dis"}
OtpRegs == {PARTITION_SETTING_COMPLETED, RST_N_FUNCTION}

\* A boot area the card knows: none, 1, 2 or the user area.
ValidBoot(v) == {b \in {3, 4, 5} : b \in v} \in {{}, {3}, {4}, {3, 4, 5}}

\* The register writes a command may still have to do.
PartitionWrites == (PartitionRegs \cup {ERASE_GROUP_DEF}) \X SUBSET Byte
OtherWrites == {w \in (Regs \ (OtpRegs \cup PartitionRegs)) \X SUBSET Byte :
                  w[1] = PART_CONFIG => ValidBoot(w[2])}
AllowedWrites(c, w) ==
    /\ c.op \in Partitioning => w \in Seq(PartitionWrites)
    /\ c.op \in Resets => w \in {<<<<RST_N_FUNCTION, {0}>>>>, <<<<RST_N_FUNCTION, {1}>>>>}
    /\ c.op \notin Partitioning \cup Resets => w \in Seq(OtherWrites)

\* The state of a process that is between its first and its last ioctl.
Process(pc, c, w) == [pc |-> pc, cmd |-> c, writes |-> w]
Working(q) ==
    /\ q = Process(q.pc, q.cmd, q.writes)
    /\ q.cmd \in Commands
    /\ \/ q.pc = "write" /\ q.writes # <<>> /\ AllowedWrites(q.cmd, q.writes)
       \/ q.pc = "check" /\ q.writes = <<>> /\ q.cmd.op \in {"gp", "enh"}
       \/ q.pc = "seal" /\ q.writes = <<>> /\ q.cmd.op \in Partitioning

\* What holds with any number of processes.
CardInv ==
    /\ card \in [Regs -> SUBSET Byte]
    /\ card[RST_N_FUNCTION] \in {{}, {0}, {1}}
    /\ ValidBoot(card[PART_CONFIG])
ProcInv ==
    /\ DOMAIN proc = Procs
    /\ \A m \in Procs : proc[m] = Idle \/ Working(proc[m])

\* write_extcsd_value sends a register's number and a byte: the digits of a
\* number, from the most significant one, go to successive registers.
LEMMA DigitsTyped ==
    ASSUME NEW n, NEW base \in Int, NEW digits \in Nat, NEW S,
           \A d \in 0 .. digits - 1 : base + d \in S
    PROVE  bigEndian(base, n, digits) \in Seq(S \X SUBSET Byte)
<1> DEFINE s == bigEndian(base, n, digits)
<1>1. \A i \in 1 .. digits : s[i] \in S \X SUBSET Byte
  <2> SUFFICES ASSUME NEW i \in 1 .. digits PROVE s[i] \in S \X SUBSET Byte
    OBVIOUS
  <2>1. base + digits - i \in S
    <3>1. digits - i \in 0 .. digits - 1
      OBVIOUS
    <3>2. base + (digits - i) \in S
      BY <3>1
    <3>3. base + digits - i = base + (digits - i)
      OBVIOUS
    <3> QED BY <3>2, <3>3
  <2>2. toByte((n \div 256^(digits - i)) % 256) \in SUBSET Byte
    BY DEF toByte
  <2>3. s[i] = <<base + digits - i, toByte((n \div 256^(digits - i)) % 256)>>
    BY DEF bigEndian
  <2> QED BY <2>1, <2>2, <2>3
<1>2. s \in [1 .. digits -> S \X SUBSET Byte]
  BY <1>1 DEF bigEndian
<1> QED BY <1>2

\* A command line fixes what its operation may write.
LEMMA ProgramTyped ==
    ASSUME NEW c \in Commands, NEW e \in [Regs -> SUBSET Byte], ~Refused(c, e)
    PROVE  AllowedWrites(c, Program(c, e))
<1> USE DEF ERASE_GROUP_DEF, PARTITIONS_ATTRIBUTE, PARTITION_SETTING_COMPLETED, WR_REL_SET,
            RST_N_FUNCTION, CACHE_CTRL, SANITIZE_START, BOOT_WP, USE_NATIVE_SECTOR, BKOPS_EN,
            BOOT_BUS_CONDITIONS, PART_CONFIG, EXT_PARTITIONS_ATTRIBUTE_0, ENH_START_ADDR_0,
            ENH_SIZE_MULT_0, GP_SIZE_MULT_1_0
<1>0. c \in CommandLines
  BY CommandsAssumption
<1>r. /\ PartitionRegs \cup {ERASE_GROUP_DEF} = {52, 53} \cup 136 .. 154 \cup {156, 167, 175}
      /\ Regs \ (OtpRegs \cup PartitionRegs) = {33, 175, 165, 173, 62, 163, 177, 179}
  BY DEF Regs, OtpRegs, PartitionRegs, VolatileRegs
<1>w. ASSUME NEW r \in {52, 53} \cup 136 .. 154 \cup {156, 167, 175}, NEW v \in SUBSET Byte
      PROVE  <<r, v>> \in PartitionWrites
  BY <1>r DEF PartitionWrites
<1>o. ASSUME NEW r \in {33, 165, 173, 62, 163, 177, 179}, NEW v \in SUBSET Byte,
             r = 179 => ValidBoot(v)
      PROVE  <<<<r, v>>>> \in Seq(OtherWrites)
  <2>1. <<r, v>> \in OtherWrites
    BY <1>r, <1>o DEF OtherWrites
  <2> QED BY <2>1
<1>z. {0} \in SUBSET Byte
  BY DEF Byte
<1>1. CASE c.op = "gp"
  <2>1. c.p \in 0 .. 4
    BY <1>1, <1>0 DEF Refused, badArguments, CommandLines
  <2>2. bigEndian(sizeAddress(c.p, 0), sizeMult(c.length), 3) \in Seq(PartitionWrites)
    <3>1. /\ sizeAddress(c.p, 0) \in Int
          /\ \A d \in 0 .. 3 - 1 : sizeAddress(c.p, 0) + d \in PartitionRegs
      BY <2>1, <1>r DEF sizeAddress
    <3> QED BY <3>1, DigitsTyped DEF PartitionWrites
  <2>3. <<ERASE_GROUP_DEF, {0}>> \in PartitionWrites
    BY <1>w, <1>z
  <2>4. <<PARTITIONS_ATTRIBUTE, attribute(e, c.p, c.enh)>> \in PartitionWrites
    <3>1. attribute(e, c.p, c.enh) \in SUBSET Byte
      BY <2>1 DEF attribute, Byte, Regs, PartitionRegs
    <3> QED BY <3>1, <1>w
  <2>5. <<extAddress(c.p), extAttribute(e, c.p, c.ext)>> \in PartitionWrites
    <3>1. extAddress(c.p) \in {52, 53}
      BY <2>1 DEF extAddress
    <3>2. e[extAddress(c.p)] \in SUBSET Byte
      BY <3>1 DEF Regs, PartitionRegs
    <3>3. shifted(c.ext, c.p) \in SUBSET Byte
      BY DEF shifted
    <3>4. extAttribute(e, c.p, c.ext) \in SUBSET Byte
      BY <3>2, <3>3 DEF extAttribute
    <3> QED BY <3>1, <3>4, <1>w
  <2>6. Program(c, e) = do_create_gp_partition(c, e)
    BY <1>1 DEF Program
  <2>7. do_create_gp_partition(c, e) \in Seq(PartitionWrites)
    <3>1. <<<<ERASE_GROUP_DEF, {0}>>>> \in Seq(PartitionWrites)
      BY <2>3
    <3>2. <<<<PARTITIONS_ATTRIBUTE, attribute(e, c.p, c.enh)>>,
            <<extAddress(c.p), extAttribute(e, c.p, c.ext)>>>> \in Seq(PartitionWrites)
      BY <2>4, <2>5
    <3> QED BY <3>1, <3>2, <2>2 DEF do_create_gp_partition
  <2> QED BY <2>6, <2>7, <1>1 DEF AllowedWrites, Partitioning, Resets
<1>2. CASE c.op = "enh"
  <2>1. bigEndian(ENH_START_ADDR_0, startAddr(c.start), 4) \in Seq(PartitionWrites)
    <3>1. /\ ENH_START_ADDR_0 \in Int /\ 4 \in Nat
          /\ \A d \in 0 .. 4 - 1 : ENH_START_ADDR_0 + d \in PartitionRegs
      BY <1>r
    <3> QED BY <3>1, DigitsTyped DEF PartitionWrites
  <2>2. bigEndian(ENH_SIZE_MULT_0, sizeMult(c.length), 3) \in Seq(PartitionWrites)
    <3>1. /\ ENH_SIZE_MULT_0 \in Int /\ 3 \in Nat
          /\ \A d \in 0 .. 3 - 1 : ENH_SIZE_MULT_0 + d \in PartitionRegs
      BY <1>r
    <3> QED BY <3>1, DigitsTyped DEF PartitionWrites
  <2>3. <<<<ERASE_GROUP_DEF, {0}>>>> \in Seq(PartitionWrites)
    <3>1. <<ERASE_GROUP_DEF, {0}>> \in PartitionWrites
      BY <1>w, <1>z
    <3> QED BY <3>1
  <2>4. <<<<PARTITIONS_ATTRIBUTE, attribute(e, 0, TRUE)>>>> \in Seq(PartitionWrites)
    <3>1. attribute(e, 0, TRUE) \in SUBSET Byte
      BY DEF attribute, Byte, Regs, PartitionRegs
    <3>2. <<PARTITIONS_ATTRIBUTE, attribute(e, 0, TRUE)>> \in PartitionWrites
      BY <3>1, <1>w
    <3> QED BY <3>2
  <2>5. Program(c, e) = do_enh_area_set(c, e)
    BY <1>2 DEF Program
  <2>6. do_enh_area_set(c, e) \in Seq(PartitionWrites)
    <3> QED BY <2>1, <2>2, <2>3, <2>4 DEF do_enh_area_set
  <2> QED BY <2>5, <2>6, <1>2 DEF AllowedWrites, Partitioning, Resets
<1>3. CASE c.op = "rel"
  <2>1. e[WR_REL_SET] \cup ({c.p} \cap Byte) \in SUBSET Byte
    BY DEF Regs, PartitionRegs
  <2>2. <<<<WR_REL_SET, e[WR_REL_SET] \cup ({c.p} \cap Byte)>>>> \in Seq(PartitionWrites)
    <3>1. <<WR_REL_SET, e[WR_REL_SET] \cup ({c.p} \cap Byte)>> \in PartitionWrites
      BY <2>1, <1>w
    <3> QED BY <3>1
  <2>3. Program(c, e) = <<<<WR_REL_SET, e[WR_REL_SET] \cup ({c.p} \cap Byte)>>>>
    BY <1>3 DEF Program, do_write_reliability_set
  <2> QED BY <2>2, <2>3, <1>3 DEF AllowedWrites, Partitioning, Resets
<1>4. CASE c.op \in Resets
  <2>1. CASE c.op = "hwreset_en"
    <3>1. Program(c, e) = <<<<RST_N_FUNCTION, {0}>>>>
      BY <2>1 DEF Program, do_hwreset
    <3> QED BY <3>1, <2>1 DEF AllowedWrites, Resets, Partitioning
  <2>2. CASE c.op = "hwreset_dis"
    <3>1. Program(c, e) = <<<<RST_N_FUNCTION, {1}>>>>
      BY <2>2 DEF Program, do_hwreset
    <3> QED BY <3>1, <2>2 DEF AllowedWrites, Resets, Partitioning
  <2> QED BY <1>4, <2>1, <2>2 DEF Resets
<1>5. CASE c.op \notin Partitioning \cup Resets
  <2>1. Program(c, e) \in Seq(OtherWrites) => AllowedWrites(c, Program(c, e))
    BY <1>5 DEF AllowedWrites
  <2>2. CASE c.op = "wp"
    <3>1. e[BOOT_WP] \cup {0} \in SUBSET Byte
      BY DEF Byte, Regs, VolatileRegs
    <3>2. Program(c, e) = <<<<BOOT_WP, e[BOOT_WP] \cup {0}>>>>
      BY <2>2 DEF Program, do_writeprotect_set
    <3> QED BY <3>1, <3>2, <2>1, <1>o
  <2>3. CASE c.op = "native"
    <3>1. Program(c, e) \in {<<>>, <<<<USE_NATIVE_SECTOR, {0}>>>>}
      BY <2>3 DEF Program, do_disable_512B_emulation
    <3>2. <<>> \in Seq(OtherWrites)
      OBVIOUS
    <3>3. <<<<USE_NATIVE_SECTOR, {0}>>>> \in Seq(OtherWrites)
      BY <1>o, <1>z
    <3> QED BY <3>1, <3>2, <3>3, <2>1
  <2>4. CASE c.op = "bootpart"
    <3>1. c.area \in {1, 2, 7}
      BY <2>4 DEF Refused, badArguments
    <3>2. e[PART_CONFIG] \in SUBSET Byte
      BY DEF Regs
    <3> DEFINE old == e[PART_CONFIG]
               enabled == CASE c.area = 1 -> (old \cup {3}) \ {4, 5}
                            [] c.area = 2 -> (old \cup {4}) \ {3, 5}
                            [] c.area = 7 -> old \cup {3, 4, 5}
               v == IF c.ack THEN enabled \cup {6} ELSE enabled \ {6}
    <3>a. enabled \in SUBSET Byte
      <4>1. CASE c.area = 1
        BY <4>1, <3>2 DEF Byte
      <4>2. CASE c.area = 2
        BY <4>2, <3>2 DEF Byte
      <4>3. CASE c.area = 7
        BY <4>3, <3>2 DEF Byte
      <4> QED BY <3>1, <4>1, <4>2, <4>3
    <3>b. v \in SUBSET Byte
      <4> HIDE DEF enabled
      <4> QED BY <3>a DEF Byte
    <3>c. ValidBoot(v)
      <4>1. CASE c.area = 1
        BY <4>1 DEF ValidBoot
      <4>2. CASE c.area = 2
        BY <4>2 DEF ValidBoot
      <4>3. CASE c.area = 7
        BY <4>3 DEF ValidBoot
      <4> QED BY <3>1, <4>1, <4>2, <4>3
    <3>3. do_write_boot_en(c, e) = <<<<PART_CONFIG, v>>>>
      BY DEF do_write_boot_en
    <3> HIDE DEF v
    <3>4. Program(c, e) = do_write_boot_en(c, e)
      BY <2>4 DEF Program
    <3> QED BY <3>b, <3>c, <3>3, <3>4, <2>1, <1>o
  <2>5. CASE c.op = "bootbus"
    <3>1. /\ c.mode \in {"single_backward", "single_hs", "dual"}
          /\ c.reset \in {"x1", "retain"}
          /\ c.width \in {"x1", "x4", "x8"}
      BY <2>5, <1>0 DEF CommandLines
    <3> DEFINE mode == CASE c.mode = "single_backward" -> {} [] c.mode = "single_hs" -> {3}
                         [] c.mode = "dual" -> {4}
               reset == CASE c.reset = "x1" -> {} [] c.reset = "retain" -> {2}
               width == CASE c.width = "x1" -> {} [] c.width = "x4" -> {0}
                          [] c.width = "x8" -> {1}
    <3>a. mode \in {{}, {3}, {4}}
      BY <3>1
    <3>b. reset \in {{}, {2}}
      BY <3>1
    <3>c. width \in {{}, {0}, {1}}
      BY <3>1
    <3>d. mode \cup reset \cup width \in SUBSET Byte
      <4> HIDE DEF mode, reset, width
      <4> QED BY <3>a, <3>b, <3>c DEF Byte
    <3>2. do_boot_bus_conditions_set(c) = <<<<BOOT_BUS_CONDITIONS, mode \cup reset \cup width>>>>
      BY DEF do_boot_bus_conditions_set
    <3> HIDE DEF mode, reset, width
    <3>3. Program(c, e) = do_boot_bus_conditions_set(c)
      BY <2>5 DEF Program
    <3> QED BY <3>d, <3>2, <3>3, <2>1, <1>o
  <2>6. CASE c.op = "bkops"
    <3>1. Program(c, e) = <<<<BKOPS_EN, {0}>>>>
      BY <2>6 DEF Program, do_write_bkops_en
    <3> QED BY <3>1, <2>1, <1>o, <1>z
  <2>7. CASE c.op = "cache"
    <3>1. Program(c, e) = <<<<CACHE_CTRL, toByte(c.value)>>>>
      BY <2>7 DEF Program, do_cache_ctrl
    <3>2. toByte(c.value) \in SUBSET Byte
      BY DEF toByte
    <3> QED BY <3>1, <3>2, <2>1, <1>o
  <2>8. CASE c.op = "sanitize"
    <3>1. Program(c, e) = <<<<SANITIZE_START, {0}>>>>
      BY <2>8 DEF Program, do_sanitize
    <3> QED BY <3>1, <2>1, <1>o, <1>z
  <2> QED BY <1>0, <1>5, <2>2, <2>3, <2>4, <2>5, <2>6, <2>7, <2>8
          DEF CommandLines, Partitioning, Resets
<1> QED BY <1>1, <1>2, <1>3, <1>4, <1>5 DEF Partitioning

-----------------------------------------------------------------------------
(* The steps by what they do to the card and to the process that takes them. *)

Puts(m, q) ==
    /\ DOMAIN proc' = Procs /\ proc'[m] = q
    /\ \A n \in Procs \ {m} : proc'[n] = proc[n]
FirstReg(m) == Head(proc[m].writes)[1]
FirstByte(m) == Head(proc[m].writes)[2]

Steady == UNCHANGED <<missed, before>>

Starts(m, c) ==
    /\ proc[m] = Idle /\ ~Refused(c, card) /\ Program(c, card) # <<>>
    /\ Puts(m, Process("write", c, Program(c, card)))
    /\ c.op \in Partitioning => missed' = FALSE /\ before' = attributeFound(c, card)
    /\ c.op \notin Partitioning => Steady
    /\ UNCHANGED <<card, sealedBy>>

\* The process has sent a byte.
MovesOn(m) ==
    \/ Puts(m, Idle)
    \/ /\ Tail(proc[m].writes) # <<>>
       /\ Puts(m, Process("write", proc[m].cmd, Tail(proc[m].writes)))
    \/ /\ Tail(proc[m].writes) = <<>> /\ proc[m].cmd.op \in {"gp", "enh"}
       /\ Puts(m, Process("check", proc[m].cmd, <<>>))
    \/ /\ Tail(proc[m].writes) = <<>> /\ proc[m].cmd.op = "rel"
       /\ Puts(m, Process("seal", proc[m].cmd, <<>>))

Stores(m) ==
    /\ proc[m].pc = "write" /\ Working(proc[m])
    /\ card' = [card EXCEPT ![FirstReg(m)] = FirstByte(m)] /\ UNCHANGED sealedBy /\ Steady
    /\ MovesOn(m)

\* The card has ignored the byte.
Skips(m) ==
    /\ proc[m].pc = "write" /\ Working(proc[m])
    /\ UNCHANGED <<card, sealedBy, before>>
    /\ missed' = (missed \/ proc[m].cmd.op \in Partitioning)
    /\ MovesOn(m)

Passes(m) ==
    /\ proc[m].pc = "check" /\ Working(proc[m])
    /\ check_enhanced_area_total_limit(card)
    /\ Puts(m, Process("seal", proc[m].cmd, <<>>))
    /\ UNCHANGED <<card, sealedBy>> /\ Steady

Seals(m) ==
    /\ proc[m].pc = "seal" /\ Working(proc[m])
    /\ seal(m)
    /\ Puts(m, Idle) /\ Steady

Quits(m) == Puts(m, Idle) /\ UNCHANGED <<card, sealedBy>> /\ Steady

Nothing == UNCHANGED <<card, proc, sealedBy>> /\ Steady

Kinds ==
    \/ PowerCycle
    \/ Nothing
    \/ \E m \in Procs : \/ \E c \in Commands : Starts(m, c)
                        \/ Stores(m) \/ Skips(m) \/ Passes(m) \/ Seals(m) \/ Quits(m)

LEMMA GoesOn ==
    ASSUME ProcInv, NEW m \in Procs, proc[m].pc = "write", goOn(m)
    PROVE  Working(proc[m]) /\ MovesOn(m)
<1> DEFINE rest == Tail(proc[m].writes)
           next == IF rest # <<>> THEN "write" ELSE afterWrites(proc[m].cmd)
<1>1. Working(proc[m])
  BY DEF ProcInv, Idle
<1>3. CASE next = "idle"
  <2>1. Puts(m, Idle)
    BY <1>3 DEF goOn, Exit, Puts, ProcInv
  <2> QED BY <1>1, <2>1 DEF MovesOn
<1>4. CASE next # "idle"
  <2>1. proc' = [proc EXCEPT ![m].pc = next, ![m].writes = rest]
    BY <1>4 DEF goOn
  <2>2. proc[m] = Process(proc[m].pc, proc[m].cmd, proc[m].writes)
    BY <1>1 DEF Working
  <2>3. Puts(m, Process(next, proc[m].cmd, rest))
    <3> HIDE DEF next, rest
    <3> QED BY <2>1, <2>2 DEF Puts, Process, ProcInv
  <2>4. CASE rest # <<>>
    BY <1>1, <2>3, <2>4 DEF MovesOn
  <2>5. CASE rest = <<>> /\ proc[m].cmd.op \in {"gp", "enh"}
    <3>1. next = "check"
      BY <2>5 DEF afterWrites
    <3> QED BY <1>1, <2>3, <2>5, <3>1 DEF MovesOn
  <2>6. CASE rest = <<>> /\ proc[m].cmd.op = "rel"
    <3>1. next = "seal"
      BY <2>6 DEF afterWrites
    <3> QED BY <1>1, <2>3, <2>6, <3>1 DEF MovesOn
  <2>7. CASE rest = <<>> /\ proc[m].cmd.op \notin {"gp", "enh", "rel"}
    BY <1>4, <2>7 DEF afterWrites
  <2> QED BY <2>4, <2>5, <2>6, <2>7
<1> QED BY <1>3, <1>4

LEMMA EveryStep ==
    ASSUME ProcInv, Next
    PROVE  Kinds
<1>1. ASSUME NEW m \in Procs, NEW c \in Commands, Invoke(m, c)
      PROVE  Starts(m, c) \/ Nothing
  BY <1>1 DEF Invoke, Starts, Nothing, Steady, Puts, Process, ProcInv
<1>2. ASSUME NEW m \in Procs, write_extcsd_value_Fails(m)
      PROVE  Stores(m) \/ Quits(m)
  <2>1. proc[m].pc = "write" /\ Working(proc[m])
    BY <1>2 DEF ProcInv, write_extcsd_value_Fails, Idle
  <2>2. Puts(m, Idle) /\ UNCHANGED sealedBy /\ Steady
    BY <1>2 DEF write_extcsd_value_Fails, Exit, Puts, ProcInv, Steady
  <2>3. \/ card' = [card EXCEPT ![FirstReg(m)] = FirstByte(m)]
        \/ UNCHANGED card
    BY <1>2 DEF write_extcsd_value_Fails, store, FirstReg, FirstByte
  <2> QED BY <2>1, <2>2, <2>3 DEF Stores, MovesOn, Quits
<1>3. ASSUME NEW m \in Procs, CheckLimits(m)
      PROVE  Passes(m) \/ Quits(m)
  <2>1. proc[m].pc = "check" /\ Working(proc[m]) /\ UNCHANGED <<card, sealedBy>> /\ Steady
    BY <1>3 DEF ProcInv, CheckLimits, Idle, Steady
  <2>2. CASE Exit(m)
    BY <2>1, <2>2 DEF Quits, Exit, Puts, ProcInv
  <2>3. CASE check_enhanced_area_total_limit(card) /\ proc' = [proc EXCEPT ![m].pc = "seal"]
    <3>1. proc[m] = Process(proc[m].pc, proc[m].cmd, <<>>)
      BY <2>1 DEF Working
    <3>3. Puts(m, Process("seal", proc[m].cmd, <<>>))
      BY <2>3, <3>1 DEF Puts, Process, ProcInv
    <3> QED BY <2>1, <2>3, <3>3 DEF Passes
  <2> QED BY <1>3, <2>2, <2>3 DEF CheckLimits
<1>4. ASSUME NEW m \in Procs, set_partitioning_setting_completed(m)
      PROVE  Seals(m) \/ Quits(m)
  <2>1. proc[m].pc = "seal" /\ Working(proc[m]) /\ Puts(m, Idle)
    BY <1>4 DEF ProcInv, set_partitioning_setting_completed, Idle, Exit, Puts
  <2> QED BY <1>4, <2>1 DEF set_partitioning_setting_completed, Seals, Quits, Steady
<1>5. ASSUME NEW m \in Procs, Kill(m)
      PROVE  Quits(m)
  BY <1>5 DEF Kill, Quits, Exit, Puts, ProcInv, Steady
<1>6. ASSUME NEW m \in Procs, write_extcsd_value(m)
      PROVE  Stores(m)
  <2>1. proc[m].pc = "write" /\ Working(proc[m]) /\ MovesOn(m)
    BY <1>6, GoesOn DEF write_extcsd_value
  <2> QED BY <1>6, <2>1 DEF write_extcsd_value, store, Stores, Steady, FirstReg, FirstByte
<1>7. ASSUME NEW m \in Procs, write_extcsd_value_Ignored(m)
      PROVE  Skips(m)
  <2>1. proc[m].pc = "write" /\ Working(proc[m]) /\ MovesOn(m)
    BY <1>7, GoesOn DEF write_extcsd_value_Ignored
  <2> QED BY <1>7, <2>1 DEF write_extcsd_value_Ignored, Skips
<1> QED BY <1>1, <1>2, <1>3, <1>4, <1>5, <1>6, <1>7 DEF Next, Step, Kinds

-----------------------------------------------------------------------------
(* Types and the boot area, with any number of processes. *)

\* Where the one-time programmable and the partition registers are.
LEMMA RegFacts ==
    /\ PARTITION_SETTING_COMPLETED \in Regs \ (VolatileRegs \cup PartitionRegs)
    /\ RST_N_FUNCTION \in Regs \ (VolatileRegs \cup PartitionRegs)
    /\ PART_CONFIG \in Regs \ (VolatileRegs \cup PartitionRegs \cup OtpRegs)
    /\ ERASE_GROUP_DEF \in Regs \ (OtpRegs \cup PartitionRegs \cup {PART_CONFIG})
    /\ PartitionRegs \subseteq Regs \ VolatileRegs
    /\ PARTITION_SETTING_COMPLETED # RST_N_FUNCTION
BY DEF Regs, VolatileRegs, PartitionRegs, OtpRegs, PARTITION_SETTING_COMPLETED, CACHE_CTRL,
       ERASE_GROUP_DEF, SANITIZE_START, BOOT_WP, PARTITIONS_ATTRIBUTE, WR_REL_SET, PART_CONFIG,
       RST_N_FUNCTION

\* The byte a process sends: each kind of command stays away from the registers
\* that are not its own.
LEMMA FirstWrite ==
    ASSUME NEW m \in Procs, Working(proc[m]), proc[m].pc = "write"
    PROVE  /\ FirstReg(m) \in Regs \ {PARTITION_SETTING_COMPLETED} /\ FirstByte(m) \in SUBSET Byte
           /\ FirstReg(m) = RST_N_FUNCTION =>
                proc[m].cmd.op \in Resets /\ FirstByte(m) \in {{0}, {1}}
           /\ FirstReg(m) = PART_CONFIG => ValidBoot(FirstByte(m))
           /\ FirstReg(m) \in PartitionRegs => proc[m].cmd.op \in Partitioning
<1> DEFINE w == proc[m].writes
           c == proc[m].cmd
<1>1. w # <<>> /\ AllowedWrites(c, w)
  BY DEF Working
<1>h. ASSUME NEW S, w \in Seq(S) PROVE Head(w) \in S
  BY <1>h, <1>1
<1>2. CASE c.op \in Partitioning
  <2>1. w \in Seq(PartitionWrites)
    BY <1>1, <1>2 DEF AllowedWrites
  <2>2. Head(w) \in PartitionWrites
    BY <2>1, <1>h
  <2>3. FirstReg(m) \in PartitionRegs \cup {ERASE_GROUP_DEF} /\ FirstByte(m) \in SUBSET Byte
    BY <2>2 DEF PartitionWrites, FirstReg, FirstByte
  <2> QED BY <2>3, <1>2, RegFacts DEF OtpRegs
<1>3. CASE c.op \in Resets
  <2>1. w \in {<<<<RST_N_FUNCTION, {0}>>>>, <<<<RST_N_FUNCTION, {1}>>>>}
    BY <1>1, <1>3 DEF AllowedWrites
  <2>2. FirstReg(m) = RST_N_FUNCTION /\ FirstByte(m) \in {{0}, {1}}
    BY <2>1 DEF FirstReg, FirstByte
  <2>3. FirstByte(m) \in SUBSET Byte
    BY <2>2 DEF Byte
  <2> QED BY <2>2, <2>3, <1>3, RegFacts DEF OtpRegs
<1>4. CASE c.op \notin Partitioning \cup Resets
  <2>1. w \in Seq(OtherWrites)
    BY <1>1, <1>4 DEF AllowedWrites
  <2>2. Head(w) \in OtherWrites
    BY <2>1, <1>h
  <2>3. /\ FirstReg(m) \in Regs \ (OtpRegs \cup PartitionRegs) /\ FirstByte(m) \in SUBSET Byte
        /\ FirstReg(m) = PART_CONFIG => ValidBoot(FirstByte(m))
    BY <2>2 DEF OtherWrites, FirstReg, FirstByte
  <2> QED BY <2>3 DEF OtpRegs
<1> QED BY <1>2, <1>3, <1>4

LEMMA CardKept ==
    ASSUME CardInv, Kinds
    PROVE  CardInv'
<1>0. card \in [Regs -> SUBSET Byte]
  BY DEF CardInv
<1>v. ValidBoot({})
  BY DEF ValidBoot
<1>1. CASE PowerCycle
  <2>1. PICK lost \in SUBSET (VolatileRegs \cup PartitionRegs) :
          card' = [r \in Regs |-> IF r \in lost THEN {} ELSE card[r]]
    BY <1>1 DEF PowerCycle
  <2>2. card' \in [Regs -> SUBSET Byte]
    BY <2>1, <1>0
  <2>3. card'[RST_N_FUNCTION] = card[RST_N_FUNCTION] /\ card'[PART_CONFIG] = card[PART_CONFIG]
    BY <2>1, RegFacts
  <2> QED BY <2>2, <2>3 DEF CardInv
<1>2. CASE UNCHANGED card
  BY <1>2 DEF CardInv
<1>3. ASSUME NEW m \in Procs, Stores(m) PROVE CardInv'
  <2>1. card' = [card EXCEPT ![FirstReg(m)] = FirstByte(m)] /\ Working(proc[m]) /\ proc[m].pc = "write"
    BY <1>3 DEF Stores
  <2>2. card' \in [Regs -> SUBSET Byte]
    BY <2>1, <1>0, FirstWrite
  <2>3. card'[RST_N_FUNCTION] \in {{}, {0}, {1}}
    <3>1. card'[RST_N_FUNCTION] =
            IF FirstReg(m) = RST_N_FUNCTION THEN FirstByte(m) ELSE card[RST_N_FUNCTION]
      BY <2>1, <1>0, RegFacts
    <3> QED BY <3>1, <2>1, FirstWrite DEF CardInv
  <2>4. ValidBoot(card'[PART_CONFIG])
    <3>1. card'[PART_CONFIG] = IF FirstReg(m) = PART_CONFIG THEN FirstByte(m) ELSE card[PART_CONFIG]
      BY <2>1, <1>0, RegFacts
    <3> QED BY <3>1, <2>1, FirstWrite DEF CardInv
  <2> QED BY <2>2, <2>3, <2>4 DEF CardInv
<1>4. ASSUME NEW m \in Procs, Seals(m) PROVE CardInv'
  <2>1. card' = [card EXCEPT ![PARTITION_SETTING_COMPLETED] = {0}]
    BY <1>4 DEF Seals, seal
  <2>2. card' \in [Regs -> SUBSET Byte]
    <3>1. {0} \in SUBSET Byte
      BY DEF Byte
    <3> QED BY <2>1, <3>1, <1>0
  <2>3. card'[RST_N_FUNCTION] = card[RST_N_FUNCTION] /\ card'[PART_CONFIG] = card[PART_CONFIG]
    BY <2>1, <1>0, RegFacts DEF OtpRegs
  <2> QED BY <2>2, <2>3 DEF CardInv
<1> QED BY <1>1, <1>2, <1>3, <1>4 DEF Kinds, Nothing, Starts, Skips, Passes, Quits

LEMMA ResetWrites ==
    ASSUME NEW w \in {<<<<RST_N_FUNCTION, {0}>>>>, <<<<RST_N_FUNCTION, {1}>>>>}
    PROVE  \E S : w \in Seq(S)
<1>1. w \in Seq({<<RST_N_FUNCTION, {0}>>, <<RST_N_FUNCTION, {1}>>})
  OBVIOUS
<1> QED BY <1>1

LEMMA OneWrite ==
    ASSUME NEW w \in {<<<<RST_N_FUNCTION, {0}>>>>, <<<<RST_N_FUNCTION, {1}>>>>}
    PROVE  Tail(w) = <<>>
<1>1. Len(w) = 1 /\ w \in Seq({<<RST_N_FUNCTION, {0}>>, <<RST_N_FUNCTION, {1}>>})
  OBVIOUS
<1>2. Tail(w) \in Seq({<<RST_N_FUNCTION, {0}>>, <<RST_N_FUNCTION, {1}>>}) /\ Len(Tail(w)) = 0
  BY <1>1
<1> QED BY <1>2, EmptySeq

LEMMA ProcKept ==
    ASSUME CardInv, ProcInv, Kinds
    PROVE  ProcInv'
<1>p. ASSUME NEW m \in Procs, NEW q, Puts(m, q), q = Idle \/ Working(q)
      PROVE  ProcInv'
  BY <1>p DEF Puts, ProcInv
<1>1. CASE PowerCycle
  BY <1>1 DEF PowerCycle, ProcInv
<1>2. CASE Nothing
  BY <1>2 DEF Nothing, ProcInv
<1>3. ASSUME NEW m \in Procs, NEW c \in Commands, Starts(m, c) PROVE ProcInv'
  <2>1. AllowedWrites(c, Program(c, card))
    BY <1>3, ProgramTyped DEF Starts, CardInv
  <2>2. Working(Process("write", c, Program(c, card)))
    BY <1>3, <2>1 DEF Starts, Working, Process
  <2> QED BY <1>3, <2>2, <1>p DEF Starts
<1>4. ASSUME NEW m \in Procs, Stores(m) \/ Skips(m) PROVE ProcInv'
  <2> DEFINE w == proc[m].writes
             c == proc[m].cmd
  <2>0. w # <<>> /\ AllowedWrites(c, w) /\ c \in Commands
    BY <1>4 DEF Stores, Skips, MovesOn, Working
  <2>1. CASE Tail(w) # <<>> /\ Puts(m, Process("write", c, Tail(w)))
    <3>1. c.op \notin Resets
      <4>1. ASSUME c.op \in Resets PROVE FALSE
        <5>1. w \in {<<<<RST_N_FUNCTION, {0}>>>>, <<<<RST_N_FUNCTION, {1}>>>>}
          BY <4>1, <2>0 DEF AllowedWrites
        <5> QED BY <2>1, <5>1, OneWrite
      <4> QED BY <4>1
    <3>2. AllowedWrites(c, Tail(w))
      <4>1. ASSUME NEW S, w \in Seq(S) PROVE Tail(w) \in Seq(S)
        BY <4>1, <2>0
      <4> HIDE DEF w, c
      <4> QED BY <4>1, <3>1, <2>0 DEF AllowedWrites
    <3>3. Working(Process("write", c, Tail(w)))
      <4> HIDE DEF w, c
      <4> QED BY <2>0, <2>1, <3>2 DEF Working, Process
    <3> QED BY <2>1, <3>3, <1>p
  <2>2. CASE Puts(m, Process("check", c, <<>>)) /\ c.op \in {"gp", "enh"}
    <3>1. Working(Process("check", c, <<>>))
      <4> HIDE DEF c
      <4> QED BY <2>0, <2>2 DEF Working, Process
    <3> QED BY <2>2, <3>1, <1>p
  <2>3. CASE Puts(m, Process("seal", c, <<>>)) /\ c.op = "rel"
    <3>1. Working(Process("seal", c, <<>>))
      <4> HIDE DEF c
      <4> QED BY <2>0, <2>3 DEF Working, Process, Partitioning
    <3> QED BY <2>3, <3>1, <1>p
  <2>4. CASE Puts(m, Idle)
    BY <2>4, <1>p
  <2> QED BY <1>4, <2>1, <2>2, <2>3, <2>4 DEF Stores, Skips, MovesOn
<1>5. ASSUME NEW m \in Procs, Passes(m) PROVE ProcInv'
  <2>1. proc[m].cmd \in Commands /\ proc[m].cmd.op \in {"gp", "enh"}
    BY <1>5 DEF Passes, Working
  <2>2. Working(Process("seal", proc[m].cmd, <<>>))
    BY <2>1 DEF Working, Process, Partitioning
  <2> QED BY <1>5, <2>2, <1>p DEF Passes
<1>6. ASSUME NEW m \in Procs, Seals(m) \/ Quits(m) PROVE ProcInv'
  BY <1>6, <1>p DEF Seals, Quits
<1> QED BY <1>1, <1>2, <1>3, <1>4, <1>5, <1>6 DEF Kinds

LEMMA NoCommandIsNone == NoCommand \notin Commands
<1> SUFFICES ASSUME NoCommand \in CommandLines PROVE FALSE
  BY CommandsAssumption
<1>1. NoCommand.op = "none"
  BY DEF NoCommand
<1> QED BY <1>1 DEF CommandLines

\* The card is completed exactly when some command has completed it.
SealInv ==
    /\ sealedBy \in Commands \cup {NoCommand}
    /\ Sealed <=> sealedBy # NoCommand

LEMMA SealKept ==
    ASSUME CardInv, SealInv, Kinds
    PROVE  SealInv'
<1>0. card \in [Regs -> SUBSET Byte] /\ sealedBy \in Commands \cup {NoCommand}
      /\ (Sealed <=> sealedBy # NoCommand)
  BY DEF CardInv, SealInv
<1>s. ASSUME card'[PARTITION_SETTING_COMPLETED] = card[PARTITION_SETTING_COMPLETED],
             sealedBy' = sealedBy
      PROVE  SealInv'
  BY <1>s, <1>0 DEF SealInv, Sealed
<1>1. CASE PowerCycle
  <2>1. PICK lost \in SUBSET (VolatileRegs \cup PartitionRegs) :
          card' = [r \in Regs |-> IF r \in lost THEN {} ELSE card[r]]
    BY <1>1 DEF PowerCycle
  <2>2. card'[PARTITION_SETTING_COMPLETED] = card[PARTITION_SETTING_COMPLETED]
    BY <2>1, RegFacts
  <2>3. sealedBy' = sealedBy
    BY <1>1 DEF PowerCycle
  <2> QED BY <2>2, <2>3, <1>s
<1>2. CASE UNCHANGED <<card, sealedBy>>
  BY <1>2, <1>s
<1>3. ASSUME NEW m \in Procs, Stores(m) PROVE SealInv'
  <2>1. card' = [card EXCEPT ![FirstReg(m)] = FirstByte(m)] /\ Working(proc[m]) /\ proc[m].pc = "write"
        /\ sealedBy' = sealedBy
    BY <1>3 DEF Stores
  <2>2. card'[PARTITION_SETTING_COMPLETED] = card[PARTITION_SETTING_COMPLETED]
    BY <2>1, <1>0, FirstWrite, RegFacts
  <2> QED BY <2>1, <2>2, <1>s
<1>4. ASSUME NEW m \in Procs, Seals(m) PROVE SealInv'
  <2>1. /\ card' = [card EXCEPT ![PARTITION_SETTING_COMPLETED] = {0}]
        /\ sealedBy' = IF Sealed THEN sealedBy ELSE proc[m].cmd
        /\ proc[m].cmd \in Commands
    BY <1>4 DEF Seals, seal, Working
  <2>2. card'[PARTITION_SETTING_COMPLETED] = {0}
    BY <2>1, <1>0, RegFacts
  <2>3. Sealed'
    BY <2>2 DEF Sealed
  <2>4. sealedBy' \in Commands /\ sealedBy' # NoCommand
    BY <2>1, <1>0, NoCommandIsNone
  <2> QED BY <2>3, <2>4 DEF SealInv
<1> QED BY <1>1, <1>2, <1>3, <1>4 DEF Kinds, Nothing, Starts, Skips, Passes, Quits

\* The counters, the features of the card and the histories.
RestInv ==
    /\ support \subseteq Features
    /\ dryWritten \subseteq Areas /\ missed \in BOOLEAN /\ before \subseteq 0 .. 3
    /\ commands \in 0 .. MaxCommands /\ faults \in 0 .. MaxFaults /\ cycles \in 0 .. MaxCycles

LEMMA RestKept ==
    ASSUME RestInv, Next
    PROVE  RestInv'
<1>b. MaxCommands \in Nat /\ MaxFaults \in Nat /\ MaxCycles \in Nat
  BY BoundsAssumption
<1>s. ASSUME NEW m \in Procs, NEW r, NEW v, store(m, r, v) PROVE dryWritten' \subseteq Areas
  BY <1>s DEF store, RestInv
<1>f. ASSUME Fault \/ NoFault PROVE faults' \in 0 .. MaxFaults
  BY <1>f, <1>b DEF Fault, NoFault, RestInv
<1>1. CASE PowerCycle
  BY <1>1, <1>b DEF PowerCycle, RestInv
<1>2. ASSUME NEW m \in Procs, NEW c \in Commands, Invoke(m, c) PROVE RestInv'
  <2>1. missed' \in BOOLEAN /\ before' \subseteq 0 .. 3
    BY <1>2 DEF Invoke, RestInv, attributeFound, extNibble
  <2> QED BY <2>1, <1>2, <1>b DEF Invoke, RestInv
<1>3. ASSUME NEW m \in Procs, write_extcsd_value(m) PROVE RestInv'
  <2>1. dryWritten' \subseteq Areas
    BY <1>3, <1>s DEF write_extcsd_value
  <2> QED BY <2>1, <1>3, <1>f DEF write_extcsd_value, RestInv
<1>4. ASSUME NEW m \in Procs, write_extcsd_value_Fails(m) PROVE RestInv'
  <2>1. dryWritten' \subseteq Areas
    BY <1>4, <1>s DEF write_extcsd_value_Fails, RestInv
  <2> QED BY <2>1, <1>4, <1>f DEF write_extcsd_value_Fails, RestInv
<1>5. ASSUME NEW m \in Procs, CheckLimits(m) PROVE RestInv'
  BY <1>5, <1>f DEF CheckLimits, RestInv
<1>6. ASSUME NEW m \in Procs, set_partitioning_setting_completed(m) PROVE RestInv'
  BY <1>6, <1>f DEF set_partitioning_setting_completed, RestInv
<1>7. ASSUME NEW m \in Procs, Kill(m) PROVE RestInv'
  BY <1>7, <1>f DEF Kill, RestInv
<1>8. ASSUME NEW m \in Procs, write_extcsd_value_Ignored(m) PROVE RestInv'
  BY <1>8, <1>f DEF write_extcsd_value_Ignored, RestInv
<1> QED BY <1>1, <1>2, <1>3, <1>4, <1>5, <1>6, <1>7, <1>8 DEF Next, Step

BaseInv == CardInv /\ ProcInv /\ SealInv /\ RestInv

LEMMA BaseInit == Init => BaseInv
<1> SUFFICES ASSUME Init PROVE BaseInv
  OBVIOUS
<1>1. PICK acc \in {{}, {0}} : card = [r \in Regs |-> IF r = PART_CONFIG THEN acc ELSE {}]
  BY DEF Init
<1>2. CardInv
  <2>1. card \in [Regs -> SUBSET Byte]
    BY <1>1 DEF Byte
  <2>2. card[RST_N_FUNCTION] = {}
    BY <1>1, RegFacts DEF OtpRegs
  <2>3. card[PART_CONFIG] = acc
    BY <1>1, RegFacts
  <2>4. ValidBoot(acc)
    BY DEF ValidBoot
  <2> QED BY <2>1, <2>2, <2>3, <2>4 DEF CardInv
<1>3. ProcInv
  BY DEF Init, ProcInv
<1>4. SealInv
  <2>1. card[PARTITION_SETTING_COMPLETED] = {}
    BY <1>1, RegFacts DEF OtpRegs
  <2> QED BY <2>1 DEF Init, SealInv, Sealed
<1>5. RestInv
  <2>1. missed \in BOOLEAN
    BY Zenon DEF Init
  <2> QED BY <2>1, BoundsAssumption, SupportsAssumption DEF Init, RestInv
<1> QED BY <1>2, <1>3, <1>4, <1>5 DEF BaseInv

LEMMA BaseNext == BaseInv /\ [Next]_vars => BaseInv'
<1>1. ASSUME BaseInv, UNCHANGED vars PROVE BaseInv'
  BY <1>1 DEF BaseInv, vars, CardInv, ProcInv, SealInv, RestInv, Sealed
<1>2. ASSUME BaseInv, Next PROVE BaseInv'
  BY <1>2, EveryStep, CardKept, ProcKept, SealKept, RestKept DEF BaseInv
<1> QED BY <1>1, <1>2

\* The registers a command may write are registers.
LEMMA AllowedTyped ==
    ASSUME NEW c, NEW w, AllowedWrites(c, w), NEW i \in DOMAIN w
    PROVE  w[i] \in Regs \X SUBSET Byte
<1>1. CASE c.op \in Partitioning
  <2>1. w[i] \in PartitionWrites
    BY <1>1 DEF AllowedWrites
  <2> QED BY <2>1, RegFacts DEF PartitionWrites
<1>2. CASE c.op \in Resets
  <2>1. w \in {<<<<RST_N_FUNCTION, {0}>>>>, <<<<RST_N_FUNCTION, {1}>>>>}
    BY <1>2 DEF AllowedWrites
  <2>2. w[i] \in {<<RST_N_FUNCTION, {0}>>, <<RST_N_FUNCTION, {1}>>}
    BY <2>1
  <2>3. {0} \in SUBSET Byte /\ {1} \in SUBSET Byte
    BY DEF Byte
  <2> QED BY <2>2, <2>3, RegFacts
<1>3. CASE c.op \notin Partitioning \cup Resets
  <2>1. w[i] \in OtherWrites
    BY <1>3 DEF AllowedWrites
  <2> QED BY <2>1 DEF OtherWrites
<1> QED BY <1>1, <1>2, <1>3

LEMMA BaseTypes == BaseInv => TypeOK
<1> SUFFICES ASSUME BaseInv PROVE TypeOK
  OBVIOUS
<1>1. ASSUME NEW m \in Procs, proc[m] # Idle
      PROVE  /\ proc[m].cmd \in Commands
             /\ proc[m].pc \in {"write", "check", "seal"}
             /\ proc[m].pc = "write" <=> proc[m].writes # <<>>
             /\ \A i \in DOMAIN proc[m].writes : proc[m].writes[i] \in Regs \X SUBSET Byte
  <2>1. Working(proc[m])
    BY <1>1 DEF BaseInv, ProcInv
  <2>2. CASE proc[m].pc = "write" /\ proc[m].writes # <<>> /\ AllowedWrites(proc[m].cmd, proc[m].writes)
    BY <2>1, <2>2, AllowedTyped DEF Working
  <2>3. CASE proc[m].pc \in {"check", "seal"} /\ proc[m].writes = <<>>
    BY <2>1, <2>3 DEF Working
  <2> QED BY <2>1, <2>2, <2>3 DEF Working
<1> QED BY <1>1 DEF TypeOK, BaseInv, CardInv, SealInv, RestInv

\* The variables have their types with any number of mmc processes, commands,
\* failures and power cycles; in particular every address a command computes is
\* one of the registers the tool means to write, whatever its arguments.
THEOREM ExtCsdTypes == Spec => []TypeOK
BY BaseInit, BaseNext, BaseTypes, PTL DEF Spec

\* However many processes run bootpart enable at the same time, PART_CONFIG has a
\* boot area the card knows: what each one writes is valid whatever it has read.
THEOREM BootAreaStaysValid == Spec => []BootAreaValid
<1>1. BaseInv => BootAreaValid
  BY DEF BaseInv, CardInv, ValidBoot, BootAreaValid
<1> QED BY <1>1, BaseInit, BaseNext, PTL DEF Spec

-----------------------------------------------------------------------------
(* One mmc process at a time: the commands take no lock on the device. *)

OneProcess == \A m, n \in Procs : m = n

\* While a partitioning command is past its test the card is not completed, and
\* while a reset command is past its test no choice has been made.
TestInv ==
    \A m \in Procs :
      proc[m] # Idle =>
        /\ proc[m].cmd.op \in Partitioning => ~Sealed
        /\ proc[m].cmd.op \in Resets => card[RST_N_FUNCTION] = {}

\* What a step of the only process leaves.
LEMMA OnlyOne ==
    ASSUME OneProcess, NEW m \in Procs, NEW q, Puts(m, q), NEW n \in Procs
    PROVE  n = m /\ proc'[n] = q
BY DEF OneProcess, Puts

LEMMA TestKept ==
    ASSUME OneProcess, BaseInv, TestInv, Kinds
    PROVE  TestInv'
<1>i. ASSUME NEW m \in Procs, Puts(m, Idle) PROVE TestInv'
  <2>1. \A n \in Procs : proc'[n] = Idle
    BY <1>i, OnlyOne
  <2> QED BY <2>1 DEF TestInv
<1>p. ASSUME NEW m \in Procs, NEW pc, NEW c, NEW w, Puts(m, Process(pc, c, w)),
             c.op \in Partitioning => ~Sealed',
             c.op \in Resets => card'[RST_N_FUNCTION] = {}
      PROVE  TestInv'
  <2>1. \A n \in Procs : proc'[n].cmd = c
    BY <1>p, OnlyOne DEF Process
  <2> QED BY <2>1, <1>p DEF TestInv
<1>0. CardInv
  BY DEF BaseInv
<1>1. CASE PowerCycle
  <2>1. \A n \in Procs : proc'[n] = Idle
    BY <1>1 DEF PowerCycle
  <2> QED BY <2>1 DEF TestInv
<1>2. CASE Nothing
  BY <1>2 DEF Nothing, TestInv, Sealed
<1>3. ASSUME NEW m \in Procs, NEW c \in Commands, Starts(m, c) PROVE TestInv'
  <2>1. c.op \in Partitioning => ~Sealed'
    BY <1>3 DEF Starts, Refused, alreadyPartitioned, Sealed
  <2>2. c.op \in Resets => card[RST_N_FUNCTION] = {}
    <3>1. c.op \in Resets => card[RST_N_FUNCTION] \cap {0, 1} \notin {{0}, {1}}
      BY <1>3 DEF Starts, Refused, resetChosen, Resets
    <3>2. {0} \cap {0, 1} = {0} /\ {1} \cap {0, 1} = {1}
      OBVIOUS
    <3> QED BY <3>1, <3>2, <1>0 DEF CardInv
  <2>3. card' = card
    BY <1>3 DEF Starts
  <2> QED BY <1>3, <2>1, <2>2, <2>3, <1>p DEF Starts
<1>4. ASSUME NEW m \in Procs, Stores(m) \/ Skips(m) PROVE TestInv'
  <2> DEFINE w == proc[m].writes
             c == proc[m].cmd
  <2>1. /\ card' = [card EXCEPT ![FirstReg(m)] = FirstByte(m)] \/ card' = card
        /\ Working(proc[m])
        /\ proc[m].pc = "write" /\ proc[m] # Idle
    BY <1>4 DEF Stores, Skips, MovesOn, Idle
  <2>2. card'[PARTITION_SETTING_COMPLETED] = card[PARTITION_SETTING_COMPLETED]
    BY <2>1, <1>0, FirstWrite, RegFacts DEF CardInv
  <2>3. c.op \in Partitioning => ~Sealed'
    BY <2>1, <2>2 DEF TestInv, Sealed
  <2>4. CASE c.op \notin Resets
    BY <1>4, <2>3, <2>4, <1>p, <1>i DEF Stores, Skips, MovesOn
  <2>5. CASE c.op \in Resets
    <3>1. w \in {<<<<RST_N_FUNCTION, {0}>>>>, <<<<RST_N_FUNCTION, {1}>>>>}
      BY <2>1, <2>5 DEF Working, AllowedWrites
    <3>4. Tail(w) = <<>>
      BY <3>1, OneWrite
    <3>5. c.op \notin {"gp", "enh", "rel"}
      BY <2>5 DEF Resets
    <3> QED BY <1>4, <3>4, <3>5, <1>i DEF Stores, Skips, MovesOn
  <2> QED BY <2>4, <2>5
<1>5. ASSUME NEW m \in Procs, Passes(m) PROVE TestInv'
  <2>1. proc[m].pc = "check" /\ proc[m] # Idle /\ card' = card
    BY <1>5 DEF Passes, Idle
  <2>2. /\ proc[m].cmd.op \in Partitioning => ~Sealed'
        /\ proc[m].cmd.op \in Resets => card'[RST_N_FUNCTION] = {}
    BY <2>1 DEF TestInv, Sealed
  <2> QED BY <1>5, <2>2, <1>p DEF Passes
<1>6. ASSUME NEW m \in Procs, Seals(m) \/ Quits(m) PROVE TestInv'
  BY <1>6, <1>i DEF Seals, Quits
<1> QED BY <1>1, <1>2, <1>3, <1>4, <1>5, <1>6 DEF Kinds

\* Once the card is completed no step changes a partition setting.
LEMMA SealedStep ==
    ASSUME BaseInv, TestInv, Kinds, Sealed
    PROVE  /\ card'[PARTITION_SETTING_COMPLETED] = {0} \/
                card'[PARTITION_SETTING_COMPLETED] = card[PARTITION_SETTING_COMPLETED]
           /\ \A r \in PartitionRegs : card'[r] = card[r]
           /\ sealedBy' = sealedBy /\ missed' = missed /\ before' = before
<1>0. card \in [Regs -> SUBSET Byte]
  BY DEF BaseInv, CardInv
<1>1. CASE PowerCycle
  <2>1. /\ card' = [r \in Regs |-> IF r \in VolatileRegs THEN {} ELSE card[r]]
        /\ sealedBy' = sealedBy /\ missed' = missed /\ before' = before
    BY <1>1 DEF PowerCycle
  <2> QED BY <2>1, RegFacts
<1>2. CASE UNCHANGED <<card, sealedBy, missed, before>>
  BY <1>2
<1>5. ASSUME NEW m \in Procs, NEW c \in Commands, Starts(m, c)
      PROVE  UNCHANGED <<card, sealedBy, missed, before>>
  <2>1. c.op \notin Partitioning
    BY <1>5 DEF Starts, Refused, alreadyPartitioned, Sealed
  <2> QED BY <1>5, <2>1 DEF Starts, Steady
<1>6. ASSUME NEW m \in Procs, Skips(m) PROVE UNCHANGED <<card, sealedBy, missed, before>>
  <2>1. proc[m] # Idle /\ missed \in BOOLEAN
    BY <1>6 DEF Skips, Idle, BaseInv, RestInv
  <2>2. proc[m].cmd.op \notin Partitioning
    BY <2>1 DEF TestInv
  <2>3. missed' = missed
    BY <1>6, <2>1, <2>2, Zenon DEF Skips
  <2> QED BY <1>6, <2>3 DEF Skips
<1>3. ASSUME NEW m \in Procs, Stores(m)
      PROVE  /\ card'[PARTITION_SETTING_COMPLETED] = card[PARTITION_SETTING_COMPLETED]
             /\ \A r \in PartitionRegs : card'[r] = card[r]
             /\ sealedBy' = sealedBy /\ missed' = missed /\ before' = before
  <2>1. /\ card' = [card EXCEPT ![FirstReg(m)] = FirstByte(m)] /\ Working(proc[m])
        /\ proc[m].pc = "write" /\ proc[m] # Idle /\ sealedBy' = sealedBy
        /\ missed' = missed /\ before' = before
    BY <1>3 DEF Stores, Steady, Idle
  <2>2. proc[m].cmd.op \notin Partitioning
    BY <2>1 DEF TestInv
  <2>3. FirstReg(m) \in Regs \ ({PARTITION_SETTING_COMPLETED} \cup PartitionRegs)
    BY <2>1, <2>2, FirstWrite
  <2> QED BY <2>1, <2>3, <1>0, RegFacts
<1>4. ASSUME NEW m \in Procs, Seals(m) PROVE FALSE
  <2>1. proc[m].pc = "seal" /\ proc[m] # Idle /\ proc[m].cmd.op \in Partitioning
    BY <1>4 DEF Seals, Idle, Working
  <2> QED BY <2>1 DEF TestInv
<1> QED BY <1>1, <1>2, <1>3, <1>4, <1>5, <1>6 DEF Kinds, Nothing, Passes, Quits, Steady

OtpInv == BaseInv /\ TestInv

LEMMA OtpInit == Init => OtpInv
<1>1. Init => TestInv
  BY DEF Init, TestInv
<1> QED BY <1>1, BaseInit DEF OtpInv

LEMMA OtpNext == ASSUME OneProcess PROVE OtpInv /\ [Next]_vars => OtpInv'
<1>1. ASSUME TestInv, UNCHANGED vars PROVE TestInv'
  BY <1>1 DEF TestInv, vars, Sealed
<1>2. ASSUME OtpInv, Next PROVE TestInv'
  BY <1>2, EveryStep, TestKept DEF OtpInv, BaseInv
<1> QED BY <1>1, <1>2, BaseNext DEF OtpInv

\* Once PARTITION_SETTING_COMPLETED is set, no command changes a partition
\* setting: the test at the start of the three partitioning commands and the
\* addresses all commands compute are enough, if they do not run concurrently.
THEOREM PartitioningIsFinal == ASSUME OneProcess PROVE Spec => SealedFrozen
<1>1. ASSUME OtpInv, Next, Sealed
      PROVE  Sealed' /\ \A r \in PartitionRegs : card'[r] = card[r]
  <2>1. Kinds
    BY <1>1, EveryStep DEF OtpInv, BaseInv
  <2> QED BY <1>1, <2>1, SealedStep DEF OtpInv, Sealed
<1>2. OtpInv /\ [Next]_vars =>
        [Sealed => Sealed' /\ \A r \in PartitionRegs : card'[r] = card[r]]_vars
  BY <1>1
<1> QED BY <1>2, OtpInit, OtpNext, PTL DEF Spec, SealedFrozen

\* The reset function of the card is chosen at most once, whichever of hwreset
\* enable and disable are run and however their writes fail.
THEOREM ResetChosenOnce == ASSUME OneProcess PROVE Spec => HwResetOnce
<1>1. ASSUME OtpInv, Next, card[RST_N_FUNCTION] # {}
      PROVE  card'[RST_N_FUNCTION] = card[RST_N_FUNCTION]
  <2>0. card \in [Regs -> SUBSET Byte] /\ TestInv /\ Kinds
    BY <1>1, EveryStep DEF OtpInv, BaseInv, CardInv
  <2>1. CASE PowerCycle
    <3>1. PICK lost \in SUBSET (VolatileRegs \cup PartitionRegs) :
            card' = [r \in Regs |-> IF r \in lost THEN {} ELSE card[r]]
      BY <2>1 DEF PowerCycle
    <3> QED BY <3>1, RegFacts
  <2>2. ASSUME NEW m \in Procs, Stores(m) PROVE card'[RST_N_FUNCTION] = card[RST_N_FUNCTION]
    <3>1. /\ card' = [card EXCEPT ![FirstReg(m)] = FirstByte(m)] /\ Working(proc[m])
          /\ proc[m].pc = "write" /\ proc[m] # Idle
      BY <2>2 DEF Stores, Idle
    <3>2. FirstReg(m) # RST_N_FUNCTION
      BY <3>1, <2>0, <1>1, FirstWrite DEF TestInv
    <3> QED BY <3>1, <3>2, <2>0, RegFacts
  <2>3. ASSUME NEW m \in Procs, Seals(m) PROVE card'[RST_N_FUNCTION] = card[RST_N_FUNCTION]
    <3>1. card' = [card EXCEPT ![PARTITION_SETTING_COMPLETED] = {0}]
      BY <2>3 DEF Seals, seal
    <3> QED BY <3>1, <2>0, RegFacts
  <2> QED BY <2>0, <2>1, <2>2, <2>3 DEF Kinds, Nothing, Starts, Skips, Passes, Quits
<1>2. OtpInv /\ [Next]_vars =>
        [card[RST_N_FUNCTION] # {} => card'[RST_N_FUNCTION] = card[RST_N_FUNCTION]]_vars
  BY <1>1
<1> QED BY <1>2, OtpInit, OtpNext, PTL DEF Spec, HwResetOnce

-----------------------------------------------------------------------------
(* Numbers in registers. *)

LEMMA ByteNumber == ASSUME NEW n \in 0 .. 255 PROVE number(toByte(n)) = n
<1>1. 2^0 = 1 /\ 2^1 = 2 /\ 2^2 = 4 /\ 2^3 = 8 /\ 2^4 = 16 /\ 2^5 = 32 /\ 2^6 = 64 /\ 2^7 = 128
  OBVIOUS
<1> QED BY <1>1 DEF number, toByte, Byte

LEMMA NumberNat == ASSUME NEW B PROVE number(B) \in 0 .. 255
<1>1. 2^0 = 1 /\ 2^1 = 2 /\ 2^2 = 4 /\ 2^3 = 8 /\ 2^4 = 16 /\ 2^5 = 32 /\ 2^6 = 64 /\ 2^7 = 128
  OBVIOUS
<1> QED BY <1>1 DEF number

\* The unit of the sizes is not zero and does not wrap.
LEMMA AlignFacts == Align \in Nat /\ Align >= 512 /\ Align < Word
<1>1. HcWpGrpSize * HcEraseGrpSize \in 1 .. 255 * 255
  BY SizesAssumption
<1>2. 512 * HcWpGrpSize * HcEraseGrpSize = 512 * (HcWpGrpSize * HcEraseGrpSize)
  BY SizesAssumption
<1>3. /\ 512 * HcWpGrpSize * HcEraseGrpSize \in Nat
      /\ 512 * HcWpGrpSize * HcEraseGrpSize >= 512
      /\ 512 * HcWpGrpSize * HcEraseGrpSize < Word
  BY <1>1, <1>2, SizesAssumption
<1>4. ASSUME NEW a \in Nat, NEW w \in Nat, a < w PROVE a % w = a
  BY <1>4
<1> QED BY <1>3, <1>4, SizesAssumption DEF Align

\* A size in units has three digits.
LEMMA SizeMultFits ==
    ASSUME NEW length \in Lengths
    PROVE  sizeMult(length) \in Nat /\ sizeMult(length) < 16777216
<1> DEFINE n == (length + Align \div 2) % Word
<1>1. n \in Nat /\ n < Word /\ Word < 4294967296 + 65536
  BY AlignFacts, SizesAssumption, SMT DEF Lengths
<1>2. n < 16777216 * 512
  BY <1>1, SizesAssumption, SMT
<1>3. ASSUME NEW x \in Nat, NEW a \in Nat, a >= 512, x < 16777216 * 512
      PROVE  x \div a \in Nat /\ x \div a < 16777216
  <2>1. x \div a \in Nat /\ a * (x \div a) <= x
    BY <1>3, SMT
  <2>2. 512 * (x \div a) <= a * (x \div a)
    BY <2>1, <1>3, SMT
  <2> QED BY <2>1, <2>2, <1>3, SMT
<1>4. n \div Align \in Nat /\ n \div Align < 16777216
  <2> HIDE DEF n
  <2> QED BY <1>1, <1>2, <1>3, AlignFacts, SMT
<1> QED BY <1>4, SMT DEF sizeMult

\* Its digits, written from the most significant one, give the number back.
LEMMA ThreeDigits ==
    ASSUME NEW n \in Nat, n < 16777216
    PROVE  number(toByte((n \div 65536) % 256)) * 65536 + number(toByte((n \div 256) % 256)) * 256
             + number(toByte(n % 256)) = n
<1> DEFINE a == (n \div 65536) % 256
           b == (n \div 256) % 256
           c == n % 256
<1>1. a \in 0 .. 255 /\ b \in 0 .. 255 /\ c \in 0 .. 255 /\ n = a * 65536 + b * 256 + c
  BY SMT
<1> HIDE DEF a, b, c
<1>2. number(toByte(a)) = a /\ number(toByte(b)) = b /\ number(toByte(c)) = c
  BY <1>1, ByteNumber, SMT
<1>3. number(toByte(a)) * 65536 + number(toByte(b)) * 256 + number(toByte(c)) = n
  BY <1>1, <1>2, SMT
<1> QED BY <1>3, SMT DEF a, b, c

\* The writes of a number of three, and of four, digits.
ThreeWrites(s, base, n) ==
    /\ s \in Seq(Int \X SUBSET Byte) /\ Len(s) = 3
    /\ s[1] = <<base + 2, toByte((n \div 65536) % 256)>>
    /\ s[2] = <<base + 1, toByte((n \div 256) % 256)>>
    /\ s[3] = <<base, toByte(n % 256)>>
FourWrites(s, base, n) ==
    /\ s \in Seq(Int \X SUBSET Byte) /\ Len(s) = 4
    /\ \A d \in 0 .. 3 : s[4 - d] = <<base + d, toByte((n \div 256^d) % 256)>>

LEMMA Digits3 ==
    ASSUME NEW base \in Nat, NEW n \in Int
    PROVE  ThreeWrites(bigEndian(base, n, 3), base, n)
<1>1. 256^2 = 65536 /\ 256^1 = 256 /\ 256^0 = 1
  OBVIOUS
<1>2. bigEndian(base, n, 3) \in Seq(Int \X SUBSET Byte)
  <2>1. base \in Int /\ 3 \in Nat /\ \A d \in 0 .. 3 - 1 : base + d \in Int
    OBVIOUS
  <2> QED BY <2>1, DigitsTyped
<1>3. Len(bigEndian(base, n, 3)) = 3
  BY DEF bigEndian
<1>4. ASSUME NEW i \in 1 .. 3
      PROVE  bigEndian(base, n, 3)[i] = <<base + 3 - i, toByte((n \div 256^(3 - i)) % 256)>>
  BY DEF bigEndian
<1>5. n \div 1 = n
  OBVIOUS
<1> QED BY <1>1, <1>2, <1>3, <1>4, <1>5 DEF ThreeWrites

LEMMA Digits4 ==
    ASSUME NEW base \in Nat, NEW n \in Int
    PROVE  FourWrites(bigEndian(base, n, 4), base, n)
<1>1. bigEndian(base, n, 4) \in Seq(Int \X SUBSET Byte)
  <2>1. base \in Int /\ 4 \in Nat /\ \A d \in 0 .. 4 - 1 : base + d \in Int
    OBVIOUS
  <2> QED BY <2>1, DigitsTyped
<1>2. Len(bigEndian(base, n, 4)) = 4
  BY DEF bigEndian
<1>3. ASSUME NEW i \in 1 .. 4
      PROVE  bigEndian(base, n, 4)[i] = <<base + 4 - i, toByte((n \div 256^(4 - i)) % 256)>>
  BY DEF bigEndian
<1>4. ASSUME NEW d \in 0 .. 3
      PROVE  bigEndian(base, n, 4)[4 - d] = <<base + d, toByte((n \div 256^d) % 256)>>
  <2>1. 4 - d \in 1 .. 4 /\ base + 4 - (4 - d) = base + d /\ 4 - (4 - d) = d
    OBVIOUS
  <2> QED BY <2>1, <1>3
<1> QED BY <1>1, <1>2, <1>4 DEF FourWrites

-----------------------------------------------------------------------------
(* The registers a partitioning command means to leave. *)

\* e is what the card f becomes by the writes w.
Reaches(f, w, e) ==
    /\ e \in [Regs -> SUBSET Byte]
    /\ \A i \in 1 .. Len(w) : w[i][2] = e[w[i][1]]
    /\ \A r \in Regs : (\A i \in 1 .. Len(w) : w[i][1] # r) => e[r] = f[r]

\* Everything that belongs to area q is the same, digit by digit, but for an
\* extended attribute that may have been cleared.
SameDigits(f, e, q, clears) ==
    /\ \A d \in 0 .. 2 : e[sizeAddress(q, d)] = f[sizeAddress(q, d)]
    /\ (q \in e[PARTITIONS_ATTRIBUTE]) = (q \in f[PARTITIONS_ATTRIBUTE])
    /\ q # 0 => \/ extNibble(e, q) = extNibble(f, q)
                \/ clears /\ extNibble(e, q) = {}

\* gp create leaves the other areas alone.
Spares(c, f, e) ==
    c.op = "gp" => \A q \in Areas \ {c.p} : SameDigits(f, e, q, ClearsSecond(c, q))

\* The extended attribute of a partition is half a byte.  The code does not
\* check it: a larger one spills into the half of the next partition.
AttributesFit == \A c \in Commands : c.op = "gp" => c.ext \in 0 .. 15

\* Where the elements of a concatenation are.
Joined(u, s, t) ==
    /\ Len(u) = Len(s) + Len(t)
    /\ \A i \in 1 .. Len(s) : u[i] = s[i]
    /\ \A i \in 1 .. Len(t) : u[Len(s) + i] = t[i]

LEMMA JoinFacts ==
    ASSUME NEW S, NEW s \in Seq(S), NEW t \in Seq(S)
    PROVE  s \o t \in Seq(S) /\ Joined(s \o t, s, t)
BY DEF Joined

LEMMA GpProgram ==
    ASSUME NEW c \in Commands, c.op = "gp", NEW f \in [Regs -> SUBSET Byte], ~Refused(c, f)
    PROVE  LET w == Program(c, f)
               n == sizeMult(c.length)
           IN /\ c.p \in 0 .. 4 /\ Len(w) = 6
              /\ w[1] = <<175, {0}>>
              /\ w[2] = <<142 + 3 * c.p, toByte((n \div 65536) % 256)>>
              /\ w[3] = <<141 + 3 * c.p, toByte((n \div 256) % 256)>>
              /\ w[4] = <<140 + 3 * c.p, toByte(n % 256)>>
              /\ w[5] = <<156, attribute(f, c.p, c.enh)>>
              /\ w[6] = <<extAddress(c.p), extAttribute(f, c.p, c.ext)>>
<1> DEFINE n == sizeMult(c.length)
           s == bigEndian(140 + 3 * c.p, n, 3)
           a == <<<<175, {0}>>>>
           b == <<<<156, attribute(f, c.p, c.enh)>>, <<extAddress(c.p), extAttribute(f, c.p, c.ext)>>>>
<1>0. c \in CommandLines
  BY CommandsAssumption
<1>1. c.p \in 0 .. 4 /\ c.length \in Lengths
  BY <1>0 DEF Refused, badArguments, CommandLines
<1>2. n \in Int /\ 140 + 3 * c.p \in Nat
  BY <1>1, SizeMultFits
<1>3. sizeAddress(c.p, 0) = 140 + 3 * c.p
  BY <1>1 DEF sizeAddress, GP_SIZE_MULT_1_0
<1>4. Program(c, f) = (a \o s) \o b
  BY <1>3 DEF Program, do_create_gp_partition, ERASE_GROUP_DEF, PARTITIONS_ATTRIBUTE
<1>5. /\ Len(s) = 3 /\ s[1] = <<142 + 3 * c.p, toByte((n \div 65536) % 256)>>
      /\ s[2] = <<141 + 3 * c.p, toByte((n \div 256) % 256)>>
      /\ s[3] = <<140 + 3 * c.p, toByte(n % 256)>>
      /\ s \in Seq(Int \X SUBSET Byte)
  <2> DEFINE base == 140 + 3 * c.p
  <2> HIDE DEF n, base
  <2>1. ThreeWrites(bigEndian(base, n, 3), base, n)
    BY <1>2, Digits3 DEF base
  <2>2. s = bigEndian(base, n, 3)
    BY DEF base
  <2>3. base + 2 = 142 + 3 * c.p /\ base + 1 = 141 + 3 * c.p /\ base = 140 + 3 * c.p
    BY <1>1 DEF base
  <2>4. ThreeWrites(s, base, n)
    BY <2>1, <2>2
  <2> HIDE DEF s
  <2> QED BY <2>3, <2>4 DEF ThreeWrites
<1>6. a \in Seq(Int \X SUBSET Byte) /\ Len(a) = 1 /\ a[1] = <<175, {0}>>
  <2>1. {0} \in SUBSET Byte
    BY DEF Byte
  <2> QED BY <2>1
<1>7. /\ b \in Seq(Int \X SUBSET Byte) /\ Len(b) = 2
      /\ b[1] = <<156, attribute(f, c.p, c.enh)>>
      /\ b[2] = <<extAddress(c.p), extAttribute(f, c.p, c.ext)>>
  <2>1. attribute(f, c.p, c.enh) \in SUBSET Byte
    BY <1>1 DEF attribute, Byte, Regs, PartitionRegs, PARTITIONS_ATTRIBUTE
  <2>2. extAddress(c.p) \in {52, 53}
    BY <1>1 DEF extAddress, EXT_PARTITIONS_ATTRIBUTE_0
  <2>3. f[extAddress(c.p)] \in SUBSET Byte
    BY <2>2 DEF Regs, PartitionRegs
  <2>4. shifted(c.ext, c.p) \in SUBSET Byte
    BY DEF shifted
  <2>5. extAttribute(f, c.p, c.ext) \in SUBSET Byte
    BY <2>3, <2>4 DEF extAttribute
  <2> QED BY <2>1, <2>2, <2>5
<1> DEFINE u == a \o s
           v == u \o b
<1> HIDE DEF n, s, a, b
<1>8. Joined(u, a, s) /\ u \in Seq(Int \X SUBSET Byte)
  BY <1>5, <1>6, JoinFacts
<1> HIDE DEF u
<1>9. Joined(v, u, b)
  BY <1>7, <1>8, JoinFacts
<1> HIDE DEF v
<1>10. /\ Len(u) = 4
       /\ \A i \in 1 .. 1 : u[i] = a[i]
       /\ \A i \in 1 .. 3 : u[1 + i] = s[i]
  BY <1>5, <1>6, <1>8 DEF Joined
<1>11. /\ Len(v) = 6
       /\ \A i \in 1 .. 4 : v[i] = u[i]
       /\ \A i \in 1 .. 2 : v[4 + i] = b[i]
  BY <1>7, <1>9, <1>10 DEF Joined
<1>12. v[1] = a[1] /\ v[2] = s[1] /\ v[3] = s[2] /\ v[4] = s[3]
  <2>1. v[1] = u[1] /\ v[2] = u[1 + 1] /\ v[3] = u[1 + 2] /\ v[4] = u[1 + 3]
    BY <1>11
  <2> QED BY <1>10, <2>1
<1>13. v[5] = b[1] /\ v[6] = b[2]
  <2>1. v[4 + 1] = b[1] /\ v[4 + 2] = b[2]
    BY <1>11
  <2> QED BY <2>1
<1>14. Program(c, f) = v
  BY <1>4 DEF u, v
<1>15. /\ c.p \in 0 .. 4 /\ Len(v) = 6
       /\ v[1] = <<175, {0}>>
       /\ v[2] = <<142 + 3 * c.p, toByte((n \div 65536) % 256)>>
       /\ v[3] = <<141 + 3 * c.p, toByte((n \div 256) % 256)>>
       /\ v[4] = <<140 + 3 * c.p, toByte(n % 256)>>
       /\ v[5] = <<156, attribute(f, c.p, c.enh)>>
       /\ v[6] = <<extAddress(c.p), extAttribute(f, c.p, c.ext)>>
  BY <1>1, <1>5, <1>6, <1>7, <1>11, <1>12, <1>13
<1> QED BY <1>14, <1>15 DEF n

LEMMA EnhProgram ==
    ASSUME NEW c \in Commands, c.op = "enh", NEW f \in [Regs -> SUBSET Byte]
    PROVE  LET w == Program(c, f)
               n == sizeMult(c.length)
           IN /\ Len(w) = 9
              /\ w[1] = <<175, {0}>>
              /\ \A d \in 0 .. 3 : w[5 - d] = <<136 + d, toByte((startAddr(c.start) \div 256^d) % 256)>>
              /\ w[6] = <<142, toByte((n \div 65536) % 256)>>
              /\ w[7] = <<141, toByte((n \div 256) % 256)>>
              /\ w[8] = <<140, toByte(n % 256)>>
              /\ w[9] = <<156, f[156] \cup {0}>>
<1> DEFINE n == sizeMult(c.length)
           k == startAddr(c.start)
           s == bigEndian(136, k, 4)
           t == bigEndian(140, n, 3)
           a == <<<<175, {0}>>>>
           b == <<<<156, f[156] \cup {0}>>>>
<1>0. c \in CommandLines
  BY CommandsAssumption
<1>1. c.length \in Lengths /\ c.start \in Lengths
  BY <1>0 DEF CommandLines
<1>2. n \in Int /\ k \in Int
  <2>1. n \in Int
    BY <1>1, SizeMultFits
  <2>2. c.start * 1024 \in Nat
    BY <1>1 DEF Lengths
  <2>3. (c.start * 1024) % Word \in Nat
    BY <2>2, SizesAssumption
  <2>4. ((c.start * 1024) % Word) \div (IF blockAddressed THEN 512 ELSE 1) \in Nat
    BY <2>3
  <2>5. k \in Int
    BY <2>4, AlignFacts DEF startAddr
  <2> QED BY <2>1, <2>5
<1>3. Program(c, f) = ((a \o s) \o t) \o b
  BY DEF Program, do_enh_area_set, ERASE_GROUP_DEF, PARTITIONS_ATTRIBUTE, ENH_START_ADDR_0,
         ENH_SIZE_MULT_0, attribute
<1> HIDE DEF n, k
<1>4. /\ Len(t) = 3 /\ t[1] = <<142, toByte((n \div 65536) % 256)>>
      /\ t[2] = <<141, toByte((n \div 256) % 256)>> /\ t[3] = <<140, toByte(n % 256)>>
      /\ t \in Seq(Int \X SUBSET Byte)
  <2>1. ThreeWrites(t, 140, n)
    BY <1>2, Digits3
  <2> HIDE DEF t
  <2> QED BY <2>1 DEF ThreeWrites
<1>5. /\ Len(s) = 4 /\ \A d \in 0 .. 3 : s[4 - d] = <<136 + d, toByte((k \div 256^d) % 256)>>
      /\ s \in Seq(Int \X SUBSET Byte)
  <2>1. FourWrites(s, 136, k)
    BY <1>2, Digits4
  <2> HIDE DEF s
  <2> QED BY <2>1 DEF FourWrites
<1>6. a \in Seq(Int \X SUBSET Byte) /\ Len(a) = 1 /\ a[1] = <<175, {0}>>
  <2>1. {0} \in SUBSET Byte
    BY DEF Byte
  <2> QED BY <2>1
<1>7. b \in Seq(Int \X SUBSET Byte) /\ Len(b) = 1 /\ b[1] = <<156, f[156] \cup {0}>>
  <2>1. f[156] \cup {0} \in SUBSET Byte
    BY DEF Byte, Regs, PartitionRegs, PARTITIONS_ATTRIBUTE
  <2> QED BY <2>1
<1> DEFINE u == a \o s
           v == u \o t
           w == v \o b
<1> HIDE DEF s, t, a, b
<1>8. Joined(u, a, s) /\ u \in Seq(Int \X SUBSET Byte)
  BY <1>5, <1>6, JoinFacts
<1> HIDE DEF u
<1>9. Joined(v, u, t) /\ v \in Seq(Int \X SUBSET Byte)
  BY <1>4, <1>8, JoinFacts
<1> HIDE DEF v
<1>10. Joined(w, v, b)
  BY <1>7, <1>9, JoinFacts
<1> HIDE DEF w
<1>11. /\ Len(u) = 5
       /\ \A i \in 1 .. 1 : u[i] = a[i]
       /\ \A i \in 1 .. 4 : u[1 + i] = s[i]
  BY <1>5, <1>6, <1>8 DEF Joined
<1>12. /\ Len(v) = 8
       /\ \A i \in 1 .. 5 : v[i] = u[i]
       /\ \A i \in 1 .. 3 : v[5 + i] = t[i]
  BY <1>4, <1>9, <1>11 DEF Joined
<1>13. /\ Len(w) = 9
       /\ \A i \in 1 .. 8 : w[i] = v[i]
       /\ \A i \in 1 .. 1 : w[8 + i] = b[i]
  BY <1>7, <1>10, <1>12 DEF Joined
<1>14. w[1] = a[1]
  BY <1>11, <1>12, <1>13
<1>15. ASSUME NEW d \in 0 .. 3
       PROVE  w[5 - d] = <<136 + d, toByte((k \div 256^d) % 256)>>
  <2>1. w[5 - d] = v[5 - d] /\ v[5 - d] = u[5 - d]
    BY <1>12, <1>13
  <2>2. 5 - d = 1 + (4 - d) /\ 4 - d \in 1 .. 4
    OBVIOUS
  <2>3. u[1 + (4 - d)] = s[4 - d]
    BY <1>11, <2>2
  <2> QED BY <1>5, <2>1, <2>2, <2>3
<1>16. w[6] = t[1] /\ w[7] = t[2] /\ w[8] = t[3]
  <2>1. w[6] = v[5 + 1] /\ w[7] = v[5 + 2] /\ w[8] = v[5 + 3]
    BY <1>13
  <2> QED BY <1>12, <2>1
<1>17. w[9] = b[1]
  <2>1. w[8 + 1] = b[1]
    BY <1>13
  <2> QED BY <2>1
<1>18. Program(c, f) = w
  BY <1>3 DEF u, v, w
<1> QED BY SMTT(30), <1>4, <1>6, <1>7, <1>13, <1>14, <1>15, <1>16, <1>17, <1>18 DEF n, k

\* The registers of an area, as numbers.
LEMMA AreaAddresses ==
    /\ \A p \in Areas, d \in 0 .. 2 : sizeAddress(p, d) = 140 + 3 * p + d
                                      /\ sizeAddress(p, d) \in PartitionRegs
    /\ \A p \in 0 .. 2 : extAddress(p) = 52
    /\ \A p \in 3 .. 4 : extAddress(p) = 53
    /\ {52, 53, 156, 167} \subseteq PartitionRegs
    /\ 136 .. 154 \subseteq PartitionRegs
    /\ PartitionRegs \cup {175} \subseteq Regs
BY DEF Areas, sizeAddress, extAddress, GP_SIZE_MULT_1_0, EXT_PARTITIONS_ATTRIBUTE_0, PartitionRegs,
       Regs, VolatileRegs, PARTITIONS_ATTRIBUTE, WR_REL_SET, ERASE_GROUP_DEF

LEMMA SameArea_ ==
    ASSUME NEW f, NEW e, NEW q \in Areas, NEW clears, SameDigits(f, e, q, clears)
    PROVE  SameArea(f, e, q, clears)
BY DEF SameDigits, SameArea, mult

\* An attribute of four bits stays in its half of the byte.
LEMMA ShiftedFacts ==
    ASSUME NEW x \in 0 .. 15, NEW p \in 1 .. 4
    PROVE  /\ toByte(x) \subseteq 0 .. 3
           /\ p \in {1, 3} => shifted(x, p) = toByte(x)
           /\ p \in {2, 4} => shifted(x, p) = {b + 4 : b \in toByte(x)}
<1>1. 2^0 = 1 /\ 2^1 = 2 /\ 2^2 = 4 /\ 2^3 = 8 /\ 2^4 = 16 /\ 2^5 = 32 /\ 2^6 = 64 /\ 2^7 = 128
  OBVIOUS
<1>2. toByte(x) \subseteq 0 .. 3
  <2>1. /\ (x \div 2^4) % 2 # 1 /\ (x \div 2^5) % 2 # 1 /\ (x \div 2^6) % 2 # 1
        /\ (x \div 2^7) % 2 # 1
    BY <1>1
  <2>2. ASSUME NEW b \in toByte(x) PROVE b \in 0 .. 3
    <3>1. b \in 0 .. 7 /\ (x \div 2^b) % 2 = 1
      BY <2>2 DEF toByte, Byte
    <3>2. b # 4 /\ b # 5 /\ b # 6 /\ b # 7
      BY <2>1, <3>1
    <3> QED BY <3>1, <3>2
  <2> QED BY <2>2
<1>3. ASSUME p \in {1, 3} PROVE shifted(x, p) = toByte(x)
  <2>1. 4 * ((p - 1) % 2) = 0 /\ p # 0
    BY <1>3
  <2>2. shifted(x, p) = {b + 0 : b \in toByte(x)} \cap Byte
    BY <2>1 DEF shifted
  <2> HIDE DEF shifted
  <2> QED BY <1>2, <2>2 DEF Byte
<1>4. ASSUME p \in {2, 4} PROVE shifted(x, p) = {b + 4 : b \in toByte(x)}
  <2>1. 4 * ((p - 1) % 2) = 4 /\ p # 0
    BY <1>4
  <2>2. shifted(x, p) = {b + 4 : b \in toByte(x)} \cap Byte
    BY <2>1 DEF shifted
  <2>3. \A b \in toByte(x) : b + 4 \in Byte
    BY <1>2 DEF Byte
  <2> QED BY <2>2, <2>3
<1> QED BY <1>2, <1>3, <1>4

\* The half byte that gp create writes, and the other half.
LEMMA NibbleFacts ==
    ASSUME NEW f \in [Regs -> SUBSET Byte], NEW e, NEW p \in 1 .. 4, NEW x \in 0 .. 15,
           e[extAddress(p)] = extAttribute(f, p, x),
           \A r \in {52, 53} \ {extAddress(p)} : e[r] = f[r]
    PROVE  /\ extNibble(e, p) = IF x = 0 THEN {} ELSE extNibble(f, p) \cup toByte(x)
           /\ \A q \in 1 .. 4 : q # p => extNibble(e, q) = extNibble(f, q)
<1> DEFINE old == f[extAddress(p)]
           new == e[extAddress(p)]
<1>0. /\ extAddress(1) = 52 /\ extAddress(2) = 52 /\ extAddress(3) = 53 /\ extAddress(4) = 53
      /\ f[52] \subseteq Byte /\ f[53] \subseteq Byte
  BY AreaAddresses DEF Byte
<1>1. /\ toByte(x) \subseteq 0 .. 3
      /\ p \in {1, 3} => shifted(x, p) = toByte(x)
      /\ p \in {2, 4} => shifted(x, p) = {b + 4 : b \in toByte(x)}
  BY ShiftedFacts
<1>2. ASSUME NEW q \in 1 .. 4, NEW g
      PROVE  /\ q \in {1, 3} => extNibble(g, q) = {b \in 0 .. 3 : b \in g[extAddress(q)]}
             /\ q \in {2, 4} => extNibble(g, q) = {b \in 0 .. 3 : b + 4 \in g[extAddress(q)]}
  <2>1. q \in {1, 3} => (q - 1) % 2 = 0
    OBVIOUS
  <2>2. q \in {2, 4} => (q - 1) % 2 = 1
    OBVIOUS
  <2>3. ASSUME q \in {1, 3} PROVE extNibble(g, q) = {b \in 0 .. 3 : b \in g[extAddress(q)]}
    <3>1. \A b \in 0 .. 3 : b + 4 * ((q - 1) % 2) = b
      BY <2>1, <2>3
    <3> QED BY <3>1 DEF extNibble
  <2>4. ASSUME q \in {2, 4} PROVE extNibble(g, q) = {b \in 0 .. 3 : b + 4 \in g[extAddress(q)]}
    <3>1. \A b \in 0 .. 3 : b + 4 * ((q - 1) % 2) = b + 4
      BY <2>2, <2>4
    <3> QED BY <3>1 DEF extNibble
  <2> QED BY <2>3, <2>4
<1>3. /\ x # 0 => new = old \cup shifted(x, p)
      /\ x = 0 /\ p \in {1, 3} => new = old \cap (4 .. 7)
      /\ x = 0 /\ p \in {2, 4} => new = old \cap (0 .. 3)
  BY DEF extAttribute
<1>4. \* the bits of the own half
      /\ p \in {1, 3} => {b \in 0 .. 3 : b \in new} =
                           IF x # 0 THEN {b \in 0 .. 3 : b \in old} \cup toByte(x) ELSE {}
      /\ p \in {2, 4} => {b \in 0 .. 3 : b + 4 \in new} =
                           IF x # 0 THEN {b \in 0 .. 3 : b + 4 \in old} \cup toByte(x) ELSE {}
  <2> HIDE DEF new, old
  <2>1. CASE x # 0 /\ p \in {1, 3}
    BY <2>1, <1>1, <1>3
  <2>2. CASE x # 0 /\ p \in {2, 4}
    <3>1. \A b \in 0 .. 3 : b + 4 \in new <=> b + 4 \in old \/ b \in toByte(x)
      BY <2>2, <1>1, <1>3
    <3> QED BY <3>1, <2>2, <1>1
  <2>3. CASE x = 0
    BY <2>3, <1>3
  <2> QED BY <2>1, <2>2, <2>3
<1>5. \* the bits of the other half
      /\ p \in {1, 3} => \A b \in 0 .. 3 : b + 4 \in new <=> b + 4 \in old
      /\ p \in {2, 4} => \A b \in 0 .. 3 : b \in new <=> b \in old
  <2> HIDE DEF new, old
  <2>1. CASE x # 0 /\ p \in {1, 3}
    BY <2>1, <1>1, <1>3
  <2>2. CASE x # 0 /\ p \in {2, 4}
    BY <2>2, <1>1, <1>3
  <2>3. CASE x = 0
    BY <2>3, <1>3
  <2> QED BY <2>1, <2>2, <2>3
<1>7. ASSUME NEW q \in 1 .. 4, q # p PROVE extNibble(e, q) = extNibble(f, q)
  <2>1. CASE extAddress(q) = extAddress(p)
    <3>1. (p \in {1, 3} /\ q \in {2, 4}) \/ (p \in {2, 4} /\ q \in {1, 3})
      BY <2>1, <1>7, <1>0
    <3>2. CASE p \in {1, 3} /\ q \in {2, 4}
      <4>1. /\ extNibble(e, q) = {b \in 0 .. 3 : b + 4 \in new}
            /\ extNibble(f, q) = {b \in 0 .. 3 : b + 4 \in old}
        BY <2>1, <3>2, <1>2
      <4> QED BY <4>1, <3>2, <1>5
    <3>3. CASE p \in {2, 4} /\ q \in {1, 3}
      <4>1. /\ extNibble(e, q) = {b \in 0 .. 3 : b \in new}
            /\ extNibble(f, q) = {b \in 0 .. 3 : b \in old}
        BY <2>1, <3>3, <1>2
      <4> QED BY <4>1, <3>3, <1>5
    <3> QED BY <3>1, <3>2, <3>3
  <2>2. CASE extAddress(q) # extAddress(p)
    <3>1. extAddress(q) \in {52, 53}
      BY <1>0
    <3>2. e[extAddress(q)] = f[extAddress(q)]
      BY <2>2, <3>1
    <3> QED BY <3>2 DEF extNibble
  <2> QED BY <2>1, <2>2
<1>8. extNibble(e, p) = IF x = 0 THEN {} ELSE extNibble(f, p) \cup toByte(x)
  <2>1. CASE p \in {1, 3}
    <3>1. /\ extNibble(e, p) = {b \in 0 .. 3 : b \in new}
          /\ extNibble(f, p) = {b \in 0 .. 3 : b \in old}
      BY <2>1, <1>2
    <3> QED BY <2>1, <3>1, <1>4
  <2>2. CASE p \in {2, 4}
    <3>1. /\ extNibble(e, p) = {b \in 0 .. 3 : b + 4 \in new}
          /\ extNibble(f, p) = {b \in 0 .. 3 : b + 4 \in old}
      BY <2>2, <1>2
    <3> QED BY <2>2, <3>1, <1>4
  <2> QED BY <2>1, <2>2
<1> QED BY <1>7, <1>8

\* Partition 0 has no half: the code keeps the byte or clears partition 2's half.
LEMMA ZeroNibble ==
    ASSUME NEW f \in [Regs -> SUBSET Byte], NEW e, NEW x \in Nat,
           e[52] = extAttribute(f, 0, x), e[53] = f[53]
    PROVE  \A q \in 1 .. 4 : \/ extNibble(e, q) = extNibble(f, q)
                             \/ x = 0 /\ q = 2 /\ extNibble(e, q) = {}
<1>0. /\ extAddress(0) = 52 /\ extAddress(1) = 52 /\ extAddress(2) = 52
      /\ extAddress(3) = 53 /\ extAddress(4) = 53
  BY AreaAddresses
<1>1. /\ x # 0 => e[52] = f[52]
      /\ x = 0 => e[52] = f[52] \cap (0 .. 3)
  BY <1>0 DEF extAttribute, shifted
<1>2. extNibble(e, 3) = extNibble(f, 3) /\ extNibble(e, 4) = extNibble(f, 4)
  BY <1>0 DEF extNibble
<1>3. CASE x # 0
  BY <1>0, <1>1, <1>2, <1>3 DEF extNibble
<1>4. CASE x = 0
  <2>1. extNibble(e, 1) = extNibble(f, 1)
    <3>1. \A b \in 0 .. 3 : b + 4 * ((1 - 1) % 2) = b
      OBVIOUS
    <3> QED BY <1>0, <1>1, <1>4, <3>1 DEF extNibble
  <2>2. extNibble(e, 2) = {}
    <3>1. \A b \in 0 .. 3 : b + 4 * ((2 - 1) % 2) = b + 4
      OBVIOUS
    <3> QED BY <1>0, <1>1, <1>4, <3>1 DEF extNibble
  <2> QED BY <1>2, <1>4, <2>1, <2>2
<1> QED BY <1>3, <1>4

LEMMA GpTarget ==
    ASSUME AttributesFit, NEW c \in Commands, c.op = "gp", NEW f \in [Regs -> SUBSET Byte], ~Refused(c, f)
    PROVE  \E e : Reaches(f, Program(c, f), e) /\ Holds(e, c, attributeFound(c, f)) /\ Spares(c, f, e)
<1> DEFINE w == Program(c, f)
           n == sizeMult(c.length)
           p == c.p
           high == toByte((n \div 65536) % 256)
           mid == toByte((n \div 256) % 256)
           low == toByte(n % 256)
           attr == attribute(f, p, c.enh)
           ext == extAttribute(f, p, c.ext)
           x == extAddress(p)
           e == [r \in Regs |-> CASE r = 175 -> {0}
                                  [] r = 142 + 3 * p -> high
                                  [] r = 141 + 3 * p -> mid
                                  [] r = 140 + 3 * p -> low
                                  [] r = 156 -> attr
                                  [] r = x -> ext
                                  [] OTHER -> f[r]]
<1>0. c \in CommandLines
  BY CommandsAssumption
<1>1. /\ p \in 0 .. 4 /\ Len(w) = 6
      /\ w[1] = <<175, {0}>>
      /\ w[2] = <<142 + 3 * p, high>>
      /\ w[3] = <<141 + 3 * p, mid>>
      /\ w[4] = <<140 + 3 * p, low>>
      /\ w[5] = <<156, attr>>
      /\ w[6] = <<x, ext>>
  BY GpProgram
<1>2. c.length \in Lengths /\ c.enh \in BOOLEAN /\ c.ext \in 0 .. 15
  BY <1>0 DEF CommandLines, AttributesFit
<1>3. x \in {52, 53}
  BY <1>1, AreaAddresses
<1>4. /\ high \in SUBSET Byte /\ mid \in SUBSET Byte /\ low \in SUBSET Byte
      /\ attr \in SUBSET Byte /\ ext \in SUBSET Byte /\ {0} \in SUBSET Byte
  <2>1. high \in SUBSET Byte /\ mid \in SUBSET Byte /\ low \in SUBSET Byte
    BY DEF toByte
  <2>2. attr \in SUBSET Byte
    BY <1>1 DEF attribute, Byte, Regs, PartitionRegs, PARTITIONS_ATTRIBUTE
  <2>3. f[x] \in SUBSET Byte
    BY <1>3, AreaAddresses
  <2>4. shifted(c.ext, p) \in SUBSET Byte
    BY DEF shifted
  <2>5. ext \in SUBSET Byte
    BY <2>3, <2>4 DEF extAttribute
  <2> QED BY <2>1, <2>2, <2>5 DEF Byte
<1>5. {175, 142 + 3 * p, 141 + 3 * p, 140 + 3 * p, 156, x} \subseteq Regs
  BY <1>1, <1>3, AreaAddresses
<1>n. n \in Nat /\ n < 16777216
  BY <1>2, SizeMultFits, SMT
<1>m. number(high) * 65536 + number(mid) * 256 + number(low) = n
  BY <1>n, ThreeDigits, SMT
<1>a. attr = IF c.enh THEN f[156] \cup {p} ELSE f[156] \ {p}
  BY DEF attribute, PARTITIONS_ATTRIBUTE
<1>x. ext = extAttribute(f, p, c.ext) /\ x = extAddress(p)
  OBVIOUS
<1> HIDE DEF w, n, p, high, mid, low, attr, ext, x
<1>6. /\ e[175] = {0} /\ e[142 + 3 * p] = high /\ e[141 + 3 * p] = mid /\ e[140 + 3 * p] = low
      /\ e[156] = attr /\ e[x] = ext
      /\ \A r \in Regs \ {175, 142 + 3 * p, 141 + 3 * p, 140 + 3 * p, 156, x} : e[r] = f[r]
  BY <1>1, <1>3, <1>5
<1>7. e \in [Regs -> SUBSET Byte]
  BY <1>4
<1> HIDE DEF e
<1>8. Reaches(f, w, e)
  <2>1. ASSUME NEW i \in 1 .. Len(w) PROVE w[i][2] = e[w[i][1]]
    <3>1. i = 1 \/ i = 2 \/ i = 3 \/ i = 4 \/ i = 5 \/ i = 6
      BY <1>1
    <3>2. /\ w[1][2] = e[w[1][1]] /\ w[2][2] = e[w[2][1]] /\ w[3][2] = e[w[3][1]]
          /\ w[4][2] = e[w[4][1]] /\ w[5][2] = e[w[5][1]] /\ w[6][2] = e[w[6][1]]
      BY <1>1, <1>6
    <3> QED BY <3>1, <3>2
  <2>2. ASSUME NEW r \in Regs, \A i \in 1 .. Len(w) : w[i][1] # r PROVE e[r] = f[r]
    <3>1. w[1][1] # r /\ w[2][1] # r /\ w[3][1] # r /\ w[4][1] # r /\ w[5][1] # r /\ w[6][1] # r
      BY <2>2, <1>1
    <3> QED BY <3>1, <1>1, <1>6
  <2> QED BY <2>1, <2>2, <1>7 DEF Reaches
<1>y. \A r \in {52, 53} \ {x} : e[r] = f[r]
  <2>1. \A r \in {52, 53} \ {x} :
          r \in Regs \ {175, 142 + 3 * p, 141 + 3 * p, 140 + 3 * p, 156, x}
    BY <1>1, AreaAddresses
  <2> QED BY <2>1, <1>6
<1>9. ASSUME p # 0
      PROVE  /\ extNibble(e, p) = IF c.ext = 0 THEN {} ELSE extNibble(f, p) \cup toByte(c.ext)
             /\ \A q \in 1 .. 4 : q # p => extNibble(e, q) = extNibble(f, q)
  <2>1. p \in 1 .. 4
    BY <1>9, <1>1
  <2> QED BY <2>1, <1>y, <1>2, <1>6, <1>x, NibbleFacts
<1>z. ASSUME p = 0
      PROVE  \A q \in 1 .. 4 : \/ extNibble(e, q) = extNibble(f, q)
                               \/ c.ext = 0 /\ q = 2 /\ extNibble(e, q) = {}
  <2>1. x = 52
    BY <1>z, <1>x, AreaAddresses
  <2>2. e[52] = extAttribute(f, 0, c.ext) /\ e[53] = f[53] /\ c.ext \in Nat
    BY <2>1, <1>z, <1>2, <1>6, <1>x, <1>y
  <2> QED BY <2>2, ZeroNibble
<1>10. Holds(e, c, attributeFound(c, f))
  <2>1. /\ mult(e, p) = n
        /\ (p \in e[156]) = c.enh
    <3>1. sizeAddress(p, 2) = 142 + 3 * p /\ sizeAddress(p, 1) = 141 + 3 * p
          /\ sizeAddress(p, 0) = 140 + 3 * p
      BY <1>1 DEF sizeAddress, GP_SIZE_MULT_1_0
    <3>2. mult(e, p) = n
      BY <3>1, <1>6, <1>m, SMT DEF mult
    <3>3. (p \in e[156]) = c.enh
      BY <1>2, <1>6, <1>a
    <3> QED BY <3>2, <3>3
  <2>2. p # 0 => attributeFound(c, f) = extNibble(f, p)
    BY DEF attributeFound, p
  <2>3. p # 0 => extNibble(e, p) = IF c.ext = 0 THEN {} ELSE attributeFound(c, f) \cup toByte(c.ext)
    BY <2>2, <1>9
  <2> QED BY <2>1, <2>3, Zenon DEF Holds, p, n, PARTITIONS_ATTRIBUTE
<1>11. Spares(c, f, e)
  <2> SUFFICES ASSUME NEW q \in Areas \ {p} PROVE SameDigits(f, e, q, ClearsSecond(c, q))
    BY DEF Spares, p
  <2>1. ASSUME NEW d \in 0 .. 2 PROVE e[sizeAddress(q, d)] = f[sizeAddress(q, d)]
    <3>1. sizeAddress(q, d) = 140 + 3 * q + d /\ sizeAddress(q, d) \in Regs
      BY AreaAddresses
    <3>2. 140 + 3 * q + d \notin {175, 142 + 3 * p, 141 + 3 * p, 140 + 3 * p, 156, x}
      BY <1>1, <1>3 DEF Areas
    <3> QED BY <3>1, <3>2, <1>6
  <2>2. (q \in e[156]) = (q \in f[156])
    BY <1>2, <1>6, <1>a
  <2>3. ASSUME q # 0
        PROVE  \/ extNibble(e, q) = extNibble(f, q)
               \/ ClearsSecond(c, q) /\ extNibble(e, q) = {}
    <3>1. q \in 1 .. 4
      BY <2>3 DEF Areas
    <3>2. CASE p # 0
      BY <3>1, <3>2, <1>9
    <3>3. CASE p = 0
      <4>1. \/ extNibble(e, q) = extNibble(f, q)
            \/ c.ext = 0 /\ q = 2 /\ extNibble(e, q) = {}
        BY <3>1, <3>3, <1>z
      <4> QED BY <4>1, <3>3 DEF ClearsSecond, p
    <3> QED BY <3>2, <3>3
  <2> QED BY <2>1, <2>2, <2>3 DEF SameDigits, PARTITIONS_ATTRIBUTE
<1> QED BY <1>8, <1>10, <1>11 DEF w

LEMMA EnhTarget ==
    ASSUME NEW c \in Commands, c.op = "enh", NEW f \in [Regs -> SUBSET Byte]
    PROVE  \E e : Reaches(f, Program(c, f), e) /\ Holds(e, c, attributeFound(c, f)) /\ Spares(c, f, e)
<1> DEFINE w == Program(c, f)
           n == sizeMult(c.length)
           high == toByte((n \div 65536) % 256)
           mid == toByte((n \div 256) % 256)
           low == toByte(n % 256)
           from(d) == toByte((startAddr(c.start) \div 256^d) % 256)
           e == [r \in Regs |-> CASE r = 175 -> {0}
                                  [] r = 136 -> from(0)
                                  [] r = 137 -> from(1)
                                  [] r = 138 -> from(2)
                                  [] r = 139 -> from(3)
                                  [] r = 142 -> high
                                  [] r = 141 -> mid
                                  [] r = 140 -> low
                                  [] r = 156 -> f[156] \cup {0}
                                  [] OTHER -> f[r]]
<1>0. c \in CommandLines
  BY CommandsAssumption
<1>1. /\ Len(w) = 9 /\ w[1] = <<175, {0}>>
      /\ w[5] = <<136, from(0)>> /\ w[4] = <<137, from(1)>>
      /\ w[3] = <<138, from(2)>> /\ w[2] = <<139, from(3)>>
      /\ w[6] = <<142, high>> /\ w[7] = <<141, mid>> /\ w[8] = <<140, low>>
      /\ w[9] = <<156, f[156] \cup {0}>>
  <2>1. /\ Len(w) = 9 /\ w[1] = <<175, {0}>>
        /\ \A d \in 0 .. 3 : w[5 - d] = <<136 + d, from(d)>>
        /\ w[6] = <<142, high>> /\ w[7] = <<141, mid>> /\ w[8] = <<140, low>>
        /\ w[9] = <<156, f[156] \cup {0}>>
    BY SMTT(30), EnhProgram
  <2>2. /\ w[5 - 0] = <<136 + 0, from(0)>> /\ w[5 - 1] = <<136 + 1, from(1)>>
        /\ w[5 - 2] = <<136 + 2, from(2)>> /\ w[5 - 3] = <<136 + 3, from(3)>>
    BY <2>1
  <2> HIDE DEF w, from
  <2> QED BY <2>1, <2>2
<1>2. c.length \in Lengths
  BY <1>0 DEF CommandLines
<1>4. /\ high \in SUBSET Byte /\ mid \in SUBSET Byte /\ low \in SUBSET Byte
      /\ from(0) \in SUBSET Byte /\ from(1) \in SUBSET Byte /\ from(2) \in SUBSET Byte
      /\ from(3) \in SUBSET Byte
      /\ f[156] \cup {0} \in SUBSET Byte /\ {0} \in SUBSET Byte
  <2>1. \A k : toByte(k) \in SUBSET Byte
    BY DEF toByte
  <2>2. f[156] \in SUBSET Byte
    BY AreaAddresses
  <2> QED BY <2>1, <2>2 DEF Byte
<1>5. {175, 136, 137, 138, 139, 142, 141, 140, 156} \subseteq Regs
  BY AreaAddresses
<1>n. n \in Nat /\ n < 16777216
  BY <1>2, SizeMultFits, SMT
<1>m. number(high) * 65536 + number(mid) * 256 + number(low) = n
  BY <1>n, ThreeDigits, SMT
<1> HIDE DEF w, n, high, mid, low, from
<1>6. /\ e[175] = {0} /\ e[142] = high /\ e[141] = mid /\ e[140] = low
      /\ e[136] = from(0) /\ e[137] = from(1) /\ e[138] = from(2) /\ e[139] = from(3)
      /\ e[156] = f[156] \cup {0}
      /\ \A r \in Regs \ {175, 136, 137, 138, 139, 142, 141, 140, 156} : e[r] = f[r]
  BY <1>5
<1>7. e \in [Regs -> SUBSET Byte]
  BY <1>4
<1> HIDE DEF e
<1>8. Reaches(f, w, e)
  <2>1. ASSUME NEW i \in 1 .. Len(w) PROVE w[i][2] = e[w[i][1]]
    <3>1. i = 1 \/ i = 2 \/ i = 3 \/ i = 4 \/ i = 5 \/ i = 6 \/ i = 7 \/ i = 8 \/ i = 9
      BY <1>1
    <3>2. /\ w[1][2] = e[w[1][1]] /\ w[2][2] = e[w[2][1]] /\ w[3][2] = e[w[3][1]]
          /\ w[4][2] = e[w[4][1]] /\ w[5][2] = e[w[5][1]] /\ w[6][2] = e[w[6][1]]
          /\ w[7][2] = e[w[7][1]] /\ w[8][2] = e[w[8][1]] /\ w[9][2] = e[w[9][1]]
      BY <1>1, <1>6
    <3> QED BY <3>1, <3>2
  <2>2. ASSUME NEW r \in Regs, \A i \in 1 .. Len(w) : w[i][1] # r PROVE e[r] = f[r]
    <3>1. /\ w[1][1] # r /\ w[2][1] # r /\ w[3][1] # r /\ w[4][1] # r /\ w[5][1] # r
          /\ w[6][1] # r /\ w[7][1] # r /\ w[8][1] # r /\ w[9][1] # r
      BY <2>2, <1>1
    <3> QED BY <3>1, <1>1, <1>6
  <2> QED BY <2>1, <2>2, <1>7 DEF Reaches
<1>9. Holds(e, c, attributeFound(c, f))
  <2>1. mult(e, 0) = n
    <3>1. sizeAddress(0, 2) = 142 /\ sizeAddress(0, 1) = 141 /\ sizeAddress(0, 0) = 140
      BY DEF sizeAddress, GP_SIZE_MULT_1_0
    <3> QED BY <3>1, <1>6, <1>m, SMT DEF mult
  <2>2. start(e) = [d \in 0 .. 3 |-> from(d)]
    <3>1. ASSUME NEW d \in 0 .. 3 PROVE e[136 + d] = from(d)
      <4>1. /\ e[136 + 0] = from(0) /\ e[136 + 1] = from(1)
            /\ e[136 + 2] = from(2) /\ e[136 + 3] = from(3)
        BY <1>6
      <4>2. d = 0 \/ d = 1 \/ d = 2 \/ d = 3
        OBVIOUS
      <4> QED BY <4>1, <4>2
    <3> QED BY <3>1 DEF start, ENH_START_ADDR_0
  <2>3. 0 \in e[156]
    BY <1>6
  <2> QED BY <2>1, <2>2, <2>3, Zenon DEF Holds, n, from, PARTITIONS_ATTRIBUTE
<1> QED BY <1>8, <1>9 DEF w, Spares

LEMMA RelTarget ==
    ASSUME NEW c \in Commands, c.op = "rel", NEW f \in [Regs -> SUBSET Byte]
    PROVE  \E e : Reaches(f, Program(c, f), e) /\ Holds(e, c, attributeFound(c, f)) /\ Spares(c, f, e)
<1> DEFINE v == f[167] \cup ({c.p} \cap Byte)
           w == <<<<167, v>>>>
           e == [f EXCEPT ![167] = v]
<1>1. Program(c, f) = w
  BY DEF Program, do_write_reliability_set, WR_REL_SET
<1>2. v \in SUBSET Byte
  BY AreaAddresses
<1>3. 167 \in Regs
  BY AreaAddresses
<1> HIDE DEF v
<1>4. Reaches(f, w, e)
  <2>1. Len(w) = 1 /\ w[1] = <<167, v>>
    OBVIOUS
  <2>2. e \in [Regs -> SUBSET Byte] /\ e[167] = v /\ \A r \in Regs : r # 167 => e[r] = f[r]
    BY <1>2, <1>3
  <2> HIDE DEF w, e
  <2> QED BY <2>1, <2>2 DEF Reaches
<1>5. c.p \in Byte => c.p \in e[167]
  BY <1>3 DEF v
<1>6. Holds(e, c, attributeFound(c, f))
  <2> HIDE DEF e
  <2> QED BY <1>5 DEF Holds, WR_REL_SET
<1> HIDE DEF w, e
<1> QED BY <1>1, <1>4, <1>6 DEF Spares

\* The card f after the first of the writes w; a card between f and e.
Written(f, w) == [f EXCEPT ![Head(w)[1]] = Head(w)[2]]
Between(f, g, e) == \A r \in Regs : g[r] = f[r] \/ g[r] = e[r]

\* One write brings the card closer to the target, and what is the same in the
\* card and the target stays the same.
LEMMA ReachesStep ==
    ASSUME NEW f \in [Regs -> SUBSET Byte], NEW S, NEW w \in Seq(S), w # <<>>, NEW e, Reaches(f, w, e),
           NEW g, g = Written(f, w)
    PROVE  Reaches(g, Tail(w), e) /\ Between(f, g, e)
<1> DEFINE t == Tail(w)
           h == w[1]
<1>1. /\ Len(w) \in Nat \ {0} /\ Len(t) = Len(w) - 1 /\ Head(w) = h
      /\ \A i \in 1 .. Len(t) : t[i] = w[i + 1] /\ i + 1 \in 1 .. Len(w)
  OBVIOUS
<1>2. h[2] = e[h[1]] /\ e \in [Regs -> SUBSET Byte]
  BY <1>1 DEF Reaches
<1>3. \A r \in Regs : g[r] = IF r = h[1] THEN e[r] ELSE f[r]
  BY <1>1, <1>2 DEF Written
<1>4. \A i \in 1 .. Len(t) : t[i][2] = e[t[i][1]]
  BY <1>1 DEF Reaches
<1>5. ASSUME NEW r \in Regs, \A i \in 1 .. Len(t) : t[i][1] # r PROVE e[r] = g[r]
  <2>1. CASE r = h[1]
    BY <2>1, <1>3
  <2>2. CASE r # h[1]
    <3>1. ASSUME NEW i \in 1 .. Len(w) PROVE w[i][1] # r
      <4>1. CASE i = 1
        BY <4>1, <2>2
      <4>2. CASE i # 1
        <5>1. i - 1 \in 1 .. Len(t) /\ (i - 1) + 1 = i
          BY <4>2, <1>1
        <5>2. t[i - 1] = w[i]
          BY <5>1, <1>1
        <5> QED BY <5>1, <5>2, <1>5
      <4> QED BY <4>1, <4>2
    <3>2. e[r] = f[r]
      BY <3>1 DEF Reaches
    <3> QED BY <3>2, <2>2, <1>3
  <2> QED BY <2>1, <2>2
<1>6. Reaches(g, t, e)
  <2> HIDE DEF t, h
  <2> QED BY <1>2, <1>4, <1>5 DEF Reaches
<1> QED BY <1>3, <1>6 DEF Between

\* A write the card ignores: the remaining ones lead to a card between.
LEMMA ReachesSkip ==
    ASSUME NEW f \in [Regs -> SUBSET Byte], NEW w \in Seq(Regs \X SUBSET Byte), w # <<>>,
           NEW e, Reaches(f, w, e)
    PROVE  \E g : Reaches(f, Tail(w), g) /\ Between(f, g, e)
<1> DEFINE t == Tail(w)
           g == [r \in Regs |-> IF \A i \in 1 .. Len(t) : t[i][1] # r THEN f[r] ELSE e[r]]
<1>1. \A i \in 1 .. Len(t) : t[i] = w[i + 1] /\ i + 1 \in 1 .. Len(w)
  OBVIOUS
<1>2. e \in [Regs -> SUBSET Byte] /\ \A i \in 1 .. Len(t) : t[i][2] = e[t[i][1]]
  BY <1>1 DEF Reaches
<1>t. \A i \in 1 .. Len(t) : t[i][1] \in Regs
  <2>1. t \in Seq(Regs \X SUBSET Byte)
    OBVIOUS
  <2> HIDE DEF t
  <2>2. \A i \in 1 .. Len(t) : t[i] \in Regs \X SUBSET Byte
    BY <2>1
  <2> QED BY <2>2
<1> HIDE DEF t
<1>3. g \in [Regs -> SUBSET Byte]
  BY <1>2
<1>4. ASSUME NEW i \in 1 .. Len(t) PROVE t[i][2] = g[t[i][1]]
  BY <1>t, <1>2
<1>5. \A r \in Regs : (\A i \in 1 .. Len(t) : t[i][1] # r) => g[r] = f[r]
  OBVIOUS
<1>6. Between(f, g, e)
  BY DEF Between
<1> HIDE DEF g
<1>7. Reaches(f, t, g)
  BY <1>3, <1>4, <1>5 DEF Reaches
<1> QED BY <1>6, <1>7 DEF t

LEMMA BetweenSame ==
    ASSUME NEW f, NEW e, NEW g, NEW q \in Areas, NEW clears, SameDigits(f, e, q, clears),
           \A r \in PartitionRegs : g[r] = f[r] \/ g[r] = e[r]
    PROVE  SameDigits(g, e, q, clears) /\ SameDigits(f, g, q, clears)
<1>1. \A d \in 0 .. 2 : g[sizeAddress(q, d)] = f[sizeAddress(q, d)] \/ g[sizeAddress(q, d)] = e[sizeAddress(q, d)]
  BY AreaAddresses
<1>2. g[PARTITIONS_ATTRIBUTE] = f[PARTITIONS_ATTRIBUTE] \/ g[PARTITIONS_ATTRIBUTE] = e[PARTITIONS_ATTRIBUTE]
  BY AreaAddresses DEF PARTITIONS_ATTRIBUTE
<1>3. extAddress(q) \in PartitionRegs
  <2>1. extAddress(q) = 52 \/ extAddress(q) = 53
    BY AreaAddresses DEF Areas
  <2> QED BY <2>1, AreaAddresses
<1>4. extNibble(g, q) = extNibble(f, q) \/ extNibble(g, q) = extNibble(e, q)
  BY <1>3 DEF extNibble
<1> QED BY <1>1, <1>2, <1>4 DEF SameDigits

\* The partition settings decide what a command line asked for and the sizes.
LEMMA MultRegs ==
    ASSUME NEW e, NEW f, \A r \in PartitionRegs : e[r] = f[r]
    PROVE  /\ \A p \in Areas : mult(e, p) = mult(f, p)
           /\ e[PARTITIONS_ATTRIBUTE] = f[PARTITIONS_ATTRIBUTE]
           /\ e[WR_REL_SET] = f[WR_REL_SET]
           /\ \A p \in 1 .. 4 : extNibble(e, p) = extNibble(f, p)
           /\ start(e) = start(f)
<1>1. ASSUME NEW p \in Areas PROVE mult(e, p) = mult(f, p)
  <2>1. \A d \in 0 .. 2 : e[sizeAddress(p, d)] = f[sizeAddress(p, d)]
    BY AreaAddresses
  <2> QED BY <2>1 DEF mult
<1>2. e[PARTITIONS_ATTRIBUTE] = f[PARTITIONS_ATTRIBUTE] /\ e[WR_REL_SET] = f[WR_REL_SET]
  BY AreaAddresses DEF PARTITIONS_ATTRIBUTE, WR_REL_SET
<1>3. ASSUME NEW p \in 1 .. 4 PROVE extNibble(e, p) = extNibble(f, p)
  <2>1. extAddress(p) = 52 \/ extAddress(p) = 53
    BY AreaAddresses
  <2>2. e[extAddress(p)] = f[extAddress(p)]
    BY <2>1, AreaAddresses
  <2> QED BY <2>2 DEF extNibble
<1>4. start(e) = start(f)
  <2>1. \A d \in 0 .. 3 : 136 + d \in 136 .. 154
    OBVIOUS
  <2>2. \A d \in 0 .. 3 : e[136 + d] = f[136 + d]
    BY <2>1, AreaAddresses
  <2> QED BY <2>2 DEF start, ENH_START_ADDR_0
<1> QED BY <1>1, <1>2, <1>3, <1>4

LEMMA HoldsRegs ==
    ASSUME NEW e, NEW f, \A r \in PartitionRegs : e[r] = f[r], NEW c \in Commands, ~badArguments(c),
           NEW found, Holds(e, c, found)
    PROVE  Holds(f, c, found)
<1>1. c.op = "gp" => c.p \in Areas
  <2>1. c.op = "gp" => c.p \in 0 .. 4
    BY DEF badArguments
  <2> QED BY <2>1 DEF Areas
<1>2. c.op = "gp" /\ c.p # 0 => c.p \in 1 .. 4
  BY <1>1 DEF Areas
<1>3. 0 \in Areas
  BY DEF Areas
<1> QED BY <1>1, <1>2, <1>3, MultRegs DEF Holds

-----------------------------------------------------------------------------
(* What a partitioning command is about to leave, and what it has left. *)

\* As long as the card has ignored no byte this is what was asked for; the other
\* areas are spared in any case.
Targeted(c, f, w, missing, found) ==
    /\ ~badArguments(c)
    /\ \E e : /\ Reaches(f, w, e) /\ Spares(c, f, e)
              /\ ~missing => Holds(e, c, found)
Planned(m) == Targeted(proc[m].cmd, card, proc[m].writes, missed, before)
PlanInv == \A m \in Procs : proc[m] # Idle /\ proc[m].cmd.op \in Partitioning => Planned(m)

LastInv ==
    Sealed => ~badArguments(sealedBy) /\ (~missed => Holds(card, sealedBy, before))

LEMMA StoreReaches ==
    ASSUME BaseInv, NEW m \in Procs, Stores(m), proc[m].cmd.op \in Partitioning,
           NEW e, Reaches(card, proc[m].writes, e)
    PROVE  /\ Reaches(card', Tail(proc[m].writes), e)
           /\ \A r \in Regs : card'[r] = card[r] \/ card'[r] = e[r]
<1>1. /\ proc[m].writes \in Seq(PartitionWrites) /\ proc[m].writes # <<>>
      /\ card' = [card EXCEPT ![FirstReg(m)] = FirstByte(m)]
  BY DEF Stores, Working, AllowedWrites
<1>2. card \in [Regs -> SUBSET Byte]
  BY DEF BaseInv, CardInv
<1> DEFINE g == card'
           w == proc[m].writes
<1>3. g = Written(card, w)
  BY <1>1 DEF FirstReg, FirstByte, Written
<1> HIDE DEF g, w
<1>4. w \in Seq(PartitionWrites) /\ w # <<>> /\ Reaches(card, w, e)
  BY <1>1 DEF w
<1>5. Reaches(g, Tail(w), e) /\ Between(card, g, e)
  BY <1>2, <1>3, <1>4, ReachesStep
<1> QED BY <1>5 DEF g, w, Between

LEMMA SkipReaches ==
    ASSUME BaseInv, NEW m \in Procs, Skips(m), proc[m].cmd.op \in Partitioning,
           NEW e, Reaches(card, proc[m].writes, e)
    PROVE  \E g : /\ Reaches(card, Tail(proc[m].writes), g)
                  /\ \A r \in Regs : g[r] = card[r] \/ g[r] = e[r]
<1> DEFINE w == proc[m].writes
<1>1. w \in Seq(PartitionWrites) /\ w # <<>>
  BY DEF Skips, Working, AllowedWrites
<1>2. PartitionWrites \subseteq Regs \X SUBSET Byte
  BY RegFacts DEF PartitionWrites
<1>3. w \in Seq(Regs \X SUBSET Byte) /\ w # <<>> /\ Reaches(card, w, e)
  <2> HIDE DEF w
  <2>1. w \in Seq(Regs \X SUBSET Byte)
    BY <1>1, <1>2
  <2> QED BY <1>1, <2>1 DEF w
<1>4. card \in [Regs -> SUBSET Byte]
  BY DEF BaseInv, CardInv
<1> HIDE DEF w
<1>5. \E g : Reaches(card, Tail(w), g) /\ Between(card, g, e)
  BY <1>3, <1>4, ReachesSkip
<1> QED BY <1>5 DEF w, Between

\* Spares on the way to a target.
LEMMA SparesBetween ==
    ASSUME NEW c, NEW f, NEW g, NEW e, Spares(c, f, e),
           \A r \in Regs : g[r] = f[r] \/ g[r] = e[r]
    PROVE  Spares(c, g, e) /\ Spares(c, f, g)
<1>1. \A r \in PartitionRegs : g[r] = f[r] \/ g[r] = e[r]
  BY RegFacts
<1> QED BY <1>1, BetweenSame DEF Spares

LEMMA PlanKept ==
    ASSUME OneProcess, AttributesFit, BaseInv, PlanInv, Kinds
    PROVE  PlanInv'
<1>i. ASSUME NEW m \in Procs, Puts(m, Idle) PROVE PlanInv'
  <2>1. \A n \in Procs : proc'[n] = Idle
    BY <1>i, OnlyOne
  <2> QED BY <2>1 DEF PlanInv
<1>p. ASSUME NEW m \in Procs, NEW pc, NEW c, NEW w, Puts(m, Process(pc, c, w)),
             c.op \in Partitioning => Targeted(c, card', w, missed', before')
      PROVE  PlanInv'
  <2>1. \A n \in Procs : proc'[n].cmd = c /\ proc'[n].writes = w
    BY <1>p, OnlyOne DEF Process
  <2> QED BY <2>1, <1>p DEF PlanInv, Planned
<1>0. card \in [Regs -> SUBSET Byte]
  BY DEF BaseInv, CardInv
<1>1. CASE PowerCycle
  <2>1. \A n \in Procs : proc'[n] = Idle
    BY <1>1 DEF PowerCycle
  <2> QED BY <2>1 DEF PlanInv
<1>2. CASE Nothing
  BY <1>2 DEF Nothing, Steady, PlanInv, Planned
<1>3. ASSUME NEW m \in Procs, NEW c \in Commands, Starts(m, c) PROVE PlanInv'
  <2>1. card' = card /\ ~Refused(c, card) /\ ~badArguments(c)
    BY <1>3 DEF Starts, Refused
  <2>2. ASSUME c.op \in Partitioning PROVE Targeted(c, card', Program(c, card), missed', before')
    <3>1. \E e : /\ Reaches(card, Program(c, card), e)
                 /\ Holds(e, c, attributeFound(c, card)) /\ Spares(c, card, e)
      BY <2>1, <2>2, <1>0, GpTarget, EnhTarget, RelTarget DEF Partitioning
    <3>2. before' = attributeFound(c, card)
      BY <1>3, <2>2 DEF Starts
    <3> QED BY <2>1, <3>1, <3>2 DEF Targeted
  <2> QED BY <1>3, <2>2, <1>p DEF Starts
<1>4. ASSUME NEW m \in Procs, Stores(m) \/ Skips(m) PROVE PlanInv'
  <2> DEFINE w == proc[m].writes
             c == proc[m].cmd
  <2>1. proc[m] # Idle
    BY <1>4 DEF Stores, Skips, Idle
  <2>2. ASSUME c.op \in Partitioning PROVE Targeted(c, card', Tail(w), missed', before')
    <3>1. Planned(m)
      BY <2>1, <2>2 DEF PlanInv
    <3>2. PICK e : Reaches(card, w, e) /\ Spares(c, card, e) /\ (~missed => Holds(e, c, before))
      BY <3>1 DEF Planned, Targeted
    <3>3. ~badArguments(c)
      BY <3>1 DEF Planned, Targeted
    <3>4. CASE Stores(m)
      <4>1. Reaches(card', Tail(w), e) /\ \A r \in Regs : card'[r] = card[r] \/ card'[r] = e[r]
        BY <3>4, <2>2, <3>2, StoreReaches
      <4> DEFINE g == card'
      <4>2. Spares(c, g, e)
        <5>1. \A r \in Regs : g[r] = card[r] \/ g[r] = e[r]
          BY <4>1
        <5> HIDE DEF g, c
        <5> QED BY <3>2, <5>1, SparesBetween
      <4>3. missed' = missed /\ before' = before
        BY <3>4 DEF Stores, Steady
      <4> QED BY <3>2, <3>3, <4>1, <4>2, <4>3 DEF Targeted
    <3>5. CASE Skips(m)
      <4>1. PICK g : /\ Reaches(card, Tail(w), g)
                     /\ \A r \in Regs : g[r] = card[r] \/ g[r] = e[r]
        BY <3>5, <2>2, <3>2, SkipReaches
      <4>2. Spares(c, card, g)
        <5> HIDE DEF c
        <5> QED BY <3>2, <4>1, SparesBetween
      <4>3. card' = card
        BY <3>5 DEF Skips
      <4>4. missed' = TRUE
        BY <3>5, <2>2, Zenon DEF Skips
      <4> HIDE DEF c, w
      <4> QED BY <3>3, <4>1, <4>2, <4>3, <4>4 DEF Targeted
    <3> QED BY <1>4, <3>4, <3>5
  <2>3. MovesOn(m)
    BY <1>4 DEF Stores, Skips
  <2>4. CASE Tail(w) = <<>>
    BY <2>2, <2>3, <2>4, <1>p, <1>i DEF MovesOn
  <2>5. CASE Tail(w) # <<>>
    BY <2>2, <2>3, <2>5, <1>p, <1>i DEF MovesOn
  <2> QED BY <2>4, <2>5
<1>5. ASSUME NEW m \in Procs, Passes(m) PROVE PlanInv'
  <2>1. /\ proc[m].pc = "check" /\ proc[m] # Idle /\ proc[m].writes = <<>>
        /\ card' = card /\ missed' = missed /\ before' = before
        /\ proc[m].cmd.op \in Partitioning
    BY <1>5 DEF Passes, Idle, Working, Partitioning, Steady
  <2>2. Planned(m)
    BY <2>1 DEF PlanInv
  <2>3. Targeted(proc[m].cmd, card', <<>>, missed', before')
    BY <2>1, <2>2 DEF Planned
  <2> QED BY <1>5, <2>3, <1>p DEF Passes
<1>6. ASSUME NEW m \in Procs, Seals(m) \/ Quits(m) PROVE PlanInv'
  BY <1>6, <1>i DEF Seals, Quits
<1> QED BY <1>1, <1>2, <1>3, <1>4, <1>5, <1>6 DEF Kinds

\* Only the last step of a partitioning command completes the card.
LEMMA OnlySeals ==
    ASSUME card \in [Regs -> SUBSET Byte], Kinds, ~Sealed, \A m \in Procs : ~Seals(m)
    PROVE  ~Sealed'
<1>1. card'[PARTITION_SETTING_COMPLETED] = card[PARTITION_SETTING_COMPLETED]
  <2>1. CASE PowerCycle
    <3>1. PICK lost \in SUBSET (VolatileRegs \cup PartitionRegs) :
            card' = [r \in Regs |-> IF r \in lost THEN {} ELSE card[r]]
      BY <2>1 DEF PowerCycle
    <3> QED BY <3>1, RegFacts
  <2>2. ASSUME NEW m \in Procs, Stores(m)
        PROVE  card'[PARTITION_SETTING_COMPLETED] = card[PARTITION_SETTING_COMPLETED]
    <3>1. /\ card' = [card EXCEPT ![FirstReg(m)] = FirstByte(m)] /\ Working(proc[m])
          /\ proc[m].pc = "write"
      BY <2>2 DEF Stores
    <3> QED BY <3>1, FirstWrite, RegFacts
  <2> QED BY <2>1, <2>2 DEF Kinds, Nothing, Starts, Skips, Passes, Quits
<1> QED BY <1>1 DEF Sealed

LEMMA LastKept ==
    ASSUME BaseInv, TestInv, PlanInv, LastInv, Kinds
    PROVE  LastInv'
<1>0. card \in [Regs -> SUBSET Byte] /\ SealInv
  BY DEF BaseInv, CardInv
<1>1. CASE Sealed
  <2>1. /\ \A r \in PartitionRegs : card'[r] = card[r]
        /\ sealedBy' = sealedBy /\ missed' = missed /\ before' = before
    BY <1>1, SealedStep
  <2>2. ~badArguments(sealedBy) /\ sealedBy \in Commands
    BY <1>0, <1>1 DEF LastInv, SealInv
  <2> DEFINE g == card'
  <2>3. ASSUME ~missed PROVE Holds(g, sealedBy, before)
    <3>1. \A r \in PartitionRegs : card[r] = g[r]
      BY <2>1
    <3>2. Holds(card, sealedBy, before)
      BY <1>1, <2>3 DEF LastInv
    <3> HIDE DEF g
    <3> QED BY <2>2, <3>1, <3>2, HoldsRegs
  <2> QED BY <2>1, <2>2, <2>3 DEF LastInv
<1>2. ASSUME ~Sealed, NEW m \in Procs, Seals(m) PROVE LastInv'
  <2>1. /\ proc[m] # Idle /\ proc[m].cmd.op \in Partitioning /\ proc[m].writes = <<>>
        /\ proc[m].cmd \in Commands
        /\ sealedBy' = proc[m].cmd /\ card' = [card EXCEPT ![PARTITION_SETTING_COMPLETED] = {0}]
        /\ missed' = missed /\ before' = before
    BY <1>2 DEF Seals, seal, Idle, Working, Steady
  <2>2. PICK e : Reaches(card, <<>>, e) /\ (~missed => Holds(e, proc[m].cmd, before))
    BY <2>1 DEF PlanInv, Planned, Targeted
  <2>3. ~badArguments(proc[m].cmd)
    BY <2>1 DEF PlanInv, Planned, Targeted
  <2>4. \A r \in Regs : e[r] = card[r]
    BY <2>2 DEF Reaches
  <2> DEFINE g == card'
  <2>5. \A r \in PartitionRegs : e[r] = g[r]
    BY <2>1, <2>4, <1>0, RegFacts
  <2>6. ~missed => Holds(g, proc[m].cmd, before)
    <3> HIDE DEF g
    <3> QED BY <2>1, <2>2, <2>3, <2>5, HoldsRegs
  <2> QED BY <2>1, <2>3, <2>6 DEF LastInv
<1>3. ASSUME ~Sealed, \A m \in Procs : ~Seals(m) PROVE LastInv'
  BY <1>0, <1>3, OnlySeals DEF LastInv
<1> QED BY <1>1, <1>2, <1>3

AskedInv == OtpInv /\ PlanInv /\ LastInv

LEMMA AskedInit == Init => AskedInv
<1> SUFFICES ASSUME Init PROVE AskedInv
  OBVIOUS
<1>1. OtpInv
  BY OtpInit
<1>2. PlanInv
  BY DEF Init, PlanInv
<1>3. ~Sealed
  BY <1>1 DEF Init, OtpInv, BaseInv, SealInv
<1> QED BY <1>1, <1>2, <1>3 DEF AskedInv, LastInv

LEMMA AskedNext == ASSUME OneProcess, AttributesFit PROVE AskedInv /\ [Next]_vars => AskedInv'
<1>1. ASSUME PlanInv, UNCHANGED vars PROVE PlanInv'
  BY <1>1 DEF vars, PlanInv, Planned
<1>2. ASSUME LastInv, UNCHANGED vars PROVE LastInv'
  BY <1>2 DEF LastInv, vars, Sealed
<1>3. ASSUME AskedInv, Next PROVE PlanInv' /\ LastInv'
  BY <1>3, EveryStep, PlanKept, LastKept DEF AskedInv, OtpInv, BaseInv
<1> QED BY <1>1, <1>2, <1>3, OtpNext DEF AskedInv

\* What PARTITION_SETTING_COMPLETED makes permanent is what the command line that
\* set it asked for, unless the card ignored one of its bytes, which the code does
\* not notice: after any number of failed, killed and dry runs and power cycles,
\* for every geometry, all digits of the size survive being cut into bytes.  The
\* extended attribute that is sealed is exactly the one asked for joined with the
\* one the command found, or none if none was asked for.
THEOREM CompletedAsAsked ==
    ASSUME OneProcess, AttributesFit
    PROVE  Spec => []SealedAsRequested
<1>1. AskedInv => SealedAsRequested
  BY DEF AskedInv, LastInv, SealedAsRequested
<1> QED BY <1>1, AskedInit, AskedNext, PTL DEF Spec

\* gp create, for each of the five areas the code accepts, changes nothing of
\* another area, whichever of its writes fail or are ignored and wherever it is
\* killed, if the extended attribute fits into its half byte; but for partition 0
\* and ext_attr 0 it may clear the extended attribute of partition 2.
THEOREM PartitionsIndependent ==
    ASSUME OneProcess, AttributesFit
    PROVE  Spec => OthersUntouched
<1>1. ASSUME AskedInv, Next, NEW m \in Procs, proc[m].pc = "write", proc[m].cmd.op = "gp",
             cycles' = cycles, NEW q \in Areas \ {proc[m].cmd.p}
      PROVE  SameArea(card, card', q, ClearsSecond(proc[m].cmd, q))
  <2> DEFINE g == card'
             clears == ClearsSecond(proc[m].cmd, q)
  <2>0. BaseInv /\ PlanInv /\ Kinds /\ proc[m] # Idle
    BY <1>1, EveryStep DEF AskedInv, OtpInv, BaseInv, Idle
  <2>1. ~PowerCycle
    <3>1. cycles \in 0 .. MaxCycles
      BY <2>0 DEF BaseInv, RestInv
    <3> QED BY <1>1, <3>1, BoundsAssumption DEF PowerCycle
  <2>2. CASE card' = card
    BY <2>2 DEF SameArea
  <2>3. ASSUME NEW n \in Procs, Seals(n) PROVE FALSE
    <3>1. n = m
      BY DEF OneProcess
    <3> QED BY <1>1, <2>3, <3>1 DEF Seals
  <2>4. ASSUME NEW n \in Procs, Stores(n) PROVE SameArea(card, card', q, clears)
    <3>1. n = m
      BY DEF OneProcess
    <3>2. PICK e : Reaches(card, proc[m].writes, e) /\ Spares(proc[m].cmd, card, e)
      BY <1>1, <2>0 DEF PlanInv, Planned, Targeted, Partitioning
    <3>3. \A r \in Regs : card'[r] = card[r] \/ card'[r] = e[r]
      BY <1>1, <2>0, <2>4, <3>1, <3>2, StoreReaches DEF Partitioning
    <3>4. \A r \in PartitionRegs : g[r] = card[r] \/ g[r] = e[r]
      BY <3>3, RegFacts
    <3>5. SameDigits(card, e, q, clears)
      BY <1>1, <3>2 DEF Spares
    <3> HIDE DEF g, clears
    <3>6. SameArea(card, g, q, clears)
      BY <3>4, <3>5, BetweenSame, SameArea_
    <3> QED BY <3>6 DEF g
  <2> QED BY <2>0, <2>1, <2>2, <2>3, <2>4 DEF Kinds, Nothing, Starts, Skips, Passes, Quits
<1> DEFINE Untouched ==
             \A m \in Procs :
               proc[m].pc = "write" /\ proc[m].cmd.op = "gp" /\ cycles' = cycles =>
                 \A q \in Areas \ {proc[m].cmd.p} :
                   SameArea(card, card', q, ClearsSecond(proc[m].cmd, q))
<1>2. AskedInv /\ [Next]_vars => [Untouched]_vars
  BY <1>1
<1>3. OthersUntouched <=> [][Untouched]_vars
  BY DEF OthersUntouched
<1> HIDE DEF Untouched
<1> QED BY <1>2, <1>3, AskedInit, AskedNext, PTL DEF Spec

-----------------------------------------------------------------------------
(* The limits. *)

\* No sum of sizes in KiB reaches a word: the high and the middle digits of the
\* sizes the command lines ask for are at most h and k, and five areas with such
\* digits fit.
Moderate(h, k) ==
    /\ 5 * ((65536 * h + 256 * k + 256) * Align) <= Word
    /\ \A c \in Commands : c.op \in {"gp", "enh"} =>
         /\ (sizeMult(c.length) \div 65536) % 256 <= h
         /\ (sizeMult(c.length) \div 256) % 256 <= k

HighRegs == {142, 145, 148, 151, 154}
MiddleRegs == {141, 144, 147, 150, 153}
SmallByte(reg, v, h, k) ==
    (reg \in HighRegs => number(v) <= h) /\ (reg \in MiddleRegs => number(v) <= k)
SmallDigits(w, h, k) == \A i \in 1 .. Len(w) : SmallByte(w[i][1], w[i][2], h, k)
SmallSizes(e, h, k) == \A r \in PartitionRegs : SmallByte(r, e[r], h, k)
\* The digits in the card and in the writes still to do are those of command
\* lines, also when digits of several interrupted runs are mixed.
SmallInv(h, k) ==
    /\ SmallSizes(card, h, k)
    /\ \A m \in Procs : SmallDigits(proc[m].writes, h, k)

\* From the test of the limits on, and for ever once the card is completed.
Within(e) == check_enhanced_area_total_limit(e)
LimitInv ==
    /\ \A m \in Procs : proc[m].pc = "seal" /\ proc[m].cmd.op \in {"gp", "enh"} => Within(card)
    /\ Sealed /\ sealedBy.op \in {"gp", "enh"} => Within(card)

LEMMA SizeRegs ==
    /\ HighRegs \subseteq PartitionRegs /\ MiddleRegs \subseteq PartitionRegs
    /\ \A p \in Areas : sizeAddress(p, 2) \in HighRegs /\ sizeAddress(p, 1) \in MiddleRegs
    /\ HighRegs \cap MiddleRegs = {}
BY AreaAddresses DEF HighRegs, MiddleRegs, Areas

\* The digits of a size are those of its command line; no other write is one.
LEMMA ProgramDigits ==
    ASSUME NEW h \in Nat, NEW k \in Nat, Moderate(h, k), NEW c \in Commands,
           NEW e \in [Regs -> SUBSET Byte], ~Refused(c, e)
    PROVE  SmallDigits(Program(c, e), h, k)
<1> DEFINE w == Program(c, e)
           n == sizeMult(c.length)
           a == (n \div 65536) % 256
           b == (n \div 256) % 256
<1>0. c \in CommandLines
  BY CommandsAssumption
<1>n. ASSUME c.op \in {"gp", "enh"}
      PROVE  number(toByte(a)) <= h /\ number(toByte(b)) <= k
  <2>1. c.length \in Lengths
    BY <1>0, <1>n DEF CommandLines
  <2>2. n \in Nat
    BY <2>1, SizeMultFits
  <2>3. a <= h /\ b <= k
    BY <1>n DEF Moderate
  <2>4. a \in 0 .. 255 /\ b \in 0 .. 255
    <3> HIDE DEF n
    <3> QED BY <2>2
  <2> HIDE DEF a, b
  <2> QED BY <2>3, <2>4, ByteNumber
<1>s. ASSUME NEW reg, reg \notin HighRegs \cup MiddleRegs, NEW v PROVE SmallByte(reg, v, h, k)
  BY <1>s DEF SmallByte
<1>1. CASE c.op = "gp"
  <2>1. /\ c.p \in 0 .. 4 /\ Len(w) = 6
        /\ w[1][1] = 175
        /\ w[2][1] = 142 + 3 * c.p /\ w[2][2] = toByte(a)
        /\ w[3][1] = 141 + 3 * c.p /\ w[3][2] = toByte(b)
        /\ w[4][1] = 140 + 3 * c.p /\ w[5][1] = 156 /\ w[6][1] = extAddress(c.p)
    BY <1>1, GpProgram
  <2>2. extAddress(c.p) \in {52, 53}
    BY <2>1, AreaAddresses
  <2> HIDE DEF w, a, b
  <2>3. \A i \in {1, 4, 5, 6} : w[i][1] \notin HighRegs \cup MiddleRegs
    BY <2>1, <2>2 DEF HighRegs, MiddleRegs
  <2>4. w[2][1] \notin MiddleRegs /\ w[3][1] \notin HighRegs
    BY <2>1 DEF HighRegs, MiddleRegs
  <2>5. SmallByte(w[2][1], w[2][2], h, k) /\ SmallByte(w[3][1], w[3][2], h, k)
    BY <1>1, <1>n, <2>1, <2>4 DEF SmallByte
  <2>6. ASSUME NEW i \in 1 .. Len(w) PROVE SmallByte(w[i][1], w[i][2], h, k)
    <3>1. i \in {1, 4, 5, 6} \/ i = 2 \/ i = 3
      BY <2>1
    <3> QED BY <3>1, <2>3, <2>5, <1>s
  <2>7. SmallDigits(w, h, k)
    BY <2>6 DEF SmallDigits
  <2> QED BY <2>7 DEF w
<1>2. CASE c.op = "enh"
  <2>1. /\ Len(w) = 9 /\ w[1][1] = 175 /\ \A d \in 0 .. 3 : w[5 - d][1] = 136 + d
        /\ w[6][1] = 142 /\ w[6][2] = toByte(a)
        /\ w[7][1] = 141 /\ w[7][2] = toByte(b)
        /\ w[8][1] = 140 /\ w[9][1] = 156
    BY <1>2, EnhProgram
  <2> HIDE DEF w, a, b
  <2>2. w[5][1] = 136 /\ w[4][1] = 137 /\ w[3][1] = 138 /\ w[2][1] = 139
    <3>1. w[5 - 0][1] = 136 + 0 /\ w[5 - 1][1] = 136 + 1 /\ w[5 - 2][1] = 136 + 2 /\ w[5 - 3][1] = 136 + 3
      BY <2>1
    <3> QED BY <3>1
  <2>3. \A i \in {1, 2, 3, 4, 5, 8, 9} : w[i][1] \notin HighRegs \cup MiddleRegs
    BY <2>1, <2>2 DEF HighRegs, MiddleRegs
  <2>4. w[6][1] \notin MiddleRegs /\ w[7][1] \notin HighRegs
    BY <2>1 DEF HighRegs, MiddleRegs
  <2>5. SmallByte(w[6][1], w[6][2], h, k) /\ SmallByte(w[7][1], w[7][2], h, k)
    BY <1>2, <1>n, <2>1, <2>4 DEF SmallByte
  <2>6. ASSUME NEW i \in 1 .. Len(w) PROVE SmallByte(w[i][1], w[i][2], h, k)
    <3>1. i \in {1, 2, 3, 4, 5, 8, 9} \/ i = 6 \/ i = 7
      BY <2>1
    <3> QED BY <3>1, <2>3, <2>5, <1>s
  <2>7. SmallDigits(w, h, k)
    BY <2>6 DEF SmallDigits
  <2> QED BY <2>7 DEF w
<1>3. CASE c.op = "rel"
  <2>1. w = <<<<WR_REL_SET, e[WR_REL_SET] \cup ({c.p} \cap Byte)>>>>
    BY <1>3 DEF Program, do_write_reliability_set
  <2>2. Len(w) = 1 /\ w[1][1] = 167
    BY <2>1 DEF WR_REL_SET
  <2>3. 167 \notin HighRegs \cup MiddleRegs
    BY DEF HighRegs, MiddleRegs
  <2> QED BY <2>2, <2>3, <1>s DEF SmallDigits
<1>4. CASE c.op \notin Partitioning
  <2>1. AllowedWrites(c, w)
    BY ProgramTyped
  <2> HIDE DEF w
  <2>2. CASE c.op \in Resets
    <3>1. w \in {<<<<RST_N_FUNCTION, {0}>>>>, <<<<RST_N_FUNCTION, {1}>>>>}
      BY <2>1, <2>2 DEF AllowedWrites
    <3>2. Len(w) = 1 /\ w[1][1] = 162
      BY <3>1 DEF RST_N_FUNCTION
    <3>3. 162 \notin HighRegs \cup MiddleRegs
      BY DEF HighRegs, MiddleRegs
    <3>4. SmallDigits(w, h, k)
      BY <3>2, <3>3, <1>s DEF SmallDigits
    <3> QED BY <3>4 DEF w
  <2>3. CASE c.op \notin Resets
    <3>1. w \in Seq(OtherWrites)
      BY <2>1, <2>3, <1>4 DEF AllowedWrites
    <3>2. \A i \in 1 .. Len(w) : w[i] \in OtherWrites
      BY <3>1
    <3>3. \A i \in 1 .. Len(w) : w[i][1] \notin HighRegs \cup MiddleRegs
      BY <3>2, SizeRegs DEF OtherWrites
    <3>4. SmallDigits(w, h, k)
      BY <3>3, <1>s DEF SmallDigits
    <3> QED BY <3>4 DEF w
  <2> QED BY <2>2, <2>3
<1> QED BY <1>1, <1>2, <1>3, <1>4 DEF Partitioning

LEMMA SmallKept ==
    ASSUME NEW h \in Nat, NEW k \in Nat, Moderate(h, k), BaseInv, SmallInv(h, k), Kinds
    PROVE  SmallInv(h, k)'
<1>0. card \in [Regs -> SUBSET Byte]
  BY DEF BaseInv, CardInv
<1>e. SmallDigits(<<>>, h, k) /\ SmallDigits(Idle.writes, h, k)
  BY DEF SmallDigits, Idle
<1>z. \A r : SmallByte(r, {}, h, k)
  <2>1. number({}) = 0
    BY DEF number
  <2> QED BY <2>1 DEF SmallByte
<1>p. ASSUME NEW m \in Procs, NEW q, Puts(m, q), SmallDigits(q.writes, h, k)
      PROVE  \A n \in Procs : SmallDigits(proc'[n].writes, h, k)
  BY <1>p DEF Puts, SmallInv
<1>1. CASE PowerCycle
  <2>1. \A n \in Procs : proc'[n] = Idle
    BY <1>1 DEF PowerCycle
  <2>2. PICK lost : card' = [r \in Regs |-> IF r \in lost THEN {} ELSE card[r]]
    BY <1>1 DEF PowerCycle
  <2>3. \A r \in PartitionRegs : card'[r] = {} \/ card'[r] = card[r]
    BY <2>2, RegFacts
  <2>4. \A r \in PartitionRegs : SmallByte(r, card'[r], h, k)
    BY <2>3, <1>z DEF SmallInv, SmallSizes
  <2> QED BY <2>1, <2>4, <1>e DEF SmallInv, SmallSizes
<1>2. CASE Nothing
  BY <1>2 DEF Nothing, SmallInv
<1>3. ASSUME NEW m \in Procs, NEW c \in Commands, Starts(m, c) PROVE SmallInv(h, k)'
  <2>1. SmallDigits(Program(c, card), h, k) /\ card' = card
    BY <1>3, <1>0, ProgramDigits DEF Starts
  <2>2. SmallDigits(Process("write", c, Program(c, card)).writes, h, k)
    BY <2>1 DEF Process
  <2> QED BY <1>3, <2>1, <2>2, <1>p DEF Starts, SmallInv
<1>4. ASSUME NEW m \in Procs, Stores(m) \/ Skips(m) PROVE SmallInv(h, k)'
  <2> DEFINE w == proc[m].writes
  <2>1. /\ card' = [card EXCEPT ![FirstReg(m)] = FirstByte(m)] \/ card' = card
        /\ Working(proc[m])
        /\ proc[m].pc = "write" /\ w # <<>> /\ AllowedWrites(proc[m].cmd, w)
    BY <1>4 DEF Stores, Skips, Working
  <2>2. PICK S : w \in Seq(S)
    <3>1. CASE proc[m].cmd.op \in Resets
      <4>1. w \in {<<<<RST_N_FUNCTION, {0}>>>>, <<<<RST_N_FUNCTION, {1}>>>>}
        BY <2>1, <3>1 DEF AllowedWrites
      <4> HIDE DEF w
      <4> QED BY <4>1, ResetWrites
    <3>2. CASE proc[m].cmd.op \notin Resets
      <4>1. w \in Seq(PartitionWrites) \/ w \in Seq(OtherWrites)
        BY <2>1, <3>2 DEF AllowedWrites
      <4> HIDE DEF w
      <4> QED BY <4>1
    <3> QED BY <3>1, <3>2
  <2>3. SmallDigits(w, h, k) /\ FirstReg(m) = w[1][1] /\ FirstByte(m) = w[1][2] /\ 1 \in 1 .. Len(w)
    BY <2>1, <2>2 DEF SmallInv, FirstReg, FirstByte
  <2>4. SmallByte(FirstReg(m), FirstByte(m), h, k)
    BY <2>3 DEF SmallDigits
  <2>5. \A r \in PartitionRegs : card'[r] = card[r] \/ (r = FirstReg(m) /\ card'[r] = FirstByte(m))
    BY <2>1, <1>0, RegFacts
  <2>6. \A r \in PartitionRegs : SmallByte(r, card'[r], h, k)
    BY <2>4, <2>5 DEF SmallInv, SmallSizes
  <2>7. SmallDigits(Tail(w), h, k)
    <3> HIDE DEF w
    <3>1. Len(Tail(w)) = Len(w) - 1 /\ Len(w) \in Nat
      BY <2>1, <2>2
    <3>2. \A i \in 1 .. Len(Tail(w)) : Tail(w)[i] = w[i + 1]
      BY <2>1, <2>2
    <3>3. \A i \in 1 .. Len(Tail(w)) : i + 1 \in 1 .. Len(w)
      BY <3>1
    <3> QED BY <2>3, <3>2, <3>3 DEF SmallDigits
  <2>8. \A n \in Procs : SmallDigits(proc'[n].writes, h, k)
    <3>1. \A pc, c : /\ SmallDigits(Process(pc, c, Tail(w)).writes, h, k)
                     /\ SmallDigits(Process(pc, c, <<>>).writes, h, k)
      BY <2>7, <1>e DEF Process
    <3> QED BY <1>4, <3>1, <1>e, <1>p DEF Stores, Skips, MovesOn
  <2> QED BY <2>6, <2>8 DEF SmallInv, SmallSizes
<1>5. ASSUME NEW m \in Procs, Passes(m) PROVE SmallInv(h, k)'
  <2>1. SmallDigits(Process("seal", proc[m].cmd, <<>>).writes, h, k) /\ card' = card
    BY <1>5, <1>e DEF Process, Passes
  <2> QED BY <1>5, <2>1, <1>p DEF Passes, SmallInv
<1>6. ASSUME NEW m \in Procs, Seals(m) PROVE SmallInv(h, k)'
  <2>1. card' = [card EXCEPT ![PARTITION_SETTING_COMPLETED] = {0}]
    BY <1>6 DEF Seals, seal
  <2>2. \A r \in PartitionRegs : card'[r] = card[r]
    BY <2>1, <1>0, RegFacts
  <2> QED BY <1>6, <2>2, <1>e, <1>p DEF Seals, SmallInv, SmallSizes
<1>7. ASSUME NEW m \in Procs, Quits(m) PROVE SmallInv(h, k)'
  BY <1>7, <1>e, <1>p DEF Quits, SmallInv
<1> QED BY <1>1, <1>2, <1>3, <1>4, <1>5, <1>6, <1>7 DEF Kinds

\* The limits depend on the partition settings only.
LEMMA WithinRegs ==
    ASSUME NEW e, NEW f, \A r \in PartitionRegs : e[r] = f[r], Within(e)
    PROVE  Within(f)
<1>1. \A p \in Areas : sizeKiB(e, p) = sizeKiB(f, p)
  BY MultRegs DEF sizeKiB
<1>2. enhanced(e) = enhanced(f)
  BY MultRegs DEF enhanced
<1>3. ASSUME NEW S PROVE totalKiB(e, S) = totalKiB(f, S)
  <2>1. \A p \in {0, 1, 2, 3, 4} : sizeKiB(e, p) = sizeKiB(f, p)
    BY <1>1 DEF Areas
  <2> QED BY <2>1 DEF totalKiB
<1> QED BY <1>2, <1>3 DEF Within, check_enhanced_area_total_limit

LEMMA LimitKept ==
    ASSUME OneProcess, BaseInv, TestInv, LimitInv, Kinds
    PROVE  LimitInv'
<1>0. card \in [Regs -> SUBSET Byte]
  BY DEF BaseInv, CardInv
<1>c. ASSUME NEW n \in Procs, proc'[n].pc = "seal", proc'[n].cmd.op \in {"gp", "enh"}
      PROVE  Within(card')
  <2>i. proc'[n] # Idle
    BY <1>c DEF Idle
  <2>1. CASE PowerCycle
    BY <2>1, <2>i DEF PowerCycle
  <2>2. CASE Nothing
    BY <1>c, <2>2 DEF Nothing, LimitInv
  <2>3. ASSUME NEW m \in Procs, NEW c \in Commands, Starts(m, c) PROVE FALSE
    <3>1. proc'[n].pc = "write"
      BY <2>3, OnlyOne DEF Starts, Process
    <3> QED BY <1>c, <3>1
  <2>4. ASSUME NEW m \in Procs, Stores(m) \/ Skips(m) PROVE FALSE
    <3>1. \/ proc'[n] = Idle
          \/ proc'[n].pc \in {"write", "check"}
          \/ proc'[n].cmd.op = "rel"
      BY <2>4, OnlyOne DEF Stores, Skips, MovesOn, Process
    <3> QED BY <1>c, <2>i, <3>1
  <2>5. ASSUME NEW m \in Procs, Passes(m) PROVE Within(card')
    BY <2>5 DEF Passes, Within
  <2>6. ASSUME NEW m \in Procs, Seals(m) \/ Quits(m) PROVE FALSE
    BY <2>6, <2>i, OnlyOne DEF Seals, Quits
  <2> QED BY <2>1, <2>2, <2>3, <2>4, <2>5, <2>6 DEF Kinds
<1>s. ASSUME Sealed', sealedBy'.op \in {"gp", "enh"} PROVE Within(card')
  <2> DEFINE g == card'
  <2>1. CASE Sealed
    <3>1. (\A r \in PartitionRegs : card[r] = g[r]) /\ sealedBy' = sealedBy
      BY <2>1, SealedStep
    <3>2. Within(card)
      BY <1>s, <2>1, <3>1 DEF LimitInv
    <3> HIDE DEF g
    <3>3. Within(g)
      BY <3>1, <3>2, WithinRegs
    <3> QED BY <3>3 DEF g
  <2>2. ASSUME ~Sealed, NEW m \in Procs, Seals(m) PROVE Within(card')
    <3>1. /\ proc[m].pc = "seal" /\ sealedBy' = proc[m].cmd
          /\ card' = [card EXCEPT ![PARTITION_SETTING_COMPLETED] = {0}]
      BY <2>2 DEF Seals, seal
    <3>2. Within(card)
      BY <1>s, <3>1 DEF LimitInv
    <3>3. \A r \in PartitionRegs : card[r] = g[r]
      BY <3>1, <1>0, RegFacts
    <3> HIDE DEF g
    <3>4. Within(g)
      BY <3>2, <3>3, WithinRegs
    <3> QED BY <3>4 DEF g
  <2>3. CASE ~Sealed /\ \A m \in Procs : ~Seals(m)
    BY <1>0, <1>s, <2>3, OnlySeals
  <2> QED BY <2>1, <2>2, <2>3
<1> QED BY <1>c, <1>s DEF LimitInv

\* With small digits no product and no sum wraps.
LEMMA NoWrap ==
    ASSUME NEW h \in Nat, NEW k \in Nat, Moderate(h, k), NEW e, SmallSizes(e, h, k), NEW S
    PROVE  totalKiB(e, S) = Align * totalMult(e, S) /\ totalMult(e, S) \in Nat
<1> DEFINE z == 65536 * h + 256 * k + 256
           u == z * Align
           x(p) == IF p \in S THEN mult(e, p) ELSE 0
           y(p) == IF p \in S THEN sizeKiB(e, p) ELSE 0
<1>0. Align \in Nat /\ Align >= 512 /\ Word \in Nat /\ z \in Nat /\ u \in Nat /\ 5 * u <= Word
  BY AlignFacts, SizesAssumption DEF Moderate
<1>1. ASSUME NEW p \in Areas PROVE mult(e, p) \in Nat /\ mult(e, p) < z
  <2> DEFINE a == number(e[sizeAddress(p, 2)])
             b == number(e[sizeAddress(p, 1)])
             c == number(e[sizeAddress(p, 0)])
  <2>1. a \in 0 .. 255 /\ b \in 0 .. 255 /\ c \in 0 .. 255
    BY NumberNat
  <2>2. a <= h /\ b <= k
    <3>1. sizeAddress(p, 2) \in HighRegs /\ sizeAddress(p, 1) \in MiddleRegs
      BY SizeRegs
    <3>2. sizeAddress(p, 2) \in PartitionRegs /\ sizeAddress(p, 1) \in PartitionRegs
      BY <3>1, SizeRegs
    <3> QED BY <3>1, <3>2 DEF SmallSizes, SmallByte
  <2>3. mult(e, p) = a * 65536 + b * 256 + c
    BY DEF mult
  <2> HIDE DEF a, b, c
  <2> QED BY <2>1, <2>2, <2>3, SMT
<1>2. ASSUME NEW p \in Areas PROVE x(p) \in Nat /\ Align * x(p) < u /\ Align * x(p) \in Nat
  <2>1. x(p) \in Nat /\ x(p) < z
    BY <1>0, <1>1
  <2> HIDE DEF x, z
  <2>2. ASSUME NEW a \in Nat, NEW b \in Nat, NEW c \in Nat, a >= 1, b < c
        PROVE a * b < c * a /\ a * b \in Nat
    BY <2>2, SMT
  <2>3. Align * x(p) < z * Align /\ Align * x(p) \in Nat
    BY <1>0, <2>1, <2>2, SMT
  <2> QED BY <2>1, <2>3
<1>3. ASSUME NEW p \in Areas PROVE y(p) = Align * x(p)
  <2>1. CASE p \notin S
    BY <2>1, <1>0
  <2>2. CASE p \in S
    <3>1. x(p) = mult(e, p) /\ y(p) = (Align * mult(e, p)) % Word
      BY <2>2 DEF sizeKiB
    <3>2. Align * mult(e, p) \in Nat /\ Align * mult(e, p) < Word
      <4>1. Align * x(p) \in Nat /\ Align * x(p) < Word
        <5> HIDE DEF x, u
        <5> QED BY <1>0, <1>2
      <4> QED BY <3>1, <4>1
    <3>3. ASSUME NEW a \in Nat, a < Word PROVE a % Word = a
      BY <3>3, <1>0
    <3>4. (Align * mult(e, p)) % Word = Align * mult(e, p)
      BY <3>2, <3>3
    <3> HIDE DEF x, y
    <3> QED BY <3>1, <3>4
  <2> QED BY <2>1, <2>2
<1>4. totalKiB(e, S) = (y(0) + y(1) + y(2) + y(3) + y(4)) % Word
  BY DEF totalKiB
<1>5. totalMult(e, S) = x(0) + x(1) + x(2) + x(3) + x(4)
  BY DEF totalMult
<1>6. Areas = {0, 1, 2, 3, 4}
  BY DEF Areas
<1> HIDE DEF x, y, u
<1>7. /\ x(0) \in Nat /\ x(1) \in Nat /\ x(2) \in Nat /\ x(3) \in Nat /\ x(4) \in Nat
      /\ Align * x(0) \in Nat /\ Align * x(1) \in Nat /\ Align * x(2) \in Nat
      /\ Align * x(3) \in Nat /\ Align * x(4) \in Nat
      /\ Align * x(0) < u /\ Align * x(1) < u /\ Align * x(2) < u /\ Align * x(3) < u
      /\ Align * x(4) < u
  BY <1>2, <1>6
<1>8. /\ y(0) = Align * x(0) /\ y(1) = Align * x(1) /\ y(2) = Align * x(2)
      /\ y(3) = Align * x(3) /\ y(4) = Align * x(4)
  BY <1>3, <1>6
<1> DEFINE s == y(0) + y(1) + y(2) + y(3) + y(4)
<1>9. s \in Nat /\ s < Word
  BY <1>0, <1>7, <1>8
<1>10. ASSUME NEW a \in Nat, NEW b \in Nat, NEW c \in Nat, NEW d \in Nat, NEW f \in Nat, NEW g \in Nat
       PROVE  g * a + g * b + g * c + g * d + g * f = g * (a + b + c + d + f)
  BY SMT
<1>11. s = Align * totalMult(e, S)
  BY <1>0, <1>5, <1>7, <1>8, <1>10
<1>12. s % Word = s
  <2> HIDE DEF s
  <2> QED BY <1>0, <1>9
<1> QED BY <1>4, <1>5, <1>7, <1>11, <1>12

LEMMA LimitsMeanLimits ==
    ASSUME NEW h \in Nat, NEW k \in Nat, Moderate(h, k), SmallInv(h, k), LimitInv
    PROVE  SealedWithinLimits
<1> SUFFICES ASSUME Sealed, sealedBy.op \in {"gp", "enh"}
             PROVE  /\ Align * totalMult(card, Areas) <= SecCount \div 2
                    /\ totalMult(card, enhanced(card)) <= MaxEnhSizeMult
  BY DEF SealedWithinLimits
<1>1. /\ totalKiB(card, enhanced(card)) <= (Align * MaxEnhSizeMult) % Word
      /\ totalKiB(card, Areas) <= SecCount \div 2
  BY DEF LimitInv, Within, check_enhanced_area_total_limit
<1>2. SmallSizes(card, h, k)
  BY DEF SmallInv
<1> DEFINE a == totalMult(card, Areas)
           t == totalMult(card, enhanced(card))
<1>3. /\ totalKiB(card, Areas) = Align * a
      /\ totalKiB(card, enhanced(card)) = Align * t /\ t \in Nat
  BY <1>2, NoWrap
<1>4. Align * t <= (Align * MaxEnhSizeMult) % Word
  BY <1>1, <1>3
<1> HIDE DEF a, t
<1>5. (Align * MaxEnhSizeMult) % Word <= Align * MaxEnhSizeMult
  <2>1. Align * MaxEnhSizeMult \in Nat
    BY AlignFacts, SizesAssumption
  <2>2. ASSUME NEW x \in Nat, NEW w \in Nat, w > 0 PROVE x % w <= x
    BY <2>2
  <2> QED BY <2>1, <2>2, SizesAssumption
<1>6. t <= MaxEnhSizeMult
  <2>1. ASSUME NEW x \in Nat, NEW y \in Nat, NEW g \in Nat, g >= 1, g * x <= g * y PROVE x <= y
    <3>1. ASSUME x >= y + 1 PROVE FALSE
      <4>1. g * x >= g * (y + 1)
        BY <2>1, <3>1
      <4> QED BY <2>1, <4>1
    <3> QED BY <2>1, <3>1
  <2>2. Align * t <= Align * MaxEnhSizeMult
    <3>1. Align * t \in Int /\ Align * MaxEnhSizeMult \in Int
      BY <1>3, AlignFacts, SizesAssumption
    <3>2. (Align * MaxEnhSizeMult) % Word \in Int
      BY <3>1, SizesAssumption
    <3> QED BY <1>4, <1>5, <3>1, <3>2
  <2> QED BY <1>3, <2>1, <2>2, AlignFacts, SizesAssumption
<1> QED BY <1>1, <1>3, <1>6 DEF a, t

\* Whatever failed, killed and dry runs have left in the registers, what gp create
\* or enh_area set makes permanent fits the card and its enhanced area: for every
\* geometry and every set of command lines whose sizes stay below the wrap of the
\* 32-bit sums in check_enhanced_area_total_limit.
THEOREM CompletedWithinLimits ==
    ASSUME OneProcess, NEW h \in Nat, NEW k \in Nat, Moderate(h, k)
    PROVE  Spec => []SealedWithinLimits
<1> DEFINE Inv == OtpInv /\ SmallInv(h, k) /\ LimitInv
<1>1. Init => Inv
  <2> SUFFICES ASSUME Init PROVE Inv
    OBVIOUS
  <2>1. OtpInv
    BY OtpInit
  <2>2. \A m \in Procs : proc[m] = Idle
    BY DEF Init
  <2>3. SmallInv(h, k)
    <3>1. \A r \in PartitionRegs : card[r] = {}
      BY RegFacts DEF Init
    <3>2. \A r : SmallByte(r, {}, h, k)
      <4>1. number({}) = 0
        BY DEF number
      <4> QED BY <4>1 DEF SmallByte
    <3>3. SmallDigits(Idle.writes, h, k)
      BY DEF SmallDigits, Idle
    <3> QED BY <2>2, <3>1, <3>2, <3>3 DEF SmallInv, SmallSizes
  <2>4. ~Sealed
    BY <2>1 DEF Init, OtpInv, BaseInv, SealInv
  <2> QED BY <2>1, <2>2, <2>3, <2>4 DEF LimitInv, Idle
<1>2. Inv /\ [Next]_vars => Inv'
  <2>1. ASSUME Inv, Next PROVE SmallInv(h, k)' /\ LimitInv'
    BY <2>1, EveryStep, SmallKept, LimitKept DEF OtpInv, BaseInv
  <2>2. ASSUME Inv, UNCHANGED vars PROVE SmallInv(h, k)' /\ LimitInv'
    BY <2>2 DEF vars, SmallInv, LimitInv, Sealed
  <2> QED BY <2>1, <2>2, OtpNext
<1>3. Inv => SealedWithinLimits
  BY LimitsMeanLimits
<1> HIDE DEF Inv
<1> QED BY <1>1, <1>2, <1>3, PTL DEF Spec
=============================================================================
