----------------------------- MODULE I2cMailbox -----------------------------
(***************************************************************************)
(* How the bytes of the BMC's I2C transactions become mailbox commands     *)
(* (BmcI2C_handler.c, I2C_Slave_aspeed.c, process_i2c_command and          *)
(* PchBmcCommands).  The callbacks run in the interrupt and fill one       *)
(* buffer; the main thread executes a write from that buffer later, while  *)
(* the bus goes on.  Reads are answered in the interrupt.  Hrot has what   *)
(* update intents do and Provision what the provisioning commands do; here *)
(* they are writes like others, and of the registers there are those by    *)
(* which an item to be provisioned arrives.                                *)
(***************************************************************************)
EXTENDS Integers, Sequences

CONSTANTS Writes,     \* <<register, value>> pairs the BMC writes
          Reads,      \* registers it reads
          Size,       \* bytes of each item, by the command that provisions it
          FifoSize,   \* bytes of gUfmFifoData: 64
          IndexSize,  \* values of the eight bit gFifoData: 256
          QMax        \* I2C events the heap has room for

Bytes == 0..255

ASSUME I2cAssumption ==
  /\ Writes \subseteq Bytes \X Bytes /\ Reads \subseteq Bytes
  /\ FifoSize \in Nat /\ IndexSize \in Nat /\ FifoSize < IndexSize
  /\ DOMAIN Size \subseteq Bytes /\ Size \in [DOMAIN Size -> 0..FifoSize]
  /\ QMax \in Nat \ {0}

\* Register addresses (SMBUS_MAILBOX_RF_ADDRESS).
UfmCommand == 11
UfmCmdTriggerValue == 12
UfmWriteFIFO == 13

\* Bits of the trigger register; the first of them that is set counts.
Executes(v) == v % 2 = 1
Flushes(v) == ~Executes(v) /\ ((v \div 2) % 2 = 1 \/ (v \div 4) % 2 = 1)
ClearsFifo(v) == ~Executes(v) /\ (v \div 2) % 2 = 1

VARIABLES
  bus,      \* the transaction going on: its phase and register
  op, buf,  \* gI2cSlaveProcess: operation, DataBuf
  received, \* gDataReceived
  pnc,      \* I2CActiveObjectData.ProcessNewCommand
  queued,   \* I2C events in the FIFO of the state machine
  i2c,      \* the state machine is in state I2C
  pc, addr, \* main thread: where it is, CipherText[0] when it was looked at
  command,  \* UfmCommand register
  fifo, index,  \* gUfmFifoData, gFifoData
  item,     \* bytes the command being executed has taken for Provision
  want,     \* history: a write the main thread owes, <<>> if none
  loose,    \* history: what a transaction out of step may be executed as
  sent,     \* history: bytes for the FIFO since the last flush
  intact,   \* history: no write since that flush was disturbed
  whole     \* history: no write ended early since the last read

slaveVars == <<op, buf, received>>
threadVars == <<i2c, pc, addr>>
mailboxVars == <<command, fifo, index, item>>
vars == <<bus, op, buf, received, pnc, queued, i2c, pc, addr, command, fifo, index, item,
          want, loose, sent, intact, whole>>

None == <<>>
Free == [phase |-> "idle", addr |-> 0]
Zeros(n) == [i \in 1..n |-> 0]

Init ==
  /\ bus = Free
  /\ op = "SLAVE_IDLE" /\ buf = <<0, 0>> /\ received = 0
  /\ pnc = FALSE /\ queued = 0 /\ i2c = FALSE
  /\ pc = "idle" /\ addr = 0
  /\ command = 0 /\ fifo = Zeros(FifoSize) /\ index = 0 /\ item = <<>>
  /\ want = None /\ loose = {} /\ sent = <<>> /\ intact = FALSE /\ whole = TRUE

-----------------------------------------------------------------------------
(* The interrupt                                                           *)

\* Mutant: the operation of the transaction before is kept.
KeepsOperation ==
  /\ bus.phase = "idle"
  /\ bus' = [phase |-> "address", addr |-> 0]
  /\ UNCHANGED <<slaveVars, pnc, queued, threadVars, mailboxVars, want, loose, sent, intact,
                 whole>>

\* i2c_1060_slave_bmc_write_requested: every transaction begins with it.
write_requested ==
  /\ bus.phase = "idle"
  /\ bus' = [phase |-> "address", addr |-> 0]
  /\ op' = "MASTER_CMD_READ"
  /\ UNCHANGED <<buf, received, pnc, queued, threadVars, mailboxVars, want, loose, sent,
                 intact, whole>>

\* Mutant: the value is stored in the place of the address.
ValueOverAddress(val) ==
  IF op = "SLAVE_IDLE" THEN UNCHANGED <<op, buf, received>>
  ELSE /\ op' = "MASTER_DATA_READ_SLAVE_DATA_SEND"
       /\ buf' = IF op = "MASTER_CMD_READ" THEN <<val, val>> ELSE [buf EXCEPT ![1] = val]
       /\ received' = (received + 1) % 2

\* The first two conditions of i2c_1060_slave_bmc_write_received: the first byte
\* is an address and goes on into the second condition.
Store(val) ==
  IF op = "SLAVE_IDLE" THEN UNCHANGED <<op, buf, received>>
  ELSE /\ op' = "MASTER_DATA_READ_SLAVE_DATA_SEND"
       /\ buf' = IF op = "MASTER_CMD_READ" THEN <<val, val>> ELSE [buf EXCEPT ![2] = val]
       /\ received' = (received + 1) % 2

Completes == op # "SLAVE_IDLE" /\ received = 1

\* post_smc_action drops the event when the heap is full.
post_smc_action == queued' = IF queued < QMax THEN queued + 1 ELSE queued

\* Mutant: a command is announced only when no event is waiting.
AnnouncesOnce(full) ==
  IF full THEN pnc' = (pnc \/ queued = 0) /\ post_smc_action ELSE UNCHANGED <<pnc, queued>>

\* The third condition: two bytes are a command.
Announce(full) ==
  IF full THEN pnc' = TRUE /\ post_smc_action ELSE UNCHANGED <<pnc, queued>>

\* What was sent for the FIFO no longer counts.
Disturbed == sent' = <<>> /\ intact' = FALSE

\* The address: a write that is still owed is overwritten.  A byte left behind by
\* a write that ended early makes this one the second, a command with the address
\* for its value.
AddressReceived(a) ==
  /\ bus.phase = "address"
  /\ bus' = [phase |-> "value", addr |-> a]
  /\ Store(a) /\ Announce(Completes)
  /\ want' = None
  /\ loose' = IF Completes /\ pc = "idle" THEN {<<a, a>>} ELSE {}
  /\ IF want = None /\ received = 0 THEN UNCHANGED <<sent, intact>> ELSE Disturbed
  /\ UNCHANGED <<threadVars, mailboxVars, whole>>

\* The value: the write is owed when the main thread is between two commands.
ValueReceived(v) ==
  LET owed == Completes /\ pc = "idle"
  IN /\ bus.phase = "value" /\ <<bus.addr, v>> \in Writes
     /\ bus' = Free
     /\ Store(v) /\ Announce(Completes)
     /\ want' = IF owed THEN <<bus.addr, v>> ELSE None
     /\ loose' = IF loose = {} THEN {} ELSE loose \cup {<<bus.addr, v>>}
     /\ \/ /\ owed /\ bus.addr = UfmCmdTriggerValue /\ Flushes(v)
           /\ sent' = <<>> /\ intact' = TRUE
        \/ /\ owed /\ bus.addr = UfmWriteFIFO
           /\ IF intact /\ Len(sent) < FifoSize
              THEN sent' = Append(sent, v) /\ UNCHANGED intact ELSE Disturbed
        \/ /\ owed /\ bus.addr # UfmWriteFIFO
           /\ ~(bus.addr = UfmCmdTriggerValue /\ Flushes(v))
           /\ UNCHANGED <<sent, intact>>
        \/ ~owed /\ Disturbed
     /\ UNCHANGED <<threadVars, mailboxVars, whole>>

\* Mutant: the index is wider than eight bits.
WideIndex(v) ==
  /\ fifo' = IF index < FifoSize THEN [fifo EXCEPT ![index + 1] = v] ELSE fifo
  /\ index' = index + 1

\* The FIFO takes a byte; what lies behind it is not modelled.
TakeByte(v) ==
  /\ fifo' = IF index < FifoSize THEN [fifo EXCEPT ![index + 1] = v] ELSE fifo
  /\ index' = IF index = IndexSize - 1 THEN 0 ELSE index + 1

\* Mutant: the count of bytes is left as it is.
ReadKeepsCount ==
  /\ bus.phase = "value" /\ bus.addr \in Reads
  /\ bus' = Free
  /\ op' = "SLAVE_IDLE" /\ buf' = <<0, 0>>
  /\ whole' = TRUE
  /\ UNCHANGED <<received, pnc, queued, threadVars, mailboxVars, want, loose, sent, intact>>

\* i2c_1060_slave_bmc_read_requested: the register is read in the interrupt, and
\* the write FIFO has no read of its own.
read_requested ==
  /\ bus.phase = "value" /\ bus.addr \in Reads
  /\ bus' = Free
  /\ IF op = "MASTER_DATA_READ_SLAVE_DATA_SEND" /\ buf[1] = UfmWriteFIFO
     THEN TakeByte(buf[2]) /\ Disturbed
     ELSE UNCHANGED <<fifo, index, sent, intact>>
  /\ op' = "SLAVE_IDLE" /\ buf' = <<0, 0>> /\ received' = 0
  /\ loose' = IF loose = {} THEN {} ELSE loose \cup {<<bus.addr, 0>>, <<0, 0>>}
  /\ whole' = TRUE
  /\ UNCHANGED <<pnc, queued, threadVars, command, item, want>>

\* The master gives up: i2c_1060_slave_bmc_stop does nothing.
stop ==
  /\ bus.phase # "idle"
  /\ bus' = Free
  /\ whole' = (whole /\ bus.phase = "address")
  /\ UNCHANGED <<slaveVars, pnc, queued, threadVars, mailboxVars, want, loose, sent,
                 intact>>

Interrupt ==
  \/ write_requested
  \/ \E a \in Reads \cup {w[1] : w \in Writes} : AddressReceived(a)
  \/ \E v \in {w[2] : w \in Writes} : ValueReceived(v)
  \/ read_requested
  \/ stop

-----------------------------------------------------------------------------
(* The main thread                                                         *)

\* An event brings the state machine into state I2C, whose run_i2c is called
\* again, without one, as long as it stays there.  process_i2c_command goes on
\* with the buffer as it is now, or finds nothing to do.
Dispatch ==
  /\ pc = "idle" /\ i2c' = TRUE
  /\ \/ queued > 0 /\ queued' = queued - 1
     \/ i2c /\ pnc /\ UNCHANGED queued
  /\ IF pnc THEN pc' = "execute" /\ addr' = buf[1] ELSE UNCHANGED <<pc, addr>>
  /\ UNCHANGED <<bus, slaveVars, pnc, mailboxVars, want, loose, sent, intact,
                 whole>>

\* An event of another kind (see Hrot) takes the state machine out of state I2C.
Leave ==
  /\ pc = "idle" /\ i2c /\ i2c' = FALSE
  /\ UNCHANGED <<bus, slaveVars, pnc, queued, pc, addr, mailboxVars, want, loose, sent, intact,
                 whole>>

\* process_provision_command as far as the FIFO is concerned: Provision has the
\* rest.  A locked UFM leaves everything as it is.
process_provision_command ==
  \/ command \in DOMAIN Size /\ item' = SubSeq(fifo, 1, Size[command])
  \/ UNCHANGED item

\* The flush commands; the one for the read FIFO resets the index of the other.
Flush(v) ==
  /\ fifo' = IF ClearsFifo(v) THEN Zeros(FifoSize) ELSE fifo
  /\ index' = 0

\* PchBmcCommands on a write.
PchBmcCommands ==
  /\ pc = "execute" /\ pc' = "end" /\ addr' = 0
  /\ \/ /\ addr = UfmCommand
        /\ command' = buf[2] /\ UNCHANGED <<fifo, index, item>>
     \/ /\ addr = UfmCmdTriggerValue /\ Executes(buf[2])
        /\ process_provision_command /\ UNCHANGED <<command, fifo, index>>
     \/ /\ addr = UfmCmdTriggerValue /\ Flushes(buf[2])
        /\ Flush(buf[2]) /\ UNCHANGED <<command, item>>
     \/ /\ addr = UfmCmdTriggerValue /\ ~Executes(buf[2]) /\ ~Flushes(buf[2])
        /\ UNCHANGED mailboxVars
     \/ /\ addr = UfmWriteFIFO
        /\ TakeByte(buf[2]) /\ UNCHANGED <<command, item>>
     \/ /\ addr \notin {UfmCommand, UfmCmdTriggerValue, UfmWriteFIFO}
        /\ UNCHANGED mailboxVars
  /\ want' = None /\ loose' = {}
  /\ UNCHANGED <<bus, slaveVars, pnc, queued, i2c, sent, intact, whole>>

\* Mutant: the command stays announced.
EndKeepsAnnounced ==
  /\ pc = "end" /\ pc' = "idle" /\ item' = <<>>
  /\ UNCHANGED <<bus, slaveVars, pnc, queued, i2c, addr, command, fifo, index, want, loose,
                 sent, intact, whole>>

\* The end of process_i2c_command, seconds later if a command wrote flash.
End ==
  /\ pc = "end" /\ pc' = "idle"
  /\ pnc' = FALSE /\ item' = <<>>
  /\ UNCHANGED <<bus, slaveVars, queued, i2c, addr, command, fifo, index, want, loose, sent,
                 intact, whole>>

MainThread == Dispatch \/ PchBmcCommands \/ End

\* A reset of the HRoT: the bytes that remain of a transaction find SLAVE_IDLE
\* and change nothing.
Reset ==
  /\ bus' = Free
  /\ op' = "SLAVE_IDLE" /\ buf' = <<0, 0>> /\ received' = 0
  /\ pnc' = FALSE /\ queued' = 0 /\ i2c' = FALSE
  /\ pc' = "idle" /\ addr' = 0
  /\ command' = 0 /\ fifo' = Zeros(FifoSize) /\ index' = 0 /\ item' = <<>>
  /\ want' = None /\ loose' = {} /\ sent' = <<>> /\ intact' = FALSE /\ whole' = TRUE

Next == Interrupt \/ MainThread \/ Leave \/ Reset

Spec == Init /\ [][Next]_vars

\* The main loop takes the events that are there and finishes what it began.
FairSpec == Spec /\ WF_vars(MainThread)

-----------------------------------------------------------------------------
(* Properties                                                              *)

Operations == {"SLAVE_IDLE", "MASTER_CMD_READ", "MASTER_DATA_READ_SLAVE_DATA_SEND"}

\* Every variable stays in its domain.
TypeOK ==
  /\ bus \in [phase : {"idle", "address", "value"}, addr : Bytes]
  /\ op \in Operations /\ buf \in Bytes \X Bytes /\ received \in 0..1
  /\ pnc \in BOOLEAN /\ queued \in 0..QMax /\ i2c \in BOOLEAN
  /\ pc \in {"idle", "execute", "end"} /\ addr \in Bytes
  /\ command \in Bytes /\ index \in 0..(IndexSize - 1)
  /\ fifo \in [1..FifoSize -> Bytes]
  /\ item \in Seq(Bytes)
  /\ want \in Writes \cup {None} /\ loose \in SUBSET (Bytes \X Bytes) /\ sent \in Seq(Bytes)
  /\ intact \in BOOLEAN /\ whole \in BOOLEAN

\* What the master completes while the main thread is between two commands, and
\* then leaves alone, is executed with its own bytes, whatever other writes,
\* broken off transactions and stale events came before it.  A write in step is
\* executed as it was sent.  One that follows a write that ended early is
\* complete with its address: it is executed as it was sent or with the address
\* for its value; a read in its place is executed as a write of that register
\* with the address or zero, or of register 0.
ServedAsSent ==
  pc = "execute" => /\ want # None => want = <<addr, buf[2]>>
                    /\ loose # {} => <<addr, buf[2]>> \in loose

\* Both are executed in the end.
Served == (want # None \/ loose # {}) ~> (want = None /\ loose = {})

\* An item is taken with the bytes the BMC sent since the last flush, in
\* their order, if none of its writes was disturbed: no byte is lost or taken
\* twice.
ItemAsSent ==
  intact /\ item # <<>> /\ Len(sent) >= Len(item) => item = SubSeq(sent, 1, Len(item))

\* A read answers for the register whose address it sent, even when the bytes
\* before it were out of step.
AnswersWhatWasAsked ==
  bus.phase = "value" => op = "MASTER_DATA_READ_SLAVE_DATA_SEND" /\ buf[1] = bus.addr

\* The bytes are in step between two transactions unless a write has ended
\* early since the last read, which puts them right again.
InStep == whole /\ bus.phase # "value" => received = 0
=============================================================================
