-------------------------- MODULE I2cMailboxProofs --------------------------
(* Proofs about I2cMailbox: for all writes and reads of the BMC, all sizes *)
(* and any number of transactions, broken off ones and resets.             *)
EXTENDS I2cMailbox, TLAPS

-----------------------------------------------------------------------------
(* The inductive invariant                                                 *)

\* The slave follows the transaction.
Following ==
  /\ bus.phase = "address" => op = "MASTER_CMD_READ"
  /\ AnswersWhatWasAsked
  /\ whole => received = IF bus.phase = "value" THEN 1 ELSE 0

\* A command that was announced has an event, unless it is being executed.
Announced == pc = "idle" /\ pnc => queued > 0

\* A write that is owed is announced, and in the buffer.
Owed ==
  want # None => /\ bus.phase # "value" /\ pnc /\ buf = want
                 /\ pc = "idle" \/ (pc = "execute" /\ addr = want[1])

\* What a transaction out of step may be executed as is announced, and in the
\* buffer; while it is being executed the address is fixed.
Loose ==
  loose # {} => /\ pnc
                /\ \/ pc = "idle" /\ buf \in loose
                   \/ pc = "execute" /\ <<addr, buf[2]>> \in loose
                /\ bus.phase = "value" /\ pc = "execute" => addr = bus.addr

\* As long as nothing was disturbed, what is executed is owed.
NothingElse == intact /\ ((pc = "idle" /\ pnc) \/ pc = "execute") => want # None

IsFlush(w) == w # None /\ w[1] = UfmCmdTriggerValue /\ Flushes(w[2])
IsByte(w) == w # None /\ w[1] = UfmWriteFIFO

Holds(n) == /\ index = n
            /\ \A i \in 1..n : fifo[i] = sent[i]

\* The FIFO holds what was sent, but for the write that is owed.
Filled ==
  intact => /\ Len(sent) <= FifoSize
            /\ IsFlush(want) => sent = <<>>
            /\ IsByte(want) => /\ Len(sent) > 0 /\ sent[Len(sent)] = want[2]
                               /\ Holds(Len(sent) - 1)
            /\ ~IsFlush(want) /\ ~IsByte(want) => Holds(Len(sent))

\* An item is there until the command that took it ends.
Taken == (item # <<>> => pc = "end") /\ ItemAsSent

IInv == TypeOK /\ Following /\ Announced /\ Owed /\ Loose /\ NothingElse /\ Filled /\ Taken

-----------------------------------------------------------------------------
(* The invariant is kept                                                   *)

\* Two bytes are a buffer.
LEMMA Pair == \A a, b \in Bytes : <<a, b>> \in Bytes \X Bytes
OBVIOUS

LEMMA InitInv == Init => IInv
<1> SUFFICES ASSUME Init PROVE IInv
  OBVIOUS
<1> USE I2cAssumption DEF Init, Free, None, Zeros
<1>t. 0 \in Bytes /\ <<>> \in Seq(Bytes) /\ 0 \in 0..QMax /\ 0 \in 0..(IndexSize - 1)
  BY DEF Bytes
<1>f. fifo \in [1..FifoSize -> Bytes]
  BY <1>t
<1>1. TypeOK
  <2>1. (bus \in [phase : {"idle", "address", "value"}, addr : Bytes] /\ op \in Operations)
    BY <1>t DEF Operations
  <2>2. (received \in 0..1 /\ queued \in 0..QMax)
    BY <1>t
  <2>6. (pnc \in BOOLEAN /\ i2c \in BOOLEAN)
    OBVIOUS
  <2>5. (buf \in Bytes \X Bytes)
    BY <1>t, Pair
  <2>3. (/\ pc \in {"idle", "execute", "end"} /\ addr \in Bytes /\ command \in Bytes
         /\ index \in 0..(IndexSize - 1) /\ item \in Seq(Bytes))
    BY <1>t
  <2>4. (/\ want \in Writes \cup {None} /\ loose \in SUBSET (Bytes \X Bytes)
         /\ sent \in Seq(Bytes) /\ intact \in BOOLEAN /\ whole \in BOOLEAN)
    BY <1>t
  <2> QED
    BY <1>f, <2>1, <2>2, <2>3, <2>4, <2>5, <2>6 DEF TypeOK
<1>2. Following /\ Announced /\ Owed /\ Loose /\ NothingElse /\ Filled /\ Taken
  BY DEF Following, AnswersWhatWasAsked, Announced, Owed, Loose, NothingElse, Filled, Taken,
         ItemAsSent
<1> QED
  BY <1>1, <1>2 DEF IInv

LEMMA ResetInv == IInv /\ Reset => IInv'
<1> SUFFICES ASSUME Reset PROVE IInv'
  OBVIOUS
<1> USE I2cAssumption DEF Reset, Free, None, Zeros
<1>t. 0 \in Bytes /\ <<>> \in Seq(Bytes) /\ 0 \in 0..QMax /\ 0 \in 0..(IndexSize - 1)
  BY DEF Bytes
<1>f. fifo' \in [1..FifoSize -> Bytes]
  BY <1>t
<1>1. TypeOK'
  <2>1. (bus \in [phase : {"idle", "address", "value"}, addr : Bytes] /\ op \in Operations)'
    BY <1>t DEF Operations
  <2>2. (received \in 0..1 /\ queued \in 0..QMax)'
    BY <1>t
  <2>6. (pnc \in BOOLEAN /\ i2c \in BOOLEAN)'
    OBVIOUS
  <2>5. (buf \in Bytes \X Bytes)'
    BY <1>t, Pair
  <2>3. (/\ pc \in {"idle", "execute", "end"} /\ addr \in Bytes /\ command \in Bytes
         /\ index \in 0..(IndexSize - 1) /\ item \in Seq(Bytes))'
    BY <1>t
  <2>4. (/\ want \in Writes \cup {None} /\ loose \in SUBSET (Bytes \X Bytes)
         /\ sent \in Seq(Bytes) /\ intact \in BOOLEAN /\ whole \in BOOLEAN)'
    BY <1>t
  <2> QED
    BY <1>f, <2>1, <2>2, <2>3, <2>4, <2>5, <2>6 DEF TypeOK
<1>2. (Following /\ Announced /\ Owed /\ Loose /\ NothingElse /\ Filled /\ Taken)'
  BY DEF Following, AnswersWhatWasAsked, Announced, Owed, Loose, NothingElse, Filled, Taken,
         ItemAsSent
<1> QED
  BY <1>1, <1>2 DEF IInv

\* A write of the BMC, as a pair of bytes.
LEMMA WriteFacts ==
  ASSUME NEW w \in Writes
  PROVE  w # None /\ w = <<w[1], w[2]>> /\ w[1] \in Bytes /\ w[2] \in Bytes
BY I2cAssumption DEF None

\* A step that leaves the main thread, the mailbox, what is owed and the history
\* of the FIFO alone.
LEMMA QuietInv ==
  ASSUME IInv, TypeOK', Following',
         UNCHANGED <<buf, pnc, queued, pc, addr, command, fifo, index, item, want, loose, sent,
                     intact>>,
         bus'.phase # "value"
  PROVE  IInv'
<1> USE DEF IInv
<1>1. Announced' BY DEF Announced
<1>2. Owed' /\ Loose' BY DEF Owed, Loose
<1>3. NothingElse' BY DEF NothingElse
<1>4. Filled' BY DEF Filled, IsFlush, IsByte, Holds
<1>5. Taken' BY DEF Taken, ItemAsSent
<1> QED BY <1>1, <1>2, <1>3, <1>4, <1>5

LEMMA WriteRequestedInv == IInv /\ write_requested => IInv'
<1> SUFFICES ASSUME IInv, write_requested PROVE IInv'
  OBVIOUS
<1> USE DEF write_requested, slaveVars, threadVars, mailboxVars
<1>1. TypeOK'
  BY DEF IInv, TypeOK, Operations, Bytes
<1>2. Following'
  BY DEF IInv, TypeOK, Following, AnswersWhatWasAsked
<1>3. buf' = buf /\ bus'.phase # "value"
  OBVIOUS
<1> QED
  BY <1>1, <1>2, <1>3, QuietInv

LEMMA StopInv == IInv /\ stop => IInv'
<1> SUFFICES ASSUME IInv, stop PROVE IInv'
  OBVIOUS
<1> USE DEF stop, slaveVars, threadVars, mailboxVars, Free
<1>1. TypeOK'
  BY DEF IInv, TypeOK, Operations, Bytes
<1>2. Following'
  BY DEF IInv, TypeOK, Following, AnswersWhatWasAsked
<1>3. buf' = buf /\ bus'.phase # "value"
  OBVIOUS
<1> QED
  BY <1>1, <1>2, <1>3, QuietInv

\* What the callbacks for a byte leave in the slave and the queue.
LEMMA StoreType ==
  ASSUME TypeOK, NEW v \in Bytes, Store(v)
  PROVE  op' \in Operations /\ buf' \in Bytes \X Bytes /\ received' \in 0..1
<1>1. CASE op = "SLAVE_IDLE"
  BY <1>1 DEF TypeOK, Store
<1>2. CASE op # "SLAVE_IDLE"
  <2>1. op' \in Operations
    BY <1>2 DEF TypeOK, Store, Operations
  <2>2. received' \in 0..1
    BY <1>2 DEF TypeOK, Store
  <2>3. buf' \in Bytes \X Bytes
    <3>1. CASE op = "MASTER_CMD_READ"
      BY <1>2, <3>1, Pair DEF Store
    <3>2. CASE op # "MASTER_CMD_READ"
      <4>1. buf' = <<buf[1], v>> /\ buf[1] \in Bytes
        BY <1>2, <3>2 DEF Store, TypeOK
      <4> QED BY <4>1, Pair
    <3> QED BY <3>1, <3>2
  <2> QED BY <2>1, <2>2, <2>3
<1> QED BY <1>1, <1>2

LEMMA AnnounceType ==
  ASSUME TypeOK, NEW full \in BOOLEAN, Announce(full)
  PROVE  /\ pnc' \in BOOLEAN /\ queued' \in 0..QMax
         /\ full => pnc' /\ queued' > 0
         /\ ~full => pnc' = pnc /\ queued' = queued
<1>1. queued' \in 0..QMax /\ (full => queued' > 0)
  BY I2cAssumption DEF TypeOK, Announce, post_smc_action
<1>2. pnc' \in BOOLEAN /\ (full => pnc') /\ (~full => pnc' = pnc /\ queued' = queued)
  BY Zenon DEF TypeOK, Announce
<1> QED BY <1>1, <1>2

LEMMA AddressInv ==
  ASSUME IInv, NEW a \in Bytes, AddressReceived(a)
  PROVE  IInv'
<1> USE DEF AddressReceived, threadVars, mailboxVars
<1> DEFINE full == Completes
<1>0. full \in BOOLEAN /\ op = "MASTER_CMD_READ" /\ (full <=> received = 1)
  BY DEF IInv, Following, Completes, TypeOK
<1>1. op' \in Operations /\ buf' \in Bytes \X Bytes /\ received' \in 0..1
  BY StoreType DEF IInv
<1>2. /\ pnc' \in BOOLEAN /\ queued' \in 0..QMax
      /\ full => pnc' /\ queued' > 0
      /\ ~full => pnc' = pnc /\ queued' = queued
  BY <1>0, AnnounceType DEF IInv
<1>3. /\ op' = "MASTER_DATA_READ_SLAVE_DATA_SEND" /\ buf' = <<a, a>>
      /\ received' = (received + 1) % 2
  BY <1>0 DEF Store
<1> HIDE DEF full
<1>4. \/ want = None /\ received = 0 /\ sent' = sent /\ intact' = intact
      \/ sent' = <<>> /\ intact' = FALSE
  BY DEF Disturbed
<1>5. TypeOK'
  <2>1. bus' \in [phase : {"idle", "address", "value"}, addr : Bytes]
    OBVIOUS
  <2>2. sent' \in Seq(Bytes)
    <3>1. <<>> \in Seq(Bytes) /\ sent \in Seq(Bytes)
      BY DEF IInv, TypeOK
    <3> QED BY <1>4, <3>1, Zenon
  <2>4. want' \in Writes \cup {None} /\ loose' \in SUBSET (Bytes \X Bytes)
    BY Pair
  <2>3. intact' \in BOOLEAN
    BY <1>4 DEF IInv, TypeOK
  <2> QED
    BY <1>1, <1>2, <2>1, <2>2, <2>3, <2>4 DEF IInv, TypeOK
<1>6. Following'
  <2>1. whole => received' = 1
    BY <1>3 DEF IInv, Following
  <2> QED
    BY <1>3, <2>1 DEF Following, AnswersWhatWasAsked
<1>7. Announced'
  BY <1>2 DEF IInv, Announced
<1>8. Owed' /\ Loose'
  <2>1. Owed'
    BY DEF Owed
  <2>2. loose' = IF full /\ pc = "idle" THEN {<<a, a>>} ELSE {}
    BY DEF full
  <2>3. CASE full /\ pc = "idle"
    BY <1>2, <1>3, <2>1, <2>2, <2>3 DEF Loose
  <2>4. CASE ~(full /\ pc = "idle")
    BY <2>1, <2>2, <2>4 DEF Loose
  <2> QED BY <2>3, <2>4
<1>9. NothingElse'
  <2>1. received = 0 => pnc' = pnc
    BY <1>0, <1>2
  <2>2. intact /\ want = None => ~(pc = "idle" /\ pnc) /\ pc # "execute"
    BY Zenon DEF IInv, NothingElse
  <2> QED
    BY <1>4, <2>1, <2>2, Zenon DEF NothingElse
<1>10. Filled'
  BY <1>4 DEF IInv, Filled, IsFlush, IsByte, Holds
<1>11. Taken'
  BY <1>4 DEF IInv, Taken, ItemAsSent
<1> QED
  BY <1>5, <1>6, <1>7, <1>8, <1>9, <1>10, <1>11 DEF IInv

LEMMA TakeByteType ==
  ASSUME TypeOK, NEW v \in Bytes, TakeByte(v)
  PROVE  fifo' \in [1..FifoSize -> Bytes] /\ index' \in 0..(IndexSize - 1)
<1>1. index \in Nat /\ IndexSize \in Nat /\ index < IndexSize /\ fifo \in [1..FifoSize -> Bytes]
  BY I2cAssumption DEF TypeOK
<1>2. index' \in 0..(IndexSize - 1)
  BY <1>1 DEF TakeByte
<1>3. fifo' \in [1..FifoSize -> Bytes]
  BY <1>1 DEF TakeByte
<1> QED BY <1>2, <1>3

LEMMA ReadInv == IInv /\ read_requested => IInv'
<1> SUFFICES ASSUME IInv, read_requested PROVE IInv'
  OBVIOUS
<1> USE DEF read_requested, Free, threadVars
<1>0. want = None
  BY DEF IInv, Owed
<1>1. \/ UNCHANGED <<fifo, index, sent, intact>>
      \/ TakeByte(buf[2]) /\ sent' = <<>> /\ intact' = FALSE
  BY DEF Disturbed
<1>2. TypeOK'
  <2>1. 0 \in Bytes
    BY DEF Bytes
  <2>2. bus' \in [phase : {"idle", "address", "value"}, addr : Bytes]
        /\ op' \in Operations /\ buf' \in Bytes \X Bytes /\ received' \in 0..1
    BY <2>1, Pair DEF Operations
  <2>3. sent' \in Seq(Bytes) /\ fifo' \in [1..FifoSize -> Bytes] /\ index' \in 0..(IndexSize - 1)
    <3>1. buf[2] \in Bytes
      BY DEF IInv, TypeOK
    <3>2. CASE UNCHANGED <<fifo, index, sent, intact>>
      BY <3>2 DEF IInv, TypeOK
    <3>3. CASE TakeByte(buf[2]) /\ sent' = <<>> /\ intact' = FALSE
      <4>1. sent' \in Seq(Bytes)
        BY <3>3
      <4> QED BY <3>1, <3>3, <4>1, TakeByteType DEF IInv
    <3> QED BY <1>1, <3>2, <3>3
  <2>4. intact' \in BOOLEAN /\ whole' \in BOOLEAN
    BY <1>1 DEF IInv, TypeOK
  <2>5. loose' \in SUBSET (Bytes \X Bytes)
    <3>1. bus.addr \in Bytes /\ loose \in SUBSET (Bytes \X Bytes)
      BY DEF IInv, TypeOK
    <3>2. <<bus.addr, 0>> \in Bytes \X Bytes /\ <<0, 0>> \in Bytes \X Bytes
      BY <2>1, <3>1, Pair
    <3> QED BY <3>1, <3>2
  <2> QED
    BY <2>2, <2>3, <2>4, <2>5 DEF IInv, TypeOK
<1>3. Following'
  BY DEF Following, AnswersWhatWasAsked
<1>4. Announced' /\ Owed' /\ Loose'
  <2>1. Announced' /\ Owed'
    BY <1>0 DEF IInv, Announced, Owed
  <2>2. buf' = <<0, 0>> /\ bus'.phase = "idle" /\ bus.phase = "value" /\ UNCHANGED <<pnc, pc, addr>>
    OBVIOUS
  <2>3. CASE loose = {}
    BY <2>1, <2>3 DEF Loose
  <2>4. CASE loose # {}
    <3>1. <<bus.addr, 0>> \in loose' /\ <<0, 0>> \in loose'
      BY <2>4
    <3>2. pnc /\ (pc = "idle" \/ (pc = "execute" /\ addr = bus.addr))
      BY <2>2, <2>4 DEF IInv, Loose
    <3> QED BY <2>1, <2>2, <3>1, <3>2 DEF Loose
  <2> QED BY <2>3, <2>4
<1>5. NothingElse'
  BY <1>1 DEF IInv, NothingElse
<1>6. Filled'
  BY <1>0, <1>1 DEF IInv, Filled, IsFlush, IsByte, Holds
<1>7. Taken'
  BY <1>1 DEF IInv, Taken, ItemAsSent
<1> QED
  BY <1>2, <1>3, <1>4, <1>5, <1>6, <1>7 DEF IInv

LEMMA DispatchInv == IInv /\ Dispatch => IInv'
<1> SUFFICES ASSUME IInv, Dispatch PROVE IInv'
  OBVIOUS
<1> USE DEF Dispatch, slaveVars, threadVars, mailboxVars
<1>0. /\ pnc => pc' = "execute" /\ addr' = buf[1]
      /\ ~pnc => pc' = "idle" /\ addr' = addr
  BY Zenon
<1>1. TypeOK'
  <2>1. queued' \in 0..QMax
    <3>1. queued \in 0..QMax /\ QMax \in Nat
      BY I2cAssumption DEF IInv, TypeOK
    <3>2. queued' = queued \/ (queued > 0 /\ queued' = queued - 1)
      OBVIOUS
    <3> QED BY <3>1, <3>2
  <2>2. pc' \in {"idle", "execute", "end"} /\ addr' \in Bytes
    <3>1. buf[1] \in Bytes /\ addr \in Bytes
      BY DEF IInv, TypeOK
    <3> QED BY <1>0, <3>1
  <2>3. i2c' \in BOOLEAN
    OBVIOUS
  <2> QED
    BY <2>1, <2>2, <2>3 DEF IInv, TypeOK
<1>2. Following'
  BY DEF IInv, Following, AnswersWhatWasAsked
<1>3. Announced'
  BY <1>0 DEF Announced
<1>4. Owed' /\ Loose'
  <2>1. Owed'
    BY <1>0 DEF IInv, Owed
  <2>2. loose # {} => pnc /\ buf \in loose /\ (bus.phase = "value" => buf[1] = bus.addr)
    BY DEF IInv, Loose, Following, AnswersWhatWasAsked
  <2>3. buf = <<buf[1], buf[2]>>
    BY DEF IInv, TypeOK
  <2>4. Loose'
    BY <1>0, <2>2, <2>3 DEF Loose
  <2> QED BY <2>1, <2>4
<1>5. NothingElse'
  BY <1>0, Zenon DEF IInv, NothingElse
<1>6. Filled'
  BY DEF IInv, Filled, IsFlush, IsByte, Holds
<1>7. Taken'
  BY DEF IInv, Taken, ItemAsSent
<1> QED
  BY <1>1, <1>2, <1>3, <1>4, <1>5, <1>6, <1>7 DEF IInv

LEMMA EndInv == IInv /\ End => IInv'
<1> SUFFICES ASSUME IInv, End PROVE IInv'
  OBVIOUS
<1> USE DEF End, slaveVars
<1>1. TypeOK'
  <2>1. item' \in Seq(Bytes) /\ pc' \in {"idle", "execute", "end"}
    OBVIOUS
  <2>2. pnc' \in BOOLEAN
    OBVIOUS
  <2> QED
    BY <2>1, <2>2 DEF IInv, TypeOK
<1>2. Following'
  BY DEF IInv, Following, AnswersWhatWasAsked
<1>3. Announced' /\ Owed' /\ Loose' /\ NothingElse'
  BY DEF IInv, Announced, Owed, Loose, NothingElse
<1>4. Filled'
  BY DEF IInv, Filled, IsFlush, IsByte, Holds
<1>5. Taken'
  BY DEF IInv, Taken, ItemAsSent
<1> QED
  BY <1>1, <1>2, <1>3, <1>4, <1>5 DEF IInv

LEMMA LeaveInv == IInv /\ Leave => IInv'
<1> SUFFICES ASSUME IInv, Leave PROVE IInv'
  OBVIOUS
<1> USE DEF Leave, slaveVars, mailboxVars
<1>1. TypeOK'
  BY DEF IInv, TypeOK
<1>2. Following' /\ Announced' /\ Owed' /\ Loose' /\ NothingElse'
  BY DEF IInv, Following, AnswersWhatWasAsked, Announced, Owed, Loose, NothingElse
<1>3. Filled' /\ Taken'
  BY DEF IInv, Filled, IsFlush, IsByte, Holds, Taken, ItemAsSent
<1> QED
  BY <1>1, <1>2, <1>3 DEF IInv

LEMMA ValueInv ==
  ASSUME IInv, NEW v \in Bytes, ValueReceived(v)
  PROVE  IInv'
<1> DEFINE w == <<bus.addr, v>>
<1>0. /\ w \in Writes /\ bus.addr \in Bytes /\ want = None /\ received \in 0..1
      /\ op = "MASTER_DATA_READ_SLAVE_DATA_SEND" /\ buf[1] = bus.addr
      /\ bus.phase = "value" /\ bus' = Free
      /\ UNCHANGED <<i2c, pc, addr, command, fifo, index, item, whole>>
  BY DEF IInv, TypeOK, Owed, Following, AnswersWhatWasAsked, ValueReceived, threadVars, mailboxVars
<1>1. Completes \in BOOLEAN /\ (Completes <=> received = 1)
  BY <1>0 DEF Completes
<1>2. op' \in Operations /\ buf' \in Bytes \X Bytes /\ received' \in 0..1
  BY StoreType DEF IInv, ValueReceived
<1>3. /\ pnc' \in BOOLEAN /\ queued' \in 0..QMax
      /\ Completes => pnc' /\ queued' > 0
      /\ ~Completes => pnc' = pnc /\ queued' = queued
  BY <1>1, AnnounceType DEF IInv, ValueReceived
<1>4. buf' = w /\ received' = (received + 1) % 2
  BY <1>0 DEF Store, ValueReceived, IInv, TypeOK
<1>5. bus' \in [phase : {"idle", "address", "value"}, addr : Bytes] /\ bus'.phase = "idle"
  BY <1>0 DEF Free, Bytes
<1>6. Following'
  <2>1. whole' => received' = 0
    BY <1>0, <1>4 DEF IInv, Following
  <2> QED
    BY <1>5, <2>1 DEF Following, AnswersWhatWasAsked
<1>7. w # None /\ w[1] = bus.addr /\ w[2] = v
  BY DEF None
<1>l. loose' \in SUBSET (Bytes \X Bytes) /\ Loose'
  <2>1. w \in Bytes \X Bytes /\ loose \in SUBSET (Bytes \X Bytes) /\ w = <<bus.addr, w[2]>>
    BY <1>0, Pair DEF IInv, TypeOK
  <2>2. loose' = IF loose = {} THEN {} ELSE loose \cup {w}
    BY DEF ValueReceived
  <2>3. CASE loose = {}
    BY <2>2, <2>3 DEF Loose
  <2>4. CASE loose # {}
    <3>1. pnc /\ (pc = "idle" \/ (pc = "execute" /\ addr = bus.addr))
      BY <1>0, <2>4 DEF IInv, Loose
    <3>2. pnc'
      BY <1>1, <1>3, <3>1, Zenon
    <3>3. w \in loose' /\ loose' \in SUBSET (Bytes \X Bytes)
      BY <2>1, <2>2, <2>4
    <3> QED BY <1>0, <1>4, <1>5, <2>1, <3>1, <3>2, <3>3 DEF Loose
  <2> QED BY <2>3, <2>4
<1>8. CASE Completes /\ pc = "idle"
  <2>1. want' = w
    BY <1>8, Zenon DEF ValueReceived
  <2>2. \/ w[1] = UfmCmdTriggerValue /\ Flushes(w[2]) /\ sent' = <<>> /\ intact' = TRUE
        \/ /\ w[1] = UfmWriteFIFO /\ intact /\ Len(sent) < FifoSize
           /\ sent' = Append(sent, v) /\ intact' = intact
        \/ sent' = <<>> /\ intact' = FALSE
        \/ /\ w[1] # UfmWriteFIFO /\ ~(w[1] = UfmCmdTriggerValue /\ Flushes(w[2]))
           /\ sent' = sent /\ intact' = intact
    BY <1>7, <1>8, Zenon DEF ValueReceived, Disturbed
  <2>3. sent \in Seq(Bytes) /\ Append(sent, v) \in Seq(Bytes) /\ <<>> \in Seq(Bytes)
    BY DEF IInv, TypeOK
  <2>4. sent' \in Seq(Bytes)
    BY <2>2, <2>3, Zenon
  <2>5. intact' \in BOOLEAN
    BY <2>2 DEF IInv, TypeOK
  <2>6. TypeOK'
    BY <1>0, <1>2, <1>3, <1>5, <1>l, <2>1, <2>4, <2>5 DEF IInv, TypeOK
  <2>7. Announced' /\ Owed' /\ NothingElse'
    BY <1>0, <1>3, <1>4, <1>5, <1>7, <1>8, <2>1 DEF Announced, Owed, NothingElse
  <2>8. Filled'
    <3>1. intact => Len(sent) <= FifoSize /\ Holds(Len(sent))
      BY <1>0 DEF IInv, Filled, IsFlush, IsByte
    <3>2. UfmCmdTriggerValue # UfmWriteFIFO
      BY DEF UfmCmdTriggerValue, UfmWriteFIFO
    <3>3. CASE w[1] = UfmCmdTriggerValue /\ Flushes(w[2]) /\ sent' = <<>> /\ intact' = TRUE
      BY <1>7, <2>1, <3>2, <3>3, I2cAssumption DEF Filled, IsFlush, IsByte
    <3>4. CASE /\ w[1] = UfmWriteFIFO /\ intact /\ Len(sent) < FifoSize
               /\ sent' = Append(sent, v) /\ intact' = intact
      <4>1. Len(sent') = Len(sent) + 1 /\ sent'[Len(sent')] = v /\ Len(sent) \in Nat
        BY <2>3, <3>4
      <4>2. \A i \in 1..Len(sent) : sent'[i] = sent[i]
        BY <2>3, <3>4
      <4>3. Holds(Len(sent) - 1)'
        BY <1>0, <3>1, <3>4, <4>1, <4>2 DEF Holds
      <4> QED
        BY <1>7, <2>1, <3>2, <3>4, <4>1, <4>3, I2cAssumption DEF Filled, IsFlush, IsByte
    <3>5. CASE sent' = <<>> /\ intact' = FALSE
      BY <3>5 DEF Filled
    <3>6. CASE /\ w[1] # UfmWriteFIFO /\ ~(w[1] = UfmCmdTriggerValue /\ Flushes(w[2]))
               /\ sent' = sent /\ intact' = intact
      BY <1>0, <1>7, <2>1, <3>1, <3>6 DEF Filled, IsFlush, IsByte, Holds
    <3> QED
      BY <2>2, <3>3, <3>4, <3>5, <3>6
  <2>9. Taken'
    BY <1>0, <1>8 DEF IInv, Taken, ItemAsSent
  <2> QED
    BY <1>6, <1>l, <2>6, <2>7, <2>8, <2>9 DEF IInv
<1>9. CASE ~(Completes /\ pc = "idle")
  <2>1. want' = None /\ sent' = <<>> /\ intact' = FALSE
    BY <1>9, Zenon DEF ValueReceived, Disturbed
  <2>2. sent' \in Seq(Bytes) /\ want' \in Writes \cup {None}
    BY <2>1
  <2>3. intact' \in BOOLEAN
    BY <2>1
  <2>4. TypeOK'
    BY <1>0, <1>2, <1>3, <1>5, <1>l, <2>2, <2>3 DEF IInv, TypeOK
  <2>5. Announced'
    BY <1>0, <1>3, <1>9 DEF IInv, Announced
  <2>6. Owed' /\ NothingElse' /\ Filled'
    BY <2>1 DEF Owed, NothingElse, Filled
  <2>7. Taken'
    BY <1>0, <2>1 DEF IInv, Taken, ItemAsSent
  <2> QED
    BY <1>6, <1>l, <2>4, <2>5, <2>6, <2>7 DEF IInv
<1> QED
  BY <1>8, <1>9

\* Two sequences that agree on their first n elements begin alike.
LEMMA SameStart ==
  ASSUME NEW s \in Seq(Bytes), NEW t \in Seq(Bytes), NEW n \in Nat,
         n <= Len(s), n <= Len(t), \A i \in 1..n : s[i] = t[i]
  PROVE  SubSeq(s, 1, n) = SubSeq(t, 1, n) /\ Len(SubSeq(s, 1, n)) = n
OBVIOUS

LEMMA CommandInv == IInv /\ PchBmcCommands => IInv'
<1> SUFFICES ASSUME IInv, PchBmcCommands PROVE IInv'
  OBVIOUS
<1>0. /\ pc = "execute" /\ pc' = "end" /\ addr' = 0 /\ want' = None /\ loose' = {}
      /\ UNCHANGED <<bus, op, buf, received, pnc, queued, i2c, sent, intact, whole>>
  BY DEF PchBmcCommands, slaveVars
<1>1. buf[2] \in Bytes /\ fifo \in Seq(Bytes) /\ Len(fifo) = FifoSize /\ sent \in Seq(Bytes)
      /\ index \in Nat /\ FifoSize \in Nat /\ FifoSize < IndexSize /\ IndexSize \in Nat
      /\ item = <<>> /\ 0 \in Bytes
  <2>1. FifoSize \in Nat /\ FifoSize < IndexSize /\ IndexSize \in Nat
    BY I2cAssumption
  <2>2. fifo \in [1..FifoSize -> Bytes] /\ index \in 0..(IndexSize - 1)
    BY DEF IInv, TypeOK
  <2>3. fifo \in Seq(Bytes) /\ Len(fifo) = FifoSize
    BY <2>1, <2>2
  <2>4. index \in Nat
    BY <2>1, <2>2
  <2>5. buf[2] \in Bytes
    BY DEF IInv, TypeOK
  <2>6. sent \in Seq(Bytes)
    BY DEF IInv, TypeOK
  <2>7. item = <<>>
    BY <1>0 DEF IInv, Taken
  <2>8. 0 \in Bytes
    BY DEF Bytes
  <2> QED
    BY <2>1, <2>3, <2>4, <2>5, <2>6, <2>7, <2>8
<1>2. intact => want # None /\ buf = want /\ addr = want[1]
  BY <1>0 DEF IInv, NothingElse, Owed
<1>3. item' = <<>> \/ (/\ command \in DOMAIN Size /\ item' = SubSeq(fifo, 1, Size[command])
                       /\ addr = UfmCmdTriggerValue /\ Executes(buf[2])
                       /\ UNCHANGED <<fifo, index>>)
  BY <1>1 DEF PchBmcCommands, process_provision_command, Flush, TakeByte, mailboxVars
<1>4. TypeOK'
  <2>1. command' \in Bytes
    BY <1>1 DEF PchBmcCommands, IInv, TypeOK, mailboxVars
  <2>2. fifo' \in [1..FifoSize -> Bytes] /\ index' \in 0..(IndexSize - 1)
    <3>1. \/ UNCHANGED <<fifo, index>>
          \/ Flush(buf[2])
          \/ TakeByte(buf[2])
      BY DEF PchBmcCommands, mailboxVars
    <3>2. CASE UNCHANGED <<fifo, index>>
      BY <3>2 DEF IInv, TypeOK
    <3>3. CASE Flush(buf[2])
      BY <1>1, <3>3 DEF IInv, TypeOK, Flush, Zeros
    <3>4. CASE TakeByte(buf[2])
      BY <1>1, <3>4, TakeByteType DEF IInv
    <3> QED BY <3>1, <3>2, <3>3, <3>4
  <2>3. item' \in Seq(Bytes)
    <3>1. CASE item' = <<>>
      BY <3>1
    <3>2. CASE command \in DOMAIN Size /\ item' = SubSeq(fifo, 1, Size[command])
      BY <1>1, <3>2, I2cAssumption
    <3> QED BY <1>3, <3>1, <3>2
  <2>4. pc' \in {"idle", "execute", "end"} /\ addr' \in Bytes /\ want' \in Writes \cup {None}
        /\ loose' \in SUBSET (Bytes \X Bytes)
    BY <1>0, <1>1
  <2> QED
    BY <1>0, <2>1, <2>2, <2>3, <2>4 DEF IInv, TypeOK
<1>5. Following'
  BY <1>0 DEF IInv, Following, AnswersWhatWasAsked
<1>6. Announced' /\ Owed' /\ Loose' /\ NothingElse'
  BY <1>0 DEF Announced, Owed, Loose, NothingElse
<1>7. UfmCmdTriggerValue # UfmWriteFIFO /\ UfmCommand # UfmWriteFIFO
      /\ UfmCommand # UfmCmdTriggerValue
  BY DEF UfmCmdTriggerValue, UfmWriteFIFO, UfmCommand
<1>8. ASSUME intact
      PROVE  Len(sent) <= FifoSize /\ Holds(Len(sent))'
  <2>1. Len(sent) <= FifoSize /\ want # None /\ buf[2] = want[2] /\ addr = want[1]
    BY <1>2, <1>8 DEF IInv, Filled
  <2>2. CASE ~IsFlush(want) /\ ~IsByte(want)
    <3>1. UNCHANGED <<fifo, index>>
      BY <2>1, <2>2 DEF PchBmcCommands, IsFlush, IsByte, mailboxVars
    <3> QED
      BY <1>0, <1>8, <2>1, <2>2, <3>1 DEF IInv, Filled, Holds
  <2>3. CASE IsFlush(want)
    <3>1. index' = 0
      BY <1>7, <2>1, <2>3 DEF PchBmcCommands, IsFlush, Flush, Flushes
    <3>2. sent = <<>>
      BY <1>8, <2>3 DEF IInv, Filled
    <3> QED
      BY <1>0, <2>1, <3>1, <3>2 DEF Holds
  <2>4. CASE IsByte(want)
    <3>1. TakeByte(buf[2])
      BY <1>7, <2>1, <2>4 DEF PchBmcCommands, IsByte
    <3>2. Len(sent) > 0 /\ sent[Len(sent)] = buf[2] /\ Holds(Len(sent) - 1)
      BY <1>8, <2>1, <2>4 DEF IInv, Filled
    <3>3. index = Len(sent) - 1 /\ Len(sent) \in Nat /\ fifo \in [1..FifoSize -> Bytes]
      BY <1>1, <3>2 DEF Holds, IInv, TypeOK
    <3>4. index' = Len(sent) /\ fifo' = [fifo EXCEPT ![Len(sent)] = buf[2]]
      BY <1>1, <2>1, <3>1, <3>2, <3>3 DEF TakeByte
    <3>5. \A i \in 1..Len(sent) : fifo'[i] = sent[i]
      BY <2>1, <3>2, <3>3, <3>4, <1>1 DEF Holds
    <3> QED
      BY <1>0, <2>1, <3>4, <3>5 DEF Holds
  <2> QED
    BY <2>2, <2>3, <2>4
<1>9. Filled'
  BY <1>0, <1>8 DEF Filled, IsFlush, IsByte
<1>10. Taken'
  <2>1. CASE item' = <<>>
    BY <2>1 DEF Taken, ItemAsSent
  <2>2. CASE /\ command \in DOMAIN Size /\ item' = SubSeq(fifo, 1, Size[command])
             /\ addr = UfmCmdTriggerValue /\ Executes(buf[2]) /\ UNCHANGED <<fifo, index>>
    <3>1. Size[command] \in Nat /\ Size[command] <= FifoSize
      BY <1>1, <2>2, I2cAssumption
    <3>2. Len(item') = Size[command]
      BY <1>1, <2>2, <3>1
    <3>3. intact /\ Len(sent) >= Size[command] => item' = SubSeq(sent, 1, Size[command])
      <4> SUFFICES ASSUME intact, Len(sent) >= Size[command]
                   PROVE  item' = SubSeq(sent, 1, Size[command])
        OBVIOUS
      <4>1. \A i \in 1..Len(sent) : fifo[i] = sent[i]
        BY <1>0, <1>8, <2>2 DEF Holds
      <4>2. \A i \in 1..Size[command] : fifo[i] = sent[i]
        BY <1>1, <3>1, <4>1
      <4> QED
        BY <1>1, <2>2, <3>1, <4>2, SameStart
    <3> QED
      BY <1>0, <3>2, <3>3 DEF Taken, ItemAsSent
  <2> QED
    BY <1>3, <2>1, <2>2
<1> QED
  BY <1>4, <1>5, <1>6, <1>9, <1>10 DEF IInv

LEMMA NextInv == IInv /\ [Next]_vars => IInv'
<1> SUFFICES ASSUME IInv, [Next]_vars PROVE IInv'
  OBVIOUS
<1>1. CASE UNCHANGED vars
  BY <1>1 DEF vars, IInv, TypeOK, Following, AnswersWhatWasAsked, Announced, Owed, Loose, NothingElse,
              Filled, IsFlush, IsByte, Holds, Taken, ItemAsSent
<1>2. ASSUME NEW a \in Reads \cup {w[1] : w \in Writes}, AddressReceived(a)
      PROVE  IInv'
  BY <1>2, AddressInv, WriteFacts, I2cAssumption
<1>3. ASSUME NEW v \in {w[2] : w \in Writes}, ValueReceived(v)
      PROVE  IInv'
  BY <1>3, ValueInv, WriteFacts
<1>4. CASE Interrupt
  BY <1>2, <1>3, <1>4, WriteRequestedInv, ReadInv, StopInv DEF Interrupt
<1>5. CASE MainThread
  BY <1>5, DispatchInv, CommandInv, EndInv DEF MainThread
<1> QED
  BY <1>1, <1>4, <1>5, LeaveInv, ResetInv DEF Next

LEMMA Inductive == Spec => []IInv
BY InitInv, NextInv, PTL DEF Spec

-----------------------------------------------------------------------------
(* Theorems                                                                *)

\* Every reachable state is well typed; the index of the FIFO stays a byte.
THEOREM I2cTypeCorrect == Spec => []TypeOK
<1>1. IInv => TypeOK
  BY DEF IInv
<1> QED
  BY <1>1, Inductive, PTL

\* What arrives between two commands and is left alone is executed with its own
\* bytes, after any history of the bus: as it was sent if it is in step, and
\* otherwise as it was sent or with its address for the value
\* (process_i2c_command).
THEOREM WritesAreServedAsSent == Spec => []ServedAsSent
<1>1. IInv => ServedAsSent
  <2> SUFFICES ASSUME IInv, pc = "execute"
               PROVE  /\ want # None => want = <<addr, buf[2]>>
                      /\ loose # {} => <<addr, buf[2]>> \in loose
    BY DEF ServedAsSent
  <2>1. ASSUME want # None PROVE want = <<addr, buf[2]>>
    <3>1. buf = want /\ addr = want[1] /\ want \in Writes
      BY <2>1 DEF IInv, Owed, TypeOK
    <3> QED BY <3>1, WriteFacts
  <2>2. loose # {} => <<addr, buf[2]>> \in loose
    BY DEF IInv, Loose
  <2> QED BY <2>1, <2>2
<1> QED
  BY <1>1, Inductive, PTL

\* An item is made of the bytes sent for it (process_provision_command).
THEOREM ItemsAreAsSent == Spec => []ItemAsSent
<1>1. IInv => ItemAsSent
  BY DEF IInv, Taken
<1> QED
  BY <1>1, Inductive, PTL

\* A read answers for the register it named (i2c_1060_slave_bmc_read_requested).
THEOREM ReadsAreAnswered == Spec => []AnswersWhatWasAsked
<1>1. IInv => AnswersWhatWasAsked
  BY DEF IInv, Following
<1> QED
  BY <1>1, Inductive, PTL

\* Only a write that ends early puts the bytes out of step, and a read puts them
\* right (gDataReceived).
THEOREM StaysInStep == Spec => []InStep
<1>1. IInv => InStep
  BY DEF IInv, Following, InStep
<1> QED
  BY <1>1, Inductive, PTL
=============================================================================
