---------------------------- MODULE MCI2cMailbox ----------------------------
(* A small instance of I2cMailbox for TLC.                                 *)
EXTENDS I2cMailbox

\* Command, execute, flush, and two different bytes for an item of two bytes.
\* The value 12, which bytes out of step give the trigger register, flushes the
\* other FIFO.
ItemWrites == {<<11, 1>>, <<12, 1>>, <<12, 2>>, <<13, 1>>, <<13, 2>>}

\* The status register and, although it is not meant to be read, the FIFO.
StatusAndFifo == {10, 13}

RootKeyOnly == [c \in {1} |-> 2]
=============================================================================
