------------------------------- MODULE DwSpi -------------------------------
(***************************************************************************)
(* The accesses of the driver to the registers of the transceiver          *)
(* (lib/decadriver/deca_device.c) over the SPI bus of the board            *)
(* (lib/platform/deca_spi.c, deca_mutex.c, port.c).  A transfer composes a *)
(* header of one to three bytes, fills one buffer with it and the bytes to *)
(* send, exchanges it for another of the same length, and copies from that *)
(* what was to be read.  The two buffers, their lengths and the settings   *)
(* of the bus are shared by the main loop and the interrupt routine, and   *)
(* are guarded by disabling the interrupt.                                 *)
(***************************************************************************)
EXTENDS Integers, Sequences

CONSTANTS
  Writes,   \* of the main loop: [file, index, value, n]
  Reads,    \* of the main loop: [file, index, n]
  IsrWrites, IsrReads,  \* those of the interrupt routine, to registers of its own
  Ports,    \* [installed |-> an interrupt routine is, status |-> what
            \*  port_GetEXT_IRQStatus returns while interrupts are enabled]
  Cells,    \* the bytes of the transceiver the accesses reach: <<file, offset>>
  BufferSize  \* of tx_buf and rx_buf

\* The asserted ranges of a register file and of an offset in it; and the bytes
\* that fit into the buffer after a header.
Files == 0 .. 63
Offsets == 0 .. 32767
Sizes == 1 .. (BufferSize - 3)

ASSUME AccessesAssumption ==
  \A r \in Writes \cup Reads \cup IsrWrites \cup IsrReads :
    r.file \in Files /\ r.index \in Offsets /\ r.n \in Sizes
\* What is read at once is the five bytes of a time.
ASSUME BufferAssumption == BufferSize \in Nat /\ BufferSize >= 8
ASSUME CellsAssumption == Cells \subseteq Nat \X Nat

VARIABLES
  port,    \* one of Ports
  enabled, \* the interrupt is
  pc,      \* of "main" and "isr": the step of the transfer
  call,    \* of both: the access
  tx_buf, rx_buf, len,  \* shared
  spi_cfg, \* "none", "slow" or "fast"
  mem,     \* the transceiver's bytes
  held,    \* history: what they have been asked to hold
  got      \* of both: the bytes read

spivars == <<port, enabled, pc, call, tx_buf, rx_buf, len, spi_cfg, mem, held, got>>

Procs == {"main", "isr"}
Zero == 0

Bytes(value, n) == [i \in 1 .. n |-> (value \div 256 ^ (i - 1)) % 256]

\* Fault: an index of 128 is sent in one byte.
HeaderShort(c) ==
  LET op == IF c.write THEN 128 ELSE 0
  IN IF c.index = 0 THEN <<op + c.file>>
     ELSE IF c.index <= 128 THEN <<op + 64 + c.file, c.index>>
     ELSE <<op + 64 + c.file, 128 + (c.index % 128), c.index \div 128>>

\* Bit 7 of the first byte tells a write, bit 6 that an index follows; the
\* second byte holds the low seven bits of an index of more than 127, whose
\* own bit 7 the flag covers.
Header(c) ==
  LET op == IF c.write THEN 128 ELSE 0
  IN IF c.index = 0 THEN <<op + c.file>>
     ELSE IF c.index <= 127 THEN <<op + 64 + c.file, c.index>>
     ELSE <<op + 64 + c.file, 128 + (c.index % 128), (c.index \div 128) % 256>>

\* The accesses of the driver: 8, 16 or 32 bits, or a number of bytes, at an
\* index of a register file; the registers are sent lowest byte first.
WriteAccess(r) ==
  [write |-> TRUE, file |-> r.file, index |-> r.index, body |-> Bytes(r.value, r.n)]
ReadAccess(r) ==
  [write |-> FALSE, file |-> r.file, index |-> r.index, body |-> [i \in 1 .. r.n |-> 0]]

\* The times: the five bytes of a register of the transmission, the reception
\* or the clock, or the four at either end.
Stamps(file) ==
  {ReadAccess([file |-> file, index |-> 0, n |-> 5]),
   ReadAccess([file |-> file, index |-> 1, n |-> 4]),
   ReadAccess([file |-> file, index |-> 0, n |-> 4])}

Clock == 6

MainCalls == {WriteAccess(r) : r \in Writes} \cup {ReadAccess(r) : r \in Reads} \cup Stamps(Clock)
IsrCalls == {WriteAccess(r) : r \in IsrWrites} \cup {ReadAccess(r) : r \in IsrReads}

\* The bytes of the transceiver an access is for.  What one of the two writes
\* is a register the other leaves alone.
Touched(c) == {<<c.file, c.index + i - 1>> : i \in 1 .. Len(c.body)}

ASSUME RegistersAssumption ==
  \A c \in MainCalls, d \in IsrCalls : c.write \/ d.write => Touched(c) \cap Touched(d) = {}

NoCall == ReadAccess([file |-> 0, index |-> 0, n |-> 1])

\* The transceiver's side: where a frame on the bus is addressed to.
Addressed(frame) ==
  LET sub  == (frame[1] \div 64) % 2 = 1
      long == sub /\ frame[2] >= 128
  IN [write |-> frame[1] >= 128,
      file  |-> frame[1] % 64,
      index |-> IF ~sub THEN 0
                ELSE IF long THEN (frame[2] % 128) + (128 * frame[3]) ELSE frame[2],
      at    |-> IF ~sub THEN 2 ELSE IF long THEN 4 ELSE 3]

Idle(p) == pc[p] = "idle"

SpiInit ==
  /\ port \in Ports
  /\ enabled = TRUE
  /\ pc = [p \in Procs |-> "idle"]
  /\ call = [p \in Procs |-> NoCall]
  /\ tx_buf = [i \in 1 .. BufferSize |-> Zero]
  /\ rx_buf = [i \in 1 .. BufferSize |-> Zero]
  /\ len = 0
  /\ spi_cfg = "none"
  /\ mem = [c \in Cells |-> 0]
  /\ held = [c \in Cells |-> 0]
  /\ got = [p \in Procs |-> <<>>]

\* The main loop selects a speed: openspi and set_spi_speed_slow the first
\* settings, set_spi_speed_fast the second.  Both clear the buffers.
SetSpeed(speed) ==
  /\ \A p \in Procs : Idle(p)
  /\ spi_cfg = "none" => speed = "slow"
  /\ spi_cfg' = speed
  /\ tx_buf' = [i \in 1 .. BufferSize |-> Zero]
  /\ rx_buf' = [i \in 1 .. BufferSize |-> Zero]
  /\ UNCHANGED <<port, enabled, pc, call, len, mem, held, got>>

\* The main loop makes an access; an interrupt is taken when it is enabled and
\* runs to its end before the main loop goes on.
Begin(p, c) ==
  /\ Idle(p) /\ spi_cfg # "none"
  /\ p = "isr" => port.installed /\ enabled
  /\ p = "main" => Idle("isr")
  /\ pc' = [pc EXCEPT ![p] = "mutexon"]
  /\ call' = [call EXCEPT ![p] = c]
  /\ held' = IF c.write
               THEN [x \in Cells |->
                       IF x[1] = c.file /\ x[2] \in c.index .. c.index + Len(c.body) - 1
                         THEN c.body[x[2] - c.index + 1] ELSE held[x]]
               ELSE held
  /\ got' = [got EXCEPT ![p] = <<>>]
  /\ UNCHANGED <<port, enabled, tx_buf, rx_buf, len, spi_cfg, mem>>

Runs(p, at, to) == pc[p] = at /\ (p = "main" => Idle("isr")) /\ pc' = [pc EXCEPT ![p] = to]

\* decamutexon disables the interrupt if the port says that it is enabled.
DecaMutexOn(p) ==
  /\ Runs(p, "mutexon", "fill")
  /\ enabled' = (enabled /\ ~port.status)
  /\ UNCHANGED <<port, call, tx_buf, rx_buf, len, spi_cfg, mem, held, got>>

\* writetospi and readfromspi fill the buffer, then set the lengths.
Fill(p) ==
  LET frame == Header(call[p]) \o call[p].body
  IN /\ Runs(p, "fill", "lengths")
     /\ tx_buf' = [i \in 1 .. BufferSize |-> IF i <= Len(frame) THEN frame[i] ELSE tx_buf[i]]
     /\ UNCHANGED <<port, enabled, call, rx_buf, len, spi_cfg, mem, held, got>>

Lengths(p) ==
  /\ Runs(p, "lengths", "transceive")
  /\ len' = Len(Header(call[p])) + Len(call[p].body)
  /\ UNCHANGED <<port, enabled, call, tx_buf, rx_buf, spi_cfg, mem, held, got>>

\* spi_transceive: the transceiver decodes the frame, keeps what it is sent and
\* answers with what it holds.
Transceive(p) ==
  LET a == Addressed(tx_buf)
      Of(i) == <<a.file, a.index + i - a.at>>
  IN /\ Runs(p, "transceive", IF call[p].write THEN "mutexoff" ELSE "copy")
     /\ mem' = IF a.write
                 THEN [x \in Cells |->
                         LET i == x[2] - a.index + a.at
                         IN IF x[1] = a.file /\ i \in a.at .. len THEN tx_buf[i] ELSE mem[x]]
                 ELSE mem
     /\ rx_buf' = [i \in 1 .. BufferSize |->
                     IF i \in a.at .. len /\ ~a.write /\ Of(i) \in Cells THEN mem[Of(i)]
                     ELSE IF i <= len THEN Zero ELSE rx_buf[i]]
     /\ UNCHANGED <<port, enabled, call, tx_buf, len, spi_cfg, held, got>>

Copy(p) ==
  LET h == Len(Header(call[p]))
  IN /\ Runs(p, "copy", "mutexoff")
     /\ got' = [got EXCEPT ![p] = [i \in DOMAIN call[p].body |-> rx_buf[h + i]]]
     /\ UNCHANGED <<port, enabled, call, tx_buf, rx_buf, len, spi_cfg, mem, held>>

\* decamutexoff enables it if it was enabled.
DecaMutexOff(p) ==
  /\ Runs(p, "mutexoff", "idle")
  /\ enabled' = TRUE
  /\ UNCHANGED <<port, call, tx_buf, rx_buf, len, spi_cfg, mem, held, got>>

SpiNext ==
  \/ \E v \in {"slow", "fast"} : SetSpeed(v)
  \/ \E c \in MainCalls : Begin("main", c)
  \/ \E c \in IsrCalls : Begin("isr", c)
  \/ \E p \in Procs :
       \/ DecaMutexOn(p) \/ Fill(p) \/ Lengths(p) \/ Transceive(p) \/ Copy(p)
       \/ DecaMutexOff(p)

SpiSpec == SpiInit /\ [][SpiNext]_spivars
-----------------------------------------------------------------------------
\* Between two accesses the transceiver holds what it was asked to hold, byte
\* by byte, and a register that was read is what it holds, whichever accesses
\* of the interrupt routine came in between.
AccessesExact ==
  (\A p \in Procs : Idle(p)) =>
    /\ mem = held
    /\ \A p \in Procs :
         got[p] # <<>> =>
           \A i \in DOMAIN got[p] :
             LET x == <<call[p].file, call[p].index + i - 1>>
             IN x \in Cells => got[p][i] = held[x]
=============================================================================
