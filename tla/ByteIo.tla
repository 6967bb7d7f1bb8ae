------------------------------- MODULE ByteIo -------------------------------
(***************************************************************************)
(* Byte-addressed reads and writes over a device that only moves whole     *)
(* sectors: include/ctr9/io/ctr_io_implementation.c (memory, crypto and    *)
(* cart interfaces) and its copy for the SD card and the NAND,             *)
(* include/ctr9/io/ctr_sdmmc_implementation.c.                             *)
(*                                                                         *)
(* A call works in three sections: the sector the range begins in, the     *)
(* whole sectors after it, and what is left in one last sector.  A write   *)
(* reads the first and the last sector to put back the bytes around the    *)
(* range.  Every call of the sector driver may fail, a write after any     *)
(* number of its sectors.                                                  *)
(*                                                                         *)
(* The code moves bytes and never looks at them, so a byte is named by its *)
(* origin: <<0, a>> was on the device at address a from the start, <<n, i>> *)
(* is byte i of the buffer given to the n-th write.                        *)
(***************************************************************************)
EXTENDS Integers, Buffers

CONSTANTS
  SectorSize,  \* ctr_io_sector_size (512 for the SD card and the NAND)
  Sectors,     \* sectors of the device
  MaxWrites    \* bound: writes to the device

ASSUME ByteIoAssumption ==
  /\ SectorSize \in Nat \ {0}
  /\ Sectors \in Nat \ {0}
  /\ MaxWrites \in Nat

DiskSize == Sectors * SectorSize
Addresses == 0 .. DiskSize - 1

VARIABLES
  contents,         \* the bytes of the device
  kind,             \* the kind of the last call: "read" or "write"
  pc,               \* the driver call that comes next
  position, size,   \* the range of the call, in bytes
  bytes, sectors,   \* bytes_read and sectors_read, or ..._written
  buf,              \* the sector on the stack
  dest,             \* the buffer a read fills
  result,           \* what the last call returned: "ok" or "error"
  writes,           \* history: writes so far
  before,           \* history: the device when the last write began
  tail_lost         \* history: the write to its last sector failed

rangeVars == << kind, position, size, writes, before >>
byteIoVars == << contents, pc, bytes, sectors, buf, dest, result, tail_lost, rangeVars >>

WriteSteps == {"write_read_first", "write_first", "write_mid",
               "write_read_last", "write_last"}
ReadSteps == {"read_first", "read_mid", "read_last"}

ByteIoInit ==
  /\ contents = [a \in Addresses |-> <<0, a>>]
  /\ kind = "read" /\ pc = "idle"
  /\ position = 0 /\ size = 0
  /\ bytes = 0 /\ sectors = 0
  /\ buf = [i \in 0 .. SectorSize - 1 |-> <<0, 0>>]
  /\ dest = [i \in {} |-> <<0, 0>>]
  /\ result = "ok"
  /\ writes = 0
  /\ before = contents
  /\ tail_lost = FALSE

-----------------------------------------------------------------------------

(* Where the next sector of the call starts, and the buffer of this write. *)
BaseSector == position \div SectorSize
StartLocation == position % SectorSize
NextSector == (BaseSector + sectors) * SectorSize
Source == [i \in 0 .. size - 1 |-> <<writes, i>>]

Zeros == [i \in 0 .. SectorSize - 1 |-> <<0, 0>>]

(* The section that follows once b bytes are done. *)
SectionAfter(b, mid, last) ==
  IF size - b >= SectorSize THEN mid ELSE IF b < size THEN last ELSE "idle"

(* The calls end: buf and the counters are locals of the call. *)
Finish(r) == /\ pc' = "idle" /\ result' = r
             /\ bytes' = 0 /\ sectors' = 0
             /\ buf' = Zeros

Fail == Finish("error")

(* Goes on after b bytes and s sectors: to the next section or to return. *)
Advance(b, s, sectorBuffer, mid, last) ==
  LET step == SectionAfter(b, mid, last) IN
  IF step = "idle" THEN Finish("ok")
  ELSE /\ pc' = step
       /\ bytes' = b /\ sectors' = s
       /\ buf' = sectorBuffer
       /\ UNCHANGED result

(* The sector driver writes as many whole sectors as the n bytes hold and  *)
(* ignores the end of the buffer.  A failed call leaves some of them       *)
(* written.                                                                *)
Put(from, start, n) ==
  contents' = Copy(contents, NextSector, from, start, (n \div SectorSize) * SectorSize)

PutSome(from, start, n) ==
  \E k \in 0 .. n \div SectorSize :
    contents' = Copy(contents, NextSector, from, start, k * SectorSize)

-----------------------------------------------------------------------------
(* ctr_io_implementation_read.                                             *)

(* capacity is the caller's buffer_size; nothing to read returns at once.  *)
CallRead(p, capacity, count) ==
  /\ pc = "idle"
  /\ LET n == Min2(capacity, count) IN
     /\ kind' = "read" /\ position' = p /\ size' = n
     /\ dest' = [i \in 0 .. n - 1 |-> <<0, 0>>]
     /\ pc' = IF n = 0 THEN "idle" ELSE "read_first"
  /\ result' = "ok" /\ tail_lost' = FALSE
  /\ before' = contents
  /\ UNCHANGED << contents, bytes, sectors, buf, writes >>

ReadFirst ==
  /\ pc = "read_first"
  /\ LET n == Min2(SectorSize - StartLocation, size) IN
     \/ /\ dest' = Copy(dest, 0, contents, NextSector + StartLocation, n)
        /\ Advance(n, 1, buf, "read_mid", "read_last")
     \/ Fail /\ UNCHANGED dest
  /\ UNCHANGED << contents, tail_lost, rangeVars >>

(* The driver fills dest itself; a failed call may have filled a part.     *)
ReadMid ==
  /\ pc = "read_mid"
  /\ LET whole == (size - bytes) \div SectorSize IN
     \/ /\ dest' = Copy(dest, bytes, contents, NextSector, whole * SectorSize)
        /\ Advance(bytes + whole * SectorSize, sectors + whole, buf,
                   "read_mid", "read_last")
     \/ /\ \E k \in 0 .. whole :
             dest' = Copy(dest, bytes, contents, NextSector, k * SectorSize)
        /\ Fail
  /\ UNCHANGED << contents, tail_lost, rangeVars >>

(* Mutant: the last sector copied from the offset the first one needed.    *)
ReadLastAtOffset ==
  /\ pc = "read_last"
  /\ dest' = Copy(dest, bytes, contents, NextSector + StartLocation, size - bytes)
  /\ Finish("ok")
  /\ UNCHANGED << contents, tail_lost, rangeVars >>

ReadLast ==
  /\ pc = "read_last"
  /\ \/ /\ dest' = Copy(dest, bytes, contents, NextSector, size - bytes)
        /\ Finish("ok")
     \/ Fail /\ UNCHANGED dest
  /\ UNCHANGED << contents, tail_lost, rangeVars >>

-----------------------------------------------------------------------------
(* ctr_io_implementation_write.                                            *)

CallWrite(p, n) ==
  /\ pc = "idle"
  /\ writes < MaxWrites
  /\ kind' = "write" /\ position' = p /\ size' = n
  /\ dest' = [i \in 0 .. n - 1 |-> <<0, 0>>]
  /\ pc' = IF n = 0 THEN "idle" ELSE "write_read_first"
  /\ result' = "ok" /\ tail_lost' = FALSE
  /\ writes' = writes + 1
  /\ before' = contents
  /\ UNCHANGED << contents, bytes, sectors, buf >>

(* The first sector is read and the head of the source put into it.        *)
WriteReadFirst ==
  /\ pc = "write_read_first"
  /\ LET n == Min2(SectorSize - StartLocation, size) IN
     \/ /\ buf' = Copy(Copy(buf, 0, contents, NextSector, SectorSize),
                       StartLocation, Source, 0, n)
        /\ bytes' = n
        /\ pc' = "write_first"
        /\ UNCHANGED << sectors, result >>
     \/ Fail
  /\ UNCHANGED << contents, dest, tail_lost, rangeVars >>

WriteFirst ==
  /\ pc = "write_first"
  /\ \/ Put(buf, 0, SectorSize) /\ Advance(bytes, 1, buf, "write_mid", "write_read_last")
     \/ PutSome(buf, 0, SectorSize) /\ Fail
  /\ UNCHANGED << dest, tail_lost, rangeVars >>

(* Mutant: several sectors written, one counted.                           *)
WriteMidCountsOne ==
  /\ pc = "write_mid"
  /\ LET whole == (size - bytes) \div SectorSize IN
     /\ Put(Source, bytes, size - bytes)
     /\ Advance(bytes + whole * SectorSize, sectors + 1, buf,
                "write_mid", "write_read_last")
  /\ UNCHANGED << dest, tail_lost, rangeVars >>

(* The rest of the source goes to the driver, which ignores its tail.      *)
WriteMid ==
  /\ pc = "write_mid"
  /\ LET whole == (size - bytes) \div SectorSize IN
     \/ /\ Put(Source, bytes, size - bytes)
        /\ Advance(bytes + whole * SectorSize, sectors + whole, buf,
                   "write_mid", "write_read_last")
     \/ PutSome(Source, bytes, size - bytes) /\ Fail
  /\ UNCHANGED << dest, tail_lost, rangeVars >>

(* Mutant: the last bytes put over the first sector, still in buf.         *)
WriteReadLastStale ==
  /\ pc = "write_read_last"
  /\ buf' = Copy(buf, 0, Source, bytes, size - bytes)
  /\ pc' = "write_last"
  /\ UNCHANGED << contents, dest, bytes, sectors, result, tail_lost, rangeVars >>

WriteReadLast ==
  /\ pc = "write_read_last"
  /\ \/ /\ buf' = Copy(Copy(buf, 0, contents, NextSector, SectorSize),
                       0, Source, bytes, size - bytes)
        /\ pc' = "write_last"
        /\ UNCHANGED << bytes, sectors, result >>
     \/ Fail
  /\ UNCHANGED << contents, dest, tail_lost, rangeVars >>

(* The result of this write is not looked at: the call returns 0.          *)
WriteLast ==
  /\ pc = "write_last"
  /\ \/ Put(buf, 0, SectorSize) /\ UNCHANGED tail_lost
     \/ PutSome(buf, 0, SectorSize) /\ tail_lost' = TRUE
  /\ Finish("ok")
  /\ UNCHANGED << dest, rangeVars >>

ByteIoNext ==
  \/ \E p \in Addresses :
       \E n \in 0 .. DiskSize - p :
         \/ CallRead(p, n, DiskSize) \/ CallRead(p, DiskSize, n)
         \/ CallWrite(p, n)
  \/ ReadFirst \/ ReadMid \/ ReadLast
  \/ WriteReadFirst \/ WriteFirst \/ WriteMid \/ WriteReadLast \/ WriteLast

ByteIoSpec == ByteIoInit /\ [][ByteIoNext]_byteIoVars

-----------------------------------------------------------------------------
(* Properties.                                                             *)

(* The device as it was, with the first k bytes of the source in place.    *)
WithPrefix(k) == Copy(before, position, Source, 0, k)

(* At every moment of a write, however its driver calls failed, the device *)
(* is what it was before with a prefix of the new bytes in place: no byte  *)
(* outside the range changes although whole sectors are written, and no    *)
(* byte of the range is anything but old or new.  A power cut at any step  *)
(* leaves no other damage.                                                 *)
OnlyAPrefixWritten ==
  CASE kind = "read" -> contents = before
    [] kind = "write" -> \E k \in 0 .. size : contents = WithPrefix(k)

Returned == pc = "idle" /\ result = "ok"

(* A write that returned 0 has stored every byte of its sectors but the    *)
(* last, and those of the last too unless the driver failed to write it.   *)
WrittenButForTail ==
  kind = "write" /\ Returned =>
    \/ contents = WithPrefix(size)
    \/ tail_lost /\ contents = WithPrefix(size - ((position + size) % SectorSize))

(* The promise of ctr_io_interface.h for a write, "0 upon success,         *)
(* anything else means an error": what returned 0 has stored every byte.   *)
ZeroMeansWritten == kind = "write" /\ Returned => contents = WithPrefix(size)

(* The bytes a read has counted, all of them once it has returned 0, are   *)
(* those of the range, in their order and in their place.                  *)
ReadsTheRange ==
  kind = "read" /\ (Returned \/ pc # "idle") =>
    \A i \in 0 .. (IF Returned THEN size ELSE bytes) - 1 :
      dest[i] = contents[position + i]
=============================================================================
