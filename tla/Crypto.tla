------------------------------- MODULE Crypto -------------------------------
(***************************************************************************)
(* The encryption layer, src/ctr_crypto_interface.c: reads and writes of   *)
(* sectors over a lower interface whose bytes are encrypted in counter     *)
(* mode, in blocks that need not be the sectors of the lower interface.    *)
(*                                                                         *)
(* In counter mode a byte is XORed with the byte of the keystream for its  *)
(* address.  A byte of the device is therefore a pair: its origin, as in   *)
(* ByteIo, and the set of keystream bytes that are on it.  XOR with one    *)
(* that is on it takes it off; the byte at address a decrypts correctly    *)
(* when the keystream byte of a is the only one.                           *)
(*                                                                         *)
(* A write goes through a window of several sectors: it reads the window,  *)
(* decrypts what comes before the new bytes in their first block, puts the *)
(* new bytes in place, encrypts the blocks it has touched, writes their    *)
(* sectors, and moves on.                                                  *)
(***************************************************************************)
EXTENDS Integers, Buffers

CONSTANTS
  SectorSize,  \* of the lower interface: 512, or 1 for a memory interface
  BlockSize,   \* AES_BLOCK_SIZE (16)
  Sectors,     \* sectors of the lower interface
  Checked,     \* the lower interface can fail and refuses what is past its
               \* end (a disk does, a memory interface never fails)
  MaxWrites    \* bound: writes to the device

DiskSize == Sectors * SectorSize
Addresses == 0 .. DiskSize - 1

ASSUME CryptoAssumption ==
  /\ SectorSize \in Nat \ {0}
  /\ BlockSize \in Nat \ {0}
  /\ SectorSize % BlockSize = 0 \/ SectorSize = 1
  /\ Sectors \in Nat \ {0}
  /\ DiskSize % BlockSize = 0
  /\ Checked \in BOOLEAN
  /\ Checked => SectorSize % BlockSize = 0
  /\ MaxWrites \in Nat

(* lcm, for the sector sizes assumed; the window's size.                   *)
Lcm == IF SectorSize % BlockSize = 0 THEN SectorSize ELSE BlockSize
SectorsPerBlock == IF BlockSize < SectorSize THEN 1 ELSE BlockSize \div SectorSize
WindowSize == 4 * Lcm + SectorsPerBlock * SectorSize

Junk == [origin |-> <<-1, 0>>, stream |-> {}]

VARIABLES
  disk,             \* the bytes of the lower interface
  call,             \* the kind of the last call: "read" or "write"
  pc,               \* the call of the lower interface that comes next
  sector, size,     \* the first sector of the call, and its bytes
  buffer_size,      \* the bytes the caller's buffer has, while it is read to
  window,           \* the write_window on the stack
  dest,             \* the buffer a read fills
  result,           \* what the last call returned: "ok" or "error"
  writes,           \* history: writes so far
  before            \* history: the device when the last call began

callVars == << call, sector, size, writes, before >>
vars == << disk, pc, window, dest, buffer_size, result, callVars >>

NoBytes == [i \in {} |-> Junk]
NoWindow == [bytes |-> NoBytes, offset |-> 0, sector |-> 0,
             block_offset |-> 0, current_sector |-> 0, buffer_offset |-> 0]

Init ==
  /\ disk = [a \in Addresses |-> [origin |-> <<0, a>>, stream |-> {a}]]
  /\ call = "read" /\ pc = "idle"
  /\ sector = 0 /\ size = 0 /\ buffer_size = 0
  /\ window = NoWindow
  /\ dest = NoBytes
  /\ result = "ok"
  /\ writes = 0
  /\ before = disk

-----------------------------------------------------------------------------
(* Sectors, blocks and the keystream.                                      *)

Position(s) == s * SectorSize
BlockOf(s) == Position(s) \div BlockSize

(* Sectors from the start of the block sector s begins in to sector s.     *)
PriorSectors(s) == CEIL(Position(s) % BlockSize, SectorSize)

(* XOR with keystream byte k.                                              *)
Xor(byte, k) ==
  [byte EXCEPT !.stream = IF k \in @ THEN @ \ {k} ELSE @ \cup {k}]

(* input and output: n blocks of buffer f from at are encrypted, or        *)
(* decrypted, as blocks block, block + 1, ... of the device.               *)
CtrBlocks(f, at, block, n) ==
  [i \in DOMAIN f |-> IF at <= i /\ i < at + n * BlockSize
                      THEN Xor(f[i], block * BlockSize + i - at) ELSE f[i]]

(* What the program sees at address a of device d.                         *)
Plain(d, a) == Xor(d[a], a)

(* The lower interface reads n bytes from sector s; past the end of its    *)
(* memory an unchecked one finds what is there.                            *)
Raw(s, n) ==
  [i \in 0 .. n - 1 |->
     IF Position(s) + i \in Addresses THEN disk[Position(s) + i] ELSE Junk]

Readable(s, n) == Checked => s + n <= Sectors

Source == [i \in 0 .. size - 1 |-> [origin |-> <<writes, i>>, stream |-> {}]]

Finish(r) ==
  pc' = "idle" /\ result' = r /\ window' = NoWindow /\ buffer_size' = 0

(* A call of the lower interface fails.                                    *)
LowerFails == Checked /\ Finish("error")

-----------------------------------------------------------------------------
(* ctr_crypto_interface_read_sector.                                       *)

CallRead(s, capacity, count) ==
  /\ pc = "idle"
  /\ LET n == Min2(count, capacity \div SectorSize) * SectorSize IN
     /\ n \in 0 .. DiskSize - Position(s)
     /\ call' = "read" /\ sector' = s /\ size' = n
     /\ dest' = [i \in 0 .. n - 1 |-> Junk]
     /\ pc' = IF n = 0 THEN "idle" ELSE "read_raw"
     /\ buffer_size' = IF n = 0 THEN 0 ELSE capacity
  /\ result' = "ok"
  /\ before' = disk
  /\ UNCHANGED << disk, window, writes >>

(* Bytes copied from the block begun before the call: amount_to_copy is    *)
(* limited to the buffer, not to the bytes the call asks for.              *)
HeadBytes ==
  IF PriorSectors(sector) = 0 THEN 0
  ELSE Min2(BlockSize - (Position(sector) % BlockSize), buffer_size)

(* Mutant: the block of the first sector not counted once its end is read. *)
FirstMidBlockNotAdvanced == BlockOf(sector)

MidBlocks == (size - HeadBytes) \div BlockSize
FirstMidBlock == CEIL(Position(sector), BlockSize)

(* Part 2: the whole blocks of the buffer f are decrypted in place.        *)
Middle(f) ==
  /\ dest' = CtrBlocks(f, HeadBytes, FirstMidBlock, MidBlocks)
  /\ IF HeadBytes + MidBlocks * BlockSize < size
     THEN pc' = "read_tail" /\ UNCHANGED << result, window, buffer_size >>
     ELSE Finish("ok")

ReadRaw ==
  /\ pc = "read_raw"
  /\ \/ /\ IF PriorSectors(sector) > 0
           THEN /\ dest' = Raw(sector, size)
                /\ pc' = "read_head"
                /\ UNCHANGED << result, window, buffer_size >>
           ELSE Middle(Raw(sector, size))
     \/ LowerFails /\ UNCHANGED dest
  /\ UNCHANGED << disk, callVars >>

(* get_misaligned_block: block b, read whole and decrypted.                *)
MisalignedBlock(b) ==
  CtrBlocks([i \in 0 .. BlockSize - 1 |-> disk[b * BlockSize + i]], 0, b, 1)

(* Part 1: the end of the block the first sector is in.  Where that is     *)
(* more than the call asks for, the unsigned bytes_left wraps and part 2   *)
(* decrypts on through the memory behind the buffer.                       *)
ReadHead ==
  /\ pc = "read_head"
  /\ LET head == Copy(dest, 0, MisalignedBlock(BlockOf(sector)),
                      Position(sector) % BlockSize, HeadBytes)
     IN
     \/ HeadBytes <= size /\ Middle(head)
     \/ /\ HeadBytes > size
        /\ dest' = head
        /\ pc' = "astray"
        /\ UNCHANGED << result, window, buffer_size >>
     \/ LowerFails /\ UNCHANGED dest
  /\ UNCHANGED << disk, callVars >>

(* Nothing is modelled of what follows: the call does not return.          *)
Astray == pc = "astray" /\ UNCHANGED vars

(* Part 3: the start of the last block.                                    *)
ReadTail ==
  /\ pc = "read_tail"
  /\ LET at == HeadBytes + MidBlocks * BlockSize IN
     \/ /\ dest' = Copy(dest, at, MisalignedBlock(FirstMidBlock + MidBlocks),
                        0, size - at)
        /\ Finish("ok")
     \/ LowerFails /\ UNCHANGED dest
  /\ UNCHANGED << disk, callVars >>

-----------------------------------------------------------------------------
(* ctr_crypto_interface_write_sector.                                      *)

(* n is buffer_size, which need not be a whole number of sectors.          *)
CallWrite(s, n) ==
  /\ pc = "idle"
  /\ writes < MaxWrites
  /\ n \in 0 .. DiskSize - Position(s)
  /\ call' = "write" /\ sector' = s /\ size' = n
  /\ pc' = IF n < SectorSize THEN "idle" ELSE "setup"
  /\ writes' = writes + 1
  /\ result' = "ok" /\ dest' = NoBytes
  /\ before' = disk
  /\ UNCHANGED << disk, window, buffer_size >>

(* setup_window: the window begins where the block of the first sector     *)
(* does, with what precedes that sector.                                   *)
SetupWindow ==
  /\ pc = "setup"
  /\ LET prior == PriorSectors(sector) * SectorSize
         first == sector - PriorSectors(sector) IN
     window' =
       [bytes |-> Copy([i \in 0 .. WindowSize - 1 |-> Junk], 0, Raw(first, prior), 0, prior),
        offset |-> prior,
        sector |-> first,
        block_offset |-> BlockOf(sector) * BlockSize - Position(first),
        current_sector |-> sector,
        buffer_offset |-> 0]
  /\ pc' = "window_read"
  /\ UNCHANGED << disk, dest, buffer_size, result, callVars >>

(* Bytes of the source that fit in the window, and the blocks encrypted.   *)
AmountToCopy ==
  Min2(WindowSize - window.offset, size - window.buffer_offset)

(* Mutant: the whole window is encrypted.                                  *)
WholeWindow == (WindowSize - window.block_offset) \div BlockSize

BlocksToProcess ==
  CEIL(AmountToCopy + window.offset - window.block_offset, BlockSize)

(* Mutant: the keystream starts at the block of the call in every window.  *)
WindowReadSameBlock ==
  /\ pc = "window_read"
  /\ LET room == WindowSize - window.offset
         filled == Copy(window.bytes, window.offset,
                        Raw(window.current_sector, room), 0, room)
         updated == Copy(filled, window.offset, Source,
                         window.buffer_offset, AmountToCopy)
     IN
     /\ Readable(window.current_sector, room \div SectorSize)
     /\ window' = [window EXCEPT !.bytes =
          CtrBlocks(updated, window.block_offset, BlockOf(sector), BlocksToProcess)]
  /\ pc' = "window_write"
  /\ UNCHANGED << disk, dest, buffer_size, result, callVars >>

(* process_window up to its write: reads the rest of the window, decrypts  *)
(* its first block (those before the new bytes), puts the new bytes in     *)
(* place and encrypts.  What follows the new bytes in the last block is    *)
(* still encrypted from the device, and is encrypted again.                *)
WindowRead ==
  /\ pc = "window_read"
  /\ LET room == WindowSize - window.offset
         block == BlockOf(window.current_sector)
         behind == CEIL(window.offset - window.block_offset, BlockSize)
         filled == Copy(window.bytes, window.offset,
                        Raw(window.current_sector, room), 0, room)
         decrypted == CtrBlocks(filled, window.block_offset, block,
                                IF behind = 0 THEN 1 ELSE behind)
         updated == Copy(decrypted, window.offset, Source,
                         window.buffer_offset, AmountToCopy)
     IN
     \/ /\ Readable(window.current_sector, room \div SectorSize)
        /\ window' = [window EXCEPT !.bytes =
             CtrBlocks(updated, window.block_offset, block, BlocksToProcess)]
        /\ pc' = "window_write"
        /\ UNCHANGED << result, buffer_size >>
     \/ LowerFails
  /\ UNCHANGED << disk, dest, callVars >>

(* update_window, between two windows.                                     *)
UpdateWindow ==
  LET processed == (AmountToCopy + window.offset) \div SectorSize
      remaining == WindowSize - processed * SectorSize
  IN
  /\ window' =
       [bytes |-> Copy(window.bytes, 0, window.bytes, window.offset, remaining),
        offset |-> remaining,
        sector |-> window.sector + processed - remaining \div SectorSize,
        block_offset |-> remaining,
        current_sector |-> window.current_sector + processed,
        buffer_offset |-> window.buffer_offset + AmountToCopy]
  /\ pc' = "window_read"
  /\ UNCHANGED << result, buffer_size >>

(* Mutant: one window and no more.                                         *)
WindowWriteOnce ==
  /\ pc = "window_write"
  /\ LET whole == CEIL(BlocksToProcess * BlockSize, SectorSize) IN
     disk' = Copy(disk, Position(window.sector), window.bytes, 0, whole * SectorSize)
  /\ Finish("ok")
  /\ UNCHANGED << dest, callVars >>

(* The sectors of the blocks encrypted are written; a failed call leaves   *)
(* some of them written.                                                   *)
WindowWrite ==
  /\ pc = "window_write"
  /\ LET whole == CEIL(BlocksToProcess * BlockSize, SectorSize)
         Put(k) == disk' = Copy(disk, Position(window.sector), window.bytes, 0,
                                k * SectorSize)
     IN
     \/ /\ Put(whole)
        /\ IF window.buffer_offset + AmountToCopy >= size
           THEN Finish("ok") ELSE UpdateWindow
     \/ /\ \E k \in 0 .. whole : Put(k)
        /\ LowerFails
  /\ UNCHANGED << dest, callVars >>

Next ==
  \/ \E s \in 0 .. Sectors - 1 :
       \/ \E n \in 0 .. Sectors - s :
            \/ CallRead(s, n * SectorSize, Sectors)
            \/ CallRead(s, DiskSize, n)
       \/ \E n \in 0 .. DiskSize - Position(s) : CallWrite(s, n)
  \/ ReadRaw \/ ReadHead \/ ReadTail \/ Astray
  \/ SetupWindow \/ WindowRead \/ WindowWrite

Spec == Init /\ [][Next]_vars

-----------------------------------------------------------------------------
(* Properties.                                                             *)

First == Position(sector)
Returned == pc = "idle" /\ result = "ok"

(* Where the block of the last byte of the call ends.                      *)
BlockEnd == CEIL(First + size, BlockSize) * BlockSize

NewPlain(a) == Source[a - First]

(* At every moment of a write a byte of its range decrypts to its old or   *)
(* its new value: no window is encrypted with the wrong part of the        *)
(* keystream, put in the wrong place or encrypted twice.                   *)
RangeOldOrNew ==
  call = "write" =>
    \A a \in First .. First + size - 1 :
      Plain(disk, a) \in { Plain(before, a), NewPlain(a) }

(* A write leaves every byte before its range, and after the block in      *)
(* which it ends, exactly as it was, although whole blocks are encrypted   *)
(* and whole sectors written.                                              *)
NoDamageBeyondLastBlock ==
  \A a \in Addresses :
    a < First \/ a >= BlockEnd \/ call = "read" => disk[a] = before[a]

(* A write that returned 0 has stored all the full sectors of its buffer.  *)
FullSectorsStored ==
  call = "write" /\ Returned =>
    \A a \in First .. First + (size \div SectorSize) * SectorSize - 1 :
      Plain(disk, a) = NewPlain(a)

(* A read that returned 0 has put the decrypted bytes of its sectors into  *)
(* the buffer, also where a sector starts or ends inside a block.  Only a  *)
(* read of less than a block into a buffer with room to spare goes astray. *)
ReadsPlaintext ==
  call = "read" =>
    /\ Returned => \A i \in 0 .. size - 1 : dest[i] = Plain(disk, First + i)
    /\ pc = "astray" => size < BlockSize /\ size < buffer_size

(* The promise of ctr_crypto_interface.h for read_sector, for any buffer   *)
(* and any count of sectors: "0 upon success, anything else means an       *)
(* error".  No read goes on past what it was asked for.                    *)
ReadsReturn == pc # "astray"

(* The promise of ctr_crypto_interface.h for write_sector, "this function  *)
(* will only write all the full sectors it can, ignoring the end of the    *)
(* buffer that doesn't fit a sector": what follows them decrypts to what   *)
(* it was, or at least what follows the buffer does.                       *)
NothingPastTheBuffer ==
  call = "write" =>
    \A a \in First + size .. DiskSize - 1 : Plain(disk, a) = Plain(before, a)
=============================================================================
