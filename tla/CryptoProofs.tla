---------------------------- MODULE CryptoProofs ----------------------------
(***************************************************************************)
(* For blocks, sectors and devices of any size that the layer takes: what  *)
(* a write stores decrypts to what was given, at every alignment and over  *)
(* any number of windows, nothing outside its blocks changes, and a read   *)
(* gives what its range decrypts to.  For every size of the FIFOs of the   *)
(* engine, of a chunk and of a word of the counter, and every call of the  *)
(* functions below the layer: no FIFO overflows or underflows, and every   *)
(* block is combined with the counter or block its mode asks for.          *)
(***************************************************************************)
EXTENDS Crypto, Aes, TLAPS

-----------------------------------------------------------------------------
(* The layer of sectors.                                                   *)

(* A buffer of n bytes.                                                    *)
IsBuffer(b, n) == b = [i \in 0 .. n - 1 |-> b[i]]
IsByte(byte) == byte = [origin |-> byte.origin, stream |-> byte.stream]

(* How far into its block the first sector of the call begins.             *)
Misaligned == First % BlockSize

ReadSteps == {"read_raw", "read_head", "read_tail"}
WindowSteps == {"window_read", "window_write"}

Types ==
  /\ sector \in 0 .. Sectors - 1 /\ size \in Nat /\ First + size <= DiskSize
  /\ IsBuffer(disk, DiskSize) /\ IsBuffer(before, DiskSize)
  /\ \A a \in Addresses : IsByte(disk[a])
  /\ \/ pc = "idle"
     \/ /\ call = "read" /\ pc \in ReadSteps /\ IsBuffer(dest, size)
        /\ buffer_size \in Nat /\ size <= buffer_size
     \/ call = "read" /\ pc = "astray"
     \/ call = "write" /\ pc \in WindowSteps \cup {"setup"}
  /\ call \in {"read", "write"} /\ (pc # "idle" => size > 0)

(* The bytes a read has so far.                                            *)
TailAt == HeadBytes + MidBlocks * BlockSize

(* What the call copies of the block begun before it is no more than it    *)
(* asks for.                                                               *)
HeadFits == HeadBytes <= size /\ buffer_size \in Nat /\ size <= buffer_size

Reads ==
  /\ call = "read" => disk = before
  /\ pc = "read_head" =>
       /\ PriorSectors(sector) > 0
       /\ \A i \in 0 .. size - 1 : dest[i] = disk[First + i]
  /\ pc = "read_tail" =>
       /\ HeadFits /\ TailAt < size
       /\ \A i \in 0 .. TailAt - 1 : dest[i] = Plain(disk, First + i)
  /\ ReadsPlaintext

(* The window lies in its place on the device: it begins with a block, its *)
(* new bytes go where the next bytes of the call do, and what precedes     *)
(* them is what the device has there.                                      *)
At == Position(window.sector)
Whole == CEIL(BlocksToProcess * BlockSize, SectorSize)

Windowed ==
  /\ window = [bytes |-> window.bytes, offset |-> window.offset, sector |-> window.sector,
               block_offset |-> window.block_offset,
               current_sector |-> window.current_sector,
               buffer_offset |-> window.buffer_offset]
  /\ IsBuffer(window.bytes, WindowSize)
  /\ window.sector \in Nat /\ window.current_sector \in Nat
  /\ window.buffer_offset \in 0 .. size - 1
  /\ window.block_offset = 0
  /\ window.offset = IF window.buffer_offset = 0 THEN Misaligned ELSE 0
  /\ At + window.offset = First + window.buffer_offset
  /\ At % BlockSize = 0
  /\ Position(window.current_sector) = At + Misaligned
  /\ \A i \in 0 .. window.offset - 1 : window.bytes[i] = disk[At + i]

(* What a write has stored.                                                *)
Stored ==
  \A a \in Addresses :
    /\ a < First \/ a >= BlockEnd => disk[a] = before[a]
    /\ First <= a /\ a < First + window.buffer_offset => Plain(disk, a) = NewPlain(a)
    /\ First + window.buffer_offset <= a /\ a < First + size => disk[a] = before[a]

(* The sectors of the window that are written next.                        *)
Encrypted ==
  /\ \A i \in 0 .. WindowSize - 1 : IsByte(window.bytes[i])
  /\ \A a \in Addresses : At <= a /\ a < At + Whole * SectorSize =>
       /\ a < First + window.buffer_offset => window.bytes[a - At] = disk[a]
       /\ First + window.buffer_offset <= a
            /\ a < First + window.buffer_offset + AmountToCopy
            => window.bytes[a - At] = Xor(NewPlain(a), a)
       /\ a >= BlockEnd => window.bytes[a - At] = disk[a]

Writes ==
  /\ pc = "setup" => disk = before /\ size >= SectorSize
  /\ pc \in WindowSteps => Windowed /\ Stored
  /\ pc = "window_write" => Encrypted
  /\ RangeOldOrNew /\ NoDamageBeyondLastBlock /\ FullSectorsStored

-----------------------------------------------------------------------------
(* Arithmetic.                                                             *)

LEMMA DivMod ==
  ASSUME NEW a \in Nat, NEW n \in Nat \ {0}
  PROVE  /\ a = (a \div n) * n + (a % n)
         /\ a \div n \in Nat /\ a % n \in 0 .. n - 1
  BY Z3

LEMMA Distribute ==
  ASSUME NEW a \in Nat, NEW b \in Nat, NEW n \in Nat
  PROVE  (a + b) * n = a * n + b * n /\ a * n \in Nat /\ b * n \in Nat
  BY Z3

LEMMA Monotone ==
  ASSUME NEW a \in Nat, NEW b \in Nat, a <= b, NEW n \in Nat
  PROVE  a * n <= b * n
<1>1. b - a \in Nat /\ b = a + (b - a)
  OBVIOUS
<1> QED  BY <1>1, Distribute

LEMMA Remainder ==
  ASSUME NEW q \in Nat, NEW n \in Nat \ {0}, NEW r \in 0 .. n - 1
  PROVE  (q * n + r) % n = r
<1>1. q * n + r \in Nat
  BY Distribute
<1> DEFINE d == (q * n + r) \div n
<1>2. q * n + r = d * n + ((q * n + r) % n) /\ d \in Nat /\ (q * n + r) % n \in 0 .. n - 1
  BY <1>1, DivMod
<1>3. CASE d = q
  BY <1>2, <1>3, Distribute
<1>4. CASE d > q
  <2>1. d * n = (q + 1) * n + (d - (q + 1)) * n /\ (d - (q + 1)) * n \in Nat
        /\ (q + 1) * n = q * n + 1 * n
    BY <1>2, <1>4, Distribute
  <2> QED  BY <1>2, <2>1, Distribute
<1>5. CASE d < q
  <2>1. q * n = (d + 1) * n + (q - (d + 1)) * n /\ (q - (d + 1)) * n \in Nat
        /\ (d + 1) * n = d * n + 1 * n
    BY <1>2, <1>5, Distribute
  <2> QED  BY <1>2, <2>1, Distribute
<1> QED  BY <1>2, <1>3, <1>4, <1>5

(* Of the multiples of n there is one in every n numbers.                  *)
LEMMA OneMultiple ==
  ASSUME NEW n \in Nat \ {0}, NEW c \in Nat, NEW d \in Nat,
         c * n < d * n + n, d * n < c * n + n
  PROVE  c = d
<1>1. \A e, f \in Nat : e + 1 <= f => e * n + n <= f * n
  <2>1. ASSUME NEW e \in Nat, NEW f \in Nat, e + 1 <= f
        PROVE  e * n + n <= f * n
    <3>1. (e + 1) * n <= f * n /\ (e + 1) * n = e * n + 1 * n /\ e * n \in Nat
      BY <2>1, Monotone, Distribute
    <3> QED  BY <3>1
  <2> QED  BY <2>1
<1>2. c * n \in Nat /\ d * n \in Nat
  BY Distribute
<1>3. ~ (c + 1 <= d) /\ ~ (d + 1 <= c)
  BY <1>1, <1>2
<1> QED  BY <1>3

LEMMA CeilIs ==
  ASSUME NEW b \in Nat, NEW n \in Nat \ {0}
  PROVE  /\ CEIL(b, n) \in Nat
         /\ CEIL(b, n) * n \in Nat /\ b <= CEIL(b, n) * n /\ CEIL(b, n) * n < b + n
         /\ \A c \in Nat : b = c * n => CEIL(b, n) = c
<1>1. b + n - 1 \in Nat
  OBVIOUS
<1>2. /\ b + n - 1 = CEIL(b, n) * n + ((b + n - 1) % n)
      /\ CEIL(b, n) \in Nat /\ (b + n - 1) % n \in 0 .. n - 1
  BY <1>1, DivMod DEF CEIL
<1>3. CEIL(b, n) * n \in Nat
  BY <1>2, Distribute
<1>4. b <= CEIL(b, n) * n /\ CEIL(b, n) * n < b + n
  BY <1>2, <1>3
<1>5. ASSUME NEW c \in Nat, b = c * n PROVE CEIL(b, n) = c
  BY <1>2, <1>3, <1>4, <1>5, OneMultiple
<1> QED  BY <1>2, <1>3, <1>4, <1>5

-----------------------------------------------------------------------------
(* Sectors and blocks.                                                     *)

LEMMA Sizes ==
  /\ SectorSize \in Nat \ {0} /\ BlockSize \in Nat \ {0} /\ Sectors \in Nat \ {0}
  /\ DiskSize \in Nat /\ Addresses = 0 .. DiskSize - 1
  /\ \/ SectorSize = 1
     \/ \E q \in Nat \ {0} : SectorSize = q * BlockSize /\ SectorSize % BlockSize = 0
<1>1. SectorSize \in Nat \ {0} /\ BlockSize \in Nat \ {0} /\ Sectors \in Nat \ {0}
  BY CryptoAssumption
<1>2. DiskSize \in Nat
  BY <1>1, Distribute DEF DiskSize
<1>3. CASE SectorSize % BlockSize = 0
  <2>1. SectorSize = (SectorSize \div BlockSize) * BlockSize
        /\ SectorSize \div BlockSize \in Nat
    BY <1>1, <1>3, DivMod
  <2>2. SectorSize \div BlockSize # 0
    BY <1>1, <2>1
  <2> QED  BY <1>1, <1>2, <1>3, <2>1, <2>2 DEF Addresses
<1> QED  BY <1>1, <1>2, <1>3, CryptoAssumption DEF Addresses

LEMMA SizesTyped ==
  /\ SectorSize \in Nat \ {0} /\ BlockSize \in Nat \ {0} /\ Sectors \in Nat \ {0}
  /\ DiskSize \in Nat /\ Addresses = 0 .. DiskSize - 1
BY Sizes

(* The sectors before the first one in its block.                          *)
LEMMA Alignment ==
  ASSUME NEW s \in Nat
  PROVE  /\ Position(s) \in Nat
         /\ Position(s) = BlockOf(s) * BlockSize + (Position(s) % BlockSize)
         /\ BlockOf(s) \in Nat /\ BlockOf(s) * BlockSize \in Nat
         /\ Position(s) % BlockSize \in 0 .. BlockSize - 1
         /\ PriorSectors(s) \in Nat
         /\ PriorSectors(s) * SectorSize = Position(s) % BlockSize
         /\ SectorSize = 1 \/ Position(s) % BlockSize = 0
<1>1. Position(s) \in Nat
  BY Sizes, Distribute DEF Position
<1>2. /\ Position(s) = BlockOf(s) * BlockSize + (Position(s) % BlockSize)
      /\ BlockOf(s) \in Nat /\ Position(s) % BlockSize \in 0 .. BlockSize - 1
  BY <1>1, Sizes, DivMod DEF BlockOf
<1>3. BlockOf(s) * BlockSize \in Nat
  BY <1>2, Sizes, Distribute
<1>4. SectorSize = 1 \/ Position(s) % BlockSize = 0
  <2>1. ASSUME NEW q \in Nat \ {0}, SectorSize = q * BlockSize
        PROVE  Position(s) % BlockSize = 0
    <3>1. Position(s) = (s * q) * BlockSize + 0
      BY <2>1, Sizes DEF Position
    <3>2. s * q \in Nat
      BY Distribute
    <3> QED  BY <3>1, <3>2, Sizes, Remainder
  <2> QED  BY <2>1, Sizes
<1>5. PriorSectors(s) \in Nat /\ PriorSectors(s) * SectorSize = Position(s) % BlockSize
  <2>1. CASE Position(s) % BlockSize = 0
    <3>1. PriorSectors(s) = 0
      BY <2>1, CeilIs, Sizes DEF PriorSectors
    <3> QED  BY <2>1, <3>1, Sizes
  <2>2. CASE SectorSize = 1
    <3>1. \A c \in Nat : c = c * 1 /\ CEIL(c, 1) = c
      BY CeilIs
    <3> QED  BY <1>2, <2>2, <3>1 DEF PriorSectors
  <2> QED  BY <1>4, <2>1, <2>2
<1> QED  BY <1>1, <1>2, <1>3, <1>4, <1>5

LEMMA CopyAt ==
  ASSUME NEW to, NEW n, IsBuffer(to, n), NEW at, NEW from, NEW start, NEW m
  PROVE  /\ IsBuffer(Copy(to, at, from, start, m), n)
         /\ \A i \in 0 .. n - 1 :
              Copy(to, at, from, start, m)[i]
                = IF at <= i /\ i < at + m THEN from[start + i - at] ELSE to[i]
<1>1. DOMAIN to = 0 .. n - 1
  BY DEF IsBuffer
<1> QED  BY <1>1 DEF Copy, IsBuffer

LEMMA CtrAt ==
  ASSUME NEW f, NEW n, IsBuffer(f, n), NEW at, NEW block, NEW m
  PROVE  /\ IsBuffer(CtrBlocks(f, at, block, m), n)
         /\ \A i \in 0 .. n - 1 :
              CtrBlocks(f, at, block, m)[i]
                = IF at <= i /\ i < at + m * BlockSize
                  THEN Xor(f[i], block * BlockSize + i - at) ELSE f[i]
<1>1. DOMAIN f = 0 .. n - 1
  BY DEF IsBuffer
<1> QED  BY <1>1 DEF CtrBlocks, IsBuffer

-----------------------------------------------------------------------------
(* Reads.                                                                  *)

(* The first, the whole and the last block of a read meet.                 *)
LEMMA Sections ==
  ASSUME Types, size > 0, HeadFits
  PROVE  /\ First \in Nat /\ sector \in Nat /\ size \in Nat
         /\ HeadBytes \in 0 .. size /\ FirstMidBlock \in Nat
         /\ MidBlocks \in Nat /\ MidBlocks * BlockSize \in Nat
         /\ HeadBytes < size => FirstMidBlock * BlockSize = First + HeadBytes
         /\ TailAt \in 0 .. size /\ size - TailAt < BlockSize
         /\ HeadBytes = size => MidBlocks * BlockSize = 0
         /\ PriorSectors(sector) = 0 => HeadBytes = 0
         /\ PriorSectors(sector) > 0 => HeadBytes <= BlockSize - Misaligned
<1>1. sector \in Nat /\ size \in Nat \ {0}
  BY DEF Types
<1>2. /\ First \in Nat /\ First = BlockOf(sector) * BlockSize + Misaligned
      /\ BlockOf(sector) \in Nat /\ BlockOf(sector) * BlockSize \in Nat
      /\ Misaligned \in 0 .. BlockSize - 1
      /\ PriorSectors(sector) \in Nat /\ PriorSectors(sector) * SectorSize = Misaligned
      /\ SectorSize \in Nat \ {0} /\ BlockSize \in Nat \ {0}
  BY <1>1, Alignment, Sizes DEF First, Misaligned
<1>3. PriorSectors(sector) = 0 <=> Misaligned = 0
  <2>1. CASE PriorSectors(sector) = 0
    BY <1>2, <2>1
  <2>2. CASE PriorSectors(sector) >= 1
    <3>1. 1 * SectorSize <= PriorSectors(sector) * SectorSize
      BY <1>2, <2>2, Monotone
    <3> QED  BY <1>2, <2>2, <3>1
  <2> QED  BY <1>2, <2>1, <2>2
<1>4. HeadBytes = IF Misaligned = 0 THEN 0
                  ELSE IF BlockSize - Misaligned < size THEN BlockSize - Misaligned ELSE size
  <2>1. HeadBytes = IF Misaligned = 0 THEN 0
                    ELSE IF BlockSize - Misaligned < buffer_size THEN BlockSize - Misaligned
                         ELSE buffer_size
    BY <1>3 DEF HeadBytes, Min2, Misaligned, First
  <2>2. HeadBytes <= size /\ buffer_size \in Nat /\ size <= buffer_size
    BY DEF HeadFits
  <2> QED  BY <1>1, <1>2, <2>1, <2>2
<1>5. HeadBytes \in 0 .. size
  BY <1>1, <1>2, <1>4
<1>6. FirstMidBlock \in Nat /\ (HeadBytes < size => FirstMidBlock * BlockSize = First + HeadBytes)
  <2>1. /\ FirstMidBlock \in Nat
        /\ \A c \in Nat : First = c * BlockSize => FirstMidBlock = c
        /\ FirstMidBlock * BlockSize \in Nat
        /\ First <= FirstMidBlock * BlockSize /\ FirstMidBlock * BlockSize < First + BlockSize
    BY <1>2, CeilIs DEF FirstMidBlock, First
  <2>2. CASE Misaligned = 0
    <3>1. First = BlockOf(sector) * BlockSize
      BY <1>2, <2>2
    <3>2. FirstMidBlock = BlockOf(sector)
      BY <1>2, <2>1, <3>1
    <3>3. HeadBytes = 0
      BY <1>4, <2>2
    <3> QED  BY <1>2, <3>1, <3>2, <3>3
  <2>3. CASE Misaligned # 0 /\ HeadBytes < size
    <3>1. First + HeadBytes = (BlockOf(sector) + 1) * BlockSize
      <4>1. (BlockOf(sector) + 1) * BlockSize = BlockOf(sector) * BlockSize + 1 * BlockSize
        BY <1>2, Distribute
      <4> QED  BY <1>1, <1>2, <1>4, <2>3, <4>1
    <3>2. BlockOf(sector) + 1 = FirstMidBlock
      <4>1. /\ (BlockOf(sector) + 1) * BlockSize < FirstMidBlock * BlockSize + BlockSize
            /\ FirstMidBlock * BlockSize < (BlockOf(sector) + 1) * BlockSize + BlockSize
        BY <1>1, <1>2, <1>4, <1>5, <2>1, <2>3, <3>1
      <4> QED  BY <1>2, <2>1, <4>1, OneMultiple
    <3> QED  BY <2>1, <3>1, <3>2
  <2> QED  BY <2>1, <2>2, <2>3
<1>7. size - HeadBytes \in Nat
  BY <1>1, <1>5
<1>8. /\ MidBlocks \in Nat /\ MidBlocks * BlockSize \in Nat
      /\ size - HeadBytes = MidBlocks * BlockSize + ((size - HeadBytes) % BlockSize)
      /\ (size - HeadBytes) % BlockSize \in 0 .. BlockSize - 1
  BY <1>2, <1>7, DivMod, Distribute DEF MidBlocks
<1>9. TailAt \in 0 .. size /\ size - TailAt < BlockSize
  BY <1>1, <1>2, <1>5, <1>8 DEF TailAt
<1>10. HeadBytes = size => MidBlocks * BlockSize = 0
  <2>1. \A x \in Nat, y \in Nat : 0 = x + y => x = 0
    OBVIOUS
  <2>2. ASSUME HeadBytes = size PROVE MidBlocks * BlockSize = 0
    <3>1. size - HeadBytes = 0 /\ (size - HeadBytes) % BlockSize \in Nat
      BY <1>1, <1>2, <1>8, <2>2
    <3> HIDE <2>2
    <3> QED  BY <1>8, <2>1, <3>1
  <2> QED  BY <2>2
<1> QED  BY <1>1, <1>2, <1>3, <1>4, <1>5, <1>6, <1>8, <1>9, <1>10

(* What a block read on its own decrypts to.                               *)
LEMMA BlockRead ==
  ASSUME Types, NEW b \in Nat, NEW j \in 0 .. BlockSize - 1
  PROVE  MisalignedBlock(b)[j] = Plain(disk, b * BlockSize + j)
<1> DEFINE f == [i \in 0 .. BlockSize - 1 |-> disk[b * BlockSize + i]]
<1>1. IsBuffer(f, BlockSize)
  BY DEF IsBuffer
<1>2. b * BlockSize \in Nat /\ BlockSize \in Nat \ {0} /\ 1 * BlockSize = BlockSize
  BY Sizes, Distribute
<1>3. f[j] = disk[b * BlockSize + j]
  OBVIOUS
<1> HIDE DEF f
<1>4. CtrBlocks(f, 0, b, 1)[j] = Xor(f[j], b * BlockSize + j - 0)
  <2>1. CtrBlocks(f, 0, b, 1)[j]
          = IF 0 <= j /\ j < 0 + 1 * BlockSize THEN Xor(f[j], b * BlockSize + j - 0) ELSE f[j]
    BY <1>1, CtrAt
  <2> QED  BY <1>2, <2>1
<1>5. b * BlockSize + j - 0 = b * BlockSize + j
  BY <1>2
<1> QED  BY <1>3, <1>4, <1>5 DEF MisalignedBlock, Plain, f

(* The whole blocks, after the head is in place.                           *)
LEMMA MiddleRead ==
  ASSUME Types, size > 0, HeadFits, call = "read", NEW f, IsBuffer(f, size),
         \A i \in 0 .. HeadBytes - 1 : f[i] = Plain(disk, First + i),
         \A i \in HeadBytes .. size - 1 : f[i] = disk[First + i],
         Middle(f), UNCHANGED << disk, callVars >>
  PROVE  /\ IsBuffer(dest', size)
         /\ \A i \in 0 .. TailAt - 1 : dest'[i] = Plain(disk, First + i)
         /\ \/ pc' = "read_tail" /\ TailAt < size /\ buffer_size' = buffer_size
            \/ pc' = "idle" /\ result' = "ok" /\ TailAt = size
<1>1. /\ First \in Nat /\ size \in Nat /\ HeadBytes \in 0 .. size
      /\ FirstMidBlock \in Nat /\ MidBlocks * BlockSize \in Nat
      /\ HeadBytes < size => FirstMidBlock * BlockSize = First + HeadBytes
      /\ TailAt \in 0 .. size /\ TailAt = HeadBytes + MidBlocks * BlockSize
      /\ HeadBytes = size => MidBlocks * BlockSize = 0
  BY Sections DEF TailAt
<1>2. /\ IsBuffer(dest', size)
      /\ \A i \in 0 .. size - 1 :
           dest'[i] = IF HeadBytes <= i /\ i < HeadBytes + MidBlocks * BlockSize
                      THEN Xor(f[i], FirstMidBlock * BlockSize + i - HeadBytes) ELSE f[i]
  BY CtrAt DEF Middle
<1>3. ASSUME NEW i \in 0 .. TailAt - 1 PROVE dest'[i] = Plain(disk, First + i)
  <2>1. i \in 0 .. size - 1
    BY <1>1
  <2>2. CASE i < HeadBytes
    BY <1>1, <1>2, <2>1, <2>2
  <2>3. CASE HeadBytes <= i
    <3>1. FirstMidBlock * BlockSize + i - HeadBytes = First + i
      BY <1>1, <2>1, <2>3
    <3>2. f[i] = disk[First + i]
      BY <1>1, <2>1, <2>3
    <3>3. dest'[i] = Xor(f[i], FirstMidBlock * BlockSize + i - HeadBytes)
      BY <1>1, <1>2, <2>1, <2>3
    <3> QED  BY <3>1, <3>2, <3>3 DEF Plain
  <2> QED  BY <1>1, <2>1, <2>2, <2>3
<1> QED  BY <1>1, <1>2, <1>3 DEF Middle, Finish

(* A step of a read.                                                       *)
LEMMA Reading ==
  ASSUME Types, Reads, call = "read", pc \in ReadSteps, UNCHANGED << disk, callVars >>,
         \/ pc' = "idle" /\ result' = "error"
         \/ /\ IsBuffer(dest', size)
            /\ \/ /\ pc' = "idle"
                  /\ \A i \in 0 .. size - 1 : dest'[i] = Plain(disk, First + i)
               \/ /\ pc' = "read_head" /\ PriorSectors(sector) > 0
                  /\ buffer_size' = buffer_size
                  /\ \A i \in 0 .. size - 1 : dest'[i] = disk[First + i]
               \/ /\ pc' = "read_tail" /\ TailAt < size
                  /\ buffer_size' = buffer_size /\ HeadFits
                  /\ \A i \in 0 .. TailAt - 1 : dest'[i] = Plain(disk, First + i)
  PROVE  Types' /\ Reads'
<1>1. /\ disk' = disk /\ call' = call /\ sector' = sector /\ size' = size /\ before' = before
      /\ First' = First /\ PriorSectors(sector)' = PriorSectors(sector)
  BY DEF callVars, First
<1>2. Types'
  <2>1. IsBuffer(disk, DiskSize)' /\ IsBuffer(before, DiskSize)'
        /\ (\A a \in Addresses : IsByte(disk[a]))'
    BY <1>1 DEF Types, IsBuffer, IsByte, DiskSize, Addresses
  <2>2. IsBuffer(dest', size) => IsBuffer(dest, size)'
    BY <1>1 DEF IsBuffer
  <2>3. buffer_size \in Nat /\ size <= buffer_size
    BY DEF Types, ReadSteps, WindowSteps
  <2>4. (sector \in 0 .. Sectors - 1 /\ size \in Nat /\ First + size <= DiskSize)'
        /\ (call \in {"read", "write"} /\ (pc # "idle" => size > 0))'
    BY <1>1 DEF Types, ReadSteps, DiskSize
  <2>5. \/ pc' = "idle"
        \/ /\ call' = "read" /\ pc' \in ReadSteps /\ IsBuffer(dest, size)'
           /\ buffer_size' \in Nat /\ size' <= buffer_size'
    BY <1>1, <2>2, <2>3 DEF ReadSteps
  <2> QED  BY <2>1, <2>4, <2>5 DEF Types
<1>3. Reads'
  <2>1. buffer_size' = buffer_size => TailAt' = TailAt /\ HeadFits' = HeadFits
    BY <1>1 DEF TailAt, HeadFits, HeadBytes, MidBlocks, FirstMidBlock
  <2>2. ReadsPlaintext'
    BY <1>1 DEF ReadsPlaintext, Returned, Plain
  <2>3. (call = "read" => disk = before)'
    BY <1>1 DEF Reads
  <2>4. (pc = "read_head" =>
           /\ PriorSectors(sector) > 0
           /\ \A i \in 0 .. size - 1 : dest[i] = disk[First + i])'
    BY <1>1
  <2>5. (pc = "read_tail" =>
           /\ HeadFits /\ TailAt < size
           /\ \A i \in 0 .. TailAt - 1 : dest[i] = Plain(disk, First + i))'
    <3> SUFFICES ASSUME pc' = "read_tail"
                 PROVE  (/\ HeadFits /\ TailAt < size
                         /\ \A i \in 0 .. TailAt - 1 : dest[i] = Plain(disk, First + i))'
      OBVIOUS
    <3>1. TailAt' = TailAt /\ HeadFits' /\ TailAt < size
          /\ \A i \in 0 .. TailAt - 1 : dest'[i] = Plain(disk, First + i)
      BY <2>1
    <3> QED  BY <1>1, <3>1 DEF Plain
  <2> QED  BY <2>2, <2>3, <2>4, <2>5 DEF Reads
<1> QED  BY <1>2, <1>3

LEMMA ReadsRaw ==
  ASSUME Types, Reads, size > 0, ReadRaw
  PROVE  Types' /\ Reads'
<1>1. call = "read" /\ pc \in ReadSteps /\ UNCHANGED << disk, callVars >>
  BY DEF Types, ReadRaw, ReadSteps, WindowSteps
<1> DEFINE f == Raw(sector, size)
<1>2. /\ IsBuffer(f, size)
      /\ \A i \in 0 .. size - 1 : f[i] = disk[First + i]
  <2>1. \A i \in 0 .. size - 1 : Position(sector) + i \in Addresses
    <3>1. Position(sector) \in Nat /\ size \in Nat /\ Position(sector) + size <= DiskSize
      BY Alignment DEF Types, First
    <3> QED  BY <3>1, SizesTyped
  <2> QED  BY <2>1 DEF Raw, IsBuffer, First
<1> HIDE DEF f
<1>3. CASE LowerFails
  BY <1>1, <1>3, Reading DEF LowerFails, Finish
<1>4. CASE PriorSectors(sector) > 0 /\ dest' = f /\ pc' = "read_head"
           /\ UNCHANGED << result, window, buffer_size >>
  BY <1>1, <1>2, <1>4, Reading
<1>5. CASE ~ (PriorSectors(sector) > 0) /\ Middle(f)
  <2>0. PriorSectors(sector) = 0 /\ size \in Nat
    BY <1>5, Alignment DEF Types
  <2>1. HeadBytes = 0 /\ size \in Nat /\ HeadFits
    BY <1>1, <2>0 DEF HeadFits, HeadBytes, Types, ReadSteps, WindowSteps
  <2>2. (\A i \in 0 .. HeadBytes - 1 : f[i] = Plain(disk, First + i))
        /\ \A i \in HeadBytes .. size - 1 : f[i] = disk[First + i]
    BY <1>2, <2>1
  <2>3. /\ IsBuffer(dest', size)
        /\ \A i \in 0 .. TailAt - 1 : dest'[i] = Plain(disk, First + i)
        /\ \/ pc' = "read_tail" /\ TailAt < size /\ buffer_size' = buffer_size
           \/ pc' = "idle" /\ result' = "ok" /\ TailAt = size
    BY <1>1, <1>2, <1>5, <2>1, <2>2, MiddleRead
  <2> QED  BY <1>1, <2>1, <2>3, Reading
<1> QED  BY <1>3, <1>4, <1>5 DEF ReadRaw, f

LEMMA ReadsHead ==
  ASSUME Types, Reads, size > 0, ReadHead
  PROVE  Types' /\ Reads'
<1>1. /\ call = "read" /\ pc \in ReadSteps /\ UNCHANGED << disk, callVars >>
      /\ IsBuffer(dest, size) /\ PriorSectors(sector) > 0
      /\ \A i \in 0 .. size - 1 : dest[i] = disk[First + i]
  BY DEF Types, Reads, ReadHead, ReadSteps, WindowSteps
<1>2. CASE LowerFails
  BY <1>1, <1>2, Reading DEF LowerFails, Finish
<1> DEFINE m == Position(sector) % BlockSize
           f == Copy(dest, 0, MisalignedBlock(BlockOf(sector)), m, HeadBytes)
<1>3. CASE HeadBytes <= size /\ Middle(f)
  <2>0. HeadFits
    BY <1>1, <1>3 DEF HeadFits, Types, ReadSteps, WindowSteps
  <2>1. /\ First \in Nat /\ size \in Nat /\ HeadBytes \in 0 .. size
        /\ HeadBytes <= BlockSize - m /\ m \in 0 .. BlockSize - 1
        /\ First = BlockOf(sector) * BlockSize + m
        /\ BlockOf(sector) \in Nat /\ BlockOf(sector) * BlockSize \in Nat
    BY <1>1, <2>0, Sections, Alignment DEF First, Misaligned
  <2>2. /\ IsBuffer(f, size)
        /\ \A i \in 0 .. size - 1 :
             f[i] = IF 0 <= i /\ i < 0 + HeadBytes
                    THEN MisalignedBlock(BlockOf(sector))[m + i - 0] ELSE dest[i]
    BY <1>1, CopyAt
  <2> HIDE DEF f, m
  <2>3. ASSUME NEW i \in 0 .. HeadBytes - 1 PROVE f[i] = Plain(disk, First + i)
    <3>1. /\ i \in 0 .. size - 1 /\ m + i - 0 = m + i /\ m + i \in 0 .. BlockSize - 1
          /\ BlockOf(sector) * BlockSize + (m + i) = First + i
      BY <2>1, Sizes
    <3>2. f[i] = MisalignedBlock(BlockOf(sector))[m + i]
      BY <2>1, <2>2, <3>1
    <3> QED  BY <2>1, <3>1, <3>2, BlockRead
  <2>4. ASSUME NEW i \in HeadBytes .. size - 1 PROVE f[i] = disk[First + i]
    BY <1>1, <2>1, <2>2
  <2>5. /\ IsBuffer(dest', size)
        /\ \A i \in 0 .. TailAt - 1 : dest'[i] = Plain(disk, First + i)
        /\ \/ pc' = "read_tail" /\ TailAt < size /\ buffer_size' = buffer_size
           \/ pc' = "idle" /\ result' = "ok" /\ TailAt = size
    BY <1>1, <1>3, <2>0, <2>2, <2>3, <2>4, MiddleRead
  <2> QED  BY <1>1, <2>0, <2>5, Reading
<1>4. CASE HeadBytes > size /\ pc' = "astray" /\ UNCHANGED << result, window, buffer_size >>
  <2>1. /\ disk' = disk /\ call' = call /\ sector' = sector /\ size' = size
        /\ before' = before /\ First' = First /\ buffer_size' = buffer_size
    BY <1>1, <1>4 DEF callVars, First
  <2>2. Types'
    <3>1. IsBuffer(disk, DiskSize)' /\ IsBuffer(before, DiskSize)'
          /\ (\A a \in Addresses : IsByte(disk[a]))'
      BY <2>1 DEF Types, IsBuffer, IsByte, DiskSize, Addresses
    <3>2. (sector \in 0 .. Sectors - 1 /\ size \in Nat /\ First + size <= DiskSize)'
          /\ (call \in {"read", "write"} /\ (pc # "idle" => size > 0))'
      BY <2>1 DEF Types, DiskSize
    <3> QED  BY <1>1, <1>4, <2>1, <3>1, <3>2 DEF Types
  <2>3. size < BlockSize /\ size < buffer_size
    <3>1. HeadBytes = IF BlockSize - m < buffer_size THEN BlockSize - m ELSE buffer_size
      BY <1>1, <1>4, Sizes, Alignment DEF HeadBytes, Min2
    <3>2. sector \in Nat /\ size \in Nat /\ buffer_size \in Nat
      BY <1>1, Sizes DEF Types, ReadSteps, WindowSteps
    <3>3. m \in 0 .. BlockSize - 1 /\ BlockSize \in Nat
      BY <3>2, Sizes, Alignment
    <3> HIDE DEF m
    <3> QED  BY <1>4, <3>1, <3>2, <3>3
  <2>4. ReadsPlaintext'
    BY <1>4, <2>1, <2>3 DEF ReadsPlaintext, Returned
  <2>5. Reads'
    BY <1>4, <2>1, <2>4 DEF Reads
  <2> QED  BY <2>2, <2>5
<1> QED  BY <1>2, <1>3, <1>4 DEF ReadHead

LEMMA ReadsTail ==
  ASSUME Types, Reads, size > 0, ReadTail
  PROVE  Types' /\ Reads'
<1>1. /\ call = "read" /\ pc \in ReadSteps /\ UNCHANGED << disk, callVars >>
      /\ IsBuffer(dest, size) /\ TailAt < size /\ HeadFits
      /\ \A i \in 0 .. TailAt - 1 : dest[i] = Plain(disk, First + i)
  BY DEF Types, Reads, ReadTail, ReadSteps, WindowSteps
<1>2. CASE LowerFails
  BY <1>1, <1>2, Reading DEF LowerFails, Finish
<1> DEFINE b == FirstMidBlock + MidBlocks
<1>3. CASE dest' = Copy(dest, TailAt, MisalignedBlock(b), 0, size - TailAt) /\ Finish("ok")
  <2>1. /\ First \in Nat /\ size \in Nat /\ TailAt \in 0 .. size /\ size - TailAt < BlockSize
        /\ HeadBytes \in 0 .. size /\ HeadBytes < size
        /\ b \in Nat /\ b * BlockSize = First + TailAt
    <3>1. /\ HeadBytes \in 0 .. size /\ FirstMidBlock \in Nat /\ MidBlocks \in Nat
          /\ MidBlocks * BlockSize \in Nat /\ First \in Nat /\ size \in Nat
          /\ HeadBytes < size => FirstMidBlock * BlockSize = First + HeadBytes
          /\ TailAt \in 0 .. size /\ size - TailAt < BlockSize
      BY <1>1, Sections
    <3>2. HeadBytes < size
      BY <1>1, <3>1 DEF TailAt
    <3>3. b * BlockSize = FirstMidBlock * BlockSize + MidBlocks * BlockSize
      BY <3>1, Sizes, Distribute
    <3> QED  BY <3>1, <3>2, <3>3 DEF TailAt
  <2> HIDE DEF b
  <2>2. /\ IsBuffer(dest', size)
        /\ \A i \in 0 .. size - 1 :
             dest'[i] = IF TailAt <= i /\ i < TailAt + (size - TailAt)
                        THEN MisalignedBlock(b)[0 + i - TailAt] ELSE dest[i]
    BY <1>1, <1>3, CopyAt
  <2>3. ASSUME NEW i \in 0 .. size - 1 PROVE dest'[i] = Plain(disk, First + i)
    <3>1. CASE i < TailAt
      BY <1>1, <2>1, <2>2, <3>1
    <3>2. CASE TailAt <= i
      <4>1. /\ 0 + i - TailAt = i - TailAt /\ i - TailAt \in 0 .. BlockSize - 1
            /\ b * BlockSize + (i - TailAt) = First + i
        BY <2>1, <3>2, Sizes
      <4>2. dest'[i] = MisalignedBlock(b)[i - TailAt]
        BY <2>1, <2>2, <3>2, <4>1
      <4> QED  BY <2>1, <4>1, <4>2, BlockRead
    <3> QED  BY <2>1, <3>1, <3>2
  <2> QED  BY <1>1, <1>3, <2>2, <2>3, Reading DEF Finish
<1> QED  BY <1>2, <1>3 DEF ReadTail, TailAt

-----------------------------------------------------------------------------
(* Writes.                                                                 *)

(* Encrypting twice is encrypting not at all.                              *)
LEMMA XorTwice ==
  ASSUME NEW byte, IsByte(byte), NEW k
  PROVE  IsByte(Xor(byte, k)) /\ Xor(Xor(byte, k), k) = byte
<1> DEFINE o == byte.origin
           t == byte.stream
           u == IF k \in t THEN t \ {k} ELSE t \cup {k}
<1>1. Xor(byte, k) = [origin |-> o, stream |-> u]
  BY DEF Xor, IsByte
<1>2. Xor([origin |-> o, stream |-> u], k)
        = [origin |-> o, stream |-> IF k \in u THEN u \ {k} ELSE u \cup {k}]
  BY DEF Xor
<1>3. (IF k \in u THEN u \ {k} ELSE u \cup {k}) = t
  OBVIOUS
<1> QED  BY <1>1, <1>2, <1>3 DEF IsByte

LEMMA CeilBelow ==
  ASSUME NEW b \in Nat, NEW n \in Nat \ {0}, NEW m \in Nat, b <= m * n
  PROVE  CEIL(b, n) * n <= m * n
<1>1. CEIL(b, n) \in Nat /\ CEIL(b, n) * n \in Nat /\ CEIL(b, n) * n < b + n
      /\ m * n \in Nat
  BY CeilIs, Distribute
<1>2. CASE CEIL(b, n) <= m
  BY <1>1, <1>2, Monotone
<1>3. CASE m + 1 <= CEIL(b, n)
  <2>1. (m + 1) * n <= CEIL(b, n) * n /\ (m + 1) * n = m * n + 1 * n
    BY <1>1, <1>3, Monotone, Distribute
  <2> QED  BY <1>1, <2>1
<1> QED  BY <1>1, <1>2, <1>3

(* The window holds whole blocks and whole sectors.                        *)
LEMMA WindowSizes ==
  /\ WindowSize \in Nat /\ BlockSize <= WindowSize
  /\ \E p \in Nat : WindowSize = p * BlockSize
  /\ \E p \in Nat : WindowSize = p * SectorSize
<1>1. CASE SectorSize = 1
  <2>1. SectorSize % BlockSize = 0 => BlockSize = 1
    <3>1. 1 = (1 \div BlockSize) * BlockSize + (1 % BlockSize) /\ 1 \div BlockSize \in Nat
      BY Sizes, DivMod
    <3>2. ASSUME 1 % BlockSize = 0, BlockSize > 1 PROVE FALSE
      <4>1. (1 \div BlockSize) * BlockSize = 1 * 1 /\ 1 \div BlockSize # 0
        BY <3>1, <3>2, Sizes
      <4>2. 1 * BlockSize <= (1 \div BlockSize) * BlockSize
        BY <3>1, <4>1, Sizes, Monotone
      <4> QED  BY <3>2, <4>1, <4>2, Sizes
    <3> QED  BY <1>1, <3>2, Sizes
  <2>2. WindowSize = 5 * BlockSize
    <3>1. BlockSize \div 1 = BlockSize
      BY Sizes
    <3> QED  BY <1>1, <2>1, <3>1, Sizes DEF WindowSize, Lcm, SectorsPerBlock
  <2>3. WindowSize = (5 * BlockSize) * SectorSize
    BY <1>1, <2>2, Sizes
  <2> QED  BY <2>2, <2>3, Sizes
<1>2. ASSUME NEW q \in Nat \ {0}, SectorSize = q * BlockSize, SectorSize % BlockSize = 0
      PROVE  /\ WindowSize = (5 * q) * BlockSize /\ WindowSize = 5 * SectorSize
             /\ BlockSize <= SectorSize
  <2>1. BlockSize <= SectorSize
    <3>1. 1 * BlockSize <= q * BlockSize
      BY Sizes, Monotone
    <3> QED  BY <1>2, <3>1, Sizes
  <2>2. SectorsPerBlock * SectorSize = SectorSize
    <3>1. BlockSize \div BlockSize = 1
      <4>1. BlockSize = (BlockSize \div BlockSize) * BlockSize + (BlockSize % BlockSize)
            /\ BlockSize \div BlockSize \in Nat /\ BlockSize % BlockSize \in 0 .. BlockSize - 1
        BY Sizes, DivMod
      <4>2. (BlockSize \div BlockSize) * BlockSize < 1 * BlockSize + BlockSize
            /\ 1 * BlockSize < (BlockSize \div BlockSize) * BlockSize + BlockSize
        BY <4>1, Sizes, Distribute
      <4> QED  BY <4>1, <4>2, Sizes, OneMultiple
    <3> QED  BY <2>1, <3>1, Sizes DEF SectorsPerBlock
  <2>3. WindowSize = 5 * SectorSize
    BY <1>2, <2>2, Sizes DEF WindowSize, Lcm
  <2>4. (5 * q) * BlockSize = 5 * (q * BlockSize)
    BY Sizes, Z3
  <2> QED  BY <1>2, <2>1, <2>3, <2>4
<1>3. CASE \E q \in Nat \ {0} : SectorSize = q * BlockSize /\ SectorSize % BlockSize = 0
  <2>1. PICK q \in Nat \ {0} : SectorSize = q * BlockSize /\ SectorSize % BlockSize = 0
    BY <1>3
  <2> DEFINE p == 5 * q
  <2>2. p \in Nat /\ WindowSize = p * BlockSize
    BY <1>2, <2>1
  <2>3. WindowSize = 5 * SectorSize /\ BlockSize <= SectorSize
    BY <1>2, <2>1
  <2> HIDE DEF p
  <2>4. WindowSize \in Nat /\ BlockSize <= WindowSize
    BY <2>3, Sizes
  <2>5. \E t \in Nat : WindowSize = t * BlockSize
    BY <2>2
  <2> QED  BY <2>3, <2>4, <2>5
<1> QED  BY <1>1, <1>3, Sizes

(* The last block of the call.                                             *)
LEMMA LastBlock ==
  ASSUME Types
  PROVE  /\ First \in Nat /\ size \in Nat /\ sector \in Nat /\ First + size <= DiskSize
         /\ BlockEnd \in Nat /\ First + size <= BlockEnd /\ BlockEnd < First + size + BlockSize
         /\ \A c \in Nat : First + size <= c * BlockSize /\ c * BlockSize < First + size + BlockSize
              => c * BlockSize = BlockEnd
<1>1. First \in Nat /\ size \in Nat /\ sector \in Nat /\ First + size <= DiskSize
  BY Alignment DEF Types, First
<1> DEFINE t == First + size
           e == CEIL(t, BlockSize)
<1>2. /\ e \in Nat /\ BlockEnd = e * BlockSize /\ BlockEnd \in Nat
      /\ First + size <= BlockEnd /\ BlockEnd < First + size + BlockSize
  <2>1. t \in Nat /\ BlockSize \in Nat \ {0} /\ BlockEnd = e * BlockSize
    BY <1>1, Sizes DEF BlockEnd
  <2> HIDE DEF t
  <2>2. e \in Nat /\ e * BlockSize \in Nat /\ t <= e * BlockSize /\ e * BlockSize < t + BlockSize
    BY <2>1, CeilIs
  <2> QED  BY <2>1, <2>2 DEF t
<1> HIDE DEF e, t
<1>3. ASSUME NEW c \in Nat,
             First + size <= c * BlockSize, c * BlockSize < First + size + BlockSize
      PROVE  c * BlockSize = BlockEnd
  <2>1. c * BlockSize \in Nat
    BY Sizes, Distribute
  <2>2. c * BlockSize < e * BlockSize + BlockSize /\ e * BlockSize < c * BlockSize + BlockSize
    BY <1>1, <1>2, <1>3, <2>1, Sizes
  <2> QED  BY <1>2, <2>2, Sizes, OneMultiple
<1> QED  BY <1>1, <1>2, <1>3

(* Where the parts of the window lie.                                      *)
LEMMA Geometry ==
  ASSUME Types, size > 0, Windowed
  PROVE  /\ At \in Nat /\ window.offset \in 0 .. BlockSize - 1 /\ Misaligned \in 0 .. BlockSize - 1
         /\ AmountToCopy \in 1 .. size - window.buffer_offset
         /\ window.offset + AmountToCopy <= WindowSize
         /\ \/ window.offset + AmountToCopy = WindowSize
            \/ window.buffer_offset + AmountToCopy = size
         /\ BlocksToProcess \in Nat /\ BlocksToProcess * BlockSize \in Nat
         /\ BlockSize <= BlocksToProcess * BlockSize
         /\ window.offset + AmountToCopy <= BlocksToProcess * BlockSize
         /\ window.buffer_offset + AmountToCopy = size
              => At + BlocksToProcess * BlockSize = BlockEnd
         /\ Whole \in Nat /\ Whole * SectorSize \in Nat
         /\ BlocksToProcess * BlockSize <= Whole * SectorSize
         /\ Whole * SectorSize <= WindowSize
         /\ SectorSize = 1 => Whole * SectorSize = BlocksToProcess * BlockSize
         /\ SectorSize = 1 \/ Misaligned = 0
         /\ BlockOf(window.current_sector) * BlockSize = At
         /\ WindowSize \in Nat
<1>1. /\ At \in Nat /\ Misaligned \in 0 .. BlockSize - 1 /\ First \in Nat /\ size \in Nat
      /\ (SectorSize = 1 \/ Misaligned = 0)
      /\ WindowSize \in Nat /\ BlockSize <= WindowSize
  BY Alignment, LastBlock, WindowSizes DEF At, Windowed, Misaligned, First
<1>2. window.offset \in 0 .. BlockSize - 1 /\ window.buffer_offset \in 0 .. size - 1
  <2>1. window.offset = (IF window.buffer_offset = 0 THEN Misaligned ELSE 0)
        /\ window.buffer_offset \in 0 .. size - 1
    BY DEF Windowed
  <2> QED  BY <1>1, <2>1, SizesTyped
<1>3. /\ AmountToCopy \in 1 .. size - window.buffer_offset
      /\ window.offset + AmountToCopy <= WindowSize
      /\ \/ window.offset + AmountToCopy = WindowSize
         \/ window.buffer_offset + AmountToCopy = size
  <2> DEFINE o == window.offset
             bo == window.buffer_offset
  <2>1. AmountToCopy = IF WindowSize - o < size - bo THEN WindowSize - o ELSE size - bo
    BY DEF AmountToCopy, Min2
  <2>2. o \in Nat /\ o < WindowSize /\ bo \in 0 .. size - 1
    <3> HIDE DEF bo
    <3> QED  BY <1>1, <1>2, SizesTyped DEF bo
  <2> HIDE DEF o, bo
  <2>3. /\ AmountToCopy \in 1 .. size - bo
        /\ o + AmountToCopy <= WindowSize
        /\ o + AmountToCopy = WindowSize \/ bo + AmountToCopy = size
    BY <1>1, <2>1, <2>2
  <2> QED  BY <2>3 DEF o, bo
<1> DEFINE n == AmountToCopy + window.offset
<1>4. n \in Nat /\ n > 0 /\ n <= WindowSize /\ BlocksToProcess = CEIL(n, BlockSize)
  <2>1. AmountToCopy + window.offset - window.block_offset = AmountToCopy + window.offset
    BY <1>2, <1>3 DEF Windowed
  <2> QED  BY <1>1, <1>2, <1>3, <2>1 DEF BlocksToProcess
<1> HIDE DEF n
<1>5. /\ BlocksToProcess \in Nat /\ BlocksToProcess * BlockSize \in Nat
      /\ n <= BlocksToProcess * BlockSize /\ BlocksToProcess * BlockSize < n + BlockSize
      /\ BlocksToProcess * BlockSize <= WindowSize
  <2>1. PICK p \in Nat : WindowSize = p * BlockSize
    BY WindowSizes
  <2> QED  BY <1>4, <2>1, Sizes, CeilIs, CeilBelow
<1>6. BlockSize <= BlocksToProcess * BlockSize
  <2>1. BlocksToProcess >= 1
    BY <1>4, <1>5, Sizes
  <2>2. 1 * BlockSize <= BlocksToProcess * BlockSize
    BY <1>5, <2>1, Sizes, Monotone
  <2> QED  BY <2>2, Sizes
<1>7. /\ Whole \in Nat /\ Whole * SectorSize \in Nat
      /\ BlocksToProcess * BlockSize <= Whole * SectorSize
      /\ Whole * SectorSize <= WindowSize
      /\ SectorSize = 1 => Whole * SectorSize = BlocksToProcess * BlockSize
  <2>1. PICK p \in Nat : WindowSize = p * SectorSize
    BY WindowSizes
  <2> DEFINE t == BlocksToProcess * BlockSize
  <2>2. t \in Nat /\ t <= p * SectorSize /\ Whole = CEIL(t, SectorSize)
    BY <1>5, <2>1 DEF Whole
  <2> HIDE DEF t
  <2>3. /\ Whole \in Nat /\ Whole * SectorSize \in Nat /\ t <= Whole * SectorSize
        /\ Whole * SectorSize <= p * SectorSize
        /\ \A c \in Nat : t = c * SectorSize => Whole = c
    BY <2>2, Sizes, CeilIs, CeilBelow
  <2>4. SectorSize = 1 => t = t * SectorSize
    BY <2>2
  <2> QED  BY <2>1, <2>2, <2>3, <2>4 DEF t
<1>8. At = (At \div BlockSize) * BlockSize /\ At \div BlockSize \in Nat
  <2>1. At % BlockSize = 0 /\ BlockSize \in Nat \ {0}
    BY Sizes DEF Windowed
  <2>2. At = (At \div BlockSize) * BlockSize + (At % BlockSize) /\ At \div BlockSize \in Nat
    BY <1>1, <2>1, DivMod
  <2> DEFINE t == (At \div BlockSize) * BlockSize
  <2>3. t \in Nat
    BY <2>1, <2>2, Distribute
  <2> HIDE DEF t
  <2>4. At = t + 0
    BY <2>1, <2>2 DEF t
  <2> QED  BY <2>2, <2>3, <2>4 DEF t
<1>9. BlockOf(window.current_sector) * BlockSize = At
  <2> DEFINE c == BlockOf(window.current_sector)
             d == At \div BlockSize
  <2>1. /\ Position(window.current_sector) = c * BlockSize
             + (Position(window.current_sector) % BlockSize)
        /\ c \in Nat /\ c * BlockSize \in Nat
        /\ Position(window.current_sector) % BlockSize \in 0 .. BlockSize - 1
    BY Alignment DEF Windowed
  <2>2. Position(window.current_sector) = At + Misaligned
    BY DEF Windowed
  <2>3. d \in Nat /\ At = d * BlockSize
    BY <1>8
  <2> HIDE DEF c, d
  <2>4. c * BlockSize < d * BlockSize + BlockSize /\ d * BlockSize < c * BlockSize + BlockSize
    BY <1>1, <2>1, <2>2, <2>3, Sizes
  <2>5. c = d
    BY <2>1, <2>3, <2>4, Sizes, OneMultiple
  <2> QED  BY <2>3, <2>5 DEF c
<1>10. window.buffer_offset + AmountToCopy = size => At + BlocksToProcess * BlockSize = BlockEnd
  <2> DEFINE d == At \div BlockSize
  <2>1. d \in Nat /\ At = d * BlockSize
    BY <1>8
  <2> HIDE DEF d
  <2>2. (d + BlocksToProcess) * BlockSize = At + BlocksToProcess * BlockSize
        /\ d + BlocksToProcess \in Nat
    BY <1>5, <2>1, Sizes, Distribute
  <2>3. window.buffer_offset + AmountToCopy = size => At + n = First + size
    BY <1>1, <1>2, <1>3 DEF Windowed, n
  <2> DEFINE c == d + BlocksToProcess
  <2>4. ASSUME window.buffer_offset + AmountToCopy = size
        PROVE  First + size <= c * BlockSize /\ c * BlockSize < First + size + BlockSize
    BY <1>1, <1>4, <1>5, <2>2, <2>3, <2>4, Sizes, SMTT(60)
  <2> QED  BY <2>2, <2>4, LastBlock
<1>11. n = window.offset + AmountToCopy
  BY <1>2, <1>3 DEF n
<1> QED  BY <1>1, <1>2, <1>3, <1>5, <1>6, <1>7, <1>9, <1>10, <1>11

(* The bytes of the window after it has been read and encrypted.           *)
Room == WindowSize - window.offset
Filled == Copy(window.bytes, window.offset, Raw(window.current_sector, Room), 0, Room)
Decrypted == CtrBlocks(Filled, window.block_offset, BlockOf(window.current_sector), 1)
Updated == Copy(Decrypted, window.offset, Source, window.buffer_offset, AmountToCopy)
Reencrypted ==
  CtrBlocks(Updated, window.block_offset, BlockOf(window.current_sector), BlocksToProcess)

LEMMA FilledAt ==
  ASSUME Types, size > 0, Windowed
  PROVE  /\ IsBuffer(Filled, WindowSize)
         /\ \A i \in 0 .. WindowSize - 1 :
              /\ IsByte(Filled[i])
              /\ i < window.offset => At + i \in Addresses /\ Filled[i] = disk[At + i]
              /\ window.offset <= i /\ Misaligned = 0 /\ At + i \in Addresses
                   => Filled[i] = disk[At + i]
<1>1. /\ At \in Nat /\ window.offset \in 0 .. BlockSize - 1 /\ WindowSize \in Nat
      /\ At + window.offset = First + window.buffer_offset
      /\ window.buffer_offset \in 0 .. size - 1
      /\ First \in Nat /\ size \in Nat /\ First + size <= DiskSize
      /\ window.offset + AmountToCopy <= WindowSize
      /\ AmountToCopy \in 1 .. size - window.buffer_offset
      /\ Misaligned \in Nat
  BY Geometry, LastBlock, Sizes DEF Windowed
<1>2. Room \in Nat /\ window.offset + Room = WindowSize
  <2> DEFINE o == window.offset
  <2>1. o \in Nat /\ o <= WindowSize /\ WindowSize \in Nat /\ Room = WindowSize - o
    <3>1. AmountToCopy \in Nat /\ o \in Nat /\ o + AmountToCopy <= WindowSize
      BY <1>1
    <3> HIDE DEF o
    <3> QED  BY <1>1, <3>1 DEF Room, o
  <2> HIDE DEF o
  <2>2. Room \in Nat /\ o + Room = WindowSize
    BY <2>1
  <2> QED  BY <2>2 DEF o
<1> DEFINE raw == Raw(window.current_sector, Room)
<1>3. \A j \in 0 .. Room - 1 :
        raw[j] = IF At + Misaligned + j \in Addresses THEN disk[At + Misaligned + j] ELSE Junk
  BY DEF Raw, Windowed
<1> HIDE DEF raw
<1>4. /\ IsBuffer(Filled, WindowSize)
      /\ \A i \in 0 .. WindowSize - 1 :
           Filled[i] = IF window.offset <= i /\ i < window.offset + Room
                       THEN raw[0 + i - window.offset] ELSE window.bytes[i]
  BY CopyAt DEF Filled, Windowed, raw
<1>5. ASSUME NEW i \in 0 .. WindowSize - 1, i < window.offset
      PROVE  At + i \in Addresses /\ Filled[i] = disk[At + i] /\ IsByte(Filled[i])
  <2>1. At + i \in Addresses
    <3>1. DiskSize \in Nat /\ Addresses = 0 .. DiskSize - 1
      BY Sizes
    <3>2. window.offset \in Nat /\ i \in Nat
      BY <1>1
    <3> DEFINE o == window.offset
               bo == window.buffer_offset
               t == At
    <3>3. t \in Nat /\ o \in Nat /\ t + o = First + bo /\ bo \in 0 .. size - 1 /\ i < o
      BY <1>1, <1>5, <3>2
    <3> HIDE DEF o, bo, t
    <3>4. t + i \in 0 .. DiskSize - 1
      BY <1>1, <3>1, <3>2, <3>3
    <3> QED  BY <3>1, <3>4 DEF t
  <2>2. Filled[i] = window.bytes[i] /\ window.bytes[i] = disk[At + i]
    <3>1. i \in 0 .. window.offset - 1
      <4> DEFINE o == window.offset
      <4>1. o \in 0 .. BlockSize - 1 /\ i < o /\ WindowSize \in Nat /\ BlockSize \in Nat
        BY <1>1, <1>5, Sizes
      <4> HIDE DEF o
      <4>2. i \in 0 .. o - 1
        BY <4>1
      <4> QED  BY <4>2 DEF o
    <3>2. ~ (window.offset <= i)
      BY <1>1, <1>5
    <3> QED  BY <1>4, <3>1, <3>2 DEF Windowed
  <2> QED  BY <2>1, <2>2 DEF Types
<1>6. ASSUME NEW i \in 0 .. WindowSize - 1, window.offset <= i
      PROVE  /\ IsByte(Filled[i])
             /\ Misaligned = 0 /\ At + i \in Addresses => Filled[i] = disk[At + i]
  <2> DEFINE j == i - window.offset
  <2>1. j \in 0 .. Room - 1 /\ 0 + i - window.offset = j
    <3> DEFINE o == window.offset
    <3>1. /\ o \in 0 .. BlockSize - 1 /\ Room \in Nat /\ o + Room = WindowSize
          /\ o <= i /\ BlockSize \in Nat /\ WindowSize \in Nat
      BY <1>1, <1>2, <1>6, Sizes
    <3> HIDE DEF o
    <3>2. i - o \in 0 .. Room - 1 /\ 0 + i - o = i - o
      BY <3>1
    <3> QED  BY <3>2 DEF o
  <2>2. Filled[i] = raw[j]
    BY <1>1, <1>2, <1>4, <1>6, <2>1
  <2>3. IsByte(raw[j])
    BY <1>3, <2>1 DEF Types, IsByte, Junk
  <2>4. Misaligned = 0 => window.offset = 0
    BY DEF Windowed
  <2>5. Misaligned = 0 => At + Misaligned + j = At + i
    BY <1>1, <2>4, Sizes
  <2> HIDE DEF j
  <2> QED  BY <1>3, <2>1, <2>2, <2>3, <2>5
<1>7. \A i \in 0 .. WindowSize - 1 : i < window.offset \/ window.offset <= i
  <2>1. WindowSize \in Nat /\ window.offset \in Int
    BY <1>1
  <2> HIDE <1>1
  <2> QED  BY <2>1
<1> QED  BY <1>4, <1>5, <1>6, <1>7

LEMMA SourceByte ==
  ASSUME size \in Nat, NEW j \in 0 .. size - 1
  PROVE  IsByte(Source[j])
BY DEF Source, IsByte

LEMMA ReencryptedAt ==
  ASSUME Types, size > 0, Windowed
  PROVE  /\ IsBuffer(Reencrypted, WindowSize)
         /\ \A i \in 0 .. WindowSize - 1 : IsByte(Reencrypted[i])
         /\ \A a \in Addresses : At <= a /\ a < At + Whole * SectorSize =>
              /\ a < First + window.buffer_offset => Reencrypted[a - At] = disk[a]
              /\ First + window.buffer_offset <= a
                   /\ a < First + window.buffer_offset + AmountToCopy
                   => Reencrypted[a - At] = Xor(NewPlain(a), a)
              /\ a >= BlockEnd => Reencrypted[a - At] = disk[a]
<1> DEFINE o == window.offset
           bo == window.buffer_offset
           n == AmountToCopy
           t == BlocksToProcess * BlockSize
           w == Whole * SectorSize
           c == BlockOf(window.current_sector) * BlockSize
<1>1. /\ At \in Nat /\ o \in 0 .. BlockSize - 1 /\ WindowSize \in Nat
      /\ At + o = First + bo /\ bo \in 0 .. size - 1
      /\ First \in Nat /\ size \in Nat /\ First + size <= DiskSize
      /\ n \in 1 .. size - bo /\ o + n <= WindowSize
      /\ Misaligned \in Nat /\ window.block_offset = 0
      /\ c = At /\ t \in Nat /\ w \in Nat /\ BlockSize <= t /\ o + n <= t /\ t <= w
      /\ w <= WindowSize /\ BlockEnd \in Nat /\ First + size <= BlockEnd
      /\ (o + n = WindowSize \/ bo + n = size)
      /\ (bo + n = size => At + t = BlockEnd)
      /\ (SectorSize = 1 => w = t) /\ (SectorSize = 1 \/ Misaligned = 0)
      /\ 1 * BlockSize = BlockSize /\ BlockSize \in Nat
      /\ (Misaligned = 0 => o = 0)
  <2>1. Misaligned = 0 => window.offset = 0
    BY DEF Windowed
  <2>2. /\ window.buffer_offset \in 0 .. size - 1 /\ window.block_offset = 0
        /\ At + window.offset = First + window.buffer_offset
    BY DEF Windowed
  <2> QED  BY <2>1, <2>2, Geometry, LastBlock, Sizes
<1>2. /\ IsBuffer(Decrypted, WindowSize)
      /\ \A i \in 0 .. WindowSize - 1 :
           Decrypted[i] = IF 0 <= i /\ i < 0 + 1 * BlockSize
                          THEN Xor(Filled[i], c + i - 0) ELSE Filled[i]
  BY <1>1, FilledAt, CtrAt DEF Decrypted
<1>3. /\ IsBuffer(Updated, WindowSize)
      /\ \A i \in 0 .. WindowSize - 1 :
           Updated[i] = IF o <= i /\ i < o + n THEN Source[bo + i - o] ELSE Decrypted[i]
  BY <1>2, CopyAt DEF Updated
<1>4. /\ IsBuffer(Reencrypted, WindowSize)
      /\ \A i \in 0 .. WindowSize - 1 :
           Reencrypted[i] = IF 0 <= i /\ i < 0 + t THEN Xor(Updated[i], c + i - 0) ELSE Updated[i]
  BY <1>1, <1>3, CtrAt DEF Reencrypted
<1> HIDE DEF o, bo, n, t, w, c
<1>5. ASSUME NEW i \in 0 .. WindowSize - 1
      PROVE  /\ IsByte(Decrypted[i]) /\ IsByte(Updated[i]) /\ IsByte(Reencrypted[i])
             /\ i < BlockSize => Decrypted[i] = Xor(Filled[i], At + i)
             /\ i >= BlockSize => Decrypted[i] = Filled[i]
             /\ i < t => Reencrypted[i] = Xor(Updated[i], At + i)
             /\ i >= t => Reencrypted[i] = Updated[i]
  <2>1. IsByte(Filled[i]) /\ c + i - 0 = At + i
    BY <1>1, FilledAt
  <2>2. /\ i < BlockSize => Decrypted[i] = Xor(Filled[i], At + i)
        /\ i >= BlockSize => Decrypted[i] = Filled[i]
    BY <1>1, <1>2, <2>1
  <2>3. IsByte(Decrypted[i])
    BY <1>1, <2>1, <2>2, XorTwice
  <2>4. IsByte(Updated[i])
    <3>1. CASE o <= i /\ i < o + n
      <4>1. bo + i - o \in 0 .. size - 1
        BY <1>1, <3>1
      <4> QED  BY <1>1, <1>3, <3>1, <4>1, SourceByte
    <3> QED  BY <1>3, <2>3, <3>1
  <2>5. /\ i < t => Reencrypted[i] = Xor(Updated[i], At + i)
        /\ i >= t => Reencrypted[i] = Updated[i]
    BY <1>1, <1>4, <2>1
  <2> QED  BY <1>1, <2>2, <2>3, <2>4, <2>5, XorTwice
<1>6. ASSUME NEW a \in Addresses, At <= a, a < At + w
      PROVE  /\ a < First + bo => Reencrypted[a - At] = disk[a]
             /\ First + bo <= a /\ a < First + bo + n
                  => Reencrypted[a - At] = Xor(NewPlain(a), a)
             /\ a >= BlockEnd => Reencrypted[a - At] = disk[a]
  <2> DEFINE i == a - At
  <2>1. i \in 0 .. WindowSize - 1 /\ At + i = a /\ a \in Nat /\ i < w
    BY <1>1, <1>6, Sizes
  <2> HIDE DEF i
  <2>2. CASE a < First + bo
    <3>1. i < o /\ i < t /\ i < BlockSize
      BY <1>1, <2>1, <2>2
    <3>2. Filled[i] = disk[a] /\ IsByte(disk[a])
      BY <2>1, <3>1, FilledAt DEF Types, o
    <3>3. Updated[i] = Xor(disk[a], a)
      BY <1>1, <1>3, <1>5, <2>1, <3>1, <3>2
    <3>4. Reencrypted[i] = Xor(Xor(disk[a], a), a)
      BY <1>5, <2>1, <3>1, <3>3
    <3>5. Reencrypted[i] = disk[a]
      BY <3>2, <3>4, XorTwice
    <3>6. ~ (a >= BlockEnd) /\ ~ (First + bo <= a)
      BY <1>1, <2>1, <2>2
    <3> QED  BY <3>5, <3>6 DEF i
  <2>3. CASE First + bo <= a /\ a < First + bo + n
    <3>1. o <= i /\ i < o + n /\ i < t /\ bo + i - o = a - First
      BY <1>1, <2>1, <2>3
    <3>2. Updated[i] = NewPlain(a)
      BY <1>3, <2>1, <3>1 DEF NewPlain
    <3>3. Reencrypted[i] = Xor(NewPlain(a), a)
      BY <1>5, <2>1, <3>1, <3>2
    <3>4. ~ (a >= BlockEnd) /\ ~ (a < First + bo)
      BY <1>1, <2>1, <2>3
    <3> QED  BY <3>3, <3>4 DEF i
  <2>4. CASE First + bo + n <= a
    <3>1. ASSUME a >= BlockEnd PROVE Reencrypted[i] = disk[a]
      <4>1. i >= o + n /\ i >= t
        BY <1>1, <2>1, <2>4, <3>1
      <4>2. SectorSize # 1
        BY <1>1, <2>1, <4>1
      <4>3. Misaligned = 0 /\ o = 0
        BY <1>1, <4>2
      <4>4. Filled[i] = disk[a]
        BY <1>1, <1>6, <2>1, <4>3, FilledAt DEF o
      <4>5. Updated[i] = Filled[i]
        BY <1>1, <1>3, <1>5, <2>1, <4>1
      <4> QED  BY <1>5, <2>1, <4>1, <4>4, <4>5
    <3>2. ~ (a < First + bo) /\ ~ (a < First + bo + n)
      BY <1>1, <2>1, <2>4
    <3> QED  BY <3>1, <3>2 DEF i
  <2> QED  BY <1>1, <2>1, <2>2, <2>3, <2>4
<1> QED  BY <1>4, <1>5, <1>6 DEF o, bo, n, t, w, c

(* A step that does not change the device, nor the call.                   *)
LEMMA Quiet ==
  ASSUME Types, Writes, call = "write", UNCHANGED << disk, callVars >>,
         pc' \in WindowSteps \cup {"setup"} \/ (pc' = "idle" /\ result' = "error")
  PROVE  /\ RangeOldOrNew' /\ NoDamageBeyondLastBlock' /\ FullSectorsStored'
         /\ (size > 0 => Types') /\ Reads'
<1>1. /\ disk' = disk /\ call' = call /\ sector' = sector /\ size' = size
      /\ before' = before /\ writes' = writes
  BY DEF callVars
<1>2. RangeOldOrNew' /\ NoDamageBeyondLastBlock'
  BY <1>1 DEF Writes, RangeOldOrNew, NoDamageBeyondLastBlock, First, Plain, NewPlain, Source,
              BlockEnd
<1>3. FullSectorsStored'
  BY DEF FullSectorsStored, Returned, WindowSteps
<1>4. size > 0 => Types'
  BY <1>1 DEF Types, WindowSteps, First, IsBuffer, IsByte
<1>5. Reads'
  BY <1>1 DEF Reads, ReadsPlaintext, WindowSteps
<1> QED  BY <1>2, <1>3, <1>4, <1>5

LEMMA ReadsWindow ==
  ASSUME Types, Writes, size > 0, WindowRead
  PROVE  Types' /\ Reads' /\ Writes'
<1>1. /\ pc = "window_read" /\ call = "write" /\ UNCHANGED << disk, callVars >>
      /\ Windowed /\ Stored
  BY DEF Types, Writes, WindowRead, WindowSteps, ReadSteps
<1>2. CASE LowerFails
  <2>1. pc' = "idle" /\ result' = "error"
    BY <1>2 DEF LowerFails, Finish
  <2> QED  BY <1>1, <2>1, Quiet DEF Writes, WindowSteps
<1> DEFINE behind == CEIL(window.offset - window.block_offset, BlockSize)
           new == [window EXCEPT !.bytes = Reencrypted]
<1>3. (IF behind = 0 THEN 1 ELSE behind) = 1
  <2>1. window.offset \in 0 .. BlockSize - 1 /\ window.offset - window.block_offset = window.offset
    BY <1>1, Geometry, Sizes DEF Windowed
  <2> DEFINE x == window.offset
  <2>2. /\ CEIL(x, BlockSize) \in Nat /\ CEIL(x, BlockSize) * BlockSize < x + BlockSize
        /\ CEIL(x, BlockSize) * BlockSize \in Nat
    BY <2>1, Sizes, CeilIs
  <2>3. CASE CEIL(x, BlockSize) >= 2
    <3>1. 2 * BlockSize <= CEIL(x, BlockSize) * BlockSize
      BY <2>2, <2>3, Sizes, Monotone
    <3> QED  BY <2>1, <2>2, <3>1, Sizes
  <2> QED  BY <2>1, <2>2, <2>3
<1>4. CASE window' = new /\ pc' = "window_write"
  <2>1. window' = [bytes |-> Reencrypted, offset |-> window.offset, sector |-> window.sector,
                   block_offset |-> window.block_offset,
                   current_sector |-> window.current_sector,
                   buffer_offset |-> window.buffer_offset]
    BY <1>1, <1>4 DEF Windowed
  <2>2. /\ window.offset' = window.offset /\ window.sector' = window.sector
        /\ window.block_offset' = window.block_offset /\ window.bytes' = Reencrypted
        /\ window.current_sector' = window.current_sector
        /\ window.buffer_offset' = window.buffer_offset
    BY <2>1
  <2>3. /\ disk' = disk /\ call' = call /\ sector' = sector /\ size' = size
        /\ before' = before /\ writes' = writes
        /\ First' = First /\ Misaligned' = Misaligned /\ At' = At /\ BlockEnd' = BlockEnd
        /\ AmountToCopy' = AmountToCopy /\ BlocksToProcess' = BlocksToProcess
        /\ Whole' = Whole /\ Source' = Source
    BY <1>1, <2>2 DEF callVars, First, Misaligned, At, BlockEnd, AmountToCopy, BlocksToProcess,
                      Whole, Source
  <2>4. Types' /\ Reads' /\ RangeOldOrNew' /\ NoDamageBeyondLastBlock' /\ FullSectorsStored'
    BY <1>1, <1>4, Quiet DEF WindowSteps
  <2>5. \A i \in 0 .. window.offset - 1 : Reencrypted[i] = disk[At + i]
    <3>1. ASSUME NEW i \in 0 .. window.offset - 1 PROVE Reencrypted[i] = disk[At + i]
      <4>1. /\ At + i \in Addresses /\ At <= At + i /\ At + i < At + Whole * SectorSize
            /\ At + i < First + window.buffer_offset /\ (At + i) - At = i
        <5> DEFINE o == window.offset
                   bo == window.buffer_offset
                   t == At
                   w == Whole * SectorSize
                   u == BlocksToProcess * BlockSize
        <5>1. /\ t \in Nat /\ o \in 0 .. BlockSize - 1 /\ t + o = First + bo /\ w \in Nat
              /\ u <= w /\ o + AmountToCopy <= u /\ AmountToCopy \in 1 .. size - bo /\ u \in Nat
              /\ WindowSize \in Nat
          BY <1>1, Geometry DEF Windowed
        <5>2. /\ bo \in 0 .. size - 1 /\ i \in 0 .. o - 1
              /\ First \in Nat /\ size \in Nat /\ First + size <= DiskSize
          BY <1>1, LastBlock DEF Windowed
        <5>3. Addresses = 0 .. DiskSize - 1 /\ DiskSize \in Nat /\ BlockSize \in Nat
          BY Sizes
        <5> HIDE DEF o, bo, t, w, u
        <5>4. /\ t + i \in Addresses /\ t <= t + i /\ t + i < t + w
              /\ t + i < First + bo /\ (t + i) - t = i
          BY <5>1, <5>2, <5>3
        <5> QED  BY <5>4 DEF t, bo, w
      <4> QED  BY <1>1, <4>1, ReencryptedAt
    <3> QED  BY <3>1
  <2>6. Windowed'
    <3>1. IsBuffer(Reencrypted, WindowSize)
      BY <1>1, ReencryptedAt
    <3>2. IsBuffer(window.bytes, WindowSize)'
      BY <2>2, <3>1 DEF IsBuffer, WindowSize, Lcm, SectorsPerBlock
    <3> QED  BY <1>1, <2>1, <2>2, <2>3, <2>5, <3>2 DEF Windowed, Position
  <2>7. Stored'
    BY <1>1, <2>2, <2>3 DEF Stored, Plain, NewPlain
  <2>8. Encrypted'
    <3>1. /\ \A i \in 0 .. WindowSize - 1 : IsByte(Reencrypted[i])
          /\ \A a \in Addresses : At <= a /\ a < At + Whole * SectorSize =>
              /\ a < First + window.buffer_offset => Reencrypted[a - At] = disk[a]
              /\ First + window.buffer_offset <= a
                   /\ a < First + window.buffer_offset + AmountToCopy
                   => Reencrypted[a - At] = Xor(NewPlain(a), a)
              /\ a >= BlockEnd => Reencrypted[a - At] = disk[a]
      BY <1>1, ReencryptedAt
    <3>2. /\ \A i \in 0 .. WindowSize - 1 : IsByte(window.bytes'[i])
          /\ \A a \in Addresses : NewPlain(a)' = NewPlain(a)
      BY <2>2, <2>3, <3>1 DEF NewPlain
    <3> QED  BY <2>2, <2>3, <3>1, <3>2 DEF Encrypted, IsByte
  <2> QED  BY <1>4, <2>4, <2>6, <2>7, <2>8 DEF Writes
<1>5. WindowRead => LowerFails \/ (window' = new /\ pc' = "window_write")
  BY <1>3 DEF WindowRead, Filled, Decrypted, Updated, Reencrypted, Room
<1> QED  BY <1>2, <1>4, <1>5

LEMMA SetsUp ==
  ASSUME Types, Writes, size > 0, SetupWindow
  PROVE  Types' /\ Reads' /\ Writes'
<1>1. /\ pc = "setup" /\ pc' = "window_read" /\ call = "write" /\ UNCHANGED << disk, callVars >>
      /\ disk = before
  BY DEF Types, Writes, SetupWindow, ReadSteps
<1> DEFINE p == PriorSectors(sector)
           first == sector - p
           b == BlockOf(sector) * BlockSize
           raw == Raw(first, p * SectorSize)
           blank == [i \in 0 .. WindowSize - 1 |-> Junk]
           bytes == Copy(blank, 0, raw, 0, p * SectorSize)
<1>2. /\ First \in Nat /\ size \in Nat /\ First + size <= DiskSize /\ sector \in Nat
      /\ First = b + Misaligned /\ b \in Nat /\ BlockOf(sector) \in Nat
      /\ Misaligned \in 0 .. BlockSize - 1 /\ p \in Nat /\ p * SectorSize = Misaligned
  BY LastBlock, Alignment DEF First, Misaligned
<1>3. first \in Nat /\ Position(first) = b
  <2>1. p <= sector
    <3>1. CASE SectorSize = 1
      BY <1>2, <3>1, Sizes DEF First, Position
    <3>2. CASE SectorSize # 1
      <4>1. Misaligned = 0
        BY <1>2, <3>2, Alignment DEF Misaligned, First
      <4>2. CASE p >= 1
        <5>1. 1 * SectorSize <= p * SectorSize
          BY <1>2, <4>2, Sizes, Monotone
        <5> QED  BY <1>2, <4>1, <5>1, Sizes
      <4> QED  BY <1>2, <4>2
    <3> QED  BY <3>1, <3>2
  <2>2. first \in Nat /\ sector = first + p
    BY <1>2, <2>1
  <2>3. p \in Nat
    BY <1>2
  <2> HIDE DEF first, p
  <2>4. (first + p) * SectorSize = first * SectorSize + p * SectorSize
        /\ first * SectorSize \in Nat
    BY <2>2, <2>3, Sizes, Distribute
  <2>5. sector * SectorSize = first * SectorSize + Misaligned
    BY <1>2, <2>2, <2>4 DEF p
  <2> DEFINE f == first * SectorSize
  <2>6. f \in Nat /\ sector * SectorSize = f + Misaligned
    BY <2>4, <2>5
  <2>7. sector * SectorSize = b + Misaligned /\ b \in Nat /\ Misaligned \in Nat
    BY <1>2, Sizes DEF First, Position
  <2> HIDE DEF b, f
  <2>8. f = b
    BY <2>6, <2>7
  <2> QED  BY <2>2, <2>8 DEF f, Position
<1>4. b % BlockSize = 0
  <2>1. BlockOf(sector) * BlockSize + 0 = b
    BY <1>2
  <2>2. (BlockOf(sector) * BlockSize + 0) % BlockSize = 0
    <3>1. BlockOf(sector) \in Nat /\ BlockSize \in Nat \ {0} /\ 0 \in 0 .. BlockSize - 1
      BY <1>2, Sizes
    <3> QED  BY <3>1, Remainder
  <2> QED  BY <2>1, <2>2
<1>5. /\ window.bytes' = bytes /\ window.offset' = Misaligned /\ window.sector' = first
      /\ window.block_offset' = 0 /\ window.current_sector' = sector
      /\ window.buffer_offset' = 0
      /\ window' = [bytes |-> bytes, offset |-> Misaligned, sector |-> first,
                    block_offset |-> 0, current_sector |-> sector, buffer_offset |-> 0]
  <2>1. window' = [bytes |-> bytes, offset |-> p * SectorSize, sector |-> first,
                   block_offset |-> b - Position(first), current_sector |-> sector,
                   buffer_offset |-> 0]
    BY DEF SetupWindow
  <2>2. b - Position(first) = 0
    BY <1>2, <1>3
  <2>3. window' = [bytes |-> bytes, offset |-> Misaligned, sector |-> first,
                   block_offset |-> 0, current_sector |-> sector, buffer_offset |-> 0]
    BY <1>2, <2>1, <2>2
  <2> QED  BY <2>3
<1>6. /\ IsBuffer(bytes, WindowSize)
      /\ \A i \in 0 .. Misaligned - 1 : bytes[i] = disk[b + i]
  <2>1. IsBuffer(blank, WindowSize)
    BY DEF IsBuffer
  <2>2. \A i \in 0 .. Misaligned - 1 : raw[i] = disk[b + i]
    <3>1. \A i \in 0 .. Misaligned - 1 : b + i \in Addresses
      <4>1. /\ First = b + Misaligned /\ b \in Nat /\ Misaligned \in Nat /\ size \in Nat
            /\ First \in Nat /\ First + size <= DiskSize
        BY <1>2, Sizes
      <4> HIDE DEF b
      <4> QED  BY <4>1, Sizes
    <3> QED  BY <1>2, <1>3, <3>1 DEF Raw
  <2> HIDE DEF blank, raw
  <2>3. /\ IsBuffer(bytes, WindowSize)
        /\ \A i \in 0 .. WindowSize - 1 :
             bytes[i] = IF 0 <= i /\ i < 0 + p * SectorSize THEN raw[0 + i - 0] ELSE blank[i]
    BY <2>1, CopyAt
  <2>4. ASSUME NEW i \in 0 .. Misaligned - 1 PROVE bytes[i] = disk[b + i]
    <3>1. i \in 0 .. WindowSize - 1 /\ 0 <= i /\ i < 0 + p * SectorSize /\ 0 + i - 0 = i
      <4> DEFINE m == p * SectorSize
      <4>1. m = Misaligned /\ Misaligned \in 0 .. BlockSize - 1 /\ BlockSize <= WindowSize
            /\ BlockSize \in Nat /\ WindowSize \in Nat
        BY <1>2, WindowSizes, Sizes
      <4> HIDE DEF m
      <4>2. i \in 0 .. WindowSize - 1 /\ 0 <= i /\ i < 0 + m /\ 0 + i - 0 = i
        BY <4>1
      <4> QED  BY <4>2 DEF m
    <3> QED  BY <2>2, <2>3, <3>1
  <2> QED  BY <2>3, <2>4
<1> HIDE DEF bytes, first, b, p
<1>7. /\ disk' = disk /\ call' = call /\ sector' = sector /\ size' = size
      /\ before' = before /\ writes' = writes
      /\ First' = First /\ Misaligned' = Misaligned /\ BlockEnd' = BlockEnd /\ Source' = Source
      /\ At' = b
  BY <1>1, <1>3, <1>5 DEF callVars, First, Misaligned, BlockEnd, Source, At, Position
<1>8. Types' /\ Reads' /\ RangeOldOrNew' /\ NoDamageBeyondLastBlock' /\ FullSectorsStored'
  BY <1>1, Quiet DEF WindowSteps
<1>9. Windowed'
  <2>1. IsBuffer(window.bytes, WindowSize)'
    BY <1>5, <1>6 DEF IsBuffer, WindowSize, Lcm, SectorsPerBlock
  <2>2. (Position(window.current_sector) = At + Misaligned)'
    BY <1>2, <1>5, <1>7 DEF Position, First
  <2>3. (At + window.offset = First + window.buffer_offset)'
    BY <1>2, <1>5, <1>7
  <2>4. (window.buffer_offset \in 0 .. size - 1)'
    BY <1>2, <1>5, <1>7
  <2>5. (\A i \in 0 .. window.offset - 1 : window.bytes[i] = disk[At + i])'
    BY <1>5, <1>6, <1>7
  <2> QED  BY <1>2, <1>3, <1>4, <1>5, <1>7, <2>1, <2>2, <2>3, <2>4, <2>5 DEF Windowed
<1>10. Stored'
  <2>1. \A a \in Addresses : a \in Nat
    BY Sizes
  <2> QED  BY <1>1, <1>2, <1>5, <1>7, <2>1 DEF Stored
<1> QED  BY <1>1, <1>8, <1>9, <1>10 DEF Writes

(* Some of the sectors of the window, or all of them, are written.         *)
LEMMA SectorsPut ==
  ASSUME Types, size > 0, Windowed, Stored, Encrypted, NEW k \in 0 .. Whole,
         disk' = Copy(disk, Position(window.sector), window.bytes, 0, k * SectorSize)
  PROVE  /\ IsBuffer(disk', DiskSize)
         /\ \A a \in Addresses :
              /\ IsByte(disk'[a])
              /\ a < First \/ a >= BlockEnd => disk'[a] = before[a]
              /\ First <= a /\ a < First + window.buffer_offset => Plain(disk', a) = NewPlain(a)
              /\ First + window.buffer_offset <= a
                   /\ a < First + window.buffer_offset + AmountToCopy
                   => Plain(disk', a) \in {Plain(before, a), NewPlain(a)}
              /\ First + window.buffer_offset <= a
                   /\ a < First + window.buffer_offset + AmountToCopy /\ k = Whole
                   => Plain(disk', a) = NewPlain(a)
              /\ First + window.buffer_offset + AmountToCopy <= a /\ a < First + size
                   => disk'[a] = before[a]
<1> DEFINE o == window.offset
           bo == window.buffer_offset
           n == AmountToCopy
           t == BlocksToProcess * BlockSize
           w == Whole * SectorSize
           v == k * SectorSize
           at == At
<1>1. /\ at \in Nat /\ o \in Nat /\ WindowSize \in Nat
      /\ at + o = First + bo /\ bo \in 0 .. size - 1
      /\ First \in Nat /\ size \in Nat /\ First + size <= DiskSize
      /\ n \in 1 .. size - bo
      /\ t \in Nat /\ w \in Nat /\ o + n <= t /\ t <= w
      /\ w <= WindowSize /\ BlockEnd \in Nat /\ First + size <= BlockEnd
      /\ (o + n = WindowSize \/ bo + n = size)
  <2>1. /\ window.buffer_offset \in 0 .. size - 1
        /\ At + window.offset = First + window.buffer_offset
    BY DEF Windowed
  <2>2. window.offset \in Nat
    BY Geometry, Sizes
  <2> QED  BY <2>1, <2>2, Geometry, LastBlock
<1>2. v \in Nat /\ v <= w /\ (k = Whole => v = w)
  <2>1. Whole \in Nat /\ k \in Nat /\ k <= Whole /\ SectorSize \in Nat
    BY Geometry, Sizes
  <2> QED  BY <2>1, Distribute, Monotone
<1>3. /\ IsBuffer(disk', DiskSize)
      /\ \A a \in 0 .. DiskSize - 1 :
           disk'[a] = IF at <= a /\ a < at + v THEN window.bytes[0 + a - at] ELSE disk[a]
  BY CopyAt DEF Types, At
<1> HIDE DEF o, bo, n, t, w, v, at
<1>4. ASSUME NEW a \in Addresses
      PROVE  /\ IsByte(disk'[a])
             /\ a < First \/ a >= BlockEnd => disk'[a] = before[a]
             /\ First <= a /\ a < First + bo => Plain(disk', a) = NewPlain(a)
             /\ First + bo <= a /\ a < First + bo + n
                  => Plain(disk', a) \in {Plain(before, a), NewPlain(a)}
             /\ First + bo <= a /\ a < First + bo + n /\ k = Whole
                  => Plain(disk', a) = NewPlain(a)
             /\ First + bo + n <= a /\ a < First + size => disk'[a] = before[a]
  <2>1. a \in Nat /\ a \in 0 .. DiskSize - 1
    BY Sizes
  <2>2. /\ a < First \/ a >= BlockEnd => disk[a] = before[a]
        /\ First <= a /\ a < First + bo => Plain(disk, a) = NewPlain(a)
        /\ First + bo <= a /\ a < First + size => disk[a] = before[a]
        /\ IsByte(disk[a])
    BY DEF Stored, Types, bo
  <2>3. First + bo <= a /\ a < First + bo + n => IsByte(NewPlain(a))
    <3>1. First + bo <= a /\ a < First + bo + n => a - First \in 0 .. size - 1
      BY <1>1, <2>1
    <3> QED  BY <1>1, <3>1, SourceByte DEF NewPlain
  <2>4. CASE at <= a /\ a < at + v
    <3>1. disk'[a] = window.bytes[a - at]
      <4>1. 0 + a - at = a - at
        BY <1>1, <2>1
      <4> QED  BY <1>3, <2>1, <2>4, <4>1
    <3>2. a < at + w /\ a - at \in 0 .. WindowSize - 1
      BY <1>1, <1>2, <2>1, <2>4
    <3>3. /\ IsByte(window.bytes[a - at])
          /\ a < First + bo => window.bytes[a - at] = disk[a]
          /\ First + bo <= a /\ a < First + bo + n
               => window.bytes[a - at] = Xor(NewPlain(a), a)
          /\ a >= BlockEnd => window.bytes[a - at] = disk[a]
      BY <2>4, <3>2 DEF Encrypted, at, bo, n, w
    <3>4. First + bo <= a /\ a < First + bo + n => Plain(disk', a) = NewPlain(a)
      BY <2>3, <3>1, <3>3, XorTwice DEF Plain
    <3>5. a < First + bo => Plain(disk', a) = Plain(disk, a)
      BY <3>1, <3>3 DEF Plain
    <3>6. ~ (First + bo + n <= a /\ a < First + size)
      BY <1>1, <1>2, <2>1, <2>4
    <3>7. (a < First => a < First + bo) /\ (a < First => disk'[a] = disk[a])
          /\ (a >= BlockEnd => disk'[a] = disk[a])
      BY <1>1, <2>1, <3>1, <3>3
    <3> QED  BY <2>2, <3>1, <3>3, <3>4, <3>5, <3>6, <3>7
  <2>5. CASE ~ (at <= a /\ a < at + v)
    <3>1. disk'[a] = disk[a] /\ Plain(disk', a) = Plain(disk, a)
      BY <1>3, <2>1, <2>5 DEF Plain
    <3>2. ~ (First + bo <= a /\ a < First + bo + n /\ k = Whole)
      BY <1>1, <1>2, <2>1, <2>5
    <3>3. First + bo <= a /\ a < First + bo + n => a < First + size
      BY <1>1, <2>1
    <3>4. First + bo + n <= a /\ a < First + size => First + bo <= a
      BY <1>1, <2>1
    <3> QED  BY <2>2, <3>1, <3>2, <3>3, <3>4 DEF Plain
  <2> QED  BY <2>4, <2>5
<1> QED  BY <1>3, <1>4 DEF bo, n

(* After some sectors of a window have been written.                       *)
LEMMA WindowPut ==
  ASSUME Types, size > 0, call = "write", Windowed, Stored, Encrypted, NEW k \in 0 .. Whole,
         disk' = Copy(disk, Position(window.sector), window.bytes, 0, k * SectorSize),
         UNCHANGED callVars,
         \/ pc' = "idle" /\ result' = "error"
         \/ /\ k = Whole
            /\ pc' = "window_read" \/ window.buffer_offset + AmountToCopy >= size
            /\ pc' \in {"idle", "window_read"}
  PROVE  /\ Types' /\ Reads'
         /\ RangeOldOrNew' /\ NoDamageBeyondLastBlock' /\ FullSectorsStored'
<1>1. /\ call' = call /\ sector' = sector /\ size' = size /\ before' = before /\ writes' = writes
      /\ First' = First /\ BlockEnd' = BlockEnd /\ Source' = Source
  BY DEF callVars, First, BlockEnd, Source
<1> DEFINE bo == window.buffer_offset
           n == AmountToCopy
<1>2. /\ IsBuffer(disk', DiskSize)
      /\ \A a \in Addresses :
           /\ IsByte(disk'[a])
           /\ a < First \/ a >= BlockEnd => disk'[a] = before[a]
           /\ First <= a /\ a < First + bo => Plain(disk', a) = NewPlain(a)
           /\ First + bo <= a /\ a < First + bo + n
                => Plain(disk', a) \in {Plain(before, a), NewPlain(a)}
           /\ First + bo <= a /\ a < First + bo + n /\ k = Whole
                => Plain(disk', a) = NewPlain(a)
           /\ First + bo + n <= a /\ a < First + size => disk'[a] = before[a]
  BY SectorsPut
<1>3. /\ First \in Nat /\ size \in Nat /\ First + size <= DiskSize
      /\ bo \in 0 .. size - 1 /\ n \in 1 .. size - bo
  BY Geometry, LastBlock DEF Windowed
<1> HIDE DEF bo, n
<1>4. Types'
  <2>1. IsBuffer(disk, DiskSize)' /\ (\A a \in Addresses : IsByte(disk[a]))'
    BY <1>2 DEF IsBuffer, IsByte, DiskSize, Addresses
  <2>2. IsBuffer(before, DiskSize)'
    BY <1>1 DEF Types, IsBuffer, DiskSize
  <2> QED  BY <1>1, <2>1, <2>2 DEF Types, WindowSteps, DiskSize
<1>5. Reads'
  BY <1>1 DEF Reads, ReadsPlaintext, WindowSteps
<1>6. RangeOldOrNew'
  <2>1. ASSUME NEW a \in First .. First + size - 1
        PROVE  Plain(disk', a) \in {Plain(before, a), NewPlain(a)}
    <3>1. a \in Addresses
      BY <1>3, Sizes
    <3>2. \/ First <= a /\ a < First + bo
          \/ First + bo <= a /\ a < First + bo + n
          \/ First + bo + n <= a /\ a < First + size
      BY <1>3
    <3> QED  BY <1>2, <3>1, <3>2 DEF Plain
  <2> QED  BY <1>1, <2>1 DEF RangeOldOrNew, Plain, NewPlain
<1>7. NoDamageBeyondLastBlock'
  BY <1>1, <1>2 DEF NoDamageBeyondLastBlock
<1>8. FullSectorsStored'
  <2>1. CASE pc' = "idle" /\ result' = "error"
    BY <2>1 DEF FullSectorsStored, Returned
  <2>2. CASE pc' = "window_read"
    BY <2>2 DEF FullSectorsStored, Returned
  <2>3. CASE k = Whole /\ bo + n >= size
    <3>1. (size \div SectorSize) * SectorSize \in Nat
          /\ (size \div SectorSize) * SectorSize <= size
      <4>1. /\ size = (size \div SectorSize) * SectorSize + (size % SectorSize)
            /\ size \div SectorSize \in Nat /\ size % SectorSize \in 0 .. SectorSize - 1
        BY <1>3, Sizes, DivMod
      <4> QED  BY <1>3, <4>1, Sizes, Distribute
    <3>2. ASSUME NEW a \in First .. First + (size \div SectorSize) * SectorSize - 1
          PROVE  Plain(disk', a) = NewPlain(a)
      <4> DEFINE m == (size \div SectorSize) * SectorSize
      <4>1. m \in Nat /\ m <= size /\ a \in First .. First + m - 1
        BY <3>1
      <4> HIDE DEF m
      <4>2. a \in Addresses
        BY <1>3, <4>1, Sizes
      <4>3. \/ First <= a /\ a < First + bo
            \/ First + bo <= a /\ a < First + bo + n
        BY <1>3, <2>3, <4>1
      <4> QED  BY <1>2, <2>3, <4>2, <4>3
    <3> QED  BY <1>1, <3>2 DEF FullSectorsStored, Plain, NewPlain
  <2> QED  BY <2>1, <2>2, <2>3 DEF bo, n
<1> QED  BY <1>4, <1>5, <1>6, <1>7, <1>8

LEMMA WritesWindow ==
  ASSUME Types, Writes, size > 0, WindowWrite
  PROVE  Types' /\ Reads' /\ Writes'
<1>1. /\ pc = "window_write" /\ call = "write" /\ UNCHANGED callVars
      /\ Windowed /\ Stored /\ Encrypted
  BY DEF Types, Writes, WindowWrite, WindowSteps, ReadSteps
<1> DEFINE Put(k) == disk' = Copy(disk, Position(window.sector), window.bytes, 0, k * SectorSize)
           last == window.buffer_offset + AmountToCopy >= size
<1>2. CASE LowerFails /\ \E k \in 0 .. Whole : Put(k)
  <2>1. pc' = "idle" /\ result' = "error"
    BY <1>2 DEF LowerFails, Finish
  <2>2. PICK k \in 0 .. Whole : Put(k)
    BY <1>2
  <2> QED  BY <1>1, <2>1, <2>2, WindowPut DEF Writes, WindowSteps
<1>3. Whole \in 0 .. Whole
  BY <1>1, Geometry
<1>4. CASE Put(Whole) /\ last /\ Finish("ok")
  <2>1. pc' = "idle"
    BY <1>4 DEF Finish
  <2> QED  BY <1>1, <1>3, <1>4, <2>1, WindowPut DEF Writes, WindowSteps
<1>5. CASE Put(Whole) /\ ~ last /\ UpdateWindow
  <2>1. pc' = "window_read"
    BY <1>5 DEF UpdateWindow
  <2>2. /\ Types' /\ Reads'
        /\ RangeOldOrNew' /\ NoDamageBeyondLastBlock' /\ FullSectorsStored'
    BY <1>1, <1>3, <1>5, <2>1, WindowPut
  <2>3. /\ \A a \in Addresses :
             /\ a < First \/ a >= BlockEnd => disk'[a] = before[a]
             /\ First <= a /\ a < First + window.buffer_offset => Plain(disk', a) = NewPlain(a)
             /\ First + window.buffer_offset <= a
                  /\ a < First + window.buffer_offset + AmountToCopy
                  => Plain(disk', a) = NewPlain(a)
             /\ First + window.buffer_offset + AmountToCopy <= a /\ a < First + size
                  => disk'[a] = before[a]
    BY <1>1, <1>3, <1>5, SectorsPut
  <2> DEFINE o == window.offset
             bo == window.buffer_offset
             n == AmountToCopy
             at == At
             processed == (n + o) \div SectorSize
             remaining == WindowSize - processed * SectorSize
  <2>4. /\ at \in Nat /\ o \in Nat /\ WindowSize \in Nat /\ First \in Nat /\ size \in Nat
        /\ at + o = First + bo /\ bo \in 0 .. size - 1 /\ n \in 1 .. size - bo
        /\ Misaligned \in Nat
    BY <1>1, Geometry, LastBlock, Sizes DEF Windowed
  <2>5. n + o = WindowSize /\ bo + n \in 0 .. size - 1 /\ bo + n # 0
    BY <1>1, <1>5, <2>4, Geometry
  <2>6. processed \in Nat /\ processed * SectorSize = WindowSize /\ remaining = 0
    <3>1. PICK p \in Nat : WindowSize = p * SectorSize
      BY WindowSizes
    <3>2. p = processed
      <4>1. /\ WindowSize = (WindowSize \div SectorSize) * SectorSize + (WindowSize % SectorSize)
            /\ WindowSize \div SectorSize \in Nat
            /\ WindowSize % SectorSize \in 0 .. SectorSize - 1
        BY <2>4, Sizes, DivMod
      <4> DEFINE q == WindowSize \div SectorSize
      <4>2. q \in Nat /\ q * SectorSize \in Nat /\ p * SectorSize < q * SectorSize + SectorSize
            /\ q * SectorSize < p * SectorSize + SectorSize
        BY <3>1, <4>1, Sizes, Distribute
      <4> HIDE DEF q
      <4>3. p = q
        BY <3>1, <4>2, Sizes, OneMultiple
      <4> QED  BY <2>5, <4>3 DEF q
    <3> QED  BY <2>4, <3>1, <3>2
  <2>7. 0 \div SectorSize = 0
    <3>1. 0 = (0 \div SectorSize) * SectorSize + (0 % SectorSize)
          /\ 0 \div SectorSize \in Nat /\ 0 % SectorSize \in 0 .. SectorSize - 1
      BY Sizes, DivMod
    <3> DEFINE q == 0 \div SectorSize
    <3>2. q \in Nat /\ q * SectorSize \in Nat /\ q * SectorSize < 0 * SectorSize + SectorSize
          /\ 0 * SectorSize < q * SectorSize + SectorSize
      BY <3>1, Sizes, Distribute
    <3> HIDE DEF q
    <3>3. q = 0
      BY <3>2, Sizes, OneMultiple
    <3> QED  BY <3>3 DEF q
  <2> DEFINE bytes == Copy(window.bytes, 0, window.bytes, window.offset, remaining)
  <2>8. IsBuffer(bytes, WindowSize)
    BY <1>1, CopyAt DEF Windowed
  <2>9. /\ window.bytes' = bytes /\ window.offset' = 0
        /\ window.sector' = window.sector + processed
        /\ window.block_offset' = 0
        /\ window.current_sector' = window.current_sector + processed
        /\ window.buffer_offset' = bo + n
        /\ window' = [bytes |-> bytes, offset |-> 0, sector |-> window.sector + processed,
                      block_offset |-> 0,
                      current_sector |-> window.current_sector + processed,
                      buffer_offset |-> bo + n]
    <3>1. window' = [bytes |-> bytes, offset |-> remaining,
                     sector |-> window.sector + processed - remaining \div SectorSize,
                     block_offset |-> remaining,
                     current_sector |-> window.current_sector + processed,
                     buffer_offset |-> bo + n]
      BY <1>5 DEF UpdateWindow
    <3>2. window.sector + processed - remaining \div SectorSize = window.sector + processed
      BY <1>1, <2>6, <2>7 DEF Windowed
    <3>3. window' = [bytes |-> bytes, offset |-> 0, sector |-> window.sector + processed,
                     block_offset |-> 0,
                     current_sector |-> window.current_sector + processed,
                     buffer_offset |-> bo + n]
      BY <2>6, <3>1, <3>2
    <3> QED  BY <3>3
  <2> HIDE DEF bytes, processed
  <2>10. /\ call' = call /\ sector' = sector /\ size' = size /\ before' = before
         /\ writes' = writes /\ First' = First /\ Misaligned' = Misaligned
         /\ BlockEnd' = BlockEnd /\ Source' = Source
    BY <1>1 DEF callVars, First, Misaligned, BlockEnd, Source
  <2>11. At' = at + WindowSize
         /\ Position(window.current_sector)' = Position(window.current_sector) + WindowSize
    <3>1. /\ (window.sector + processed) * SectorSize
               = window.sector * SectorSize + processed * SectorSize
          /\ (window.current_sector + processed) * SectorSize
               = window.current_sector * SectorSize + processed * SectorSize
      BY <1>1, <2>6, Sizes, Distribute DEF Windowed
    <3> QED  BY <2>6, <2>9, <3>1 DEF At, Position
  <2>12. (at + WindowSize) % BlockSize = 0
    <3>1. PICK p \in Nat : WindowSize = p * BlockSize
      BY WindowSizes
    <3> DEFINE q == at \div BlockSize
               u == q * BlockSize
    <3>2. q \in Nat /\ at = u
      <4>1. at % BlockSize = 0 /\ at = (at \div BlockSize) * BlockSize + (at % BlockSize)
            /\ at \div BlockSize \in Nat
        BY <1>1, <2>4, Sizes, DivMod DEF Windowed
      <4>2. u \in Nat
        BY <4>1, Sizes, Distribute
      <4> HIDE DEF at
      <4> QED  BY <4>1, <4>2
    <3> HIDE DEF q, at
    <3>3. (q + p) * BlockSize = at + WindowSize /\ q + p \in Nat
      BY <3>1, <3>2, Sizes, Distribute
    <3>4. at + WindowSize = (q + p) * BlockSize + 0
      BY <2>4, <3>3
    <3> QED  BY <3>3, <3>4, Sizes, Remainder
  <2>13. Windowed'
    <3>1. IsBuffer(window.bytes, WindowSize)'
      BY <2>8, <2>9 DEF IsBuffer, WindowSize, Lcm, SectorsPerBlock
    <3>2. (Position(window.current_sector) = At + Misaligned)'
      <4>1. Position(window.current_sector) = at + Misaligned
        BY <1>1 DEF Windowed
      <4>2. at + Misaligned + WindowSize = at + WindowSize + Misaligned
        BY <2>4
      <4> QED  BY <2>10, <2>11, <4>1, <4>2
    <3>3. (At + window.offset = First + window.buffer_offset)'
      <4>1. at + WindowSize + 0 = First + (bo + n)
        BY <2>4, <2>5
      <4> QED  BY <2>9, <2>10, <2>11, <4>1
    <3>4. (window.buffer_offset \in 0 .. size - 1)' /\ (window.buffer_offset # 0)'
      BY <2>5, <2>9, <2>10
    <3>5. (window.sector \in Nat /\ window.current_sector \in Nat)'
      BY <1>1, <2>6, <2>9 DEF Windowed
    <3>6. (\A i \in 0 .. window.offset - 1 : window.bytes[i] = disk[At + i])'
      BY <2>9
    <3> QED  BY <2>9, <2>11, <2>12, <3>1, <3>2, <3>3, <3>4, <3>5, <3>6 DEF Windowed
  <2>14. Stored'
    <3> DEFINE bn == bo + n
    <3>1. ASSUME NEW a \in Addresses
          PROVE  /\ a < First \/ a >= BlockEnd => disk'[a] = before[a]
                 /\ First <= a /\ a < First + bn => Plain(disk', a) = NewPlain(a)
                 /\ First + bn <= a /\ a < First + size => disk'[a] = before[a]
      <4>1. a \in Nat
        BY Sizes
      <4>2. /\ First <= a /\ a < First + bn
                 => (First <= a /\ a < First + bo) \/ (First + bo <= a /\ a < First + bo + n)
            /\ First + bn <= a => First + bo + n <= a
        BY <2>4, <4>1
      <4> HIDE DEF bn
      <4> QED  BY <2>3, <4>2
    <3>2. window.buffer_offset' = bn
      BY <2>9
    <3> HIDE DEF bn
    <3> QED  BY <2>10, <3>1, <3>2 DEF Stored, Plain, NewPlain
  <2> QED  BY <2>1, <2>2, <2>13, <2>14 DEF Writes
<1> QED  BY <1>2, <1>4, <1>5 DEF WindowWrite, Whole

-----------------------------------------------------------------------------
(* Calls.                                                                  *)

LEMMA Asking ==
  ASSUME Types, Reads, Writes, NEW s \in 0 .. Sectors - 1, NEW capacity \in Nat, NEW count \in Nat,
         CallRead(s, capacity, count)
  PROVE  Types' /\ Reads' /\ Writes'
<1> DEFINE n == Min2(count, capacity \div SectorSize) * SectorSize
<1>1. /\ n \in 0 .. DiskSize - Position(s) /\ sector' = s /\ size' = n /\ call' = "read"
      /\ dest' = [i \in 0 .. n - 1 |-> Junk] /\ pc' = (IF n = 0 THEN "idle" ELSE "read_raw")
      /\ before' = disk /\ disk' = disk /\ buffer_size' = (IF n = 0 THEN 0 ELSE capacity)
  BY DEF CallRead
<1>7. n <= capacity
  <2> DEFINE whole == capacity \div SectorSize
             k == Min2(count, whole)
  <2>1. capacity = whole * SectorSize + (capacity % SectorSize)
        /\ whole \in Nat /\ capacity % SectorSize \in 0 .. SectorSize - 1
    BY Sizes, DivMod
  <2>2. k \in Nat /\ k <= whole
    BY <2>1 DEF Min2
  <2> HIDE DEF whole, k
  <2>3. k * SectorSize <= whole * SectorSize /\ k * SectorSize \in Nat
        /\ whole * SectorSize \in Nat
    BY <2>1, <2>2, Sizes, Monotone, Distribute
  <2>4. k * SectorSize <= capacity
    BY <2>1, <2>3, Sizes
  <2> QED  BY <2>4 DEF k, whole
<1> HIDE DEF n
<1>2. Position(s) \in Nat /\ DiskSize \in Nat
  BY Sizes, Alignment
<1>3. n \in Nat /\ Position(s) + n <= DiskSize
  BY <1>1, <1>2
<1>4. Types'
  <2>1. IsBuffer(dest, size)'
    BY <1>1 DEF IsBuffer
  <2>2. IsBuffer(disk, DiskSize)' /\ IsBuffer(before, DiskSize)'
        /\ (\A a \in Addresses : IsByte(disk[a]))'
    BY <1>1 DEF Types, IsBuffer, IsByte, DiskSize, Addresses
  <2>3. (sector \in 0 .. Sectors - 1 /\ size \in Nat /\ First + size <= DiskSize)'
    BY <1>1, <1>3 DEF First, Position, DiskSize
  <2>4. (pc # "idle" => size > 0)'
    BY <1>1, <1>3
  <2>5. pc' # "idle" => buffer_size' \in Nat /\ size' <= buffer_size'
    BY <1>1, <1>3, <1>7
  <2> QED  BY <1>1, <2>1, <2>2, <2>3, <2>4, <2>5 DEF Types, ReadSteps
<1>5. Reads'
  <2>1. ReadsPlaintext'
    BY <1>1 DEF ReadsPlaintext, Returned
  <2> QED  BY <1>1, <2>1 DEF Reads
<1>6. Writes'
  BY <1>1 DEF Writes, WindowSteps, RangeOldOrNew, NoDamageBeyondLastBlock, FullSectorsStored
<1> QED  BY <1>4, <1>5, <1>6

LEMMA Giving ==
  ASSUME Types, Reads, Writes, NEW s \in 0 .. Sectors - 1, NEW n, CallWrite(s, n)
  PROVE  Types' /\ Reads' /\ Writes'
<1>1. /\ n \in 0 .. DiskSize - Position(s) /\ sector' = s /\ size' = n /\ call' = "write"
      /\ pc' = (IF n < SectorSize THEN "idle" ELSE "setup")
      /\ before' = disk /\ disk' = disk
  BY DEF CallWrite
<1>2. Position(s) \in Nat /\ DiskSize \in Nat
  BY Sizes, Alignment
<1>3. n \in Nat /\ Position(s) + n <= DiskSize
  BY <1>1, <1>2
<1>4. Types'
  <2>1. IsBuffer(disk, DiskSize)' /\ IsBuffer(before, DiskSize)'
        /\ (\A a \in Addresses : IsByte(disk[a]))'
    BY <1>1 DEF Types, IsBuffer, IsByte, DiskSize, Addresses
  <2>2. (sector \in 0 .. Sectors - 1 /\ size \in Nat /\ First + size <= DiskSize)'
    BY <1>1, <1>3 DEF First, Position, DiskSize
  <2>3. (pc # "idle" => size > 0)'
    BY <1>1, <1>3, Sizes
  <2> QED  BY <1>1, <2>1, <2>2, <2>3 DEF Types
<1>5. Reads'
  BY <1>1 DEF Reads, ReadsPlaintext
<1>6. RangeOldOrNew' /\ NoDamageBeyondLastBlock'
  BY <1>1 DEF RangeOldOrNew, NoDamageBeyondLastBlock, Plain
<1>7. FullSectorsStored'
  <2>1. CASE n < SectorSize
    <3>1. n = (n \div SectorSize) * SectorSize + (n % SectorSize)
          /\ n \div SectorSize \in Nat /\ n % SectorSize \in 0 .. SectorSize - 1
      BY <1>3, Sizes, DivMod
    <3> DEFINE q == n \div SectorSize
               t == q * SectorSize
    <3>2. q \in Nat /\ t < SectorSize /\ t \in Nat
      BY <1>3, <2>1, <3>1, Sizes, Distribute
    <3>3. ASSUME q >= 1 PROVE FALSE
      <4>1. 1 * SectorSize <= q * SectorSize
        BY <3>2, <3>3, Sizes, Monotone
      <4> QED  BY <3>2, <4>1, Sizes
    <3>4. q = 0
      <4>1. q \in Nat /\ ~ (q >= 1)
        BY <3>2, <3>3
      <4> HIDE DEF q, t
      <4> QED  BY <4>1
    <3>5. t = 0
      BY <3>4, Sizes
    <3>6. First' \in Nat /\ ((size \div SectorSize) * SectorSize)' = 0
      BY <1>1, <1>2, <3>5 DEF First, Position
    <3>7. First' .. First' + 0 - 1 = {}
      <4> DEFINE f == First'
      <4>1. f \in Nat
        BY <3>6
      <4> HIDE DEF f
      <4>2. f .. f + 0 - 1 = {}
        BY <4>1
      <4> QED  BY <4>2 DEF f
    <3> QED  BY <3>6, <3>7 DEF FullSectorsStored
  <2>2. CASE ~ (n < SectorSize)
    BY <1>1, <2>2 DEF FullSectorsStored, Returned
  <2> QED  BY <2>1, <2>2
<1>8. Writes'
  <2>1. (pc = "setup" => size >= SectorSize)'
    BY <1>1, <1>3, Sizes
  <2> QED  BY <1>1, <1>6, <1>7, <2>1 DEF Writes, WindowSteps
<1> QED  BY <1>4, <1>5, <1>8

-----------------------------------------------------------------------------
(* The layer's invariant: during a read the bytes so far are decrypted,    *)
(* during a write the window lies in its place and what is stored so far   *)
(* decrypts to what was given, every other byte being as it was.           *)
CryptoInv == Types /\ Reads /\ Writes

THEOREM Invariant == Spec => []CryptoInv
<1>1. Init => CryptoInv
  <2> SUFFICES ASSUME Init PROVE CryptoInv
    OBVIOUS
  <2>1. Types
    <3>1. 0 \in 0 .. Sectors - 1 /\ First + size <= DiskSize
      BY Sizes DEF Init, First, Position
    <3> QED  BY <3>1, Sizes DEF Init, Types, IsBuffer, IsByte
  <2>2. Reads
    BY Sizes DEF Init, Reads, ReadsPlaintext
  <2>3. Writes
    BY DEF Init, Writes, WindowSteps, RangeOldOrNew, NoDamageBeyondLastBlock, FullSectorsStored
  <2> QED  BY <2>1, <2>2, <2>3 DEF CryptoInv
<1>2. CryptoInv /\ [Next]_vars => CryptoInv'
  <2> SUFFICES ASSUME CryptoInv, [Next]_vars PROVE CryptoInv'
    OBVIOUS
  <2> USE DEF CryptoInv
  <2>1. ASSUME NEW s \in 0 .. Sectors - 1, NEW capacity \in Nat, NEW count \in Nat,
               CallRead(s, capacity, count)
        PROVE  CryptoInv'
    BY <2>1, Asking
  <2>2. ASSUME NEW s \in 0 .. Sectors - 1, NEW n, CallWrite(s, n)
        PROVE  CryptoInv'
    BY <2>2, Giving
  <2>3. ASSUME Reads', call = "read", UNCHANGED << disk, callVars >>,
               pc' \in ReadSteps \cup {"idle", "astray"}
        PROVE  Writes'
    BY <2>3 DEF Writes, WindowSteps, ReadSteps, RangeOldOrNew, NoDamageBeyondLastBlock,
                FullSectorsStored, callVars, First, BlockEnd
  <2>4. pc # "idle" => size > 0
    BY DEF Types
  <2>5. ASSUME ReadRaw \/ ReadHead \/ ReadTail PROVE CryptoInv'
    <3>1. size > 0 /\ call = "read" /\ UNCHANGED << disk, callVars >>
      BY <2>4, <2>5 DEF ReadRaw, ReadHead, ReadTail, Types, WindowSteps
    <3>2. Types' /\ Reads'
      BY <2>5, <3>1, ReadsRaw, ReadsHead, ReadsTail
    <3>3. pc' \in ReadSteps \cup {"idle", "astray"}
      BY <2>5 DEF ReadRaw, ReadHead, ReadTail, Middle, Finish, LowerFails, ReadSteps
    <3> QED  BY <2>3, <3>1, <3>2, <3>3
  <2>6. CASE SetupWindow
    BY <2>4, <2>6, SetsUp DEF SetupWindow
  <2>7. CASE WindowRead
    BY <2>4, <2>7, ReadsWindow DEF WindowRead
  <2>8. CASE WindowWrite
    BY <2>4, <2>8, WritesWindow DEF WindowWrite
  <2>9. CASE UNCHANGED vars
    <3>1. Types'
      BY <2>9 DEF vars, callVars, Types, IsBuffer, IsByte, First
    <3>2. Reads'
      <4>1. /\ disk' = disk /\ pc' = pc /\ dest' = dest /\ call' = call /\ sector' = sector
            /\ size' = size /\ before' = before /\ result' = result /\ First' = First
            /\ buffer_size' = buffer_size /\ PriorSectors(sector)' = PriorSectors(sector)
            /\ TailAt' = TailAt /\ HeadFits' = HeadFits
        BY <2>9 DEF vars, callVars, TailAt, HeadFits, HeadBytes, MidBlocks, FirstMidBlock, First
      <4> QED  BY <4>1 DEF Reads, ReadsPlaintext, Returned, Plain
    <3>3. Windowed => Windowed'
      BY <2>9 DEF vars, callVars, Windowed, IsBuffer, At, First, Misaligned
    <3>4. (Stored => Stored') /\ (Encrypted => Encrypted')
      BY <2>9 DEF vars, callVars, Stored, Encrypted, At, First, BlockEnd, Plain, NewPlain, Source,
                  Whole, BlocksToProcess, AmountToCopy, IsByte
    <3>5. RangeOldOrNew' /\ NoDamageBeyondLastBlock' /\ FullSectorsStored'
      BY <2>9 DEF vars, callVars, Writes, RangeOldOrNew, NoDamageBeyondLastBlock,
                  FullSectorsStored, Returned, First, BlockEnd, Plain, NewPlain, Source
    <3>6. Writes'
      BY <2>9, <3>3, <3>4, <3>5 DEF Writes, vars, callVars
    <3> QED  BY <3>1, <3>2, <3>6
  <2>10. CASE Next
    <3>0. \A s \in 0 .. Sectors - 1 :
            \A n \in 0 .. Sectors - s : /\ n \in Nat /\ n * SectorSize \in Nat
                                       /\ Sectors \in Nat /\ DiskSize \in Nat
      <4>1. Sectors \in Nat /\ SectorSize \in Nat /\ DiskSize \in Nat
        BY Sizes
      <4> QED  BY <4>1, Distribute
    <3>2. CASE Astray
      BY <2>9, <3>2 DEF Astray
    <3>1. CASE \E s \in 0 .. Sectors - 1 :
                 \/ \E n \in 0 .. Sectors - s :
                      \/ CallRead(s, n * SectorSize, Sectors)
                      \/ CallRead(s, DiskSize, n)
                 \/ \E n \in 0 .. DiskSize - Position(s) : CallWrite(s, n)
      BY <3>0, <3>1, <2>1, <2>2
    <3> QED  BY <2>5, <2>6, <2>7, <2>8, <2>10, <3>1, <3>2 DEF Next
  <2> QED  BY <2>9, <2>10
<1> QED  BY <1>1, <1>2, PTL DEF Spec

(* A read that returned 0 gave the decrypted bytes of its sectors          *)
(* (ctr_crypto_interface_read_sector): at any alignment of sectors and     *)
(* blocks its three parts meet without a gap.  Only a read of less than a  *)
(* block into a buffer with room to spare goes astray.                     *)
THEOREM PlaintextRead == Spec => []ReadsPlaintext
<1>1. CryptoInv => ReadsPlaintext
  BY DEF CryptoInv, Reads
<1> QED  BY <1>1, Invariant, PTL

(* At every moment of a write a byte of its range decrypts to its old or   *)
(* to its new value (process_window, update_window), whatever call fails.  *)
THEOREM OldOrNew == Spec => []RangeOldOrNew
<1>1. CryptoInv => RangeOldOrNew
  BY DEF CryptoInv, Writes
<1> QED  BY <1>1, Invariant, PTL

(* Whole blocks are encrypted and whole sectors written, yet no byte       *)
(* before the range or after its last block changes.                       *)
THEOREM NoDamage == Spec => []NoDamageBeyondLastBlock
<1>1. CryptoInv => NoDamageBeyondLastBlock
  BY DEF CryptoInv, Writes
<1> QED  BY <1>1, Invariant, PTL

(* A write that returned 0 has stored every full sector of its buffer,     *)
(* however many windows it took.                                           *)
THEOREM SectorsStored == Spec => []FullSectorsStored
<1>1. CryptoInv => FullSectorsStored
  BY DEF CryptoInv, Writes
<1> QED  BY <1>1, Invariant, PTL

-----------------------------------------------------------------------------
(* Remainders.                                                             *)

LEMMA ModIs ==
  ASSUME NEW m \in Nat \ {0}, NEW r \in 0..(m - 1), NEW k \in Nat, NEW a \in Nat,
         a = r + m * k
  PROVE  a % m = r
  OBVIOUS

LEMMA ModRange ==
  ASSUME NEW m \in Nat \ {0}, NEW a \in Nat
  PROVE  a % m \in 0..(m - 1)
  OBVIOUS

LEMMA Division ==
  ASSUME NEW m \in Nat \ {0}, NEW a \in Nat
  PROVE  a = m * (a \div m) + (a % m) /\ a \div m \in Nat
  OBVIOUS

LEMMA DistributeOver ==
  ASSUME NEW m \in Nat, NEW a \in Nat, NEW b \in Nat
  PROVE  m * (a + b) = m * a + m * b
  OBVIOUS

\* A remainder may be taken of a part of a sum first.
LEMMA ModAdd ==
  ASSUME NEW m \in Nat \ {0}, NEW a \in Nat, NEW b \in Nat
  PROVE  ((a % m) + b) % m = (a + b) % m
  <1> DEFINE r == a % m  k == a \div m  s == (r + b) % m  l == (r + b) \div m
  <1>1. r \in Nat /\ k \in Nat /\ a = m * k + r BY ModRange, Division
  <1>2. r + b \in Nat BY <1>1
  <1>3. s \in 0..(m - 1) /\ l \in Nat /\ r + b = m * l + s BY <1>2, ModRange, Division
  <1> HIDE DEF r, k, s, l
  <1>4. a + b = s + m * (k + l) BY <1>1, <1>3, DistributeOver
  <1> DEFINE q == k + l  t == a + b
  <1>5. q \in Nat /\ t \in Nat /\ t = s + m * q BY <1>1, <1>3, <1>4
  <1> HIDE DEF q, t
  <1>6. t % m = s BY <1>3, <1>5, ModIs
  <1> QED BY <1>6 DEF r, s, t

-----------------------------------------------------------------------------
(* The counter.                                                            *)

\* One word of add_ctr: the wrapped sum and its carry make up the true sum.
LEMMA OneWord ==
  ASSUME NEW c \in WordRange, NEW k \in WordRange
  PROVE  /\ Sum(c, k) \in WordRange /\ CarryOut(c, k) \in {0, 1}
         /\ c + k = Sum(c, k) + Word * CarryOut(c, k)
  <1>1. Word \in Nat \ {0} BY ChunkAssumption
  <1>2. CASE c + k < Word
    <2>1. c + k \in 0..(Word - 1) /\ c + k \in Nat /\ c + k = (c + k) + Word * 0
      BY <1>1, <1>2 DEF WordRange
    <2>2. (c + k) % Word = c + k BY <1>1, <2>1 DEF WordRange
    <2> QED BY <1>1, <2>1, <2>2 DEF Sum, CarryOut, WordRange
  <1>3. CASE c + k >= Word
    <2> DEFINE r == c + k - Word  t == c + k
    <2>1. r \in 0..(Word - 1) /\ t \in Nat /\ t = r + Word * 1 /\ r < c
      BY <1>1, <1>3 DEF WordRange
    <2> HIDE DEF r, t
    <2>2. t % Word = r BY <1>1, <2>1, ModIs
    <2>3. Sum(c, k) = r BY <2>2 DEF Sum, t
    <2>4. CarryOut(c, k) = 1 BY <2>1, <2>3 DEF CarryOut
    <2> QED BY <1>1, <2>1, <2>3, <2>4 DEF WordRange, t
  <1> QED BY <1>1, <1>2, <1>3 DEF WordRange

\* What a carry adds to the words above is what it takes from its own.
LEMMA OneMoreWord ==
  ASSUME NEW w \in Nat, NEW a \in Nat, NEW s \in Nat, NEW over \in Nat,
         NEW c \in Nat, NEW d \in Nat, NEW k \in Nat, NEW into \in Nat,
         a + k = s + over, c + into = d + w * k
  PROVE  (a * w + c) + into = (s * w + d) + w * over
  <1>1. w * (a + k) = w * (s + over) OBVIOUS
  <1>2. w * a + w * k = w * s + w * over BY <1>1, DistributeOver
  <1>3. a * w = w * a /\ s * w = w * s OBVIOUS
  <1>4. w * a \in Nat /\ w * k \in Nat /\ w * s \in Nat /\ w * over \in Nat OBVIOUS
  <1> QED BY <1>2, <1>3, <1>4

LEMMA OneMoreDigit ==
  ASSUME NEW w \in Nat \ {0}, NEW p \in Nat, NEW a \in 0..(p - 1), NEW c \in 0..(w - 1)
  PROVE  a * w + c \in 0..(p * w - 1)
  <1>1. a * w \in Nat /\ p * w \in Nat /\ (p - 1) * w \in Int OBVIOUS
  <1>2. (p - 1) * w = p * w - w OBVIOUS
  <1>3. a * w <= (p - 1) * w OBVIOUS
  <1> QED BY <1>1, <1>2, <1>3

LEMMA ValueRange ==
  ASSUME NEW c \in Limbs
  PROVE  Value(c) \in 0..(M - 1) /\ M \in Nat \ {0}
  <1>1. Word \in Nat \ {0} BY ChunkAssumption
  <1>2. PICK c1 \in WordRange, c2 \in WordRange, c3 \in WordRange, c4 \in WordRange :
            c = <<c1, c2, c3, c4>> BY DEF Limbs
  <1> DEFINE p2 == Word * Word  p3 == p2 * Word  p4 == p3 * Word
             v2 == c1 * Word + c2  v3 == v2 * Word + c3  v4 == v3 * Word + c4
  <1>3. p2 \in Nat /\ v2 \in 0..(p2 - 1) BY <1>1, OneMoreDigit DEF WordRange
  <1> HIDE DEF p2, v2
  <1>4. p3 \in Nat /\ v3 \in 0..(p3 - 1) BY <1>1, <1>3, OneMoreDigit DEF WordRange
  <1> HIDE DEF p3, v3
  <1>5. p4 \in Nat /\ v4 \in 0..(p4 - 1) BY <1>1, <1>4, OneMoreDigit DEF WordRange
  <1> HIDE DEF p4, v4
  <1>6. M = p4 BY DEF M, p2, p3, p4
  <1>7. Value(c) = v4 BY <1>2 DEF Value, v2, v3, v4
  <1> QED BY <1>5, <1>6, <1>7

\* add_ctr adds to the counter as one number of four words, and wraps with it.
THEOREM AddCtrAdds ==
  ASSUME NEW c \in Limbs, NEW n \in WordRange
  PROVE  AddCtr(c, n) \in Limbs /\ Value(AddCtr(c, n)) = (Value(c) + n) % M
  <1>1. Word \in Nat /\ 0 \in WordRange /\ 1 \in WordRange BY ChunkAssumption DEF WordRange
  <1>2. PICK c1 \in WordRange, c2 \in WordRange, c3 \in WordRange, c4 \in WordRange :
            c = <<c1, c2, c3, c4>> BY DEF Limbs
  <1> DEFINE k3 == CarryOut(c4, n)  s4 == Sum(c4, n)
             k2 == CarryOut(c3, k3) s3 == Sum(c3, k3)
             k1 == CarryOut(c2, k2) s2 == Sum(c2, k2)
             k0 == CarryOut(c1, k1) s1 == Sum(c1, k1)
             v2 == c1 * Word + c2   t2 == s1 * Word + s2
             v3 == v2 * Word + c3   t3 == t2 * Word + s3
             v4 == v3 * Word + c4   t4 == t3 * Word + s4
             o1 == Word * k0  o2 == Word * o1  o3 == Word * o2  o4 == Word * o3
  <1>3. AddCtr(c, n) = <<s1, s2, s3, s4>> BY <1>2 DEF AddCtr
  <1>4. s4 \in WordRange /\ k3 \in WordRange /\ c4 + n = s4 + Word * k3 BY <1>1, OneWord
  <1> HIDE DEF k3, s4
  <1>5. s3 \in WordRange /\ k2 \in WordRange /\ c3 + k3 = s3 + Word * k2
    BY <1>1, <1>4, OneWord
  <1> HIDE DEF k2, s3
  <1>6. s2 \in WordRange /\ k1 \in WordRange /\ c2 + k2 = s2 + Word * k1
    BY <1>1, <1>5, OneWord
  <1> HIDE DEF k1, s2
  <1>7. s1 \in WordRange /\ k0 \in {0, 1} /\ c1 + k1 = s1 + Word * k0
    BY <1>1, <1>6, OneWord
  <1> HIDE DEF k0, s1
  <1>8. \A x \in WordRange : x \in Nat BY DEF WordRange
  <1>wn. /\ c1 \in Nat /\ c2 \in Nat /\ c3 \in Nat /\ c4 \in Nat /\ n \in Nat
        /\ s1 \in Nat /\ s2 \in Nat /\ s3 \in Nat /\ s4 \in Nat
        /\ k0 \in Nat /\ k1 \in Nat /\ k2 \in Nat /\ k3 \in Nat
    BY <1>4, <1>5, <1>6, <1>7, <1>8
  <1>9. o1 \in Nat /\ c1 + k1 = s1 + o1 BY <1>1, <1>7, <1>wn
  <1> HIDE DEF o1
  <1>10. o2 \in Nat /\ v2 \in Nat /\ t2 \in Nat BY <1>1, <1>wn, <1>9
  <1>11. v2 + k2 = t2 + o2 BY <1>1, <1>6, <1>9, <1>wn, OneMoreWord
  <1> HIDE DEF o2, v2, t2
  <1>12. o3 \in Nat /\ v3 \in Nat /\ t3 \in Nat BY <1>1, <1>10, <1>wn
  <1>low3. c3 + k3 = s3 + Word * k2 BY <1>5
  <1>13. v3 + k3 = t3 + o3 BY ONLY <1>1, <1>low3, <1>10, <1>11, <1>wn, OneMoreWord
  <1> HIDE DEF o3, v3, t3
  <1>14. o4 \in Nat /\ v4 \in Nat /\ t4 \in Nat BY <1>1, <1>12, <1>wn
  <1>low4. c4 + n = s4 + Word * k3 BY <1>4
  <1>15. v4 + n = t4 + o4 BY ONLY <1>1, <1>low4, <1>12, <1>13, <1>wn, OneMoreWord
  <1>16. o4 = M * k0
    <2>1. k0 = 0 \/ k0 = 1 BY <1>7
    <2> QED BY <1>1, <2>1 DEF o1, o2, o3, M
  <1> HIDE DEF o4, v4, t4
  <1>17. Value(c) = v4 BY <1>2 DEF Value, v2, v3, v4
  <1>18. Value(AddCtr(c, n)) = t4 BY <1>3 DEF Value, t2, t3, t4
  <1>19. AddCtr(c, n) \in Limbs BY <1>3, <1>4, <1>5, <1>6, <1>7 DEF Limbs
  <1>20. t4 \in 0..(M - 1) /\ M \in Nat \ {0} BY <1>18, <1>19, ValueRange
  <1> DEFINE a == v4 + n
  <1>21. a \in Nat /\ a = t4 + M * k0 /\ k0 \in Nat BY <1>14, <1>15, <1>16, <1>wn
  <1> HIDE DEF a
  <1>22. a % M = t4 BY <1>20, <1>21, ModIs
  <1> QED BY <1>17, <1>18, <1>19, <1>22 DEF a

-----------------------------------------------------------------------------
(* The FIFOs.                                                              *)

Running == stage \in {"batch", "push", "poll", "pop"}

\* How far the program and the engine are in a chunk, place by place: at the
\* top of the batch loop the FIFOs are empty; a batch is pushed whole before
\* the first pop; a pop under way has the rest of its block in the FIFO.
FifoPart ==
    /\ stage \in {"idle", "chunk"} =>
           blocks = 0 /\ cur = 0 /\ pushed = 0 /\ popped = 0 /\ taken = 0
    /\ stage = "batch" => blocks > 0 /\ pushed = 4 * cur /\ popped = 4 * cur /\ taken = cur
    /\ stage \in {"push", "poll", "pop"} =>
           cur < blocks /\ 4 * cur <= popped /\ popped <= 4 * taken /\ 4 * taken <= pushed
    /\ stage = "push" => popped = 4 * cur /\ pushed < 4 * (cur + BatchSize)
    /\ stage \in {"poll", "pop"} =>
           pushed = 4 * (cur + BatchSize) /\ popped < 4 * (cur + BatchSize)
    /\ stage = "poll" => popped % 4 = 0
    /\ stage = "pop" => popped \div 4 < taken

FifoInv == AesTypeOK /\ FifoPart

LEMMA BatchFits ==
  ASSUME AesTypeOK, cur < blocks
  PROVE  BatchSize \in 1..Batch /\ cur + BatchSize <= blocks
  BY SizesAssumption, ChunkAssumption DEF AesTypeOK, BatchSize

LEMMA ChunkFits ==
  ASSUME NEW left \in Nat \ {0}
  PROVE  ChunkSize(left) \in 1..MaxChunk /\ ChunkSize(left) <= left
  BY ChunkAssumption DEF ChunkSize

LEMMA Quarters ==
  ASSUME NEW a \in Nat
  PROVE  a = 4 * (a \div 4) + (a % 4) /\ a % 4 \in 0..3 /\ a \div 4 \in Nat
  BY Division

LEMMA FifoInit == AesInit => FifoInv
  <1> SUFFICES ASSUME AesInit PROVE FifoInv OBVIOUS
  <1>1. req \in Requests /\ req.n = 0 /\ req.start \in Counters
    BY DEF AesInit, Requests
  <1>2. AesTypeOK
    BY <1>1, CountersAssumption, ChunkAssumption DEF AesInit, AesTypeOK, WordsPerBlock
  <1>3. stage = "idle" /\ blocks = 0 /\ cur = 0 /\ pushed = 0 /\ popped = 0 /\ taken = 0
    BY DEF AesInit
  <1>4. FifoPart BY <1>3 DEF FifoPart
  <1> QED BY <1>2, <1>4 DEF FifoInv

\* The types of the data: what a step stores is a number or a counter.
LEMMA DataTyped ==
  ASSUME FifoInv, [AesNext]_aesVars
  PROVE  /\ req' \in Requests /\ chain' \in Int /\ prev' \in Int /\ ctr' \in Limbs
         /\ fed' \in [1..MaxBlocks -> Int] /\ chained' \in [1..MaxBlocks -> Int]
  <1>1. /\ req \in Requests /\ chain \in Int /\ prev \in Int /\ ctr \in Limbs
        /\ fed \in [1..MaxBlocks -> Int] /\ chained \in [1..MaxBlocks -> Int]
        /\ base \in Nat /\ taken \in Nat /\ pushed \in Nat /\ blocks \in 0..MaxChunk
        /\ req.n \in 0..MaxBlocks
    BY ChunkAssumption, SMTT(60) DEF FifoInv, AesTypeOK, Limbs, WordRange, Requests, WordsPerBlock
  <1>2. ASSUME NEW r \in Requests, Call(r) PROVE
           /\ req' \in Requests /\ chain' \in Int /\ prev' \in Int /\ ctr' \in Limbs
           /\ fed' \in [1..MaxBlocks -> Int] /\ chained' \in [1..MaxBlocks -> Int]
    BY <1>2, CountersAssumption DEF Call, Requests, Limbs, WordRange
  <1>3. \A i \in Nat : Input(i) \in Int BY DEF Input
  <1>4. CASE NextChunk
    <2>1. req.n - base \in Nat \ {0} BY <1>1, <1>4 DEF NextChunk
    <2>2. ChunkSize(req.n - base) \in Nat BY <2>1, ChunkFits, ChunkAssumption
    <2>3. Value(ctr) \in Int BY <1>1, ValueRange
    <2>4. Input(base + ChunkSize(req.n - base)) \in Int BY <1>1, <1>3, <2>2
    <2>5. chain' \in Int BY <1>1, <1>4, <2>3 DEF NextChunk
    <2>6. prev' \in Int BY <1>1, <1>4, <2>4 DEF NextChunk
    <2> QED BY <1>1, <1>4, <2>5, <2>6 DEF NextChunk
  <1>5. CASE EndChunk
    <2>1. AddCtr(ctr, blocks) \in Limbs
      BY <1>1, AddCtrAdds, ChunkAssumption DEF WordRange
    <2> QED BY <1>1, <1>5, <2>1 DEF EndChunk, fifos
  <1>6. CASE Push
    <2> DEFINE i == base + pushed \div WordsPerBlock + 1
    <2>1. i \in Nat BY <1>1, Quarters DEF WordsPerBlock
    <2>2. fed' = fed \/ fed' = [fed EXCEPT ![i] = Input(i)] BY <1>6 DEF Push
    <2> HIDE DEF i
    <2>3. fed' \in [1..MaxBlocks -> Int] BY <1>1, <1>3, <2>1, <2>2
    <2> QED BY <1>1, <1>6, <2>3 DEF Push
  <1>7. CASE Engine
    <2>1. (chain + 1) % M \in Int BY <1>1, ValueRange
    <2>2. \A i \in 1..MaxBlocks : fed[i] \in Int BY <1>1
    <2>3. pushed <= 4 * blocks /\ pushed - 4 * taken >= 4 /\ base + blocks <= req.n
      BY <1>7 DEF FifoInv, AesTypeOK, Engine, InWrite, WordsPerBlock
    <2>4. taken + 1 <= blocks BY <1>1, <2>3
    <2>5. base + taken + 1 \in 1..MaxBlocks BY <1>1, <2>3, <2>4, BoundAssumption
    <2> QED BY <1>1, <1>7, <2>1, <2>2, <2>5, SMTT(60) DEF Engine, program
  <1>8. CASE StartBatch \/ Poll \/ Pop \/ Return \/ UNCHANGED aesVars
    BY <1>1, <1>8 DEF StartBatch, Poll, Pop, Return, aesVars, program
  <1> QED BY <1>2, <1>4, <1>5, <1>6, <1>7, <1>8 DEF AesNext, Program

Counters2 ==
    /\ stage \in {"idle", "chunk", "batch", "push", "poll", "pop"}
    /\ base \in 0..req.n /\ blocks \in 0..MaxChunk /\ base + blocks <= req.n
    /\ cur \in 0..blocks /\ taken \in 0..blocks
    /\ pushed \in 0..(4 * blocks) /\ popped \in 0..(4 * blocks)
    /\ FifoPart

LEMMA FifoNext == FifoInv /\ [AesNext]_aesVars => FifoInv'
  <1> SUFFICES ASSUME FifoInv, [AesNext]_aesVars PROVE FifoInv' OBVIOUS
  <1>data. /\ req' \in Requests /\ chain' \in Int /\ prev' \in Int /\ ctr' \in Limbs
        /\ fed' \in [1..MaxBlocks -> Int] /\ chained' \in [1..MaxBlocks -> Int]
    BY DataTyped
  <1>rest. SUFFICES Counters2'
    BY <1>data DEF FifoInv, AesTypeOK, Counters2, WordsPerBlock
  <1>1. Counters2 /\ req.n \in Nat /\ MaxChunk \in Nat /\ req.n \in 0..MaxBlocks
    BY ChunkAssumption DEF FifoInv, AesTypeOK, Counters2, Requests, WordsPerBlock
  <1>2. cur < blocks => BatchSize \in 1..Batch /\ cur + BatchSize <= blocks
    BY BatchFits DEF FifoInv
  <1>3. Batch \in Nat BY SizesAssumption
  <1>4. ASSUME NEW r \in Requests, Call(r) PROVE Counters2'
    <2>1. r.n \in Nat BY DEF Requests
    <2> QED BY <1>1, <1>4, <2>1 DEF Call, fifos, Counters2, FifoPart
  <1>5. CASE NextChunk
    <2> DEFINE length == ChunkSize(req.n - base)
    <2>1. req.n - base \in Nat \ {0} BY <1>1, <1>5 DEF NextChunk, Counters2
    <2>2. length \in 1..MaxChunk /\ length <= req.n - base BY <2>1, ChunkFits
    <2> HIDE DEF length
    <2>3. /\ stage' = "batch" /\ blocks' = length /\ cur' = 0 /\ UNCHANGED <<req, base>>
          /\ pushed' = 0 /\ popped' = 0 /\ taken' = 0
      BY <1>5 DEF NextChunk, length
    <2> QED BY <1>1, <2>2, <2>3 DEF Counters2, FifoPart
  <1>6. CASE EndChunk BY <1>1, <1>6 DEF EndChunk, Counters2, FifoPart
  <1>7. CASE StartBatch
    BY <1>1, <1>2, <1>3, <1>7 DEF StartBatch, fifos, Counters2, FifoPart, BatchSize
  <1>8. CASE Push
    BY <1>1, <1>2, <1>3, <1>8 DEF Push, Counters2, FifoPart, BatchSize, WordsPerBlock
  <1>9. CASE Poll
    <2>1. popped = 4 * (popped \div 4) + (popped % 4) /\ popped \div 4 \in Nat
      BY <1>1, Quarters DEF Counters2
    <2>2. popped % 4 = 0 /\ 4 * taken - popped > 3
      BY <1>1, <1>9 DEF Poll, checkread, InRead, WordsPerBlock, FifoPart, Counters2
    <2>3. popped \div 4 < taken BY <1>1, <2>1, <2>2 DEF Counters2
    <2> QED BY <1>1, <1>9, <2>3 DEF Poll, fifos, Counters2, FifoPart, BatchSize
  <1>10. CASE Pop
    BY <1>1, <1>2, <1>3, <1>10 DEF Pop, Counters2, FifoPart, BatchSize, WordsPerBlock
  <1>11. CASE Return BY <1>1, <1>11 DEF Return, fifos, Counters2, FifoPart
  <1>12. CASE Engine
    BY <1>1, <1>2, <1>3, <1>12
    DEF Engine, program, InWrite, Counters2, FifoPart, BatchSize, WordsPerBlock
  <1>13. CASE UNCHANGED aesVars
    BY <1>1, <1>13 DEF aesVars, program, fifos, Counters2, FifoPart, BatchSize
  <1> QED
    BY <1>4, <1>5, <1>6, <1>7, <1>8, <1>9, <1>10, <1>11, <1>12, <1>13 DEF AesNext, Program

THEOREM FifoInvariant == AesSpec => []FifoInv
  BY FifoInit, FifoNext, PTL DEF AesSpec

\* The type invariant, for every value of the constants.
THEOREM AesTypeCorrect == AesSpec => []AesTypeOK
  BY FifoInvariant, PTL DEF FifoInv

LEMMA BoundedByInv == FifoInv => FifosBounded
  <1> SUFFICES ASSUME FifoInv PROVE FifosBounded OBVIOUS
  <1>1. cur < blocks => BatchSize \in 1..Batch BY BatchFits DEF FifoInv
  <1>2. Batch \in Nat /\ Capacity \in Nat /\ 4 * Batch <= Capacity
    BY SizesAssumption DEF WordsPerBlock
  <1>3. MaxChunk \in Nat BY ChunkAssumption
  <1>4. stage = "pop" => popped < 4 * taken
    <2>1. popped = 4 * (popped \div 4) + (popped % 4) /\ popped % 4 \in 0..3
          /\ popped \div 4 \in Nat
      BY <1>3, Quarters DEF FifoInv, AesTypeOK, WordsPerBlock
    <2> QED BY <1>3, <2>1 DEF FifoInv, FifoPart, AesTypeOK
  <1>5. Counters2 BY DEF FifoInv, AesTypeOK, Counters2, WordsPerBlock
  <1> QED
    BY <1>1, <1>2, <1>3, <1>4, <1>5
    DEF Counters2, FifoPart, FifosBounded, InWrite, InRead, WordsPerBlock

\* No word is pushed into a full FIFO or popped from an empty one (aes_fifos).
THEOREM FifosStayBounded == AesSpec => []FifosBounded
  BY FifoInvariant, BoundedByInv, PTL

-----------------------------------------------------------------------------
(* The chaining.                                                           *)

Good(i) == (req.mode = "cbc_encrypt" /\ i > MaxChunk) \/ chained[i] = Expected(i)

\* Between the chunks the memory of the caller holds what the next chunk
\* starts from, within one the engine holds what its next block needs; when
\* cbc_decrypt encrypts, this is so in the first chunk only.
ChainPart ==
    /\ \A i \in 1..MaxBlocks : 4 * i <= 4 * base + pushed + 3 => fed[i] = i
    /\ \A i \in 1..MaxBlocks : i <= base + taken => Good(i)
    /\ req.mode = "ctr" => Value(ctr) = (Value(req.start) + base) % M
    /\ req.mode = "ctr" /\ Running => chain = (Value(req.start) + (base + taken)) % M
    /\ req.mode = "cbc_decrypt" /\ stage = "chunk" => prev = base
    /\ req.mode = "cbc_decrypt" /\ Running => prev = base + blocks /\ chain = base + taken
    /\ req.mode = "cbc_encrypt" /\ base = 0 =>
           /\ stage = "chunk" => prev = 0
           /\ Running => chain = -taken
    /\ stage \in {"chunk", "idle"} => base = 0 \/ base >= MaxChunk \/ base = req.n
    /\ Running => (base = 0 \/ base >= MaxChunk) /\ (blocks = MaxChunk \/ base + blocks = req.n)

ChainInv == FifoInv /\ ChainPart

LEMMA ChainInit == AesInit => ChainInv
  <1> SUFFICES ASSUME AesInit PROVE ChainInv OBVIOUS
  <1>1. FifoInv BY FifoInit
  <1>2. /\ stage = "idle" /\ base = 0 /\ taken = 0 /\ pushed = 0 /\ ctr = req.start
        /\ req.start \in Limbs
    BY CountersAssumption DEF AesInit, Requests
  <1>3. Value(ctr) = (Value(req.start) + 0) % M
    BY <1>2, ValueRange, ModAdd
  <1> QED BY <1>1, <1>2, <1>3 DEF ChainInv, ChainPart, Running

LEMMA ChainNext == ChainInv /\ [AesNext]_aesVars => ChainInv'
  <1> SUFFICES ASSUME ChainInv, [AesNext]_aesVars PROVE ChainInv' OBVIOUS
  <1>inv. FifoInv /\ FifoInv' BY FifoNext DEF ChainInv
  <1>rest. SUFFICES ChainPart' BY <1>inv DEF ChainInv
  <1>1. /\ base \in Nat /\ blocks \in 0..MaxChunk /\ cur \in Nat /\ taken \in Nat
        /\ pushed \in Nat /\ popped \in Nat /\ req.n \in 0..MaxBlocks
        /\ base + blocks <= req.n /\ pushed <= 4 * blocks /\ taken <= blocks
        /\ ctr \in Limbs /\ req.start \in Limbs /\ chain \in Int /\ prev \in Int
        /\ fed \in [1..MaxBlocks -> Int] /\ chained \in [1..MaxBlocks -> Int]
    <2>1. req.n \in 0..MaxBlocks /\ req.start \in Limbs
      BY CountersAssumption, <1>inv DEF FifoInv, AesTypeOK, Requests
    <2>2. /\ base \in 0..req.n /\ blocks \in 0..MaxChunk /\ base + blocks <= req.n
          /\ cur \in 0..blocks /\ taken \in 0..blocks
          /\ pushed \in 0..(4 * blocks) /\ popped \in 0..(4 * blocks)
      BY <1>inv DEF FifoInv, AesTypeOK, WordsPerBlock
    <2>3. /\ ctr \in Limbs /\ chain \in Int /\ prev \in Int
          /\ fed \in [1..MaxBlocks -> Int] /\ chained \in [1..MaxBlocks -> Int]
      BY <1>inv DEF FifoInv, AesTypeOK
    <2> QED BY <2>1, <2>2, <2>3, ChunkAssumption
  <1>2. ChainPart /\ FifoPart /\ MaxChunk \in Nat \ {0} /\ MaxBlocks \in Nat
    BY <1>inv, ChunkAssumption, BoundAssumption DEF ChainInv, FifoInv
  <1>3. Value(req.start) \in 0..(M - 1) /\ Value(ctr) \in 0..(M - 1) /\ M \in Nat \ {0}
    BY <1>1, ValueRange
  <1>same. ASSUME req' = req, chained' = chained PROVE \A i : Good(i)' <=> Good(i)
    BY <1>same DEF Good, Expected
  <1>4. ASSUME NEW r \in Requests, Call(r) PROVE ChainPart'
    <2>1. /\ req' = r /\ stage' = "chunk" /\ base' = 0 /\ ctr' = r.start /\ prev' = 0
          /\ taken' = 0 /\ pushed' = 0 /\ r.start \in Limbs
      BY <1>2, <1>4, CountersAssumption DEF Call, FifoPart, fifos, Requests
    <2>2. Value(r.start) \in 0..(M - 1) BY <2>1, ValueRange
    <2>3. Value(r.start) = (Value(r.start) + 0) % M BY <1>3, <2>2
    <2> QED BY <2>1, <2>3 DEF ChainPart, Running
  <1>5. CASE NextChunk
    <2> DEFINE length == ChunkSize(req.n - base)
    <2>1. req.n - base \in Nat \ {0} BY <1>1, <1>5 DEF NextChunk
    <2>2. length \in 1..MaxChunk /\ length <= req.n - base
          /\ (length = MaxChunk \/ length = req.n - base)
      BY <2>1, ChunkFits DEF ChunkSize
    <2>3. Input(base + length) = base + length
      BY <1>1, <1>2, <1>5, <2>2 DEF Input, FifoPart, NextChunk, WordsPerBlock
    <2>4. /\ chain' = CASE req.mode = "ctr" -> Value(ctr)
                        [] req.mode \in CBC -> prev
                        [] OTHER -> chain
          /\ prev' = IF req.mode \in CBC THEN base + length ELSE prev
      BY <1>5, <2>3 DEF NextChunk
    <2> HIDE DEF length
    <2>5. /\ stage = "chunk" /\ stage' = "batch" /\ blocks' = length /\ taken' = 0 /\ pushed' = 0
          /\ taken = 0 /\ pushed = 0
          /\ UNCHANGED <<req, base, ctr, fed, chained>>
      BY <1>2, <1>5 DEF NextChunk, FifoPart, length
    <2>6. \A i : Good(i)' <=> Good(i) BY <1>same, <2>5
    <2>7. req.mode = "ctr" => chain' = Value(ctr) BY <2>4 DEF CBC
    <2>8. req.mode \in CBC => chain' = prev /\ prev' = base + length BY <2>4 DEF CBC
    <2>9. stage' \notin {"chunk", "idle"} /\ Running' BY <2>5 DEF Running
    <2>10. base + taken' = base + taken /\ base + taken = base BY <1>1, <2>5
    <2>11. base = 0 \/ base >= MaxChunk BY <1>1, <1>2, <2>1, <2>5 DEF ChainPart
    <2>12. length = MaxChunk \/ base + length = req.n BY <1>1, <2>2
    <2>13. req.mode \in CBC => chain' = prev /\ prev' = base + blocks' BY <2>5, <2>8
    <2>14. req.mode = "cbc_decrypt" => prev = base BY <1>2, <2>5 DEF ChainPart
    <2>15. req.mode = "cbc_encrypt" /\ base = 0 => prev = 0 BY <1>2, <2>5 DEF ChainPart
    <2> QED
      BY <1>1, <1>2, <2>5, <2>6, <2>7, <2>9, <2>10, <2>11, <2>12, <2>13, <2>14, <2>15, SMTT(60)
      DEF ChainPart, CBC
  <1>6. CASE EndChunk
    <2>1. /\ stage = "batch" /\ stage' = "chunk" /\ base' = base + blocks /\ taken = blocks
          /\ taken' = 0 /\ pushed = 4 * blocks /\ pushed' = 0 /\ blocks' = 0
          /\ UNCHANGED <<req, prev, fed, chained>>
      BY <1>1, <1>2, <1>6 DEF EndChunk, FifoPart
    <2>2. \A i : Good(i)' <=> Good(i) BY <1>same, <2>1
    <2>3. ASSUME req.mode = "ctr" PROVE Value(ctr') = (Value(req.start) + base') % M
      <3>1. blocks \in WordRange /\ ctr' = AddCtr(ctr, blocks)
        BY <1>1, <1>6, <2>3, ChunkAssumption DEF EndChunk, WordRange
      <3>2. Value(ctr') = (((Value(req.start) + base) % M) + blocks) % M
        BY <1>1, <1>2, <2>3, <3>1, AddCtrAdds DEF ChainPart
      <3> DEFINE a == Value(req.start) + base
      <3>3. a \in Nat /\ blocks \in Nat BY <1>1, <1>3
      <3>4. ((a % M) + blocks) % M = (a + blocks) % M BY <1>3, <3>3, ModAdd
      <3>5. a + blocks = Value(req.start) + base' BY <1>1, <1>3, <2>1
      <3> QED BY <3>2, <3>4, <3>5
    <2>4. ~Running' /\ Running BY <2>1 DEF Running
    <2>5. /\ 4 * base' + pushed' = 4 * base + pushed /\ base' + taken' = base + taken
          /\ base' \in Nat
      BY <1>1, <2>1
    <2>6. base' = 0 \/ base' >= MaxChunk \/ base' = req.n
      BY <1>1, <1>2, <2>1, <2>4 DEF ChainPart
    <2>7. req.mode = "cbc_decrypt" => prev' = base' BY <1>2, <2>1, <2>4 DEF ChainPart
    <2>8. stage' = "chunk" /\ base' # 0 BY <1>1, <1>2, <2>1 DEF FifoPart
    <2> QED BY <1>2, <2>1, <2>2, <2>3, <2>4, <2>5, <2>6, <2>7, <2>8 DEF ChainPart
  <1>7. CASE Push
    <2> DEFINE i == base + pushed \div WordsPerBlock + 1
    <2>1. /\ stage = "push" /\ stage' \in {"push", "poll"} /\ pushed' = pushed + 1
          /\ UNCHANGED <<req, base, blocks, taken, chain, ctr, prev, chained>>
      BY <1>7 DEF Push
    <2>2. \A j : Good(j)' <=> Good(j) BY <1>same, <2>1
    <2>3. pushed = 4 * (pushed \div 4) + (pushed % 4) /\ pushed % 4 \in 0..3
          /\ pushed \div 4 \in Nat
      BY <1>1, Quarters
    <2>4. i \in Nat /\ 4 * i = 4 * base + pushed - (pushed % 4) + 4 BY <1>1, <2>3 DEF WordsPerBlock
    <2>5. Input(i) = i
      BY <1>1, <1>2, <2>1, <2>3, <2>4 DEF Input, FifoPart, WordsPerBlock
    <2>6. fed' = IF pushed % 4 = 0 THEN [fed EXCEPT ![i] = i] ELSE fed
      BY <1>7, <2>5 DEF Push, WordsPerBlock
    <2> HIDE DEF i
    <2>7. ASSUME NEW j \in 1..MaxBlocks, 4 * j <= 4 * base + pushed' + 3 PROVE fed'[j] = j
      <3>1. CASE pushed % 4 = 0
        <4>1. 4 * j <= 4 * i BY <1>1, <2>1, <2>3, <2>4, <2>7, <3>1
        <4>2. j = i \/ 4 * j <= 4 * base + pushed + 3
          BY <1>1, <2>3, <2>4, <3>1, <4>1
        <4> QED BY <1>1, <1>2, <2>6, <3>1, <4>2 DEF ChainPart
      <3>2. CASE pushed % 4 # 0
        <4>1. 4 * j <= 4 * base + pushed + 3 BY <1>1, <2>1, <2>3, <2>7, <3>2
        <4> QED BY <1>2, <2>6, <3>2, <4>1 DEF ChainPart
      <3> QED BY <3>1, <3>2
    <2> QED BY <1>2, <2>1, <2>2, <2>7 DEF ChainPart, Running
  <1>8. CASE Engine
    <2>0. PICK i \in Nat \ {0} : i = base + taken + 1 BY <1>1
    <2>1. /\ Running /\ stage' = stage /\ taken' = taken + 1
          /\ UNCHANGED <<req, base, blocks, pushed, ctr, prev, fed>>
          /\ pushed - 4 * taken >= 4
      BY <1>8 DEF Engine, program, Running, InWrite, WordsPerBlock
    <2>2. taken + 1 <= blocks /\ i \in 1..MaxBlocks /\ 4 * i <= 4 * base + pushed + 3
      BY <1>1, <1>2, <2>0, <2>1
    <2>3. fed[i] = i BY <1>2, <2>2 DEF ChainPart
    <2>4. /\ chained' = [chained EXCEPT ![i] = IF req.mode = "ecb" THEN 0 ELSE chain]
          /\ chain' = CASE req.mode = "ctr" -> (chain + 1) % M
                        [] req.mode = "cbc_decrypt" -> i
                        [] req.mode = "cbc_encrypt" -> -i
                        [] OTHER -> chain
      BY <1>8, <2>0, <2>3 DEF Engine
    <2>5. i > MaxChunk \/ base = 0 BY <1>1, <1>2, <2>0, <2>1 DEF ChainPart
    <2>6. req.mode = "ctr" => chain = (Value(req.start) + (i - 1)) % M
      BY <1>1, <1>2, <2>0, <2>1 DEF ChainPart
    <2>7. req.mode = "cbc_decrypt" => chain = i - 1 BY <1>1, <1>2, <2>0, <2>1 DEF ChainPart
    <2>8. req.mode = "cbc_encrypt" /\ base = 0 => chain = 1 - i
      BY <1>1, <1>2, <2>0, <2>1 DEF ChainPart
    <2>10. i = base + taken' BY <1>1, <2>0, <2>1
    <2>11. req.mode \in Modes BY <1>inv DEF FifoInv, AesTypeOK, Requests
    <2>12. chained'[i] = IF req.mode = "ecb" THEN 0 ELSE chain BY <1>1, <2>2, <2>4
    <2>13. Good(i)'
      <3>0. req' = req BY <2>1
      <3>1. CASE req.mode = "ctr"
        BY <3>0, <3>1, <2>6, <2>12 DEF Good, Expected
      <3>2. CASE req.mode = "cbc_decrypt"
        BY <3>0, <3>2, <2>7, <2>12 DEF Good, Expected
      <3>3. CASE req.mode = "cbc_encrypt"
        BY <3>0, <3>3, <2>5, <2>8, <2>12 DEF Good, Expected
      <3>4. CASE req.mode = "ecb"
        BY <3>0, <3>4, <2>12 DEF Good, Expected
      <3> QED BY <2>11, <3>1, <3>2, <3>3, <3>4 DEF Modes, CBC
    <2>14. ASSUME NEW j \in 1..MaxBlocks, j # i PROVE Good(j)' <=> Good(j)
      <3>1. chained'[j] = chained[j] BY <1>1, <2>2, <2>4, <2>14
      <3> QED BY <2>1, <3>1 DEF Good, Expected
    <2>15. \A j \in 1..MaxBlocks : j <= base + taken' => Good(j)'
      <3>1. \A j \in 1..MaxBlocks : j <= base + taken' => j = i \/ j <= base + taken
        BY <1>1, <2>1, <2>10
      <3>2. \A j \in 1..MaxBlocks : j <= base + taken => Good(j) BY <1>2 DEF ChainPart
      <3> SUFFICES ASSUME NEW j \in 1..MaxBlocks, j <= base + taken' PROVE Good(j)'
        OBVIOUS
      <3>3. CASE j = i BY <2>13, <3>3
      <3>4. CASE j # i BY <2>14, <3>1, <3>2, <3>4
      <3> QED BY <3>3, <3>4
    <2>16. req.mode = "ctr" => chain' = (Value(req.start) + (base + taken')) % M
      <3> DEFINE a == Value(req.start) + (i - 1)
      <3>1. a \in Nat /\ a + 1 = Value(req.start) + (base + taken') BY <1>3, <2>10
      <3>2. ((a % M) + 1) % M = (a + 1) % M BY <1>3, <3>1, ModAdd
      <3>3. req.mode = "ctr" => chain = a % M BY <2>6
      <3>4. req.mode = "ctr" => chain' = (chain + 1) % M BY <2>4
      <3> QED BY <3>1, <3>2, <3>3, <3>4
    <2>17. req.mode = "cbc_decrypt" => chain' = base + taken' BY <2>4, <2>10
    <2>18. req.mode = "cbc_encrypt" /\ base = 0 => chain' = -taken'
      BY <1>1, <2>1, <2>4, <2>10
    <2> QED
      BY <1>1, <1>2, <2>1, <2>15, <2>16, <2>17, <2>18 DEF ChainPart, Running
  <1>9. CASE StartBatch \/ Poll \/ Pop
    <2>1. /\ Running /\ Running'
          /\ UNCHANGED <<req, base, blocks, pushed, taken, chain, ctr, prev, fed, chained>>
      BY <1>9 DEF StartBatch, Poll, Pop, fifos, Running
    <2>2. \A i : Good(i)' <=> Good(i) BY <1>same, <2>1
    <2>3. stage # "chunk" /\ stage' # "chunk" /\ stage # "idle" /\ stage' # "idle" BY <2>1 DEF Running
    <2> QED BY <1>2, <2>1, <2>2, <2>3 DEF ChainPart
  <1>10. CASE Return
    <2>1. /\ stage = "chunk" /\ stage' = "idle"
          /\ UNCHANGED <<req, base, blocks, pushed, taken, chain, ctr, prev, fed, chained>>
      BY <1>10 DEF Return, fifos
    <2>2. \A i : Good(i)' <=> Good(i) BY <1>same, <2>1
    <2> QED BY <1>2, <2>1, <2>2 DEF ChainPart, Running
  <1>11. CASE UNCHANGED aesVars
    BY <1>2, <1>11, <1>same DEF aesVars, program, fifos, ChainPart, Running
  <1> QED
    BY <1>4, <1>5, <1>6, <1>7, <1>8, <1>9, <1>10, <1>11 DEF AesNext, Program

THEOREM ChainInvariant == AesSpec => []ChainInv
  BY ChainInit, ChainNext, PTL DEF AesSpec

\* Every block is combined with the counter or block its mode asks for, over
\* chunks, batches and carries of the counter (cbc_decrypt, ctr_decrypt).
THEOREM BlocksAreChained == AesSpec => []BlocksChained
  <1>1. ChainInv => BlocksChained
    <2> SUFFICES ASSUME ChainInv, NEW i \in 1..(base + taken)
                 PROVE fed[i] = i /\ Good(i)
      BY DEF BlocksChained, Good
    <2>1. /\ base \in Nat /\ taken \in Nat /\ pushed \in Nat /\ blocks \in Nat
          /\ MaxBlocks \in Nat /\ base + taken <= MaxBlocks /\ 4 * taken <= pushed
      BY ChunkAssumption, BoundAssumption
      DEF ChainInv, FifoInv, AesTypeOK, FifoPart, Requests, WordsPerBlock
    <2>2. i \in 1..MaxBlocks /\ i <= base + taken /\ 4 * i <= 4 * base + pushed + 3
      BY <2>1
    <2> QED BY <2>2 DEF ChainInv, ChainPart
  <1> QED BY <1>1, ChainInvariant, PTL

=============================================================================
