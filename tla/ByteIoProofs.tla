---------------------------- MODULE ByteIoProofs ----------------------------
(***************************************************************************)
(* For sectors and devices of any size, ranges anywhere, any number of     *)
(* writes and a driver that may fail in every call: a write changes a      *)
(* prefix of its range and nothing else, and a read returns its range.     *)
(***************************************************************************)
EXTENDS ByteIo, TLAPS

FirstSteps == {"read_first", "write_read_first", "write_first"}
MidSteps == {"read_mid", "write_mid"}
LastSteps == {"read_last", "write_read_last", "write_last"}

(* A buffer of n bytes.                                                    *)
IsBuffer(b, n) == b = [i \in 0 .. n - 1 |-> b[i]]

Types ==
  /\ position \in Nat /\ size \in Nat /\ bytes \in Nat /\ sectors \in Nat
  /\ IsBuffer(contents, DiskSize) /\ IsBuffer(before, DiskSize)
  /\ IsBuffer(buf, SectorSize) /\ IsBuffer(dest, size)
  /\ pc = "idle" \/ (pc \in ReadSteps /\ kind = "read") \/ (pc \in WriteSteps /\ kind = "write")
  /\ kind \in {"read", "write"}

(* How far the call is, and that the sector to be moved next begins where  *)
(* the bytes that are left do.                                             *)
Progress ==
  /\ pc = "idle" => bytes = 0 /\ sectors = 0
  /\ pc \in FirstSteps => sectors = 0 /\ size > 0
  /\ pc \in {"read_first", "write_read_first"} => bytes = 0
  /\ pc = "write_first" => bytes = Min2(SectorSize - StartLocation, size)
  /\ pc \in MidSteps \cup LastSteps => NextSector = position + bytes
  /\ pc \in MidSteps => size - bytes >= SectorSize
  /\ pc \in LastSteps => size - bytes < SectorSize /\ bytes < size

(* The device is as it was, with the first k bytes of the source in place. *)
Prefix(k) ==
  \A a \in Addresses :
    contents[a] = IF position <= a /\ a < position + k THEN <<writes, a - position>>
              ELSE before[a]

Stored ==
  /\ kind = "read" => contents = before
  /\ pc \in {"write_read_first", "write_first"} => contents = before
  /\ pc \in {"write_mid", "write_read_last", "write_last"} => Prefix(bytes)
  /\ kind = "write" /\ pc = "idle" => \E k \in 0 .. size : Prefix(k)
  /\ kind = "write" /\ Returned =>
       \/ Prefix(size)
       \/ tail_lost /\ Prefix(size - ((position + size) % SectorSize))

(* A sector about to be written: n bytes of the source from its byte b on, *)
(* where they belong, in what is on the device.                            *)
Mixed(b, n) ==
  \A i \in 0 .. SectorSize - 1 :
    buf[i] = IF position + b <= NextSector + i /\ NextSector + i < position + b + n
             THEN <<writes, NextSector + i - position>>
             ELSE contents[NextSector + i]

SectorReady ==
  /\ pc = "write_first" => Mixed(0, bytes)
  /\ pc = "write_last" => Mixed(bytes, size - bytes)

Filled(n) == \A i \in 0 .. n - 1 : dest[i] = contents[position + i]

Delivered ==
  /\ pc \in ReadSteps => Filled(bytes)
  /\ kind = "read" /\ Returned => Filled(size)

(* The same of the next state, for numbers of this one.                    *)
WillPrefix(k) ==
  \A a \in Addresses :
    contents'[a] = IF position' <= a /\ a < position' + k
               THEN <<writes', a - position'>> ELSE before'[a]
WillMix(b, n) ==
  \A i \in 0 .. SectorSize - 1 :
    buf'[i] = IF position' + b <= NextSector' + i /\ NextSector' + i < position' + b + n
              THEN <<writes', NextSector' + i - position'>>
              ELSE contents'[NextSector' + i]
WillFill(n) == \A i \in 0 .. n - 1 : dest'[i] = contents'[position' + i]

IInv == Types /\ Progress /\ Stored /\ SectorReady /\ Delivered

-----------------------------------------------------------------------------
(* Arithmetic.                                                             *)

LEMMA DivMod ==
  ASSUME NEW a \in Nat, NEW n \in Nat \ {0}
  PROVE  /\ a = (a \div n) * n + (a % n)
         /\ a \div n \in Nat /\ a % n \in 0 .. n - 1
  BY Z3

LEMMA Distribute ==
  ASSUME NEW a \in Nat, NEW b \in Nat, NEW n \in Nat
  PROVE  (a + b) * n = a * n + b * n /\ a * n \in Nat /\ b * n \in Nat
  BY Z3

LEMMA Monotone ==
  ASSUME NEW a \in Nat, NEW b \in Nat, a <= b, NEW n \in Nat
  PROVE  a * n <= b * n
<1>1. b - a \in Nat /\ b = a + (b - a)
  OBVIOUS
<1> QED  BY <1>1, Distribute

LEMMA Remainder ==
  ASSUME NEW q \in Nat, NEW n \in Nat \ {0}, NEW r \in 0 .. n - 1
  PROVE  (q * n + r) % n = r
<1>1. q * n + r \in Nat
  BY Distribute
<1> DEFINE d == (q * n + r) \div n
<1>2. q * n + r = d * n + ((q * n + r) % n) /\ d \in Nat /\ (q * n + r) % n \in 0 .. n - 1
  BY <1>1, DivMod
<1>3. CASE d = q
  BY <1>2, <1>3, Distribute
<1>4. CASE d > q
  <2>1. d * n = (q + 1) * n + (d - (q + 1)) * n /\ (d - (q + 1)) * n \in Nat
        /\ (q + 1) * n = q * n + 1 * n
    BY <1>2, <1>4, Distribute
  <2> QED  BY <1>2, <2>1, Distribute
<1>5. CASE d < q
  <2>1. q * n = (d + 1) * n + (q - (d + 1)) * n /\ (q - (d + 1)) * n \in Nat
        /\ (d + 1) * n = d * n + 1 * n
    BY <1>2, <1>5, Distribute
  <2> QED  BY <1>2, <2>1, Distribute
<1> QED  BY <1>2, <1>3, <1>4, <1>5

(* The bytes that k of the whole sectors of n bytes hold.                  *)
LEMMA WholeSectors ==
  ASSUME NEW n \in Nat, NEW k \in 0 .. n \div SectorSize
  PROVE  /\ k * SectorSize \in 0 .. n
         /\ n \div SectorSize \in Nat
         /\ n - (n \div SectorSize) * SectorSize \in 0 .. SectorSize - 1
<1>1. /\ n = (n \div SectorSize) * SectorSize + (n % SectorSize)
      /\ n \div SectorSize \in Nat /\ n % SectorSize \in 0 .. SectorSize - 1
      /\ SectorSize \in Nat \ {0}
  BY DivMod, ByteIoAssumption
<1>2. k \in Nat /\ k * SectorSize \in Nat /\ (n \div SectorSize) * SectorSize \in Nat
  BY <1>1, Distribute
<1>3. k * SectorSize <= (n \div SectorSize) * SectorSize
  BY <1>1, <1>2, Monotone
<1> QED  BY <1>1, <1>2, <1>3

(* Copying keeps the size of the buffer.                                   *)
LEMMA CopyAt ==
  ASSUME NEW to, NEW n, IsBuffer(to, n), NEW at, NEW from, NEW start, NEW m
  PROVE  /\ IsBuffer(Copy(to, at, from, start, m), n)
         /\ \A i \in 0 .. n - 1 :
              Copy(to, at, from, start, m)[i]
                = IF at <= i /\ i < at + m THEN from[start + i - at] ELSE to[i]
<1>1. DOMAIN to = 0 .. n - 1
  BY DEF IsBuffer
<1> QED  BY <1>1 DEF Copy, IsBuffer

LEMMA OneSector == SectorSize \div SectorSize = 1
<1> DEFINE q == SectorSize \div SectorSize
<1>1. /\ SectorSize = q * SectorSize + (SectorSize % SectorSize)
      /\ q \in Nat /\ SectorSize % SectorSize \in 0 .. SectorSize - 1
      /\ SectorSize \in Nat \ {0}
  BY DivMod, ByteIoAssumption
<1>2. CASE q = 0
  BY <1>1, <1>2
<1>3. CASE q > 1
  <2>1. q * SectorSize = 2 * SectorSize + (q - 2) * SectorSize /\ (q - 2) * SectorSize \in Nat
    BY <1>1, <1>3, Distribute
  <2> QED  BY <1>1, <2>1
<1> QED  BY <1>1, <1>2, <1>3

-----------------------------------------------------------------------------
(* The sectors of a call.                                                  *)

LEMMA Bases ==
  ASSUME Types
  PROVE  /\ position = BaseSector * SectorSize + StartLocation
         /\ StartLocation \in 0 .. SectorSize - 1
         /\ BaseSector \in Nat /\ SectorSize \in Nat \ {0}
         /\ BaseSector * SectorSize \in Nat /\ NextSector \in Nat
<1>1. SectorSize \in Nat \ {0} /\ position \in Nat /\ sectors \in Nat
  BY ByteIoAssumption DEF Types
<1>2. /\ position = BaseSector * SectorSize + StartLocation
      /\ StartLocation \in 0 .. SectorSize - 1 /\ BaseSector \in Nat
  BY <1>1, DivMod DEF BaseSector, StartLocation
<1>3. BaseSector + sectors \in Nat /\ BaseSector * SectorSize \in Nat
      /\ (BaseSector + sectors) * SectorSize \in Nat
  BY <1>1, <1>2, Distribute
<1> QED  BY <1>1, <1>2, <1>3 DEF NextSector

LEMMA FirstSector ==
  ASSUME Types, sectors = 0
  PROVE  position = NextSector + StartLocation
  BY Bases DEF NextSector

LEMMA MoreSectors ==
  ASSUME Types, NEW s \in Nat
  PROVE  (BaseSector + (sectors + s)) * SectorSize = NextSector + s * SectorSize
<1>1. BaseSector + (sectors + s) = (BaseSector + sectors) + s
      /\ BaseSector + sectors \in Nat /\ SectorSize \in Nat
  BY Bases DEF Types
<1> QED  BY <1>1, Distribute DEF NextSector

(* The end of a section: the next one begins where this one ended.         *)
LEMMA Advances ==
  ASSUME Types, NEW b \in 0 .. size, NEW s \in Nat, NEW sectorBuffer,
         NEW mid \in MidSteps, NEW last \in {"read_last", "write_read_last"},
         b < size => (BaseSector + s) * SectorSize = position + b,
         Advance(b, s, sectorBuffer, mid, last), UNCHANGED rangeVars
  PROVE  /\ Progress' /\ bytes' \in Nat /\ sectors' \in Nat
         /\ \/ pc' = "idle" /\ b = size /\ result' = "ok" /\ buf' = Zeros
            \/ pc' \in {mid, last} /\ bytes' = b /\ buf' = sectorBuffer /\ b < size
<1>1. SectorSize \in Nat \ {0} /\ size \in Nat
  BY ByteIoAssumption DEF Types
<1>2. mid # "idle" /\ last # "idle"
  BY DEF MidSteps
<1>3. CASE size - b >= SectorSize
  <2>1. pc' = mid /\ bytes' = b /\ sectors' = s /\ buf' = sectorBuffer
    BY <1>2, <1>3 DEF Advance, SectionAfter
  <2>2. NextSector' = position' + bytes' /\ size' = size
    BY <1>1, <1>3, <2>1 DEF rangeVars, NextSector, BaseSector
  <2> QED  BY <1>1, <1>3, <2>1, <2>2 DEF Progress, MidSteps, LastSteps, FirstSteps
<1>4. CASE size - b < SectorSize /\ b < size
  <2>1. pc' = last /\ bytes' = b /\ sectors' = s /\ buf' = sectorBuffer
    BY <1>1, <1>2, <1>4 DEF Advance, SectionAfter
  <2>2. NextSector' = position' + bytes' /\ size' = size
    BY <1>1, <1>4, <2>1 DEF rangeVars, NextSector, BaseSector
  <2> QED  BY <1>1, <1>4, <2>1, <2>2 DEF Progress, MidSteps, LastSteps, FirstSteps
<1>5. CASE b = size
  <2>1. pc' = "idle" /\ bytes' = 0 /\ sectors' = 0 /\ result' = "ok" /\ buf' = Zeros
    BY <1>1, <1>5 DEF Advance, SectionAfter, Finish
  <2> QED  BY <1>5, <2>1 DEF Progress, MidSteps, LastSteps, FirstSteps
<1> QED  BY <1>1, <1>3, <1>4, <1>5

LEMMA Finishes ==
  ASSUME NEW r, Finish(r)
  PROVE  /\ Progress' /\ pc' = "idle" /\ result' = r /\ buf' = Zeros
         /\ bytes' \in Nat /\ sectors' \in Nat
  BY DEF Finish, Progress, MidSteps, LastSteps, FirstSteps

LEMMA TypesKept ==
  ASSUME Types, UNCHANGED rangeVars, bytes' \in Nat, sectors' \in Nat,
         IsBuffer(contents', DiskSize), IsBuffer(dest', size),
         buf' = Zeros \/ IsBuffer(buf', SectorSize),
         \/ pc' = "idle"
         \/ pc' \in ReadSteps /\ kind = "read"
         \/ pc' \in WriteSteps /\ kind = "write"
  PROVE  Types'
<1>1. IsBuffer(Zeros, SectorSize)
  BY DEF IsBuffer, Zeros
<1>2. IsBuffer(contents, DiskSize)' /\ IsBuffer(before, DiskSize)' /\ IsBuffer(buf, SectorSize)'
      /\ IsBuffer(dest, size)'
  BY <1>1 DEF Types, rangeVars, IsBuffer, DiskSize
<1> QED  BY <1>2 DEF Types, rangeVars

-----------------------------------------------------------------------------
(* What is put on the device.                                              *)

(* A sector that was mixed, or none of it.                                 *)
LEMMA SectorPut ==
  ASSUME Types, NEW b \in Nat, NEW n \in Nat, NEW m \in {0, SectorSize},
         Prefix(b), Mixed(b, n),
         NextSector <= position + b, position + b + n <= NextSector + SectorSize,
         contents' = Copy(contents, NextSector, buf, 0, m), UNCHANGED rangeVars
  PROVE  /\ IsBuffer(contents', DiskSize)
         /\ m = 0 => WillPrefix(b)
         /\ m = SectorSize => WillPrefix(b + n)
<1>1. NextSector \in Nat /\ SectorSize \in Nat \ {0} /\ position \in Nat
  BY Bases DEF Types
<1>2. DiskSize \in Nat /\ Addresses = 0 .. DiskSize - 1
  BY Distribute, ByteIoAssumption DEF DiskSize, Addresses
<1>3. /\ IsBuffer(contents', DiskSize)
      /\ \A a \in Addresses :
           contents'[a] = IF NextSector <= a /\ a < NextSector + m
                      THEN buf[a - NextSector] ELSE contents[a]
  BY <1>1, <1>2, CopyAt DEF Types
<1>4. ASSUME NEW a \in Addresses, m = 0
      PROVE  contents'[a] = contents[a]
  BY <1>1, <1>2, <1>3, <1>4
<1>5. ASSUME NEW a \in Addresses, m = SectorSize
      PROVE  contents'[a] = IF position <= a /\ a < position + (b + n)
                        THEN <<writes, a - position>> ELSE before[a]
  <2>1. CASE NextSector <= a /\ a < NextSector + SectorSize
    <3>1. a - NextSector \in 0 .. SectorSize - 1 /\ NextSector + (a - NextSector) = a
      BY <1>1, <1>2, <2>1
    <3>2. buf[a - NextSector] = IF position + b <= a /\ a < position + b + n
                                THEN <<writes, a - position>> ELSE contents[a]
      <4>1. PICK i \in 0 .. SectorSize - 1 : i = a - NextSector /\ NextSector + i = a
        BY <3>1
      <4>2. buf[i] = IF position + b <= NextSector + i /\ NextSector + i < position + b + n
                     THEN <<writes, NextSector + i - position>> ELSE contents[NextSector + i]
        BY DEF Mixed
      <4> QED  BY <1>1, <1>2, <4>1, <4>2
    <3>3. contents'[a] = buf[a - NextSector]
      BY <1>3, <1>5, <2>1
    <3> QED  BY <1>1, <1>2, <3>2, <3>3 DEF Prefix
  <2>2. CASE ~ (NextSector <= a /\ a < NextSector + SectorSize)
    <3>1. contents'[a] = contents[a]
      BY <1>3, <1>5, <2>2
    <3> QED  BY <1>1, <1>2, <2>2, <3>1 DEF Prefix
  <2> QED  BY <2>1, <2>2
<1>6. Addresses' = Addresses
  BY DEF Addresses, DiskSize
<1>7. m = 0 => WillPrefix(b)
  BY <1>4, <1>6 DEF Prefix, WillPrefix, rangeVars
<1>8. m = SectorSize => WillPrefix(b + n)
  BY <1>5, <1>6 DEF WillPrefix, rangeVars
<1> QED  BY <1>3, <1>7, <1>8

(* Bytes of the source behind those that are there.                        *)
LEMMA SourcePut ==
  ASSUME Types, NEW b \in Nat, NEW n \in Nat, b + n <= size,
         Prefix(b), NextSector = position + b,
         contents' = Copy(contents, NextSector, Source, b, n), UNCHANGED rangeVars
  PROVE  IsBuffer(contents', DiskSize) /\ WillPrefix(b + n)
<1>1. position \in Nat /\ size \in Nat
  BY DEF Types
<1>2. DiskSize \in Nat /\ Addresses = 0 .. DiskSize - 1
  BY Distribute, ByteIoAssumption DEF DiskSize, Addresses
<1>3. /\ IsBuffer(contents', DiskSize)
      /\ \A a \in Addresses :
           contents'[a] = IF position + b <= a /\ a < position + b + n
                      THEN Source[b + a - (position + b)] ELSE contents[a]
  BY <1>1, <1>2, CopyAt DEF Types
<1>4. ASSUME NEW a \in Addresses
      PROVE  contents'[a] = IF position <= a /\ a < position + (b + n)
                        THEN <<writes, a - position>> ELSE before[a]
  <2>1. CASE position + b <= a /\ a < position + b + n
    <3>1. a - position \in 0 .. size - 1 /\ b + a - (position + b) = a - position
      BY <1>1, <1>2, <2>1
    <3>2. Source[a - position] = <<writes, a - position>>
      BY <3>1 DEF Source
    <3>3. contents'[a] = Source[b + a - (position + b)]
      BY <1>3, <2>1
    <3>4. position <= a /\ a < position + (b + n)
      BY <1>1, <1>2, <2>1
    <3> QED  BY <3>1, <3>2, <3>3, <3>4
  <2>2. CASE ~ (position + b <= a /\ a < position + b + n)
    <3>1. contents'[a] = contents[a]
      BY <1>3, <2>2
    <3>2. contents[a] = IF position <= a /\ a < position + b
                    THEN <<writes, a - position>> ELSE before[a]
      BY DEF Prefix
    <3>3. position <= a /\ a < position + (b + n) <=> position <= a /\ a < position + b
      BY <1>1, <1>2, <2>2
    <3> QED  BY <3>1, <3>2, <3>3
  <2> QED  BY <2>1, <2>2
<1>5. Addresses' = Addresses
  BY DEF Addresses, DiskSize
<1> QED  BY <1>3, <1>4, <1>5 DEF WillPrefix, rangeVars

(* A sector that was read, with bytes of the source put into it.           *)
LEMMA SectorMixed ==
  ASSUME Types, NEW b \in Nat, NEW n \in Nat, NEW at \in Nat, b + n <= size,
         NextSector + at = position + b,
         buf' = Copy(Copy(buf, 0, contents, NextSector, SectorSize), at, Source, b, n),
         UNCHANGED << contents, sectors, rangeVars >>
  PROVE  IsBuffer(buf', SectorSize) /\ WillMix(b, n)
<1>1. position \in Nat /\ size \in Nat /\ NextSector \in Nat /\ SectorSize \in Nat \ {0}
  BY Bases DEF Types
<1> DEFINE sector == Copy(buf, 0, contents, NextSector, SectorSize)
<1>2. /\ IsBuffer(sector, SectorSize)
      /\ \A i \in 0 .. SectorSize - 1 : sector[i] = contents[NextSector + i]
  <2>1. /\ IsBuffer(sector, SectorSize)
        /\ \A i \in 0 .. SectorSize - 1 :
             sector[i] = IF 0 <= i /\ i < 0 + SectorSize THEN contents[NextSector + i - 0] ELSE buf[i]
    BY CopyAt DEF Types
  <2> QED  BY <1>1, <2>1
<1> HIDE DEF sector
<1>3. /\ IsBuffer(buf', SectorSize)
      /\ \A i \in 0 .. SectorSize - 1 :
           buf'[i] = IF at <= i /\ i < at + n THEN Source[b + i - at] ELSE sector[i]
  BY <1>2, CopyAt DEF sector
<1>4. ASSUME NEW i \in 0 .. SectorSize - 1
      PROVE  buf'[i] = IF position + b <= NextSector + i /\ NextSector + i < position + b + n
                       THEN <<writes, NextSector + i - position>> ELSE contents[NextSector + i]
  <2>1. CASE at <= i /\ i < at + n
    <3>1. b + i - at \in 0 .. size - 1 /\ b + i - at = NextSector + i - position
      BY <1>1, <2>1
    <3>2. Source[b + i - at] = <<writes, b + i - at>>
      BY <3>1 DEF Source
    <3> QED  BY <1>1, <1>3, <2>1, <3>1, <3>2
  <2>2. CASE ~ (at <= i /\ i < at + n)
    BY <1>1, <1>2, <1>3, <2>2
  <2> QED  BY <2>1, <2>2
<1>5. NextSector' = NextSector
  BY DEF NextSector, BaseSector, rangeVars
<1> QED  BY <1>3, <1>4, <1>5 DEF WillMix, rangeVars

(* Bytes that a read has put behind those that it had.                     *)
LEMMA Fetched ==
  ASSUME Types, NEW b \in Nat, NEW n \in Nat, NEW start \in Nat, b + n <= size,
         Filled(b), start = position + b,
         dest' = Copy(dest, b, contents, start, n), UNCHANGED << contents, rangeVars >>
  PROVE  IsBuffer(dest', size) /\ WillFill(b + n)
<1>1. position \in Nat /\ size \in Nat
  BY DEF Types
<1>2. /\ IsBuffer(dest', size)
      /\ \A i \in 0 .. size - 1 :
           dest'[i] = IF b <= i /\ i < b + n THEN contents[start + i - b] ELSE dest[i]
  BY CopyAt DEF Types
<1>3. ASSUME NEW i \in 0 .. b + n - 1 PROVE dest'[i] = contents[position + i]
  <2>1. i \in 0 .. size - 1
    BY <1>1
  <2>2. CASE b <= i
    <3>1. start + i - b = position + i
      BY <1>1, <2>1
    <3> QED  BY <1>2, <2>1, <2>2, <3>1
  <2>3. CASE ~ (b <= i)
    <3>1. i \in 0 .. b - 1
      BY <2>1, <2>3
    <3> QED  BY <1>2, <2>1, <2>3, <3>1 DEF Filled
  <2> QED  BY <2>2, <2>3
<1> QED  BY <1>2, <1>3 DEF WillFill, rangeVars

-----------------------------------------------------------------------------
(* Every step keeps the invariant.                                         *)

LEMMA ByteInit == ByteIoInit => IInv
<1> SUFFICES ASSUME ByteIoInit PROVE IInv  OBVIOUS
<1>1. IsBuffer(contents, DiskSize) /\ IsBuffer(buf, SectorSize) /\ IsBuffer(dest, size)
  BY DEF ByteIoInit, IsBuffer, Addresses
<1>2. Types
  BY <1>1 DEF ByteIoInit, Types
<1>3. Progress
  BY DEF ByteIoInit, Progress, FirstSteps, MidSteps, LastSteps
<1> QED  BY <1>2, <1>3, ByteIoAssumption DEF ByteIoInit, IInv, Stored, SectorReady, Delivered, Filled,
            ReadSteps, Returned

(* A call begins.                                                          *)
LEMMA Begins ==
  ASSUME IInv, NEW p \in Nat, NEW n \in Nat, pc = "idle",
         NEW op \in {"read", "write"}, NEW first,
         \/ op = "read" /\ first = "read_first" /\ writes' = writes
         \/ op = "write" /\ first = "write_read_first",
         kind' = op, position' = p, size' = n,
         dest' = [i \in 0 .. n - 1 |-> <<0, 0>>],
         pc' = IF n = 0 THEN "idle" ELSE first,
         result' = "ok", before' = contents, UNCHANGED << contents, bytes, sectors, buf >>
  PROVE  IInv'
<1>1. IsBuffer(dest', n) /\ Types
  BY DEF IsBuffer, IInv
<1>2. Types'
  BY <1>1 DEF Types, IsBuffer, DiskSize, ReadSteps, WriteSteps
<1>3. bytes = 0 /\ sectors = 0
  BY DEF IInv, Progress
<1>4. Progress'
  BY <1>3 DEF Progress, FirstSteps, MidSteps, LastSteps
<1>5. WillPrefix(0)
  BY Distribute, ByteIoAssumption DEF WillPrefix, Addresses, DiskSize
<1>6. Stored'
  <2>1. pc' = "idle" => n = 0 /\ size' = 0
    OBVIOUS
  <2>2. size' = 0 => Prefix(size)' /\ (\E k \in 0 .. size : Prefix(k))'
    BY <1>5 DEF Prefix, WillPrefix, Addresses, DiskSize
  <2>3. pc' \in {"idle", "read_first", "write_read_first"}
    OBVIOUS
  <2> QED  BY <2>1, <2>2, <2>3 DEF Stored, Returned
<1>7. SectorReady' /\ Delivered'
  <2>1. \A m \in {0} : Filled(m)'
    BY DEF Filled
  <2>2. size' = 0 => Filled(size)'
    BY DEF Filled
  <2>3. Filled(bytes)'
    BY <1>3 DEF Filled
  <2> QED  BY <2>2, <2>3 DEF SectorReady, Delivered, Returned
<1> QED  BY <1>2, <1>4, <1>6, <1>7 DEF IInv

(* A step of a read that puts a bytes in place or fails.                   *)
LEMMA Reading ==
  ASSUME IInv, pc \in ReadSteps, UNCHANGED << contents, rangeVars >>,
         IsBuffer(dest', size), Progress', bytes' \in Nat, sectors' \in Nat,
         buf' = Zeros \/ IsBuffer(buf', SectorSize),
         \/ pc' = "idle" /\ result' = "error"
         \/ pc' = "idle" /\ result' = "ok" /\ Filled(size)'
         \/ pc' \in ReadSteps /\ Filled(bytes)'
  PROVE  IInv'
<1>1. kind = "read" /\ contents = before
  BY DEF IInv, Types, Stored, ReadSteps, WriteSteps
<1>2. Types'
  BY <1>1, TypesKept DEF IInv, Types
<1>3. Stored' /\ SectorReady'
  BY <1>1 DEF Stored, SectorReady, rangeVars, ReadSteps
<1>4. Delivered'
  BY DEF Delivered, Returned, ReadSteps
<1> QED  BY <1>2, <1>3, <1>4 DEF IInv

LEMMA ReadsFirst == IInv /\ ReadFirst => IInv'
<1> SUFFICES ASSUME IInv, ReadFirst PROVE IInv'  OBVIOUS
<1>1. /\ Types /\ pc = "read_first" /\ pc \in ReadSteps /\ sectors = 0 /\ bytes = 0
      /\ size \in Nat \ {0} /\ IsBuffer(dest, size) /\ IsBuffer(buf, SectorSize)
  BY DEF IInv, Types, Progress, FirstSteps, ReadFirst, ReadSteps
<1>2. UNCHANGED << contents, rangeVars >>
  BY DEF ReadFirst
<1>3. CASE Fail /\ dest' = dest
  BY <1>1, <1>2, <1>3, Finishes, Reading DEF Fail
<1> DEFINE n == Min2(SectorSize - StartLocation, size)
<1>4. CASE /\ dest' = Copy(dest, 0, contents, NextSector + StartLocation, n)
           /\ Advance(n, 1, buf, "read_mid", "read_last")
  <2>1. n \in 0 .. size /\ (n < size => n = SectorSize - StartLocation)
    BY <1>1, Bases DEF Min2
  <2>2. n < size => (BaseSector + 1) * SectorSize = position + n
    <3>1. (BaseSector + 1) * SectorSize = BaseSector * SectorSize + 1 * SectorSize
      BY <1>1, Bases, Distribute
    <3> QED  BY <1>1, <2>1, <3>1, Bases
  <2> HIDE DEF n
  <2>3. /\ Progress' /\ bytes' \in Nat /\ sectors' \in Nat
        /\ \/ pc' = "idle" /\ n = size /\ result' = "ok" /\ buf' = Zeros
           \/ pc' \in {"read_mid", "read_last"} /\ bytes' = n /\ buf' = buf
    BY <1>1, <1>2, <1>4, <2>1, <2>2, Advances DEF MidSteps
  <2>4. Filled(0)
    BY DEF Filled
  <2>5. IsBuffer(dest', size) /\ WillFill(0 + n)
    BY <1>1, <1>2, <1>4, <2>1, <2>4, Bases, FirstSector, Fetched
  <2>6. n = size => Filled(size)'
    BY <1>2, <2>1, <2>5 DEF Filled, WillFill, rangeVars
  <2>7. bytes' = n => Filled(bytes)'
    BY <2>1, <2>5 DEF Filled, WillFill
  <2> QED  BY <1>1, <1>2, <2>3, <2>5, <2>6, <2>7, Reading DEF ReadSteps
<1> QED  BY <1>3, <1>4 DEF ReadFirst

LEMMA ReadsMid == IInv /\ ReadMid => IInv'
<1> SUFFICES ASSUME IInv, ReadMid PROVE IInv'  OBVIOUS
<1>1. /\ Types /\ pc = "read_mid" /\ pc \in ReadSteps /\ NextSector = position + bytes
      /\ size \in Nat /\ bytes \in Nat /\ sectors \in Nat /\ position \in Nat
      /\ SectorSize \in Nat \ {0} /\ size - bytes >= SectorSize
      /\ IsBuffer(dest, size) /\ IsBuffer(buf, SectorSize) /\ Filled(bytes)
  BY ByteIoAssumption DEF IInv, Types, Progress, MidSteps, ReadMid, ReadSteps, Delivered
<1>2. UNCHANGED << contents, rangeVars >> /\ size - bytes \in Nat
  BY <1>1 DEF ReadMid
<1> DEFINE whole == (size - bytes) \div SectorSize
<1>3. \A k \in 0 .. whole : k * SectorSize \in 0 .. size - bytes /\ whole \in Nat
  BY <1>2, WholeSectors
<1>4. whole \in Nat
  BY <1>1, <1>2, DivMod
<1> HIDE DEF whole
<1>5. ASSUME NEW k \in 0 .. whole, dest' = Copy(dest, bytes, contents, NextSector, k * SectorSize)
      PROVE  IsBuffer(dest', size) /\ WillFill(bytes + k * SectorSize)
  <2>1. k * SectorSize \in Nat /\ bytes + k * SectorSize <= size
    BY <1>1, <1>3
  <2> QED  BY <1>1, <1>2, <1>5, <2>1, Bases, Fetched
<1>6. ASSUME NEW k \in 0 .. whole, Fail,
             dest' = Copy(dest, bytes, contents, NextSector, k * SectorSize)
      PROVE  IInv'
  BY <1>1, <1>2, <1>5, <1>6, Finishes, Reading DEF Fail
<1>7. CASE /\ dest' = Copy(dest, bytes, contents, NextSector, whole * SectorSize)
           /\ Advance(bytes + whole * SectorSize, sectors + whole, buf, "read_mid", "read_last")
  <2> DEFINE b == bytes + whole * SectorSize
  <2>1. b \in 0 .. size /\ sectors + whole \in Nat
    BY <1>1, <1>3, <1>4
  <2>2. (BaseSector + (sectors + whole)) * SectorSize = position + b
    <3>1. whole * SectorSize \in Nat
      BY <1>1, <1>3, <1>4
    <3> QED  BY <1>1, <1>4, <3>1, MoreSectors
  <2>3. IsBuffer(dest', size) /\ WillFill(b)
    BY <1>4, <1>5, <1>7
  <2> HIDE DEF b
  <2>4. Advance(b, sectors + whole, buf, "read_mid", "read_last")
    BY <1>7 DEF b
  <2>5. /\ Progress' /\ bytes' \in Nat /\ sectors' \in Nat
        /\ \/ pc' = "idle" /\ b = size /\ result' = "ok" /\ buf' = Zeros
           \/ pc' \in {"read_mid", "read_last"} /\ bytes' = b /\ buf' = buf
    BY <1>1, <1>2, <2>1, <2>2, <2>4, Advances DEF MidSteps
  <2>6. b = size => Filled(size)'
    BY <1>2, <2>3 DEF Filled, WillFill, rangeVars
  <2>7. bytes' = b => Filled(bytes)'
    BY <2>3 DEF Filled, WillFill
  <2> QED  BY <1>1, <1>2, <2>3, <2>5, <2>6, <2>7, Reading DEF ReadSteps
<1> QED  BY <1>6, <1>7 DEF ReadMid, whole

LEMMA ReadsLast == IInv /\ ReadLast => IInv'
<1> SUFFICES ASSUME IInv, ReadLast PROVE IInv'  OBVIOUS
<1>1. /\ Types /\ pc \in ReadSteps /\ NextSector = position + bytes
      /\ size \in Nat /\ bytes \in Nat /\ position \in Nat /\ bytes < size
      /\ IsBuffer(dest, size) /\ Filled(bytes)
  BY DEF IInv, Types, Progress, LastSteps, ReadLast, ReadSteps, Delivered
<1>2. UNCHANGED << contents, rangeVars >> /\ size - bytes \in Nat
  BY <1>1 DEF ReadLast
<1>3. CASE Fail /\ dest' = dest
  BY <1>1, <1>2, <1>3, Finishes, Reading DEF Fail
<1>4. CASE dest' = Copy(dest, bytes, contents, NextSector, size - bytes) /\ Finish("ok")
  <2>1. IsBuffer(dest', size) /\ WillFill(bytes + (size - bytes))
    BY <1>1, <1>2, <1>4, Fetched
  <2>2. Filled(size)'
    BY <1>1, <1>2, <2>1 DEF Filled, WillFill, rangeVars
  <2> QED  BY <1>1, <1>2, <1>4, <2>1, <2>2, Finishes, Reading
<1> QED  BY <1>3, <1>4 DEF ReadLast

(* A step of a write that leaves a prefix and goes on, ends or fails.      *)
LEMMA Writing ==
  ASSUME IInv, pc \in WriteSteps, UNCHANGED << dest, rangeVars >>,
         IsBuffer(contents', DiskSize), Progress', bytes' \in Nat, sectors' \in Nat,
         buf' = Zeros \/ IsBuffer(buf', SectorSize), SectorReady',
         \/ /\ pc' = "idle"
            /\ \E k \in 0 .. size : WillPrefix(k)
            /\ \/ result' = "error"
               \/ WillPrefix(size)
               \/ tail_lost' /\ WillPrefix(size - ((position + size) % SectorSize))
         \/ pc' = "write_first" /\ contents' = contents /\ contents = before
         \/ pc' \in {"write_mid", "write_read_last", "write_last"} /\ WillPrefix(bytes')
  PROVE  IInv'
<1>1. kind = "write" /\ kind' = "write" /\ size' = size /\ position' = position
  BY DEF IInv, Types, ReadSteps, WriteSteps, rangeVars
<1>2. IsBuffer(dest', size)
  BY DEF IInv, Types
<1>3. Types'
  BY <1>1, <1>2, TypesKept DEF IInv, Types, WriteSteps
<1>4. \A k : WillPrefix(k) =>
        \A a \in Addresses :
          contents'[a] = IF position' <= a /\ a < position' + k
                     THEN <<writes', a - position'>> ELSE before'[a]
  BY DEF WillPrefix
<1>5. Addresses' = Addresses
  BY DEF Addresses, DiskSize
<1>6. Stored'
  <2>1. CASE pc' = "idle"
    <3>1. (\E k \in 0 .. size : Prefix(k))'
      BY <1>1, <2>1, <1>5 DEF Prefix, WillPrefix
    <3>2. result' = "ok" => \/ Prefix(size)'
                             \/ (tail_lost /\ Prefix(size - ((position + size) % SectorSize)))'
      BY <1>1, <2>1, <1>5 DEF Prefix, WillPrefix
    <3> QED  BY <1>1, <2>1, <3>1, <3>2 DEF Stored, Returned
  <2>2. CASE pc' = "write_first"
    BY <1>1, <2>2 DEF Stored, Returned, rangeVars
  <2>3. CASE pc' \in {"write_mid", "write_read_last", "write_last"}
    <3>1. Prefix(bytes)'
      BY <1>5, <2>3 DEF Prefix, WillPrefix
    <3> QED  BY <1>1, <2>3, <3>1 DEF Stored, Returned
  <2> QED  BY <2>1, <2>2, <2>3
<1>7. Delivered'
  BY <1>1, <1>3 DEF Delivered, Types, ReadSteps, WriteSteps
<1> QED  BY <1>3, <1>6, <1>7 DEF IInv

(* A driver call that failed before it wrote anything.                     *)
LEMMA WriteFails ==
  ASSUME IInv, pc \in WriteSteps, Fail, UNCHANGED << contents, dest, rangeVars >>
  PROVE  IInv'
<1>1. IsBuffer(contents', DiskSize) /\ size \in Nat /\ bytes \in Nat /\ kind = "write"
  BY DEF IInv, Types, ReadSteps, WriteSteps
<1>2. \E k \in 0 .. size : Prefix(k)
  <2>1. CASE pc \in {"write_read_first", "write_first"}
    <3>1. Prefix(0)
      BY <2>1, Distribute, ByteIoAssumption
      DEF IInv, Types, Stored, Prefix, Addresses, DiskSize
    <3> QED  BY <1>1, <3>1
  <2>2. CASE pc \in {"write_mid", "write_read_last", "write_last"}
    <3>1. Prefix(bytes)
      BY <2>2 DEF IInv, Stored
    <3>2. bytes <= size
      BY <1>1, <2>2, ByteIoAssumption DEF IInv, Progress, MidSteps, LastSteps
    <3> QED  BY <1>1, <3>1, <3>2
  <2> QED  BY <2>1, <2>2 DEF WriteSteps
<1>3. \E k \in 0 .. size : WillPrefix(k)
  BY <1>2 DEF Prefix, WillPrefix, rangeVars
<1>4. /\ Progress' /\ pc' = "idle" /\ result' = "error" /\ buf' = Zeros
      /\ bytes' \in Nat /\ sectors' \in Nat
  BY Finishes DEF Fail
<1>5. SectorReady'
  BY <1>4 DEF SectorReady
<1> QED  BY <1>1, <1>3, <1>4, <1>5, Writing

LEMMA WritesReadFirst == IInv /\ WriteReadFirst => IInv'
<1> SUFFICES ASSUME IInv, WriteReadFirst PROVE IInv'  OBVIOUS
<1>1. /\ Types /\ pc = "write_read_first" /\ pc \in WriteSteps /\ sectors = 0 /\ bytes = 0
      /\ size \in Nat \ {0} /\ contents = before /\ position \in Nat
      /\ IsBuffer(contents, DiskSize)
  BY DEF IInv, Types, Progress, FirstSteps, Stored, WriteReadFirst, WriteSteps
<1>2. UNCHANGED << contents, dest, rangeVars >>
  BY DEF WriteReadFirst
<1>3. CASE Fail
  BY <1>1, <1>2, <1>3, WriteFails
<1> DEFINE n == Min2(SectorSize - StartLocation, size)
<1>4. CASE /\ buf' = Copy(Copy(buf, 0, contents, NextSector, SectorSize),
                          StartLocation, Source, 0, n)
           /\ bytes' = n /\ pc' = "write_first" /\ UNCHANGED << sectors, result >>
  <2>1. n \in 0 .. size
    BY <1>1, Bases DEF Min2
  <2>2. SectorSize' = SectorSize /\ StartLocation' = StartLocation /\ size' = size
    BY <1>2 DEF StartLocation, rangeVars
  <2>3. Progress'
    BY <1>1, <1>4, <2>2 DEF Progress, FirstSteps, MidSteps, LastSteps
  <2> HIDE DEF n
  <2>4. IsBuffer(buf', SectorSize) /\ WillMix(0, n)
    BY <1>1, <1>2, <1>4, <2>1, Bases, FirstSector, SectorMixed
  <2>5. SectorReady'
    BY <1>4, <2>4 DEF SectorReady, Mixed, WillMix
  <2> QED  BY <1>1, <1>2, <1>4, <2>1, <2>3, <2>4, <2>5, Writing
<1> QED  BY <1>3, <1>4 DEF WriteReadFirst

LEMMA WritesFirst == IInv /\ WriteFirst => IInv'
<1> SUFFICES ASSUME IInv, WriteFirst PROVE IInv'  OBVIOUS
<1>1. /\ Types /\ pc = "write_first" /\ pc \in WriteSteps /\ sectors = 0
      /\ size \in Nat \ {0} /\ contents = before /\ position \in Nat
      /\ bytes = Min2(SectorSize - StartLocation, size)
      /\ Mixed(0, bytes) /\ IsBuffer(buf, SectorSize)
  BY DEF IInv, Types, Progress, FirstSteps, Stored, SectorReady, WriteFirst, WriteSteps
<1>2. UNCHANGED << dest, rangeVars >>
  BY DEF WriteFirst
<1>3. bytes \in 0 .. size /\ (bytes < size => bytes = SectorSize - StartLocation)
      /\ StartLocation + bytes <= SectorSize
  BY <1>1, Bases DEF Min2
<1>4. Prefix(0)
  BY <1>1, Distribute, ByteIoAssumption DEF Types, Prefix, Addresses, DiskSize
<1>5. ASSUME NEW m \in {0, SectorSize}, contents' = Copy(contents, NextSector, buf, 0, m)
      PROVE  /\ IsBuffer(contents', DiskSize)
             /\ m = 0 => WillPrefix(0)
             /\ m = SectorSize => WillPrefix(bytes)
  <2>1. PICK n \in Nat : n = bytes
    BY <1>3
  <2>2. /\ Mixed(0, n) /\ NextSector <= position + 0
        /\ position + 0 + n <= NextSector + SectorSize /\ 0 + n = n
    BY <1>1, <1>3, <2>1, Bases, FirstSector
  <2>3. /\ IsBuffer(contents', DiskSize)
        /\ m = 0 => WillPrefix(0)
        /\ m = SectorSize => WillPrefix(0 + n)
    BY <1>1, <1>2, <1>4, <1>5, <2>2, SectorPut
  <2> QED  BY <2>1, <2>2, <2>3
<1>6. CASE Put(buf, 0, SectorSize) /\ Advance(bytes, 1, buf, "write_mid", "write_read_last")
  <2>1. contents' = Copy(contents, NextSector, buf, 0, SectorSize)
    <3>1. (SectorSize \div SectorSize) * SectorSize = SectorSize
      BY OneSector, ByteIoAssumption
    <3> QED  BY <1>6, <3>1 DEF Put
  <2>2. bytes < size => (BaseSector + 1) * SectorSize = position + bytes
    <3>1. (BaseSector + 1) * SectorSize = BaseSector * SectorSize + 1 * SectorSize
      BY Bases, <1>1, Distribute
    <3> QED  BY <1>1, <1>3, <3>1, Bases
  <2>3. /\ Progress' /\ bytes' \in Nat /\ sectors' \in Nat
        /\ \/ pc' = "idle" /\ bytes = size /\ result' = "ok" /\ buf' = Zeros
           \/ pc' \in {"write_mid", "write_read_last"} /\ bytes' = bytes /\ buf' = buf
    BY <1>1, <1>2, <1>3, <1>6, <2>2, Advances DEF MidSteps
  <2>4. IsBuffer(contents', DiskSize) /\ WillPrefix(bytes)
    BY <1>5, <2>1
  <2>5. SectorReady'
    BY <2>3 DEF SectorReady
  <2> QED  BY <1>1, <1>2, <1>3, <2>3, <2>4, <2>5, Writing
<1>7. CASE PutSome(buf, 0, SectorSize) /\ Fail
  <2>1. PICK m \in {0, SectorSize} : contents' = Copy(contents, NextSector, buf, 0, m)
    BY <1>7, OneSector, ByteIoAssumption DEF PutSome
  <2>2. IsBuffer(contents', DiskSize) /\ \E k \in 0 .. size : WillPrefix(k)
    BY <1>1, <1>3, <1>5, <2>1
  <2>3. /\ Progress' /\ pc' = "idle" /\ result' = "error" /\ buf' = Zeros
        /\ bytes' \in Nat /\ sectors' \in Nat
    BY <1>7, Finishes DEF Fail
  <2> QED  BY <1>1, <1>2, <2>2, <2>3, Writing DEF SectorReady
<1> QED  BY <1>6, <1>7 DEF WriteFirst

LEMMA WritesMid == IInv /\ WriteMid => IInv'
<1> SUFFICES ASSUME IInv, WriteMid PROVE IInv'  OBVIOUS
<1>1. /\ Types /\ pc = "write_mid" /\ pc \in WriteSteps /\ NextSector = position + bytes
      /\ size \in Nat /\ bytes \in Nat /\ sectors \in Nat /\ position \in Nat
      /\ SectorSize \in Nat \ {0} /\ size - bytes >= SectorSize
      /\ IsBuffer(buf, SectorSize) /\ Prefix(bytes)
  BY ByteIoAssumption DEF IInv, Types, Progress, MidSteps, Stored, WriteMid, WriteSteps
<1>2. UNCHANGED << dest, rangeVars >> /\ size - bytes \in Nat
  BY <1>1 DEF WriteMid
<1> DEFINE whole == (size - bytes) \div SectorSize
<1>3. \A k \in 0 .. whole : k * SectorSize \in 0 .. size - bytes
  BY <1>2, WholeSectors
<1>4. whole \in Nat
  BY <1>1, <1>2, DivMod
<1> HIDE DEF whole
<1>5. ASSUME NEW k \in 0 .. whole, contents' = Copy(contents, NextSector, Source, bytes, k * SectorSize)
      PROVE  /\ IsBuffer(contents', DiskSize) /\ WillPrefix(bytes + k * SectorSize)
             /\ bytes + k * SectorSize \in 0 .. size
  <2>1. k * SectorSize \in Nat /\ bytes + k * SectorSize <= size
    BY <1>1, <1>3
  <2> QED  BY <1>1, <1>2, <1>5, <2>1, SourcePut
<1>6. CASE PutSome(Source, bytes, size - bytes) /\ Fail
  <2>1. PICK k \in 0 .. whole : contents' = Copy(contents, NextSector, Source, bytes, k * SectorSize)
    BY <1>6 DEF PutSome, whole
  <2>2. IsBuffer(contents', DiskSize) /\ \E k0 \in 0 .. size : WillPrefix(k0)
    BY <1>5, <2>1
  <2>3. /\ Progress' /\ pc' = "idle" /\ result' = "error" /\ buf' = Zeros
        /\ bytes' \in Nat /\ sectors' \in Nat
    BY <1>6, Finishes DEF Fail
  <2> QED  BY <1>1, <1>2, <2>2, <2>3, Writing DEF SectorReady
<1>7. CASE /\ Put(Source, bytes, size - bytes)
           /\ Advance(bytes + whole * SectorSize, sectors + whole, buf,
                      "write_mid", "write_read_last")
  <2> DEFINE b == bytes + whole * SectorSize
  <2>1. b \in 0 .. size /\ sectors + whole \in Nat
    BY <1>1, <1>3, <1>4
  <2>2. (BaseSector + (sectors + whole)) * SectorSize = position + b
    <3>1. whole * SectorSize \in Nat
      BY <1>1, <1>3, <1>4
    <3> QED  BY <1>1, <1>4, <3>1, MoreSectors
  <2>3. IsBuffer(contents', DiskSize) /\ WillPrefix(b)
    BY <1>4, <1>5, <1>7 DEF Put, whole
  <2> HIDE DEF b
  <2>4. Advance(b, sectors + whole, buf, "write_mid", "write_read_last")
    BY <1>7 DEF b
  <2>5. /\ Progress' /\ bytes' \in Nat /\ sectors' \in Nat
        /\ \/ pc' = "idle" /\ b = size /\ result' = "ok" /\ buf' = Zeros
           \/ pc' \in {"write_mid", "write_read_last"} /\ bytes' = b /\ buf' = buf
    BY <1>1, <1>2, <2>1, <2>2, <2>4, Advances DEF MidSteps
  <2>6. SectorReady'
    BY <2>5 DEF SectorReady
  <2> QED  BY <1>1, <1>2, <2>1, <2>3, <2>5, <2>6, Writing
<1> QED  BY <1>6, <1>7 DEF WriteMid, whole

LEMMA WritesReadLast == IInv /\ WriteReadLast => IInv'
<1> SUFFICES ASSUME IInv, WriteReadLast PROVE IInv'  OBVIOUS
<1>1. /\ Types /\ pc = "write_read_last" /\ pc \in WriteSteps /\ NextSector = position + bytes
      /\ size \in Nat /\ bytes \in Nat /\ sectors \in Nat /\ position \in Nat
      /\ bytes < size /\ size - bytes < SectorSize
      /\ IsBuffer(contents, DiskSize) /\ Prefix(bytes)
  BY DEF IInv, Types, Progress, LastSteps, Stored, WriteReadLast, WriteSteps
<1>2. UNCHANGED << contents, dest, rangeVars >>
  BY DEF WriteReadLast
<1>3. CASE Fail
  BY <1>1, <1>2, <1>3, WriteFails
<1>4. CASE /\ buf' = Copy(Copy(buf, 0, contents, NextSector, SectorSize),
                          0, Source, bytes, size - bytes)
           /\ pc' = "write_last" /\ UNCHANGED << bytes, sectors, result >>
  <2>1. size - bytes \in Nat /\ bytes + (size - bytes) = size
    BY <1>1
  <2>2. IsBuffer(buf', SectorSize) /\ WillMix(bytes, size - bytes)
    BY <1>1, <1>2, <1>4, <2>1, SectorMixed
  <2>3. Progress'
    <3>1. NextSector' = NextSector
      BY <1>2, <1>4 DEF NextSector, BaseSector, rangeVars
    <3> QED  BY <1>1, <1>2, <1>4, <3>1 DEF Progress, FirstSteps, MidSteps, LastSteps, rangeVars
  <2>4. SectorReady'
    BY <1>2, <1>4, <2>2 DEF SectorReady, Mixed, WillMix, rangeVars
  <2>5. WillPrefix(bytes')
    BY <1>1, <1>2, <1>4 DEF Prefix, WillPrefix, rangeVars
  <2> QED  BY <1>1, <1>2, <1>4, <2>2, <2>3, <2>4, <2>5, Writing
<1> QED  BY <1>3, <1>4 DEF WriteReadLast

LEMMA WritesLast == IInv /\ WriteLast => IInv'
<1> SUFFICES ASSUME IInv, WriteLast PROVE IInv'  OBVIOUS
<1>1. /\ Types /\ pc = "write_last" /\ pc \in WriteSteps /\ NextSector = position + bytes
      /\ size \in Nat /\ bytes \in Nat /\ position \in Nat /\ sectors \in Nat
      /\ bytes < size /\ size - bytes < SectorSize
      /\ Prefix(bytes) /\ Mixed(bytes, size - bytes)
  BY DEF IInv, Types, Progress, LastSteps, Stored, SectorReady, WriteLast, WriteSteps
<1>2. UNCHANGED << dest, rangeVars >>
  BY DEF WriteLast
<1>3. ASSUME NEW m \in {0, SectorSize}, contents' = Copy(contents, NextSector, buf, 0, m)
      PROVE  /\ IsBuffer(contents', DiskSize)
             /\ m = 0 => WillPrefix(bytes)
             /\ m = SectorSize => WillPrefix(size)
  <2>1. PICK b \in Nat, n \in Nat : b = bytes /\ n = size - bytes
    BY <1>1
  <2>2. /\ Mixed(b, n) /\ Prefix(b) /\ NextSector <= position + b
        /\ position + b + n <= NextSector + SectorSize /\ b + n = size
    BY <1>1, <2>1, ByteIoAssumption
  <2>3. /\ IsBuffer(contents', DiskSize)
        /\ m = 0 => WillPrefix(b)
        /\ m = SectorSize => WillPrefix(b + n)
    BY <1>1, <1>2, <1>3, <2>2, SectorPut
  <2> QED  BY <2>1, <2>2, <2>3
<1>4. size - ((position + size) % SectorSize) = bytes
  <2>1. NextSector = (BaseSector + sectors) * SectorSize /\ BaseSector + sectors \in Nat
    BY <1>1, Bases DEF NextSector
  <2>2. position + size = (BaseSector + sectors) * SectorSize + (size - bytes)
    BY <1>1, <2>1
  <2>3. size - bytes \in 0 .. SectorSize - 1 /\ SectorSize \in Nat \ {0}
    BY <1>1, ByteIoAssumption
  <2>4. ((BaseSector + sectors) * SectorSize + (size - bytes)) % SectorSize = size - bytes
    BY <2>1, <2>3, Remainder
  <2> QED  BY <1>1, <2>2, <2>4
<1>5. PICK m \in {0, SectorSize} :
        /\ contents' = Copy(contents, NextSector, buf, 0, m)
        /\ m = SectorSize \/ tail_lost'
  <2>1. (SectorSize \div SectorSize) * SectorSize = SectorSize
    BY OneSector, ByteIoAssumption
  <2>2. CASE Put(buf, 0, SectorSize)
    BY <2>1, <2>2 DEF Put
  <2>3. CASE PutSome(buf, 0, SectorSize) /\ tail_lost'
    BY <2>3, OneSector, ByteIoAssumption DEF PutSome
  <2> QED  BY <2>2, <2>3 DEF WriteLast
<1>6. /\ IsBuffer(contents', DiskSize) /\ \E k \in 0 .. size : WillPrefix(k)
      /\ \/ WillPrefix(size)
         \/ tail_lost' /\ WillPrefix(size - ((position + size) % SectorSize))
  BY <1>1, <1>3, <1>4, <1>5
<1>7. /\ Progress' /\ pc' = "idle" /\ result' = "ok" /\ buf' = Zeros
      /\ bytes' \in Nat /\ sectors' \in Nat
  BY Finishes DEF WriteLast
<1> QED  BY <1>1, <1>2, <1>6, <1>7, Writing DEF SectorReady

LEMMA ByteNext == IInv /\ [ByteIoNext]_byteIoVars => IInv'
<1> SUFFICES ASSUME IInv, [ByteIoNext]_byteIoVars PROVE IInv'  OBVIOUS
<1>1. DiskSize \in Nat
  BY Distribute, ByteIoAssumption DEF DiskSize
<1>2. ASSUME NEW p \in Addresses, NEW n \in 0 .. DiskSize - p,
             CallRead(p, n, DiskSize) \/ CallRead(p, DiskSize, n)
      PROVE  IInv'
  <2>1. PICK m \in Nat :
          /\ pc = "idle" /\ kind' = "read" /\ position' = p /\ size' = m
          /\ dest' = [i \in 0 .. m - 1 |-> <<0, 0>>]
          /\ pc' = IF m = 0 THEN "idle" ELSE "read_first"
    <3>1. Min2(n, DiskSize) \in Nat /\ Min2(DiskSize, n) \in Nat
      BY <1>1 DEF Min2
    <3> QED  BY <1>2, <3>1 DEF CallRead
  <2>2. result' = "ok" /\ before' = contents /\ UNCHANGED << contents, bytes, sectors, buf, writes >>
    BY <1>2 DEF CallRead
  <2> QED  BY <1>1, <2>1, <2>2, Begins DEF Addresses
<1>3. ASSUME NEW p \in Addresses, NEW n \in 0 .. DiskSize - p, CallWrite(p, n)
      PROVE  IInv'
  BY <1>1, <1>3, Begins DEF CallWrite, Addresses
<1>4. CASE UNCHANGED byteIoVars
  <2>1. UNCHANGED << contents, pc, bytes, sectors, buf, dest, result, tail_lost, kind,
                     position, size, writes, before >>
    BY <1>4 DEF byteIoVars, rangeVars
  <2>2. Types'
    BY <2>1 DEF IInv, Types, IsBuffer, DiskSize
  <2>3. Progress'
    BY <2>1 DEF IInv, Progress, StartLocation, NextSector, BaseSector
  <2>4. Stored'
    BY <2>1 DEF IInv, Stored, Prefix, Returned, Addresses, DiskSize
  <2>5. SectorReady'
    BY <2>1 DEF IInv, SectorReady, Mixed, NextSector, BaseSector
  <2>6. Delivered'
    BY <2>1 DEF IInv, Delivered, Filled, Returned
  <2> QED  BY <2>2, <2>3, <2>4, <2>5, <2>6 DEF IInv
<1> QED  BY <1>2, <1>3, <1>4, ReadsFirst, ReadsMid, ReadsLast, WritesReadFirst, WritesFirst,
            WritesMid, WritesReadLast, WritesLast DEF ByteIoNext

-----------------------------------------------------------------------------
(* The invariant and what follows from it.                                 *)

(* Every call keeps the inductive invariant.                               *)
THEOREM Invariant == ByteIoSpec => []IInv
<1> QED  BY ByteInit, ByteNext, PTL DEF ByteIoSpec

(* Prefix and WithPrefix say the same.                                     *)
LEMMA PrefixIs ==
  ASSUME Types, NEW k \in Int, k <= size, Prefix(k)
  PROVE  contents = WithPrefix(k)
<1>1. size \in Nat /\ position \in Nat /\ DiskSize \in Nat /\ Addresses = 0 .. DiskSize - 1
  BY Distribute, ByteIoAssumption DEF Types, DiskSize, Addresses
<1>2. /\ IsBuffer(WithPrefix(k), DiskSize)
      /\ \A a \in Addresses :
           WithPrefix(k)[a] = IF position <= a /\ a < position + k
                              THEN Source[0 + a - position] ELSE before[a]
  BY <1>1, CopyAt DEF Types, WithPrefix
<1>3. ASSUME NEW a \in Addresses PROVE WithPrefix(k)[a] = contents[a]
  <2>1. CASE position <= a /\ a < position + k
    <3>1. 0 + a - position = a - position /\ a - position \in 0 .. size - 1
      BY <1>1, <2>1
    <3>2. Source[a - position] = <<writes, a - position>>
      BY <3>1 DEF Source
    <3> QED  BY <1>2, <2>1, <3>1, <3>2 DEF Prefix
  <2>2. CASE ~ (position <= a /\ a < position + k)
    BY <1>2, <2>2 DEF Prefix
  <2> QED  BY <2>1, <2>2
<1> QED  BY <1>1, <1>2, <1>3 DEF Types, IsBuffer

(* At every moment of a write, whatever driver call has failed, the device *)
(* is what it was with a prefix of the new bytes in place, and a read      *)
(* changes nothing: ctr_io_implementation_write and its copy.              *)
THEOREM PrefixWritten == ByteIoSpec => []OnlyAPrefixWritten
<1>1. ASSUME IInv PROVE OnlyAPrefixWritten
  <2>1. Types /\ size \in Nat /\ bytes \in Nat /\ kind \in {"read", "write"}
    BY <1>1 DEF IInv, Types
  <2>2. CASE kind = "read"
    BY <1>1, <2>2 DEF IInv, Stored, OnlyAPrefixWritten
  <2>3. CASE kind = "write"
    <3>1. \E k \in 0 .. size : Prefix(k)
      <4>1. CASE pc = "idle"
        BY <1>1, <2>3, <4>1 DEF IInv, Stored
      <4>2. CASE pc \in {"write_read_first", "write_first"}
        <5>1. Prefix(0)
          BY <1>1, <2>1, <4>2, Distribute, ByteIoAssumption
          DEF IInv, Types, Stored, Prefix, Addresses, DiskSize
        <5> QED  BY <2>1, <5>1
      <4>3. CASE pc \in {"write_mid", "write_read_last", "write_last"}
        <5>1. Prefix(bytes) /\ bytes <= size
          BY <1>1, <2>1, <4>3, ByteIoAssumption
          DEF IInv, Stored, Progress, MidSteps, LastSteps
        <5> QED  BY <2>1, <5>1
      <4> QED  BY <2>1, <2>3, <4>1, <4>2, <4>3 DEF Types, ReadSteps, WriteSteps
    <3> QED  BY <2>1, <2>3, <3>1, PrefixIs DEF OnlyAPrefixWritten
  <2> QED  BY <2>1, <2>2, <2>3
<1> QED  BY <1>1, Invariant, PTL

(* A write that returned 0 has stored all its bytes, except those of a     *)
(* last sector whose error the code does not look at.                      *)
THEOREM WrittenOnSuccess == ByteIoSpec => []WrittenButForTail
<1>1. ASSUME IInv, kind = "write", Returned
      PROVE  \/ contents = WithPrefix(size)
             \/ tail_lost /\ contents = WithPrefix(size - ((position + size) % SectorSize))
  <2>1. Types /\ size \in Nat /\ position \in Nat
    BY <1>1 DEF IInv, Types
  <2>2. CASE Prefix(size)
    BY <2>1, <2>2, PrefixIs
  <2>3. CASE tail_lost /\ Prefix(size - ((position + size) % SectorSize))
    <3>1. (position + size) % SectorSize \in Nat
      BY <2>1, DivMod, ByteIoAssumption
    <3> QED  BY <2>1, <2>3, <3>1, PrefixIs
  <2> QED  BY <1>1, <2>2, <2>3 DEF IInv, Stored
<1> QED  BY <1>1, Invariant, PTL DEF WrittenButForTail

(* A read delivers the bytes of its range, in order and in place, at every *)
(* position and length.                                                    *)
THEOREM RangeRead == ByteIoSpec => []ReadsTheRange
<1>1. IInv => ReadsTheRange
  BY DEF IInv, Types, Delivered, Filled, ReadsTheRange, WriteSteps
<1> QED  BY <1>1, Invariant, PTL
=============================================================================
