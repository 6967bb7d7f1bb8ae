-------------------------------- MODULE Aes --------------------------------
(***************************************************************************)
(* The AES engine and the calls that feed it (aes.c).  A call works on a   *)
(* buffer of blocks, in chunks no longer than the block counter of the     *)
(* engine can count.  In a chunk the processor pushes up to Batch blocks   *)
(* into the write FIFO word by word and pops them from the read FIFO, with *)
(* no check between the words, while the engine turns blocks around at its *)
(* own pace.                                                               *)
(*                                                                         *)
(* The data is abstract: block i of the input is i, the block the engine   *)
(* makes of it is -i, and 0 is the initial vector of the caller.  Nothing  *)
(* is taken from a FIFO but in order, so a FIFO is the difference of two   *)
(* counters.                                                               *)
(***************************************************************************)
EXTENDS Integers

CONSTANTS
    Capacity,   \* words a FIFO holds: 16
    Batch,      \* blocks pushed before they are read back: 4
    MaxChunk,   \* what the engine's block counter can hold: 0xFFFF
    Word,       \* values of a word of the counter: 2^32
    Counters,   \* counters a call may start from
    MaxBlocks   \* bound: blocks of a call

WordsPerBlock == 4  \* AES_BLOCK_SIZE over the size of a word

ASSUME SizesAssumption ==
    /\ Batch \in Nat \ {0} /\ Capacity \in Nat
    /\ WordsPerBlock * Batch <= Capacity
ASSUME ChunkAssumption == MaxChunk \in Nat \ {0} /\ Word \in Nat /\ MaxChunk < Word

\* Four words, the highest first: a counter of 128 bits.
WordRange == 0..(Word - 1)
Limbs == {<<a, b, c, d>> : a, b, c, d \in WordRange}

ASSUME CountersAssumption ==
    Counters \subseteq Limbs
ASSUME BoundAssumption == MaxBlocks \in Nat

CBC == {"cbc_decrypt", "cbc_encrypt"}
Modes == CBC \union {"ctr", "ecb"}

\* A call: its mode, its blocks, whether it works in place, its first counter.
Requests == [mode : Modes, n : 0..MaxBlocks, inPlace : BOOLEAN, start : Counters]

VARIABLES
    req,      \* the call
    stage,    \* where it is
    base,     \* blocks of the chunks that are done
    blocks,   \* blocks of this chunk
    cur,      \* curblock: blocks of this chunk in the batches that are done
    pushed,   \* words of this chunk pushed into the write FIFO
    popped,   \* words of this chunk popped from the read FIFO
    taken,    \* blocks of this chunk the engine has turned around
    chain,    \* the engine's counter (CTR) or the block it chains with (CBC)
    ctr,      \* the counter in the caller's memory (CTR), first word highest
    prev,     \* the chaining block in the caller's memory (CBC)
    fed,      \* fed[i]: what was pushed as block i of the call
    chained   \* chained[i]: the counter or block that block i was combined with

program == <<req, stage, base, blocks, cur>>
fifos == <<pushed, popped, taken>>
aesVars == <<program, fifos, chain, ctr, prev, fed, chained>>

-----------------------------------------------------------------------------
(* The counter of 128 bits, in four words with the highest first.          *)

M == Word * Word * Word * Word
Value(c) == ((c[1] * Word + c[2]) * Word + c[3]) * Word + c[4]

Sum(c, carry) == (c + carry) % Word
\* Slip: no carry into the next word.
LostCarry(c, carry) == 0

CarryOut(c, carry) == IF Sum(c, carry) < c THEN 1 ELSE 0

\* add_ctr: word by word from the lowest, a carry whenever a sum has wrapped.
AddCtr(c, n) ==
    LET k3 == CarryOut(c[4], n)
        k2 == CarryOut(c[3], k3)
        k1 == CarryOut(c[2], k2)
    IN  <<Sum(c[1], k1), Sum(c[2], k2), Sum(c[3], k3), Sum(c[4], n)>>

-----------------------------------------------------------------------------
(* The FIFOs.                                                              *)

InWrite == pushed - WordsPerBlock * taken
InRead == WordsPerBlock * taken - popped

checkwrite == InWrite > Capacity - 1
\* Slip: a wait for more than a block.
PickyCheckread == InRead <= WordsPerBlock

checkread == InRead <= WordsPerBlock - 1

\* Slip: a batch one block too long.
LongBatch == IF blocks - cur > Batch + 1 THEN Batch + 1 ELSE blocks - cur

\* blocks_to_read: the blocks of the batch at curblock.
BatchSize == IF blocks - cur > Batch THEN Batch ELSE blocks - cur

\* The blocks in the 16 bits of REG_AESBLKCNT: a longer chunk wraps.
BlockCount == blocks % (MaxChunk + 1)

\* Slip: the last input block saved after it was decrypted in place.
LateInput(i) == IF req.inPlace THEN -i ELSE i

\* Block i of the input, as it is in memory now.
Input(i) ==
    IF req.inPlace /\ WordsPerBlock * i <= WordsPerBlock * base + popped THEN -i ELSE i

-----------------------------------------------------------------------------
AesInit ==
    /\ req \in Requests /\ req.n = 0 /\ stage = "idle"
    /\ base = 0 /\ blocks = 0 /\ cur = 0 /\ pushed = 0 /\ popped = 0 /\ taken = 0
    /\ chain = 0 /\ ctr = req.start /\ prev = 0
    /\ fed = [i \in 1..MaxBlocks |-> 0] /\ chained = [i \in 1..MaxBlocks |-> 0]

\* A caller enters ecb_decrypt, cbc_decrypt or ctr_decrypt with a counter of
\* its own; what was pushed and chained is recorded anew.
Call(r) ==
    /\ stage = "idle"
    /\ req' = r /\ stage' = "chunk" /\ base' = 0
    /\ ctr' = r.start /\ prev' = 0 /\ chain' = 0
    /\ fed' = [i \in 1..MaxBlocks |-> 0] /\ chained' = [i \in 1..MaxBlocks |-> 0]
    /\ UNCHANGED <<blocks, cur, fifos>>

\* Slip: 0x10000 blocks, which the block counter holds as none.
LongChunk(left) == IF left >= MaxChunk + 1 THEN MaxChunk + 1 ELSE left

ChunkSize(left) == IF left >= MaxChunk THEN MaxChunk ELSE left

\* The chunk loop: load the counter (not in ECB), save the last input block
\* for the next chunk (CBC), set the engine up with its FIFOs flushed.
NextChunk ==
    LET size == ChunkSize(req.n - base) IN
    /\ stage = "chunk" /\ base < req.n
    /\ blocks' = size /\ cur' = 0
    /\ chain' = CASE req.mode = "ctr" -> Value(ctr)
                  [] req.mode \in CBC -> prev
                  [] OTHER -> chain
    /\ prev' = IF req.mode \in CBC THEN Input(base + size) ELSE prev
    /\ pushed' = 0 /\ popped' = 0 /\ taken' = 0
    /\ stage' = "batch"
    /\ UNCHANGED <<req, base, ctr, fed, chained>>

\* The batch loop: the chunk is done, or the write FIFO must have room.
EndChunk ==
    /\ stage = "batch" /\ cur = blocks
    /\ ctr' = IF req.mode = "ctr" THEN AddCtr(ctr, blocks) ELSE ctr
    /\ base' = base + blocks /\ stage' = "chunk"
    /\ blocks' = 0 /\ cur' = 0 /\ pushed' = 0 /\ popped' = 0 /\ taken' = 0
    /\ UNCHANGED <<req, chain, prev, fed, chained>>

StartBatch ==
    /\ stage = "batch" /\ cur # blocks /\ ~checkwrite
    /\ stage' = "push"
    /\ UNCHANGED <<req, base, blocks, cur, fifos, chain, ctr, prev, fed, chained>>

\* set_aeswrfifo: one word of the batch; the last one ends the pushing.
Push ==
    /\ stage = "push"
    /\ pushed' = pushed + 1
    /\ fed' = LET i == base + pushed \div WordsPerBlock + 1
              IN  IF pushed % WordsPerBlock = 0 THEN [fed EXCEPT ![i] = Input(i)] ELSE fed
    /\ stage' = IF pushed + 1 = WordsPerBlock * (cur + BatchSize) THEN "poll" ELSE "push"
    /\ UNCHANGED <<req, base, blocks, cur, popped, taken, chain, ctr, prev, chained>>

\* Wait until the read FIFO holds a block.
Poll ==
    /\ stage = "poll" /\ ~checkread
    /\ stage' = "pop"
    /\ UNCHANGED <<req, base, blocks, cur, fifos, chain, ctr, prev, fed, chained>>

\* read_aesrdfifo: one word; then the next block of the batch, or the next batch.
Pop ==
    LET size == BatchSize IN
    /\ stage = "pop"
    /\ popped' = popped + 1
    /\ \/ (popped + 1) % WordsPerBlock # 0 /\ UNCHANGED <<stage, cur>>
       \/ /\ (popped + 1) % WordsPerBlock = 0
          /\ IF popped + 1 = WordsPerBlock * (cur + size)
             THEN stage' = "batch" /\ cur' = cur + size
             ELSE stage' = "poll" /\ UNCHANGED cur
    /\ UNCHANGED <<req, base, blocks, pushed, taken, chain, ctr, prev, fed, chained>>

Return ==
    /\ stage = "chunk" /\ base = req.n
    /\ stage' = "idle"
    /\ UNCHANGED <<req, base, blocks, cur, fifos, chain, ctr, prev, fed, chained>>

\* The engine takes a block when the write FIFO holds one and the read FIFO
\* has room for it, for as many blocks as its counter was set to.
Engine ==
    LET i == base + taken + 1 IN
    /\ stage \in {"batch", "push", "poll", "pop"}
    /\ taken < BlockCount
    /\ InWrite >= WordsPerBlock /\ InRead + WordsPerBlock <= Capacity
    /\ taken' = taken + 1
    /\ chained' = [chained EXCEPT ![i] = IF req.mode = "ecb" THEN 0 ELSE chain]
    /\ chain' = CASE req.mode = "ctr" -> (chain + 1) % M
                  [] req.mode = "cbc_decrypt" -> fed[i]
                  [] req.mode = "cbc_encrypt" -> -i
                  [] OTHER -> chain
    /\ UNCHANGED <<program, pushed, popped, ctr, prev, fed>>

Program == NextChunk \/ EndChunk \/ StartBatch \/ Push \/ Poll \/ Pop \/ Return
AesNext == (\E r \in Requests : Call(r)) \/ Program \/ Engine

\* The processor runs the call to its end and the engine does not stall.
AesSpec == AesInit /\ [][AesNext]_aesVars /\ WF_aesVars(Program) /\ WF_aesVars(Engine)

-----------------------------------------------------------------------------
\* Types: every counter is within the chunk, and the chunk within the call.
AesTypeOK ==
    /\ req \in Requests
    /\ stage \in {"idle", "chunk", "batch", "push", "poll", "pop"}
    /\ base \in 0..req.n /\ blocks \in 0..MaxChunk /\ base + blocks <= req.n
    /\ cur \in 0..blocks
    /\ pushed \in 0..(WordsPerBlock * blocks) /\ popped \in 0..(WordsPerBlock * blocks)
    /\ taken \in 0..blocks
    /\ chain \in Int /\ prev \in Int
    /\ ctr \in Limbs
    /\ fed \in [1..MaxBlocks -> Int] /\ chained \in [1..MaxBlocks -> Int]

\* A word is never pushed into a full FIFO nor popped from an empty one,
\* though the write FIFO is looked at once for a whole batch and only for
\* "not full": every batch is read back before the next is pushed.
FifosBounded ==
    /\ InWrite \in 0..Capacity /\ InRead \in 0..Capacity
    /\ stage = "push" => InWrite < Capacity
    /\ stage = "pop" => InRead > 0

\* What block i of the call has to be combined with: its own counter in CTR
\* mode, the input block before it when CBC decrypts, the output block before
\* it when CBC encrypts.
Expected(i) ==
    CASE req.mode = "ctr" -> (Value(req.start) + (i - 1)) % M
      [] req.mode = "cbc_decrypt" -> i - 1
      [] req.mode = "cbc_encrypt" -> 1 - i
      [] OTHER -> 0

\* Every block the engine has turned around was the caller's own input, also
\* in place, and was combined with what its mode says, over the chunks of a
\* call and carries of the counter.  cbc_decrypt serves encryption too, and
\* there the last block of input, not of output, is kept for the next chunk:
\* an encryption is chained as it should be in its first chunk only.
BlocksChained ==
    \A i \in 1..(base + taken) :
        /\ fed[i] = i
        /\ (req.mode = "cbc_encrypt" /\ i > MaxChunk) \/ chained[i] = Expected(i)

\* A call ends: the two waits on the engine do not wait for each other.
CallEnds == stage # "idle" ~> stage = "idle"

=============================================================================
