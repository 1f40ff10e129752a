------------------------------ MODULE CidCodec ------------------------------
(***************************************************************************)
(* The connection-ID codec (algo.go): the table of bit positions, one      *)
(* shuffle for every seed, and the encoding that splits each payload bit   *)
(* over two positions of the wire ID, one of them pure noise.  Both ends   *)
(* build the same table, so a wire ID carries its seed and nothing else.   *)
(*                                                                         *)
(* A bit is a Boolean and a bit string a function from its positions.      *)
(* The names of the specification begin with Codec, so that a module can   *)
(* extend this one together with CidTranslation.                           *)
(***************************************************************************)
EXTENDS Integers, Functions

CONSTANTS
  PayloadBits,  \* 56: the bits of a connection ID that are kept
  NumSeeds      \* 2^16: the seeds, 0 .. NumSeeds-1

ASSUME CodecConstants ==
  /\ PayloadBits \in Nat \ {0}
  /\ NumSeeds \in Nat \ {0}

EncodedBits == 2 * PayloadBits

Bits == 0..PayloadBits-1
Positions == 0..EncodedBits-1
Payloads == [Bits -> BOOLEAN]
Ciphers == [Positions -> BOOLEAN]

VARIABLES
  s,             \* the seed whose row is being computed
  i,             \* the position the shuffle is about to fill
  idx,           \* the row so far
  indicesTable   \* the finished rows

codecVars == <<s, i, idx, indicesTable>>

Identity == [p \in Positions |-> p]

CodecTypeOK ==
  /\ s \in 0..NumSeeds
  /\ i \in Positions
  /\ idx \in [Positions -> Positions]
  /\ indicesTable \in [0..s-1 -> [Positions -> Positions]]

CodecInit ==
  /\ s = 0
  /\ i = EncodedBits - 1
  /\ idx = Identity
  /\ indicesTable = [seed \in {} |-> Identity]

\* Mutants of Swap: the loop runs down to 0, and the swap without a temporary.
SwapPastEnd(j) ==
  /\ s < NumSeeds
  /\ idx' = [idx EXCEPT ![i] = idx[j], ![j] = idx[i]]
  /\ i' = i - 1
  /\ UNCHANGED <<s, indicesTable>>

SwapOverwrites(j) ==
  /\ s < NumSeeds
  /\ i > 0
  /\ idx' = [idx EXCEPT ![i] = idx[j]]
  /\ i' = i - 1
  /\ UNCHANGED <<s, indicesTable>>

\* One round of precomputeIndices' shuffle; rng.Intn(i + 1) is any of 0..i.
Swap(j) ==
  /\ s < NumSeeds
  /\ i > 0
  /\ idx' = [idx EXCEPT ![i] = idx[j], ![j] = idx[i]]
  /\ i' = i - 1
  /\ UNCHANGED <<s, indicesTable>>

\* The row of a seed is complete: store it and start the next.
StoreRow ==
  /\ s < NumSeeds
  /\ i = 0
  /\ indicesTable' = [seed \in 0..s |-> IF seed = s THEN idx ELSE indicesTable[seed]]
  /\ s' = s + 1
  /\ i' = EncodedBits - 1
  /\ idx' = Identity

\* indicesOnce: the table is never computed again.
Computed ==
  /\ s = NumSeeds
  /\ UNCHANGED codecVars

CodecNext == (\E j \in 0..i : Swap(j)) \/ StoreRow \/ Computed

CodecSpec == CodecInit /\ [][CodecNext]_codecVars

-----------------------------------------------------------------------------
(***************************************************************************)
(* Obfuscate.  Bit b of the payload m is hidden by bit b of the noise r:   *)
(* their difference goes to one position, the noise bit to another.        *)
(***************************************************************************)
Encode(indices, m, r) ==
  [p \in Positions |->
     \E b \in Bits : \/ p = indices[b] /\ (r[b] # m[b])
                     \/ p = indices[b + PayloadBits] /\ r[b] ]

\* The seed takes the first two bytes of the wire ID, the cipher the others.
Obfuscate(m, r, rngSeed) ==
  [seed |-> rngSeed, cipher |-> Encode(indicesTable[rngSeed], m, r)]

\* Mutant of Decode: pairs neighbouring positions of the row.
DecodePairs(indices, c) ==
  [b \in Bits |-> c[indices[2 * b]] # c[indices[2 * b + 1]]]

\* Deobfuscate: the difference of the two positions.
Decode(indices, c) ==
  [b \in Bits |-> c[indices[b]] # c[indices[b + PayloadBits]]]

Deobfuscate(w) == Decode(indicesTable[w.seed], w.cipher)

-----------------------------------------------------------------------------
(***************************************************************************)
(* No two bits of an encoding share a position: whatever the generator     *)
(* draws, every finished row is a permutation of the positions.            *)
(***************************************************************************)
RowsInjective == \A seed \in DOMAIN indicesTable : IsInjective(indicesTable[seed])

(***************************************************************************)
(* Whoever gets a wire ID recovers the first 56 bits of the real one, from *)
(* the seed in it alone: for every seed, every noise, every ID.            *)
(***************************************************************************)
RoundTrip ==
  \A seed \in DOMAIN indicesTable, m, r \in Payloads :
    Deobfuscate(Obfuscate(m, r, seed)) = m

=============================================================================
