------------------------ MODULE CidTranslationProofs ------------------------
(***************************************************************************)
(* Theorems about CidTranslation, for every set of connection IDs, equal   *)
(* prefixes included, and every network: none of them bounds what is lost, *)
(* late or sent twice; and, at the end, about CidCodec, whose decoding the *)
(* caches rely on.                                                         *)
(***************************************************************************)
EXTENDS CidTranslation, CidCodec, TLAPS

(***************************************************************************)
(* The inductive invariant.  A packet shows its ID or an encoding of its   *)
(* prefix; a cache files each ID under its own first 56 bits, and finds    *)
(* every real ID it has, or another one with the same bits, there.         *)
(***************************************************************************)
WiresFit ==
  \A p \in net : \/ p.wire = p.cid
                 \/ /\ p.wire \in Obfuscated
                    /\ p.wire.prefix = Prefix[p.cid]

IndexFits ==
  \A k \in CacheNames :
    /\ \A h \in DOMAIN index[k] : Head56(index[k][h]) = h
    /\ \A c \in entries[k] \cap Cids :
         Prefix[c] # Zero => Prefix[c] \in DOMAIN index[k]

IInv == TypeOK /\ WiresFit /\ IndexFits /\ NeverMisrouted

\* What the network and the senders may have done to a packet's fields.
LEMMA PacketFields ==
  ASSUME TypeOK, NEW p \in net
  PROVE  /\ p.cid \in Cids
         /\ p.wire \in Wires
         /\ p.src \in Addrs
         /\ GetCache(p.src) \in CacheNames
BY DEF TypeOK, Packet, GetCache, CacheNames

\* A new packet is counted and shows what WriteTo made of its ID.
LEMMA WriteToStep ==
  ASSUME IInv, NEW c \in Cids, NEW seed \in Seeds, NEW copies \in {1, 2},
         WriteTo(c, seed, copies)
  PROVE  IInv'
<1> DEFINE count == txCounts[c] + 1
           wire == Shown(c, seed, count)
           new == [cid : {c}, count : {count}, wire : {wire},
                   copy : 1..copies, src : {from}]
<1>1. wire = c \/ (wire \in Obfuscated /\ wire.prefix = Prefix[c])
  BY CidConstants DEF Shown, Obfuscated, Prefixes
<1>2. new \subseteq Packet
  BY <1>1 DEF Packet, Wires, IInv, TypeOK
<1>3. \A p \in new : p.cid = c /\ p.wire = wire
  OBVIOUS
<1>4. /\ txCounts' = [txCounts EXCEPT ![c] = count]
      /\ sent < MaxSend
      /\ net' = net \cup new
      /\ sent' = sent + 1
      /\ UNCHANGED <<from, arrived, entries, index, handed, tooSoon, inOrder>>
  BY DEF WriteTo
<1> HIDE DEF new, wire
<1>5. TypeOK'
  BY <1>2, <1>4, CidConstants DEF IInv, TypeOK
<1>6. WiresFit'
  BY <1>1, <1>3, <1>4 DEF IInv, WiresFit
<1> QED
  BY <1>4, <1>5, <1>6 DEF IInv, IndexFits, NeverMisrouted

\* AddReal keeps the index in order.
LEMMA AddRealStep ==
  ASSUME TypeOK, IndexFits, NEW k \in CacheNames, NEW w \in Wires, AddReal(k, w)
  PROVE  /\ entries' \in [CacheNames -> SUBSET Wires]
         /\ DOMAIN index' = CacheNames
         /\ \A j \in CacheNames :
              /\ DOMAIN index'[j] \subseteq Prefixes \cup Obfuscated
              /\ \A h \in DOMAIN index'[j] : index'[j][h] \in entries'[j]
         /\ IndexFits'
<1> USE DEF TypeOK
<1>1. entries' = [entries EXCEPT ![k] = @ \cup {w}]
  BY DEF AddReal
<1>2. entries' \in [CacheNames -> SUBSET Wires]
  BY <1>1
<1>3. Head56(w) \in Prefixes \cup Obfuscated
  BY DEF Head56, Wires, Prefixes
<1>4. CASE Head56(w) = Zero
  BY <1>1, <1>2, <1>4 DEF AddReal, IndexFits, Head56
<1>5. CASE Head56(w) # Zero
  <2> DEFINE row == [h \in DOMAIN index[k] \cup {Head56(w)} |->
                       IF h = Head56(w) THEN w ELSE index[k][h]]
  <2>1. index' = [index EXCEPT ![k] = row]
    BY <1>5 DEF AddReal
  <2>2. ASSUME NEW j \in CacheNames, j # k
        PROVE  index'[j] = index[j] /\ entries'[j] = entries[j]
    BY <1>1, <2>1, <2>2
  <2>3. index'[k] = row /\ DOMAIN index' = CacheNames
    BY <2>1
  <2> QED
    BY <1>1, <1>2, <1>3, <2>2, <2>3 DEF IndexFits, Head56
<1> QED
  BY <1>4, <1>5

\* What decoding a packet finds is an ID with the bits of the packet's own.
LEMMA FoundByDecoding ==
  ASSUME IInv, NEW p \in net, FindByDecoded56(GetCache(p.src), p.wire)
  PROVE  LET id == index[GetCache(p.src)][Deobfuscated(p.wire)]
         IN  p.wire \notin Cids /\ id \in Cids /\ Prefix[id] = Prefix[p.cid]
<1> DEFINE k == GetCache(p.src)
           h == Deobfuscated(p.wire)
           id == index[k][h]
<1>1. TypeOK /\ WiresFit /\ IndexFits
  BY DEF IInv
<1>2. p.cid \in Cids /\ p.wire \in Wires /\ k \in CacheNames
  BY <1>1, PacketFields
<1>3. h \in DOMAIN index[k]
  BY DEF FindByDecoded56
<1>4. id \in Wires /\ Head56(id) = h
  BY <1>1, <1>2, <1>3 DEF TypeOK, IndexFits
<1>5. h \in Prefixes \cup Obfuscated /\ p.wire \notin Cids
  BY <1>1, <1>2, <1>3, CidConstants DEF TypeOK, Deobfuscated
<1>6. h = Prefix[p.cid]
  BY <1>1, <1>2, <1>5 DEF Deobfuscated, WiresFit
<1>7. id \in Cids /\ Prefix[id] = Prefix[p.cid]
  BY <1>2, <1>4, <1>6, CidConstants DEF Head56, Wires, Prefixes
<1> QED
  BY <1>5, <1>7

\* A packet is handed over as it is, with the ID its bits are filed under, or
\* as it is after its ID has become a new entry.
LEMMA ReadFromStep ==
  ASSUME IInv, NEW p \in net, ReadFrom(p)
  PROVE  IInv'
<1> DEFINE k == GetCache(p.src)
           HandOver(id) == handed' = [cid |-> p.cid, wire |-> p.wire, got |-> id,
                                      at |-> k]
<1>1. TypeOK /\ WiresFit /\ IndexFits
  BY DEF IInv
<1>2. p.cid \in Cids /\ p.wire \in Wires /\ k \in CacheNames
  BY <1>1, PacketFields
<1>3. /\ UNCHANGED <<txCounts, sent, from, net>>
      /\ arrived' \subseteq net
      /\ tooSoon' \subseteq CacheNames \X Cids \X Obfuscated
      /\ inOrder' \in BOOLEAN
  <2>1. UNCHANGED <<txCounts, sent, from, net>> /\ Deliver(p)
    BY DEF ReadFrom
  <2>2. arrived' \subseteq net
    BY <1>1, <2>1 DEF Deliver, TypeOK
  <2>3. tooSoon' \subseteq CacheNames \X Cids \X Obfuscated
    BY <1>1, <1>2, <2>1 DEF Deliver, TypeOK
  <2>4. inOrder' \in BOOLEAN
    BY <2>1, Zenon DEF Deliver
  <2> QED
    BY <2>1, <2>2, <2>3, <2>4
<1>4. WiresFit'
  BY <1>1, <1>3 DEF WiresFit
<1>5. CASE HandOver(p.wire) /\ UNCHANGED <<entries, index>>
  <2>1. TypeOK'
    BY <1>1, <1>2, <1>3, <1>5 DEF TypeOK, Handed
  <2>2. NeverMisrouted'
    BY <1>5 DEF NeverMisrouted
  <2> QED
    BY <1>1, <1>4, <1>5, <2>1, <2>2 DEF IInv, IndexFits
<1>6. CASE /\ FindByDecoded56(k, p.wire)
           /\ HandOver(index[k][Deobfuscated(p.wire)])
           /\ UNCHANGED <<entries, index>>
  <2> DEFINE id == index[k][Deobfuscated(p.wire)]
  <2>1. id \in Wires /\ id \in Cids /\ Prefix[id] = Prefix[p.cid]
    BY <1>6, FoundByDecoding DEF Wires
  <2> HIDE DEF id
  <2>6. TypeOK'
    BY <1>1, <1>2, <1>3, <1>6, <2>1 DEF TypeOK, Handed, id
  <2>7. NeverMisrouted'
    BY <1>6, <2>1 DEF NeverMisrouted, id
  <2> QED
    BY <1>1, <1>4, <1>6, <2>6, <2>7 DEF IInv, IndexFits
<1>7. CASE AddReal(k, p.wire) /\ HandOver(p.wire)
  <2>1. TypeOK' /\ IndexFits'
    BY <1>1, <1>2, <1>3, <1>7, AddRealStep DEF TypeOK, Handed
  <2>2. NeverMisrouted'
    BY <1>7 DEF NeverMisrouted
  <2> QED
    BY <1>4, <2>1, <2>2 DEF IInv
<1> QED
  BY <1>5, <1>6, <1>7 DEF ReadFrom

\* The invariant holds in every state of every behaviour.
THEOREM Invariance == Spec => []IInv
<1>1. Init => IInv
  <2> SUFFICES ASSUME Init PROVE IInv
    OBVIOUS
  <2>1. \A k \in CacheNames : DOMAIN index[k] = {} /\ entries[k] = {}
    BY DEF Init, EmptyIndex
  <2>2. TypeOK
    BY <2>1, CidConstants DEF Init, TypeOK
  <2> QED
    BY <2>1, <2>2 DEF Init, IInv, WiresFit, IndexFits, NeverMisrouted
<1>2. IInv /\ [Next]_vars => IInv'
  <2> SUFFICES ASSUME IInv, [Next]_vars PROVE IInv'
    OBVIOUS
  <2>1. ASSUME NEW c \in Cids, NEW seed \in Seeds,
               NEW copies \in IF DoubleSend THEN {1, 2} ELSE {1},
               WriteTo(c, seed, copies)
        PROVE  IInv'
    BY <2>1, WriteToStep
  <2>2. ASSUME NEW addr \in Addrs, Migrate(addr) PROVE IInv'
    BY <2>2 DEF Migrate, IInv, TypeOK, WiresFit, IndexFits, NeverMisrouted
  <2>4. ASSUME NEW p \in net, ReadFrom(p) PROVE IInv'
    BY <2>4, ReadFromStep
  <2>5. CASE UNCHANGED vars
    BY <2>5 DEF vars, IInv, TypeOK, WiresFit, IndexFits, NeverMisrouted
  <2> QED
    BY <2>1, <2>2, <2>4, <2>5 DEF Next
<1> QED
  BY <1>1, <1>2, PTL DEF Spec

\* Counters, packets and caches stay within their types.
THEOREM TypeCorrect == Spec => []TypeOK
BY Invariance, PTL DEF IInv

(***************************************************************************)
(* A packet is never handed to another connection than its own, unless the *)
(* two share the 56 bits that are encoded: for every loss, duplication and *)
(* reordering, change of address, and whatever got into the caches.        *)
(***************************************************************************)
THEOREM NeverMisroutes == Spec => []NeverMisrouted
BY Invariance, PTL DEF IInv

(***************************************************************************)
(* What a cache has learned it never forgets nor gets wrong again: the     *)
(* forms of a known ID are all recognised, on every network.               *)
(***************************************************************************)
THEOREM LearnsForGood == Spec => LearnedForGood
<1> DEFINE Kept ==
      \A k \in CacheNames : \A c \in entries[k] \cap Cids :
        Prefix[c] # Zero =>
          /\ c \in entries'[k]
          /\ \A w \in entries'[k] \ entries[k] :
               w \in Obfuscated => w.prefix # Prefix[c]
<1>1. ASSUME IInv, NEW p \in net, ReadFrom(p) PROVE Kept
  <2> DEFINE k == GetCache(p.src)
  <2>1. CASE UNCHANGED entries
    BY <2>1
  <2>2. CASE ~FindByDecoded56(k, p.wire) /\ AddReal(k, p.wire)
    <3>1. entries' = [entries EXCEPT ![k] = @ \cup {p.wire}] /\ k \in CacheNames
      BY <2>2, <1>1, PacketFields DEF AddReal, IInv
    <3>2. \A j \in CacheNames :
            entries[j] \subseteq entries'[j] /\ (j # k => entries'[j] = entries[j])
      BY <3>1, <1>1 DEF IInv, TypeOK
    <3>3. entries'[k] \ entries[k] \subseteq {p.wire}
      BY <3>1, <1>1 DEF IInv, TypeOK
    <3>4. ASSUME p.wire \in Obfuscated, NEW c \in entries[k] \cap Cids,
                 Prefix[c] # Zero
          PROVE  p.wire.prefix # Prefix[c]
      BY <3>1, <3>4, <2>2, <1>1, CidConstants
         DEF FindByDecoded56, Deobfuscated, IInv, IndexFits
    <3> QED
      BY <3>2, <3>3, <3>4
  <2> QED
    BY <1>1, <2>1, <2>2 DEF ReadFrom
<1>2. IInv /\ Next => Kept
  <2>1. ASSUME UNCHANGED entries PROVE Kept
    BY <2>1
  <2> QED
    BY <1>1, <2>1 DEF Next, WriteTo, Migrate
<1>3. IInv /\ [Next]_vars => [Kept]_vars
  BY <1>2
<1> QED
  BY <1>3, Invariance, PTL DEF Spec, LearnedForGood

-----------------------------------------------------------------------------
(***************************************************************************)
(* Which ID QUIC gets.  An ID is shown in the packets that are sent first; *)
(* a cache knows the ID of every clear packet it was given; and an         *)
(* obfuscated form among its entries came before all of them.              *)
(***************************************************************************)
ClearFirst == \A q \in net : q.wire = q.cid \/ q.count > ClearLimit

ClearLearned ==
  \A q \in arrived : q.wire = q.cid => q.cid \in entries[GetCache(q.src)]

PoisonedTooSoon ==
  \A k \in CacheNames : \A w \in entries[k] \cap Obfuscated :
    w.prefix # Zero =>
      \E c \in Cids : Prefix[c] = w.prefix /\ <<k, c, w>> \in tooSoon

RInv == ClearFirst /\ ClearLearned /\ PoisonedTooSoon /\ RealDelivered

\* A cache that was given obfuscated packets of an ID only gets another too soon.
LEMMA ClearMissing ==
  ASSUME TypeOK, NEW p \in net, p.count > ClearLimit,
         \A q \in arrived : q.cid = p.cid /\ GetCache(q.src) = GetCache(p.src)
                              => q.count > ClearLimit
  PROVE  TooSoon(p)
<1>1. ClearLimit \in Nat /\ \A q \in arrived : q.count \in Nat
  BY CidConstants DEF TypeOK, Packet
<1> QED
  BY <1>1 DEF TooSoon, Heard

\* Delivering a packet keeps what the caches know and are excused for.
LEMMA DeliveryStep ==
  ASSUME IInv, RInv, NEW p \in net, ReadFrom(p), IInv'
  PROVE  RInv'
<1> DEFINE k == GetCache(p.src)
           HandOver(id) == handed' = [cid |-> p.cid, wire |-> p.wire, got |-> id,
                                      at |-> k]
<1>1. TypeOK /\ WiresFit /\ IndexFits
  BY DEF IInv
<1>2. p.cid \in Cids /\ p.wire \in Wires /\ k \in CacheNames
  BY <1>1, PacketFields
<1>3. /\ UNCHANGED net
      /\ arrived' = arrived \cup {p}
      /\ tooSoon \subseteq tooSoon'
      /\ p.wire \in Obfuscated /\ TooSoon(p) => <<k, p.cid, p.wire>> \in tooSoon'
  BY DEF ReadFrom, Deliver
<1>4. ClearFirst'
  BY <1>3 DEF RInv, ClearFirst
<1>5. CASE FindByReal(k, p.wire) /\ HandOver(p.wire) /\ UNCHANGED <<entries, index>>
  <2>1. ClearLearned' /\ PoisonedTooSoon'
    BY <1>3, <1>5 DEF RInv, ClearLearned, PoisonedTooSoon, FindByReal
  <2>2. ASSUME p.wire # p.cid, Unmistakable(p.cid)
        PROVE  <<k, p.cid, p.wire>> \in tooSoon'
    <3>1. p.wire \in entries[k] \cap Obfuscated /\ p.wire.prefix = Prefix[p.cid]
      BY <1>1, <1>5, <2>2 DEF FindByReal, WiresFit
    <3> QED
      BY <1>2, <1>3, <2>2, <3>1 DEF RInv, PoisonedTooSoon, Unmistakable
  <2>3. RealDelivered'
    BY <1>5, <2>2 DEF RealDelivered, Unmistakable
  <2> QED
    BY <1>4, <2>1, <2>3 DEF RInv
<1>6. CASE /\ FindByDecoded56(k, p.wire)
           /\ HandOver(index[k][Deobfuscated(p.wire)])
           /\ UNCHANGED <<entries, index>>
  <2> DEFINE id == index[k][Deobfuscated(p.wire)]
  <2>1. p.wire \notin Cids /\ id \in Cids /\ Prefix[id] = Prefix[p.cid]
    BY <1>6, FoundByDecoding
  <2> HIDE DEF id
  <2>2. ClearLearned' /\ PoisonedTooSoon'
    BY <1>2, <1>3, <1>6, <2>1 DEF RInv, ClearLearned, PoisonedTooSoon
  <2>3. RealDelivered'
    BY <1>6, <2>1 DEF RealDelivered, Unmistakable, id
  <2> QED
    BY <1>4, <2>2, <2>3 DEF RInv
<1>7. CASE ~FindByDecoded56(k, p.wire) /\ AddReal(k, p.wire) /\ HandOver(p.wire)
  <2>1. /\ k \in DOMAIN entries
        /\ entries' = [entries EXCEPT ![k] = @ \cup {p.wire}]
    BY <1>1, <1>2, <1>7 DEF AddReal, TypeOK
  <2>2. ASSUME p.wire # p.cid, Prefix[p.cid] # Zero
        PROVE  <<k, p.cid, p.wire>> \in tooSoon'
    <3>1. p.wire \in Obfuscated /\ p.wire.prefix = Prefix[p.cid]
      BY <1>1, <2>2 DEF WiresFit
    <3>2. Prefix[p.cid] \notin DOMAIN index[k]
      BY <1>7, <3>1, CidConstants DEF FindByDecoded56, Deobfuscated
    <3>3. p.cid \notin entries[k]
      BY <1>1, <1>2, <2>2, <3>2 DEF IndexFits
    <3>4. \A q \in arrived : q.cid = p.cid /\ GetCache(q.src) = k
                               => q.count > ClearLimit
      BY <1>1, <3>3 DEF RInv, ClearFirst, ClearLearned, TypeOK
    <3>5. p.count > ClearLimit
      BY <2>2 DEF RInv, ClearFirst
    <3> QED
      BY <1>1, <1>3, <3>1, <3>4, <3>5, ClearMissing
  <2>3. ClearLearned'
    BY <1>3, <2>1 DEF RInv, ClearLearned
  <2>4. PoisonedTooSoon'
    <3>1. \A j \in CacheNames : \A w \in entries'[j] \ entries[j] :
            j = k /\ w = p.wire
      BY <1>1, <2>1 DEF TypeOK
    <3>2. p.wire \in Obfuscated => p.wire # p.cid /\ p.wire.prefix = Prefix[p.cid]
      BY <1>1, <1>2, CidConstants DEF WiresFit
    <3> QED
      BY <1>2, <1>3, <2>2, <3>1, <3>2 DEF RInv, PoisonedTooSoon
  <2>5. RealDelivered'
    BY <1>7, <2>2 DEF RealDelivered, Unmistakable
  <2> QED
    BY <1>4, <2>3, <2>4, <2>5 DEF RInv
<1> QED
  BY <1>5, <1>6, <1>7 DEF ReadFrom

(***************************************************************************)
(* QUIC gets the real ID of every packet whose form has not come to that   *)
(* cache before every clear packet of the ID: for every limit, every loss, *)
(* every order, every duplicate and every change of address.               *)
(***************************************************************************)
THEOREM DeliversReal == Spec => []RealDelivered
<1>1. Init => RInv
  BY DEF Init, RInv, ClearFirst, ClearLearned, PoisonedTooSoon, RealDelivered
<1>2. IInv /\ RInv /\ [Next]_vars /\ IInv' => RInv'
  <2> SUFFICES ASSUME IInv, RInv, [Next]_vars, IInv' PROVE RInv'
    OBVIOUS
  <2>1. ASSUME NEW c \in Cids, NEW seed \in Seeds,
               NEW copies \in IF DoubleSend THEN {1, 2} ELSE {1},
               WriteTo(c, seed, copies)
        PROVE  RInv'
    <3> DEFINE count == txCounts[c] + 1
               wire == Shown(c, seed, count)
               new == [cid : {c}, count : {count}, wire : {wire},
                       copy : 1..copies, src : {from}]
    <3>1. wire = c \/ count > ClearLimit
      BY DEF Shown
    <3>2. \A q \in new : q.cid = c /\ q.wire = wire /\ q.count = count
      OBVIOUS
    <3>3. net' = net \cup new /\ UNCHANGED <<arrived, entries, handed, tooSoon>>
      BY <2>1 DEF WriteTo
    <3> HIDE DEF new, wire, count
    <3> QED
      BY <3>1, <3>2, <3>3
         DEF RInv, ClearFirst, ClearLearned, PoisonedTooSoon, RealDelivered
  <2>2. ASSUME NEW addr \in Addrs, Migrate(addr) PROVE RInv'
    BY <2>2 DEF Migrate, RInv, ClearFirst, ClearLearned, PoisonedTooSoon,
                RealDelivered
  <2>3. ASSUME NEW p \in net, ReadFrom(p) PROVE RInv'
    BY <2>3, DeliveryStep
  <2>4. CASE UNCHANGED vars
    BY <2>4 DEF vars, RInv, ClearFirst, ClearLearned, PoisonedTooSoon,
                RealDelivered
  <2> QED
    BY <2>1, <2>2, <2>3, <2>4 DEF Next
<1>3. RInv => RealDelivered
  BY DEF RInv
<1> QED
  BY <1>1, <1>2, <1>3, Invariance, PTL DEF Spec

-----------------------------------------------------------------------------
(***************************************************************************)
(* The codec.  A cache works with the first 56 bits of an ID because that  *)
(* is what Deobfuscate gives back of any ID and any noise: the theorems of *)
(* CidCodec, for every payload length and number of seeds and every        *)
(* outcome of the random generator.                                        *)
(***************************************************************************)

\* The payload bits and their noise have positions of their own.
LEMMA BitPositions ==
  \A b \in Bits : /\ b \in Positions
                  /\ b + PayloadBits \in Positions
                  /\ \A d \in Bits : d # b + PayloadBits
BY CodecConstants DEF Bits, Positions, EncodedBits

\* Swapping two values of an injective function leaves it injective.
LEMMA SwapInjective ==
  ASSUME NEW f \in [Positions -> Positions], IsInjective(f),
         NEW p \in Positions, NEW q \in Positions,
         NEW g, g = [f EXCEPT ![p] = f[q], ![q] = f[p]]
  PROVE  g \in [Positions -> Positions] /\ IsInjective(g)
<1>1. g \in [Positions -> Positions]
  OBVIOUS
<1>2. \A a \in Positions :
        g[a] = IF a = q THEN f[p] ELSE IF a = p THEN f[q] ELSE f[a]
  OBVIOUS
<1> QED
  BY <1>1, <1>2 DEF IsInjective

(***************************************************************************)
(* With a row that no two bits share, what Encode hides Decode recovers:   *)
(* the cipher has at bit b's two positions exactly the noise and the       *)
(* difference, because no other bit writes to either.                      *)
(***************************************************************************)
LEMMA DecodeEncode ==
  ASSUME NEW f \in [Positions -> Positions], IsInjective(f),
         NEW m \in Payloads, NEW r \in Payloads
  PROVE  Decode(f, Encode(f, m, r)) = m
<1> DEFINE c == Encode(f, m, r)
<1>1. ASSUME NEW b \in Bits PROVE c[f[b]] = (r[b] # m[b])
  <2>1. f[b] \in Positions /\ b \in Positions
    BY BitPositions
  <2>2. \A d \in Bits : (f[b] = f[d] => d = b) /\ f[b] # f[d + PayloadBits]
    BY BitPositions, <1>1 DEF IsInjective
  <2> QED
    BY <2>1, <2>2 DEF Encode, Payloads
<1>2. ASSUME NEW b \in Bits PROVE c[f[b + PayloadBits]] = r[b]
  <2>1. f[b + PayloadBits] \in Positions
    BY BitPositions
  <2>2. \A d \in Bits : /\ f[b + PayloadBits] # f[d]
                        /\ f[b + PayloadBits] = f[d + PayloadBits] => d = b
    BY BitPositions, <1>2, CodecConstants DEF IsInjective, Bits
  <2> QED
    BY <2>1, <2>2 DEF Encode, Payloads
<1> HIDE DEF c
<1>3. ASSUME NEW b \in Bits PROVE (c[f[b]] # c[f[b + PayloadBits]]) = m[b]
  BY <1>1, <1>2, m[b] \in BOOLEAN, r[b] \in BOOLEAN DEF Payloads
<1> QED
  BY <1>3 DEF Decode, Payloads, c

-----------------------------------------------------------------------------
\* The row in progress, like the finished ones, never repeats a position.
CodecInv == CodecTypeOK /\ IsInjective(idx) /\ RowsInjective

\* A swap, and the start of a new row, keep rows injective.
LEMMA CodecStep == CodecInv /\ [CodecNext]_codecVars => CodecInv'
<1> SUFFICES ASSUME CodecInv, [CodecNext]_codecVars PROVE CodecInv'
  OBVIOUS
<1> USE CodecConstants DEF CodecInv, CodecTypeOK, EncodedBits
<1>1. ASSUME NEW j \in 0..i, Swap(j) PROVE CodecInv'
  <2>1. i \in Positions /\ j \in Positions
    BY DEF Positions
  <2>2. idx' = [idx EXCEPT ![i] = idx[j], ![j] = idx[i]]
    BY <1>1 DEF Swap
  <2>3. idx' \in [Positions -> Positions] /\ IsInjective(idx')
    BY <2>1, <2>2, SwapInjective
  <2>4. i' \in Positions
    BY <1>1 DEF Swap, Positions
  <2> QED
    BY <1>1, <2>3, <2>4 DEF Swap, RowsInjective
<1>2. CASE StoreRow
  <2>1. idx' \in [Positions -> Positions] /\ IsInjective(idx')
    BY <1>2 DEF StoreRow, Identity, IsInjective
  <2>2. s' \in 0..NumSeeds /\ i' \in Positions
    BY <1>2 DEF StoreRow, Positions
  <2>3. 0..s'-1 = 0..s
    BY <1>2 DEF StoreRow
  <2>4. \A seed \in 0..s : indicesTable'[seed] =
            IF seed = s THEN idx ELSE indicesTable[seed]
    BY <1>2 DEF StoreRow
  <2>5. \A seed \in 0..s : seed # s => seed \in 0..s-1
    OBVIOUS
  <2>6. indicesTable' \in [0..s'-1 -> [Positions -> Positions]]
    BY <1>2, <2>3, <2>5 DEF StoreRow
  <2>7. RowsInjective'
    BY <2>3, <2>4, <2>5, <2>6 DEF RowsInjective
  <2> QED
    BY <2>1, <2>2, <2>6, <2>7
<1>3. CASE Computed \/ UNCHANGED codecVars
  BY <1>3 DEF Computed, codecVars, RowsInjective
<1> QED
  BY <1>1, <1>2, <1>3 DEF CodecNext

\* Every reachable table, finished or not, is of permutations.
THEOREM CodecInvariance == CodecSpec => []CodecInv
<1>1. CodecInit => CodecInv
  <2> SUFFICES ASSUME CodecInit PROVE CodecInv
    OBVIOUS
  <2>1. i \in Positions /\ s \in 0..NumSeeds
    BY CodecConstants DEF CodecInit, Positions, EncodedBits
  <2>2. idx \in [Positions -> Positions] /\ IsInjective(idx)
    BY DEF CodecInit, Identity, IsInjective
  <2>3. indicesTable \in [0..s-1 -> [Positions -> Positions]]
    BY DEF CodecInit
  <2>4. RowsInjective
    BY DEF CodecInit, RowsInjective
  <2> QED
    BY <2>1, <2>2, <2>3, <2>4 DEF CodecInv, CodecTypeOK
<1> QED
  BY <1>1, CodecStep, PTL DEF CodecSpec

\* The variables of the table's computation stay within their types.
THEOREM CodecTypeCorrect == CodecSpec => []CodecTypeOK
BY CodecInvariance, PTL DEF CodecInv

\* No draw of the generator makes two bits of an encoding share a position.
THEOREM RowsAlwaysInjective == CodecSpec => []RowsInjective
BY CodecInvariance, PTL DEF CodecInv

(***************************************************************************)
(* Deobfuscate recovers the first 56 bits of whatever Obfuscate was given, *)
(* for every seed of the table and every noise.                            *)
(***************************************************************************)
THEOREM RoundTripHolds == CodecSpec => []RoundTrip
<1>1. CodecInv => RoundTrip
  <2> SUFFICES ASSUME CodecInv, NEW seed \in DOMAIN indicesTable,
                      NEW m \in Payloads, NEW r \in Payloads
               PROVE  Deobfuscate(Obfuscate(m, r, seed)) = m
    BY DEF RoundTrip
  <2>1. /\ indicesTable[seed] \in [Positions -> Positions]
        /\ IsInjective(indicesTable[seed])
    BY DEF CodecInv, CodecTypeOK, RowsInjective
  <2> QED
    BY <2>1, DecodeEncode DEF Deobfuscate, Obfuscate
<1> QED
  BY <1>1, CodecInvariance, PTL

=============================================================================
