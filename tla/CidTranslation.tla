--------------------------- MODULE CidTranslation ---------------------------
(***************************************************************************)
(* The connection IDs of short-header packets on their way from the        *)
(* WriteTo of one MagicConn to the ReadFrom of the other (conn.go), with   *)
(* the receiver's cache of known IDs (session.go).  The sender shows the   *)
(* real ID in the first packets that bear it and obfuscates it in later    *)
(* ones; the receiver takes whatever it cannot place for a real ID.  There *)
(* is no negotiation: that works as long as the network delivers one of    *)
(* the clear packets first.                                                *)
(*                                                                         *)
(* Obfuscate and Deobfuscate are CidCodec's: they keep the first 56 bits   *)
(* of the ID and carry their own seed.                                     *)
(***************************************************************************)
EXTENDS Naturals

CONSTANTS
  Cids,               \* the real IDs: the receiver's QUIC generated them
  Prefix,             \* Prefix[c]: the first PayloadBytes of c
  Seeds,              \* obfRNG's seeds
  ClearLimit,         \* the packets of an ID sent in the clear: 10
  CIDObfuscationEnabled,
  DoubleSend,         \* whether clientWrite may send a packet to two addresses
  Addrs,              \* the source addresses the receiver may see
  PerAddress,         \* a server has a cache per address, a client only one
  MayMigrate,         \* whether the sender's address may change
  MaxSend,            \* bound: packets sent
  Zero,               \* the prefix whose hash is 0
  Noise,              \* what Deobfuscate makes of an ID that was not obfuscated
  None

Prefixes == {Prefix[c] : c \in Cids}

\* The 16 bytes on the wire: a real ID, or the seed and the encoded prefix.
Obfuscated == [prefix : Prefixes, seed : Seeds]
Wires == Cids \cup Obfuscated

\* ServerSessionMap.GetCache: the cache of an address, empty when first asked
\* for; a client gives every packet the same address, fakeAddr.
CacheNames == IF PerAddress THEN Addrs ELSE {None}
GetCache(addr) == IF PerAddress THEN addr ELSE None

\* A packet is the count-th of its ID; copies 1 and 2 go to two addresses.
Packet == [cid : Cids, count : Nat, wire : Wires, copy : {1, 2}, src : Addrs]

\* What ReadFrom hands to QUIC: the ID the packet was sent to, the one it
\* showed, the one QUIC gets, and the cache that was asked.
Handed == [cid : Cids, wire : Wires, got : Wires, at : CacheNames]

ASSUME CidConstants ==
  /\ {ClearLimit, MaxSend} \subseteq Nat
  /\ {CIDObfuscationEnabled, DoubleSend, PerAddress, MayMigrate}
       \subseteq BOOLEAN
  /\ Prefix \in [Cids -> Prefixes]
  /\ Cids \cap Obfuscated = {}
  /\ Addrs # {} /\ Seeds # {}
  /\ Prefixes \cap Obfuscated = {}
  /\ Noise \notin Prefixes \cup Obfuscated
  /\ None \notin Handed

VARIABLES
  txCounts,  \* the sender's txCounts
  sent,      \* how many packets have been sent
  from,      \* the address the receiver sees the sender at
  net,       \* the packets the network has been given
  arrived,   \* those it has delivered
  entries,   \* for each cache, the IDs in CIDCache.entries
  index,     \* for each cache, CIDCache.prefix56Index
  handed,    \* the last packet ReadFrom handed to QUIC
  tooSoon,   \* history: for each cache and ID, the obfuscated forms that came
             \* there before any clear packet of the ID
  inOrder    \* history: no packet of an ID has been overtaken so far

vars == <<txCounts, sent, from, net, arrived, entries, index, handed, tooSoon,
          inOrder>>

EmptyIndex == [h \in {} |-> None]

TypeOK ==
  /\ txCounts \in [Cids -> Nat]
  /\ sent \in 0..MaxSend
  /\ from \in Addrs
  /\ net \subseteq Packet
  /\ arrived \subseteq net
  /\ entries \in [CacheNames -> SUBSET Wires]
  /\ DOMAIN index = CacheNames
  /\ \A k \in CacheNames :
       /\ DOMAIN index[k] \subseteq Prefixes \cup Obfuscated
       /\ \A h \in DOMAIN index[k] : index[k][h] \in entries[k]
  /\ handed \in Handed \cup {None}
  /\ tooSoon \subseteq CacheNames \X Cids \X Obfuscated
  /\ inOrder \in BOOLEAN

Init ==
  /\ txCounts = [c \in Cids |-> 0]
  /\ sent = 0
  /\ from \in Addrs
  /\ net = {}
  /\ arrived = {}
  /\ entries = [k \in CacheNames |-> {}]
  /\ index = [k \in CacheNames |-> EmptyIndex]
  /\ handed = None
  /\ tooSoon = {}
  /\ inOrder = TRUE

-----------------------------------------------------------------------------
(* The sender.                                                             *)

\* Mutant of Shown: one clear packet too few.
ShownEarly(c, seed, count) ==
  IF CIDObfuscationEnabled /\ count >= ClearLimit
  THEN [prefix |-> Prefix[c], seed |-> seed] ELSE c

\* The ID a packet shows: the real one, or an obfuscated one when the real one
\* has been seen often enough.
Shown(c, seed, count) ==
  IF CIDObfuscationEnabled /\ count > ClearLimit
  THEN [prefix |-> Prefix[c], seed |-> seed] ELSE c

\* WriteTo, the short-header case: the packet is counted and its ID hidden or not.
WriteTo(c, seed, copies) ==
  LET count == txCounts[c] + 1
      wire  == Shown(c, seed, count)
  IN /\ sent < MaxSend
     /\ txCounts' = [txCounts EXCEPT ![c] = count]
     /\ sent' = sent + 1
     /\ net' = net \cup [cid : {c}, count : {count}, wire : {wire},
                         copy : 1..copies, src : {from}]
     /\ UNCHANGED <<from, arrived, entries, index, handed, tooSoon, inOrder>>

\* The sender's address changes: another network, or a NAT that forgets.
Migrate(addr) ==
  /\ MayMigrate
  /\ addr # from
  /\ from' = addr
  /\ UNCHANGED <<txCounts, sent, net, arrived, entries, index, handed, tooSoon,
                 inOrder>>

-----------------------------------------------------------------------------
(* The network delivers each packet at most once, at any time, in any      *)
(* order; one it never delivers is lost.                                   *)

\* The counts of the packets of p's ID that any, or the same, cache was given.
Delivered(p) == {q.count : q \in {r \in arrived : r.cid = p.cid}}

Heard(p) ==
  {q.count : q \in {r \in arrived : r.cid = p.cid /\ GetCache(r.src) = GetCache(p.src)}}

\* No clear packet of p's ID has been given to the cache p goes to.
TooSoon(p) == p.count > ClearLimit /\ Heard(p) \cap (1..ClearLimit) = {}

Deliver(p) ==
  /\ p \notin arrived
  /\ arrived' = arrived \cup {p}
  /\ inOrder' = (inOrder /\ 1..p.count-1 \subseteq Delivered(p))
  /\ tooSoon' = IF p.wire \in Obfuscated /\ TooSoon(p)
                THEN tooSoon \cup {<<GetCache(p.src), p.cid, p.wire>>}
                ELSE tooSoon

-----------------------------------------------------------------------------
(* The receiver's cache.                                                   *)

\* hashPrefix56 of an ID: for an obfuscated one, bytes that tell it apart.
Head56(w) == IF w \in Cids THEN Prefix[w] ELSE w

\* Deobfuscate: the prefix the sender encoded, noise if it encoded none.
Deobfuscated(w) == IF w \in Cids THEN Noise ELSE w.prefix

FindByReal(k, w) == w \in entries[k]

FindByDecoded56(k, w) == Deobfuscated(w) \in DOMAIN index[k]

\* Mutants of AddReal: only the index is updated; the index is built anew; its
\* entries all point to the newest ID.
AddRealIndexOnly(k, w) ==
  /\ index' = [index EXCEPT ![k] =
                [h \in DOMAIN @ \cup {Head56(w)} |->
                   IF h = Head56(w) THEN w ELSE @[h]]]
  /\ UNCHANGED entries

AddRealAnew(k, w) ==
  /\ entries' = [entries EXCEPT ![k] = @ \cup {w}]
  /\ index' = [index EXCEPT ![k] = [h \in {Head56(w)} |-> w]]

AddRealAliased(k, w) ==
  /\ entries' = [entries EXCEPT ![k] = @ \cup {w}]
  /\ index' = [index EXCEPT ![k] = [h \in DOMAIN @ \cup {Head56(w)} |-> w]]

\* AddReal, for an ID that is not among the entries.
AddReal(k, w) ==
  /\ entries' = [entries EXCEPT ![k] = @ \cup {w}]
  /\ index' = IF Head56(w) = Zero THEN index
              ELSE [index EXCEPT ![k] =
                     [h \in DOMAIN @ \cup {Head56(w)} |->
                        IF h = Head56(w) THEN w ELSE @[h]]]

\* ReadFrom, the short-header case.
ReadFrom(p) ==
  LET k == GetCache(p.src)
      HandOver(id) == handed' = [cid |-> p.cid, wire |-> p.wire, got |-> id,
                                 at |-> k]
  IN /\ Deliver(p)
     /\ \/ /\ FindByReal(k, p.wire)
           /\ HandOver(p.wire)
           /\ UNCHANGED <<entries, index>>
        \/ /\ ~FindByReal(k, p.wire)
           /\ FindByDecoded56(k, p.wire)
           /\ HandOver(index[k][Deobfuscated(p.wire)])
           /\ UNCHANGED <<entries, index>>
        \/ /\ ~FindByReal(k, p.wire)
           /\ ~FindByDecoded56(k, p.wire)
           /\ AddReal(k, p.wire)
           /\ HandOver(p.wire)
     /\ UNCHANGED <<txCounts, sent, from, net>>

Next ==
  \/ \E c \in Cids, seed \in Seeds, copies \in IF DoubleSend THEN {1, 2} ELSE {1} :
       WriteTo(c, seed, copies)
  \/ \E addr \in Addrs : Migrate(addr)
  \/ \E p \in net : ReadFrom(p)

Spec == Init /\ [][Next]_vars

-----------------------------------------------------------------------------
\* No other ID has the same first 56 bits, and they are not all zero.
Unmistakable(c) ==
  /\ Prefix[c] # Zero
  /\ \A d \in Cids : Prefix[d] = Prefix[c] => d = c

(***************************************************************************)
(* QUIC is handed a packet with the connection ID it was sent to, unless   *)
(* the form the packet shows has come to that cache before every one of    *)
(* the ID's clear packets.  One clear packet is enough, whatever becomes   *)
(* of the others and whatever came before it: only the forms that came     *)
(* before it are taken for IDs of their own, for good.                     *)
(***************************************************************************)
RealDelivered ==
  handed # None /\ Unmistakable(handed.cid) =>
    \/ handed.got = handed.cid
    \/ <<handed.at, handed.cid, handed.wire>> \in tooSoon

(***************************************************************************)
(* "Connection migration is allowed" (the comment in the server's QUIC     *)
(* configuration): while every packet arrives, in the order sent, QUIC     *)
(* gets the real ID, wherever the sender has moved.                        *)
(***************************************************************************)
MigrationAllowed ==
  handed # None /\ inOrder /\ Unmistakable(handed.cid)
    => handed.got = handed.cid

(***************************************************************************)
(* Whatever the network loses, reorders or duplicates, and whatever an     *)
(* unlucky obfuscated ID has put into the cache, a packet never reaches    *)
(* another connection than its own: it shows its own ID or one with the    *)
(* same 56 bits, or what was on the wire, which QUIC does not know.        *)
(***************************************************************************)
NeverMisrouted ==
  handed # None =>
    \/ handed.got = handed.wire
    \/ /\ handed.got \in Cids
       /\ Prefix[handed.got] = Prefix[handed.cid]

(***************************************************************************)
(* Once a cache knows a real ID it is right about that ID for good: no     *)
(* later packet, from any connection, with any loss, makes it take another *)
(* obfuscated form of the ID for a real one, or lets it forget the ID.     *)
(***************************************************************************)
LearnedForGood ==
  [][ \A k \in CacheNames : \A c \in entries[k] \cap Cids :
       Prefix[c] # Zero =>
         /\ c \in entries'[k]
         /\ \A w \in entries'[k] \ entries[k] :
              w \in Obfuscated => w.prefix # Prefix[c] ]_vars

=============================================================================
