--------------------------- MODULE Serving_proofs ----------------------------
(* Theorems about Serving, for every finite set of peers, every set of     *)
(* NARs, sizes and rates, every block size, capacity of the bus and length *)
(* of the history, and every bound on requests and events.                 *)
EXTENDS Serving, Lists_proofs, FiniteSetTheorems, SequenceTheorems, TLAPS

(***************************************************************************)
(* Blocks                                                                  *)
(***************************************************************************)

\* Quotient and remainder.
LEMMA Division ==
  ASSUME NEW n \in Nat, NEW b \in Nat, b > 0
  PROVE  /\ n \div b \in Nat /\ n % b \in Nat /\ n % b < b
         /\ n = (b * (n \div b)) + (n % b)
  OBVIOUS

\* More blocks are at least as many bytes.
LEMMA Monotone ==
  ASSUME NEW i \in Int, NEW j \in Int, NEW b \in Nat, i <= j
  PROVE  i * b <= j * b
<1>1. j * b = i * b + (j - i) * b
  OBVIOUS
<1>2. j - i \in Nat /\ (j - i) * b >= 0
  OBVIOUS
<1> QED
  BY <1>1, <1>2

\* c blocks of b bytes are what a file of n bytes needs.
Needs(n, b, c) == (c - 1) * b < n /\ n <= c * b

\* No other number is.
LEMMA NeedsOne ==
  ASSUME NEW n \in Nat, NEW b \in Nat, NEW c \in Nat, NEW d \in Nat,
         Needs(n, b, c), Needs(n, b, d)
  PROVE  c = d
<1>1. ASSUME NEW x \in Nat, NEW y \in Nat, Needs(n, b, x), Needs(n, b, y), x < y PROVE FALSE
  <2>1. x <= y - 1 /\ y - 1 \in Int /\ x \in Int
    BY <1>1
  <2>2. x * b <= (y - 1) * b
    BY <2>1, Monotone
  <2>3. x * b \in Int /\ (y - 1) * b \in Int
    BY <2>1
  <2> QED
    BY <1>1, <2>2, <2>3 DEF Needs
<1> QED
  BY <1>1

\* from_file_size counts the blocks that the file needs.
LEMMA CountNeeded ==
  ASSUME NEW n \in Nat \ {0}
  PROVE  BlockCount(n) \in Nat /\ BlockCount(n) > 0 /\ Needs(n, BlockSize, BlockCount(n))
<1>1. BlockSize \in Nat /\ BlockSize > 0
  BY ServingAssumption
<1>0. BlockCount(n) = (n \div Least(BlockSize, n)) + (IF n % Least(BlockSize, n) > 0 THEN 1 ELSE 0)
  BY DEF BlockCount
<1>2. CASE n <= BlockSize
  <2>1. Least(BlockSize, n) = n
    BY <1>1, <1>2 DEF Least
  <2>2. n \div n = 1 /\ n % n = 0
    OBVIOUS
  <2>3. BlockCount(n) = 1
    BY <1>0, <2>1, <2>2
  <2> QED
    BY <1>1, <1>2, <2>3 DEF Needs
<1>3. CASE n > BlockSize
  <2> DEFINE q == n \div BlockSize
             r == n % BlockSize
  <2>1. Least(BlockSize, n) = BlockSize
    BY <1>1, <1>3 DEF Least
  <2>2. BlockCount(n) = q + (IF r > 0 THEN 1 ELSE 0)
    BY <1>0, <2>1
  <2>3. q \in Nat /\ r \in Nat /\ r < BlockSize /\ n = BlockSize * q + r
    BY <1>1, Division
  <2> HIDE DEF q, r
  <2>4. (q - 1) * BlockSize = BlockSize * q - BlockSize /\ q * BlockSize = BlockSize * q
        /\ (q + 1) * BlockSize = BlockSize * q + BlockSize
    BY <1>1, <2>3
  <2>5. BlockSize * q \in Nat
    BY <1>1, <2>3
  <2>6. q > 0
    <3>1. q = 0 => BlockSize * q = 0
      BY <1>1
    <3> QED
      BY <1>1, <1>3, <2>3, <3>1
  <2>7. CASE r = 0
    BY <1>1, <2>2, <2>3, <2>4, <2>5, <2>6, <2>7 DEF Needs
  <2>8. CASE r > 0
    <3>1. BlockCount(n) = q + 1 /\ (q + 1) - 1 = q
      BY <2>2, <2>3, <2>8
    <3>2. q * BlockSize < n /\ n <= (q + 1) * BlockSize
      BY <1>1, <2>3, <2>4, <2>5, <2>8
    <3> QED
      BY <2>3, <3>1, <3>2 DEF Needs
  <2> QED
    BY <2>3, <2>7, <2>8
<1> QED
  BY <1>1, <1>2, <1>3

\* compute_block_hashes makes a hash for each of them.
LEMMA HashForEach ==
  ASSUME NEW n \in Nat \ {0}
  PROVE  HashCount(n) = BlockCount(n)
<1>1. BlockSize \in Nat /\ BlockSize > 0
  BY ServingAssumption
<1> DEFINE m == n + BlockSize - 1
           h == m \div BlockSize
           r == m % BlockSize
<1>2. m \in Nat
  BY <1>1
<1>3. h \in Nat /\ r \in Nat /\ r < BlockSize /\ m = BlockSize * h + r
  <2> HIDE DEF m
  <2> QED
    BY <1>1, <1>2, Division
<1>4. HashCount(n) = h
  BY DEF HashCount
<1> HIDE DEF h, r
<1>5. (h - 1) * BlockSize = BlockSize * h - BlockSize /\ h * BlockSize = BlockSize * h
  BY <1>1, <1>3
<1>6. BlockSize * h \in Nat
  BY <1>1, <1>3
<1>7. Needs(n, BlockSize, h)
  BY <1>1, <1>3, <1>5, <1>6 DEF Needs
<1> QED
  BY <1>1, <1>3, <1>4, <1>7, CountNeeded, NeedsOne

\* Both are numbers for an empty file too: it has one block and no hash.
LEMMA CountsTyped ==
  ASSUME NEW n \in Nat
  PROVE  BlockCount(n) \in Nat /\ HashCount(n) \in Nat
<1>1. BlockSize \in Nat /\ BlockSize > 0
  BY ServingAssumption
<1>2. CASE n = 0
  <2>1. Least(BlockSize, 1) = 1 /\ 1 \div 1 = 1 /\ 1 % 1 = 0
    BY <1>1 DEF Least
  <2>2. BlockCount(n) = 1
    BY <1>2, <2>1 DEF BlockCount
  <2>3. n + BlockSize - 1 \in Nat
    BY <1>1
  <2>4. (n + BlockSize - 1) \div BlockSize \in Nat
    BY <1>1, <2>3, Division
  <2> QED
    BY <2>2, <2>4 DEF HashCount
<1>3. CASE n # 0
  BY <1>3, CountNeeded, HashForEach
<1> QED
  BY <1>2, <1>3

\* Two blocks share no byte, and a block starts where another may end.
LEMMA BlocksApart ==
  ASSUME NEW i \in Nat, NEW j \in Nat, i < j
  PROVE  (i * BlockSize) + BlockSize <= j * BlockSize
<1>1. BlockSize \in Nat /\ i + 1 <= j /\ i + 1 \in Int /\ j \in Int
  BY ServingAssumption
<1>2. (i + 1) * BlockSize <= j * BlockSize
  BY <1>1, Monotone
<1>3. (i + 1) * BlockSize = (i * BlockSize) + BlockSize
  BY <1>1
<1> QED
  BY <1>2, <1>3

\* The blocks with a number below the count are those that start inside the file.
LEMMA CountedInside ==
  ASSUME NEW n \in Nat \ {0}, NEW i \in Nat
  PROVE  i < BlockCount(n) <=> i * BlockSize < n
<1> DEFINE c == BlockCount(n)
<1>1. BlockSize \in Nat /\ BlockSize > 0 /\ i \in Int
  BY ServingAssumption
<1>2. c \in Nat /\ c > 0 /\ (c - 1) * BlockSize < n /\ n <= c * BlockSize
  BY CountNeeded DEF Needs
<1> HIDE DEF c
<1>3. c \in Int /\ c - 1 \in Int /\ i * BlockSize \in Int /\ c * BlockSize \in Int
      /\ (c - 1) * BlockSize \in Int
  BY <1>1, <1>2
<1>4. CASE i < c
  <2>1. i <= c - 1
    BY <1>2, <1>4
  <2>2. i * BlockSize <= (c - 1) * BlockSize
    BY <1>1, <1>3, <2>1, Monotone
  <2> QED
    BY <1>2, <1>3, <1>4, <2>2 DEF c
<1>5. CASE c <= i
  <2>1. c * BlockSize <= i * BlockSize
    BY <1>1, <1>3, <1>5, Monotone
  <2> QED
    BY <1>2, <1>3, <1>5, <2>1 DEF c
<1> QED
  BY <1>2, <1>4, <1>5

(***************************************************************************)
(* Replies                                                                 *)
(***************************************************************************)

\* A block of the file is a part of it that is not empty.
LEMMA BlockOfFile ==
  ASSUME NEW z \in Nat, NEW i \in Nat, i * BlockSize < z
  PROVE  /\ BlockAt(i, z) \in Block /\ BlockAt(i, z).index = i
         /\ BlockAt(i, z).from = i * BlockSize
         /\ BlockAt(i, z).to <= z /\ BlockAt(i, z).to <= (i * BlockSize) + BlockSize
         /\ BlockAt(i, z).from < BlockAt(i, z).to
         /\ BlockAt(i, z).to = z \/ BlockAt(i, z).to = (i * BlockSize) + BlockSize
<1> DEFINE f == i * BlockSize
<1>1. BlockSize \in Nat /\ BlockSize > 0
  BY ServingAssumption
<1>2. f \in Nat /\ f < z
  BY <1>1
<1>3. BlockAt(i, z) = [index |-> i, from |-> f, to |-> IF f + BlockSize < z THEN f + BlockSize ELSE z]
  BY DEF BlockAt, Least
<1> HIDE DEF f
<1> QED
  BY <1>1, <1>2, <1>3 DEF Block, f

\* The size of a reply of handle_request is a number.
LEMMA BlocksTyped ==
  ASSUME NEW z \in Nat, NEW asked \in IndexLists,
         NEW s \in Inside(z, asked)
  PROVE  BlocksReply(z, s) \in Reply /\ ResponseSize(BlocksReply(z, s)) \in Nat
<1> DEFINE K == {k \in DOMAIN asked : asked[k] * BlockSize < z}
           r == BlocksReply(z, s)
<1>1. asked \in Seq(Nat) /\ K \in SUBSET DOMAIN asked /\ s \in Retained(asked, K)
  BY ServingAssumption DEF Inside
<1> HIDE DEF K
<1>2. s \in Seq(Nat) /\ Range(s) = {asked[k] : k \in K}
  BY <1>1, RetainedList, RetainedRange
<1>3. \A k \in DOMAIN s : s[k] \in Nat /\ s[k] * BlockSize < z
  <2>1. ASSUME NEW k \in DOMAIN s PROVE s[k] \in Nat /\ s[k] * BlockSize < z
    <3>1. s[k] \in Range(s)
      BY DEF Range
    <3>2. PICK j \in K : s[k] = asked[j]
      BY <1>2, <3>1
    <3>3. asked[j] \in Nat /\ asked[j] * BlockSize < z
      BY <1>1, <3>2 DEF K
    <3> QED
      BY <3>2, <3>3
  <2> QED
    BY <2>1
<1>4. \A k \in DOMAIN s : /\ BlockAt(s[k], z) \in Block
                          /\ BlockAt(s[k], z).to - BlockAt(s[k], z).from \in Nat
  <2>1. ASSUME NEW k \in DOMAIN s
        PROVE  /\ BlockAt(s[k], z) \in Block
               /\ BlockAt(s[k], z).to - BlockAt(s[k], z).from \in Nat
    <3>1. BlockAt(s[k], z) \in Block /\ BlockAt(s[k], z).from < BlockAt(s[k], z).to
      BY <1>3, BlockOfFile
    <3> QED
      BY <3>1 DEF Block
  <2> QED
    BY <2>1
<1>5. [k \in DOMAIN s |-> BlockAt(s[k], z)] \in Seq(Block)
  BY <1>2, <1>4
<1>6. r \in Reply
  BY <1>5 DEF BlocksReply, Reply
<1>7. DataBytes(r.data) \in Nat
  <2> DEFINE f == [k \in DOMAIN r.data |-> r.data[k].to - r.data[k].from]
  <2>1. r.data = [k \in DOMAIN s |-> BlockAt(s[k], z)]
    BY DEF BlocksReply
  <2>2. DOMAIN f = 1 .. Len(s) /\ \A k \in DOMAIN f : f[k] \in Nat
    BY <1>2, <1>4, <2>1
  <2>3. IsFiniteSet(DOMAIN f)
    BY <1>2, <2>2, UpTo
  <2> HIDE DEF f
  <2>4. Total(f) \in Nat
    BY <2>2, <2>3, TotalIsNat
  <2> QED
    BY <2>4 DEF DataBytes, f
<1>8. r.kind = "error" \/ r.kind = "blocks"
  BY DEF BlocksReply
<1> QED
  BY <1>6, <1>7, <1>8, ServingAssumption DEF ResponseSize

\* So is that of its answer to a handshake.
LEMMA HandshakeTyped ==
  ASSUME NEW r \in Reply, r.kind = "handshake"
  PROVE  ResponseSize(r) \in Nat
<1>1. r.hashes \in Nat /\ HashBytes \in Nat
  BY ServingAssumption DEF Reply
<1>2. HashBytes * r.hashes \in Nat
  BY <1>1
<1> QED
  BY <1>2 DEF ResponseSize

HandshakeOf(count, hashes) ==
  [kind |-> "handshake", data |-> << >>, block_count |-> count, hashes |-> hashes]

\* handle_request answers with the count of the index entry and the hashes of the file or,
\* where that cannot be read, with none; a request for blocks with those that the file has.
Honest(t) ==
  /\ t.nar \in Nars /\ t.file \in Sizes
  /\ \/ /\ t.asked = << >>
        /\ \/ t.reply = HandshakeOf(0, 0)
           \/ t.reply = HandshakeOf(BlockCount(size[t.nar]), HashCount(t.file))
     \/ /\ t.asked \in IndexLists
        /\ \E s \in Inside(t.file, t.asked) : t.reply = BlocksReply(t.file, s)

\* Such a reply has a size.
LEMMA HonestTyped ==
  ASSUME NEW t, Honest(t), size \in [Nars -> Sizes]
  PROVE  t.reply \in Reply /\ ResponseSize(t.reply) \in Nat /\ t.asked \in Seq(Nat)
<1>1. t.file \in Nat /\ size[t.nar] \in Nat
  BY ServingAssumption DEF Honest
<1>2. CASE t.asked \in IndexLists /\ \E s \in Inside(t.file, t.asked) : t.reply = BlocksReply(t.file, s)
  BY <1>1, <1>2, BlocksTyped, ServingAssumption
<1>3. ASSUME NEW c \in Nat, NEW h \in Nat, t.asked = << >>, t.reply = HandshakeOf(c, h)
      PROVE  t.reply \in Reply /\ ResponseSize(t.reply) \in Nat /\ t.asked \in Seq(Nat)
  <2>1. t.reply \in Reply /\ t.reply.kind = "handshake"
    BY <1>3 DEF Reply, HandshakeOf
  <2> QED
    BY <1>3, <2>1, HandshakeTyped
<1>4. BlockCount(size[t.nar]) \in Nat /\ HashCount(t.file) \in Nat /\ 0 \in Nat
  BY <1>1, CountsTyped
<1> QED
  BY <1>2, <1>3, <1>4 DEF Honest

\* The blocks with a number below the count are all the bytes of the file.
LEMMA BlocksCover ==
  ASSUME NEW z \in Nat \ {0}
  PROVE  UNION {Bytes(b) : b \in {BlockAt(i, z) : i \in 0 .. BlockCount(z) - 1}} = 0 .. z - 1
<1> DEFINE c == BlockCount(z)
           all == {BlockAt(i, z) : i \in 0 .. c - 1}
<1>2. z \in Nat /\ BlockSize \in Nat /\ BlockSize > 0
  BY ServingAssumption
<1>3. c \in Nat /\ \A i \in Nat : i < c <=> i * BlockSize < z
  BY <1>2, CountNeeded, CountedInside
<1>4. ASSUME NEW y \in UNION {Bytes(b) : b \in all} PROVE y \in 0 .. z - 1
  <2>1. PICK i \in 0 .. c - 1 : y \in Bytes(BlockAt(i, z))
    OBVIOUS
  <2>2. i \in Nat /\ i * BlockSize < z /\ i * BlockSize \in Nat
    BY <1>2, <1>3
  <2>3. /\ BlockAt(i, z) \in Block /\ BlockAt(i, z).to <= z
    BY <1>2, <2>2, BlockOfFile
  <2> QED
    BY <1>2, <2>1, <2>3 DEF Bytes, Block
<1>5. ASSUME NEW y \in 0 .. z - 1 PROVE y \in UNION {Bytes(b) : b \in all}
  <2> DEFINE i == y \div BlockSize
  <2>1. y \in Nat /\ y < z
    BY <1>2
  <2>2. i \in Nat /\ y % BlockSize \in Nat /\ y % BlockSize < BlockSize
        /\ y = (BlockSize * i) + (y % BlockSize)
    BY <1>2, <2>1, Division
  <2> HIDE DEF i, c
  <2>3. i * BlockSize = BlockSize * i /\ i * BlockSize \in Nat
    BY <1>2, <2>2
  <2>4. i * BlockSize <= y /\ y < (i * BlockSize) + BlockSize /\ i * BlockSize < z
    BY <1>2, <2>1, <2>2, <2>3
  <2>5. i \in 0 .. c - 1
    BY <1>3, <2>2, <2>4
  <2>6. /\ BlockAt(i, z) \in Block /\ BlockAt(i, z).from = i * BlockSize
        /\ BlockAt(i, z).to = z \/ BlockAt(i, z).to = (i * BlockSize) + BlockSize
    BY <1>2, <2>2, <2>4, BlockOfFile
  <2>7. y \in Bytes(BlockAt(i, z))
    BY <1>2, <2>1, <2>3, <2>4, <2>6 DEF Bytes, Block
  <2> QED
    BY <2>5, <2>7
<1> QED
  BY <1>4, <1>5

\* Two of them have no byte in common.
LEMMA BlocksDisjoint ==
  ASSUME NEW z \in Nat, NEW i \in Nat, NEW j \in Nat, i < j, i * BlockSize < z, j * BlockSize < z
  PROVE  Bytes(BlockAt(i, z)) \cap Bytes(BlockAt(j, z)) = {}
<1>1. BlockSize \in Nat /\ i * BlockSize \in Nat /\ j * BlockSize \in Nat
  BY ServingAssumption
<1>2. (i * BlockSize) + BlockSize <= j * BlockSize
  BY BlocksApart
<1>3. BlockAt(i, z) \in Block /\ BlockAt(i, z).to <= (i * BlockSize) + BlockSize
  BY BlockOfFile
<1>4. BlockAt(j, z) \in Block /\ BlockAt(j, z).from = j * BlockSize
  BY BlockOfFile
<1>5. BlockAt(i, z).to <= BlockAt(j, z).from /\ BlockAt(i, z).to \in Nat /\ BlockAt(j, z).from \in Nat
  BY <1>1, <1>2, <1>3, <1>4 DEF Block
<1> QED
  BY <1>3, <1>4, <1>5 DEF Bytes, Block

\* Who asks for blocks of the file only gets each of them.
LEMMA AllServed ==
  ASSUME NEW u, Honest(u), u.file > 0, Covered(u.asked, BlockCount(u.file))
  PROVE  Complete(u)
<1> DEFINE z == u.file
           a == u.asked
           K == {k \in DOMAIN a : a[k] * BlockSize < z}
<1>1. z \in Nat /\ z > 0 /\ a \in IndexLists /\ \A i \in Elements(a) : i < BlockCount(z)
  BY ServingAssumption DEF Honest, Covered
<1>2. PICK s \in Inside(z, a) : u.reply = BlocksReply(z, s)
  BY DEF Honest, Covered
<1>3. a \in Seq(Nat)
  BY <1>1, ServingAssumption
<1>4. z \in Nat \ {0}
  BY <1>1
<1>5. K = DOMAIN a
  <2>1. ASSUME NEW k \in DOMAIN a PROVE a[k] * BlockSize < z
    <3>1. a[k] \in Nat /\ a[k] < BlockCount(z)
      BY <1>1, <1>3 DEF Elements
    <3> QED
      BY <1>4, <3>1, CountedInside
  <2> QED
    BY <2>1
<1>6. s \in Retained(a, DOMAIN a)
  BY <1>2, <1>5 DEF Inside
<1>7. s = a
  BY <1>3, <1>6, RetainedAll
<1>8. u.reply.data = [k \in DOMAIN a |-> BlockAt(a[k], z)]
  BY <1>2, <1>7 DEF BlocksReply
<1>9. \A k \in DOMAIN a : u.reply.data[k].index = a[k]
  BY <1>8 DEF BlockAt
<1> HIDE DEF a
<1>10. DOMAIN u.reply.data = DOMAIN a
  BY <1>8
<1>11. a = [k \in DOMAIN a |-> a[k]]
  BY <1>3
<1> QED
  BY <1>9, <1>10, <1>11 DEF a, Complete

\* Honest replies serve what they advertise.
LEMMA HonestServes ==
  ASSUME size \in [Nars -> Sizes], \A t \in Replies : Honest(t)
  PROVE  AdvertisedIsServed
<1> SUFFICES ASSUME NEW t \in Replies, Offer(t), t.file = size[t.nar], t.file > 0
             PROVE  LET count == t.reply.block_count
                        all == {BlockAt(i, t.file) : i \in 0 .. count - 1}
                    IN /\ t.reply.hashes = count
                       /\ UNION {Bytes(b) : b \in all} = 0 .. t.file - 1
                       /\ \A b, c \in all : b # c => Bytes(b) \cap Bytes(c) = {}
                       /\ \A u \in Replies :
                            u.nar = t.nar /\ u.file = t.file /\ Covered(u.asked, count) => Complete(u)
  BY DEF AdvertisedIsServed
<1> DEFINE z == t.file
           count == t.reply.block_count
           all == {BlockAt(i, z) : i \in 0 .. count - 1}
<1>1. Honest(t)
  OBVIOUS
<1>2. z \in Nat \ {0} /\ z \in Nat
  <2>1. z \in Sizes /\ z > 0 /\ Sizes \subseteq Nat
    BY <1>1, ServingAssumption DEF Honest
  <2> HIDE DEF z
  <2> QED
    BY ONLY <2>1
<1>3. count = BlockCount(z) /\ t.reply.hashes = HashCount(z)
  <2>1. CASE t.reply = HandshakeOf(0, 0)
    BY <2>1 DEF HandshakeOf, Offer
  <2>2. CASE t.reply = HandshakeOf(BlockCount(size[t.nar]), HashCount(z))
    BY <2>2 DEF HandshakeOf
  <2>3. CASE \E s \in Inside(z, t.asked) : t.reply = BlocksReply(z, s)
    BY <2>3 DEF BlocksReply, Offer
  <2> QED
    BY <1>1, <2>1, <2>2, <2>3 DEF Honest
<1>4. t.reply.hashes = count
  BY <1>2, <1>3, HashForEach
<1>5. UNION {Bytes(b) : b \in all} = 0 .. z - 1
  BY <1>2, <1>3, BlocksCover
<1>6. ASSUME NEW b \in all, NEW c \in all, b # c PROVE Bytes(b) \cap Bytes(c) = {}
  <2>1. PICK i \in 0 .. count - 1 : b = BlockAt(i, z)
    OBVIOUS
  <2>2. PICK j \in 0 .. count - 1 : c = BlockAt(j, z)
    OBVIOUS
  <2>3. count \in Nat
    BY <1>2, <1>3, CountNeeded
  <2>4. i \in Nat /\ j \in Nat /\ i < count /\ j < count /\ i # j
    BY <1>6, <2>1, <2>2, <2>3
  <2>5. i * BlockSize < z /\ j * BlockSize < z
    BY <1>2, <1>3, <2>4, CountedInside
  <2>6. CASE i < j
    BY <1>2, <2>1, <2>2, <2>4, <2>5, <2>6, BlocksDisjoint
  <2>7. CASE j < i
    BY <1>2, <2>1, <2>2, <2>4, <2>5, <2>7, BlocksDisjoint
  <2> QED
    BY <2>4, <2>6, <2>7
<1>7. ASSUME NEW u \in Replies, u.file = z, Covered(u.asked, count) PROVE Complete(u)
  <2>1. Honest(u) /\ u.file > 0 /\ Covered(u.asked, BlockCount(u.file))
    BY <1>2, <1>3, <1>7
  <2> QED
    BY <2>1, AllServed
<1> QED
  BY <1>4, <1>5, <1>6, <1>7

(***************************************************************************)
(* Types, and the replies on their way                                     *)
(***************************************************************************)

StoreOK ==
  size \in [Nars -> Sizes] /\ file \in [Nars -> Sizes] /\ index \in SUBSET Nars /\ readable \in SUBSET Nars

LimitOK == rate \in Rates /\ balance \in 0 .. rate /\ refills \in Nat

\* There is a task for a request at most, so there is a number left for the next one; and
\* every reply is an honest one.
ReplyOK ==
  /\ requests \in 0 .. MaxRequests /\ others \in 0 .. MaxOthers /\ uploaded \in Nat
  /\ DOMAIN tasks \subseteq 1 .. MaxRequests /\ Cardinality(DOMAIN tasks) <= requests
  /\ \A i \in DOMAIN tasks : tasks[i] \in Task /\ Honest(tasks[i])
  /\ outbox \in Seq(Task) /\ \A k \in DOMAIN outbox : Honest(outbox[k])
  /\ sent \in SUBSET [reply : Reply, nar : Nars, asked : Seq(Nat), file : Sizes]
  /\ \A t \in sent : Honest(t)
  /\ unanswered \in SUBSET [nar : Nars, asked : Seq(Nat)]

ViewOK ==
  /\ bus \in Seq(Event) /\ cursor \in [Listeners -> 0 .. Len(bus)] /\ lagged \in SUBSET Listeners
  /\ next_id \in Nat /\ entries \in Seq([id : Nat, event : Event]) /\ Len(entries) <= HistoryLimit
  /\ total \in [Nars -> Nat] /\ blocks \in [Nars -> [Peers -> Nat]]

Kinds == StoreOK /\ LimitOK /\ ReplyOK /\ ViewOK

\* An honest reply stays one: the index entry of a NAR keeps its size.
LEMMA HonestStays ==
  ASSUME size' = size
  PROVE  \A x : Honest(x)' <=> Honest(x)
  BY DEF Honest

\* The index entry of a NAR keeps its size.
LEMMA SizeStays ==
  ASSUME [Next]_vars
  PROVE  size' = size
  BY DEF Next, vars, storeVars, RequestHandshake, RequestBlocks, Arrives, Acquire, Released,
         SendResponse, Refill, OtherEvent, Remove, Rewrite, Lag, RecordEventHistory, MaintainTransfers, Receives

\* The numbers of the tasks are finitely many.
LEMMA TasksFinite ==
  ASSUME DOMAIN tasks \subseteq 1 .. MaxRequests
  PROVE  IsFiniteSet(DOMAIN tasks) /\ Cardinality(DOMAIN tasks) \in Nat
<1>1. MaxRequests \in Nat
  BY ServingAssumption
<1> QED
  BY <1>1, UpTo, FS_Subset, FS_CardinalityType

\* Task t is one more task.
Added(t) ==
  \E new \in 1 .. MaxRequests :
     /\ new \notin DOMAIN tasks
     /\ DOMAIN tasks' = DOMAIN tasks \cup {new}
     /\ tasks'[new] = t
     /\ \A i \in DOMAIN tasks : tasks'[i] = tasks[i]

\* The task of a reply r to p.
NewTask(p, n, asked, r) ==
  [reply |-> r, nar |-> n, peer |-> p, asked |-> asked, file |-> file[n],
   since |-> refills, left |-> ResponseSize(r)]

\* A new task gets a number of its own.
LEMMA QueueAdds ==
  ASSUME ReplyOK, requests < MaxRequests, NEW p, NEW n, NEW asked, NEW r, Queue(p, n, asked, r)
  PROVE  Added(NewTask(p, n, asked, r))
<1> DEFINE free(i) == i \notin DOMAIN tasks /\ \A j \in 1 .. i - 1 : j \in DOMAIN tasks
           B == (1 .. MaxRequests) \ DOMAIN tasks
           new == CHOOSE i \in 1 .. MaxRequests : free(i)
           task == NewTask(p, n, asked, r)
<1>1. \E i \in 1 .. MaxRequests : free(i)
  <2>1. /\ MaxRequests \in Nat /\ requests \in Nat
        /\ DOMAIN tasks \subseteq 1 .. MaxRequests /\ Cardinality(DOMAIN tasks) <= requests
    BY ServingAssumption DEF ReplyOK
  <2>2. Cardinality(DOMAIN tasks) \in Nat
    BY <2>1, TasksFinite
  <2>3. Cardinality(1 .. MaxRequests) = MaxRequests
    BY <2>1, UpTo
  <2>4. DOMAIN tasks # 1 .. MaxRequests
    BY <2>1, <2>2, <2>3
  <2>5. B # {} /\ B \subseteq Nat
    <3> DEFINE U == 1 .. MaxRequests
    <3>1. U \subseteq Nat /\ DOMAIN tasks \subseteq U /\ DOMAIN tasks # U
      BY <2>1, <2>4
    <3> HIDE DEF U
    <3>2. U \ DOMAIN tasks # {} /\ U \ DOMAIN tasks \subseteq Nat
      BY ONLY <3>1
    <3> QED
      BY <3>2 DEF U
  <2>6. PICK x \in B : \A y \in B : <<y, x>> \notin OpToRel(<, Nat)
    BY <2>5, WFMin, NatLessThanWellFounded
  <2>7. \A y \in B : ~(y < x)
    BY <2>5, <2>6 DEF OpToRel
  <2>8. x \in 1 .. MaxRequests /\ x \notin DOMAIN tasks
    OBVIOUS
  <2>9. ASSUME NEW j \in 1 .. x - 1 PROVE j \in DOMAIN tasks
    <3>1. j \in 1 .. MaxRequests /\ j < x
      BY <2>1, <2>8
    <3> QED
      BY <2>7, <3>1
  <2> QED
    BY <2>8, <2>9
<1>2. new \in 1 .. MaxRequests /\ new \notin DOMAIN tasks
  BY <1>1
<1>3. tasks' = [i \in DOMAIN tasks \cup {new} |-> IF i = new THEN task ELSE tasks[i]]
  BY DEF Queue, NewTask
<1> HIDE DEF new, task
<1> QED
  BY <1>2, <1>3 DEF Added, task

\* No step takes a value from outside its set: the store,
LEMMA StoreStep ==
  ASSUME StoreOK, [Next]_vars
  PROVE  StoreOK'
  BY DEF StoreOK, Next, vars, storeVars, RequestHandshake, RequestBlocks, Arrives, Acquire, Released,
         SendResponse, Refill, OtherEvent, Remove, Rewrite, Lag, RecordEventHistory, MaintainTransfers, Receives

\* the limiter.
LEMMA LimitStep ==
  ASSUME LimitOK, ReplyOK, [Next]_vars
  PROVE  LimitOK'
<1>1. rate \in Nat /\ balance \in Nat /\ balance <= rate /\ refills \in Nat /\ Rates \subseteq Nat
  BY ServingAssumption DEF LimitOK
<1>2. CASE UNCHANGED <<rate, balance, refills>>
  BY <1>2 DEF LimitOK
<1>3. ASSUME NEW i \in DOMAIN tasks, Acquire(i) PROVE LimitOK'
  <2>1. tasks[i].left \in Nat /\ rate > 0
    BY <1>3 DEF ReplyOK, Task, Acquire, Limited
  <2>2. \E chunk \in Nat : chunk <= balance /\ balance' = balance - chunk
    BY <1>1, <1>3, <2>1 DEF Acquire, Least
  <2>3. UNCHANGED <<rate, refills>>
    BY <1>3 DEF Acquire
  <2> QED
    BY <1>1, <2>2, <2>3 DEF LimitOK
<1>4. CASE Refill
  <2>1. balance' = rate /\ refills' = refills + 1 /\ rate' = rate
    BY <1>4 DEF Refill
  <2> QED
    BY <1>1, <2>1 DEF LimitOK
<1> QED
  BY <1>2, <1>3, <1>4
     DEF Next, vars, RequestHandshake, RequestBlocks, Arrives, Released,
         SendResponse, OtherEvent, Remove, Rewrite, Lag, RecordEventHistory, MaintainTransfers, Receives

\* A task is one if its reply is.
LEMMA TaskTyped ==
  ASSUME StoreOK, LimitOK, NEW p \in Peers, NEW n \in Nars, NEW asked, NEW r,
         Honest(NewTask(p, n, asked, r))
  PROVE  NewTask(p, n, asked, r) \in Task
<1> DEFINE t == NewTask(p, n, asked, r)
<1>1. size \in [Nars -> Sizes] /\ file[n] \in Sizes /\ refills \in Nat
  BY DEF StoreOK, LimitOK
<1>2. t.reply \in Reply /\ ResponseSize(t.reply) \in Nat /\ t.asked \in Seq(Nat)
  BY <1>1, HonestTyped
<1>3. t.reply = r /\ t.asked = asked
  BY DEF NewTask
<1> QED
  BY <1>1, <1>2, <1>3 DEF Task, NewTask

\* A handshake is answered honestly.
LEMMA HandshakeHonest ==
  ASSUME StoreOK, NEW p \in Peers, NEW n \in Nars
  PROVE  Honest(NewTask(p, n, << >>, HandshakeReply(n)))
<1> DEFINE r == HandshakeReply(n)
           t == NewTask(p, n, << >>, r)
<1>1. t.nar = n /\ t.file = file[n] /\ t.asked = << >> /\ t.reply = r
  BY DEF NewTask
<1>2. file[n] \in Sizes
  BY DEF StoreOK
<1>3. r = HandshakeOf(0, 0) \/ r = HandshakeOf(BlockCount(size[n]), HashCount(file[n]))
  BY DEF HandshakeReply, HandshakeOf
<1> HIDE DEF r, t
<1>4. Honest(t)
  BY <1>1, <1>2, <1>3 DEF Honest
<1> QED
  BY <1>4 DEF t, r

\* So is a request for blocks.
LEMMA BlocksHonest ==
  ASSUME StoreOK, NEW p \in Peers, NEW n \in Nars, NEW asked \in IndexLists,
         NEW s \in Inside(file[n], asked)
  PROVE  Honest(NewTask(p, n, asked, BlocksReply(file[n], s)))
<1> DEFINE r == BlocksReply(file[n], s)
           t == NewTask(p, n, asked, r)
<1>1. t.nar = n /\ t.file = file[n] /\ t.asked = asked /\ t.reply = r
  BY DEF NewTask
<1>2. file[n] \in Sizes
  BY DEF StoreOK
<1>3. r = BlocksReply(file[n], s)
  OBVIOUS
<1> HIDE DEF r, t
<1>4. Honest(t)
  BY <1>1, <1>2, <1>3 DEF Honest
<1> QED
  BY <1>4 DEF t, r

\* A reply that is queued is one more honest task.
LEMMA QueueStep ==
  ASSUME ReplyOK, Arrives, NEW p, NEW n, NEW asked, NEW r, Queue(p, n, asked, r),
         Honest(NewTask(p, n, asked, r)), NewTask(p, n, asked, r) \in Task, UNCHANGED unanswered
  PROVE  ReplyOK'
<1> DEFINE t == NewTask(p, n, asked, r)
<1>1. /\ requests < MaxRequests /\ requests' = requests + 1
      /\ UNCHANGED <<size, outbox, sent, unanswered, uploaded, others>>
  BY DEF Arrives, storeVars
<1>2. PICK new \in 1 .. MaxRequests :
           /\ new \notin DOMAIN tasks
           /\ DOMAIN tasks' = DOMAIN tasks \cup {new}
           /\ tasks'[new] = t
           /\ \A i \in DOMAIN tasks : tasks'[i] = tasks[i]
  <2>1. Added(t)
    BY <1>1, QueueAdds
  <2> HIDE DEF t
  <2> QED
    BY <2>1 DEF Added
<1>3. \A x : Honest(x)' <=> Honest(x)
  BY <1>1, HonestStays
<1>4. Honest(t) /\ t \in Task
  OBVIOUS
<1> HIDE DEF t
<1>5. \A i \in DOMAIN tasks' : tasks'[i] \in Task /\ Honest(tasks'[i])
  BY <1>2, <1>4 DEF ReplyOK
<1>6. DOMAIN tasks' \subseteq 1 .. MaxRequests
  BY <1>2 DEF ReplyOK
<1>7. Cardinality(DOMAIN tasks') <= requests'
  <2>1. IsFiniteSet(DOMAIN tasks) /\ Cardinality(DOMAIN tasks) \in Nat
    BY TasksFinite DEF ReplyOK
  <2>2. Cardinality(DOMAIN tasks') = Cardinality(DOMAIN tasks) + 1
    BY <1>2, <2>1, FS_AddElement
  <2> QED
    BY <1>1, <2>1, <2>2 DEF ReplyOK
<1>8. requests' \in 0 .. MaxRequests
  BY <1>1, ServingAssumption DEF ReplyOK
<1> QED
  BY <1>1, <1>3, <1>5, <1>6, <1>7, <1>8 DEF ReplyOK

\* Waiting for the allowance leaves a reply what it is.
LEMMA AcquireStep ==
  ASSUME ReplyOK, LimitOK, NEW i \in DOMAIN tasks, Acquire(i)
  PROVE  ReplyOK'
<1>1. UNCHANGED <<size, outbox, sent, unanswered, uploaded, requests, others>>
  BY DEF Acquire, storeVars
<1>2. \A x : Honest(x)' <=> Honest(x)
  BY <1>1, HonestStays
<1>3. tasks[i] \in Task /\ Honest(tasks[i])
  BY DEF ReplyOK
<1>4. rate \in Nat
  BY ServingAssumption DEF LimitOK
<1>5. LeftAfter(tasks[i].left) \in Nat
  BY <1>3, <1>4 DEF LeftAfter, Least, Task
<1>6. /\ DOMAIN tasks' = DOMAIN tasks
      /\ tasks'[i] = [tasks[i] EXCEPT !.left = LeftAfter(tasks[i].left)]
      /\ \A j \in DOMAIN tasks \ {i} : tasks'[j] = tasks[j]
  BY DEF Acquire
<1>7. tasks'[i] \in Task
  BY <1>3, <1>5, <1>6 DEF Task
<1>8. Honest(tasks'[i])
  <2>1. /\ tasks'[i].nar = tasks[i].nar /\ tasks'[i].asked = tasks[i].asked
        /\ tasks'[i].reply = tasks[i].reply /\ tasks'[i].file = tasks[i].file
    BY <1>3, <1>6 DEF Task
  <2> QED
    BY <1>3, <2>1 DEF Honest
<1>9. \A j \in DOMAIN tasks' : tasks'[j] \in Task /\ Honest(tasks'[j])
  BY <1>6, <1>7, <1>8 DEF ReplyOK
<1> QED
  BY <1>1, <1>2, <1>6, <1>9 DEF ReplyOK

\* So does handing it to the swarm task.
LEMMA ReleasedStep ==
  ASSUME ReplyOK, NEW i \in DOMAIN tasks, Released(i)
  PROVE  ReplyOK'
<1> DEFINE t == [tasks[i] EXCEPT !.left = 0]
<1>1. UNCHANGED <<size, sent, unanswered, uploaded, requests, others>>
  BY DEF Released, storeVars
<1>2. \A x : Honest(x)' <=> Honest(x)
  BY <1>1, HonestStays
<1>3. tasks[i] \in Task /\ Honest(tasks[i])
  BY DEF ReplyOK
<1>4. t \in Task
  BY <1>3 DEF Task
<1>5. Honest(t)
  <2>1. t.nar = tasks[i].nar /\ t.asked = tasks[i].asked /\ t.reply = tasks[i].reply
        /\ t.file = tasks[i].file
    BY <1>3 DEF Task
  <2> QED
    BY <1>3, <2>1 DEF Honest
<1>6. outbox' = Append(outbox, t) /\ tasks' = [j \in DOMAIN tasks \ {i} |-> tasks[j]]
  BY DEF Released
<1> HIDE DEF t
<1>7. outbox' \in Seq(Task) /\ \A k \in DOMAIN outbox' : Honest(outbox'[k])
  BY <1>4, <1>5, <1>6 DEF ReplyOK
<1>8. /\ DOMAIN tasks' = DOMAIN tasks \ {i}
      /\ \A j \in DOMAIN tasks' : tasks'[j] \in Task /\ Honest(tasks'[j])
  BY <1>6 DEF ReplyOK
<1>9. DOMAIN tasks' \subseteq 1 .. MaxRequests
  BY <1>8 DEF ReplyOK
<1>10. Cardinality(DOMAIN tasks') <= requests
  <2>1. IsFiniteSet(DOMAIN tasks) /\ Cardinality(DOMAIN tasks) \in Nat /\ Cardinality(DOMAIN tasks) <= requests
    BY TasksFinite DEF ReplyOK
  <2>2. Cardinality(DOMAIN tasks') = Cardinality(DOMAIN tasks) - 1
    BY <1>8, <2>1, FS_RemoveElement
  <2> QED
    BY <2>1, <2>2 DEF ReplyOK
<1> QED
  BY <1>1, <1>2, <1>7, <1>8, <1>9, <1>10 DEF ReplyOK

\* So does sending it.
LEMMA SendStep ==
  ASSUME StoreOK, ReplyOK, SendResponse
  PROVE  ReplyOK'
<1> DEFINE t == Head(outbox)
           u == [reply |-> t.reply, nar |-> t.nar, asked |-> t.asked, file |-> t.file]
<1>1. UNCHANGED <<size, tasks, unanswered, requests, others>>
  BY DEF SendResponse, storeVars
<1>2. \A x : Honest(x)' <=> Honest(x)
  BY <1>1, HonestStays
<1>3. /\ outbox # << >> /\ outbox' = Tail(outbox) /\ (sent' = sent \cup {u} \/ sent' = sent)
      /\ uploaded' = uploaded + ResponseSize(t.reply) \/ uploaded' = uploaded
  BY DEF SendResponse
<1>4. outbox \in Seq(Task)
  BY DEF ReplyOK
<1>5. t = outbox[1] /\ 1 \in DOMAIN outbox
  BY <1>3, <1>4
<1>6. Honest(t) /\ t \in Task
  BY <1>4, <1>5 DEF ReplyOK
<1>7. ResponseSize(t.reply) \in Nat
  BY <1>6, HonestTyped DEF StoreOK
<1>8. Honest(u) /\ u \in [reply : Reply, nar : Nars, asked : Seq(Nat), file : Sizes]
  BY <1>6 DEF Honest, Task
<1>9. /\ Tail(outbox) \in Seq(Task)
      /\ \A k \in DOMAIN Tail(outbox) : k + 1 \in DOMAIN outbox /\ Tail(outbox)[k] = outbox[k + 1]
  BY <1>3, <1>4
<1>10. outbox' \in Seq(Task) /\ \A k \in DOMAIN outbox' : Honest(outbox'[k])
  BY <1>3, <1>9 DEF ReplyOK
<1>11. uploaded' \in Nat
  BY <1>3, <1>7 DEF ReplyOK
<1> HIDE DEF u
<1>12. /\ sent' \in SUBSET [reply : Reply, nar : Nars, asked : Seq(Nat), file : Sizes]
       /\ \A x \in sent' : Honest(x)
  BY <1>3, <1>8 DEF ReplyOK
<1> QED
  BY <1>1, <1>2, <1>10, <1>11, <1>12 DEF ReplyOK

\* the replies,
LEMMA ReplyStep ==
  ASSUME StoreOK, LimitOK, ReplyOK, [Next]_vars
  PROVE  ReplyOK'
<1>1. \A x : Honest(x)' <=> Honest(x)
  BY SizeStays, HonestStays
<1>2. CASE UNCHANGED <<replyVars, others>>
  BY <1>1, <1>2 DEF ReplyOK, replyVars
<1>3. ASSUME Arrives, UNCHANGED tasks, unanswered' \in SUBSET [nar : Nars, asked : Seq(Nat)]
      PROVE  ReplyOK'
  <2>1. requests' = requests + 1 /\ requests < MaxRequests /\ UNCHANGED <<outbox, sent, uploaded, others>>
    BY <1>3 DEF Arrives
  <2>2. requests' \in 0 .. MaxRequests /\ Cardinality(DOMAIN tasks) <= requests'
    <3>1. Cardinality(DOMAIN tasks) \in Nat
      BY TasksFinite DEF ReplyOK
    <3> QED
      BY <2>1, <3>1, ServingAssumption DEF ReplyOK
  <2> QED
    BY <1>1, <1>3, <2>1, <2>2 DEF ReplyOK
<1>4. ASSUME NEW p \in Peers, NEW n \in Nars, RequestHandshake(p, n) PROVE ReplyOK'
  <2>1. CASE Queue(p, n, << >>, HandshakeReply(n))
    BY <1>4, <2>1, QueueStep, HandshakeHonest, TaskTyped DEF RequestHandshake
  <2>2. CASE UNCHANGED tasks
    BY <1>3, <1>4, <2>2 DEF RequestHandshake, ReplyOK
  <2> QED
    BY <1>4, <2>1, <2>2 DEF RequestHandshake
<1>5. ASSUME NEW p \in Peers, NEW n \in Nars, NEW a \in IndexLists, RequestBlocks(p, n, a) PROVE ReplyOK'
  <2>1. ASSUME NEW s \in Inside(file[n], a), Queue(p, n, a, BlocksReply(file[n], s)),
               UNCHANGED unanswered
        PROVE  ReplyOK'
    BY <1>5, <2>1, QueueStep, BlocksHonest, TaskTyped DEF RequestBlocks
  <2>2. CASE UNCHANGED tasks /\ unanswered' = unanswered \cup {[nar |-> n, asked |-> a]}
    <3>1. a \in Seq(Nat)
      BY ServingAssumption
    <3>2. unanswered' \in SUBSET [nar : Nars, asked : Seq(Nat)]
      BY <2>2, <3>1 DEF ReplyOK
    <3> QED
      BY <1>3, <1>5, <2>2, <3>2 DEF RequestBlocks
  <2> QED
    BY <1>5, <2>1, <2>2 DEF RequestBlocks
<1>6. ASSUME OtherEvent PROVE ReplyOK'
  <2>1. others' \in 0 .. MaxOthers /\ UNCHANGED replyVars
    BY <1>6, ServingAssumption DEF OtherEvent, ReplyOK
  <2> QED
    BY <1>1, <2>1 DEF ReplyOK, replyVars
<1> QED
  BY <1>2, <1>4, <1>5, <1>6, AcquireStep, ReleasedStep, SendStep
     DEF Next, vars, Refill, Remove, Rewrite, Lag, RecordEventHistory, MaintainTransfers, Receives

\* One more event on the bus leaves the listeners where they are.
LEMMA BusGrows ==
  ASSUME ViewOK, NEW e \in Event, bus' = Append(bus, e), UNCHANGED viewVars
  PROVE  ViewOK'
<1>1. bus \in Seq(Event) /\ cursor \in [Listeners -> 0 .. Len(bus)]
  BY DEF ViewOK
<1>2. bus' \in Seq(Event) /\ Len(bus') = Len(bus) + 1
  BY <1>1, AppendProperties
<1>3. Len(bus) \in Nat
  BY <1>1
<1>4. cursor \in [Listeners -> 0 .. Len(bus')]
  BY <1>1, <1>2, <1>3
<1> QED
  BY <1>2, <1>4 DEF ViewOK, viewVars

\* The swarm task reports an event.
LEMMA SendReports ==
  ASSUME ReplyOK, SendResponse
  PROVE  \E e \in Event : bus' = Append(bus, e)
<1> DEFINE t == Head(outbox)
           e == [kind |-> "BlockServed", nar |-> t.nar, peer |-> t.peer, indices |-> Len(t.asked)]
<1>1. outbox \in Seq(Task) /\ outbox # << >>
  BY DEF ReplyOK, SendResponse
<1>2. t \in Task
  BY <1>1, HeadTailProperties
<1> HIDE DEF t
<1>3. t.nar \in Nars /\ t.peer \in Peers /\ t.asked \in Seq(Nat)
  BY <1>2 DEF Task
<1>4. Len(t.asked) \in Nat
  BY <1>3
<1>5. e \in Event
  BY <1>3, <1>4 DEF Event
<1>6. bus' = Append(bus, e)
  BY DEF SendResponse, t
<1> QED
  BY <1>5, <1>6

\* A receiver that is not behind by more than the bus keeps gets the next event.
LEMMA ReceivesNext ==
  ASSUME ViewOK, NEW l \in Listeners, Receives(l)
  PROVE  /\ cursor[l] \in Nat /\ cursor[l] + 1 \in 1 .. Len(bus) /\ bus[cursor[l] + 1] \in Event
         /\ cursor' \in [Listeners -> 0 .. Len(bus)] /\ cursor'[l] = cursor[l] + 1
         /\ \A k \in Listeners \ {l} : cursor'[k] = cursor[k]
         /\ UNCHANGED <<bus, lagged>>
<1>1. /\ bus \in Seq(Event) /\ Len(bus) \in Nat /\ cursor \in [Listeners -> 0 .. Len(bus)]
      /\ cursor[l] \in 0 .. Len(bus)
  BY DEF ViewOK
<1>2. Len(bus) - cursor[l] >= 1
  BY <1>1, ServingAssumption DEF Receives, Behind
<1>3. cursor[l] \in Nat /\ cursor[l] + 1 \in 1 .. Len(bus)
  BY <1>1, <1>2
<1>4. bus[cursor[l] + 1] \in Event
  BY <1>1, <1>3
<1>5. cursor' = [cursor EXCEPT ![l] = cursor[l] + 1] /\ UNCHANGED <<bus, lagged>>
  BY DEF Receives
<1>6. cursor' \in [Listeners -> 0 .. Len(bus)]
  BY <1>1, <1>3, <1>5
<1> QED
  BY <1>1, <1>3, <1>4, <1>5, <1>6

\* The history that is left when one more entry is recorded.
LEMMA HistoryGrows ==
  ASSUME NEW S, NEW s \in Seq(S), Len(s) <= HistoryLimit, NEW e \in S
  PROVE  LET t == Append(s, e)
             u == Shortened(t)
             n == Len(u)
         IN /\ t \in Seq(S) /\ Len(t) = Len(s) + 1
            /\ u \in Seq(S) /\ n \in Nat /\ n = Least(Len(s) + 1, HistoryLimit)
            /\ \A i \in 1 .. n : u[i] = t[i + Len(s) + 1 - n]
<1> DEFINE t == Append(s, e)
           u == Shortened(t)
           m == Len(s)
<1>1. HistoryLimit \in Nat /\ m \in Nat /\ m <= HistoryLimit
  BY ServingAssumption
<1>2. t \in Seq(S) /\ Len(t) = m + 1
  BY AppendProperties
<1>3. \A i \in 1 .. m + 1 : t[i] \in S
  BY <1>2
<1> HIDE DEF t
<1>4. CASE m + 1 <= HistoryLimit
  <2>1. u = t
    BY <1>1, <1>2, <1>4 DEF Shortened
  <2>2. Least(m + 1, HistoryLimit) = m + 1
    BY <1>1, <1>4 DEF Least
  <2>3. \A i \in 1 .. m + 1 : i + m + 1 - (m + 1) = i
    BY <1>1
  <2> QED
    BY <1>1, <1>2, <2>1, <2>2, <2>3 DEF t
<1>5. CASE m = HistoryLimit
  <2>1. u = SubSeq(t, 2, m + 1)
    BY <1>1, <1>2, <1>5 DEF Shortened
  <2>2. \A i \in 2 .. m + 1 : t[i] \in S
    BY <1>1, <1>3
  <2>3. /\ SubSeq(t, 2, m + 1) \in Seq(S)
        /\ Len(SubSeq(t, 2, m + 1)) = IF 2 <= m + 1 THEN (m + 1) - 2 + 1 ELSE 0
        /\ \A i \in 1 .. (m + 1) - 2 + 1 : SubSeq(t, 2, m + 1)[i] = t[2 + i - 1]
    <3>1. 2 \in Int /\ m + 1 \in Int
      BY <1>1
    <3> QED
      BY ONLY <2>2, <3>1, SubSeqProperties
  <2>4. u \in Seq(S) /\ Len(u) = m
    BY <1>1, <2>1, <2>3
  <2>5. \A i \in 1 .. m : u[i] = t[i + 1]
    BY <1>1, <2>1, <2>3
  <2>6. Least(m + 1, HistoryLimit) = m
    BY <1>1, <1>5 DEF Least
  <2>7. \A i \in 1 .. m : i + m + 1 - m = i + 1
    BY <1>1
  <2> HIDE DEF u
  <2> QED
    BY <1>1, <1>2, <2>4, <2>5, <2>6, <2>7 DEF t, u
<1>6. m + 1 <= HistoryLimit \/ m = HistoryLimit
  BY <1>1
<1> QED
  BY ONLY <1>4, <1>5, <1>6

\* the views of the dashboard.
LEMMA ViewStep ==
  ASSUME ReplyOK, ViewOK, [Next]_vars
  PROVE  ViewOK'
<1>1. CASE UNCHANGED <<bus, viewVars>>
  BY <1>1 DEF ViewOK, viewVars
<1>2. CASE SendResponse
  <2>1. UNCHANGED viewVars
    BY <1>2 DEF SendResponse
  <2> QED
    BY <1>2, <2>1, SendReports, BusGrows
<1>3. CASE OtherEvent
  <2>1. [kind |-> "other"] \in Event /\ bus' = Append(bus, [kind |-> "other"]) /\ UNCHANGED viewVars
    BY <1>3 DEF OtherEvent, Event
  <2> QED
    BY <2>1, BusGrows
<1>4. ASSUME NEW l \in Listeners, Lag(l) PROVE ViewOK'
  <2>1. Len(bus) \in Nat /\ cursor[l] \in Nat /\ BusCapacity \in Nat
        /\ cursor \in [Listeners -> 0 .. Len(bus)]
    BY ServingAssumption DEF ViewOK
  <2>2. Len(bus) - cursor[l] > BusCapacity
    BY <1>4 DEF Lag, Behind
  <2>3. Len(bus) - BusCapacity \in 0 .. Len(bus)
    BY <2>1, <2>2
  <2>4. cursor' \in [Listeners -> 0 .. Len(bus)]
    BY <1>4, <2>1, <2>3 DEF Lag
  <2>5. lagged' = lagged \cup {l} /\ UNCHANGED <<bus, next_id, entries, total, blocks>>
    BY <1>4 DEF Lag
  <2> QED
    BY <2>4, <2>5 DEF ViewOK
<1>5. CASE RecordEventHistory
  <2> DEFINE S == [id : Nat, event : Event]
             e == [id |-> next_id, event |-> bus[cursor["history"] + 1]]
  <2>1. "history" \in Listeners /\ Receives("history")
    BY <1>5, ServingAssumption DEF RecordEventHistory
  <2>2. bus[cursor["history"] + 1] \in Event /\ cursor' \in [Listeners -> 0 .. Len(bus)]
        /\ UNCHANGED <<bus, lagged>>
    BY <2>1, ReceivesNext
  <2>3. next_id' = next_id + 1 /\ entries' = Shortened(Append(entries, e)) /\ UNCHANGED <<total, blocks>>
    BY <1>5 DEF RecordEventHistory
  <2>4. entries \in Seq(S) /\ Len(entries) <= HistoryLimit /\ next_id \in Nat
    BY DEF ViewOK
  <2>5. e \in S
    BY <2>2, <2>4
  <2> HIDE DEF e, S
  <2>6. entries' \in Seq(S) /\ Len(entries') = Least(Len(entries) + 1, HistoryLimit)
    BY <2>3, <2>4, <2>5, HistoryGrows
  <2>7. Len(entries') <= HistoryLimit
    BY <2>4, <2>6, ServingAssumption DEF Least
  <2>8. next_id' \in Nat
    BY <2>3, <2>4
  <2> QED
    BY <2>2, <2>3, <2>6, <2>7, <2>8 DEF ViewOK, S
<1>6. CASE MaintainTransfers
  <2> DEFINE e == bus[cursor["transfers"] + 1]
  <2>1. "transfers" \in Listeners /\ Receives("transfers")
    BY <1>6, ServingAssumption DEF MaintainTransfers
  <2>2. e \in Event /\ cursor' \in [Listeners -> 0 .. Len(bus)] /\ UNCHANGED <<bus, lagged>>
    BY <2>1, ReceivesNext
  <2>3. total \in [Nars -> Nat] /\ blocks \in [Nars -> [Peers -> Nat]]
    BY DEF ViewOK
  <2>4. UNCHANGED <<next_id, entries>>
    BY <1>6 DEF MaintainTransfers
  <2>5. CASE e.kind = "BlockServed" /\ e.indices > 0
    <3>1. /\ total' = [total EXCEPT ![e.nar] = @ + e.indices]
          /\ blocks' = [blocks EXCEPT ![e.nar][e.peer] = @ + e.indices]
      BY <1>6, <2>5 DEF MaintainTransfers, RecordTransferPeer
    <3>2. e.nar \in Nars /\ e.peer \in Peers /\ e.indices \in Nat
      BY <2>2, <2>5 DEF Event
    <3> HIDE DEF e
    <3>3. total' \in [Nars -> Nat] /\ blocks' \in [Nars -> [Peers -> Nat]]
      BY <2>3, <3>1, <3>2
    <3> QED
      BY <2>2, <2>4, <3>3 DEF ViewOK
  <2>6. CASE ~(e.kind = "BlockServed" /\ e.indices > 0)
    <3>1. UNCHANGED <<total, blocks>>
      BY <1>6, <2>6 DEF MaintainTransfers
    <3> QED
      BY <2>2, <2>4, <3>1 DEF ViewOK
  <2> QED
    BY <2>5, <2>6
<1> QED
  BY <1>1, <1>2, <1>3, <1>4, <1>5, <1>6
     DEF Next, vars, RequestHandshake, RequestBlocks, Arrives, Acquire, Released, Refill, Remove, Rewrite

\* Every value is of its kind, and every reply is honest, in every state.
LEMMA AllKinds == Spec => []Kinds
<1>1. Init => Kinds
  <2> SUFFICES ASSUME Init PROVE Kinds
    OBVIOUS
  <2>1. StoreOK
    BY DEF Init, StoreOK
  <2>2. LimitOK
    BY ServingAssumption DEF Init, LimitOK
  <2>3. ReplyOK
    <3>1. DOMAIN tasks = {} /\ Cardinality({}) = 0
      BY FS_EmptySet DEF Init
    <3> QED
      BY <3>1, ServingAssumption DEF Init, ReplyOK
  <2>4. ViewOK
    BY ServingAssumption DEF Init, ViewOK
  <2> QED
    BY <2>1, <2>2, <2>3, <2>4 DEF Kinds
<1>2. Kinds /\ [Next]_vars => Kinds'
  BY StoreStep, LimitStep, ReplyStep, ViewStep DEF Kinds
<1> QED
  BY <1>1, <1>2, PTL DEF Spec

\* Every variable keeps its type.
THEOREM TypesKept == Spec => []TypeOK
<1>1. Kinds => TypeOK
  <2> SUFFICES ASSUME Kinds PROVE TypeOK
    OBVIOUS
  <2> QED
    BY DEF Kinds, StoreOK, LimitOK, ReplyOK, ViewOK, TypeOK
<1> QED
  BY <1>1, AllKinds, PTL

\* What a handshake advertises is the NAR, and a reply that is read from the same file has all
\* the blocks asked for, where the file is what the index says and is not empty
\* (from_file_size, compute_block_hashes, serve_blocks, handle_request): for files and blocks of
\* every size, whatever is removed or rewritten, and however long a reply waits.
THEOREM AdvertisedServed == Spec => []AdvertisedIsServed
<1>1. Kinds => AdvertisedIsServed
  <2> SUFFICES ASSUME Kinds PROVE AdvertisedIsServed
    OBVIOUS
  <2>1. size \in [Nars -> Sizes]
    BY DEF Kinds, StoreOK
  <2>2. \A t \in Replies : Honest(t)
    BY DEF Kinds, ReplyOK, Replies, Elements
  <2> QED
    BY <2>1, <2>2, HonestServes
<1> QED
  BY <1>1, AllKinds, PTL

(***************************************************************************)
(* The history                                                             *)
(***************************************************************************)

\* An event that has been put on the bus stays what it is.
LEMMA BusKeeps ==
  ASSUME ReplyOK, ViewOK, [Next]_vars
  PROVE  Len(bus) <= Len(bus') /\ \A k \in 1 .. Len(bus) : bus'[k] = bus[k]
<1>1. bus \in Seq(Event) /\ Len(bus) \in Nat
  BY DEF ViewOK
<1>2. CASE bus' = bus
  BY <1>1, <1>2
<1>3. ASSUME NEW e \in Event, bus' = Append(bus, e)
      PROVE  Len(bus) <= Len(bus') /\ \A k \in 1 .. Len(bus) : bus'[k] = bus[k]
  BY <1>1, <1>3, AppendProperties
<1>4. CASE SendResponse
  BY <1>3, <1>4, SendReports
<1>5. CASE OtherEvent
  <2>1. [kind |-> "other"] \in Event /\ bus' = Append(bus, [kind |-> "other"])
    BY <1>5 DEF OtherEvent, Event
  <2> QED
    BY <1>3, <2>1
<1> QED
  BY <1>2, <1>4, <1>5
     DEF Next, vars, RequestHandshake, RequestBlocks, Arrives, Acquire, Released, Refill, Remove,
         Rewrite, Lag, RecordEventHistory, MaintainTransfers, Receives

\* A listener that has lost nothing has given a number to each event that it has received.
HistoryInv ==
  /\ HistoryIsLatest
  /\ "history" \notin lagged => next_id = cursor["history"]

\* The entries stay the latest while only the bus and the other listener go on.
LEMMA HistoryIdle ==
  ASSUME ReplyOK, ViewOK, HistoryInv, [Next]_vars, UNCHANGED <<next_id, entries>>,
         "history" \notin lagged' => "history" \notin lagged /\ cursor'["history"] = cursor["history"]
  PROVE  HistoryInv'
<1>1. Len(bus) <= Len(bus') /\ \A k \in 1 .. Len(bus) : bus'[k] = bus[k]
  BY BusKeeps
<1>2. ASSUME "history" \notin lagged', NEW i \in DOMAIN entries
      PROVE  entries[i].event = bus'[entries[i].id + 1]
  <2>1. "history" \notin lagged /\ next_id = cursor["history"]
    BY <1>2 DEF HistoryInv
  <2>2. entries[i].event = bus[entries[i].id + 1] /\ entries[i].id = next_id + i - 1 - Len(entries)
    BY <2>1 DEF HistoryInv, HistoryIsLatest
  <2>3. next_id \in Nat /\ entries[i].id \in Nat /\ Len(entries) \in Nat /\ i \in 1 .. Len(entries)
    <3> DEFINE S == [id : Nat, event : Event]
    <3>1. entries \in Seq(S) /\ next_id \in Nat
      BY DEF ViewOK
    <3> HIDE DEF S
    <3>2. entries[i] \in S /\ Len(entries) \in Nat /\ i \in 1 .. Len(entries)
      BY <3>1
    <3> QED
      BY <3>1, <3>2 DEF S
  <2>4. cursor["history"] <= Len(bus) /\ Len(bus) \in Nat
    BY ServingAssumption DEF ViewOK
  <2>5. entries[i].id + 1 \in 1 .. Len(bus)
    <3> DEFINE e == entries[i].id
               l == Len(entries)
    <3>1. e \in Nat /\ l \in Nat /\ i \in 1 .. l /\ next_id \in Nat
          /\ e = next_id + i - 1 - l /\ next_id <= Len(bus) /\ Len(bus) \in Nat
      BY <2>1, <2>2, <2>3, <2>4
    <3> HIDE DEF e, l
    <3>2. e + 1 \in 1 .. Len(bus)
      BY ONLY <3>1
    <3> QED
      BY <3>2 DEF e
  <2> QED
    BY <1>1, <2>2, <2>5
<1> QED
  BY <1>2 DEF HistoryInv, HistoryIsLatest

\* One more entry is the latest.
LEMMA HistoryRecorded ==
  ASSUME ViewOK, HistoryInv, RecordEventHistory
  PROVE  HistoryInv'
<1> DEFINE S == [id : Nat, event : Event]
           c == cursor["history"]
           e == [id |-> next_id, event |-> bus[c + 1]]
           t == Append(entries, e)
           m == Len(entries)
           n == Len(entries')
<1>1. "history" \in Listeners /\ Receives("history")
  BY ServingAssumption DEF RecordEventHistory
<1>2. bus[c + 1] \in Event /\ c \in Nat /\ cursor'["history"] = c + 1 /\ UNCHANGED <<bus, lagged>>
  BY <1>1, ReceivesNext
<1>3. next_id' = next_id + 1 /\ entries' = Shortened(t)
  BY DEF RecordEventHistory
<1>4. entries \in Seq(S) /\ m <= HistoryLimit /\ next_id \in Nat
  BY DEF ViewOK
<1>5. e \in S
  BY <1>2, <1>4
<1>6. /\ t \in Seq(S) /\ Len(t) = m + 1 /\ t[m + 1] = e
      /\ \A j \in 1 .. m : t[j] = entries[j]
  BY <1>4, <1>5, AppendProperties
<1>7. /\ entries' \in Seq(S) /\ n \in Nat /\ n = Least(m + 1, HistoryLimit)
      /\ \A i \in 1 .. n : entries'[i] = t[i + m + 1 - n]
  <2> HIDE DEF e, S
  <2> QED
    BY <1>3, <1>4, <1>5, HistoryGrows
<1>8. m \in Nat /\ HistoryLimit \in Nat /\ m = Least(next_id, HistoryLimit)
  BY <1>4, ServingAssumption DEF HistoryInv, HistoryIsLatest
<1>9. n <= m + 1
  BY <1>7, <1>8 DEF Least
<1>10. n = Least(next_id', HistoryLimit)
  <2> HIDE DEF m, n
  <2> QED
    BY <1>3, <1>4, <1>7, <1>8 DEF Least
<1>11. \A j \in 1 .. m : entries[j].id = next_id + j - 1 - m
  BY <1>4 DEF HistoryInv, HistoryIsLatest
<1>12. ASSUME NEW i \in 1 .. n PROVE entries'[i].id = next_id' + i - 1 - n
  <2> DEFINE j == i + m + 1 - n
  <2>1. j \in 1 .. m + 1 /\ entries'[i] = t[j]
    BY <1>7, <1>8, <1>9
  <2>2. CASE j \in 1 .. m
    <3>1. entries'[i].id = next_id + j - 1 - m
      BY <1>6, <1>11, <2>1, <2>2
    <3> QED
      BY <1>3, <1>4, <1>7, <1>8, <3>1
  <2>3. CASE j = m + 1
    <3>1. entries'[i].id = next_id
      BY <1>6, <2>1, <2>3
    <3> HIDE DEF m, n
    <3>2. i = n
      BY <1>7, <1>8, <2>3
    <3>3. next_id' = next_id + 1 /\ next_id \in Nat /\ n \in Nat
      BY <1>3, <1>4, <1>7
    <3>4. next_id' + n - 1 - n = next_id
      BY ONLY <3>3
    <3> QED
      BY ONLY <3>1, <3>2, <3>4
  <2> QED
    BY <1>8, <2>1, <2>2, <2>3
<1>13. ASSUME "history" \notin lagged', NEW i \in 1 .. n
       PROVE  entries'[i].event = bus'[entries'[i].id + 1]
  <2> DEFINE j == i + m + 1 - n
  <2>1. j \in 1 .. m + 1 /\ entries'[i] = t[j]
    BY <1>7, <1>8, <1>9
  <2>2. "history" \notin lagged /\ next_id = c
    BY <1>2, <1>13 DEF HistoryInv
  <2>3. CASE j \in 1 .. m
    <3>1. entries[j].event = bus[entries[j].id + 1]
      BY <1>4, <2>2, <2>3 DEF HistoryInv, HistoryIsLatest
    <3> QED
      BY <1>2, <1>6, <2>1, <2>3, <3>1
  <2>4. CASE j = m + 1
    BY <1>2, <1>6, <2>1, <2>2, <2>4
  <2> QED
    BY <1>8, <2>1, <2>3, <2>4
<1>14. "history" \notin lagged' => next_id' = cursor'["history"]
  BY <1>2, <1>3 DEF HistoryInv
<1>15. DOMAIN entries' = 1 .. n
  BY <1>7
<1> QED
  BY <1>10, <1>12, <1>13, <1>14, <1>15 DEF HistoryInv, HistoryIsLatest

\* /api/events has the latest events, with ids that follow each other (maintain_event_history,
\* record_event_history): for every length of the history and every capacity of the bus, and
\* however the listener and the tasks that report take turns.
THEOREM HistoryLatest == Spec => []HistoryIsLatest
<1>1. Init => HistoryInv
  BY ServingAssumption DEF Init, HistoryInv, HistoryIsLatest, Least
<1>2. Kinds /\ HistoryInv /\ [Next]_vars => HistoryInv'
  <2> SUFFICES ASSUME ReplyOK, ViewOK, HistoryInv, [Next]_vars PROVE HistoryInv'
    BY DEF Kinds
  <2>1. CASE UNCHANGED viewVars
    BY <2>1, HistoryIdle DEF viewVars
  <2>2. ASSUME NEW l \in Listeners, Lag(l) PROVE HistoryInv'
    <3>1. /\ cursor' = [cursor EXCEPT ![l] = Len(bus) - BusCapacity]
          /\ lagged' = lagged \cup {l} /\ UNCHANGED <<next_id, entries>>
      BY <2>2 DEF Lag
    <3>2. "history" \in Listeners /\ cursor \in [Listeners -> 0 .. Len(bus)]
      BY ServingAssumption DEF ViewOK
    <3>3. "history" \notin lagged' => "history" \notin lagged /\ cursor'["history"] = cursor["history"]
      BY <3>1, <3>2
    <3> QED
      BY <3>1, <3>3, HistoryIdle
  <2>3. CASE RecordEventHistory
    BY <2>3, HistoryRecorded
  <2>4. CASE MaintainTransfers
    <3>1. "transfers" \in Listeners /\ "history" \in Listeners \ {"transfers"} /\ Receives("transfers")
      BY <2>4, ServingAssumption DEF MaintainTransfers
    <3>2. cursor'["history"] = cursor["history"] /\ UNCHANGED lagged
      BY <3>1, ReceivesNext
    <3>3. UNCHANGED <<next_id, entries>>
      BY <2>4 DEF MaintainTransfers
    <3> QED
      BY <3>2, <3>3, HistoryIdle
  <2> QED
    BY <2>1, <2>2, <2>3, <2>4
       DEF Next, vars, RequestHandshake, RequestBlocks, Arrives, Acquire, Released, Refill, Remove,
         Rewrite, SendResponse, OtherEvent
<1>3. HistoryInv => HistoryIsLatest
  BY DEF HistoryInv
<1> QED
  BY <1>1, <1>2, <1>3, AllKinds, PTL DEF Spec

(***************************************************************************)
(* The counts of the transfers                                             *)
(***************************************************************************)

\* What the event with number k adds to the blocks served of n.
Adds(n, k) == IF bus[k].kind = "BlockServed" /\ bus[k].nar = n THEN bus[k].indices ELSE 0

\* The events that the listener knows of.
Known(n) == [k \in 1 .. cursor["transfers"] |-> Adds(n, k)]

\* The counts are kept while only the bus and the other listener go on.
LEMMA TransfersIdle ==
  ASSUME ReplyOK, ViewOK, TransfersAddUp, [Next]_vars, UNCHANGED <<total, blocks>>,
         "transfers" \notin lagged' =>
            "transfers" \notin lagged /\ cursor'["transfers"] = cursor["transfers"]
  PROVE  TransfersAddUp'
<1>1. ASSUME NEW n \in Nars, "transfers" \notin lagged' PROVE total[n] = Total(Known(n)')
  <2>1. "transfers" \notin lagged /\ cursor'["transfers"] = cursor["transfers"]
    BY <1>1
  <2>2. total[n] = Total(Known(n))
    BY <2>1 DEF TransfersAddUp, Known, Adds
  <2>3. cursor["transfers"] \in 0 .. Len(bus) /\ Len(bus) \in Nat
    BY ServingAssumption DEF ViewOK
  <2>4. \A k \in 1 .. Len(bus) : bus'[k] = bus[k]
    BY BusKeeps
  <2>5. \A k \in 1 .. cursor["transfers"] : bus'[k] = bus[k]
    BY <2>3, <2>4
  <2>6. Known(n)' = Known(n)
    BY <2>1, <2>5 DEF Known, Adds
  <2> QED
    BY <2>2, <2>6
<1>2. \A n \in Nars : total'[n] = Total(blocks'[n])
  BY DEF TransfersAddUp
<1> QED
  BY <1>1, <1>2 DEF TransfersAddUp, Known, Adds

\* What the listener adds is what the event says.
LEMMA TransfersRecorded ==
  ASSUME ViewOK, TransfersAddUp, MaintainTransfers
  PROVE  TransfersAddUp'
<1> DEFINE c == cursor["transfers"]
           e == bus[c + 1]
<1>1. "transfers" \in Listeners /\ Receives("transfers")
  BY ServingAssumption DEF MaintainTransfers
<1>2. /\ c \in Nat /\ c + 1 \in 1 .. Len(bus) /\ e \in Event /\ cursor'["transfers"] = c + 1
      /\ UNCHANGED <<bus, lagged>>
  BY <1>1, ReceivesNext
<1>3. bus \in Seq(Event) /\ total \in [Nars -> Nat] /\ blocks \in [Nars -> [Peers -> Nat]] /\ Len(bus) \in Nat
  BY DEF ViewOK
<1>4. ASSUME NEW k \in 1 .. Len(bus), NEW n \in Nars PROVE Adds(n, k) \in Nat
  <2>1. bus[k] \in Event
    BY <1>3
  <2> QED
    BY <2>1 DEF Adds, Event
<1>5. ASSUME NEW n \in Nars PROVE total'[n] = total[n] + Adds(n, c + 1)
  <2>1. CASE e.kind = "BlockServed" /\ e.indices > 0
    <3>1. total' = [total EXCEPT ![e.nar] = @ + e.indices]
      BY <2>1 DEF MaintainTransfers
    <3>2. e.nar \in Nars /\ e.indices \in Nat
      BY <1>2, <2>1 DEF Event
    <3>3. Adds(n, c + 1) = IF e.nar = n THEN e.indices ELSE 0
      BY <2>1 DEF Adds
    <3> HIDE DEF e, c
    <3> QED
      BY <1>3, <3>1, <3>2, <3>3
  <2>2. CASE ~(e.kind = "BlockServed" /\ e.indices > 0)
    <3>1. total' = total
      BY <2>2 DEF MaintainTransfers
    <3>2. e.kind = "BlockServed" => e.indices \in Nat
      BY <1>2 DEF Event
    <3>3. Adds(n, c + 1) = 0
      BY <2>2, <3>2 DEF Adds
    <3> QED
      BY <1>3, <3>1, <3>3
  <2> QED
    BY <2>1, <2>2
<1>6. ASSUME NEW n \in Nars PROVE Total(blocks'[n]) = Total(blocks[n]) + Adds(n, c + 1)
  <2>1. /\ DOMAIN blocks[n] = Peers /\ IsFiniteSet(Peers) /\ \A p \in Peers : blocks[n][p] \in Nat
    BY <1>3, ServingAssumption
  <2>2. Total(blocks[n]) \in Nat
    BY <2>1, TotalIsNat
  <2>3. CASE e.kind = "BlockServed" /\ e.indices > 0 /\ e.nar = n
    <3>1. blocks' = [blocks EXCEPT ![e.nar][e.peer] = @ + e.indices]
      BY <2>3 DEF MaintainTransfers, RecordTransferPeer
    <3>2. e.peer \in Peers /\ e.indices \in Nat
      BY <1>2, <2>3 DEF Event
    <3>3. Adds(n, c + 1) = e.indices
      BY <2>3 DEF Adds
    <3> HIDE DEF e, c
    <3>4. /\ DOMAIN blocks'[n] = Peers /\ blocks'[n][e.peer] = blocks[n][e.peer] + e.indices
          /\ \A p \in Peers \ {e.peer} : blocks'[n][p] = blocks[n][p]
      BY <1>3, <2>3, <3>1, <3>2
    <3>5. Total(blocks'[n]) = Total(blocks[n]) + e.indices
      BY <2>1, <3>2, <3>4, TotalMore
    <3> QED
      BY <3>3, <3>5
  <2>4. CASE ~(e.kind = "BlockServed" /\ e.indices > 0 /\ e.nar = n)
    <3>1. blocks'[n] = blocks[n]
      <4>1. CASE e.kind = "BlockServed" /\ e.indices > 0
        <5>1. blocks' = [blocks EXCEPT ![e.nar][e.peer] = @ + e.indices]
          BY <4>1 DEF MaintainTransfers, RecordTransferPeer
        <5> HIDE DEF e
        <5> QED
          BY <1>3, <2>4, <4>1, <5>1
      <4>2. CASE ~(e.kind = "BlockServed" /\ e.indices > 0)
        BY <4>2 DEF MaintainTransfers
      <4> QED
        BY <4>1, <4>2
    <3>2. e.kind = "BlockServed" => e.indices \in Nat
      BY <1>2 DEF Event
    <3>3. Adds(n, c + 1) = 0
      BY <2>4, <3>2 DEF Adds
    <3> QED
      BY <2>2, <3>1, <3>3
  <2> QED
    BY <2>3, <2>4
<1>7. ASSUME NEW n \in Nars PROVE Total(Known(n)') = Total(Known(n)) + Adds(n, c + 1)
  <2> DEFINE f == Known(n)
             g == [k \in 1 .. c + 1 |-> Adds(n, k)]
  <2>1. DOMAIN f = 1 .. c /\ DOMAIN g = 1 .. c + 1 /\ g[c + 1] = Adds(n, c + 1)
        /\ \A k \in 1 .. c : f[k] = Adds(n, k) /\ g[k] = f[k]
    BY <1>2 DEF Known
  <2>2. IsFiniteSet(DOMAIN f)
    BY <1>2, <2>1, UpTo
  <2>3. \A k \in DOMAIN f : f[k] \in Nat
    <3>1. ASSUME NEW k \in 1 .. c PROVE f[k] \in Nat
      <4>1. k \in 1 .. Len(bus)
        BY <1>2, <1>3
      <4>2. Adds(n, k) \in Nat
        BY <1>4, <4>1
      <4> QED
        BY <2>1, <4>2
    <3> HIDE DEF f
    <3> QED
      BY <2>1, <3>1
  <2>4. g[c + 1] \in Nat
    BY <1>2, <1>4, <2>1
  <2>5. c + 1 \notin DOMAIN f /\ DOMAIN g = DOMAIN f \cup {c + 1}
    BY <1>2, <2>1
  <2>6. Known(n)' = g
    BY <1>2 DEF Known, Adds
  <2> HIDE DEF f, g, c
  <2>7. Total(g) = Total(f) + g[c + 1]
    <3>1. \A k \in DOMAIN f : g[k] = f[k]
      BY <2>1
    <3> QED
      BY ONLY <2>2, <2>3, <2>4, <2>5, <3>1, TotalWith
  <2> QED
    BY <2>1, <2>6, <2>7 DEF f
<1>8. ASSUME NEW n \in Nars
      PROVE  /\ total'[n] = Total(blocks'[n])
             /\ "transfers" \notin lagged' => total'[n] = Total(Known(n)')
  <2>1. total[n] = Total(blocks[n]) /\ ("transfers" \notin lagged => total[n] = Total(Known(n)))
    BY DEF TransfersAddUp, Known, Adds
  <2> QED
    BY <1>2, <1>5, <1>6, <1>7, <2>1
<1> QED
  BY <1>8 DEF TransfersAddUp, Known, Adds

\* The blocks served of a NAR are those of its peers, and those of the replies that the listener
\* knows of (maintain_transfers, record_transfer_peer): for every set of peers and NARs.
THEOREM TransfersCounted == Spec => []TransfersAddUp
<1>1. Init => TransfersAddUp
  <2> SUFFICES ASSUME Init, NEW n \in Nars
               PROVE  total[n] = Total(blocks[n]) /\ total[n] = Total(Known(n))
    BY DEF TransfersAddUp, Known, Adds
  <2>1. blocks[n] = [p \in Peers |-> 0] /\ total[n] = 0 /\ cursor["transfers"] = 0
    BY ServingAssumption DEF Init
  <2>2. Units(blocks[n]) = {}
    BY <2>1 DEF Units
  <2>3. Units(Known(n)) = {}
    BY <2>1 DEF Units, Known
  <2> QED
    BY <2>1, <2>2, <2>3, FS_EmptySet DEF Total
<1>2. Kinds /\ TransfersAddUp /\ [Next]_vars => TransfersAddUp'
  <2> SUFFICES ASSUME ReplyOK, ViewOK, TransfersAddUp, [Next]_vars PROVE TransfersAddUp'
    BY DEF Kinds
  <2>1. CASE UNCHANGED viewVars
    BY <2>1, TransfersIdle DEF viewVars
  <2>2. ASSUME NEW l \in Listeners, Lag(l) PROVE TransfersAddUp'
    <3>1. /\ cursor' = [cursor EXCEPT ![l] = Len(bus) - BusCapacity]
          /\ lagged' = lagged \cup {l} /\ UNCHANGED <<total, blocks>>
      BY <2>2 DEF Lag
    <3>2. "transfers" \in Listeners /\ cursor \in [Listeners -> 0 .. Len(bus)]
      BY ServingAssumption DEF ViewOK
    <3>3. "transfers" \notin lagged' =>
            "transfers" \notin lagged /\ cursor'["transfers"] = cursor["transfers"]
      BY <3>1, <3>2
    <3> QED
      BY <3>1, <3>3, TransfersIdle
  <2>3. CASE RecordEventHistory
    <3>1. "history" \in Listeners /\ "transfers" \in Listeners \ {"history"} /\ Receives("history")
      BY <2>3, ServingAssumption DEF RecordEventHistory
    <3>2. cursor'["transfers"] = cursor["transfers"] /\ UNCHANGED lagged
      BY <3>1, ReceivesNext
    <3>3. UNCHANGED <<total, blocks>>
      BY <2>3 DEF RecordEventHistory
    <3> QED
      BY <3>2, <3>3, TransfersIdle
  <2>4. CASE MaintainTransfers
    BY <2>4, TransfersRecorded
  <2> QED
    BY <2>1, <2>2, <2>3, <2>4
       DEF Next, vars, RequestHandshake, RequestBlocks, Arrives, Acquire, Released, Refill, Remove,
         Rewrite, SendResponse, OtherEvent
<1> QED
  BY <1>1, <1>2, AllKinds, PTL DEF Spec

(***************************************************************************)
(* The upload limit                                                        *)
(***************************************************************************)

\* What the replies that wait have been given so far, and what the replies that are ready were
\* given.
Given == [i \in DOMAIN tasks |-> ResponseSize(tasks[i].reply) - tasks[i].left]
Ready == [k \in DOMAIN outbox |-> ResponseSize(outbox[k].reply)]

\* No reply waits for more than its size.
Modest == \A i \in DOMAIN tasks : tasks[i].left <= ResponseSize(tasks[i].reply)

\* What has been given out and what can be given out now is the allowance of the seconds so far.
Ledger == rate > 0 => uploaded + Total(Ready) + Total(Given) + balance <= rate * (refills + 1)

\* What they were given are numbers.
LEMMA GivenTyped ==
  ASSUME StoreOK, ReplyOK, Modest
  PROVE  /\ IsFiniteSet(DOMAIN Given) /\ DOMAIN Given = DOMAIN tasks
         /\ \A i \in DOMAIN tasks : /\ ResponseSize(tasks[i].reply) \in Nat /\ tasks[i].left \in Nat
                                    /\ Given[i] = ResponseSize(tasks[i].reply) - tasks[i].left
                                    /\ Given[i] \in Nat
         /\ Total(Given) \in Nat
<1>1. DOMAIN Given = DOMAIN tasks /\ IsFiniteSet(DOMAIN tasks)
  BY TasksFinite DEF Given, ReplyOK
<1>2. ASSUME NEW i \in DOMAIN tasks
      PROVE  /\ ResponseSize(tasks[i].reply) \in Nat /\ tasks[i].left \in Nat
             /\ Given[i] = ResponseSize(tasks[i].reply) - tasks[i].left /\ Given[i] \in Nat
  <2>1. Honest(tasks[i]) /\ tasks[i] \in Task /\ size \in [Nars -> Sizes]
    BY DEF ReplyOK, StoreOK
  <2>2. ResponseSize(tasks[i].reply) \in Nat
    BY <2>1, HonestTyped
  <2>3. tasks[i].left \in Nat
    BY <2>1 DEF Task
  <2>4. Given[i] = ResponseSize(tasks[i].reply) - tasks[i].left
    BY DEF Given
  <2>5. tasks[i].left <= ResponseSize(tasks[i].reply)
    BY DEF Modest
  <2> QED
    BY <2>2, <2>3, <2>4, <2>5
<1>3. \A i \in DOMAIN Given : Given[i] \in Nat
  BY <1>1, <1>2
<1>4. Total(Given) \in Nat
  BY <1>1, <1>3, TotalIsNat
<1> QED
  BY <1>1, <1>2, <1>4

\* So are the sizes of those that are ready.
LEMMA ReadyTyped ==
  ASSUME StoreOK, ReplyOK
  PROVE  /\ DOMAIN Ready = 1 .. Len(outbox) /\ IsFiniteSet(DOMAIN Ready)
         /\ \A k \in DOMAIN Ready : Ready[k] = ResponseSize(outbox[k].reply) /\ Ready[k] \in Nat
         /\ Total(Ready) \in Nat
<1>1. outbox \in Seq(Task) /\ Len(outbox) \in Nat
  BY DEF ReplyOK
<1>2. DOMAIN Ready = 1 .. Len(outbox) /\ IsFiniteSet(DOMAIN Ready)
  BY <1>1, UpTo DEF Ready
<1>3. ASSUME NEW k \in DOMAIN Ready
      PROVE  Ready[k] = ResponseSize(outbox[k].reply) /\ Ready[k] \in Nat
  <2>1. Honest(outbox[k]) /\ size \in [Nars -> Sizes]
    BY <1>1, <1>2 DEF ReplyOK, StoreOK
  <2>2. ResponseSize(outbox[k].reply) \in Nat
    BY <2>1, HonestTyped
  <2> QED
    BY <2>2 DEF Ready
<1>4. Total(Ready) \in Nat
  BY <1>2, <1>3, TotalIsNat
<1> QED
  BY <1>2, <1>3, <1>4

\* A reply that is queued has been given nothing.
LEMMA QueueGives ==
  ASSUME StoreOK, ReplyOK, ReplyOK', StoreOK', Modest, Arrives, NEW t, Added(t), t.left = ResponseSize(t.reply)
  PROVE  Modest' /\ Total(Given') = Total(Given)
<1>1. PICK new \in 1 .. MaxRequests :
           /\ new \notin DOMAIN tasks
           /\ DOMAIN tasks' = DOMAIN tasks \cup {new}
           /\ tasks'[new] = t
           /\ \A i \in DOMAIN tasks : tasks'[i] = tasks[i]
  BY DEF Added
<1>2. /\ IsFiniteSet(DOMAIN Given) /\ DOMAIN Given = DOMAIN tasks /\ Total(Given) \in Nat
      /\ \A i \in DOMAIN tasks : /\ ResponseSize(tasks[i].reply) \in Nat /\ tasks[i].left \in Nat
                                 /\ Given[i] = ResponseSize(tasks[i].reply) - tasks[i].left
                                 /\ Given[i] \in Nat
  BY GivenTyped
<1>3. t.left \in Nat
  BY <1>1 DEF ReplyOK, Task
<1>4. /\ DOMAIN Given' = DOMAIN Given \cup {new} /\ Given'[new] = 0
      /\ \A i \in DOMAIN Given : Given'[i] = Given[i]
  BY <1>1, <1>2, <1>3 DEF Given
<1>5. Modest'
  BY <1>1, <1>3 DEF Modest
<1>6. Total(Given') = Total(Given) + Given'[new]
  <2>1. new \notin DOMAIN Given /\ Given'[new] \in Nat /\ \A i \in DOMAIN Given : Given[i] \in Nat
    BY <1>1, <1>2, <1>4
  <2> QED
    BY ONLY <1>2, <1>4, <2>1, TotalWith
<1> QED
  BY <1>2, <1>4, <1>5, <1>6

\* What a reply is given is taken from the balance.
LEMMA AcquireGives ==
  ASSUME StoreOK, LimitOK, ReplyOK, Modest, NEW i \in DOMAIN tasks, Acquire(i)
  PROVE  /\ Modest'
         /\ \E chunk \in Nat : /\ chunk <= balance /\ balance' = balance - chunk
                               /\ Total(Given') = Total(Given) + chunk
<1> DEFINE left == tasks[i].left
           chunk == Least(left, rate)
<1>1. /\ IsFiniteSet(DOMAIN Given) /\ DOMAIN Given = DOMAIN tasks
      /\ \A j \in DOMAIN tasks : /\ ResponseSize(tasks[j].reply) \in Nat /\ tasks[j].left \in Nat
                                 /\ Given[j] = ResponseSize(tasks[j].reply) - tasks[j].left
                                 /\ Given[j] \in Nat
  BY GivenTyped
<1>2. rate \in Nat /\ balance \in Nat /\ left \in Nat
  BY <1>1, ServingAssumption DEF LimitOK
<1>3. chunk \in Nat /\ chunk <= left
  BY <1>2 DEF Least
<1>4. rate > 0 /\ balance >= chunk /\ balance' = balance - chunk
  BY DEF Acquire, Limited
<1>5. /\ DOMAIN tasks' = DOMAIN tasks
      /\ tasks'[i] = [tasks[i] EXCEPT !.left = left - chunk]
      /\ \A j \in DOMAIN tasks \ {i} : tasks'[j] = tasks[j]
  BY DEF Acquire, LeftAfter
<1>6. tasks'[i].left = left - chunk /\ tasks'[i].reply = tasks[i].reply
  <2>1. tasks[i] \in Task
    BY DEF ReplyOK
  <2> QED
    BY <1>5, <2>1 DEF Task
<1> HIDE DEF chunk
<1>7. Modest'
  <2>1. left <= ResponseSize(tasks[i].reply)
    BY DEF Modest
  <2>2. tasks'[i].left <= ResponseSize(tasks'[i].reply)
    BY <1>1, <1>2, <1>3, <1>6, <2>1
  <2> QED
    BY <1>5, <2>2 DEF Modest
<1>8. /\ DOMAIN Given' = DOMAIN Given /\ Given'[i] = Given[i] + chunk
      /\ \A j \in DOMAIN Given \ {i} : Given'[j] = Given[j]
  <2>1. /\ DOMAIN Given' = DOMAIN tasks'
        /\ \A j \in DOMAIN tasks' : Given'[j] = ResponseSize(tasks'[j].reply) - tasks'[j].left
    BY DEF Given
  <2>2. Given'[i] = ResponseSize(tasks[i].reply) - (left - chunk)
    BY <1>5, <1>6, <2>1
  <2>3. Given'[i] = Given[i] + chunk
    BY <1>1, <1>2, <1>3, <2>2
  <2> QED
    BY <1>1, <1>5, <2>1, <2>3
<1>9. Total(Given') = Total(Given) + chunk
  <2>1. i \in DOMAIN Given /\ \A j \in DOMAIN Given : Given[j] \in Nat
    BY <1>1
  <2> QED
    BY ONLY <1>1, <1>3, <1>8, <2>1, TotalMore
<1> QED
  BY <1>2, <1>3, <1>4, <1>7, <1>9

\* A reply that goes to the swarm task under a limit was given its size.
LEMMA ReleasedGives ==
  ASSUME StoreOK, LimitOK, ReplyOK, Modest, NEW i \in DOMAIN tasks, Released(i)
  PROVE  /\ Modest'
         /\ rate > 0 => /\ Total(Ready') \in Nat /\ Total(Given') \in Nat
                        /\ Total(Ready') + Total(Given') = Total(Ready) + Total(Given)
<1> DEFINE t == [tasks[i] EXCEPT !.left = 0]
           z == ResponseSize(tasks[i].reply)
           b == Len(outbox) + 1
<1>1. /\ IsFiniteSet(DOMAIN Given) /\ DOMAIN Given = DOMAIN tasks /\ Total(Given) \in Nat
      /\ \A j \in DOMAIN tasks : /\ ResponseSize(tasks[j].reply) \in Nat /\ tasks[j].left \in Nat
                                 /\ Given[j] = ResponseSize(tasks[j].reply) - tasks[j].left
                                 /\ Given[j] \in Nat
  BY GivenTyped
<1>2. /\ DOMAIN Ready = 1 .. Len(outbox) /\ IsFiniteSet(DOMAIN Ready) /\ Total(Ready) \in Nat
      /\ \A k \in DOMAIN Ready : Ready[k] = ResponseSize(outbox[k].reply) /\ Ready[k] \in Nat
  BY ReadyTyped
<1>3. outbox' = Append(outbox, t) /\ tasks' = [j \in DOMAIN tasks \ {i} |-> tasks[j]]
  BY DEF Released
<1>4. Modest'
  BY <1>3 DEF Modest
<1>5. outbox \in Seq(Task) /\ tasks[i] \in Task /\ Len(outbox) \in Nat
  BY DEF ReplyOK
<1>6. t \in Task /\ t.reply = tasks[i].reply
  BY <1>5 DEF Task
<1> HIDE DEF t
<1>7. /\ Len(outbox') = b /\ outbox'[b] = t /\ outbox' \in Seq(Task)
      /\ \A k \in 1 .. Len(outbox) : outbox'[k] = outbox[k]
  BY <1>3, <1>5, <1>6, AppendProperties
<1>8. Total(Ready') = Total(Ready) + z
  <2>1. /\ DOMAIN Ready' = 1 .. b
        /\ \A k \in 1 .. b : Ready'[k] = ResponseSize(outbox'[k].reply)
    BY <1>7 DEF Ready
  <2>2. z \in Nat
    BY <1>1
  <2> HIDE DEF z
  <2>3. b \notin DOMAIN Ready /\ DOMAIN Ready' = DOMAIN Ready \cup {b} /\ b \in 1 .. b
    BY <1>2, <1>5, <2>1
  <2>4. Ready'[b] = z
    BY <1>6, <1>7, <2>1, <2>3 DEF z
  <2>5. \A k \in DOMAIN Ready : Ready'[k] = Ready[k]
    BY <1>2, <1>5, <1>7, <2>1
  <2> HIDE DEF b
  <2>6. Total(Ready') = Total(Ready) + Ready'[b]
    BY ONLY <1>2, <2>2, <2>3, <2>4, <2>5, TotalWith
  <2> QED
    BY <2>4, <2>6
<1>9. ASSUME rate > 0 PROVE Total(Given) = Total(Given') + z
  <2>1. tasks[i].left = 0
    BY <1>9 DEF Released, Limited
  <2>2. Given[i] = z /\ z \in Nat
    BY <1>1, <2>1
  <2>3. /\ DOMAIN Given' = DOMAIN tasks \ {i}
        /\ \A j \in DOMAIN Given' : Given'[j] = Given[j]
    BY <1>1, <1>3 DEF Given
  <2>4. /\ IsFiniteSet(DOMAIN Given') /\ \A j \in DOMAIN Given' : Given'[j] \in Nat
        /\ i \notin DOMAIN Given' /\ DOMAIN Given = DOMAIN Given' \cup {i}
    <3>1. IsFiniteSet(DOMAIN tasks \ {i})
      BY <1>1, FS_RemoveElement
    <3> QED
      BY <1>1, <2>3, <3>1
  <2> HIDE DEF z
  <2>5. \A j \in DOMAIN Given' : Given[j] = Given'[j]
    BY <2>3
  <2>6. Total(Given) = Total(Given') + Given[i]
    BY ONLY <2>2, <2>4, <2>5, TotalWith
  <2> QED
    BY <2>2, <2>6
<1>10. ASSUME rate > 0 PROVE Total(Given') \in Nat
  <2>1. IsFiniteSet(DOMAIN tasks \ {i}) /\ DOMAIN Given' = DOMAIN tasks \ {i}
    BY <1>1, <1>3, FS_RemoveElement DEF Given
  <2>2. \A j \in DOMAIN Given' : Given'[j] = Given[j]
    BY <1>1, <1>3, <2>1 DEF Given
  <2>3. \A j \in DOMAIN Given' : Given'[j] \in Nat
    BY <1>1, <2>1, <2>2
  <2> QED
    BY ONLY <2>1, <2>3, TotalIsNat
<1>11. z \in Nat
  BY <1>1
<1> HIDE DEF z
<1> QED
  BY <1>1, <1>2, <1>4, <1>8, <1>9, <1>10, <1>11

\* The sum over a list is its first element and the sum over the rest.
LEMMA SendGives ==
  ASSUME StoreOK, ReplyOK, SendResponse
  PROVE  LET z == ResponseSize(Head(outbox).reply)
         IN z \in Nat /\ uploaded' \in {uploaded, uploaded + z} /\ Total(Ready') \in Nat /\ Total(Ready) = Total(Ready') + z
<1> DEFINE b == Len(outbox)
           z == ResponseSize(Head(outbox).reply)
           rest == [k \in 2 .. b |-> Ready[k]]
           shift == [k \in 1 .. b - 1 |-> k + 1]
<1>1. /\ DOMAIN Ready = 1 .. b /\ IsFiniteSet(DOMAIN Ready)
      /\ \A k \in 1 .. b : Ready[k] = ResponseSize(outbox[k].reply) /\ Ready[k] \in Nat
  BY ReadyTyped
<1>2. outbox \in Seq(Task) /\ outbox # << >> /\ outbox' = Tail(outbox)
      /\ uploaded' \in {uploaded, uploaded + z}
  BY DEF ReplyOK, SendResponse
<1>3. b \in Nat /\ b >= 1 /\ Head(outbox) = outbox[1] /\ Len(outbox') = b - 1
      /\ outbox' \in Seq(Task) /\ \A k \in 1 .. b - 1 : outbox'[k] = outbox[k + 1]
  BY <1>2
<1>4. z = Ready[1] /\ z \in Nat
  BY <1>1, <1>3
<1>5. DOMAIN Ready' = 1 .. b - 1 /\ \A k \in 1 .. b - 1 : Ready'[k] = ResponseSize(outbox'[k].reply)
  BY <1>3 DEF Ready
<1> HIDE DEF z, b
<1>6. ASSUME NEW k \in 1 .. b - 1
      PROVE  Ready'[k] = Ready[k + 1] /\ k + 1 \in 2 .. b /\ k + 1 \in 1 .. b
  <2>1. b \in Nat
    BY <1>3
  <2>2. k + 1 \in 2 .. b /\ k + 1 \in 1 .. b
    BY ONLY <2>1, k \in 1 .. b - 1
  <2>3. Ready'[k] = ResponseSize(outbox'[k].reply) /\ outbox'[k] = outbox[k + 1]
    BY <1>3, <1>5
  <2>4. Ready[k + 1] = ResponseSize(outbox[k + 1].reply)
    BY <1>1, <2>2
  <2> QED
    BY ONLY <2>2, <2>3, <2>4
<1>7. /\ IsFiniteSet(DOMAIN Ready') /\ \A k \in DOMAIN Ready' : Ready'[k] \in Nat
  <2>1. b - 1 \in Nat
    BY <1>3
  <2>2. IsFiniteSet(1 .. b - 1)
    BY <2>1, UpTo
  <2> QED
    BY <1>1, <1>5, <1>6, <2>2
<1>8. Total(Ready') \in Nat
  BY ONLY <1>7, TotalIsNat
<1>9. Total(rest) = Total(Ready')
  <2>1. DOMAIN rest = 2 .. b /\ \A k \in 2 .. b : rest[k] = Ready[k]
    OBVIOUS
  <2>2. shift \in [1 .. b - 1 -> 2 .. b] /\ \A k \in 1 .. b - 1 : shift[k] = k + 1
    BY <1>3
  <2>3. \A j, k \in 1 .. b - 1 : shift[j] = shift[k] => j = k
    BY <1>3, <2>2
  <2>4. ASSUME NEW k \in 2 .. b PROVE \E j \in 1 .. b - 1 : shift[j] = k
    <3>1. k - 1 \in 1 .. b - 1 /\ (k - 1) + 1 = k
      BY <1>3
    <3> QED
      BY <2>2, <3>1
  <2> HIDE DEF shift, rest
  <2>5. shift \in Bijection(1 .. b - 1, 2 .. b)
    BY <2>2, <2>3, <2>4 DEF Bijection, Injection, Surjection, IsInjective
  <2>6. shift \in Bijection(DOMAIN Ready', DOMAIN rest)
    BY <1>5, <2>1, <2>5
  <2>7. \A k \in DOMAIN Ready' : rest[shift[k]] = Ready'[k]
    BY <1>5, <1>6, <2>1, <2>2
  <2> QED
    BY ONLY <1>7, <2>6, <2>7, TotalRenamed
<1>10. Total(Ready) = Total(rest) + Ready[1]
  <2>1. DOMAIN rest = 2 .. b /\ \A k \in 2 .. b : rest[k] = Ready[k]
    OBVIOUS
  <2> HIDE DEF rest
  <2>2. IsFiniteSet(DOMAIN rest)
    BY <1>1, <1>3, <2>1, FS_Subset
  <2>3. /\ \A k \in DOMAIN rest : rest[k] \in Nat /\ Ready[k] = rest[k]
        /\ 1 \notin DOMAIN rest /\ DOMAIN Ready = DOMAIN rest \cup {1} /\ Ready[1] \in Nat
    BY <1>1, <1>3, <2>1
  <2> QED
    BY ONLY <2>2, <2>3, TotalWith
<1> QED
  BY <1>2, <1>4, <1>8, <1>9, <1>10 DEF z

\* No step gives out more than the limiter has.
LEMMA LedgerStep ==
  ASSUME StoreOK, LimitOK, ReplyOK, StoreOK', ReplyOK', Modest, Ledger, [Next]_vars
  PROVE  Modest' /\ Ledger'
<1>1. /\ rate \in Nat /\ balance \in Nat /\ balance <= rate /\ refills \in Nat /\ uploaded \in Nat
      /\ rate * (refills + 1) \in Nat
  <2>1. rate \in Nat /\ balance \in Nat /\ balance <= rate /\ refills \in Nat /\ uploaded \in Nat
    BY ServingAssumption DEF LimitOK, ReplyOK
  <2> QED
    BY <2>1
<1>2. Total(Given) \in Nat /\ Total(Ready) \in Nat
  BY GivenTyped, ReadyTyped
<1>3. ASSUME UNCHANGED tasks PROVE Modest' /\ Given' = Given
  BY <1>3 DEF Modest, Given
<1>4. ASSUME UNCHANGED outbox PROVE Ready' = Ready
  BY <1>4 DEF Ready
<1>5. CASE UNCHANGED <<tasks, outbox, uploaded, rate, balance, refills>>
  BY <1>3, <1>4, <1>5 DEF Ledger
<1>6. ASSUME Arrives, Modest', Total(Given') = Total(Given) PROVE Ledger'
  <2>1. UNCHANGED <<outbox, uploaded, rate, balance, refills>>
    BY <1>6 DEF Arrives
  <2> QED
    BY <1>4, <1>6, <2>1 DEF Ledger
<1>7. ASSUME Arrives, NEW p, NEW n, NEW a, NEW r, Queue(p, n, a, r) PROVE Modest' /\ Ledger'
  <2> DEFINE t == NewTask(p, n, a, r)
  <2>1. requests < MaxRequests
    BY <1>7 DEF Arrives
  <2>2. Added(t) /\ t.left = ResponseSize(t.reply)
    BY <1>7, <2>1, QueueAdds DEF NewTask
  <2> HIDE DEF t
  <2>3. Modest' /\ Total(Given') = Total(Given)
    BY <1>7, <2>2, QueueGives
  <2> QED
    BY <1>6, <1>7, <2>3
<1>8. ASSUME Arrives, UNCHANGED tasks PROVE Modest' /\ Ledger'
  BY <1>3, <1>6, <1>8
<1>9. ASSUME NEW p \in Peers, NEW n \in Nars, RequestHandshake(p, n) PROVE Modest' /\ Ledger'
  BY <1>7, <1>8, <1>9 DEF RequestHandshake
<1>10. ASSUME NEW p \in Peers, NEW n \in Nars, NEW a \in IndexLists, RequestBlocks(p, n, a)
       PROVE  Modest' /\ Ledger'
  BY <1>7, <1>8, <1>10 DEF RequestBlocks
<1>11. ASSUME NEW i \in DOMAIN tasks, Acquire(i) PROVE Modest' /\ Ledger'
  <2>1. Modest' /\ \E c \in Nat : /\ c <= balance /\ balance' = balance - c
                                  /\ Total(Given') = Total(Given) + c
    BY <1>11, AcquireGives
  <2>2. UNCHANGED <<outbox, uploaded, rate, refills>>
    BY <1>11 DEF Acquire
  <2>3. PICK c \in Nat : c <= balance /\ balance' = balance - c /\ Total(Given') = Total(Given) + c
    BY <2>1
  <2>4. uploaded + Total(Ready) + Total(Given') + balance'
          = uploaded + Total(Ready) + Total(Given) + balance
    BY <1>1, <1>2, <2>3
  <2> QED
    BY <1>4, <2>1, <2>2, <2>4 DEF Ledger
<1>12. ASSUME NEW i \in DOMAIN tasks, Released(i) PROVE Modest' /\ Ledger'
  <2>1. Modest' /\ (rate > 0 => /\ Total(Ready') \in Nat /\ Total(Given') \in Nat
                                /\ Total(Ready') + Total(Given') = Total(Ready) + Total(Given))
    BY <1>12, ReleasedGives
  <2>2. UNCHANGED <<uploaded, rate, balance, refills>>
    BY <1>12 DEF Released
  <2> QED
    BY <1>1, <1>2, <2>1, <2>2 DEF Ledger
<1>13. CASE SendResponse
  <2> DEFINE z == ResponseSize(Head(outbox).reply)
  <2>1. z \in Nat /\ (uploaded' = uploaded + z \/ uploaded' = uploaded) /\ Total(Ready') \in Nat /\ Total(Ready) = Total(Ready') + z
    BY <1>13, SendGives
  <2>2. UNCHANGED <<tasks, rate, balance, refills>>
    BY <1>13 DEF SendResponse
  <2> HIDE DEF z
  <2>3. uploaded' + Total(Ready') + Total(Given) + balance
          <= uploaded + Total(Ready) + Total(Given) + balance
    BY <1>1, <1>2, <2>1
  <2>4. Given' = Given /\ Modest' /\ uploaded' \in Nat
    BY <1>1, <1>3, <2>1, <2>2
  <2>5. ASSUME rate > 0, uploaded + Total(Ready) + Total(Given) + balance <= rate * (refills + 1)
        PROVE  uploaded' + Total(Ready') + Total(Given) + balance <= rate * (refills + 1)
    BY ONLY <1>1, <1>2, <2>1, <2>3, <2>4, <2>5
  <2> QED
    BY <2>2, <2>4, <2>5 DEF Ledger
<1>14. CASE Refill
  <2>1. balance' = rate /\ refills' = refills + 1 /\ UNCHANGED <<tasks, outbox, uploaded, rate>>
    BY <1>14 DEF Refill, replyVars
  <2>2. rate * (refills' + 1) = (rate * (refills + 1)) + rate
    BY <1>1, <2>1
  <2> QED
    BY <1>1, <1>2, <1>3, <1>4, <2>1, <2>2 DEF Ledger
<1> QED
  BY <1>5, <1>9, <1>10, <1>11, <1>12, <1>13, <1>14
     DEF Next, vars, replyVars, OtherEvent, Remove, Rewrite, Lag, RecordEventHistory, MaintainTransfers, Receives

\* max_upload_rate_kbps caps what is served (consume): for every rate, and for replies of every
\* size, however many wait at the same time.
THEOREM UploadIsCapped == Spec => []UploadCapped
<1>1. Init => Modest /\ Ledger
  <2> SUFFICES ASSUME Init PROVE Modest /\ Ledger
    OBVIOUS
  <2>1. Modest
    BY DEF Init, Modest
  <2>2. DOMAIN Given = {} /\ DOMAIN Ready = {}
    BY DEF Init, Given, Ready
  <2>3. Total(Given) = 0 /\ Total(Ready) = 0
    BY <2>2, FS_EmptySet DEF Total, Units
  <2>4. rate \in Nat /\ uploaded = 0 /\ balance = rate /\ refills = 0
    BY ServingAssumption DEF Init
  <2> QED
    BY <2>1, <2>3, <2>4 DEF Ledger
<1>2. Kinds /\ Kinds' /\ Modest /\ Ledger /\ [Next]_vars => Modest' /\ Ledger'
  BY LedgerStep DEF Kinds
<1>3. Kinds /\ Modest /\ Ledger => UploadCapped
  <2> SUFFICES ASSUME Kinds, Modest, Ledger, rate > 0 PROVE uploaded <= rate * (refills + 1)
    BY DEF UploadCapped
  <2>1. rate \in Nat /\ balance \in Nat /\ refills \in Nat /\ uploaded \in Nat
    BY ServingAssumption DEF Kinds, LimitOK, ReplyOK
  <2>2. Total(Given) \in Nat /\ Total(Ready) \in Nat
    BY GivenTyped, ReadyTyped DEF Kinds
  <2>3. rate * (refills + 1) \in Nat
    BY <2>1
  <2>4. uploaded + Total(Ready) + Total(Given) + balance <= rate * (refills + 1)
    BY DEF Ledger
  <2> QED
    BY ONLY <2>1, <2>2, <2>3, <2>4
<1> QED
  BY <1>1, <1>2, <1>3, AllKinds, PTL DEF Spec
=============================================================================
