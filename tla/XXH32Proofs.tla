--------------------------- MODULE XXH32Proofs ---------------------------
(***************************************************************************)
(* The hash does not depend on how its input is cut: a theorem about       *)
(* XXH32, for every size of word and stripe, every length of an update and *)
(* streams of any length, past the wrap-around of total_len_32 too.        *)
(*                                                                         *)
(* As the n-th byte of the stream is n, every sequence of bytes that       *)
(* XXH32_update handles is a piece of the numbers from some position on.   *)
(***************************************************************************)
EXTENDS XXH32, SequenceTheorems, TLAPS

\* The n bytes of the stream that follow the first a ones.
Piece(a, n) == [i \in 1..n |-> a + i]

\* The word of the k-th stripe that goes to lane l, and the lanes after the
\* first q stripes of the stream.
WordOf(k, l) == Piece(Stripe * (k - 1) + WordBytes * (l - 1), WordBytes)
Streamed(q) == [l \in 1..Lanes |-> <<0>> \o [k \in 1..q |-> WordOf(k, l)]]

\* q stripes of the stream are mixed, the bytes after them are in the buffer.
MixedUpTo(q) ==
  /\ Len(fed) = Stripe * q + memsize
  /\ v = Streamed(q)
  /\ \A i \in 1..memsize : mem32[i] = Stripe * q + i

\* The state as a function of the stream.
StreamInv ==
  /\ fed = Piece(0, Len(fed)) /\ Len(fed) \in Nat
  /\ memsize \in 0..(Stripe - 1) /\ mem32 \in [1..Stripe -> Nat]
  /\ \E q \in Nat : MixedUpTo(q)
  /\ total_len_32 = Len(fed) % LengthLimit
  /\ large_len \in BOOLEAN /\ (large_len <=> Len(fed) >= Stripe)

-----------------------------------------------------------------------------
LEMMA StripeType == Stripe \in Nat \ {0} /\ Stripe >= 3 /\ LengthLimit \in Nat \ {0}
<1>1. Stripe >= Lanes
  BY HashAssumption DEF Stripe
<1>2. Stripe \in Nat
  BY HashAssumption DEF Stripe
<1>3. QED
  BY <1>1, <1>2, HashAssumption

\* A quotient and a remainder are what they are, and every number has them.
LEMMA DivMod ==
  \A d \in Nat \ {0}, q \in Nat, r \in Nat :
    r < d => (d * q + r) \div d = q /\ (d * q + r) % d = r
<1> SUFFICES ASSUME NEW d \in Nat \ {0}, NEW q \in Nat, NEW r \in Nat, r < d,
                    NEW n \in Nat, n = d * q + r
             PROVE  n \div d = q /\ n % d = r
  OBVIOUS
<1>1. n \div d = q
  BY Z3
<1>2. n % d = r
  BY Z3
<1>3. QED
  BY <1>1, <1>2

LEMMA HasQuotient ==
  \A d \in Nat \ {0}, n \in Nat : \E q \in Nat, r \in Nat : r < d /\ n = d * q + r
<1> SUFFICES ASSUME NEW d \in Nat \ {0}, NEW n \in Nat
             PROVE  \E q \in Nat, r \in Nat : r < d /\ n = d * q + r
  OBVIOUS
<1>1. n \div d \in Nat
  BY Z3
<1>2. n >= d * (n \div d)
  BY Z3
<1>3. n < d * (n \div d) + d
  BY Z3
<1>4. PICK q \in Nat : n >= d * q /\ n < d * q + d
  BY <1>1, <1>2, <1>3
<1>5. PICK p \in Nat : p = d * q
  OBVIOUS
<1>6. n - p \in Nat /\ n - p < d /\ n = d * q + (n - p)
  BY <1>4, <1>5
<1>7. QED
  BY <1>6

\* A remainder may be taken before adding.
LEMMA ModAdd ==
  \A d \in Nat \ {0}, n \in Nat, m \in Nat : ((n % d) + m) % d = (n + m) % d
<1> SUFFICES ASSUME NEW d \in Nat \ {0}, NEW n \in Nat, NEW m \in Nat
             PROVE  ((n % d) + m) % d = (n + m) % d
  OBVIOUS
<1>1. PICK q \in Nat, r \in Nat : r < d /\ n = d * q + r
  BY HasQuotient
<1>2. n % d = r
  BY <1>1, DivMod
<1>3. PICK k \in Nat : k = r + m
  OBVIOUS
<1>8. PICK p \in Nat, s \in Nat : s < d /\ k = d * p + s
  BY HasQuotient, Zenon
<1>4. (r + m) % d = s
  BY <1>3, <1>8, DivMod
<1>5. PICK j \in Nat : j = q + p
  OBVIOUS
<1>6. n + m = d * j + s
  <2>1. d * j = d * q + d * p
    BY <1>5
  <2>2. QED
    BY <2>1, <1>1, <1>3, <1>8
<1>7. (n + m) % d = s
  BY <1>6, <1>8, DivMod
<1>9. QED
  BY <1>2, <1>4, <1>7

-----------------------------------------------------------------------------
\* A piece is a sequence of numbers.
LEMMA PieceType ==
  \A a \in Nat, n \in Nat :
    /\ Piece(a, n) \in Seq(Nat) /\ Len(Piece(a, n)) = n
    /\ \A i \in 1..n : Piece(a, n)[i] = a + i
BY DEF Piece

\* A part of a piece is a piece.
PartIsPiece(a, n, b, m) == SubSeq(Piece(a, n), b + 1, b + m) = Piece(a + b, m)

LEMMA PieceOfPiece ==
  \A a, n, b, m \in Nat : b + m <= n => PartIsPiece(a, n, b, m)
BY DEF Piece, PartIsPiece

\* Pieces that follow each other make a piece.
LEMMA PiecesJoin ==
  \A a \in Nat, n \in Nat, m \in Nat : Piece(a, n) \o Piece(a + n, m) = Piece(a, n + m)
BY DEF Piece

-----------------------------------------------------------------------------
\* A word of a stripe.
LEMMA WordOfStripe ==
  \A a \in Nat, l \in 1..Lanes :
    /\ WordBytes * (l - 1) \in Nat
    /\ Word(Piece(a, Stripe), l) = Piece(a + WordBytes * (l - 1), WordBytes)
<1> SUFFICES ASSUME NEW a \in Nat, NEW l \in 1..Lanes
             PROVE  /\ WordBytes * (l - 1) \in Nat
                    /\ Word(Piece(a, Stripe), l) = Piece(a + WordBytes * (l - 1), WordBytes)
  OBVIOUS
<1>1. WordBytes \in Nat /\ Lanes \in Nat /\ l \in Nat /\ l >= 1 /\ l <= Lanes
  BY HashAssumption
<1>2. PICK b \in Nat : b = WordBytes * (l - 1)
  BY <1>1
<1>3. WordBytes * l = b + WordBytes
  BY <1>1, <1>2
<1>4. b + WordBytes <= Stripe
  <2>1. WordBytes * l <= WordBytes * Lanes
    BY <1>1
  <2>2. QED
    BY <2>1, <1>3 DEF Stripe
<1>5. SubSeq(Piece(a, Stripe), b + 1, b + WordBytes) = Piece(a + b, WordBytes)
  <2>1. PartIsPiece(a, Stripe, b, WordBytes)
    BY <1>1, <1>4, StripeType, PieceOfPiece
  <2>2. QED
    BY <2>1, Zenon DEF PartIsPiece
<1>6. QED
  BY <1>2, <1>3, <1>5 DEF Word

\* The stripes of a piece, and what remains of it.
LEMMA StripesOfPiece ==
  \A a, p, r, n \in Nat :
    r < Stripe /\ n = Stripe * p + r =>
      /\ Stripe * p \in Nat
      /\ Stripes(Piece(a, n)) = p
      /\ \A k \in 1..p : /\ Stripe * (k - 1) \in Nat
                         /\ StripeAt(Piece(a, n), k) = Piece(a + Stripe * (k - 1), Stripe)
      /\ Remaining(Piece(a, n)) = Piece(a + Stripe * p, r)
<1> TAKE a, p, r, n \in Nat
<1> HAVE r < Stripe /\ n = Stripe * p + r
<1>1. Stripe \in Nat \ {0} /\ Len(Piece(a, n)) = n
  BY StripeType, PieceType
<1>2. Stripes(Piece(a, n)) = p
  BY <1>1, DivMod DEF Stripes
<1>3. PICK b \in Nat : b = Stripe * p
  BY <1>1
<1>4. ASSUME NEW k \in 1..p
      PROVE  /\ Stripe * (k - 1) \in Nat
             /\ StripeAt(Piece(a, n), k) = Piece(a + Stripe * (k - 1), Stripe)
  <2>1. PICK c \in Nat : c = Stripe * (k - 1)
    BY <1>1
  <2>2. Stripe * k = c + Stripe
    BY <1>1, <2>1
  <2>3. c + Stripe <= n
    <3>1. Stripe * k <= Stripe * p
      BY <1>1
    <3>2. QED
      BY <1>1, <3>1, <2>2
  <2>4. SubSeq(Piece(a, n), c + 1, c + Stripe) = Piece(a + c, Stripe)
    <3>1. PartIsPiece(a, n, c, Stripe)
      BY <1>1, <2>3, PieceOfPiece
    <3>2. QED
      BY <3>1, Zenon DEF PartIsPiece
  <2>5. QED
    BY <2>1, <2>2, <2>4 DEF StripeAt
<1>5. Remaining(Piece(a, n)) = Piece(a + b, r)
  <2>1. SubSeq(Piece(a, n), b + 1, b + r) = Piece(a + b, r)
    <3>1. PartIsPiece(a, n, b, r)
      BY <1>3, PieceOfPiece
    <3>2. QED
      BY <3>1, Zenon DEF PartIsPiece
  <2>2. Remaining(Piece(a, n)) = SubSeq(Piece(a, n), Stripe * p + 1, n)
    BY <1>1, <1>2 DEF Remaining
  <2>3. QED
    BY <2>1, <2>2, <1>3
<1>6. QED
  BY <1>2, <1>3, <1>4, <1>5

\* What a lane holds.
Mixable == {0} \cup Seq(Nat)

\* Appending to a lane what follows: H is F and then G.
Continues(q, p, F, G, H) ==
  /\ q \in Nat /\ p \in Nat
  /\ F \in [1..q -> Mixable] /\ G \in [1..p -> Mixable] /\ H \in [1..(q + p) -> Mixable]
  /\ \A k \in 1..q : H[k] = F[k]
  /\ \A k \in 1..p : H[q + k] = G[k]

Joined(F, G, H) == (<<0>> \o F) \o G = <<0>> \o H

LEMMA LanesAssociate ==
  \A x, y, z \in Seq(Mixable) : (x \o y) \o z = x \o (y \o z)
BY ConcatAssociative

LEMMA SeqJoin ==
  \A q, p, F, G, H : Continues(q, p, F, G, H) => Joined(F, G, H)
<1> SUFFICES ASSUME NEW q, NEW p, NEW F, NEW G, NEW H, Continues(q, p, F, G, H)
             PROVE  Joined(F, G, H)
  OBVIOUS
<1>1. q \in Nat /\ p \in Nat /\ q + p \in Nat
  BY DEF Continues
<1>2. F \in [1..q -> Mixable] /\ G \in [1..p -> Mixable] /\ H \in [1..(q + p) -> Mixable]
  BY DEF Continues
<1>3. (\A k \in 1..q : H[k] = F[k]) /\ (\A k \in 1..p : H[q + k] = G[k])
  BY DEF Continues
<1>4. F \in Seq(Mixable) /\ G \in Seq(Mixable) /\ H \in Seq(Mixable)
      /\ Len(F) = q /\ Len(G) = p /\ Len(H) = q + p
  <2>1. \A n \in Nat : \A f \in [1..n -> Mixable] : f \in Seq(Mixable) /\ Len(f) = n
    OBVIOUS
  <2>2. QED
    BY <1>1, <1>2, <2>1, Zenon
<1>5. F \o G = H
  <2>1. F \o G \in Seq(Mixable) /\ Len(F \o G) = q + p
    BY <1>4
  <2>2. ASSUME NEW k \in 1..(q + p)
        PROVE  (F \o G)[k] = H[k]
    <3>1. k \in Nat /\ k >= 1 /\ k <= q + p
      BY <1>1
    <3>2. CASE k <= q
      <4>1. (F \o G)[k] = F[k]
        BY <1>1, <1>4, <3>1, <3>2
      <4>2. QED
        BY <1>1, <1>3, <3>1, <3>2, <4>1
    <3>3. CASE k > q
      <4>1. k - q \in 1..p /\ q + (k - q) = k
        BY <1>1, <3>1, <3>3
      <4>2. (F \o G)[k] = G[k - q]
        BY <1>1, <1>4, <3>1, <3>3, ConcatProperties
      <4>3. H[q + (k - q)] = G[k - q]
        BY <1>3, <4>1, Zenon
      <4>4. QED
        BY <4>1, <4>2, <4>3
    <3>4. k <= q \/ k > q
      BY <1>1, <3>1
    <3>5. QED
      BY <3>2, <3>3, <3>4, Zenon
  <2>3. QED
    BY <1>4, <2>1, <2>2, SeqEqual
<1>6. (<<0>> \o F) \o G = <<0>> \o (F \o G)
  <2>1. <<0>> \in Seq(Mixable)
    BY DEF Mixable
  <2>2. PICK t \in Seq(Mixable) : t = <<0>>
    BY <2>1
  <2>3. (t \o F) \o G = t \o (F \o G)
    BY <1>4, LanesAssociate
  <2>4. QED
    BY <2>2, <2>3
<1>7. QED
  BY <1>5, <1>6, Zenon DEF Joined

-----------------------------------------------------------------------------
LEMMA WordOfType ==
  \A q \in Nat, l \in 1..Lanes : [k \in 1..q |-> WordOf(k, l)] \in [1..q -> Mixable]
<1> SUFFICES ASSUME NEW q \in Nat, NEW l \in 1..Lanes, NEW k \in 1..q
             PROVE  WordOf(k, l) \in Seq(Nat)
  BY DEF Mixable
<1>1. Stripe * (k - 1) \in Nat
  BY StripeType
<1>2. PICK a \in Nat : a = Stripe * (k - 1) + WordBytes * (l - 1)
  BY <1>1, WordOfStripe
<1>3. WordBytes \in Nat
  BY HashAssumption
<1>4. Piece(a, WordBytes) \in Seq(Nat)
  BY <1>3, PieceType
<1>5. QED
  BY <1>2, <1>4 DEF WordOf

\* The words of a piece that begins with a stripe.
LEMMA WordsOfPiece ==
  \A q, p, r, n \in Nat :
    r < Stripe /\ n = Stripe * p + r =>
      \A k \in 1..p, l \in 1..Lanes :
        Word(StripeAt(Piece(Stripe * q, n), k), l) = WordOf(q + k, l)
<1> SUFFICES ASSUME NEW q \in Nat, NEW p \in Nat, NEW r \in Nat, NEW n \in Nat,
                    r < Stripe, n = Stripe * p + r, NEW k \in 1..p, NEW l \in 1..Lanes
             PROVE  Word(StripeAt(Piece(Stripe * q, n), k), l) = WordOf(q + k, l)
  OBVIOUS
<1>1. PICK a \in Nat : a = Stripe * q
  BY StripeType
<1>2. Stripe * (k - 1) \in Nat /\ StripeAt(Piece(a, n), k) = Piece(a + Stripe * (k - 1), Stripe)
  BY StripesOfPiece
<1>3. PICK b \in Nat : b = a + Stripe * (k - 1)
  BY <1>2
<1>4. Word(Piece(b, Stripe), l) = Piece(b + WordBytes * (l - 1), WordBytes)
  BY WordOfStripe
<1>5. b = Stripe * ((q + k) - 1)
  BY <1>1, <1>3, StripeType
<1>6. QED
  BY <1>1, <1>2, <1>3, <1>4, <1>5, Zenon DEF WordOf

\* Mixing the stripes of what follows q stripes.
LEMMA Advance ==
  \A q, p, r, n \in Nat :
    r < Stripe /\ n = Stripe * p + r =>
      MixedAll(Streamed(q), Piece(Stripe * q, n)) = Streamed(q + p)
<1> SUFFICES ASSUME NEW q \in Nat, NEW p \in Nat, NEW r \in Nat, NEW n \in Nat,
                    r < Stripe, n = Stripe * p + r
             PROVE  MixedAll(Streamed(q), Piece(Stripe * q, n)) = Streamed(q + p)
  OBVIOUS
<1> DEFINE bytes == Piece(Stripe * q, n)
           Words(l) == [k \in 1..p |-> Word(StripeAt(bytes, k), l)]
<1>1. Stripes(bytes) = p
  <2>1. Stripe * q \in Nat
    BY StripeType
  <2>2. QED
    BY <2>1, StripesOfPiece
<1>2. ASSUME NEW l \in 1..Lanes
      PROVE  Streamed(q)[l] \o Words(l) = Streamed(q + p)[l]
  <2>1. q + p \in Nat
    OBVIOUS
  <2>2. \A k \in 1..p : Word(StripeAt(bytes, k), l) = WordOf(q + k, l)
    BY WordsOfPiece
  <2>3. PICK F \in [1..q -> Mixable] : F = [k \in 1..q |-> WordOf(k, l)]
    BY WordOfType
  <2>4. PICK H \in [1..(q + p) -> Mixable] : H = [k \in 1..(q + p) |-> WordOf(k, l)]
    BY <2>1, WordOfType
  <2>5. PICK G \in [1..p -> Mixable] : G = Words(l)
    <3>1. \A k \in 1..p : q + k \in 1..(q + p) /\ H[q + k] = WordOf(q + k, l)
      BY <2>4
    <3>2. \A k \in 1..p : H[q + k] \in Mixable
      BY <3>1
    <3>3. Words(l) \in [1..p -> Mixable]
      BY <2>2, <3>1, <3>2
    <3>4. QED
      BY <3>3
  <2>6. \A k \in 1..q : H[k] = F[k]
    BY <2>3, <2>4
  <2>7. \A k \in 1..p : H[q + k] = G[k]
    <3>1. \A k \in 1..p : q + k \in 1..(q + p)
      OBVIOUS
    <3>2. QED
      BY <2>2, <2>4, <2>5, <3>1
  <2>8. (<<0>> \o F) \o G = <<0>> \o H
    <3>1. Continues(q, p, F, G, H)
      BY <2>6, <2>7 DEF Continues
    <3>2. Joined(F, G, H)
      BY <3>1, SeqJoin
    <3>3. QED
      BY <3>2, Zenon DEF Joined
  <2>9. Streamed(q)[l] = <<0>> \o F /\ Streamed(q + p)[l] = <<0>> \o H
    BY <2>3, <2>4 DEF Streamed
  <2>10. QED
    BY <2>5, <2>8, <2>9, Zenon
<1>3. MixedAll(Streamed(q), bytes) = [l \in 1..Lanes |-> Streamed(q)[l] \o Words(l)]
  BY <1>1 DEF MixedAll
<1>4. Streamed(q + p) = [l \in 1..Lanes |-> Streamed(q + p)[l]]
  BY DEF Streamed
<1>5. QED
  BY <1>2, <1>3, <1>4, Zenon

\* Mixing the next stripe.
LEMMA AdvanceOne ==
  \A q \in Nat : Mixed(Streamed(q), Piece(Stripe * q, Stripe)) = Streamed(q + 1)
<1> SUFFICES ASSUME NEW q \in Nat
             PROVE  Mixed(Streamed(q), Piece(Stripe * q, Stripe)) = Streamed(q + 1)
  OBVIOUS
<1> DEFINE stripe == Piece(Stripe * q, Stripe)
<1>1. ASSUME NEW l \in 1..Lanes
      PROVE  Append(Streamed(q)[l], Word(stripe, l)) = Streamed(q + 1)[l]
  <2>1. q + 1 \in Nat
    OBVIOUS
  <2>2. Word(stripe, l) = WordOf(q + 1, l)
    <3>1. PICK a \in Nat : a = Stripe * q
      BY StripeType
    <3>2. Word(Piece(a, Stripe), l) = Piece(a + WordBytes * (l - 1), WordBytes)
      BY WordOfStripe
    <3>3. a = Stripe * ((q + 1) - 1)
      BY <3>1
    <3>4. QED
      BY <3>1, <3>2, <3>3, Zenon DEF WordOf
  <2>3. PICK F \in [1..q -> Mixable] : F = [k \in 1..q |-> WordOf(k, l)]
    BY WordOfType
  <2>4. PICK H \in [1..(q + 1) -> Mixable] : H = [k \in 1..(q + 1) |-> WordOf(k, l)]
    BY <2>1, WordOfType
  <2>5. q + 1 \in 1..(q + 1)
    OBVIOUS
  <2>6. H[q + 1] = Word(stripe, l) /\ H[q + 1] \in Mixable
    BY <2>2, <2>4, <2>5
  <2>7. PICK w \in Mixable : w = Word(stripe, l)
    BY <2>6
  <2>8. PICK G \in [1..1 -> Mixable] : G = <<w>> /\ G[1] = w
    <3>1. <<w>> \in Seq(Mixable) /\ Len(<<w>>) = 1 /\ <<w>>[1] = w
      OBVIOUS
    <3>2. <<w>> \in [1..1 -> Mixable]
      BY <3>1
    <3>3. QED
      BY <3>1, <3>2, Zenon
  <2>9. Continues(q, 1, F, G, H)
    <3>1. \A k \in 1..q : H[k] = F[k]
      BY <2>3, <2>4
    <3>2. \A k \in 1..1 : H[q + k] = G[k]
      BY <2>6, <2>7, <2>8
    <3>3. QED
      BY <3>1, <3>2 DEF Continues
  <2>10. Joined(F, G, H)
    BY <2>9, SeqJoin
  <2>11. Append(<<0>> \o F, w) = (<<0>> \o F) \o G
    <3>1. <<0>> \o F \in Seq(Mixable)
      BY DEF Mixable
    <3>2. QED
      BY <2>8, <3>1, AppendIsConcat
  <2>12. Streamed(q)[l] = <<0>> \o F /\ Streamed(q + 1)[l] = <<0>> \o H
    BY <2>3, <2>4 DEF Streamed
  <2>13. QED
    BY <2>7, <2>10, <2>11, <2>12, Zenon DEF Joined
<1>2. Mixed(Streamed(q), stripe) = [l \in 1..Lanes |-> Append(Streamed(q)[l], Word(stripe, l))]
  BY DEF Mixed
<1>3. Streamed(q + 1) = [l \in 1..Lanes |-> Streamed(q + 1)[l]]
  BY DEF Streamed
<1>4. QED
  BY <1>1, <1>2, <1>3, Zenon

-----------------------------------------------------------------------------
\* Every count of bytes is so many stripes and a remainder.
LEMMA InStripes ==
  \A n \in Nat : \E p, r \in Nat : r < Stripe /\ n = Stripe * p + r
BY StripeType, HasQuotient

\* The input of an update is the piece of the stream that is due.
LEMMA InputIsPiece ==
  ASSUME NEW n \in Nat, Len(fed) = n, fed = Piece(0, n), NEW len \in Nat
  PROVE  /\ Input(len) = Piece(n, len)
         /\ fed \o Input(len) = Piece(0, n + len)
         /\ Len(fed \o Input(len)) = n + len
<1>1. Input(len) = Piece(n, len)
  BY DEF Input, Piece
<1>2. fed \o Input(len) = Piece(0, n + len)
  <2>1. Piece(0, n) \o Piece(0 + n, len) = Piece(0, n + len)
    BY PiecesJoin
  <2>2. QED
    BY <1>1, <2>1
<1>3. n + len \in Nat
  OBVIOUS
<1>4. Len(Piece(0, n + len)) = n + len
  BY <1>3, PieceType
<1>5. QED
  BY <1>1, <1>2, <1>4

\* The count wraps around, the flag does not.
LEMMA CountedFacts ==
  ASSUME NEW n \in Nat, NEW len \in Nat, Counted(len),
         total_len_32 = n % LengthLimit, large_len \in BOOLEAN, large_len <=> n >= Stripe
  PROVE  /\ total_len_32' = (n + len) % LengthLimit
         /\ large_len' \in BOOLEAN /\ (large_len' <=> n + len >= Stripe)
<1>1. total_len_32' = (n + len) % LengthLimit
  BY ModAdd, StripeType DEF Counted
<1>2. PICK m \in Nat : m = n + len
  OBVIOUS
<1>3. m < LengthLimit => m % LengthLimit = m
  <2> SUFFICES ASSUME m < LengthLimit PROVE m % LengthLimit = m
    OBVIOUS
  <2>1. m = LengthLimit * 0 + m
    BY StripeType
  <2>2. QED
    BY <2>1, DivMod, StripeType
<1>4. LengthLimit >= 2 * Stripe
  BY HashAssumption
<1>5. PICK t \in Nat : t = total_len_32' /\ t <= m
  <2>1. PICK q, r \in Nat : r < LengthLimit /\ m = LengthLimit * q + r
    BY HasQuotient, StripeType
  <2>2. m % LengthLimit = r
    BY <2>1, DivMod, StripeType
  <2>3. r <= m
    BY <2>1, StripeType
  <2>4. QED
    BY <1>1, <1>2, <2>2, <2>3
<1>6. large_len' = (large_len \/ len >= Stripe \/ t >= Stripe)
  BY <1>5 DEF Counted
<1>7. CASE m >= Stripe
  <2>1. CASE n >= Stripe \/ len >= Stripe
    BY <1>1, <1>2, <1>6, <1>7, <2>1
  <2>2. CASE n < Stripe /\ len < Stripe
    <3>1. m < LengthLimit
      BY <1>2, <1>4, <2>2, StripeType
    <3>2. t = m
      BY <1>1, <1>2, <1>3, <1>5, <3>1
    <3>3. QED
      BY <1>1, <1>2, <1>6, <1>7, <3>2
  <2>3. QED
    BY <2>1, <2>2, StripeType
<1>8. CASE m < Stripe
  <2>1. n < Stripe /\ len < Stripe /\ t < Stripe
    BY <1>2, <1>5, <1>8, StripeType
  <2>2. QED
    BY <1>1, <1>2, <1>6, <1>8, <2>1, StripeType
<1>9. QED
  BY <1>7, <1>8, <1>2, StripeType

-----------------------------------------------------------------------------
\* Before any stripe the lanes are those of a fresh state.
LEMMA LanesOfNoStripe == Streamed(0) = Lanes0
<1>1. ASSUME NEW l \in 1..Lanes
      PROVE  <<0>> \o [k \in 1..0 |-> WordOf(k, l)] = <<0>>
  <2>1. [k \in 1..0 |-> WordOf(k, l)] = <<>>
    <3>1. [k \in 1..0 |-> WordOf(k, l)] \in [1..0 -> Mixable]
      BY WordOfType
    <3>2. PICK F \in [1..0 -> Mixable] : F = [k \in 1..0 |-> WordOf(k, l)]
      BY <3>1
    <3>3. F \in Seq(Mixable) /\ Len(F) = 0
      OBVIOUS
    <3>4. QED
      BY <3>2, <3>3, EmptySeq
  <2>2. PICK t \in Seq(Nat) : t = <<0>>
    <3>1. <<0>> \in Seq(Nat)
      OBVIOUS
    <3>2. QED
      BY <3>1
  <2>3. t \o <<>> = t
    BY ConcatEmptySeq
  <2>4. QED
    BY <2>1, <2>2, <2>3
<1>2. QED
  BY <1>1 DEF Lanes0, Streamed

\* Nothing is in the stream.
LEMMA InitStream == HashInit => StreamInv
<1> SUFFICES ASSUME HashInit PROVE StreamInv
  OBVIOUS
<1>1. fed = Piece(0, 0) /\ Len(fed) = 0
  BY DEF HashInit, Piece
<1>2. v = Streamed(0)
  BY LanesOfNoStripe DEF HashInit
<1>3. 0 % LengthLimit = 0
  BY StripeType, Z3
<1>4. mem32 \in [1..Stripe -> Nat] /\ memsize = 0 /\ total_len_32 = 0 /\ large_len = FALSE
  BY DEF HashInit
<1>5. Len(fed) = Stripe * 0 + memsize /\ \A i \in 1..memsize : mem32[i] = Stripe * 0 + i
  BY <1>1, <1>4, StripeType
<1>6. memsize \in 0..(Stripe - 1) /\ (large_len <=> Len(fed) >= Stripe)
  BY <1>1, <1>4, StripeType
<1>7. MixedUpTo(0)
  BY <1>2, <1>5 DEF MixedUpTo
<1>8. \E q \in Nat : MixedUpTo(q)
  BY <1>7
<1>9. fed = Piece(0, Len(fed)) /\ Len(fed) \in Nat /\ total_len_32 = Len(fed) % LengthLimit
  BY <1>1, <1>3, <1>4
<1>10. large_len \in BOOLEAN
  BY <1>4
<1>11. QED
  BY <1>4, <1>6, <1>8, <1>9, <1>10, Zenon DEF StreamInv

\* An update that fits in the buffer.
LEMMA UpdateBuffersKeeps ==
  ASSUME StreamInv, NEW len \in Nat, UpdateBuffers(len)
  PROVE  StreamInv'
<1>1. PICK n \in Nat : n = Len(fed)
  BY DEF StreamInv
<1>2. PICK q \in Nat : /\ n = Stripe * q + memsize /\ v = Streamed(q)
                       /\ \A i \in 1..memsize : mem32[i] = Stripe * q + i
  BY <1>1, Zenon DEF StreamInv, MixedUpTo
<1>3. fed = Piece(0, n) /\ memsize \in Nat /\ memsize < Stripe /\ mem32 \in [1..Stripe -> Nat]
  BY <1>1, StripeType DEF StreamInv
<1>4. /\ fed' = fed \o Input(len) /\ Counted(len) /\ memsize + len < Stripe
      /\ mem32' = Buffered(memsize, Input(len)) /\ memsize' = memsize + len /\ v' = v
  BY DEF UpdateBuffers
<1>5. Input(len) = Piece(n, len) /\ fed' = Piece(0, n + len) /\ Len(fed') = n + len
  BY <1>1, <1>3, <1>4, InputIsPiece
<1>6. /\ total_len_32' = (n + len) % LengthLimit
      /\ large_len' \in BOOLEAN /\ (large_len' <=> n + len >= Stripe)
  BY <1>1, <1>4, CountedFacts DEF StreamInv
<1>7. PICK s \in Nat : s = Stripe * q
  BY StripeType
<1>8. Len(Input(len)) = len /\ \A i \in 1..len : Input(len)[i] = n + i
  <2>1. Len(Piece(n, len)) = len /\ \A i \in 1..len : Piece(n, len)[i] = n + i
    BY PieceType
  <2>2. QED
    BY <1>5, <2>1, Zenon
<1>9. mem32' = [b \in 1..Stripe |-> IF b - memsize \in 1..len THEN n + (b - memsize) ELSE mem32[b]]
  BY <1>4, <1>8 DEF Buffered
<1>10. mem32' \in [1..Stripe -> Nat]
  <2>1. ASSUME NEW b \in 1..Stripe
        PROVE  (IF b - memsize \in 1..len THEN n + (b - memsize) ELSE mem32[b]) \in Nat
    BY <1>2, <1>3, StripeType
  <2>2. QED
    BY <1>9, <2>1
<1>11. ASSUME NEW i \in 1..memsize'
       PROVE  mem32'[i] = s + i
  <2>1. i \in 1..Stripe /\ i \in Nat /\ i >= 1 /\ i <= memsize + len
    BY <1>3, <1>4, StripeType
  <2>2. mem32'[i] = IF i - memsize \in 1..len THEN n + (i - memsize) ELSE mem32[i]
    BY <1>9, <2>1
  <2>3. CASE i <= memsize
    <3>1. ~ (i - memsize \in 1..len) /\ i \in 1..memsize
      BY <1>3, <2>1, <2>3
    <3>2. QED
      BY <1>2, <1>7, <2>2, <3>1
  <2>4. CASE i > memsize
    <3>1. i - memsize \in 1..len
      BY <1>3, <2>1, <2>4
    <3>2. QED
      BY <1>2, <1>3, <1>7, <2>1, <2>2, <3>1
  <2>5. QED
    BY <1>3, <2>1, <2>3, <2>4
<1>12. Len(fed') = Stripe * q + memsize' /\ memsize' \in 0..(Stripe - 1)
  BY <1>2, <1>3, <1>4, <1>5, <1>7, StripeType
<1>13. MixedUpTo(q)'
  <2>1. \A i \in 1..memsize' : mem32'[i] = Stripe * q + i
    BY <1>7, <1>11
  <2>2. v' = Streamed(q)'
    BY <1>2, <1>4 DEF Streamed, WordOf, Piece
  <2>3. QED
    BY <1>12, <2>1, <2>2, Zenon DEF MixedUpTo, Stripe
<1>14. Len(fed') \in Nat /\ fed' = Piece(0, Len(fed'))
  BY <1>5
<1>15. total_len_32' = Len(fed') % LengthLimit /\ (large_len' <=> Len(fed') >= Stripe)
  BY <1>5, <1>6
<1>16. QED
  BY <1>6, <1>10, <1>12, <1>13, <1>14, <1>15, Zenon DEF StreamInv, Piece, Stripe

\* An update that completes a stripe: taken bytes of the input fill the
\* buffer, the rest begins with a stripe.
LEMMA UpdateMixesKeeps ==
  ASSUME StreamInv, NEW len \in Nat, UpdateMixes(len)
  PROVE  StreamInv'
<1> DEFINE taken == IF memsize = 0 THEN 0 ELSE Stripe - memsize
           whole == Buffered(memsize, SubSeq(Input(len), 1, taken))
           first == IF memsize = 0 THEN v ELSE Mixed(v, whole)
           rest  == SubSeq(Input(len), taken + 1, len)
<1>1. PICK n \in Nat : n = Len(fed)
  BY DEF StreamInv
<1>2. PICK q \in Nat : /\ n = Stripe * q + memsize /\ v = Streamed(q)
                       /\ \A i \in 1..memsize : mem32[i] = Stripe * q + i
  BY <1>1, Zenon DEF StreamInv, MixedUpTo
<1>3. /\ fed = Piece(0, n) /\ memsize \in Nat /\ memsize < Stripe
      /\ mem32 \in [1..Stripe -> Nat] /\ Stripe \in Nat
  BY <1>1, StripeType DEF StreamInv
<1>4. /\ memsize + len >= Stripe /\ fed' = fed \o Input(len) /\ Counted(len)
      /\ v' = MixedAll(first, rest) /\ memsize' = Len(Remaining(rest))
      /\ mem32' = [b \in 1..Stripe |-> IF b <= Len(Remaining(rest)) THEN Remaining(rest)[b]
                                       ELSE IF memsize = 0 THEN mem32[b] ELSE whole[b]]
  BY DEF UpdateMixes
<1>5. Input(len) = Piece(n, len) /\ fed' = Piece(0, n + len) /\ Len(fed') = n + len
  BY <1>1, <1>3, <1>4, InputIsPiece
<1>6. /\ total_len_32' = (n + len) % LengthLimit
      /\ large_len' \in BOOLEAN /\ (large_len' <=> n + len >= Stripe)
  BY <1>1, <1>4, CountedFacts DEF StreamInv
<1>7. PICK t \in Nat : t = taken /\ t <= len
  <2>1. CASE memsize = 0
    BY <2>1
  <2>2. CASE memsize # 0
    <3>1. Stripe - memsize \in Nat /\ Stripe - memsize <= len
      BY <1>3, <1>4
    <3>2. QED
      BY <2>2, <3>1
  <2>3. QED
    BY <2>1, <2>2
\* After the buffer, so many stripes are mixed.
<1>8. PICK p \in Nat : n + t = Stripe * p /\ first = Streamed(p)
  <2>1. CASE memsize = 0
    BY <1>2, <1>3, <1>7, <2>1
  <2>2. CASE memsize # 0
    <3>1. t = Stripe - memsize /\ n + t = Stripe * q + Stripe
      BY <1>2, <1>3, <1>7, <2>2
    <3>2. n + t = Stripe * (q + 1)
      BY <1>3, <3>1
    <3>3. whole = Piece(Stripe * q, Stripe)
      <4>1. PartIsPiece(n, len, 0, t)
        BY <1>7, PieceOfPiece
      <4>2. SubSeq(Input(len), 1, t) = Piece(n, t)
        BY <1>5, <4>1 DEF PartIsPiece
      <4>3. Len(Piece(n, t)) = t /\ \A i \in 1..t : Piece(n, t)[i] = n + i
        BY PieceType
      <4>4. whole = [b \in 1..Stripe |-> IF b - memsize \in 1..t THEN n + (b - memsize) ELSE mem32[b]]
        BY <1>7, <4>2, <4>3 DEF Buffered
      <4>5. PICK s \in Nat : s = Stripe * q
        BY <1>3
      <4>6. ASSUME NEW b \in 1..Stripe
            PROVE  (IF b - memsize \in 1..t THEN n + (b - memsize) ELSE mem32[b]) = s + b
        <5>1. CASE b <= memsize
          BY <1>2, <1>3, <4>5, <5>1
        <5>2. CASE b > memsize
          BY <1>2, <1>3, <3>1, <4>5, <5>2
        <5>3. b \in Nat /\ (b <= memsize \/ b > memsize)
          BY <1>3
        <5>4. QED
          BY <5>1, <5>2, <5>3, Zenon
      <4>7. QED
        BY <4>4, <4>5, <4>6 DEF Piece
    <3>4. first = Streamed(q + 1)
      BY <1>2, <2>2, <3>3, AdvanceOne
    <3>5. QED
      BY <3>2, <3>4
  <2>3. QED
    BY <2>1, <2>2
\* The rest is whole stripes and what stays in the buffer.
<1>9. rest = Piece(Stripe * p, len - t) /\ len - t \in Nat
  <2>1. len - t \in Nat /\ t + (len - t) = len
    BY <1>7
  <2>2. PartIsPiece(n, len, t, len - t)
    BY <2>1, PieceOfPiece
  <2>3. SubSeq(Piece(n, len), t + 1, t + (len - t)) = Piece(n + t, len - t)
    BY <2>2, Zenon DEF PartIsPiece
  <2>4. QED
    BY <1>5, <1>7, <1>8, <2>1, <2>3
<1>10. PICK m \in Nat : m = len - t
  BY <1>9
<1>11. PICK k, r \in Nat : r < Stripe /\ m = Stripe * k + r
  BY InStripes
<1>12. v' = Streamed(p + k)
  <2>1. v' = MixedAll(Streamed(p), Piece(Stripe * p, m))
    BY <1>4, <1>8, <1>9, <1>10, Zenon
  <2>2. QED
    BY <1>11, <2>1, Advance
<1>13. Remaining(rest) = Piece(Stripe * (p + k), r)
  <2>1. PICK a, s \in Nat : a = Stripe * p /\ s = Stripe * k
    BY <1>3
  <2>2. Remaining(Piece(a, m)) = Piece(a + Stripe * k, r)
    BY <1>11, StripesOfPiece
  <2>3. Stripe * (p + k) = a + Stripe * k
    BY <1>3, <2>1
  <2>4. QED
    BY <1>9, <1>10, <2>1, <2>2, <2>3
<1>14. PICK e \in Nat : e = Stripe * (p + k)
  BY <1>3
<1>15. Len(Remaining(rest)) = r /\ \A i \in 1..r : Remaining(rest)[i] = e + i
  <2>1. Len(Piece(e, r)) = r /\ \A i \in 1..r : Piece(e, r)[i] = e + i
    BY PieceType
  <2>2. QED
    BY <1>13, <1>14, <2>1
<1>16. memsize' = r /\ memsize' \in 0..(Stripe - 1)
  BY <1>3, <1>4, <1>11, <1>15
<1>17. Len(fed') = e + r /\ p + k \in Nat
  <2>1. PICK a, b \in Nat : a = Stripe * p /\ b = Stripe * k
    BY <1>3
  <2>2. e = a + b
    BY <1>3, <1>14, <2>1
  <2>3. n + t = a /\ len - t = b + r
    BY <1>8, <1>10, <1>11, <2>1
  <2>4. QED
    BY <1>5, <2>2, <2>3
<1>18. \A i \in 1..r : i \in 1..Stripe /\ mem32'[i] = e + i
  BY <1>3, <1>4, <1>11, <1>15
<1>19. mem32' \in [1..Stripe -> Nat]
  <2>1. memsize # 0 => \A b \in 1..Stripe : whole[b] \in Nat
    <3> SUFFICES ASSUME memsize # 0, NEW b \in 1..Stripe PROVE whole[b] \in Nat
      OBVIOUS
    <3>1. PartIsPiece(n, len, 0, t)
      BY <1>7, PieceOfPiece
    <3>2. SubSeq(Input(len), 1, t) = Piece(n, t)
      BY <1>5, <3>1 DEF PartIsPiece
    <3>3. Len(Piece(n, t)) = t /\ \A i \in 1..t : Piece(n, t)[i] = n + i
      BY PieceType
    <3>4. whole[b] = IF b - memsize \in 1..t THEN n + (b - memsize) ELSE mem32[b]
      BY <1>7, <3>2, <3>3 DEF Buffered
    <3>5. QED
      BY <1>3, <3>4
  <2>2. \A b \in 1..Stripe : b <= r => Remaining(rest)[b] \in Nat
    BY <1>3, <1>11, <1>15
  <2>3. QED
    BY <1>3, <1>4, <1>15, <2>1, <2>2
<1>20. MixedUpTo(p + k)'
  <2>1. v' = Streamed(p + k)'
    BY <1>12 DEF Streamed, WordOf, Piece
  <2>2. Len(fed') = Stripe * (p + k) + memsize'
    BY <1>14, <1>16, <1>17
  <2>3. \A i \in 1..memsize' : mem32'[i] = Stripe * (p + k) + i
    BY <1>14, <1>16, <1>18
  <2>4. QED
    BY <2>1, <2>2, <2>3, Zenon DEF MixedUpTo, Stripe
<1>21. Len(fed') \in Nat /\ fed' = Piece(0, Len(fed'))
  BY <1>5
<1>22. total_len_32' = Len(fed') % LengthLimit /\ (large_len' <=> Len(fed') >= Stripe)
  BY <1>5, <1>6
<1>23. QED
  BY <1>6, <1>16, <1>17, <1>19, <1>20, <1>21, <1>22, Zenon DEF StreamInv, Piece, Stripe

-----------------------------------------------------------------------------
\* The state is the function of the stream that StreamInv says: the lanes have
\* taken its whole stripes, the buffer holds the rest, the count is its length
\* modulo 2^32 and large_len whether there ever was a stripe.
THEOREM StreamInvariant == HashSpec => []StreamInv
<1>1. HashInit => StreamInv
  BY InitStream
<1>2. StreamInv /\ [HashNext]_hashVars => StreamInv'
  <2> SUFFICES ASSUME StreamInv, [HashNext]_hashVars PROVE StreamInv'
    OBVIOUS
  <2>1. CASE HashNext
    <3>1. PICK len \in Lengths : HashUpdate(len)
      BY <2>1 DEF HashNext
    <3>2. len \in Nat
      BY HashAssumption
    <3>3. CASE UpdateBuffers(len)
      BY <3>2, <3>3, UpdateBuffersKeeps
    <3>4. CASE UpdateMixes(len)
      BY <3>2, <3>4, UpdateMixesKeeps
    <3>5. QED
      BY <3>1, <3>3, <3>4 DEF HashUpdate
  <2>2. CASE UNCHANGED hashVars
    BY <2>2, Zenon DEF hashVars, StreamInv, MixedUpTo, Streamed, WordOf, Piece, Stripe
  <2>3. QED
    BY <2>1, <2>2
<1>3. QED
  BY <1>1, <1>2, PTL DEF HashSpec

\* XXH32_digest after any updates is the hash of all their bytes at once: it
\* does not depend on how they were cut, nor on the counter's wrap-around, nor
\* on what is left in the buffer from before.
THEOREM CutsDoNotMatter == HashSpec => []DigestIsOneShot
<1>1. StreamInv => DigestIsOneShot
  <2> SUFFICES ASSUME StreamInv PROVE DigestIsOneShot
    OBVIOUS
  <2>1. PICK n \in Nat : n = Len(fed)
    BY DEF StreamInv
  <2>2. PICK q \in Nat : /\ n = Stripe * q + memsize /\ v = Streamed(q)
                         /\ \A i \in 1..memsize : mem32[i] = Stripe * q + i
    BY <2>1, Zenon DEF StreamInv, MixedUpTo
  <2>3. /\ fed = Piece(0, n) /\ memsize \in Nat /\ memsize < Stripe
        /\ mem32 \in [1..Stripe -> Nat] /\ Stripe \in Nat
        /\ total_len_32 = n % LengthLimit /\ (large_len <=> n >= Stripe)
    BY <2>1, StripeType DEF StreamInv
  <2>4. MixedAll(Lanes0, fed) = v
    <3>1. Stripe * 0 = 0 /\ 0 + q = q /\ 0 \in Nat
      BY <2>3
    <3>2. MixedAll(Streamed(0), Piece(Stripe * 0, n)) = Streamed(0 + q)
      BY <2>2, <2>3, <3>1, Advance
    <3>3. QED
      BY <2>2, <2>3, <3>1, <3>2, LanesOfNoStripe, Zenon
  <2>5. n < Stripe => v = Lanes0
    <3> SUFFICES ASSUME n < Stripe PROVE v = Lanes0
      OBVIOUS
    <3>1. q = 0
      <4>1. q >= 1 => Stripe * q >= Stripe
        BY <2>3
      <4>2. QED
        BY <2>2, <2>3, <4>1
    <3>2. QED
      BY <2>2, <3>1, LanesOfNoStripe
  <2>6. Remaining(fed) = SubSeq(mem32, 1, memsize)
    <3>1. PICK s \in Nat : s = Stripe * q
      BY <2>3
    <3>2. Remaining(Piece(0, n)) = Piece(0 + Stripe * q, memsize)
      BY <2>2, <2>3, StripesOfPiece
    <3>3. Remaining(fed) = Piece(s, memsize)
      BY <2>3, <3>1, <3>2
    <3>4. /\ Piece(s, memsize) \in Seq(Nat) /\ Len(Piece(s, memsize)) = memsize
          /\ \A i \in 1..memsize : Piece(s, memsize)[i] = s + i
      BY <2>3, PieceType
    <3>5. mem32 \in Seq(Nat) /\ Len(mem32) = Stripe
      BY <2>3
    <3>6. /\ SubSeq(mem32, 1, memsize) \in Seq(Nat) /\ Len(SubSeq(mem32, 1, memsize)) = memsize
          /\ \A i \in 1..memsize : SubSeq(mem32, 1, memsize)[i] = mem32[i]
      BY <2>3, <3>5
    <3>7. \A i \in 1..memsize : SubSeq(mem32, 1, memsize)[i] = Piece(s, memsize)[i]
      BY <2>2, <3>1, <3>4, <3>6
    <3>8. SubSeq(mem32, 1, memsize) = Piece(s, memsize)
      BY <3>4, <3>6, <3>7, SeqEqual
    <3>9. QED
      BY <3>3, <3>8
  <2>7. (IF large_len THEN v ELSE <<v[3]>>)
          = (IF n >= Stripe THEN MixedAll(Lanes0, fed) ELSE <<Lanes0[3]>>)
    BY <2>3, <2>4, <2>5
  <2>8. QED
    BY <2>1, <2>3, <2>6, <2>7 DEF DigestIsOneShot, Digest, OneShot
<1>2. QED
  BY <1>1, StreamInvariant, PTL
=============================================================================
