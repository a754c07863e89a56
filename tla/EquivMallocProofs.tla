------------------------ MODULE EquivMallocProofs ------------------------
(***************************************************************************)
(* Theorems about EquivMalloc, for a heap of any size and requests of any  *)
(* sizes: the blocks tile the heap, the free list joins the free blocks,   *)
(* the smallest fitting block is found, the statistics count the blocks,   *)
(* and clients never share memory.                                         *)
(*                                                                         *)
(* The first part is about the list alone: what appending and removing a   *)
(* block do to a list of the blocks F.                                     *)
(***************************************************************************)
EXTENDS EquivMalloc, FiniteSetTheorems, TLAPS

USE DEF METADATA, MINIMUM_PAYLOAD

Lists == [first : Pointers, link : [Words -> Pointers]]

\* Blocks whose link words are in the heap and do not overlap.
Spaced(F) ==
  /\ F \subseteq Words
  /\ \A b \in F : b + 1 \in Words /\ b + 2 \in Words
  /\ \A b, c \in F : b < c => b + 2 < c

\* Links agree in both directions, where they lead to a block, and no other
\* word holds a link.
Sound(l, F) ==
  /\ l.first \in F \cup {NULL}
  /\ l.first # NULL => PrevFree(l, l.first) \in {NULL, WILD}
  /\ \A b \in F :
       /\ NextFree(l, b) \in F \cup {NULL, WILD}
       /\ PrevFree(l, b) \in F \cup {NULL, WILD}
       /\ NextFree(l, b) \in F => PrevFree(l, NextFree(l, b)) = b
       /\ PrevFree(l, b) \in F => NextFree(l, PrevFree(l, b)) = b
  /\ \A w \in Words : l.link[w] # WILD => \E b \in F : w \in {b + 1, b + 2}

\* The links join all of F into one list, without a cycle: r numbers the
\* blocks in the order of the list, with gaps.
Chain(l, F, r) ==
  /\ l.first \in F /\ PrevFree(l, l.first) = NULL
  /\ \A b \in F : NextFree(l, b) # WILD /\ (b # l.first => PrevFree(l, b) \in F)
  /\ \A b \in F : r[l.first] <= r[b]
  /\ \A b, c \in F : r[b] = r[c] => b = c
  /\ \A b \in F : NextFree(l, b) # NULL => r[b] < r[NextFree(l, b)]
  /\ \A b, c \in F : r[b] < r[c] => NextFree(l, b) # NULL /\ r[NextFree(l, b)] <= r[c]

\* NULL and WILD are no words.
LEMMA HeapFacts ==
  /\ NULL \notin Words /\ WILD \notin Words /\ NULL # WILD
  /\ Words \subseteq Nat /\ HeapWords \in Nat
  /\ \A w \in Words : w # NULL /\ w # WILD
BY HeapWordsAssumption DEF NULL, WILD, Words

\* The links after remove_free_block.
LEMMA RemovedLinks ==
  ASSUME NEW l \in Lists, NEW F, Spaced(F), Sound(l, F), NEW n \in F, ~ RemovesWild(l, n)
  PROVE  LET m == Removed(l, n) IN
         /\ m \in Lists
         /\ PrevFree(l, n) \in F \cup {NULL} /\ NextFree(l, n) \in F \cup {NULL}
         /\ m.first = IF PrevFree(l, n) = NULL THEN NextFree(l, n) ELSE l.first
         /\ \A b \in F \ {n} :
              /\ NextFree(m, b) = IF b = PrevFree(l, n) THEN NextFree(l, n) ELSE NextFree(l, b)
              /\ PrevFree(m, b) = IF b = NextFree(l, n) THEN PrevFree(l, n) ELSE PrevFree(l, b)
         /\ \A w \in Words : m.link[w] # WILD => w \notin {n + 1, n + 2}
         /\ \A w \in Words : m.link[w] # WILD => \E b \in F : w \in {b + 1, b + 2}
<1> DEFINE m == Removed(l, n)
           p == PrevFree(l, n)
           x == NextFree(l, n)
<1>1. p \in F \cup {NULL} /\ x \in F \cup {NULL} /\ n \in Words /\ F \subseteq Words
  BY DEF Sound, Spaced, RemovesWild
<1>2. /\ m.first = IF p = NULL THEN x ELSE l.first
      /\ m.link = [w \in Words |-> IF w \in {n + 1, n + 2} THEN WILD
                                   ELSE IF p # NULL /\ w = p + 2 THEN x
                                   ELSE IF x # NULL /\ w = x + 1 THEN p
                                   ELSE l.link[w]]
  BY DEF Removed
<1>3. m \in Lists
  <2>1. p \in Pointers /\ x \in Pointers /\ WILD \in Pointers /\ l.first \in Pointers
    BY <1>1 DEF Pointers, Lists
  <2>2. m.link \in [Words -> Pointers]
    BY <1>2, <2>1 DEF Lists
  <2>3. m = [first |-> m.first, link |-> m.link]
    BY DEF Removed
  <2>4. m.first \in Pointers
    BY <1>2, <2>1
  <2> HIDE DEF m
  <2>5. QED
    BY <2>2, <2>3, <2>4 DEF Lists
<1> HIDE DEF m, p, x
<1>4. ASSUME NEW b \in F \ {n}
      PROVE  /\ m.link[b + 2] = IF b = p THEN x ELSE l.link[b + 2]
             /\ m.link[b + 1] = IF b = x THEN p ELSE l.link[b + 1]
  <2>1. /\ b + 1 \in Words /\ b + 2 \in Words /\ b \in Nat /\ n \in Nat
        /\ {b + 1, b + 2} \cap {n + 1, n + 2} = {}
    BY <1>1, HeapFacts DEF Spaced
  <2>2. p # NULL => p \in F /\ p \in Nat /\ p + 2 # b + 1 /\ (p + 2 = b + 2 <=> p = b)
    BY <1>1, <2>1, HeapFacts DEF Spaced
  <2>3. x # NULL => x \in F /\ x \in Nat /\ x + 1 # b + 2 /\ (x + 1 = b + 1 <=> x = b)
    BY <1>1, <2>1, HeapFacts DEF Spaced
  <2>4. b # NULL
    BY <1>1, HeapFacts
  <2>5. QED
    BY <1>2, <2>1, <2>2, <2>3, <2>4
<1>5. \A w \in Words : m.link[w] # WILD => w \notin {n + 1, n + 2}
  BY <1>2
<1>6. \A w \in Words : m.link[w] # WILD => \E b \in F : w \in {b + 1, b + 2}
  BY <1>1, <1>2 DEF Sound
<1>7. \A b \in F \ {n} :
        /\ NextFree(m, b) = IF b = p THEN x ELSE NextFree(l, b)
        /\ PrevFree(m, b) = IF b = x THEN p ELSE PrevFree(l, b)
  BY <1>4 DEF NextFree, PrevFree
<1>8. QED
  BY <1>1, <1>2, <1>3, <1>5, <1>6, <1>7 DEF m, p, x

\* remove_free_block keeps the others linked ...
LEMMA RemovedSound ==
  ASSUME NEW l \in Lists, NEW F, Spaced(F), Sound(l, F), NEW n \in F, ~ RemovesWild(l, n)
  PROVE  Sound(Removed(l, n), F \ {n}) /\ Removed(l, n) \in Lists
<1> DEFINE m == Removed(l, n)
           p == PrevFree(l, n)
           x == NextFree(l, n)
<1>1. /\ m \in Lists /\ p \in F \cup {NULL} /\ x \in F \cup {NULL}
      /\ m.first = IF p = NULL THEN x ELSE l.first
      /\ \A b \in F \ {n} :
           /\ NextFree(m, b) = IF b = p THEN x ELSE NextFree(l, b)
           /\ PrevFree(m, b) = IF b = x THEN p ELSE PrevFree(l, b)
      /\ \A w \in Words : m.link[w] # WILD => w \notin {n + 1, n + 2}
      /\ \A w \in Words : m.link[w] # WILD => \E b \in F : w \in {b + 1, b + 2}
  BY RemovedLinks
<1>2. /\ NULL \notin F /\ WILD \notin F /\ NULL # WILD
      /\ p \in F => NextFree(l, p) = n
      /\ x \in F => PrevFree(l, x) = n
  BY HeapFacts DEF Spaced, Sound
<1>3. /\ l.first \in F \cup {NULL}
      /\ l.first # NULL => PrevFree(l, l.first) \in {NULL, WILD}
      /\ \A b \in F :
           /\ NextFree(l, b) \in F \cup {NULL, WILD}
           /\ PrevFree(l, b) \in F \cup {NULL, WILD}
           /\ NextFree(l, b) \in F => PrevFree(l, NextFree(l, b)) = b
           /\ PrevFree(l, b) \in F => NextFree(l, PrevFree(l, b)) = b
  BY DEF Sound
<1> HIDE DEF m, p, x
<1>4. PrevFree(l, n) = p /\ NextFree(l, n) = x
  BY DEF p, x
<1>5. (p = n => x = n) /\ (x = n => p = n)
  BY <1>2, <1>4
<1>6. p # NULL => l.first # n
  BY <1>1, <1>2, <1>3, <1>4
<1>7. m.first \in (F \ {n}) \cup {NULL}
  BY <1>1, <1>2, <1>3, <1>4, <1>5, <1>6
<1>8. m.first # NULL => PrevFree(m, m.first) \in {NULL, WILD}
  BY <1>1, <1>2, <1>3, <1>4, <1>5, <1>6, <1>7
<1>9. ASSUME NEW b \in F \ {n}
      PROVE  /\ NextFree(m, b) \in (F \ {n}) \cup {NULL, WILD}
             /\ PrevFree(m, b) \in (F \ {n}) \cup {NULL, WILD}
             /\ NextFree(m, b) \in F \ {n} => PrevFree(m, NextFree(m, b)) = b
             /\ PrevFree(m, b) \in F \ {n} => NextFree(m, PrevFree(m, b)) = b
  BY <1>1, <1>2, <1>3, <1>4, <1>5
<1>10. \A w \in Words : m.link[w] # WILD => \E b \in F \ {n} : w \in {b + 1, b + 2}
  BY <1>1
<1>11. Sound(m, F \ {n})
  BY <1>7, <1>8, <1>9, <1>10 DEF Sound
<1>12. QED
  BY <1>1, <1>11 DEF m

\* ... and, as long as blocks remain, in one list in the same order.
LEMMA RemovedChain ==
  ASSUME NEW l \in Lists, NEW F, NEW r \in [Words -> Int], Spaced(F), Sound(l, F), Chain(l, F, r),
         NEW n \in F, F # {n}
  PROVE  ~ RemovesWild(l, n) /\ Chain(Removed(l, n), F \ {n}, r)
<1> DEFINE m == Removed(l, n)
           p == PrevFree(l, n)
           x == NextFree(l, n)
<1>1. NULL \notin F /\ WILD \notin F /\ NULL # WILD /\ \A b \in F : r[b] \in Int
  BY HeapFacts DEF Spaced
<1>2. /\ l.first \in F /\ PrevFree(l, l.first) = NULL
      /\ \A b \in F : NextFree(l, b) # WILD /\ (b # l.first => PrevFree(l, b) \in F)
      /\ \A b \in F : r[l.first] <= r[b]
      /\ \A b, c \in F : r[b] = r[c] => b = c
      /\ \A b \in F : NextFree(l, b) # NULL => r[b] < r[NextFree(l, b)]
      /\ \A b, c \in F : r[b] < r[c] => NextFree(l, b) # NULL /\ r[NextFree(l, b)] <= r[c]
  BY DEF Chain
<1>3. ~ RemovesWild(l, n)
  BY <1>1, <1>2 DEF RemovesWild
<1>4. /\ p \in F \cup {NULL} /\ x \in F \cup {NULL}
      /\ m.first = IF p = NULL THEN x ELSE l.first
      /\ \A b \in F \ {n} :
           /\ NextFree(m, b) = IF b = p THEN x ELSE NextFree(l, b)
           /\ PrevFree(m, b) = IF b = x THEN p ELSE PrevFree(l, b)
  BY <1>3, RemovedLinks
<1>5. /\ \A b \in F : NextFree(l, b) \in F => PrevFree(l, NextFree(l, b)) = b
      /\ \A b \in F : PrevFree(l, b) \in F => NextFree(l, PrevFree(l, b)) = b
      /\ \A b \in F : NextFree(l, b) \in F \cup {NULL}
  BY <1>2 DEF Sound
<1> HIDE DEF m, p, x
<1>6. PrevFree(l, n) = p /\ NextFree(l, n) = x
  BY DEF p, x
<1>7. (p = NULL <=> n = l.first) /\ p # n /\ x # n
  BY <1>1, <1>2, <1>4, <1>5, <1>6
<1>8. PICK c \in F : c # n
  OBVIOUS
<1>9. p = NULL => x \in F
  <2>1. SUFFICES ASSUME n = l.first PROVE x # NULL
    BY <1>4, <1>7
  <2>2. r[n] < r[c]
    BY <2>1, <1>1, <1>2, <1>8
  <2>3. QED
    BY <2>2, <1>2, <1>6, <1>8
<1>10. m.first \in F \ {n} /\ PrevFree(m, m.first) = NULL
  BY <1>1, <1>2, <1>4, <1>5, <1>6, <1>7, <1>9
<1>11. ASSUME NEW b \in F \ {n}
       PROVE  NextFree(m, b) # WILD /\ (b # m.first => PrevFree(m, b) \in F \ {n})
  BY <1>1, <1>2, <1>4, <1>5, <1>6, <1>7
<1>12. ASSUME NEW b \in F \ {n} PROVE r[m.first] <= r[b]
  <2>1. CASE p # NULL
    BY <2>1, <1>2, <1>4
  <2>2. CASE p = NULL
    <3>1. r[n] < r[b]
      BY <2>2, <1>1, <1>2, <1>7
    <3>2. QED
      BY <2>2, <3>1, <1>2, <1>4, <1>6
  <2>3. QED
    BY <2>1, <2>2
<1>13. ASSUME NEW b \in F \ {n}, NextFree(m, b) # NULL PROVE r[b] < r[NextFree(m, b)]
  <2>1. CASE b # p
    BY <2>1, <1>2, <1>4, <1>13
  <2>2. CASE b = p
    <3>1. NextFree(l, p) = n /\ x \in F /\ NextFree(m, b) = x
      BY <2>2, <1>1, <1>4, <1>5, <1>6, <1>13
    <3>2. r[p] < r[n] /\ r[n] < r[x]
      BY <3>1, <2>2, <1>1, <1>2, <1>6
    <3>3. QED
      BY <3>1, <3>2, <2>2, <1>1
  <2>3. QED
    BY <2>1, <2>2
<1>14. ASSUME NEW b \in F \ {n}, NEW d \in F \ {n}, r[b] < r[d]
       PROVE  NextFree(m, b) # NULL /\ r[NextFree(m, b)] <= r[d]
  <2>1. CASE b # p
    BY <2>1, <1>2, <1>4, <1>14
  <2>2. CASE b = p
    <3>1. NextFree(l, p) = n /\ NextFree(m, b) = x
      BY <2>2, <1>1, <1>4, <1>5, <1>6
    <3>2. r[n] <= r[d] /\ r[n] # r[d]
      BY <3>1, <2>2, <1>1, <1>2, <1>14
    <3>3. r[n] < r[d]
      BY <3>2, <1>1
    <3>4. QED
      BY <3>1, <3>3, <1>2, <1>6
  <2>3. QED
    BY <2>1, <2>2
<1>15. Chain(m, F \ {n}, r)
  BY <1>2, <1>10, <1>11, <1>12, <1>13, <1>14 DEF Chain
<1>16. QED
  BY <1>3, <1>15 DEF m

\* append_free_block puts a block in front of the list ...
LEMMA AppendedLinks ==
  ASSUME NEW l \in Lists, NEW F, NEW b, b \notin F, Spaced(F \cup {b}), Sound(l, F)
  PROVE  LET m == Appended(l, b) IN
         /\ m \in Lists /\ m.first = b
         /\ l.first = NULL => PrevFree(m, b) = WILD /\ NextFree(m, b) = WILD
         /\ l.first # NULL => PrevFree(m, b) = NULL /\ NextFree(m, b) = l.first
         /\ \A c \in F : /\ NextFree(m, c) = NextFree(l, c)
                         /\ PrevFree(m, c) = IF c = l.first THEN b ELSE PrevFree(l, c)
         /\ \A w \in Words : m.link[w] # WILD => \E c \in F \cup {b} : w \in {c + 1, c + 2}
<1> DEFINE m == Appended(l, b)
<1>1. /\ b \in Words /\ b + 1 \in Words /\ b + 2 \in Words /\ F \subseteq Words /\ b \in Nat
      /\ l.first \in F \cup {NULL} /\ NULL \notin F
  BY HeapFacts DEF Spaced, Sound
<1>2. ASSUME NEW c \in F
      PROVE  /\ c \in Nat /\ c + 1 \in Words /\ c + 2 \in Words
             /\ {c + 1, c + 2} \cap {b + 1, b + 2} = {}
  <2>1. c \in Nat /\ c # b /\ c + 1 \in Words /\ c + 2 \in Words
    BY <1>1, HeapFacts DEF Spaced
  <2>2. c < b => c + 2 < b
    BY DEF Spaced
  <2>3. b < c => b + 2 < c
    BY DEF Spaced
  <2>4. QED
    BY <1>1, <2>1, <2>2, <2>3
<1>3. CASE l.first = NULL
  <2>1. m = [first |-> b, link |-> l.link]
    BY <1>3 DEF Appended
  <2>2. l.link[b + 1] = WILD /\ l.link[b + 2] = WILD
    BY <1>1, <1>2 DEF Sound
  <2>3. m \in Lists /\ m.first = b /\ m.link = l.link
    BY <1>1, <2>1 DEF Lists, Pointers
  <2> HIDE DEF m
  <2>4. PrevFree(m, b) = WILD /\ NextFree(m, b) = WILD
    BY <2>2, <2>3 DEF PrevFree, NextFree
  <2>5. \A c \in F : NextFree(m, c) = NextFree(l, c) /\ PrevFree(m, c) = PrevFree(l, c) /\ c # l.first
    BY <1>1, <1>3, <2>3 DEF PrevFree, NextFree
  <2>6. \A w \in Words : m.link[w] # WILD => \E c \in F \cup {b} : w \in {c + 1, c + 2}
    BY <2>3 DEF Sound
  <2>7. QED
    BY <1>3, <2>3, <2>4, <2>5, <2>6 DEF m
<1>4. CASE l.first # NULL
  <2> DEFINE f == l.first
             k == [w \in Words |-> CASE w = b + 1 -> NULL
                                     [] w = b + 2 -> f
                                     [] w = f + 1 -> b
                                     [] OTHER -> l.link[w]]
  <2>1. m = [first |-> b, link |-> k]
    BY <1>4 DEF Appended
  <2>2. f \in F /\ f \in Words /\ f \in Nat /\ f + 1 \in Words
    BY <1>1, <1>2, <1>4
  <2>3. \A w \in Words : k[w] = IF w = b + 1 THEN NULL ELSE IF w = b + 2 THEN f
                                ELSE IF w = f + 1 THEN b ELSE l.link[w]
    <3>1. b + 1 # b + 2 /\ f + 1 \notin {b + 1, b + 2}
      <4>1. {f + 1, f + 2} \cap {b + 1, b + 2} = {}
        BY <1>2, <2>2
      <4>2. b + 1 # b + 2
        BY <1>1
      <4>3. QED
        BY <4>1, <4>2, Zenon
    <3>2. QED
      BY <3>1
  <2>4. k \in [Words -> Pointers]
    <3>1. \A w \in Words : k[w] \in Pointers
      BY <2>2, <2>3, <1>1 DEF Lists, Pointers
    <3>2. QED
      BY <3>1
  <2> HIDE DEF k
  <2>5. m \in Lists /\ m.first = b /\ m.link = k
    BY <1>1, <2>1, <2>4 DEF Lists, Pointers
  <2> HIDE DEF m, f
  <2>6. PrevFree(m, b) = NULL /\ NextFree(m, b) = f
    BY <1>1, <2>3, <2>5 DEF PrevFree, NextFree
  <2>7. ASSUME NEW c \in F
        PROVE  /\ NextFree(m, c) = NextFree(l, c)
               /\ PrevFree(m, c) = IF c = f THEN b ELSE PrevFree(l, c)
    <3>1. c + 2 # f + 1 /\ (c + 1 = f + 1 <=> c = f)
      BY <2>2, <1>2, <1>1 DEF Spaced
    <3>2. QED
      BY <1>2, <2>3, <2>5, <3>1 DEF PrevFree, NextFree
  <2>8. \A w \in Words : m.link[w] # WILD => \E c \in F \cup {b} : w \in {c + 1, c + 2}
    BY <2>2, <2>3, <2>5 DEF Sound
  <2>9. QED
    BY <1>4, <2>5, <2>6, <2>7, <2>8 DEF m, f
<1>5. QED
  BY <1>3, <1>4

\* ... which stays sound ...
LEMMA AppendedSound ==
  ASSUME NEW l \in Lists, NEW F, NEW b, b \notin F, Spaced(F \cup {b}), Sound(l, F)
  PROVE  Sound(Appended(l, b), F \cup {b}) /\ Appended(l, b) \in Lists
<1> DEFINE m == Appended(l, b)
           G == F \cup {b}
<1>1. /\ m \in Lists /\ m.first = b
      /\ l.first = NULL => PrevFree(m, b) = WILD /\ NextFree(m, b) = WILD
      /\ l.first # NULL => PrevFree(m, b) = NULL /\ NextFree(m, b) = l.first
      /\ \A c \in F : /\ NextFree(m, c) = NextFree(l, c)
                      /\ PrevFree(m, c) = IF c = l.first THEN b ELSE PrevFree(l, c)
      /\ \A w \in Words : m.link[w] # WILD => \E c \in G : w \in {c + 1, c + 2}
  BY AppendedLinks
<1>2. /\ l.first \in F \cup {NULL}
      /\ l.first # NULL => PrevFree(l, l.first) \in {NULL, WILD}
      /\ \A c \in F :
           /\ NextFree(l, c) \in F \cup {NULL, WILD}
           /\ PrevFree(l, c) \in F \cup {NULL, WILD}
           /\ NextFree(l, c) \in F => PrevFree(l, NextFree(l, c)) = c
           /\ PrevFree(l, c) \in F => NextFree(l, PrevFree(l, c)) = c
  BY DEF Sound
<1>3. NULL \notin G /\ WILD \notin G /\ NULL # WILD
  BY HeapFacts DEF Spaced
<1> HIDE DEF m
<1>4. m.first \in G \cup {NULL} /\ PrevFree(m, m.first) \in {NULL, WILD}
  BY <1>1
<1>5. ASSUME NEW c \in G
      PROVE  /\ NextFree(m, c) \in G \cup {NULL, WILD}
             /\ PrevFree(m, c) \in G \cup {NULL, WILD}
             /\ NextFree(m, c) \in G => PrevFree(m, NextFree(m, c)) = c
             /\ PrevFree(m, c) \in G => NextFree(m, PrevFree(m, c)) = c
  <2>1. CASE c = b
    BY <2>1, <1>1, <1>2, <1>3
  <2>2. CASE c \in F
    BY <2>2, <1>1, <1>2, <1>3
  <2>3. QED
    BY <2>1, <2>2
<1>6. Sound(m, G)
  BY <1>1, <1>4, <1>5 DEF Sound
<1>7. QED
  BY <1>1, <1>6 DEF m

\* ... and one list.
LEMMA AppendedChain ==
  ASSUME NEW l \in Lists, NEW F, NEW r \in [Words -> Int], NEW b, b \notin F,
         Spaced(F \cup {b}), Sound(l, F), Chain(l, F, r)
  PROVE  LET s == [r EXCEPT ![b] = r[l.first] - 1] IN
         s \in [Words -> Int] /\ Chain(Appended(l, b), F \cup {b}, s)
<1> DEFINE m == Appended(l, b)
           G == F \cup {b}
           s == [r EXCEPT ![b] = r[l.first] - 1]
<1>1. /\ l.first \in F /\ PrevFree(l, l.first) = NULL
      /\ \A c \in F : NextFree(l, c) # WILD /\ (c # l.first => PrevFree(l, c) \in F)
      /\ \A c \in F : r[l.first] <= r[c]
      /\ \A c, d \in F : r[c] = r[d] => c = d
      /\ \A c \in F : NextFree(l, c) # NULL => r[c] < r[NextFree(l, c)]
      /\ \A c, d \in F : r[c] < r[d] => NextFree(l, c) # NULL /\ r[NextFree(l, c)] <= r[d]
  BY DEF Chain
<1>2. /\ NULL \notin G /\ WILD \notin G /\ NULL # WILD /\ G \subseteq Words
      /\ \A c \in F : NextFree(l, c) \in F \cup {NULL}
  BY <1>1, HeapFacts DEF Spaced, Sound
<1>3. /\ m.first = b /\ PrevFree(m, b) = NULL /\ NextFree(m, b) = l.first
      /\ \A c \in F : /\ NextFree(m, c) = NextFree(l, c)
                      /\ PrevFree(m, c) = IF c = l.first THEN b ELSE PrevFree(l, c)
  BY <1>1, <1>2, AppendedLinks
<1>4. /\ s \in [Words -> Int] /\ s[b] = r[l.first] - 1 /\ r[l.first] \in Int
      /\ \A c \in F : s[c] = r[c] /\ r[c] \in Int
  BY <1>1, <1>2
<1>5. \A c \in F : s[b] < s[c]
  BY <1>1, <1>4
<1> HIDE DEF m, s
<1>6. \A c \in G : NextFree(m, c) # WILD /\ (c # b => PrevFree(m, c) \in G)
  BY <1>1, <1>2, <1>3
<1>7. \A c \in G : s[b] <= s[c]
  BY <1>4, <1>5
<1>8. \A c, d \in G : s[c] = s[d] => c = d
  BY <1>1, <1>4, <1>5
<1>9. \A c \in G : NextFree(m, c) # NULL => s[c] < s[NextFree(m, c)]
  BY <1>1, <1>2, <1>3, <1>4, <1>5
<1>10. ASSUME NEW c \in G, NEW d \in G, s[c] < s[d]
       PROVE  NextFree(m, c) # NULL /\ s[NextFree(m, c)] <= s[d]
  <2>1. d \in F
    BY <1>4, <1>7, <1>10
  <2>2. CASE c = b
    BY <2>1, <2>2, <1>1, <1>2, <1>3, <1>4
  <2>3. CASE c \in F
    BY <2>1, <2>3, <1>1, <1>2, <1>3, <1>4, <1>10
  <2>4. QED
    BY <2>2, <2>3
<1>11. Chain(m, G, s)
  BY <1>3, <1>6, <1>7, <1>8, <1>9, <1>10 DEF Chain
<1>12. QED
  BY <1>4, <1>11 DEF m, s

-----------------------------------------------------------------------------
(***************************************************************************)
(* The second part is about the headers alone: s is what size is before a  *)
(* step, t behind it.                                                      *)
(***************************************************************************)
BlocksOf(s) == {w \in Words : s[w] # 0}

Tiles(s) ==
  /\ 1 \in BlocksOf(s)
  /\ \A b \in BlocksOf(s) : /\ s[b] >= MINIMUM_PAYLOAD
                            /\ b + METADATA + s[b] \in BlocksOf(s) \cup {HeapWords + 1}
  /\ \A b, c \in BlocksOf(s) : b < c => b + METADATA + s[b] <= c

\* A block of a tiled heap lies in the heap and can hold links.
LEMMA BlockInside ==
  ASSUME NEW s \in [Words -> Nat], Tiles(s), NEW b \in BlocksOf(s)
  PROVE  /\ b \in Words /\ b \in Nat /\ 1 <= b /\ s[b] \in Nat /\ s[b] >= 4 /\ HeapWords \in Nat
         /\ b + 1 + s[b] <= HeapWords + 1
BY HeapFacts DEF Tiles, BlocksOf, Words

\* Blocks have room for their links.
LEMMA TilesSpaced ==
  ASSUME NEW s \in [Words -> Nat], Tiles(s)
  PROVE  Spaced(BlocksOf(s))
<1>1. \A b \in BlocksOf(s) : b \in Nat /\ 1 <= b /\ s[b] \in Nat /\ s[b] >= 4
  BY BlockInside
<1>3. \A b \in BlocksOf(s) : b + 1 \in Words /\ b + 2 \in Words
  <2>. SUFFICES ASSUME NEW b \in BlocksOf(s) PROVE b + 1 \in Words /\ b + 2 \in Words
    OBVIOUS
  <2>1. PICK k : k = s[b]
    OBVIOUS
  <2>2. b \in Nat /\ 1 <= b /\ k \in Nat /\ k >= 4 /\ HeapWords \in Nat /\ b + 1 + k <= HeapWords + 1
    BY <2>1, BlockInside
  <2>. QED
    BY <2>2 DEF Words
<1>4. \A b, c \in BlocksOf(s) : b < c => b + 2 < c
  BY <1>1 DEF Tiles
<1>5. QED
  BY <1>3, <1>4 DEF Spaced, BlocksOf

\* trim_block_if_possible: the rest of block b begins inside b ...
LEMMA RestInside ==
  ASSUME NEW s \in [Words -> Nat], Tiles(s), NEW b \in BlocksOf(s),
         NEW k \in Nat, k >= MINIMUM_PAYLOAD, s[b] - k >= METADATA + MINIMUM_PAYLOAD,
         NEW e, e = b + METADATA + k
  PROVE  e \in Words /\ e \notin BlocksOf(s) /\ b < e /\ e # b /\ e < b + METADATA + s[b]
<1>1. /\ b \in Words /\ b \in Nat /\ 1 <= b /\ s[b] \in Nat /\ HeapWords \in Nat
      /\ b + 1 + s[b] <= HeapWords + 1
  BY BlockInside
<1>2. e \in Words /\ e \in Nat /\ b < e /\ e < b + 1 + s[b]
  BY <1>1 DEF Words
<1>3. e \notin BlocksOf(s)
  BY <1>1, <1>2 DEF Tiles
<1>4. QED
  BY <1>1, <1>2, <1>3

\* ... and both parts are blocks of the heap.
IsSplit(s, t, b, k, e) ==
  /\ b \in BlocksOf(s) /\ k \in Nat /\ k >= MINIMUM_PAYLOAD
  /\ s[b] - k >= METADATA + MINIMUM_PAYLOAD /\ e = b + METADATA + k
  /\ t[b] = k /\ t[e] = s[b] - k - METADATA
  /\ \A w \in Words : w \notin {b, e} => t[w] = s[w]

\* trim_block_if_possible: a tiled heap stays tiled when a block is split.
LEMMA TilesSplit ==
  ASSUME NEW s \in [Words -> Nat], Tiles(s), NEW t \in [Words -> Nat],
         NEW b, NEW k, NEW e, IsSplit(s, t, b, k, e)
  PROVE  Tiles(t) /\ BlocksOf(t) = BlocksOf(s) \cup {e}
<1> USE DEF IsSplit
<1>1. /\ b \in Words /\ b \in Nat /\ 1 <= b /\ s[b] \in Nat /\ HeapWords \in Nat
      /\ b + 1 + s[b] <= HeapWords + 1
  BY BlockInside
<1>2. e \in Words /\ e \in Nat /\ b < e /\ e < b + 1 + s[b]
  BY RestInside, HeapFacts
<1>3. e \notin BlocksOf(s)
  BY RestInside
<1>4. \A w \in Words : w \notin {b, e} => t[w] = s[w]
  OBVIOUS
<1>5. t[b] >= 4 /\ t[e] \in Nat /\ t[e] >= 4 /\ b + 1 + t[b] = e /\ e + 1 + t[e] = b + 1 + s[b]
  BY <1>1, <1>2, <1>4
<1>6. BlocksOf(t) = BlocksOf(s) \cup {e}
  <2>1. t[b] # 0 /\ t[e] # 0 /\ s[b] # 0
    BY <1>5 DEF BlocksOf
  <2>2. \A w \in Words : t[w] # 0 <=> (s[w] # 0 \/ w = e)
    BY <2>1, <1>4
  <2>3. QED
    BY <2>2, <1>2 DEF BlocksOf
<1>7. \A c \in BlocksOf(s) : c \in Words /\ c \in Nat /\ s[c] \in Nat /\ s[c] >= 4
  BY HeapFacts DEF Tiles, BlocksOf
<1>8. ASSUME NEW c \in BlocksOf(t)
      PROVE  t[c] >= 4 /\ c + 1 + t[c] \in BlocksOf(t) \cup {HeapWords + 1}
  <2>1. CASE c = b
    BY <2>1, <1>5, <1>6
  <2>2. CASE c = e
    BY <2>2, <1>5, <1>6 DEF Tiles
  <2>3. CASE c \notin {b, e}
    BY <2>3, <1>4, <1>6, <1>7 DEF Tiles
  <2>4. QED
    BY <2>1, <2>2, <2>3
<1>9. ASSUME NEW c \in BlocksOf(t), NEW d \in BlocksOf(t), c < d
      PROVE  c + 1 + t[c] <= d
  <2>1. \A x, y \in BlocksOf(s) : x < y => x + 1 + s[x] <= y
    BY DEF Tiles
  <2>2. CASE c = b /\ d = e
    BY <2>2, <1>2, <1>5
  <2>3. CASE c = b /\ d \in BlocksOf(s)
    BY <2>1, <2>3, <1>1, <1>2, <1>5, <1>7, <1>9
  <2>4. CASE c = e /\ d \in BlocksOf(s)
    <3>1. b < d
      BY <2>4, <1>1, <1>2, <1>7, <1>9
    <3>2. QED
      BY <2>1, <2>4, <3>1, <1>5
  <2>5. CASE c \in BlocksOf(s) \ {b} /\ d = e
    <3>1. c + 1 + s[c] <= b
      <4>1. c < b
        <5>1. b < c => b + 1 + s[b] <= c
          BY <2>1, <2>5
        <5>2. QED
          BY <2>5, <5>1, <1>1, <1>2, <1>7, <1>9
      <4>2. QED
        BY <2>1, <2>5, <4>1
    <3>2. t[c] = s[c]
      BY <2>5, <1>3, <1>4, <1>7
    <3>3. QED
      BY <2>5, <3>1, <3>2, <1>1, <1>2, <1>7
  <2>6. CASE c \in BlocksOf(s) \ {b} /\ d \in BlocksOf(s)
    <3>1. t[c] = s[c]
      BY <2>6, <1>3, <1>4, <1>7
    <3>2. QED
      BY <2>1, <2>6, <3>1, <1>9
  <2>7. CASE c = e /\ d = e
    BY <2>7, <1>2, <1>9
  <2>8. c \in BlocksOf(s) \cup {e} /\ d \in BlocksOf(s) \cup {e}
    BY <1>6
  <2>9. QED
    BY <2>2, <2>3, <2>4, <2>5, <2>6, <2>7, <2>8, Zenon
<1>10. 1 \in BlocksOf(t)
  BY <1>6 DEF Tiles
<1>11. Tiles(t)
  BY <1>8, <1>9, <1>10 DEF Tiles
<1>12. QED
  BY <1>6, <1>11

\* Block b of s takes in block n behind it.
IsMerge(s, t, b, n) ==
  /\ b \in BlocksOf(s) /\ n \in BlocksOf(s) /\ n = b + METADATA + s[b]
  /\ t[b] = s[b] + s[n] + METADATA /\ t[n] = 0
  /\ \A w \in Words : w \notin {b, n} => t[w] = s[w]

\* A tiled heap stays tiled.
LEMMA TilesMerge ==
  ASSUME NEW s \in [Words -> Nat], Tiles(s), NEW t \in [Words -> Nat],
         NEW b, NEW n, IsMerge(s, t, b, n)
  PROVE  b # n /\ Tiles(t) /\ BlocksOf(t) = BlocksOf(s) \ {n}
<1> USE DEF IsMerge
<1>1. \A c \in BlocksOf(s) : c \in Words /\ c \in Nat /\ 1 <= c /\ s[c] \in Nat /\ s[c] >= 4
  BY HeapFacts DEF Tiles, BlocksOf, Words
<1>2. b < n /\ b # n
  BY <1>1
<1>3. /\ t \in [Words -> Nat] /\ t[b] = s[b] + s[n] + METADATA /\ t[n] = 0
      /\ \A w \in Words : w \notin {b, n} => t[w] = s[w]
  OBVIOUS
<1>4. t[b] >= 4 /\ b + 1 + t[b] = n + 1 + s[n]
  BY <1>1, <1>3
<1>5. BlocksOf(t) = BlocksOf(s) \ {n}
  <2>1. t[b] # 0 /\ s[b] # 0
    BY <1>4 DEF BlocksOf
  <2>2. \A w \in Words : t[w] # 0 <=> (s[w] # 0 /\ w # n)
    BY <2>1, <1>2, <1>3
  <2>3. QED
    BY <2>2 DEF BlocksOf
<1>6. n + 1 + s[n] \in (BlocksOf(s) \ {n}) \cup {HeapWords + 1}
  <2>1. n + 1 + s[n] # n
    BY <1>1
  <2>2. QED
    BY <2>1 DEF Tiles
<1>7. ASSUME NEW c \in BlocksOf(t)
      PROVE  t[c] >= 4 /\ c + 1 + t[c] \in BlocksOf(t) \cup {HeapWords + 1}
  <2>1. CASE c = b
    BY <2>1, <1>4, <1>5, <1>6
  <2>2. CASE c # b
    <3>1. c \in BlocksOf(s) /\ t[c] = s[c] /\ s[c] >= 4
      BY <2>2, <1>1, <1>3, <1>5
    <3>2. c + 1 + s[c] \in BlocksOf(s) \cup {HeapWords + 1}
      BY <3>1 DEF Tiles
    <3>3. c + 1 + s[c] # n
      <4>1. c < b => c + 1 + s[c] <= b
        BY <3>1 DEF Tiles
      <4>2. b < c => n <= c
        BY <3>1 DEF Tiles
      <4>3. QED
        BY <2>2, <3>1, <4>1, <4>2, <1>1, <1>2
    <3>4. QED
      BY <3>1, <3>2, <3>3, <1>5
  <2>3. QED
    BY <2>1, <2>2
<1>8. ASSUME NEW c \in BlocksOf(t), NEW d \in BlocksOf(t), c < d
      PROVE  c + 1 + t[c] <= d
  <2>1. \A x, y \in BlocksOf(s) : x < y => x + 1 + s[x] <= y
    BY DEF Tiles
  <2>2. CASE c = b
    <3>1. d \in BlocksOf(s) /\ n <= d /\ d # n
      BY <2>1, <2>2, <1>5, <1>8
    <3>2. n + 1 + s[n] <= d
      BY <2>1, <3>1, <1>1
    <3>3. QED
      BY <2>2, <3>2, <1>4
  <2>3. CASE c # b
    BY <2>1, <2>3, <1>1, <1>3, <1>5, <1>8
  <2>4. QED
    BY <2>2, <2>3
<1>9. 1 \in BlocksOf(t)
  <2>1. 1 # n
    BY <1>1, <1>2
  <2>2. QED
    BY <2>1, <1>5 DEF Tiles
<1>10. Tiles(t)
  BY <1>7, <1>8, <1>9 DEF Tiles
<1>11. QED
  BY <1>2, <1>3, <1>5, <1>10

\* Sizes asked for become payloads of some words.
LEMMA RoundUpPositive ==
  ASSUME NEW bytes \in Nat, bytes >= 1
  PROVE  RoundUp(bytes) \in Nat /\ RoundUp(bytes) >= 1
BY DEF RoundUp

\* equiv_malloc never asks for less than the smallest payload.
LEMMA NeedsPayload ==
  ASSUME NEW bytes \in Nat
  PROVE  Needs(bytes) \in Nat /\ Needs(bytes) >= MINIMUM_PAYLOAD
BY DEF Needs, RoundUp

-----------------------------------------------------------------------------
(***************************************************************************)
(* The inductive invariant.                                                *)
(***************************************************************************)
\* Only headers say that a block is free.
FreeAreBlocks == \A w \in Words : free[w] => size[w] # 0

\* What each loop and each branch knows of its locals.
CallInv ==
  /\ pc \in {"search", "found"} =>
       loc.needs >= MINIMUM_PAYLOAD /\ loc.best \in {NULL} \cup {b \in FreeBlocks : size[b] >= loc.needs}
  /\ pc = "search" => loc.cur \in FreeBlocks \cup {NULL, WILD}
  /\ pc \notin {"idle", "wild"} /\ loc.old # NULL => loc.old \in Live
  /\ pc \in {"absorb", "resize", "release"} => loc.old # NULL
  /\ pc \in {"coalesce", "absorb"} =>
       loc.base \in FreeBlocks /\ (loc.old # NULL => End(loc.old) = loc.base)
  /\ pc \in {"coalesce", "absorb", "resize"} /\ loc.old # NULL => loc.needs >= MINIMUM_PAYLOAD
  /\ pc \in {"coalesce", "absorb", "resize"} => loc.best = NULL

\* Also after memory was exhausted, no link leads to a block that is not free.
ListInv == pc # "wild" => Sound(list, FreeBlocks)

\* The best block so far is the best of those the loop has passed, in the
\* order r.
Sought(r) ==
  /\ pc = "search" =>
       /\ loc.cur \in FreeBlocks
       /\ \A b \in FreeBlocks : r[b] < r[loc.cur] /\ size[b] >= loc.needs =>
            loc.best # NULL /\ size[loc.best] <= size[b]
  /\ pc = "found" =>
       \A b \in FreeBlocks : size[b] >= loc.needs => loc.best # NULL /\ size[loc.best] <= size[b]

\* Before, the free list is one list of all free blocks.
RankedInv ==
  ~ exhausted => /\ pc # "wild"
                 /\ \E r \in [Words -> Int] : Chain(list, FreeBlocks, r) /\ Sought(r)

HeapInv ==
  /\ HeapTypes /\ Tiling /\ LiveBlocks
  /\ FreeAreBlocks /\ CallInv /\ ListInv /\ RankedInv

\* Tiling is Tiles of the headers, before a step and after it.
LEMMA TilingIsTiles ==
  /\ Starts = BlocksOf(size) /\ Starts' = BlocksOf(size')
  /\ Tiling <=> Tiles(size)
  /\ Tiling' <=> Tiles(size')
BY DEF Tiling, Tiles, Starts, BlocksOf, End

\* What every step needs of the invariant.
LEMMA InvFacts ==
  ASSUME HeapInv
  PROVE  /\ size \in [Words -> Nat] /\ free \in [Words -> BOOLEAN] /\ list \in Lists
         /\ asked \in [Words -> Nat]
         /\ Tiles(size) /\ Starts = BlocksOf(size) /\ Starts \subseteq Words
         /\ FreeBlocks = {w \in Words : free[w]} /\ FreeBlocks \subseteq Starts
         /\ Spaced(Starts) /\ Spaced(FreeBlocks)
         /\ \A b \in Starts : b \in Nat /\ size[b] \in Nat /\ size[b] >= 4
         /\ \A b \in Live : b \in Starts /\ b \notin FreeBlocks /\ asked[b] <= size[b]
<1>1. /\ size \in [Words -> Nat] /\ free \in [Words -> BOOLEAN] /\ list \in Lists
      /\ asked \in [Words -> Nat]
  BY DEF HeapInv, HeapTypes, Lists
<1>2. Tiles(size) /\ Starts = BlocksOf(size)
  BY TilingIsTiles DEF HeapInv
<1>3. Spaced(Starts)
  BY <1>1, <1>2, TilesSpaced
<1>4. Starts \subseteq Words /\ FreeBlocks \subseteq Starts
  BY DEF Starts, FreeBlocks
<1>5. FreeBlocks = {w \in Words : free[w]}
  BY DEF Starts, FreeBlocks, HeapInv, FreeAreBlocks
<1>6. Spaced(FreeBlocks)
  BY <1>3, <1>4 DEF Spaced
<1>7. \A b \in Starts : b \in Nat /\ size[b] \in Nat /\ size[b] >= 4
  BY <1>1, <1>2, <1>4, HeapFacts DEF Tiles
<1>8. \A b \in Live : b \in Starts /\ b \notin FreeBlocks /\ asked[b] <= size[b]
  BY DEF HeapInv, LiveBlocks, FreeBlocks
<1>9. QED
  BY <1>1, <1>2, <1>3, <1>4, <1>5, <1>6, <1>7, <1>8

\* equiv_malloc_init establishes the invariant.
LEMMA HeapInit == Init => HeapInv
<1> SUFFICES ASSUME Init PROVE HeapInv
  OBVIOUS
<1>1. /\ size = [w \in Words |-> IF w = 1 THEN HeapWords - 1 ELSE 0]
      /\ free = [w \in Words |-> w = 1]
      /\ list = [first |-> 1, link |-> [w \in Words |-> IF w \in {2, 3} THEN NULL ELSE WILD]]
      /\ asked = [w \in Words |-> 0] /\ exhausted = FALSE /\ pc = "idle" /\ loc = NoCall
  BY DEF Init
<1>2. 1 \in Words /\ 2 \in Words /\ 3 \in Words /\ HeapWords - 1 \in Nat /\ HeapWords - 1 >= 4
  BY HeapWordsAssumption DEF Words
<1>3. HeapTypes
  BY <1>1, <1>2 DEF HeapTypes, NoCall, Pointers, NULL
<1>4. Starts = {1} /\ FreeBlocks = {1} /\ Live = {} /\ size[1] = HeapWords - 1
  <2>1. \A w \in Words : (size[w] # 0 <=> w = 1) /\ asked[w] = 0
    BY <1>1, <1>2
  <2>2. \A w \in Words : free[w] <=> w = 1
    BY <1>1, Zenon
  <2>3. Starts = {1} /\ Live = {}
    BY <1>2, <2>1 DEF Starts, Live
  <2>4. FreeBlocks = {1}
    BY <1>2, <2>2, <2>3 DEF FreeBlocks
  <2>5. QED
    BY <1>1, <1>2, <2>3, <2>4
<1>5. Tiling
  <2>1. End(1) = HeapWords + 1
    BY <1>4, HeapWordsAssumption DEF End
  <2>2. \A b \in {1} : b = 1
    OBVIOUS
  <2>3. QED
    BY <1>2, <1>4, <2>1, <2>2 DEF Tiling
<1>6. LiveBlocks /\ FreeAreBlocks /\ CallInv
  <2>1. LiveBlocks
    BY <1>4 DEF LiveBlocks
  <2>2. FreeAreBlocks
    <3>1. \A w \in Words : free[w] => w = 1
      BY <1>1, Zenon
    <3>2. QED
      BY <1>2, <1>4, <3>1 DEF FreeAreBlocks
  <2>3. CallInv
    BY <1>1 DEF CallInv, NoCall
  <2>4. QED
    BY <2>1, <2>2, <2>3
<1>7. /\ list.first = 1 /\ PrevFree(list, 1) = NULL /\ NextFree(list, 1) = NULL
      /\ \A w \in Words : list.link[w] # WILD => w \in {1 + 1, 1 + 2}
  BY <1>1, <1>2 DEF PrevFree, NextFree
<1>8. ListInv
  BY <1>4, <1>7, HeapFacts DEF ListInv, Sound
<1>9. RankedInv
  <2> DEFINE r == [w \in Words |-> 0]
  <2>1. r \in [Words -> Int] /\ r[1] = 0
    BY <1>2
  <2>2. Chain(list, {1}, r)
    BY <2>1, <1>7, HeapFacts DEF Chain
  <2>3. Sought(r)
    BY <1>1 DEF Sought
  <2> HIDE DEF r
  <2>4. QED
    BY <2>1, <2>2, <2>3, <1>1, <1>4 DEF RankedInv
<1>10. QED
  BY <1>3, <1>5, <1>6, <1>8, <1>9 DEF HeapInv

-----------------------------------------------------------------------------
(***************************************************************************)
(* Steps that change neither headers nor links.                            *)
(***************************************************************************)
LEMMA Untouched ==
  ASSUME HeapInv, UNCHANGED <<size, free, list, exhausted>>
  PROVE  /\ Tiling' /\ FreeAreBlocks'
         /\ Starts' = Starts /\ FreeBlocks' = FreeBlocks
         /\ (UNCHANGED asked => Live' = Live /\ LiveBlocks')
         /\ (pc # "wild" => ListInv')
<1>1. /\ size' = size /\ free' = free /\ list' = list
  OBVIOUS
<1>2. Starts' = Starts /\ FreeBlocks' = FreeBlocks
  BY <1>1 DEF Starts, FreeBlocks
<1>3. Tiling' /\ FreeAreBlocks'
  BY <1>1, TilingIsTiles DEF HeapInv, FreeAreBlocks
<1>4. UNCHANGED asked => Live' = Live /\ LiveBlocks'
  BY <1>1, <1>2 DEF HeapInv, LiveBlocks, Live
<1>5. pc # "wild" => ListInv'
  BY <1>1, <1>2 DEF HeapInv, ListInv
<1>6. QED
  BY <1>2, <1>3, <1>4, <1>5

\* equiv_malloc up to its loop keeps the invariant: the search begins at the
\* first free block, which is the first of the list.
LEMMA MallocKeeps ==
  ASSUME HeapInv, NEW bytes \in Requests, Malloc(bytes)
  PROVE  HeapInv'
<1>1. /\ pc = "idle" /\ pc' = "search"
      /\ loc' = [NoCall EXCEPT !.needs = Needs(bytes), !.cur = list.first]
      /\ UNCHANGED <<size, free, list, exhausted, asked>>
  BY DEF Malloc
<1>2. bytes \in Nat /\ Needs(bytes) \in Nat /\ Needs(bytes) >= 4
  <2>1. bytes \in Nat
    BY RequestsAssumption
  <2>2. QED
    BY <2>1, NeedsPayload
<1>3. /\ loc'.needs = Needs(bytes) /\ loc'.cur = list.first /\ loc'.best = NULL
      /\ loc'.base = 0 /\ loc'.old = NULL
      /\ loc' = [needs |-> Needs(bytes), cur |-> list.first, best |-> NULL, base |-> NULL, old |-> NULL]
  BY <1>1 DEF NoCall, NULL
<1>4. list.first \in FreeBlocks \cup {NULL} /\ list.first \in Pointers
  BY <1>1, InvFacts DEF HeapInv, ListInv, Sound, Lists
<1>5. HeapTypes'
  BY <1>1, <1>2, <1>3, <1>4 DEF HeapInv, HeapTypes, NULL
<1>6. CallInv'
  BY <1>1, <1>2, <1>3, <1>4, Untouched DEF CallInv
<1>7. RankedInv'
  <2> SUFFICES ASSUME ~ exhausted
               PROVE  \E r \in [Words -> Int] : Chain(list, FreeBlocks, r) /\ Sought(r)'
    BY <1>1, Untouched DEF RankedInv
  <2>1. PICK r \in [Words -> Int] : Chain(list, FreeBlocks, r)
    BY DEF HeapInv, RankedInv
  <2>2. \A b \in FreeBlocks : r[list.first] \in Int /\ r[b] \in Int /\ r[list.first] <= r[b]
    BY <2>1, InvFacts DEF Chain
  <2>3. Sought(r)'
    BY <2>1, <2>2, <1>1, <1>3, Untouched DEF Sought, Chain
  <2>4. QED
    BY <2>1, <2>3
<1>8. QED
  BY <1>1, <1>5, <1>6, <1>7, Untouched DEF HeapInv

\* One iteration of the best-fit search keeps the invariant: the blocks it has
\* passed are those of a higher rank.
LEMMA SearchKeeps ==
  ASSUME HeapInv, Search
  PROVE  HeapInv'
<1> DEFINE c == loc.cur
           x == NextFree(list, c)
<1>1. pc = "search" /\ UNCHANGED <<size, free, list, exhausted, asked>>
  BY DEF Search
<1>2. /\ loc.needs >= 4 /\ c \in FreeBlocks \cup {NULL, WILD} /\ (loc.old # NULL => loc.old \in Live)
      /\ loc.best \in {NULL} \cup {b \in FreeBlocks : size[b] >= loc.needs}
  BY <1>1 DEF HeapInv, CallInv
<1>3. loc \in [needs : Nat, cur : Pointers, best : Words \cup {NULL}, base : Nat, old : Words \cup {NULL}]
  BY DEF HeapInv, HeapTypes
<1>4. CASE c \notin Words
  <2>1. pc' = "wild" /\ loc' = loc
    BY <1>4 DEF Search
  <2>2. exhausted
    BY <1>1, <1>4, InvFacts DEF HeapInv, RankedInv, Sought
  <2>3. HeapTypes'
    BY <1>1, <2>1 DEF HeapInv, HeapTypes
  <2>4. CallInv' /\ RankedInv'
    BY <1>1, <2>1, <2>2 DEF CallInv, RankedInv
  <2>5. QED
    BY <1>1, <2>3, <2>4, Untouched DEF HeapInv
<1>5. CASE c \in Words
  <2>1. /\ c \in FreeBlocks /\ c # NULL
    BY <1>2, <1>5, HeapFacts
  <2>2. /\ loc' = [loc EXCEPT !.best = IF Better(c) THEN c ELSE @,
                              !.cur  = IF x = NULL THEN @ ELSE x]
        /\ pc' = IF x = NULL THEN "found" ELSE "search"
    BY <1>5 DEF Search
  <2>3. x \in FreeBlocks \cup {NULL, WILD}
    BY <1>1, <2>1 DEF HeapInv, ListInv, Sound
  <2>4. /\ loc'.best = (IF Better(c) THEN c ELSE loc.best)
        /\ loc'.cur = (IF x = NULL THEN c ELSE x)
        /\ loc'.needs = loc.needs /\ loc'.base = loc.base /\ loc'.old = loc.old
        /\ loc' \in [needs : Nat, cur : Pointers, best : Words \cup {NULL}, base : Nat, old : Words \cup {NULL}]
    BY <1>3, <1>5, <2>2, <2>3, InvFacts DEF Pointers
  <2> HIDE DEF c, x
  <2>5. HeapTypes'
    BY <1>1, <2>2, <2>4 DEF HeapInv, HeapTypes
  <2>6. CallInv'
    <3>1. loc'.best \in {NULL} \cup {b \in FreeBlocks : size[b] >= loc.needs}
      BY <1>2, <2>1, <2>4 DEF Better
    <3>2. pc' = "search" => loc'.cur \in FreeBlocks \cup {NULL, WILD}
      BY <2>2, <2>3, <2>4
    <3>3. QED
      BY <1>1, <1>2, <2>2, <2>4, <3>1, <3>2, Untouched DEF CallInv
  <2>7. RankedInv'
    <3> SUFFICES ASSUME ~ exhausted
                 PROVE  \E r \in [Words -> Int] : Chain(list, FreeBlocks, r) /\ Sought(r)'
      BY <1>1, <2>2, Untouched DEF RankedInv
    <3>1. PICK r \in [Words -> Int] : Chain(list, FreeBlocks, r) /\ Sought(r)
      BY DEF HeapInv, RankedInv
    <3>2. \A b \in FreeBlocks : r[b] \in Int /\ size[b] \in Nat
      BY InvFacts
    <3>3. /\ x # WILD
          /\ \A b \in FreeBlocks : r[b] = r[c] => b = c
          /\ x # NULL => r[c] < r[x]
          /\ \A b \in FreeBlocks : r[c] < r[b] => x # NULL /\ r[x] <= r[b]
      BY <2>1, <3>1 DEF Chain, x
    <3>4. \A b \in FreeBlocks : r[b] < r[c] /\ size[b] >= loc.needs =>
            loc.best # NULL /\ size[loc.best] <= size[b]
      BY <1>1, <3>1 DEF Sought, c
    <3>5. \A b \in FreeBlocks : (r[b] < r[c] \/ b = c) /\ size[b] >= loc.needs =>
            loc'.best # NULL /\ size[loc'.best] <= size[b]
      BY <1>2, <1>3, <2>1, <2>4, <3>2, <3>4 DEF Better
    <3>6. CASE x = NULL
      <4>1. \A b \in FreeBlocks : r[b] < r[c] \/ b = c
        BY <2>1, <3>2, <3>3, <3>6
      <4>2. Sought(r)'
        BY <1>1, <2>2, <2>4, <3>5, <3>6, <4>1, Untouched DEF Sought
      <4>3. QED
        BY <3>1, <4>2
    <3>7. CASE x # NULL
      <4>1. x \in FreeBlocks
        BY <2>3, <3>3, <3>7
      <4>2. \A b \in FreeBlocks : r[b] < r[x] => r[b] < r[c] \/ b = c
        BY <2>1, <3>2, <3>3, <3>7, <4>1
      <4>3. Sought(r)'
        BY <1>1, <2>2, <2>4, <3>5, <3>7, <4>1, <4>2, Untouched DEF Sought
      <4>4. QED
        BY <3>1, <4>3
    <3>8. QED
      BY <3>6, <3>7
  <2>8. QED
    BY <1>1, <2>5, <2>6, <2>7, Untouched DEF HeapInv
<1>6. QED
  BY <1>4, <1>5

\* Behind the loop no order is needed.
LEMMA SoughtOutside ==
  ASSUME HeapInv, UNCHANGED <<size, free, list, exhausted>>, pc # "wild",
         pc' \notin {"search", "found", "wild"}
  PROVE  RankedInv'
<1>1. SUFFICES ASSUME ~ exhausted
               PROVE  \E r \in [Words -> Int] : Chain(list, FreeBlocks, r) /\ Sought(r)'
  BY Untouched DEF RankedInv
<1>2. PICK r \in [Words -> Int] : Chain(list, FreeBlocks, r)
  BY <1>1 DEF HeapInv, RankedInv
<1>3. Sought(r)'
  BY DEF Sought
<1>4. QED
  BY <1>2, <1>3

\* equiv_malloc that returns NULL changes no block.
LEMMA NotFoundKeeps ==
  ASSUME HeapInv, NotFound
  PROVE  HeapInv'
<1>1. /\ pc = "found" /\ pc' = "idle" /\ loc' = NoCall
      /\ UNCHANGED <<size, free, list, exhausted, asked>>
  BY DEF NotFound
<1>2. HeapTypes' /\ CallInv'
  BY <1>1, InvFacts DEF HeapInv, HeapTypes, CallInv, NoCall, NULL, Pointers
<1>3. QED
  BY <1>1, <1>2, Untouched, SoughtOutside DEF HeapInv

\* The end of coalesce_right changes no block.
LEMMA CoalescedKeeps ==
  ASSUME HeapInv, Coalesced
  PROVE  HeapInv'
<1>1. /\ pc = "coalesce" /\ UNCHANGED <<size, free, list, exhausted, asked>>
      /\ pc' = IF loc.old = NULL THEN "idle" ELSE "absorb"
      /\ loc' = IF loc.old = NULL THEN NoCall ELSE loc
  BY DEF Coalesced
<1>2. HeapTypes'
  BY <1>1, InvFacts DEF HeapInv, HeapTypes, NoCall, NULL, Pointers
<1>3. CallInv'
  <2>1. CASE loc.old = NULL
    BY <1>1, <2>1 DEF CallInv, NoCall
  <2>2. CASE loc.old # NULL
    <3>1. End(loc.old)' = End(loc.old)
      BY <1>1, <2>2 DEF End
    <3>2. QED
      BY <1>1, <2>2, <3>1, Untouched DEF CallInv, HeapInv
  <2>3. QED
    BY <2>1, <2>2
<1>4. QED
  BY <1>1, <1>2, <1>3, Untouched, SoughtOutside DEF HeapInv

\* equiv_realloc before it merges changes no block.
LEMMA ReallocKeeps ==
  ASSUME HeapInv, NEW b \in Live, NEW bytes \in Requests, Realloc(b, bytes)
  PROVE  HeapInv'
<1>1. pc = "idle" /\ UNCHANGED <<size, free, list, exhausted>>
  BY DEF Realloc
<1>2. /\ b \in Starts /\ b \in Words /\ b \in Nat /\ size[b] \in Nat /\ size[b] >= 4
      /\ asked \in [Words -> Nat] /\ End(b) \in Nat
  BY InvFacts DEF End
<1>3. RoundUp(bytes) \in Nat /\ RoundUp(bytes) >= 1
  <2>1. bytes \in Nat /\ bytes >= 1
    BY RequestsAssumption
  <2>2. QED
    BY <2>1, RoundUpPositive
<1>4. CASE size[b] >= RoundUp(bytes)
  <2>1. asked' = [asked EXCEPT ![b] = RoundUp(bytes)] /\ pc' = pc /\ loc' = loc
    BY <1>4 DEF Realloc
  <2>2. HeapTypes' /\ CallInv'
    BY <1>1, <1>2, <1>3, <2>1 DEF HeapInv, HeapTypes, CallInv
  <2>3. Live' = Live
    BY <1>2, <1>3, <2>1 DEF Live
  <2>4. LiveBlocks'
    BY <1>1, <1>2, <1>4, <2>1, <2>3, Untouched DEF HeapInv, LiveBlocks
  <2>5. QED
    BY <1>1, <2>1, <2>2, <2>4, Untouched, SoughtOutside DEF HeapInv
<1>5. CASE ~ (size[b] >= RoundUp(bytes))
  <2>1. /\ asked' = asked
        /\ pc' = IF FreeBehind(b) THEN "coalesce" ELSE "resize"
        /\ loc' = [NoCall EXCEPT !.needs = RoundUp(bytes), !.old = b, !.base = End(b)]
    BY <1>5 DEF Realloc
  <2>2. loc' = [needs |-> RoundUp(bytes), cur |-> NULL, best |-> NULL, base |-> End(b), old |-> b]
    BY <2>1 DEF NoCall
  <2>3. RoundUp(bytes) >= 4
    BY <1>2, <1>3, <1>5
  <2>4. HeapTypes'
    BY <1>1, <1>2, <1>3, <2>1, <2>2 DEF HeapInv, HeapTypes, Pointers, NULL
  <2>5. pc' \in {"coalesce", "resize"} /\ (pc' = "coalesce" => End(b) \in FreeBlocks)
    BY <2>1, InvFacts DEF FreeBehind
  <2>6. End(b)' = End(b)
    BY <1>1 DEF End
  <2>7. CallInv'
    <3>1. /\ loc'.needs = RoundUp(bytes) /\ loc'.base = End(b) /\ loc'.old = b /\ loc'.best = NULL
      BY <2>2
    <3>2. End(loc.old)' = End(b)
      BY <3>1, <1>1 DEF End
    <3>3. FreeBlocks' = FreeBlocks /\ Live' = Live
      BY <1>1, <2>1, Untouched
    <3>4. QED
      BY <1>2, <2>3, <2>5, <3>1, <3>2, <3>3, HeapFacts DEF CallInv
  <2>8. QED
    BY <1>1, <2>1, <2>4, <2>7, Untouched, SoughtOutside DEF HeapInv
<1>6. QED
  BY <1>4, <1>5

\* equiv_realloc that falls back on equiv_malloc begins a search.
LEMMA ResizeElsewhereKeeps ==
  ASSUME HeapInv, ResizeElsewhere
  PROVE  HeapInv'
<1>1. /\ pc = "resize" /\ pc' = "search" /\ UNCHANGED <<size, free, list, exhausted, asked>>
      /\ loc' = [loc EXCEPT !.needs = Needs(4 * @), !.cur = list.first]
  BY DEF ResizeElsewhere
<1>2. loc \in [needs : Nat, cur : Pointers, best : Words \cup {NULL}, base : Nat, old : Words \cup {NULL}]
  BY DEF HeapInv, HeapTypes
<1>3. Needs(4 * loc.needs) \in Nat /\ Needs(4 * loc.needs) >= 4
  BY <1>2, NeedsPayload
<1>4. list.first \in FreeBlocks \cup {NULL} /\ list.first \in Pointers
  BY <1>1, InvFacts DEF HeapInv, ListInv, Sound, Lists
<1>5. /\ loc'.needs = Needs(4 * loc.needs) /\ loc'.cur = list.first /\ loc'.best = loc.best
      /\ loc'.old = loc.old
      /\ loc' \in [needs : Nat, cur : Pointers, best : Words \cup {NULL}, base : Nat, old : Words \cup {NULL}]
      /\ loc.best = NULL
  BY <1>1, <1>2, <1>3, <1>4 DEF HeapInv, CallInv
<1>6. HeapTypes'
  BY <1>1, <1>5 DEF HeapInv, HeapTypes
<1>7. CallInv'
  BY <1>1, <1>3, <1>4, <1>5, Untouched DEF HeapInv, CallInv
<1>8. RankedInv'
  <2> SUFFICES ASSUME ~ exhausted
               PROVE  \E r \in [Words -> Int] : Chain(list, FreeBlocks, r) /\ Sought(r)'
    BY <1>1, Untouched DEF RankedInv
  <2>1. PICK r \in [Words -> Int] : Chain(list, FreeBlocks, r)
    BY DEF HeapInv, RankedInv
  <2>2. \A b \in FreeBlocks : r[list.first] \in Int /\ r[b] \in Int /\ r[list.first] <= r[b]
    BY <2>1, InvFacts DEF Chain
  <2>3. Sought(r)'
    BY <2>1, <2>2, <1>1, <1>5, Untouched DEF Sought, Chain
  <2>4. QED
    BY <2>1, <2>3
<1>9. QED
  BY <1>1, <1>6, <1>7, <1>8, Untouched DEF HeapInv

-----------------------------------------------------------------------------
(***************************************************************************)
(* Steps that do.                                                          *)
(***************************************************************************)
Joined(l, F) == \E r \in [Words -> Int] : Chain(l, F, r)

\* The two list operations, for lists in any order.
LEMMA RemoveKeeps ==
  ASSUME NEW l \in Lists, NEW F, Spaced(F), Sound(l, F), NEW n \in F
  PROVE  LET m == Removed(l, n) IN
         /\ m \in Lists
         /\ ~ RemovesWild(l, n) => Sound(m, F \ {n})
         /\ Joined(l, F) => ~ RemovesWild(l, n)
         /\ Joined(l, F) /\ m.first # NULL => Joined(m, F \ {n})
<1> DEFINE m == Removed(l, n)
<1>1. ~ RemovesWild(l, n) => Sound(m, F \ {n})
  BY RemovedSound
<1>2. Joined(l, F) => ~ RemovesWild(l, n)
  BY HeapFacts DEF Joined, Chain, RemovesWild, Spaced
<1>3. ASSUME Joined(l, F), m.first # NULL PROVE Joined(m, F \ {n})
  <2>1. PICK r \in [Words -> Int] : Chain(l, F, r)
    BY <1>3 DEF Joined
  <2>2. m.first \in F \ {n}
    BY <1>1, <1>2, <1>3 DEF Sound
  <2>3. F # {n}
    BY <2>2
  <2>4. Chain(m, F \ {n}, r)
    BY <2>1, <2>3, RemovedChain
  <2>5. QED
    BY <2>4 DEF Joined
<1>4. m \in Lists
  <2>1. n + 1 \in Words /\ n + 2 \in Words /\ WILD \in Pointers
    BY DEF Spaced, Pointers
  <2>2. PrevFree(l, n) \in Pointers /\ NextFree(l, n) \in Pointers
    BY <2>1 DEF PrevFree, NextFree, Lists
  <2> HIDE DEF m
  <2>3. /\ m.first = IF PrevFree(l, n) = NULL THEN NextFree(l, n) ELSE l.first
        /\ m.link = [w \in Words |->
                       IF w \in {n + 1, n + 2} THEN WILD
                       ELSE IF PrevFree(l, n) # NULL /\ w = PrevFree(l, n) + 2 THEN NextFree(l, n)
                       ELSE IF NextFree(l, n) # NULL /\ w = NextFree(l, n) + 1 THEN PrevFree(l, n)
                       ELSE l.link[w]]
        /\ m = [first |-> m.first, link |-> m.link]
    BY DEF Removed, m
  <2>4. m.first \in Pointers /\ m.link \in [Words -> Pointers]
    BY <2>1, <2>2, <2>3 DEF Lists
  <2>5. QED
    BY <2>3, <2>4 DEF Lists
<1>5. QED
  BY <1>1, <1>2, <1>3, <1>4

\* append_free_block keeps the list sound, and joined if it was joined.
LEMMA AppendKeeps ==
  ASSUME NEW l \in Lists, NEW F, NEW b, b \notin F, Spaced(F \cup {b}), Sound(l, F)
  PROVE  LET m == Appended(l, b) IN
         /\ m \in Lists /\ m.first = b /\ Sound(m, F \cup {b})
         /\ Joined(l, F) => Joined(m, F \cup {b})
<1>1. Appended(l, b) \in Lists /\ Sound(Appended(l, b), F \cup {b})
  BY AppendedSound
<1>2. Joined(l, F) => Joined(Appended(l, b), F \cup {b})
  BY AppendedChain DEF Joined
<1>3. Appended(l, b).first = b
  BY DEF Appended
<1>4. QED
  BY <1>1, <1>2, <1>3

\* What is left to show when no search is in progress.
LEMMA JoinedIsRanked ==
  ASSUME pc' \notin {"search", "found"},
         ~ exhausted' => pc' # "wild" /\ Joined(list', FreeBlocks')
  PROVE  RankedInv'
BY DEF RankedInv, Sought, Joined

\* What trim_block_if_possible does to the headers.
LEMMA TrimFacts ==
  ASSUME HeapInv, NEW b \in Starts, loc.needs >= MINIMUM_PAYLOAD, loc.needs <= size[b], Trim(b)
  PROVE  /\ size' \in [Words -> Nat] /\ Tiling'
         /\ Starts' = (IF Splits(b) THEN Starts \cup {Rest(b)} ELSE Starts)
         /\ Splits(b) => Rest(b) \in Words /\ Rest(b) \notin Starts /\ Rest(b) # b
         /\ size'[b] >= loc.needs
         /\ \A w \in Starts : w # b => size'[w] = size[w]
<1>1. /\ size \in [Words -> Nat] /\ Tiles(size) /\ Starts = BlocksOf(size) /\ Starts \subseteq Words
      /\ size[b] \in Nat /\ loc.needs \in Nat
  BY InvFacts DEF HeapInv, HeapTypes
<1>2. CASE ~ Splits(b)
  <2>1. size' = size
    BY <1>2 DEF Trim
  <2>2. Starts' = Starts /\ Tiling'
    BY <2>1, <1>1, TilingIsTiles
  <2>3. QED
    BY <1>1, <1>2, <2>1, <2>2
<1>3. CASE Splits(b)
  <2> DEFINE k == loc.needs
             e == Rest(b)
             t == size'
  <2>1. /\ k \in Nat /\ k >= MINIMUM_PAYLOAD
        /\ size[b] - k >= METADATA + MINIMUM_PAYLOAD
        /\ b \in BlocksOf(size) /\ e = b + METADATA + k
        /\ t = [size EXCEPT ![b] = k, ![e] = size[b] - k - METADATA]
    BY <1>1, <1>3 DEF Splits, Excess, Trim, Rest
  <2> HIDE DEF k, e, t
  <2>2. e \in Words /\ e \notin BlocksOf(size) /\ e # b
    BY <1>1, <2>1, RestInside
  <2>3. t \in [Words -> Nat] /\ IsSplit(size, t, b, k, e)
    BY <1>1, <2>1, <2>2 DEF IsSplit
  <2>4. Tiles(t) /\ BlocksOf(t) = BlocksOf(size) \cup {e}
    BY <1>1, <2>3, TilesSplit
  <2>5. Starts' = Starts \cup {Rest(b)} /\ Tiling'
    BY <1>1, <2>2, <2>3, <2>4, TilingIsTiles DEF e, t, IsSplit
  <2>6. size'[b] >= loc.needs
    BY <1>1, <2>2, <2>3, <2>4 DEF k, t, IsSplit
  <2>7. \A w \in Starts : w # b => size'[w] = size[w]
    BY <1>1, <2>2, <2>3, <2>4 DEF t, IsSplit
  <2>8. QED
    BY <1>1, <1>3, <2>2, <2>3, <2>4, <2>5, <2>6, <2>7 DEF e, t, IsSplit
<1>4. QED
  BY <1>2, <1>3

\* And merging a block with the one behind it.
LEMMA MergeFacts ==
  ASSUME HeapInv, NEW b \in Starts, NEW n \in Starts, n = End(b),
         size' = [size EXCEPT ![b] = @ + size[n] + METADATA, ![n] = 0]
  PROVE  /\ size' \in [Words -> Nat] /\ Tiling'
         /\ Starts' = Starts \ {n} /\ b # n /\ size'[b] >= size[b]
         /\ \A w \in Starts : w \notin {b, n} => size'[w] = size[w]
<1> DEFINE t == [size EXCEPT ![b] = @ + size[n] + METADATA, ![n] = 0]
<1>1. /\ size \in [Words -> Nat] /\ Tiles(size) /\ Starts = BlocksOf(size) /\ Starts \subseteq Words
      /\ size[b] \in Nat /\ size[n] \in Nat /\ n = b + METADATA + size[b] /\ size' = t
  BY InvFacts DEF End
<1>2. /\ b # n
      /\ t \in [Words -> Nat] /\ Tiles(t) /\ BlocksOf(t) = BlocksOf(size) \ {n}
      /\ t[b] = size[b] + size[n] + METADATA
      /\ \A w \in Words : w \notin {b, n} => t[w] = size[w]
  <2>1. b \in Words /\ n \in Words /\ b < n
    BY <1>1, BlockInside
  <2>2. t \in [Words -> Nat] /\ IsMerge(size, t, b, n)
    BY <1>1, <2>1 DEF IsMerge
  <2> HIDE DEF t
  <2>3. b # n /\ Tiles(t) /\ BlocksOf(t) = BlocksOf(size) \ {n}
    BY <1>1, <2>2, TilesMerge
  <2>. QED
    BY <2>2, <2>3 DEF IsMerge
<1> HIDE DEF t
<1>3. Starts' = Starts \ {n} /\ Tiling'
  BY <1>1, <1>2, TilingIsTiles
<1>4. size'[b] >= size[b]
  BY <1>1, <1>2
<1>5. QED
  BY <1>1, <1>2, <1>3, <1>4

\* equiv_free up to coalesce_right keeps the invariant.
LEMMA FreeKeeps ==
  ASSUME HeapInv, NEW b \in Live, Free(b)
  PROVE  HeapInv'
<1>1. /\ pc \in {"idle", "release"} /\ size' = size
      /\ free' = [free EXCEPT ![b] = TRUE]
      /\ list' = Appended(list, b)
      /\ asked' = [asked EXCEPT ![b] = 0]
      /\ pc' = IF list.first = WILD THEN "wild" ELSE "coalesce"
      /\ loc' = [NoCall EXCEPT !.base = b]
      /\ exhausted' = (exhausted \/ list'.first = NULL)
  BY DEF Free, History
<1>2. /\ b \in Starts /\ b \in Words /\ b \in Nat /\ b # NULL /\ b \notin FreeBlocks
      /\ Starts \subseteq Words
  BY InvFacts, HeapFacts
<1>3. Starts' = Starts /\ Tiling'
  BY <1>1, TilingIsTiles DEF HeapInv
<1>4. /\ free' \in [Words -> BOOLEAN] /\ free'[b]
      /\ \A w \in Words : w # b => free'[w] = free[w]
  BY <1>1, <1>2, InvFacts
<1>5. FreeBlocks' = FreeBlocks \cup {b}
  BY <1>2, <1>3, <1>4 DEF FreeBlocks
<1>6. /\ asked' \in [Words -> Nat] /\ asked'[b] = 0
      /\ \A w \in Words : w # b => asked'[w] = asked[w]
  BY <1>1, <1>2, InvFacts
<1>7. Live' = Live \ {b}
  BY <1>2, <1>6 DEF Live
<1>8. Sound(list, FreeBlocks) /\ list.first # WILD
  <2>1. Sound(list, FreeBlocks)
    BY <1>1 DEF HeapInv, ListInv
  <2>2. QED
    BY <2>1, InvFacts, HeapFacts DEF Sound
<1>9. /\ list' \in Lists /\ list'.first = b /\ Sound(list', FreeBlocks')
      /\ Joined(list, FreeBlocks) => Joined(list', FreeBlocks')
  <2>1. Spaced(FreeBlocks \cup {b})
    BY <1>2, InvFacts DEF Spaced
  <2>2. QED
    BY <2>1, <1>1, <1>2, <1>5, <1>8, InvFacts, AppendKeeps
<1>10. /\ pc' = "coalesce" /\ exhausted' = exhausted /\ exhausted \in BOOLEAN
       /\ loc' = [needs |-> 0, cur |-> NULL, best |-> NULL, base |-> b, old |-> NULL]
  BY <1>1, <1>2, <1>8, <1>9 DEF NoCall, HeapInv, HeapTypes
<1>11. HeapTypes'
  <2>1. loc' \in [needs : Nat, cur : Pointers, best : Words \cup {NULL}, base : Nat, old : Words \cup {NULL}]
    BY <1>2, <1>10 DEF Pointers
  <2>2. QED
    BY <2>1, <1>1, <1>4, <1>6, <1>9, <1>10, InvFacts DEF HeapTypes, Lists
<1>12. LiveBlocks'
  BY <1>1, <1>2, <1>3, <1>4, <1>6, <1>7 DEF HeapInv, LiveBlocks, Live
<1>13. FreeAreBlocks'
  BY <1>1, <1>2, <1>4 DEF HeapInv, FreeAreBlocks, Starts
<1>14. CallInv'
  BY <1>5, <1>10 DEF CallInv
<1>15. ListInv'
  BY <1>9 DEF ListInv
<1>16. RankedInv'
  <2>1. ~ exhausted => Joined(list, FreeBlocks)
    BY DEF HeapInv, RankedInv, Joined
  <2>2. QED
    BY <2>1, <1>9, <1>10, JoinedIsRanked
<1>17. QED
  BY <1>3, <1>11, <1>12, <1>13, <1>14, <1>15, <1>16 DEF HeapInv

\* Merging two blocks, the second one free, as coalesce_right and
\* equiv_realloc do it.
LEMMA Merged ==
  ASSUME HeapInv, pc # "wild", NEW b \in Starts, NEW n \in FreeBlocks, n = End(b),
         size' = [size EXCEPT ![b] = @ + size[n] + METADATA, ![n] = 0],
         free' = [free EXCEPT ![n] = FALSE],
         list' = Removed(list, n),
         exhausted' = (exhausted \/ list'.first = NULL),
         asked' = asked,
         RemovesWild(list, n) => pc' = "wild",
         ~ RemovesWild(list, n) => pc' \notin {"search", "found", "wild"}
  PROVE  /\ Tiling' /\ LiveBlocks' /\ FreeAreBlocks' /\ ListInv' /\ RankedInv'
         /\ size' \in [Words -> Nat] /\ free' \in [Words -> BOOLEAN] /\ list' \in Lists
         /\ asked' \in [Words -> Nat] /\ exhausted' \in BOOLEAN
         /\ b # n /\ Starts' = Starts \ {n} /\ FreeBlocks' = FreeBlocks \ {n} /\ Live' = Live
         /\ \A w \in Live : w # b => size'[w] = size[w]
<1>1. /\ n \in Starts /\ n \in Words /\ Starts \subseteq Words
      /\ \A w \in Live : w \in Starts /\ w # n
  BY InvFacts
<1>2. /\ size' \in [Words -> Nat] /\ Tiling'
      /\ Starts' = Starts \ {n} /\ b # n /\ size'[b] >= size[b]
      /\ \A w \in Starts : w \notin {b, n} => size'[w] = size[w]
  BY <1>1, MergeFacts
<1>3. /\ free' \in [Words -> BOOLEAN] /\ ~ free'[n]
      /\ \A w \in Words : w # n => free'[w] = free[w]
  BY <1>1, InvFacts
<1>4. FreeBlocks' = FreeBlocks \ {n} /\ Live' = Live
  BY <1>1, <1>2, <1>3 DEF FreeBlocks, Live
<1>5. LiveBlocks'
  <2> SUFFICES ASSUME NEW w \in Live
               PROVE  w \in Starts' /\ ~ free'[w] /\ asked'[w] <= size'[w]
    BY <1>4 DEF LiveBlocks
  <2>1. /\ w \in Starts /\ ~ free[w] /\ asked[w] <= size[w] /\ w # n /\ w \in Words
        /\ asked[w] \in Nat /\ size[w] \in Nat /\ size'[w] \in Nat
    BY <1>1, <1>2, InvFacts DEF HeapInv, LiveBlocks
  <2>2. asked[w] <= size'[w]
    BY <2>1, <1>2
  <2>3. QED
    BY <2>1, <2>2, <1>2, <1>3
<1>6. FreeAreBlocks'
  <2> SUFFICES ASSUME NEW w \in Words, free'[w] PROVE w \in Starts'
    BY DEF FreeAreBlocks, Starts
  <2>1. w # n /\ w \in Starts
    BY <1>3 DEF HeapInv, FreeAreBlocks, Starts
  <2>2. QED
    BY <2>1, <1>2
<1>7. /\ list' \in Lists
      /\ ~ RemovesWild(list, n) => Sound(list', FreeBlocks')
      /\ Joined(list, FreeBlocks) => ~ RemovesWild(list, n)
      /\ Joined(list, FreeBlocks) /\ list'.first # NULL => Joined(list', FreeBlocks')
  <2>1. Sound(list, FreeBlocks)
    BY DEF HeapInv, ListInv
  <2>2. QED
    BY <2>1, <1>4, InvFacts, RemoveKeeps
<1>8. ListInv'
  BY <1>7 DEF ListInv
<1>9. exhausted' \in BOOLEAN /\ (~ exhausted' => ~ exhausted /\ list'.first # NULL)
  BY DEF HeapInv, HeapTypes
<1>10. RankedInv'
  <2>1. ~ exhausted => Joined(list, FreeBlocks)
    BY DEF HeapInv, RankedInv, Joined
  <2>2. CASE RemovesWild(list, n)
    BY <2>1, <2>2, <1>7, <1>9 DEF RankedInv
  <2>3. CASE ~ RemovesWild(list, n)
    BY <2>1, <2>3, <1>7, <1>9, JoinedIsRanked
  <2>4. QED
    BY <2>2, <2>3
<1>11. QED
  BY <1>1, <1>2, <1>3, <1>4, <1>5, <1>6, <1>7, <1>8, <1>9, <1>10, InvFacts

\* One merge of coalesce_right keeps the invariant.
LEMMA CoalesceKeeps ==
  ASSUME HeapInv, Coalesce
  PROVE  HeapInv'
<1> DEFINE b == loc.base
           n == End(b)
<1>1. /\ pc = "coalesce" /\ FreeBehind(b)
      /\ size' = [size EXCEPT ![b] = @ + size[n] + METADATA, ![n] = 0]
      /\ free' = [free EXCEPT ![n] = FALSE]
      /\ list' = Removed(list, n)
      /\ pc' = IF RemovesWild(list, n) THEN "wild" ELSE pc
      /\ exhausted' = (exhausted \/ list'.first = NULL)
      /\ asked' = asked /\ loc' = loc
  BY DEF Coalesce, History
<1>2. n \in FreeBlocks
  BY <1>1, InvFacts DEF FreeBehind
<1>3. b \in FreeBlocks /\ b \in Starts /\ (loc.old # NULL => loc.old \in Live /\ End(loc.old) = b)
  BY <1>1, InvFacts DEF HeapInv, CallInv
<1> HIDE DEF b
<1>4. /\ Tiling' /\ LiveBlocks' /\ FreeAreBlocks' /\ ListInv' /\ RankedInv'
      /\ size' \in [Words -> Nat] /\ free' \in [Words -> BOOLEAN] /\ list' \in Lists
      /\ asked' \in [Words -> Nat] /\ exhausted' \in BOOLEAN
      /\ b # n /\ FreeBlocks' = FreeBlocks \ {n} /\ Live' = Live
      /\ \A w \in Live : w # b => size'[w] = size[w]
  BY <1>1, <1>2, <1>3, Merged
<1>5. HeapTypes'
  BY <1>1, <1>4 DEF HeapInv, HeapTypes, Lists
<1>6. CallInv'
  <2>1. loc.old # NULL => End(loc.old)' = End(loc.old)
    BY <1>1, <1>3, <1>4, InvFacts DEF End
  <2>2. loc'.base = b
    BY <1>1 DEF b
  <2>3. QED
    BY <1>1, <1>3, <1>4, <2>1, <2>2 DEF HeapInv, CallInv
<1>7. QED
  BY <1>4, <1>5, <1>6 DEF HeapInv

\* The merge of equiv_realloc with its right neighbour keeps the invariant.
LEMMA AbsorbKeeps ==
  ASSUME HeapInv, Absorb
  PROVE  HeapInv'
<1> DEFINE b == loc.old
           n == loc.base
<1>1. /\ pc = "absorb"
      /\ size' = [size EXCEPT ![b] = @ + size[n] + METADATA, ![n] = 0]
      /\ free' = [free EXCEPT ![n] = FALSE]
      /\ list' = Removed(list, n)
      /\ pc' = IF RemovesWild(list, n) THEN "wild" ELSE "resize"
      /\ exhausted' = (exhausted \/ list'.first = NULL)
      /\ asked' = asked /\ loc' = loc
  BY DEF Absorb, History
<1>2. /\ n \in FreeBlocks /\ b # NULL /\ b \in Live /\ End(b) = n /\ b \in Starts
      /\ loc.needs >= 4 /\ loc.best = NULL
  BY <1>1, InvFacts DEF HeapInv, CallInv
<1> HIDE DEF b, n
<1>3. /\ Tiling' /\ LiveBlocks' /\ FreeAreBlocks' /\ ListInv' /\ RankedInv'
      /\ size' \in [Words -> Nat] /\ free' \in [Words -> BOOLEAN] /\ list' \in Lists
      /\ asked' \in [Words -> Nat] /\ exhausted' \in BOOLEAN /\ Live' = Live
  BY <1>1, <1>2, Merged
<1>4. HeapTypes'
  BY <1>1, <1>3 DEF HeapInv, HeapTypes, Lists
<1>5. CallInv'
  BY <1>1, <1>2, <1>3 DEF CallInv, b
<1>6. QED
  BY <1>3, <1>4, <1>5 DEF HeapInv

\* The list behind trim_block_if_possible.
Trimmed(b) == IF Splits(b) THEN Appended(list, Rest(b)) ELSE list
WithRest(b) == IF Splits(b) THEN FreeBlocks \cup {Rest(b)} ELSE FreeBlocks

\* The list after a trim: the rest, if there is one, was appended.
LEMMA TrimmedKeeps ==
  ASSUME HeapInv, pc # "wild", NEW b \in Starts,
         loc.needs >= MINIMUM_PAYLOAD, loc.needs <= size[b], Trim(b)
  PROVE  /\ Trimmed(b) \in Lists /\ Sound(Trimmed(b), WithRest(b))
         /\ Spaced(WithRest(b)) /\ WithRest(b) \subseteq Starts'
         /\ Splits(b) => Trimmed(b).first = Rest(b)
         /\ ~ exhausted => Joined(Trimmed(b), WithRest(b))
<1>1. /\ list \in Lists /\ Sound(list, FreeBlocks) /\ Spaced(FreeBlocks) /\ FreeBlocks \subseteq Starts
      /\ ~ exhausted => Joined(list, FreeBlocks)
  BY InvFacts DEF HeapInv, ListInv, RankedInv, Joined
<1>2. CASE ~ Splits(b)
  <2>1. Starts' = Starts
    BY <1>2, TrimFacts
  <2>2. QED
    BY <2>1, <1>1, <1>2 DEF Trimmed, WithRest
<1>3. CASE Splits(b)
  <2>1. /\ size' \in [Words -> Nat] /\ Tiling'
        /\ Starts' = Starts \cup {Rest(b)} /\ Rest(b) \notin Starts
    BY <1>3, TrimFacts
  <2>2. Spaced(Starts')
    BY <2>1, TilingIsTiles, TilesSpaced
  <2>3. Spaced(FreeBlocks \cup {Rest(b)}) /\ Rest(b) \notin FreeBlocks
    BY <1>1, <2>1, <2>2 DEF Spaced
  <2>4. LET m == Appended(list, Rest(b)) IN
        /\ m \in Lists /\ m.first = Rest(b) /\ Sound(m, FreeBlocks \cup {Rest(b)})
        /\ Joined(list, FreeBlocks) => Joined(m, FreeBlocks \cup {Rest(b)})
    BY <1>1, <2>3, AppendKeeps
  <2>5. QED
    BY <1>1, <1>3, <2>1, <2>3, <2>4 DEF Trimmed, WithRest
<1>4. QED
  BY <1>2, <1>3

\* equiv_realloc in place keeps the invariant.
LEMMA ResizeInPlaceKeeps ==
  ASSUME HeapInv, ResizeInPlace
  PROVE  HeapInv'
<1> DEFINE b == loc.old
<1>1. /\ pc = "resize" /\ loc.needs <= size[b] /\ Trim(b)
      /\ free' = [w \in Words |-> (Splits(b) /\ w = Rest(b)) \/ free[w]]
      /\ list' = Trimmed(b)
      /\ asked' = [asked EXCEPT ![b] = loc.needs]
      /\ pc' = IF Splits(b) /\ list.first = WILD THEN "wild" ELSE "idle"
      /\ loc' = NoCall
      /\ exhausted' = (exhausted \/ list'.first = NULL)
  BY DEF ResizeInPlace, History, Trimmed
<1>2. /\ b \in Live /\ b \in Starts /\ b \in Words /\ loc.needs >= 4 /\ loc.needs \in Nat
      /\ b \notin FreeBlocks /\ Starts \subseteq Words /\ exhausted \in BOOLEAN
  BY <1>1, InvFacts DEF HeapInv, CallInv, HeapTypes
<1> HIDE DEF b
<1>3. /\ size' \in [Words -> Nat] /\ Tiling'
      /\ Starts' = (IF Splits(b) THEN Starts \cup {Rest(b)} ELSE Starts)
      /\ Splits(b) => Rest(b) \in Words /\ Rest(b) \notin Starts /\ Rest(b) # b
      /\ size'[b] >= loc.needs
      /\ \A w \in Starts : w # b => size'[w] = size[w]
  BY <1>1, <1>2, TrimFacts
<1>4. /\ list' \in Lists /\ Sound(list', WithRest(b))
      /\ Splits(b) => list'.first = Rest(b)
      /\ ~ exhausted => Joined(list', WithRest(b))
  BY <1>1, <1>2, TrimmedKeeps
<1>5. free' \in [Words -> BOOLEAN] /\ \A w \in Words : free'[w] <=> (Splits(b) /\ w = Rest(b)) \/ free[w]
  BY <1>1, <1>2, InvFacts
<1>6. FreeBlocks' = WithRest(b)
  BY <1>2, <1>3, <1>5 DEF FreeBlocks, WithRest
<1>7. /\ asked' \in [Words -> Nat] /\ asked'[b] = loc.needs
      /\ \A w \in Words : w # b => asked'[w] = asked[w]
  BY <1>1, <1>2, InvFacts
<1>8. Live' = Live
  BY <1>2, <1>7 DEF Live
<1>9. LiveBlocks'
  <2> SUFFICES ASSUME NEW w \in Live
               PROVE  w \in Starts' /\ ~ free'[w] /\ asked'[w] <= size'[w]
    BY <1>8 DEF LiveBlocks
  <2>1. w \in Starts /\ w \in Words /\ ~ free[w] /\ asked[w] <= size[w]
    BY <1>2 DEF HeapInv, LiveBlocks
  <2>2. w \in Starts' /\ ~ free'[w]
    BY <2>1, <1>3, <1>5
  <2>3. asked'[w] <= size'[w]
    BY <2>1, <1>2, <1>3, <1>7
  <2>4. QED
    BY <2>2, <2>3
<1>10. FreeAreBlocks'
  <2> SUFFICES ASSUME NEW w \in Words, free'[w] PROVE w \in Starts'
    BY DEF FreeAreBlocks, Starts
  <2>1. (Splits(b) /\ w = Rest(b)) \/ w \in Starts
    BY <1>5 DEF HeapInv, FreeAreBlocks, Starts
  <2>2. QED
    BY <2>1, <1>3
<1>11. pc' = "idle"
  <2>1. list.first # WILD
    BY <1>1, InvFacts, HeapFacts DEF HeapInv, ListInv, Sound
  <2>2. QED
    BY <2>1, <1>1
<1>12. HeapTypes'
  BY <1>1, <1>3, <1>4, <1>5, <1>7, <1>11, <1>2 DEF HeapTypes, Lists, NoCall, Pointers, NULL
<1>13. CallInv' /\ ListInv'
  BY <1>1, <1>4, <1>6, <1>11 DEF CallInv, ListInv, NoCall
<1>14. RankedInv'
  BY <1>1, <1>4, <1>6, <1>11, JoinedIsRanked
<1>15. QED
  BY <1>3, <1>9, <1>10, <1>12, <1>13, <1>14 DEF HeapInv

\* allocate_block keeps the invariant: the rest is appended before the block
\* found is removed.
LEMMA AllocateKeeps ==
  ASSUME HeapInv, Allocate
  PROVE  HeapInv'
<1> DEFINE b == loc.best
<1>1. /\ pc = "found" /\ b # NULL /\ Trim(b)
      /\ free' = [w \in Words |-> IF w = b THEN FALSE ELSE (Splits(b) /\ w = Rest(b)) \/ free[w]]
      /\ list' = Removed(Trimmed(b), b)
      /\ asked' = [asked EXCEPT ![b] = loc.needs]
      /\ pc' = IF RemovesWild(Trimmed(b), b) THEN "wild"
               ELSE IF loc.old = NULL THEN "idle" ELSE "release"
      /\ loc' = (IF loc.old = NULL THEN NoCall ELSE loc)
      /\ exhausted' = (exhausted \/ list'.first = NULL)
  BY DEF Allocate, History, Trimmed
<1>2. /\ b \in FreeBlocks /\ b \in Starts /\ b \in Words /\ size[b] >= loc.needs
      /\ loc.needs >= 4 /\ loc.needs \in Nat /\ size[b] \in Nat
      /\ Starts \subseteq Words /\ exhausted \in BOOLEAN
      /\ loc.old # NULL => loc.old \in Live
  BY <1>1, InvFacts DEF HeapInv, CallInv, HeapTypes
<1> HIDE DEF b
<1>3. /\ size' \in [Words -> Nat] /\ Tiling'
      /\ Starts' = (IF Splits(b) THEN Starts \cup {Rest(b)} ELSE Starts)
      /\ Splits(b) => Rest(b) \in Words /\ Rest(b) \notin Starts /\ Rest(b) # b
      /\ size'[b] >= loc.needs
      /\ \A w \in Starts : w # b => size'[w] = size[w]
  BY <1>1, <1>2, TrimFacts
<1>4. /\ Trimmed(b) \in Lists /\ Sound(Trimmed(b), WithRest(b)) /\ Spaced(WithRest(b))
      /\ ~ exhausted => Joined(Trimmed(b), WithRest(b))
      /\ b \in WithRest(b)
  BY <1>1, <1>2, TrimmedKeeps DEF WithRest
<1>5. /\ free' \in [Words -> BOOLEAN]
      /\ \A w \in Words : free'[w] <=> w # b /\ ((Splits(b) /\ w = Rest(b)) \/ free[w])
  BY <1>1, <1>2, InvFacts
<1>6. FreeBlocks' = WithRest(b) \ {b}
  BY <1>2, <1>3, <1>5 DEF FreeBlocks, WithRest
<1>7. /\ asked' \in [Words -> Nat] /\ asked'[b] = loc.needs
      /\ \A w \in Words : w # b => asked'[w] = asked[w]
  BY <1>1, <1>2, InvFacts
<1>8. Live' = Live \cup {b}
  BY <1>2, <1>7 DEF Live
<1>9. LiveBlocks'
  <2> SUFFICES ASSUME NEW w \in Live'
               PROVE  w \in Starts' /\ ~ free'[w] /\ asked'[w] <= size'[w]
    BY DEF LiveBlocks
  <2>1. CASE w = b
    BY <2>1, <1>2, <1>3, <1>5, <1>7
  <2>2. CASE w # b
    <3>1. w \in Starts /\ w \in Words /\ ~ free[w] /\ asked[w] <= size[w]
      BY <2>2, <1>2, <1>8 DEF HeapInv, LiveBlocks
    <3>2. w \in Starts' /\ ~ free'[w]
      BY <3>1, <1>3, <1>5
    <3>3. asked'[w] <= size'[w]
      BY <3>1, <2>2, <1>3, <1>7
    <3>4. QED
      BY <3>2, <3>3
  <2>3. QED
    BY <2>1, <2>2
<1>10. FreeAreBlocks'
  <2> SUFFICES ASSUME NEW w \in Words, free'[w] PROVE w \in Starts'
    BY DEF FreeAreBlocks, Starts
  <2>1. (Splits(b) /\ w = Rest(b)) \/ w \in Starts
    BY <1>5 DEF HeapInv, FreeAreBlocks, Starts
  <2>2. QED
    BY <2>1, <1>3
<1>11. /\ list' \in Lists
       /\ ~ RemovesWild(Trimmed(b), b) => Sound(list', FreeBlocks')
       /\ Joined(Trimmed(b), WithRest(b)) => ~ RemovesWild(Trimmed(b), b)
       /\ Joined(Trimmed(b), WithRest(b)) /\ list'.first # NULL => Joined(list', FreeBlocks')
  BY <1>1, <1>4, <1>6, RemoveKeeps
<1>12. HeapTypes'
  <2>1. loc' \in [needs : Nat, cur : Pointers, best : Words \cup {NULL}, base : Nat, old : Words \cup {NULL}]
    BY <1>1 DEF HeapInv, HeapTypes, NoCall, Pointers, NULL
  <2>2. exhausted' \in BOOLEAN /\ pc' \in {"wild", "idle", "release"}
    BY <1>1, <1>2
  <2>3. QED
    BY <2>1, <2>2, <1>3, <1>5, <1>7, <1>11 DEF HeapTypes, Lists
<1>13. CallInv'
  <2>1. CASE loc.old = NULL
    BY <2>1, <1>1 DEF CallInv, NoCall
  <2>2. CASE loc.old # NULL
    BY <2>2, <1>1, <1>2, <1>8 DEF CallInv
  <2>3. QED
    BY <2>1, <2>2
<1>14. ListInv'
  BY <1>1, <1>11 DEF ListInv
<1>15. RankedInv'
  <2>1. ASSUME ~ exhausted' PROVE pc' # "wild" /\ Joined(list', FreeBlocks')
    BY <2>1, <1>1, <1>4, <1>11
  <2>2. QED
    BY <2>1, <1>1, JoinedIsRanked
<1>16. QED
  BY <1>3, <1>9, <1>10, <1>12, <1>13, <1>14, <1>15 DEF HeapInv

-----------------------------------------------------------------------------
(***************************************************************************)
(* The theorems.                                                           *)
(***************************************************************************)
LEMMA HeapStep == HeapInv /\ [Next]_vars => HeapInv'
<1> SUFFICES ASSUME HeapInv, [Next]_vars PROVE HeapInv'
  OBVIOUS
<1>1. CASE UNCHANGED vars
  <2>1. UNCHANGED <<size, free, list, exhausted, asked, pc, loc>>
    BY <1>1 DEF vars
  <2>2. HeapTypes' /\ CallInv' /\ ListInv' /\ RankedInv'
    BY <2>1, Untouched DEF HeapInv, HeapTypes, CallInv, ListInv, RankedInv, Sought, End
  <2>3. QED
    BY <2>1, <2>2, Untouched DEF HeapInv
<1>2. CASE pc = "idle" /\ Call
  BY <1>2, MallocKeeps, FreeKeeps, ReallocKeeps DEF Call
<1>3. CASE Internal
  <2>1. CASE pc = "release" /\ Free(loc.old)
    <3>1. loc.old \in Live
      BY <2>1 DEF HeapInv, CallInv
    <3>2. QED
      BY <2>1, <3>1, FreeKeeps
  <2>2. QED
    BY <1>3, <2>1, SearchKeeps, NotFoundKeeps, AllocateKeeps, CoalesceKeeps, CoalescedKeeps,
       AbsorbKeeps, ResizeInPlaceKeeps, ResizeElsewhereKeeps DEF Internal
<1>4. QED
  BY <1>1, <1>2, <1>3 DEF Next

\* The heap of equiv-malloc.c keeps its invariant through any sequence of
\* calls and of the steps of each.
THEOREM HeapInvariant == Spec => []HeapInv
<1>1. QED
  BY HeapInit, HeapStep, PTL DEF Spec

\* No word of the heap is lost or shared by any sequence of splits and merges.
THEOREM BlocksTile == Spec => []Tiling
<1>1. HeapInv => Tiling
  BY DEF HeapInv
<1>2. QED
  BY <1>1, HeapInvariant, PTL

\* What a client owns is a used block that is large enough.
THEOREM ClientsOwnUsedBlocks == Spec => []LiveBlocks
<1>1. HeapInv => LiveBlocks
  BY DEF HeapInv
<1>2. QED
  BY <1>1, HeapInvariant, PTL

\* Until memory is exhausted, the links join exactly the free blocks, both
\* ways, and no wild pointer is followed.
THEOREM ListIsExact == Spec => []FreeListExact
<1>1. HeapInv => FreeListExact
  <2> SUFFICES ASSUME HeapInv, ~ exhausted
               PROVE  /\ pc # "wild"
                      /\ list.first \in FreeBlocks /\ PrevFree(list, list.first) = NULL
                      /\ \A b \in FreeBlocks :
                           /\ NextFree(list, b) \in FreeBlocks \cup {NULL}
                           /\ NextFree(list, b) # NULL => PrevFree(list, NextFree(list, b)) = b
                           /\ b # list.first => /\ PrevFree(list, b) \in FreeBlocks
                                                /\ NextFree(list, PrevFree(list, b)) = b
    BY DEF FreeListExact
  <2>1. pc # "wild" /\ Sound(list, FreeBlocks)
    BY DEF HeapInv, RankedInv, ListInv
  <2>2. PICK r \in [Words -> Int] : Chain(list, FreeBlocks, r)
    BY DEF HeapInv, RankedInv
  <2>3. QED
    BY <2>1, <2>2 DEF Sound, Chain
<1>2. QED
  BY <1>1, HeapInvariant, PTL

\* Until then equiv_malloc finds a smallest of the blocks that are large
\* enough, if there is one.
THEOREM SearchIsBestFit == Spec => []BestFit
<1>1. HeapInv => BestFit
  <2> SUFFICES ASSUME HeapInv, pc = "found", ~ exhausted
               PROVE  LET fits == {b \in Starts : free[b] /\ size[b] >= loc.needs} IN
                      IF loc.best = NULL THEN fits = {}
                      ELSE loc.best \in fits /\ \A b \in fits : size[loc.best] <= size[b]
    BY DEF BestFit
  <2>1. \A b \in FreeBlocks : size[b] >= loc.needs => loc.best # NULL /\ size[loc.best] <= size[b]
    BY DEF HeapInv, RankedInv, Sought
  <2>2. loc.best \in {NULL} \cup {b \in FreeBlocks : size[b] >= loc.needs}
    BY DEF HeapInv, CallInv
  <2>3. {b \in Starts : free[b] /\ size[b] >= loc.needs} = {b \in FreeBlocks : size[b] >= loc.needs}
    BY DEF FreeBlocks
  <2>4. QED
    BY <2>1, <2>2, <2>3
<1>2. QED
  BY <1>1, HeapInvariant, PTL

-----------------------------------------------------------------------------
(***************************************************************************)
(* The heap implements Allocator.                                          *)
(***************************************************************************)
Piece(a, b) == [at |-> b + METADATA, len |-> a[b]]
Owned(a, L) == {Piece(a, b) : b \in L}

\* Pieces of different blocks do not overlap.
LEMMA PiecesFit ==
  ASSUME NEW s \in [Words -> Nat], Tiles(s), NEW a \in [Words -> Nat], NEW L \in SUBSET BlocksOf(s),
         \A b \in L : a[b] # 0 /\ a[b] <= s[b]
  PROVE  /\ \A b \in L : Piece(a, b) \in Abs!Pieces
         /\ \A b, c \in L : b # c => Abs!Disjoint(Piece(a, b), Piece(a, c))
<1>1. \A b \in L : /\ b \in Nat /\ 1 <= b /\ s[b] \in Nat /\ s[b] >= 4 /\ a[b] \in Nat
                   /\ a[b] >= 1 /\ a[b] <= s[b]
                   /\ b + 1 + s[b] <= HeapWords + 1
                   /\ \A c \in L : b < c => b + 1 + s[b] <= c
  <2> SUFFICES ASSUME NEW b \in L
               PROVE  /\ b \in Nat /\ 1 <= b /\ s[b] \in Nat /\ s[b] >= 4 /\ a[b] \in Nat
                      /\ a[b] >= 1 /\ a[b] <= s[b]
                      /\ b + 1 + s[b] <= HeapWords + 1
                      /\ \A c \in L : b < c => b + 1 + s[b] <= c
    OBVIOUS
  <2>1. b \in BlocksOf(s) /\ b \in Words
    BY DEF BlocksOf
  <2>2. b \in Nat /\ 1 <= b /\ s[b] \in Nat /\ a[b] \in Nat /\ a[b] >= 1 /\ a[b] <= s[b] /\ HeapWords \in Nat
    BY <2>1, HeapFacts DEF Words
  <2>3. s[b] >= 4 /\ b + 1 + s[b] \in BlocksOf(s) \cup {HeapWords + 1}
    BY <2>1 DEF Tiles
  <2>4. b + 1 + s[b] <= HeapWords + 1
    BY <2>2, <2>3 DEF BlocksOf, Words
  <2>5. \A c \in L : b < c => b + 1 + s[b] <= c
    BY <2>1 DEF Tiles
  <2>6. QED
    BY <2>2, <2>3, <2>4, <2>5
<1>2. HeapWords \in Nat
  BY HeapFacts
<1>3. ASSUME NEW b \in L PROVE Piece(a, b) \in Abs!Pieces
  <2>1. b + 1 \in 1..HeapWords /\ a[b] \in 1..HeapWords /\ b + 1 + a[b] <= HeapWords + 1
    BY <1>1, <1>2
  <2>2. QED
    BY <2>1 DEF Piece, Abs!Pieces
<1>4. ASSUME NEW b \in L, NEW c \in L, b # c PROVE Abs!Disjoint(Piece(a, b), Piece(a, c))
  <2>1. b + 1 + a[b] <= c + 1 \/ c + 1 + a[c] <= b + 1
    BY <1>1, <1>4
  <2>2. QED
    BY <2>1 DEF Piece, Abs!Disjoint
<1>5. QED
  BY <1>3, <1>4

\* What clients own are pieces of the abstract heap, and disjoint.
LEMMA OwnedNow ==
  ASSUME HeapInv
  PROVE  /\ asked \in [Words -> Nat] /\ Live \subseteq Words
         /\ \A b \in Live : Piece(asked, b) \in Abs!Pieces
         /\ \A b, c \in Live : b # c => Abs!Disjoint(Piece(asked, b), Piece(asked, c))
<1>1. /\ size \in [Words -> Nat] /\ Tiles(size) /\ asked \in [Words -> Nat]
      /\ Live \in SUBSET BlocksOf(size) /\ Live \subseteq Words
      /\ \A b \in Live : asked[b] # 0 /\ asked[b] <= size[b]
  BY InvFacts DEF Live
<1>2. QED
  BY <1>1, PiecesFit

\* The same after the step.
LEMMA OwnedNext ==
  ASSUME HeapInv'
  PROVE  /\ asked' \in [Words -> Nat] /\ Live' \subseteq Words
         /\ \A b \in Live' : Piece(asked', b) \in Abs!Pieces
         /\ \A b, c \in Live' : b # c => Abs!Disjoint(Piece(asked', b), Piece(asked', c))
<1>1. size' \in [Words -> Nat] /\ asked' \in [Words -> Nat] /\ Tiling' /\ LiveBlocks'
  BY DEF HeapInv, HeapTypes
<1>2. Tiles(size') /\ Starts' = BlocksOf(size')
  BY <1>1, TilingIsTiles
<1>3. /\ Live' \in SUBSET BlocksOf(size') /\ Live' \subseteq Words
      /\ \A b \in Live' : asked'[b] # 0 /\ asked'[b] <= size'[b]
  BY <1>1, <1>2 DEF LiveBlocks, Live
<1>4. QED
  BY <1>1, <1>2, <1>3, PiecesFit

\* A block handed out, a block given back, a block with another size.
LEMMA GiveStep ==
  ASSUME HeapInv, HeapInv', NEW b \in Words, b \notin Live, Live' = Live \cup {b},
         \A c \in Words : c # b => asked'[c] = asked[c]
  PROVE  Abs!Give
<1> DEFINE p == Piece(asked', b)
<1>1. \A c \in Live : Piece(asked', c) = Piece(asked, c)
  BY OwnedNow DEF Piece
<1>2. p \in Abs!Pieces /\ \A c \in Live : Abs!Disjoint(p, Piece(asked, c))
  BY <1>1, OwnedNext
<1>3. Owned(asked', Live') = Owned(asked, Live) \cup {p}
  BY <1>1 DEF Owned
<1> HIDE DEF p
<1>4. QED
  BY <1>2, <1>3 DEF Abs!Give, Owned, Piece

\* A client that gives back a block: Take of the abstract heap.
LEMMA TakeStep ==
  ASSUME HeapInv, NEW b \in Live, Live' = Live \ {b},
         \A c \in Words : c # b => asked'[c] = asked[c]
  PROVE  Abs!Take
<1> DEFINE p == Piece(asked, b)
<1>1. \A c \in Live : c # b => Piece(asked', c) = Piece(asked, c)
  BY OwnedNow DEF Piece
<1>2. \A c \in Live : c # b => Piece(asked, c) # p
  <2>1. \A c \in Live : c \in Nat /\ Piece(asked, c).at = c + 1
    BY OwnedNow, HeapFacts DEF Piece
  <2>2. QED
    BY <2>1
<1>3. Owned(asked', Live') = Owned(asked, Live) \ {p} /\ p \in Owned(asked, Live)
  BY <1>1, <1>2 DEF Owned
<1> HIDE DEF p
<1>4. QED
  BY <1>3 DEF Abs!Take, Owned, Piece

\* A client whose block grows or shrinks in place: Resize of the abstract heap.
LEMMA ResizeStep ==
  ASSUME HeapInv, HeapInv', NEW b \in Live, Live' = Live,
         \A c \in Words : c # b => asked'[c] = asked[c]
  PROVE  Abs!Resize
<1> DEFINE p == Piece(asked, b)
           r == Piece(asked', b)
<1>1. \A c \in Live : c # b => Piece(asked', c) = Piece(asked, c)
  BY OwnedNow DEF Piece
<1>2. \A c \in Live : c # b => Piece(asked, c) # p
  <2>1. \A c \in Live : c \in Nat /\ Piece(asked, c).at = c + 1
    BY OwnedNow, HeapFacts DEF Piece
  <2>2. QED
    BY <2>1
<1>3. Owned(asked', Live') = (Owned(asked, Live) \ {p}) \cup {r} /\ p \in Owned(asked, Live)
  BY <1>1, <1>2 DEF Owned
<1>4. r \in Abs!Pieces /\ \A c \in Live : c # b => Abs!Disjoint(r, Piece(asked, c))
  BY <1>1, OwnedNext
<1>5. \A q \in Owned(asked, Live) \ {p} : Abs!Disjoint(r, q)
  BY <1>4 DEF Owned
<1>6. asked'[b] \in 1..HeapWords /\ r = [p EXCEPT !.len = asked'[b]]
  BY <1>4 DEF Piece, Abs!Pieces
<1> HIDE DEF p, r
<1>7. QED
  BY <1>3, <1>4, <1>5, <1>6 DEF Abs!Resize, Owned, Piece

Shown == {[at |-> b + METADATA, len |-> asked[b]] : b \in Live}

\* Every step hands out, takes back or resizes one piece, or changes none.
LEMMA AllocatorStep ==
  ASSUME HeapInv, HeapInv', [Next]_vars
  PROVE  Abs!Give \/ Abs!Take \/ Abs!Resize \/ Shown' = Shown
<1>1. asked' = asked => Shown' = Shown
  BY DEF Shown, Live
<1>2. CASE UNCHANGED vars
  BY <1>1, <1>2 DEF vars
<1>3. ASSUME NEW bytes \in Requests, Malloc(bytes) PROVE asked' = asked
  BY <1>3 DEF Malloc
<1>4. ASSUME NEW b \in Live, Free(b) PROVE Abs!Take
  <2>1. asked' = [asked EXCEPT ![b] = 0]
    BY <1>4 DEF Free
  <2>2. Live' = Live \ {b} /\ \A c \in Words : c # b => asked'[c] = asked[c]
    BY <2>1, OwnedNow DEF Live
  <2>3. QED
    BY <2>2, TakeStep
<1>5. ASSUME NEW b \in Live, NEW bytes \in Requests, Realloc(b, bytes)
      PROVE  Abs!Resize \/ asked' = asked
  <2>1. CASE size[b] >= RoundUp(bytes)
    <3>1. asked' = [asked EXCEPT ![b] = RoundUp(bytes)]
      BY <1>5, <2>1 DEF Realloc
    <3>2. RoundUp(bytes) \in Nat /\ RoundUp(bytes) >= 1
      <4>1. bytes \in Nat /\ bytes >= 1
        BY RequestsAssumption
      <4>2. QED
        BY <4>1, RoundUpPositive
    <3>3. Live' = Live /\ \A c \in Words : c # b => asked'[c] = asked[c]
      BY <3>1, <3>2, OwnedNow DEF Live
    <3>4. QED
      BY <3>3, ResizeStep
  <2>2. CASE ~ (size[b] >= RoundUp(bytes))
    BY <1>5, <2>2 DEF Realloc
  <2>3. QED
    BY <2>1, <2>2
<1>6. ASSUME Search \/ NotFound \/ Coalesce \/ Coalesced \/ Absorb \/ ResizeElsewhere
      PROVE  asked' = asked
  BY <1>6 DEF Search, NotFound, Coalesce, Coalesced, Absorb, ResizeElsewhere
<1>7. ASSUME Allocate PROVE Abs!Give
  <2> DEFINE b == loc.best
  <2>1. /\ b \in FreeBlocks /\ loc.needs \in Nat /\ loc.needs >= 4
        /\ asked' = [asked EXCEPT ![b] = loc.needs]
    BY <1>7 DEF Allocate, HeapInv, HeapTypes, CallInv
  <2>2. b \in Words /\ b \notin Live /\ asked \in [Words -> Nat]
    BY <2>1, InvFacts
  <2> HIDE DEF b
  <2>3. Live' = Live \cup {b} /\ \A c \in Words : c # b => asked'[c] = asked[c]
    BY <2>1, <2>2 DEF Live
  <2>4. QED
    BY <2>2, <2>3, GiveStep
<1>8. ASSUME ResizeInPlace PROVE Abs!Resize
  <2> DEFINE b == loc.old
  <2>1. /\ b \in Live /\ loc.needs \in Nat /\ loc.needs >= 4
        /\ asked' = [asked EXCEPT ![b] = loc.needs]
    BY <1>8 DEF ResizeInPlace, HeapInv, HeapTypes, CallInv
  <2> HIDE DEF b
  <2>2. Live' = Live /\ \A c \in Words : c # b => asked'[c] = asked[c]
    BY <2>1, OwnedNow DEF Live
  <2>3. QED
    BY <2>1, <2>2, ResizeStep
<1>9. CASE pc = "release" /\ Free(loc.old)
  <2>1. loc.old \in Live
    BY <1>9 DEF HeapInv, CallInv
  <2>2. QED
    BY <1>4, <1>9, <2>1
<1>10. CASE pc = "idle" /\ Call
  BY <1>1, <1>3, <1>4, <1>5, <1>10 DEF Call
<1>11. CASE Internal
  BY <1>1, <1>6, <1>7, <1>8, <1>9, <1>11 DEF Internal
<1>12. QED
  BY <1>2, <1>10, <1>11 DEF Next

\* What clients of equiv_malloc, equiv_free and equiv_realloc see is an
\* allocator, also after memory was exhausted: the pieces they own lie in the
\* heap and never overlap.
THEOREM HeapIsAnAllocator == Spec => ImplementsAllocator
<1>1. Init => Abs!Init
  BY DEF Init, Live, Abs!Init
<1>2. HeapInv /\ HeapInv' /\ [Next]_vars =>
        [Abs!Give \/ Abs!Take \/ Abs!Resize]_{[at |-> b + METADATA, len |-> asked[b]] : b \in Live}
  BY AllocatorStep DEF Shown
<1>3. QED
  BY <1>1, <1>2, HeapInvariant, PTL DEF Spec, ImplementsAllocator, Abs!Spec

-----------------------------------------------------------------------------
(***************************************************************************)
(* The statistics.  Payloads do not overlap, so that the words in those of *)
(* a set of blocks are as many as the sum of their sizes.                  *)
(***************************************************************************)
Inside(s, B) == {w \in Words : \E b \in B : b < w /\ w < b + METADATA + s[b]}

\* Blocks and words are finitely many.
LEMMA FiniteWords ==
  ASSUME NEW S \in SUBSET Words
  PROVE  IsFiniteSet(S) /\ Cardinality(S) \in Nat
<1>1. IsFiniteSet(Words)
  BY FS_Interval, HeapFacts DEF Words
<1>. QED
  BY <1>1, FS_Subset, FS_CardinalityType

\* A block more counts its payload more.
LEMMA OneBlockMore ==
  ASSUME NEW s \in [Words -> Nat], Tiles(s), NEW B \in SUBSET BlocksOf(s),
         NEW b \in BlocksOf(s), b \notin B
  PROVE  /\ Cardinality(B) \in Nat /\ Cardinality(Inside(s, B)) \in Nat
         /\ Cardinality(B \cup {b}) = Cardinality(B) + 1
         /\ Cardinality(Inside(s, B \cup {b})) = Cardinality(Inside(s, B)) + s[b]
<1>1. B \in SUBSET Words /\ Inside(s, B) \in SUBSET Words
  BY DEF BlocksOf, Inside
<1>2. /\ IsFiniteSet(B) /\ Cardinality(B) \in Nat
      /\ IsFiniteSet(Inside(s, B)) /\ Cardinality(Inside(s, B)) \in Nat
  BY <1>1, FiniteWords
<1>3. Cardinality(B \cup {b}) = Cardinality(B) + 1
  BY <1>2, FS_AddElement
<1> DEFINE body == (b + 1)..(b + s[b])
<1>4. b \in Nat /\ s[b] \in Nat /\ s[b] >= 4 /\ b + s[b] <= HeapWords /\ HeapWords \in Nat
  BY BlockInside
<1>5. IsFiniteSet(body) /\ Cardinality(body) = s[b]
  <2>1. PICK lo, hi : lo = b + 1 /\ hi = b + s[b]
    OBVIOUS
  <2>2. lo \in Int /\ hi \in Int /\ ~ (lo > hi) /\ hi - lo + 1 = s[b] /\ body = lo..hi
    BY <1>4, <2>1
  <2>3. IsFiniteSet(lo..hi) /\ Cardinality(lo..hi) = s[b]
    BY <2>2, FS_Interval, Zenon
  <2>. QED
    BY <2>2, <2>3, Zenon
<1>6. Inside(s, B \cup {b}) = Inside(s, B) \cup body
  <2>1. body = {w \in Words : b < w /\ w < b + METADATA + s[b]}
    BY <1>4 DEF Words
  <2> HIDE DEF body
  <2>. QED
    BY <2>1 DEF Inside
<1>7. Inside(s, B) \cap body = {}
  <2> SUFFICES ASSUME NEW w \in Words, NEW c \in B, c < w, w < c + METADATA + s[c], w \in body
               PROVE  FALSE
    BY DEF Inside
  <2>1. /\ c \in BlocksOf(s) /\ c # b /\ c \in Nat /\ s[c] \in Nat /\ w \in Nat
        /\ b + 1 <= w /\ w <= b + s[b]
    BY <1>4, BlockInside, HeapFacts
  <2>2. CASE c < b
    BY <1>4, <2>1, <2>2 DEF Tiles
  <2>3. CASE b < c
    BY <1>4, <2>1, <2>3 DEF Tiles
  <2>. QED
    BY <1>4, <2>1, <2>2, <2>3
<1> HIDE DEF body
<1>8. Cardinality(Inside(s, B) \cup body) = Cardinality(Inside(s, B)) + s[b]
  <2>1. Cardinality(Inside(s, B) \cap body) = 0
    BY <1>7, FS_EmptySet
  <2>2. Cardinality(Inside(s, B) \cup body)
          = Cardinality(Inside(s, B)) + Cardinality(body) - Cardinality(Inside(s, B) \cap body)
    BY <1>2, <1>5, FS_Union
  <2>3. PICK m, k : m = Cardinality(Inside(s, B)) /\ k = s[b]
    OBVIOUS
  <2>4. m \in Nat /\ k \in Nat /\ Cardinality(Inside(s, B) \cup body) = m + k - 0
    BY <1>2, <1>4, <1>5, <2>1, <2>2, <2>3, Zenon
  <2>. QED
    BY <2>3, <2>4
<1>. QED
  BY <1>2, <1>3, <1>6, <1>8

\* The words are the same if the sizes are.
LEMMA SameInside ==
  ASSUME NEW s, NEW t, NEW B, \A b \in B : s[b] = t[b]
  PROVE  Inside(s, B) = Inside(t, B)
BY DEF Inside

\* Used and free blocks, before a step and after it.
LEMMA UsedAndFree ==
  /\ Blocks(TRUE) = FreeBlocks /\ Payload(TRUE) = Inside(size, Blocks(TRUE))
  /\ Payload(FALSE) = Inside(size, Blocks(FALSE))
  /\ free \in [Words -> BOOLEAN] => Blocks(FALSE) = Starts \ FreeBlocks
  /\ Blocks(TRUE)' = FreeBlocks' /\ Payload(TRUE)' = Inside(size', Blocks(TRUE)')
  /\ Payload(FALSE)' = Inside(size', Blocks(FALSE)')
  /\ free' \in [Words -> BOOLEAN] => Blocks(FALSE)' = Starts' \ FreeBlocks'
BY DEF Blocks, Payload, Inside, FreeBlocks, Starts, End

StatsInv ==
  /\ stats \in [blocks_used : Nat, blocks_free : Nat, bytes_used : Nat, bytes_free : Nat]
  /\ stats.blocks_used = Cardinality(Blocks(FALSE)) /\ stats.blocks_free = Cardinality(Blocks(TRUE))
  /\ stats.bytes_used = Cardinality(Payload(FALSE)) /\ stats.bytes_free = Cardinality(Payload(TRUE))
  /\ stats.blocks_used + stats.blocks_free + stats.bytes_used + stats.bytes_free = HeapWords

\* A step that books what it changes, and changes no sum, keeps them.
LEMMA Booked ==
  ASSUME StatsInv, NEW bu \in Int, NEW bf \in Int, NEW yu \in Int, NEW yf \in Int,
         stats' = [blocks_used |-> stats.blocks_used + bu, blocks_free |-> stats.blocks_free + bf,
                   bytes_used  |-> stats.bytes_used + yu,  bytes_free  |-> stats.bytes_free + yf],
         bu + bf + yu + yf = 0,
         Cardinality(Blocks(FALSE)') = Cardinality(Blocks(FALSE)) + bu,
         Cardinality(Blocks(TRUE)') = Cardinality(Blocks(TRUE)) + bf,
         Cardinality(Payload(FALSE)') = Cardinality(Payload(FALSE)) + yu,
         Cardinality(Payload(TRUE)') = Cardinality(Payload(TRUE)) + yf
  PROVE  StatsInv'
<1>1. /\ stats.blocks_used \in Nat /\ stats.blocks_free \in Nat
      /\ stats.bytes_used \in Nat /\ stats.bytes_free \in Nat
  BY DEF StatsInv
<1>2. /\ stats'.blocks_used = stats.blocks_used + bu /\ stats'.blocks_free = stats.blocks_free + bf
      /\ stats'.bytes_used = stats.bytes_used + yu /\ stats'.bytes_free = stats.bytes_free + yf
  OBVIOUS
<1>3. /\ stats'.blocks_used = Cardinality(Blocks(FALSE)') /\ stats'.blocks_free = Cardinality(Blocks(TRUE)')
      /\ stats'.bytes_used = Cardinality(Payload(FALSE)') /\ stats'.bytes_free = Cardinality(Payload(TRUE)')
  BY <1>2 DEF StatsInv
<1>4. /\ Cardinality(Blocks(FALSE)') \in Nat /\ Cardinality(Blocks(TRUE)') \in Nat
      /\ Cardinality(Payload(FALSE)') \in Nat /\ Cardinality(Payload(TRUE)') \in Nat
  <2>1. /\ Blocks(FALSE)' \in SUBSET Words /\ Blocks(TRUE)' \in SUBSET Words
        /\ Payload(FALSE)' \in SUBSET Words /\ Payload(TRUE)' \in SUBSET Words
    BY DEF Blocks, Payload, Starts
  <2>. QED
    BY <2>1, FiniteWords
<1>5. stats' \in [blocks_used : Nat, blocks_free : Nat, bytes_used : Nat, bytes_free : Nat]
  <2>1. stats' = [blocks_used |-> stats'.blocks_used, blocks_free |-> stats'.blocks_free,
                  bytes_used |-> stats'.bytes_used, bytes_free |-> stats'.bytes_free]
    OBVIOUS
  <2>. QED
    BY <1>3, <1>4, <2>1
<1>6. stats'.blocks_used + stats'.blocks_free + stats'.bytes_used + stats'.bytes_free = HeapWords
  <2>2. stats.blocks_used + stats.blocks_free + stats.bytes_used + stats.bytes_free = HeapWords
    BY DEF StatsInv
  <2>3. PICK a, b, c, d : a = stats.blocks_used /\ b = stats.blocks_free
                          /\ c = stats.bytes_used /\ d = stats.bytes_free
    OBVIOUS
  <2>4. a \in Nat /\ b \in Nat /\ c \in Nat /\ d \in Nat /\ a + b + c + d = HeapWords
    BY <1>1, <2>2, <2>3
  <2>5. (a + bu) + (b + bf) + (c + yu) + (d + yf) = HeapWords
    BY <2>4, HeapFacts
  <2>. QED
    BY <1>2, <2>3, <2>5
<1>. QED
  BY <1>3, <1>5, <1>6 DEF StatsInv

\* A step that changes no block keeps them.
LEMMA NothingBooked ==
  ASSUME StatsInv, UNCHANGED <<size, free, stats>>
  PROVE  StatsInv'
BY DEF StatsInv, Blocks, Payload, Starts, End

\* equiv_free up to coalesce_right.
LEMMA FreeBooks ==
  ASSUME HeapInv, StatsInv, NEW b \in Live, Free(b)
  PROVE  StatsInv'
<1>1. /\ size' = size /\ free' = [free EXCEPT ![b] = TRUE] /\ Book(-1, 1, -size[b], size[b])
  BY DEF Free
<1>2. /\ size \in [Words -> Nat] /\ free \in [Words -> BOOLEAN] /\ Tiles(size)
      /\ b \in Starts /\ b \notin FreeBlocks /\ Starts = BlocksOf(size) /\ FreeBlocks \subseteq Starts
      /\ size[b] \in Nat /\ b \in Words
  BY InvFacts DEF Live
<1>3. free' \in [Words -> BOOLEAN] /\ Starts' = Starts /\ FreeBlocks' = FreeBlocks \cup {b}
  BY <1>1, <1>2 DEF Starts, FreeBlocks
<1>4. PICK U, F, V, G : /\ U = Blocks(FALSE) /\ F = Blocks(TRUE)
                        /\ V = Blocks(FALSE)' /\ G = Blocks(TRUE)'
  OBVIOUS
<1>5. /\ U = Starts \ FreeBlocks /\ F = FreeBlocks /\ U = V \cup {b} /\ G = F \cup {b}
      /\ b \notin V /\ b \notin F
  BY <1>2, <1>3, <1>4, UsedAndFree
<1>6. PICK k : k = size[b]
  OBVIOUS
<1>7. /\ Cardinality(G) = Cardinality(F) + 1
      /\ Cardinality(Inside(size, G)) = Cardinality(Inside(size, F)) + k
  BY <1>2, <1>5, <1>6, OneBlockMore
<1>8. /\ Cardinality(V) \in Nat /\ Cardinality(Inside(size, V)) \in Nat
      /\ Cardinality(U) = Cardinality(V) + 1
      /\ Cardinality(Inside(size, U)) = Cardinality(Inside(size, V)) + k
  BY <1>2, <1>5, <1>6, OneBlockMore
<1>9. /\ Payload(TRUE) = Inside(size, F) /\ Payload(FALSE) = Inside(size, U)
      /\ Payload(TRUE)' = Inside(size, G) /\ Payload(FALSE)' = Inside(size, V)
  BY <1>1, <1>4, UsedAndFree
<1>10. k \in Nat
  BY <1>2, <1>6
<1>11. PICK bu, bf, yu, yf : bu = -1 /\ bf = 1 /\ yu = -k /\ yf = k
  OBVIOUS
<1>12. /\ bu \in Int /\ bf \in Int /\ yu \in Int /\ yf \in Int /\ bu + bf + yu + yf = 0
       /\ Cardinality(V) = Cardinality(U) + bu /\ Cardinality(G) = Cardinality(F) + bf
       /\ Cardinality(Inside(size, V)) = Cardinality(Inside(size, U)) + yu
       /\ Cardinality(Inside(size, G)) = Cardinality(Inside(size, F)) + yf
  BY <1>7, <1>8, <1>10, <1>11
<1>13. stats' = [blocks_used |-> stats.blocks_used + bu, blocks_free |-> stats.blocks_free + bf,
                 bytes_used  |-> stats.bytes_used + yu,  bytes_free  |-> stats.bytes_free + yf]
  BY <1>1, <1>6, <1>11 DEF Book
<1>14. /\ Cardinality(Blocks(FALSE)') = Cardinality(Blocks(FALSE)) + bu
       /\ Cardinality(Blocks(TRUE)') = Cardinality(Blocks(TRUE)) + bf
       /\ Cardinality(Payload(FALSE)') = Cardinality(Payload(FALSE)) + yu
       /\ Cardinality(Payload(TRUE)') = Cardinality(Payload(TRUE)) + yf
  BY <1>4, <1>9, <1>12
<1>. QED
  BY <1>12, <1>13, <1>14, Booked

\* One merge of coalesce_right: a header becomes payload.
LEMMA CoalesceBooks ==
  ASSUME HeapInv, StatsInv, Coalesce
  PROVE  StatsInv'
<1>1. PICK b, n : b = loc.base /\ n = End(b)
  OBVIOUS
<1>2. /\ pc = "coalesce" /\ FreeBehind(b)
      /\ size' = [size EXCEPT ![b] = @ + size[n] + METADATA, ![n] = 0]
      /\ free' = [free EXCEPT ![n] = FALSE] /\ Book(0, -1, 0, METADATA)
  BY <1>1 DEF Coalesce
<1>3. /\ size \in [Words -> Nat] /\ free \in [Words -> BOOLEAN] /\ Tiles(size)
      /\ b \in FreeBlocks /\ n \in FreeBlocks /\ b \in Starts /\ n \in Starts
      /\ Starts = BlocksOf(size) /\ Starts \subseteq Words /\ FreeBlocks \subseteq Starts
      /\ size[b] \in Nat /\ size[n] \in Nat
  BY <1>1, <1>2, InvFacts DEF HeapInv, CallInv, FreeBehind
<1>4. /\ size' \in [Words -> Nat] /\ Tiles(size') /\ Starts' = BlocksOf(size') /\ Starts' = Starts \ {n}
      /\ b # n /\ \A w \in Starts : w \notin {b, n} => size'[w] = size[w]
  BY <1>1, <1>2, <1>3, MergeFacts, TilingIsTiles
<1>5. size'[b] = size[b] + size[n] + 1
  BY <1>2, <1>3, <1>4
<1>6. free' \in [Words -> BOOLEAN] /\ FreeBlocks' = FreeBlocks \ {n}
  BY <1>2, <1>3, <1>4 DEF FreeBlocks
<1>7. PICK U, F, V, G, R : /\ U = Blocks(FALSE) /\ F = Blocks(TRUE)
                           /\ V = Blocks(FALSE)' /\ G = Blocks(TRUE)' /\ R = FreeBlocks \ {b, n}
  OBVIOUS
<1>8. /\ V = U /\ G = R \cup {b} /\ F = G \cup {n} /\ n \notin G /\ b \notin R
      /\ U \subseteq Starts /\ b \notin U /\ n \notin U
      /\ R \subseteq Starts /\ R \subseteq Starts' /\ b \in Starts' /\ G \subseteq Starts
  <2>1. U = Starts \ FreeBlocks /\ F = FreeBlocks /\ V = Starts' \ FreeBlocks' /\ G = FreeBlocks'
    BY <1>3, <1>6, <1>7, UsedAndFree, Zenon
  <2>2. U = Starts \ FreeBlocks /\ F = FreeBlocks /\ V = (Starts \ {n}) \ (FreeBlocks \ {n}) /\ G = FreeBlocks \ {n}
    BY <1>4, <1>6, <2>1
  <2>3. /\ b \in FreeBlocks /\ n \in FreeBlocks /\ b \in Starts /\ n \in Starts /\ b # n
        /\ FreeBlocks \subseteq Starts /\ Starts' = Starts \ {n} /\ R = FreeBlocks \ {b, n}
    BY <1>3, <1>4, <1>7
  <2>4. V = U /\ F = G \cup {n} /\ n \notin G /\ G = R \cup {b} /\ b \notin R
    BY <2>2, <2>3
  <2>. QED
    BY <2>2, <2>3, <2>4
<1>9. /\ \A w \in R : size'[w] = size[w]
      /\ \A w \in U : size'[w] = size[w]
  BY <1>4, <1>7, <1>8
<1>10. Inside(size', R) = Inside(size, R) /\ Inside(size', U) = Inside(size, U)
  BY <1>9, SameInside
<1>11. PICK k, m : k = size[b] /\ m = size[n]
  OBVIOUS
<1>12. /\ Cardinality(G) \in Nat /\ Cardinality(Inside(size, R)) \in Nat
       /\ Cardinality(F) = Cardinality(G) + 1
       /\ Cardinality(Inside(size, F)) = Cardinality(Inside(size, G)) + m
       /\ Cardinality(Inside(size, G)) = Cardinality(Inside(size, R)) + k
       /\ Cardinality(Inside(size', G)) = Cardinality(Inside(size', R)) + (k + m + 1)
  <2>1. /\ Cardinality(G) \in Nat /\ Cardinality(F) = Cardinality(G) + 1
        /\ Cardinality(Inside(size, F)) = Cardinality(Inside(size, G)) + m
    BY <1>3, <1>8, <1>11, OneBlockMore
  <2>2. /\ Cardinality(Inside(size, R)) \in Nat
        /\ Cardinality(Inside(size, G)) = Cardinality(Inside(size, R)) + k
    BY <1>3, <1>8, <1>11, OneBlockMore
  <2>3. Cardinality(Inside(size', G)) = Cardinality(Inside(size', R)) + size'[b]
    BY <1>4, <1>8, OneBlockMore
  <2>. QED
    BY <2>1, <2>2, <2>3, <1>5, <1>11
<1>13. /\ Payload(TRUE) = Inside(size, F) /\ Payload(FALSE) = Inside(size, U)
       /\ Payload(TRUE)' = Inside(size', G) /\ Payload(FALSE)' = Inside(size', V)
  BY <1>7, UsedAndFree
<1>14. k \in Nat /\ m \in Nat /\ Cardinality(U) \in Nat /\ Cardinality(Inside(size, U)) \in Nat
  <2>1. U \in SUBSET Words /\ Inside(size, U) \in SUBSET Words
    BY <1>3, <1>8 DEF Inside
  <2>. QED
    BY <2>1, <1>3, <1>11, FiniteWords
<1>15. PICK bu, bf, yu, yf : bu = 0 /\ bf = -1 /\ yu = 0 /\ yf = 1
  OBVIOUS
<1>16. /\ bu \in Int /\ bf \in Int /\ yu \in Int /\ yf \in Int /\ bu + bf + yu + yf = 0
       /\ Cardinality(V) = Cardinality(U) + bu /\ Cardinality(G) = Cardinality(F) + bf
       /\ Cardinality(Inside(size', V)) = Cardinality(Inside(size, U)) + yu
       /\ Cardinality(Inside(size', G)) = Cardinality(Inside(size, F)) + yf
  BY <1>8, <1>10, <1>12, <1>14, <1>15
<1>17. stats' = [blocks_used |-> stats.blocks_used + bu, blocks_free |-> stats.blocks_free + bf,
                 bytes_used  |-> stats.bytes_used + yu,  bytes_free  |-> stats.bytes_free + yf]
  BY <1>2, <1>15 DEF Book
<1>. QED
  BY <1>7, <1>13, <1>16, <1>17, Booked

\* The merge of equiv_realloc: a free block becomes payload of a used one.
LEMMA AbsorbBooks ==
  ASSUME HeapInv, StatsInv, Absorb
  PROVE  StatsInv'
<1>1. PICK b, n : b = loc.old /\ n = loc.base
  OBVIOUS
<1>2. /\ pc = "absorb"
      /\ size' = [size EXCEPT ![b] = @ + size[n] + METADATA, ![n] = 0]
      /\ free' = [free EXCEPT ![n] = FALSE] /\ Book(0, -1, size[n] + METADATA, -size[n])
  BY <1>1 DEF Absorb
<1>3. /\ size \in [Words -> Nat] /\ free \in [Words -> BOOLEAN] /\ Tiles(size)
      /\ b \notin FreeBlocks /\ n \in FreeBlocks /\ b \in Starts /\ n \in Starts /\ n = End(b)
      /\ Starts = BlocksOf(size) /\ Starts \subseteq Words /\ FreeBlocks \subseteq Starts
      /\ size[b] \in Nat /\ size[n] \in Nat
  BY <1>1, <1>2, InvFacts DEF HeapInv, CallInv
<1>4. /\ size' \in [Words -> Nat] /\ Tiles(size') /\ Starts' = BlocksOf(size') /\ Starts' = Starts \ {n}
      /\ b # n /\ \A w \in Starts : w \notin {b, n} => size'[w] = size[w]
  BY <1>2, <1>3, MergeFacts, TilingIsTiles
<1>5. size'[b] = size[b] + size[n] + 1
  BY <1>2, <1>3, <1>4
<1>6. free' \in [Words -> BOOLEAN] /\ FreeBlocks' = FreeBlocks \ {n}
  BY <1>2, <1>3, <1>4 DEF FreeBlocks
<1>7. PICK U, F, V, G, R : /\ U = Blocks(FALSE) /\ F = Blocks(TRUE)
                           /\ V = Blocks(FALSE)' /\ G = Blocks(TRUE)' /\ R = U \ {b}
  OBVIOUS
<1>8. /\ V = U /\ U = R \cup {b} /\ F = G \cup {n} /\ n \notin G /\ b \notin R /\ n \notin R
      /\ R \subseteq Starts /\ R \subseteq Starts' /\ b \in Starts' /\ G \subseteq Starts /\ b \notin G
  <2>1. U = Starts \ FreeBlocks /\ F = FreeBlocks /\ V = Starts' \ FreeBlocks' /\ G = FreeBlocks'
    BY <1>3, <1>6, <1>7, UsedAndFree, Zenon
  <2>2. U = Starts \ FreeBlocks /\ F = FreeBlocks /\ V = (Starts \ {n}) \ (FreeBlocks \ {n}) /\ G = FreeBlocks \ {n}
    BY <1>4, <1>6, <2>1
  <2>3. /\ b \notin FreeBlocks /\ n \in FreeBlocks /\ b \in Starts /\ n \in Starts /\ b # n
        /\ FreeBlocks \subseteq Starts /\ Starts' = Starts \ {n} /\ R = U \ {b}
    BY <1>3, <1>4, <1>7
  <2>4. V = U /\ F = G \cup {n} /\ n \notin G /\ U = R \cup {b} /\ b \notin R /\ n \notin R
    BY <2>2, <2>3
  <2>. QED
    BY <2>2, <2>3, <2>4
<1>9. /\ \A w \in R : size'[w] = size[w]
      /\ \A w \in G : size'[w] = size[w]
  BY <1>4, <1>8
<1>10. Inside(size', R) = Inside(size, R) /\ Inside(size', G) = Inside(size, G)
  BY <1>9, SameInside
<1>11. PICK k, m : k = size[b] /\ m = size[n]
  OBVIOUS
<1>12. /\ Cardinality(G) \in Nat /\ Cardinality(Inside(size, G)) \in Nat
       /\ Cardinality(Inside(size, R)) \in Nat
       /\ Cardinality(F) = Cardinality(G) + 1
       /\ Cardinality(Inside(size, F)) = Cardinality(Inside(size, G)) + m
       /\ Cardinality(Inside(size, U)) = Cardinality(Inside(size, R)) + k
       /\ Cardinality(Inside(size', U)) = Cardinality(Inside(size', R)) + (k + m + 1)
  <2>1. /\ Cardinality(G) \in Nat /\ Cardinality(Inside(size, G)) \in Nat
        /\ Cardinality(F) = Cardinality(G) + 1
        /\ Cardinality(Inside(size, F)) = Cardinality(Inside(size, G)) + m
    BY <1>3, <1>8, <1>11, OneBlockMore
  <2>2. /\ Cardinality(Inside(size, R)) \in Nat
        /\ Cardinality(Inside(size, U)) = Cardinality(Inside(size, R)) + k
    BY <1>3, <1>8, <1>11, OneBlockMore
  <2>3. Cardinality(Inside(size', U)) = Cardinality(Inside(size', R)) + size'[b]
    BY <1>4, <1>8, OneBlockMore
  <2>. QED
    BY <2>1, <2>2, <2>3, <1>5, <1>11
<1>13. /\ Payload(TRUE) = Inside(size, F) /\ Payload(FALSE) = Inside(size, U)
       /\ Payload(TRUE)' = Inside(size', G) /\ Payload(FALSE)' = Inside(size', V)
  BY <1>7, UsedAndFree
<1>14. k \in Nat /\ m \in Nat /\ Cardinality(U) \in Nat
  <2>1. U \in SUBSET Words
    BY <1>3, <1>8
  <2>. QED
    BY <2>1, <1>3, <1>11, FiniteWords
<1>15. PICK bu, bf, yu, yf : bu = 0 /\ bf = -1 /\ yu = m + 1 /\ yf = -m
  OBVIOUS
<1>16. /\ bu \in Int /\ bf \in Int /\ yu \in Int /\ yf \in Int /\ bu + bf + yu + yf = 0
       /\ Cardinality(V) = Cardinality(U) + bu /\ Cardinality(G) = Cardinality(F) + bf
       /\ Cardinality(Inside(size', V)) = Cardinality(Inside(size, U)) + yu
       /\ Cardinality(Inside(size', G)) = Cardinality(Inside(size, F)) + yf
  BY <1>8, <1>10, <1>12, <1>14, <1>15
<1>17. stats' = [blocks_used |-> stats.blocks_used + bu, blocks_free |-> stats.blocks_free + bf,
                 bytes_used  |-> stats.bytes_used + yu,  bytes_free  |-> stats.bytes_free + yf]
  BY <1>2, <1>11, <1>15 DEF Book
<1>. QED
  BY <1>7, <1>13, <1>16, <1>17, Booked

\* The sizes behind trim_block_if_possible.
LEMMA TrimSizes ==
  ASSUME HeapInv, NEW b \in Starts, loc.needs >= MINIMUM_PAYLOAD, loc.needs <= size[b], Trim(b)
  PROVE  /\ size' \in [Words -> Nat] /\ Tiles(size') /\ Starts' = BlocksOf(size') /\ loc.needs \in Nat
         /\ ~ Splits(b) => size' = size /\ Starts' = Starts
         /\ Splits(b) => /\ Rest(b) \notin Starts /\ Starts' = Starts \cup {Rest(b)}
                         /\ size'[b] = loc.needs /\ size'[Rest(b)] = size[b] - loc.needs - 1
                         /\ size[b] - loc.needs - 1 \in Nat
                         /\ \A w \in Starts : w # b => size'[w] = size[w]
<1>1. /\ size' \in [Words -> Nat] /\ Tiling'
      /\ Starts' = (IF Splits(b) THEN Starts \cup {Rest(b)} ELSE Starts)
      /\ Splits(b) => Rest(b) \in Words /\ Rest(b) \notin Starts /\ Rest(b) # b
      /\ \A w \in Starts : w # b => size'[w] = size[w]
  BY TrimFacts
<1>2. Tiles(size') /\ Starts' = BlocksOf(size')
  BY <1>1, TilingIsTiles
<1>3. /\ size \in [Words -> Nat] /\ b \in Words /\ size[b] \in Nat /\ loc.needs \in Nat
  BY InvFacts DEF HeapInv, HeapTypes
<1>4. ASSUME ~ Splits(b) PROVE size' = size
  BY <1>4 DEF Trim
<1>5. ASSUME Splits(b) PROVE /\ size'[b] = loc.needs /\ size'[Rest(b)] = size[b] - loc.needs - 1
                             /\ size[b] - loc.needs - 1 \in Nat
  <2>1. size' = [size EXCEPT ![b] = loc.needs, ![Rest(b)] = Excess(b) - METADATA]
    BY <1>5 DEF Trim
  <2>2. size'[b] = loc.needs /\ size'[Rest(b)] = Excess(b) - METADATA
    BY <1>1, <1>3, <1>5, <2>1
  <2>. QED
    BY <1>3, <1>5, <2>2 DEF Splits, Excess
<1>. QED
  BY <1>1, <1>2, <1>3, <1>4, <1>5

\* equiv_realloc in place: the rest becomes a free block.
LEMMA ResizeBooks ==
  ASSUME HeapInv, StatsInv, ResizeInPlace
  PROVE  StatsInv'
<1>1. PICK b, e : b = loc.old /\ e = Rest(b)
  OBVIOUS
<1>2. /\ pc = "resize" /\ loc.needs <= size[b] /\ Trim(b)
      /\ free' = [w \in Words |-> (Splits(b) /\ w = Rest(b)) \/ free[w]]
      /\ IF Splits(b) THEN Book(0, 1, -Excess(b), Excess(b) - METADATA) ELSE UNCHANGED stats
  BY <1>1 DEF ResizeInPlace
<1>3. /\ size \in [Words -> Nat] /\ free \in [Words -> BOOLEAN] /\ Tiles(size)
      /\ b \notin FreeBlocks /\ b \in Starts /\ loc.needs >= MINIMUM_PAYLOAD
      /\ Starts = BlocksOf(size) /\ Starts \subseteq Words /\ FreeBlocks \subseteq Starts
      /\ size[b] \in Nat
  BY <1>1, <1>2, InvFacts DEF HeapInv, CallInv
<1>4. /\ size' \in [Words -> Nat] /\ Tiles(size') /\ Starts' = BlocksOf(size') /\ loc.needs \in Nat
      /\ ~ Splits(b) => size' = size /\ Starts' = Starts
      /\ Splits(b) => /\ e \notin Starts /\ Starts' = Starts \cup {e}
                      /\ size'[b] = loc.needs /\ size'[e] = size[b] - loc.needs - 1
                      /\ size[b] - loc.needs - 1 \in Nat
                      /\ \A w \in Starts : w # b => size'[w] = size[w]
  BY <1>1, <1>2, <1>3, TrimSizes
<1>5. CASE ~ Splits(b)
  <2>1. stats' = stats /\ size' = size
    BY <1>2, <1>4, <1>5
  <2>2. free' = free
    <3>1. ASSUME NEW w \in Words PROVE free'[w] = free[w]
      <4>1. free'[w] = ((Splits(b) /\ w = Rest(b)) \/ free[w])
        BY <1>2
      <4>2. free[w] \in BOOLEAN
        BY <1>3
      <4>3. ((Splits(b) /\ w = Rest(b)) \/ free[w]) = free[w]
        BY <1>5, <4>2
      <4>. QED
        BY <4>1, <4>3
    <3>2. free' \in [Words -> BOOLEAN]
      BY <1>2, <1>3
    <3>. QED
      BY <1>3, <3>1, <3>2
  <2>. QED
    BY <2>1, <2>2, NothingBooked
<1>6. CASE Splits(b)
  <2>1. free' \in [Words -> BOOLEAN] /\ FreeBlocks' = FreeBlocks \cup {e}
    <3>1. \A w \in Words : free'[w] <=> (w = e \/ free[w])
      BY <1>1, <1>2, <1>3, <1>6
    <3>2. free' \in [Words -> BOOLEAN]
      BY <1>2, <1>3
    <3>3. e \in Words /\ Starts' = Starts \cup {e} /\ Starts \subseteq Words
      BY <1>3, <1>4, <1>6 DEF BlocksOf
    <3>. QED
      BY <3>1, <3>2, <3>3 DEF FreeBlocks
  <2>2. PICK U, F, V, G, R : /\ U = Blocks(FALSE) /\ F = Blocks(TRUE)
                             /\ V = Blocks(FALSE)' /\ G = Blocks(TRUE)' /\ R = U \ {b}
    OBVIOUS
  <2>3. U = Starts \ FreeBlocks /\ F = FreeBlocks /\ V = Starts' \ FreeBlocks' /\ G = FreeBlocks'
    BY <1>3, <2>1, <2>2, UsedAndFree, Zenon
  <2>4. /\ V = U /\ U = R \cup {b} /\ G = F \cup {e} /\ e \notin F /\ b \notin R /\ b \notin F
        /\ R \subseteq Starts /\ R \subseteq Starts' /\ b \in Starts' /\ F \subseteq Starts /\ F \subseteq Starts'
        /\ e \in Starts'
    <3>1. /\ b \notin FreeBlocks /\ b \in Starts /\ FreeBlocks \subseteq Starts /\ e \notin Starts
          /\ Starts' = Starts \cup {e} /\ FreeBlocks' = FreeBlocks \cup {e} /\ R = U \ {b}
      BY <1>3, <1>4, <1>6, <2>1, <2>2
    <3>. QED
      BY <2>3, <3>1
  <2>5. Inside(size', R) = Inside(size, R) /\ Inside(size', F) = Inside(size, F)
    <3>1. /\ \A w \in R : size'[w] = size[w]
          /\ \A w \in F : size'[w] = size[w]
      BY <1>4, <1>6, <2>4
    <3>. QED
      BY <3>1, SameInside
  <2>6. PICK k, m : k = size[b] /\ m = loc.needs
    OBVIOUS
  <2>7. /\ Cardinality(F) \in Nat /\ Cardinality(Inside(size, F)) \in Nat
        /\ Cardinality(Inside(size, R)) \in Nat
        /\ Cardinality(G) = Cardinality(F) + 1
        /\ Cardinality(Inside(size', G)) = Cardinality(Inside(size, F)) + (k - m - 1)
        /\ Cardinality(Inside(size, U)) = Cardinality(Inside(size, R)) + k
        /\ Cardinality(Inside(size', U)) = Cardinality(Inside(size, R)) + m
    <3>1. /\ Cardinality(F) \in Nat /\ Cardinality(Inside(size', F)) \in Nat
          /\ Cardinality(G) = Cardinality(F) + 1
          /\ Cardinality(Inside(size', G)) = Cardinality(Inside(size', F)) + size'[e]
      BY <1>4, <2>4, OneBlockMore
    <3>2. /\ Cardinality(Inside(size, R)) \in Nat
          /\ Cardinality(Inside(size, U)) = Cardinality(Inside(size, R)) + k
      BY <1>3, <2>4, <2>6, OneBlockMore
    <3>3. Cardinality(Inside(size', U)) = Cardinality(Inside(size', R)) + size'[b]
      BY <1>4, <2>4, OneBlockMore
    <3>4. size'[b] = m /\ size'[e] = k - m - 1
      BY <1>4, <1>6, <2>6
    <3>. QED
      BY <2>5, <3>1, <3>2, <3>3, <3>4
  <2>8. /\ Payload(TRUE) = Inside(size, F) /\ Payload(FALSE) = Inside(size, U)
        /\ Payload(TRUE)' = Inside(size', G) /\ Payload(FALSE)' = Inside(size', V)
    BY <2>2, UsedAndFree
  <2>9. k \in Nat /\ m \in Nat /\ Cardinality(U) \in Nat
    <3>1. U \in SUBSET Words
      BY <1>3, <2>3
    <3>. QED
      BY <3>1, <1>3, <1>4, <2>6, FiniteWords
  <2>10. PICK bu, bf, yu, yf : bu = 0 /\ bf = 1 /\ yu = -(k - m) /\ yf = k - m - 1
    OBVIOUS
  <2>11. /\ bu \in Int /\ bf \in Int /\ yu \in Int /\ yf \in Int /\ bu + bf + yu + yf = 0
         /\ Cardinality(V) = Cardinality(U) + bu /\ Cardinality(G) = Cardinality(F) + bf
         /\ Cardinality(Inside(size', V)) = Cardinality(Inside(size, U)) + yu
         /\ Cardinality(Inside(size', G)) = Cardinality(Inside(size, F)) + yf
    BY <2>4, <2>7, <2>9, <2>10
  <2>12. stats' = [blocks_used |-> stats.blocks_used + bu, blocks_free |-> stats.blocks_free + bf,
                   bytes_used  |-> stats.bytes_used + yu,  bytes_free  |-> stats.bytes_free + yf]
    BY <1>2, <1>6, <2>6, <2>10 DEF Book, Excess
  <2>. QED
    BY <2>2, <2>8, <2>11, <2>12, Booked
<1>. QED
  BY <1>5, <1>6

\* allocate_block.
LEMMA AllocateBooks ==
  ASSUME HeapInv, StatsInv, Allocate
  PROVE  StatsInv'
<1>1. PICK b, e : b = loc.best /\ e = Rest(b)
  OBVIOUS
<1>2. /\ pc = "found" /\ b # NULL /\ Trim(b)
      /\ free' = [w \in Words |-> IF w = b THEN FALSE ELSE (Splits(b) /\ w = Rest(b)) \/ free[w]]
      /\ IF Splits(b) THEN Book(1, 0, loc.needs, -loc.needs - METADATA)
                      ELSE Book(1, -1, size[b], -size[b])
  BY <1>1 DEF Allocate
<1>3. /\ size \in [Words -> Nat] /\ free \in [Words -> BOOLEAN] /\ Tiles(size)
      /\ b \in FreeBlocks /\ b \in Starts /\ loc.needs >= MINIMUM_PAYLOAD /\ loc.needs <= size[b]
      /\ Starts = BlocksOf(size) /\ Starts \subseteq Words /\ FreeBlocks \subseteq Starts
      /\ size[b] \in Nat /\ loc.needs \in Nat
  BY <1>1, <1>2, InvFacts DEF HeapInv, CallInv, HeapTypes
<1>4. /\ size' \in [Words -> Nat] /\ Tiles(size') /\ Starts' = BlocksOf(size')
      /\ ~ Splits(b) => size' = size /\ Starts' = Starts
      /\ Splits(b) => /\ e \notin Starts /\ Starts' = Starts \cup {e}
                      /\ size'[b] = loc.needs /\ size'[e] = size[b] - loc.needs - 1
                      /\ size[b] - loc.needs - 1 \in Nat
                      /\ \A w \in Starts : w # b => size'[w] = size[w]
  BY <1>1, <1>2, <1>3, TrimSizes
<1>5. free' \in [Words -> BOOLEAN]
  BY <1>2, <1>3
<1>6. PICK U, F, V, G, R : /\ U = Blocks(FALSE) /\ F = Blocks(TRUE)
                           /\ V = Blocks(FALSE)' /\ G = Blocks(TRUE)' /\ R = F \ {b}
  OBVIOUS
<1>7. U = Starts \ FreeBlocks /\ F = FreeBlocks /\ V = Starts' \ FreeBlocks' /\ G = FreeBlocks'
  BY <1>3, <1>5, <1>6, UsedAndFree, Zenon
<1>8. /\ Payload(TRUE) = Inside(size, F) /\ Payload(FALSE) = Inside(size, U)
      /\ Payload(TRUE)' = Inside(size', G) /\ Payload(FALSE)' = Inside(size', V)
  BY <1>6, UsedAndFree
<1>9. PICK k, m : k = size[b] /\ m = loc.needs
  OBVIOUS
<1>10. k \in Nat /\ m \in Nat
  BY <1>3, <1>9
<1>11. CASE ~ Splits(b)
  <2>1. FreeBlocks' = FreeBlocks \ {b}
    <3>1. \A w \in Words : free'[w] <=> (w # b /\ free[w])
      BY <1>2, <1>3, <1>11
    <3>. QED
      BY <1>3, <1>4, <1>5, <1>11, <3>1 DEF FreeBlocks
  <2>2. /\ V = U \cup {b} /\ F = G \cup {b} /\ b \notin U /\ b \notin G
        /\ U \subseteq Starts /\ G \subseteq Starts
    <3>1. b \in FreeBlocks /\ b \in Starts /\ FreeBlocks \subseteq Starts /\ Starts' = Starts
      BY <1>3, <1>4, <1>11
    <3>. QED
      BY <1>7, <2>1, <3>1
  <2>3. /\ Cardinality(U) \in Nat /\ Cardinality(Inside(size, U)) \in Nat
        /\ Cardinality(V) = Cardinality(U) + 1
        /\ Cardinality(Inside(size, V)) = Cardinality(Inside(size, U)) + k
    BY <1>3, <1>9, <2>2, OneBlockMore
  <2>4. /\ Cardinality(G) \in Nat /\ Cardinality(Inside(size, G)) \in Nat
        /\ Cardinality(F) = Cardinality(G) + 1
        /\ Cardinality(Inside(size, F)) = Cardinality(Inside(size, G)) + k
    BY <1>3, <1>9, <2>2, OneBlockMore
  <2>5. PICK bu, bf, yu, yf : bu = 1 /\ bf = -1 /\ yu = k /\ yf = -k
    OBVIOUS
  <2>6. size' = size
    BY <1>4, <1>11
  <2>7. /\ bu \in Int /\ bf \in Int /\ yu \in Int /\ yf \in Int /\ bu + bf + yu + yf = 0
        /\ Cardinality(V) = Cardinality(U) + bu /\ Cardinality(G) = Cardinality(F) + bf
        /\ Cardinality(Inside(size, V)) = Cardinality(Inside(size, U)) + yu
        /\ Cardinality(Inside(size, G)) = Cardinality(Inside(size, F)) + yf
    BY <1>10, <2>3, <2>4, <2>5
  <2>8. stats' = [blocks_used |-> stats.blocks_used + bu, blocks_free |-> stats.blocks_free + bf,
                  bytes_used  |-> stats.bytes_used + yu,  bytes_free  |-> stats.bytes_free + yf]
    BY <1>2, <1>9, <1>11, <2>5 DEF Book
  <2>. QED
    BY <1>6, <1>8, <2>6, <2>7, <2>8, Booked
<1>12. CASE Splits(b)
  <2>1. FreeBlocks' = (FreeBlocks \ {b}) \cup {e}
    <3>1. \A w \in Words : free'[w] <=> (w # b /\ (w = e \/ free[w]))
      BY <1>1, <1>2, <1>3, <1>12
    <3>2. b # e
      BY <1>3, <1>4, <1>12
    <3>3. e \in Words /\ Starts' = Starts \cup {e} /\ Starts \subseteq Words
      BY <1>3, <1>4, <1>12 DEF BlocksOf
    <3>. QED
      BY <3>1, <3>2, <3>3 DEF FreeBlocks
  <2>2. /\ V = U \cup {b} /\ F = R \cup {b} /\ G = R \cup {e} /\ e \notin R /\ b \notin R /\ b \notin U
        /\ R \subseteq Starts /\ R \subseteq Starts' /\ b \in Starts' /\ e \in Starts'
        /\ U \subseteq Starts /\ U \subseteq Starts'
    <3>1. /\ b \in FreeBlocks /\ b \in Starts /\ FreeBlocks \subseteq Starts /\ e \notin Starts
          /\ Starts' = Starts \cup {e} /\ R = F \ {b}
      BY <1>3, <1>4, <1>6, <1>12
    <3>. QED
      BY <1>7, <2>1, <3>1
  <2>3. Inside(size', R) = Inside(size, R) /\ Inside(size', U) = Inside(size, U)
    <3>1. /\ \A w \in R : size'[w] = size[w]
          /\ \A w \in U : size'[w] = size[w]
      BY <1>4, <1>12, <2>2
    <3>. QED
      BY <3>1, SameInside
  <2>4. /\ Cardinality(U) \in Nat /\ Cardinality(Inside(size, U)) \in Nat
        /\ Cardinality(R) \in Nat /\ Cardinality(Inside(size, R)) \in Nat
        /\ Cardinality(V) = Cardinality(U) + 1
        /\ Cardinality(G) = Cardinality(R) + 1 /\ Cardinality(F) = Cardinality(R) + 1
        /\ Cardinality(Inside(size', V)) = Cardinality(Inside(size, U)) + m
        /\ Cardinality(Inside(size, F)) = Cardinality(Inside(size, R)) + k
        /\ Cardinality(Inside(size', G)) = Cardinality(Inside(size, R)) + (k - m - 1)
    <3>1. /\ Cardinality(R) \in Nat /\ Cardinality(Inside(size, R)) \in Nat
          /\ Cardinality(F) = Cardinality(R) + 1
          /\ Cardinality(Inside(size, F)) = Cardinality(Inside(size, R)) + k
      BY <1>3, <1>9, <2>2, OneBlockMore
    <3>2. /\ Cardinality(G) = Cardinality(R) + 1
          /\ Cardinality(Inside(size', G)) = Cardinality(Inside(size', R)) + size'[e]
      BY <1>4, <2>2, OneBlockMore
    <3>3. /\ Cardinality(U) \in Nat /\ Cardinality(Inside(size', U)) \in Nat
          /\ Cardinality(V) = Cardinality(U) + 1
          /\ Cardinality(Inside(size', V)) = Cardinality(Inside(size', U)) + size'[b]
      BY <1>4, <2>2, OneBlockMore
    <3>4. size'[b] = m /\ size'[e] = k - m - 1
      BY <1>4, <1>9, <1>12
    <3>. QED
      BY <2>3, <3>1, <3>2, <3>3, <3>4
  <2>5. PICK bu, bf, yu, yf : bu = 1 /\ bf = 0 /\ yu = m /\ yf = -m - 1
    OBVIOUS
  <2>6. /\ bu \in Int /\ bf \in Int /\ yu \in Int /\ yf \in Int /\ bu + bf + yu + yf = 0
        /\ Cardinality(V) = Cardinality(U) + bu /\ Cardinality(G) = Cardinality(F) + bf
        /\ Cardinality(Inside(size', V)) = Cardinality(Inside(size, U)) + yu
        /\ Cardinality(Inside(size', G)) = Cardinality(Inside(size, F)) + yf
    BY <1>10, <2>4, <2>5
  <2>7. stats' = [blocks_used |-> stats.blocks_used + bu, blocks_free |-> stats.blocks_free + bf,
                  bytes_used  |-> stats.bytes_used + yu,  bytes_free  |-> stats.bytes_free + yf]
    BY <1>2, <1>9, <1>12, <2>5 DEF Book
  <2>. QED
    BY <1>6, <1>8, <2>6, <2>7, Booked
<1>. QED
  BY <1>11, <1>12

\* An empty heap is one free block.
LEMMA StatsInit == Init => StatsInv
<1> SUFFICES ASSUME Init PROVE StatsInv
  OBVIOUS
<1>1. /\ size = [w \in Words |-> IF w = 1 THEN HeapWords - 1 ELSE 0]
      /\ free = [w \in Words |-> w = 1]
      /\ stats = [blocks_used |-> 0, blocks_free |-> 1, bytes_used |-> 0, bytes_free |-> HeapWords - 1]
  BY DEF Init
<1>2. HeapInv
  BY HeapInit
<1>3. size \in [Words -> Nat] /\ Tiles(size) /\ Starts = BlocksOf(size) /\ free \in [Words -> BOOLEAN]
  BY <1>2, InvFacts
<1>4. 1 \in Words /\ HeapWords - 1 \in Nat /\ HeapWords - 1 # 0 /\ HeapWords \in Nat
  BY HeapWordsAssumption DEF Words
<1>5. Starts = {1} /\ FreeBlocks = {1}
  BY <1>1, <1>4 DEF Starts, FreeBlocks
<1>6. Blocks(TRUE) = {} \cup {1} /\ Blocks(FALSE) = {}
  BY <1>3, <1>5, UsedAndFree
<1>7. Inside(size, {}) = {} /\ Cardinality({}) = 0
  BY FS_EmptySet DEF Inside
<1>8. size[1] = HeapWords - 1
  BY <1>1, <1>4
<1>9. Cardinality({} \cup {1}) = 1 /\ Cardinality(Inside(size, {} \cup {1})) = HeapWords - 1
  <2>1. {} \in SUBSET BlocksOf(size) /\ 1 \in BlocksOf(size) /\ 1 \notin {}
    BY <1>3, <1>5
  <2>2. /\ Cardinality({} \cup {1}) = Cardinality({}) + 1
        /\ Cardinality(Inside(size, {} \cup {1})) = Cardinality(Inside(size, {})) + size[1]
    BY <1>3, <2>1, OneBlockMore
  <2>. QED
    BY <1>4, <1>7, <1>8, <2>2
<1>10. Payload(TRUE) = Inside(size, {} \cup {1}) /\ Payload(FALSE) = Inside(size, {})
  BY <1>6, UsedAndFree
<1>11. /\ stats.blocks_used = 0 /\ stats.blocks_free = 1
       /\ stats.bytes_used = 0 /\ stats.bytes_free = HeapWords - 1
  BY <1>1
<1>12. stats \in [blocks_used : Nat, blocks_free : Nat, bytes_used : Nat, bytes_free : Nat]
  BY <1>1, <1>4
<1>13. /\ Cardinality(Blocks(FALSE)) = 0 /\ Cardinality(Blocks(TRUE)) = 1
       /\ Cardinality(Payload(FALSE)) = 0 /\ Cardinality(Payload(TRUE)) = HeapWords - 1
  BY <1>6, <1>7, <1>9, <1>10, Zenon
<1>14. stats.blocks_used + stats.blocks_free + stats.bytes_used + stats.bytes_free = HeapWords
  BY <1>4, <1>11
<1>. QED
  BY <1>11, <1>12, <1>13, <1>14 DEF StatsInv

\* The statistics stay right.
LEMMA StatsStep == HeapInv /\ StatsInv /\ [Next]_vars => StatsInv'
<1> SUFFICES ASSUME HeapInv, StatsInv, [Next]_vars PROVE StatsInv'
  OBVIOUS
<1>1. CASE UNCHANGED vars
  BY <1>1, NothingBooked DEF vars
<1>2. CASE pc = "idle" /\ Call
  <2>1. ASSUME NEW b \in Live, Free(b) PROVE StatsInv'
    BY <2>1, FreeBooks
  <2>2. ASSUME NEW bytes \in Requests, Malloc(bytes) PROVE StatsInv'
    BY <2>2, NothingBooked DEF Malloc
  <2>3. ASSUME NEW b \in Live, NEW bytes \in Requests, Realloc(b, bytes) PROVE StatsInv'
    BY <2>3, NothingBooked DEF Realloc
  <2>. QED
    BY <1>2, <2>1, <2>2, <2>3 DEF Call
<1>3. CASE Internal
  <2>1. CASE pc = "release" /\ Free(loc.old)
    <3>1. loc.old \in Live
      BY <2>1 DEF HeapInv, CallInv
    <3>2. QED
      BY <2>1, <3>1, FreeBooks
  <2>2. CASE Search \/ NotFound \/ Coalesced \/ ResizeElsewhere
    BY <2>2, NothingBooked DEF Search, NotFound, Coalesced, ResizeElsewhere
  <2>3. QED
    BY <1>3, <2>1, <2>2, AllocateBooks, CoalesceBooks, AbsorbBooks, ResizeBooks DEF Internal
<1>4. QED
  BY <1>1, <1>2, <1>3 DEF Next

\* blocks_used, blocks_free, bytes_used and bytes_free count what is in the
\* heap, and validate_heap finds its sum, after any calls.
THEOREM StatisticsAreRight == Spec => []StatsMatch
<1>1. HeapInv /\ StatsInv => StatsMatch
  <2> SUFFICES ASSUME HeapInv, StatsInv PROVE StatsMatch
    OBVIOUS
  <2>1. TypeOK
    BY DEF HeapInv, StatsInv, TypeOK
  <2>2. /\ stats.blocks_used \in Nat /\ stats.blocks_free \in Nat
        /\ stats.blocks_used + stats.blocks_free + stats.bytes_used + stats.bytes_free = HeapWords
    BY DEF StatsInv
  <2>3. (stats.blocks_used + stats.blocks_free) * METADATA = stats.blocks_used + stats.blocks_free
    BY <2>2
  <2>. QED
    BY <2>1, <2>2, <2>3 DEF StatsInv, StatsMatch
<1>2. QED
  BY <1>1, StatsInit, StatsStep, HeapInvariant, PTL DEF Spec
=============================================================================
