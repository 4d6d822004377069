-------------------------- MODULE KernelCalls_proofs --------------------------
(***************************************************************************)
(* Proofs about KernelCalls for every sequence of calls, every shape of a  *)
(* matrix and every size of the buffers.                                   *)
(*                                                                         *)
(* First the sums of the kernels of BlockKernels: a kernel adds up vectors *)
(* of eight lanes, steps and blocks, and each of these is shown to add a   *)
(* part of the terms of the row, the parts to be different and together    *)
(* the whole row.  Then the buffers, the inductive invariants and the      *)
(* theorems about calls.  Last the formats: every bit of a block belongs   *)
(* to one of the values decoded from it.                                   *)
(***************************************************************************)
EXTENDS KernelCalls, FunctionTheorems, FiniteSetTheorems, SequenceTheorems, TLAPS

\* The provers multiply variables only when told the type.
LEMMA ProductsOfNumbers ==
  \A m, n \in Nat : m * n \in Nat
OBVIOUS

-----------------------------------------------------------------------------
(* Sums.  term is a function from columns to terms, C a set of columns.     *)

OneToOne(term, C) == \A c, d \in C : term[c] = term[d] => c = d

\* s adds the terms of the columns C, each of them once, in some order.
Adds(s, term, C) ==
  /\ s \in Seq({term[c] : c \in C})
  /\ \A i, j \in 1..Len(s) : s[i] = s[j] => i = j
  /\ \A c \in C : \E i \in 1..Len(s) : s[i] = term[c]

\* col lists the columns C, each of them once.
Lists(n, col, C) ==
  /\ col \in [1..n -> C]
  /\ \A i, j \in 1..n : col[i] = col[j] => i = j
  /\ \A c \in C : \E i \in 1..n : col[i] = c

Listed(n, col, term) == [i \in 1..n |-> term[col[i]]]

\* A sum given by the column of each of its terms.
LEMMA AddsListed ==
  ASSUME NEW n \in Nat, NEW C, NEW term, OneToOne(term, C), NEW col, Lists(n, col, C)
  PROVE  Adds(Listed(n, col, term), term, C) /\ Len(Listed(n, col, term)) = n
<1>. DEFINE s == Listed(n, col, term)
<1>. USE DEF Lists, Listed
<1>1. s \in Seq({term[c] : c \in C}) /\ Len(s) = n
  OBVIOUS
<1>2. \A i \in 1..n : s[i] = term[col[i]] /\ col[i] \in C
  OBVIOUS
<1>3. \A i, j \in 1..n : s[i] = s[j] => i = j
  BY <1>2 DEF OneToOne
<1>4. \A c \in C : \E i \in 1..n : s[i] = term[c]
  BY <1>2
<1>. QED
  BY <1>1, <1>3, <1>4 DEF Adds

\* Two sums of different columns, one after the other.
LEMMA AddsBoth ==
  ASSUME NEW term, NEW C, NEW D, OneToOne(term, C \cup D), C \cap D = {},
         NEW s, NEW t, Adds(s, term, C), Adds(t, term, D)
  PROVE  Adds(s \o t, term, C \cup D) /\ Len(s \o t) = Len(s) + Len(t)
<1>. DEFINE S == {term[c] : c \in C \cup D}
<1>1. s \in Seq(S) /\ t \in Seq(S)
  <2>1. {term[c] : c \in C} \subseteq S /\ {term[c] : c \in D} \subseteq S
    OBVIOUS
  <2>. HIDE DEF S
  <2>. QED
    BY <2>1 DEF Adds
<1>. HIDE DEF S
<1>2. /\ s \o t \in Seq(S) /\ Len(s \o t) = Len(s) + Len(t)
      /\ Len(s) \in Nat /\ Len(t) \in Nat
      /\ \A i \in 1..Len(s) : (s \o t)[i] = s[i]
      /\ \A i \in Len(s) + 1..Len(s) + Len(t) : (s \o t)[i] = t[i - Len(s)]
  BY <1>1, ConcatProperties, LenProperties
<1>3. /\ \A i \in 1..Len(s) : \E c \in C : s[i] = term[c]
      /\ \A i \in 1..Len(t) : \E c \in D : t[i] = term[c]
  <2>1. \A i \in 1..Len(s) : s[i] \in {term[c] : c \in C}
    BY DEF Adds
  <2>2. \A i \in 1..Len(t) : t[i] \in {term[c] : c \in D}
    BY DEF Adds
  <2>. QED
    BY <2>1, <2>2
<1>4. \A i \in 1..Len(s), j \in 1..Len(t) : s[i] # t[j]
  BY <1>3 DEF OneToOne
<1>5. ASSUME NEW i \in 1..Len(s) + Len(t)
      PROVE  \/ i \in 1..Len(s) /\ (s \o t)[i] = s[i]
             \/ /\ i > Len(s) /\ i - Len(s) \in 1..Len(t)
                /\ (s \o t)[i] = t[i - Len(s)]
  BY <1>2
<1>6. \A i, j \in 1..Len(s) + Len(t) : (s \o t)[i] = (s \o t)[j] => i = j
  <2>. SUFFICES ASSUME NEW i \in 1..Len(s) + Len(t), NEW j \in 1..Len(s) + Len(t),
                       (s \o t)[i] = (s \o t)[j]
                PROVE  i = j
    OBVIOUS
  <2>1. CASE i \in 1..Len(s) /\ j \in 1..Len(s)
    BY <1>2, <2>1 DEF Adds
  <2>2. CASE i > Len(s) /\ j > Len(s)
    <3>1. i - Len(s) \in 1..Len(t) /\ j - Len(s) \in 1..Len(t)
      BY <1>2, <2>2
    <3>2. t[i - Len(s)] = t[j - Len(s)]
      BY <1>2, <1>5, <2>2
    <3>3. i - Len(s) = j - Len(s)
      BY <3>1, <3>2 DEF Adds
    <3>. QED
      BY <1>2, <3>3
  <2>. QED
    BY <1>2, <1>4, <1>5, <2>1, <2>2
<1>7. ASSUME NEW c \in C \cup D
      PROVE  \E i \in 1..Len(s) + Len(t) : (s \o t)[i] = term[c]
  <2>1. CASE c \in C
    <3>1. PICK i \in 1..Len(s) : s[i] = term[c]
      BY <2>1 DEF Adds
    <3>. QED
      BY <1>2, <3>1
  <2>2. CASE c \in D
    <3>1. PICK i \in 1..Len(t) : t[i] = term[c]
      BY <2>2 DEF Adds
    <3>2. /\ Len(s) + i \in Len(s) + 1..Len(s) + Len(t)
          /\ Len(s) + i \in 1..Len(s) + Len(t)
          /\ (Len(s) + i) - Len(s) = i
      BY <1>2
    <3>3. (s \o t)[Len(s) + i] = t[i]
      BY <1>2, <3>2
    <3>. QED
      BY <3>1, <3>2, <3>3
  <2>. QED
    BY <2>1, <2>2
<1>. QED
  BY <1>2, <1>6, <1>7 DEF Adds, S

\* Quotient and remainder.
LEMMA Divide ==
  ASSUME NEW a \in Nat, NEW b \in Nat \ {0}
  PROVE  /\ a \div b \in Nat
         /\ a % b \in Nat /\ a % b < b
         /\ a = b * (a \div b) + (a % b)
BY Z3

LEMMA TimesIsMonotonic ==
  ASSUME NEW a \in Nat, NEW b \in Nat, NEW c \in Nat, a =< b
  PROVE  c * a =< c * b
BY Z3

\* Position k of n pieces of one length is position j of piece b.
LEMMA PieceOf ==
  ASSUME NEW n \in Nat, NEW length \in Nat \ {0}, NEW k \in 1..n * length
  PROVE  LET b == (k - 1) \div length
             j == 1 + ((k - 1) % length)
         IN b \in 0..n - 1 /\ j \in 1..length /\ k = length * b + j
<1>. DEFINE b == (k - 1) \div length
            r == (k - 1) % length
<1>1. n * length \in Nat /\ n * length = length * n
  BY ProductsOfNumbers
<1>2. k - 1 \in Nat /\ k =< n * length
  BY <1>1
<1>3. b \in Nat /\ r \in Nat /\ r < length /\ k - 1 = length * b + r
  BY <1>2, Divide
<1>. HIDE DEF b, r
<1>4. length * b \in Nat
  BY <1>3, ProductsOfNumbers
<1>5. b < n
  <2>1. SUFFICES ASSUME n =< b
                 PROVE  FALSE
    BY <1>3
  <2>2. length * n =< length * b
    BY <1>3, <2>1, TimesIsMonotonic
  <2>. QED
    BY <1>1, <1>2, <1>3, <1>4, <2>2
<1>6. 1 + r \in 1..length /\ k = length * b + (1 + r)
  BY <1>2, <1>3, <1>4
<1>. QED
  BY <1>3, <1>5, <1>6 DEF b, r

\* PieceOf the other way round.
LEMMA PlaceOf ==
  ASSUME NEW n \in Nat, NEW length \in Nat \ {0}, NEW b \in 0..n - 1, NEW j \in 1..length
  PROVE  LET k == length * b + j
         IN /\ k \in 1..n * length
            /\ (k - 1) \div length = b
            /\ 1 + ((k - 1) % length) = j
<1>. DEFINE k == length * b + j
<1>1. length * b \in Nat /\ b \in Nat /\ j \in Nat /\ n * length \in Nat
  BY ProductsOfNumbers
<1>2. length * b + length =< n * length
  <2>1. length * (b + 1) =< length * n
    BY <1>1, TimesIsMonotonic
  <2>2. length * (b + 1) = length * b + length /\ length * n = n * length
    BY <1>1
  <2>. QED
    BY <2>1, <2>2
<1>3. k \in 1..n * length
  BY <1>1, <1>2
<1>4. (k - 1) \div length = b /\ (k - 1) % length = j - 1
  <2>1. \A r \in Nat : r < length =>
          (length * b + r) \div length = b /\ (length * b + r) % length = r
    <3>. SUFFICES ASSUME NEW r \in Nat, r < length
                  PROVE  (length * b + r) \div length = b /\ (length * b + r) % length = r
      OBVIOUS
    <3>. QED
      BY <1>1, Z3
  <2>2. j - 1 \in Nat /\ j - 1 < length /\ k - 1 = length * b + (j - 1)
    BY <1>1
  <2>. HIDE DEF k
  <2>. QED
    BY <2>1, <2>2
<1>. QED
  BY <1>1, <1>3, <1>4

\* Adds without its set of terms.
LEMMA AddsFacts ==
  ASSUME NEW s, NEW term, NEW C, Adds(s, term, C)
  PROVE  /\ Len(s) \in Nat
         /\ \A i \in 1..Len(s) : \E c \in C : s[i] = term[c]
         /\ \A i, j \in 1..Len(s) : s[i] = s[j] => i = j
         /\ \A c \in C : \E i \in 1..Len(s) : s[i] = term[c]
<1>1. \A i \in 1..Len(s) : s[i] \in {term[c] : c \in C}
  BY DEF Adds
<1>. QED
  BY <1>1 DEF Adds

\* The columns of several pieces.
Columns(I, C) == UNION {C[b] : b \in I}

\* Sums of one length and of different columns.
Pieces(I, length, parts, term, C) ==
  /\ OneToOne(term, Columns(I, C))
  /\ \A b \in I : Adds(parts[b], term, C[b]) /\ Len(parts[b]) = length
  /\ \A b, d \in I : b # d => C[b] \cap C[d] = {}

\* Element k of n is that at a place of a piece; every place of every piece is taken once.
Order(n, I, length, piece, place) ==
  /\ piece \in [1..n -> I] /\ place \in [1..n -> 1..length]
  /\ \A k, m \in 1..n : piece[k] = piece[m] /\ place[k] = place[m] => k = m
  /\ \A b \in I, j \in 1..length : \E k \in 1..n : piece[k] = b /\ place[k] = j

Ordered(n, parts, piece, place) == [k \in 1..n |-> parts[piece[k]][place[k]]]

\* Pieces put together in any order.
LEMMA AddsPieces ==
  ASSUME NEW n \in Nat, NEW length \in Nat, NEW I, NEW parts, NEW term, NEW C,
         NEW piece, NEW place,
         Pieces(I, length, parts, term, C), Order(n, I, length, piece, place)
  PROVE  LET s == Ordered(n, parts, piece, place)
         IN Adds(s, term, Columns(I, C)) /\ Len(s) = n
<1>. USE DEF Pieces, Order, Columns
<1>. DEFINE D == UNION {C[b] : b \in I}
            T == {term[c] : c \in D}
            s == Ordered(n, parts, piece, place)
<1>1. \A b \in I : \A c \in C[b] : c \in D /\ term[c] \in T
  OBVIOUS
<1>2. OneToOne(term, D)
  OBVIOUS
<1>3. \A c \in D : \E b \in I : c \in C[b]
  OBVIOUS
<1>4. ASSUME NEW b \in I
      PROVE  /\ \A j \in 1..length : \E c \in C[b] : parts[b][j] = term[c]
             /\ \A i, j \in 1..length : parts[b][i] = parts[b][j] => i = j
             /\ \A c \in C[b] : \E j \in 1..length : parts[b][j] = term[c]
  <2>1. Adds(parts[b], term, C[b]) /\ Len(parts[b]) = length
    OBVIOUS
  <2>2. PICK p, Cb : p = parts[b] /\ Cb = C[b]
    OBVIOUS
  <2>3. /\ \A j \in 1..length : \E c \in Cb : p[j] = term[c]
        /\ \A i, j \in 1..length : p[i] = p[j] => i = j
        /\ \A c \in Cb : \E j \in 1..length : p[j] = term[c]
    <3>1. Adds(p, term, Cb) /\ Len(p) = length
      BY <2>1, <2>2
    <3>. QED
      BY ONLY <3>1, AddsFacts
  <2>. QED
    BY <2>2, <2>3
<1>5. /\ \A k \in 1..n : piece[k] \in I /\ place[k] \in 1..length
                         /\ s[k] = parts[piece[k]][place[k]]
      /\ s = [k \in 1..n |-> parts[piece[k]][place[k]]]
  BY DEF Ordered
<1>. HIDE DEF D, s
<1>sum. ASSUME NEW k \in 1..n
        PROVE  \E c \in C[piece[k]] : s[k] = term[c]
  <2>1. piece[k] \in I /\ place[k] \in 1..length
    BY ONLY <1>5, k \in 1..n
  <2>2. \E c \in C[piece[k]] : parts[piece[k]][place[k]] = term[c]
    BY ONLY <1>4, <2>1
  <2>3. s[k] = parts[piece[k]][place[k]]
    BY ONLY <1>5, k \in 1..n
  <2>. QED
    BY ONLY <2>2, <2>3
<1>6. s \in Seq(T) /\ Len(s) = n
  <2>1. \A k \in 1..n : s[k] \in T
    BY ONLY <1>1, <1>5, <1>sum
  <2>. HIDE DEF T
  <2>. QED
    BY ONLY <1>5, <2>1, n \in Nat
<1>7. ASSUME NEW k \in 1..n, NEW m \in 1..n, s[k] = s[m]
      PROVE  k = m
  <2>0. piece[k] \in I /\ piece[m] \in I /\ place[k] \in 1..length /\ place[m] \in 1..length
    BY <1>5
  <2>1. PICK c \in C[piece[k]] : s[k] = term[c]
    BY ONLY <1>sum, k \in 1..n
  <2>2. PICK d \in C[piece[m]] : s[m] = term[d]
    BY ONLY <1>sum, m \in 1..n
  <2>3. c = d
    <3>1. c \in D /\ d \in D
      BY ONLY <1>1, <2>0, c \in C[piece[k]], d \in C[piece[m]]
    <3>. QED
      BY ONLY <1>2, <1>7, <2>1, <2>2, <3>1 DEF OneToOne
  <2>4. piece[k] = piece[m]
    <3>1. \A b, d1 \in I : b # d1 => C[b] \cap C[d1] = {}
      OBVIOUS
    <3>. QED
      BY ONLY <2>0, <2>3, <3>1, c \in C[piece[k]], d \in C[piece[m]]
  <2>5. place[k] = place[m]
    <3>1. \A i, j \in 1..length : parts[piece[k]][i] = parts[piece[k]][j] => i = j
      BY ONLY <1>4, <2>0
    <3>2. parts[piece[k]][place[k]] = parts[piece[k]][place[m]]
      BY <1>5, <1>7, <2>4
    <3>. QED
      BY ONLY <2>0, <3>1, <3>2
  <2>. QED
    BY <2>4, <2>5
<1>8. ASSUME NEW c \in D
      PROVE  \E k \in 1..n : s[k] = term[c]
  <2>1. PICK b \in I : c \in C[b]
    BY <1>3
  <2>2. PICK j \in 1..length : parts[b][j] = term[c]
    BY <1>4, <2>1
  <2>3. PICK k \in 1..n : piece[k] = b /\ place[k] = j
    OBVIOUS
  <2>. QED
    BY <1>5, <2>2, <2>3
<1>9. Adds(s, term, D) /\ Len(s) = n
  BY <1>6, <1>7, <1>8 DEF Adds
<1>. QED
  BY <1>9 DEF D, s

\* n sums one after the other.
LEMMA AddsJoined ==
  ASSUME NEW n \in Nat, NEW length \in Nat \ {0}, NEW parts, Len(parts) = n, NEW term, NEW C,
         Pieces(1..n, length, parts, term, C)
  PROVE  /\ Adds(Joined(parts, length), term, Columns(1..n, C))
         /\ Len(Joined(parts, length)) = n * length
<1>. DEFINE m == n * length
            piece == [k \in 1..m |-> 1 + (k - 1) \div length]
            place == [k \in 1..m |-> 1 + ((k - 1) % length)]
<1>1. m \in Nat
  BY ProductsOfNumbers
<1>2. ASSUME NEW k \in 1..m
      PROVE  piece[k] \in 1..n /\ place[k] \in 1..length /\ k = length * (piece[k] - 1) + place[k]
  <2>. DEFINE b == (k - 1) \div length
              j == 1 + ((k - 1) % length)
  <2>1. b \in 0..n - 1 /\ j \in 1..length /\ k = length * b + j
    <3>1. n \in Nat /\ length \in Nat \ {0} /\ k \in 1..n * length
      OBVIOUS
    <3>. QED
      BY ONLY <3>1, PieceOf
  <2>2. piece[k] = 1 + b /\ place[k] = j
    OBVIOUS
  <2>. HIDE DEF b, j
  <2>3. 1 + b \in 1..n /\ 1 + b - 1 = b
    BY <2>1
  <2>. QED
    BY <2>1, <2>2, <2>3
<1>3. ASSUME NEW b \in 1..n, NEW j \in 1..length
      PROVE  \E k \in 1..m : piece[k] = b /\ place[k] = j
  <2>1. PICK a \in 0..n - 1 : b = 1 + a
    BY b - 1 \in 0..n - 1 /\ b = 1 + (b - 1)
  <2>2. PICK k : k = length * a + j
    OBVIOUS
  <2>3. k \in 1..m /\ (k - 1) \div length = a /\ 1 + ((k - 1) % length) = j
    BY ONLY <2>1, <2>2, PlaceOf, n \in Nat, length \in Nat \ {0}, j \in 1..length
  <2>. QED
    BY <2>1, <2>3
<1>4. /\ piece \in [1..m -> 1..n] /\ place \in [1..m -> 1..length]
      /\ Joined(parts, length) = Ordered(m, parts, piece, place)
  BY <1>2 DEF Joined, Ordered
<1>. HIDE DEF m, piece, place
<1>5. \A k, l \in 1..m : piece[k] = piece[l] /\ place[k] = place[l] => k = l
  BY <1>2
<1>6. Order(m, 1..n, length, piece, place)
  BY <1>3, <1>4, <1>5 DEF Order
<1>7. /\ Adds(Joined(parts, length), term, Columns(1..n, C))
      /\ Len(Joined(parts, length)) = m
  BY <1>1, <1>4, <1>6, AddsPieces
<1>. QED
  BY <1>7 DEF m

-----------------------------------------------------------------------------
(* Lanes.                                                                   *)

\* Eight lanes: column 8 * v + b - 1 is in lane b of step v, and in no other.
LEMMA LanesApart ==
  ASSUME NEW v \in Nat, NEW w \in Nat, NEW b \in 1..8, NEW d \in 1..8,
         8 * v + b - 1 = 8 * w + d - 1
  PROVE  v = w /\ b = d
BY Z3

LEMMA LaneFor ==
  ASSUME NEW m \in Nat, NEW c \in 0..8 * m - 1
  PROVE  c \div 8 \in 0..m - 1 /\ 1 + (c % 8) \in 1..8 /\ c = 8 * (c \div 8) + (1 + (c % 8)) - 1
BY Z3

\* The horizontal sum of eight lanes that add different columns.
LEMMA AddsLanes ==
  ASSUME NEW m \in Nat, NEW acc, NEW term, NEW C, Pieces(1..8, m, acc, term, C)
  PROVE  /\ Adds(HorizontalSum(acc), term, Columns(1..8, C))
         /\ Len(HorizontalSum(acc)) = 8 * m
<1>1. /\ OneToOne(term, Columns(1..8, C))
      /\ \A b, d \in 1..8 : b # d => C[b] \cap C[d] = {}
      /\ \A l \in 1..8 : Adds(acc[l], term, C[l]) /\ Len(acc[l]) = m
  BY DEF Pieces
<1>2. \A l \in 1..8 : Columns({l}, C) = C[l]
  BY DEF Columns
<1>. DEFINE Has(s, I, n) == Adds(s, term, Columns(I, C)) /\ Len(s) = n
<1>3. \A l \in 1..8 : Has(acc[l], {l}, m)
  BY <1>1, <1>2
<1>4. ASSUME NEW I \in SUBSET (1..8), NEW J \in SUBSET (1..8), I \cap J = {},
             NEW i \in Nat, NEW j \in Nat, NEW s, NEW t, Has(s, I, i), Has(t, J, j)
      PROVE  Has(s \o t, I \cup J, i + j)
  <2>1. /\ Columns(I, C) \cup Columns(J, C) = Columns(I \cup J, C)
        /\ OneToOne(term, Columns(I, C) \cup Columns(J, C))
    <3>1. Columns(I, C) \cup Columns(J, C) = Columns(I \cup J, C)
      BY DEF Columns
    <3>2. Columns(I \cup J, C) \subseteq Columns(1..8, C)
      BY DEF Columns
    <3>. QED
      BY <1>1, <3>1, <3>2 DEF OneToOne
  <2>2. Columns(I, C) \cap Columns(J, C) = {}
    <3>1. \A b \in I, d \in J : C[b] \cap C[d] = {}
      BY <1>1, <1>4
    <3>. QED
      BY <3>1 DEF Columns
  <2>3. PICK D, E : D = Columns(I, C) /\ E = Columns(J, C)
    OBVIOUS
  <2>4. /\ OneToOne(term, D \cup E) /\ D \cap E = {} /\ Adds(s, term, D) /\ Adds(t, term, E)
        /\ Len(s) = i /\ Len(t) = j
    BY <1>4, <2>1, <2>2, <2>3
  <2>5. Adds(s \o t, term, D \cup E) /\ Len(s \o t) = Len(s) + Len(t)
    BY ONLY <2>4, AddsBoth
  <2>. QED
    BY <2>1, <2>3, <2>4, <2>5
<1>. HIDE DEF Has
<1>5. \A l \in 1..4 : Has(acc[l] \o acc[l + 4], {l, l + 4}, 2 * m)
  <2>1. SUFFICES ASSUME NEW l \in 1..4
                 PROVE  Has(acc[l] \o acc[l + 4], {l, l + 4}, 2 * m)
    OBVIOUS
  <2>2. /\ l \in 1..8 /\ l + 4 \in 1..8 /\ {l} \in SUBSET (1..8) /\ {l + 4} \in SUBSET (1..8)
        /\ {l} \cap {l + 4} = {} /\ {l} \cup {l + 4} = {l, l + 4} /\ m + m = 2 * m
    OBVIOUS
  <2>3. Has(acc[l], {l}, m) /\ Has(acc[l + 4], {l + 4}, m)
    BY <1>3, <2>2
  <2>4. Has(acc[l] \o acc[l + 4], {l} \cup {l + 4}, m + m)
    BY ONLY <1>4, <2>2, <2>3, m \in Nat
  <2>. QED
    BY <2>2, <2>4
<1>. DEFINE sum128 == [l \in 1..4 |-> acc[l] \o acc[l + 4]]
            pair == [l \in 1..2 |-> sum128[l] \o sum128[l + 2]]
<1>6. \A l \in 1..4 : Has(sum128[l], {l, l + 4}, 2 * m)
  BY <1>5
<1>. HIDE DEF sum128
<1>7. \A l \in 1..2 : Has(pair[l], {l, l + 4, l + 2, l + 6}, 4 * m)
  <2>1. SUFFICES ASSUME NEW l \in 1..2
                 PROVE  Has(pair[l], {l, l + 4, l + 2, l + 6}, 4 * m)
    OBVIOUS
  <2>2. /\ l \in 1..4 /\ l + 2 \in 1..4 /\ l + 2 + 4 = l + 6
        /\ {l, l + 4} \in SUBSET (1..8) /\ {l + 2, l + 6} \in SUBSET (1..8)
        /\ {l, l + 4} \cap {l + 2, l + 6} = {}
        /\ {l, l + 4} \cup {l + 2, l + 6} = {l, l + 4, l + 2, l + 6}
        /\ 2 * m \in Nat /\ 2 * m + 2 * m = 4 * m
    OBVIOUS
  <2>3. Has(sum128[l], {l, l + 4}, 2 * m) /\ Has(sum128[l + 2], {l + 2, l + 6}, 2 * m)
    BY <1>6, <2>2
  <2>4. Has(sum128[l] \o sum128[l + 2], {l, l + 4} \cup {l + 2, l + 6}, 2 * m + 2 * m)
    BY ONLY <1>4, <2>2, <2>3
  <2>. QED
    BY <2>2, <2>4
<1>8. HorizontalSum(acc) = pair[1] \o pair[2]
  BY DEF HorizontalSum, sum128
<1>. HIDE DEF pair
<1>9. Has(pair[1] \o pair[2], 1..8, 8 * m)
  <2>1. /\ {1, 5, 3, 7} \in SUBSET (1..8) /\ {2, 6, 4, 8} \in SUBSET (1..8)
        /\ {1, 5, 3, 7} \cap {2, 6, 4, 8} = {} /\ {1, 5, 3, 7} \cup {2, 6, 4, 8} = 1..8
        /\ 4 * m \in Nat /\ 4 * m + 4 * m = 8 * m
    OBVIOUS
  <2>2. Has(pair[1], {1, 5, 3, 7}, 4 * m) /\ Has(pair[2], {2, 6, 4, 8}, 4 * m)
    BY <1>7
  <2>3. Has(pair[1] \o pair[2], {1, 5, 3, 7} \cup {2, 6, 4, 8}, 4 * m + 4 * m)
    BY ONLY <1>4, <2>1, <2>2
  <2>. QED
    BY <2>1, <2>3
<1>. QED
  BY <1>8, <1>9 DEF Has

\* s adds the first n terms.
Sums(s, term, n) == Adds(s, term, 0..n - 1) /\ Len(s) = n

\* Step k adds eight neighbouring terms, one in each lane.
LEMMA StepsSum ==
  ASSUME NEW m \in Nat, NEW term, OneToOne(term, 0..8 * m - 1),
         NEW u \in [1..m -> 0..m - 1],
         \A i, j \in 1..m : u[i] = u[j] => i = j,
         \A i \in 0..m - 1 : \E k \in 1..m : u[k] = i,
         NEW acc, \A l \in 1..8 : acc[l] = [k \in 1..m |-> term[8 * u[k] + l - 1]]
  PROVE  Sums(HorizontalSum(acc), term, 8 * m)
<1>1. PICK C : C = [l \in 1..8 |-> {8 * u[k] + l - 1 : k \in 1..m}]
  OBVIOUS
<1>2. \A k \in 1..m : u[k] \in 0..m - 1 /\ u[k] \in Nat
  OBVIOUS
<1>3. Columns(1..8, C) = 0..8 * m - 1
  <2>1. ASSUME NEW l \in 1..8, NEW k \in 1..m
        PROVE  8 * u[k] + l - 1 \in 0..8 * m - 1
    <3>1. PICK v \in 0..m - 1 : v = u[k]
      BY <1>2
    <3>2. 8 * v + l - 1 \in 0..8 * m - 1
      OBVIOUS
    <3>. QED
      BY <3>1, <3>2
  <2>2. ASSUME NEW c \in 0..8 * m - 1
        PROVE  \E l \in 1..8 : \E k \in 1..m : c = 8 * u[k] + l - 1
    <3>1. PICK i \in 0..m - 1, l \in 1..8 : c = 8 * i + l - 1
      <4>1. c \div 8 \in 0..m - 1 /\ 1 + (c % 8) \in 1..8 /\ c = 8 * (c \div 8) + (1 + (c % 8)) - 1
        BY ONLY LaneFor, m \in Nat, c \in 0..8 * m - 1
      <4>. QED
        BY <4>1
    <3>2. PICK k \in 1..m : u[k] = i
      OBVIOUS
    <3>. QED
      BY <3>1, <3>2
  <2>3. \A l \in 1..8 : \A c : c \in C[l] <=> \E k \in 1..m : c = 8 * u[k] + l - 1
    BY <1>1
  <2>4. \A c : c \in Columns(1..8, C) <=> \E l \in 1..8 : c \in C[l]
    BY DEF Columns
  <2>5. Columns(1..8, C) \subseteq 0..8 * m - 1
    <3>1. SUFFICES ASSUME NEW c \in Columns(1..8, C)
                   PROVE  c \in 0..8 * m - 1
      OBVIOUS
    <3>2. PICK l \in 1..8 : c \in C[l]
      BY <2>4
    <3>3. PICK k \in 1..m : c = 8 * u[k] + l - 1
      BY <2>3, <3>2
    <3>. QED
      BY <2>1, <3>3
  <2>6. 0..8 * m - 1 \subseteq Columns(1..8, C)
    BY ONLY <2>2, <2>3, <2>4
  <2>. QED
    BY <2>5, <2>6
<1>4. ASSUME NEW l \in 1..8
      PROVE  Adds(acc[l], term, C[l]) /\ Len(acc[l]) = m
  <2>1. PICK cl : cl = [k \in 1..m |-> 8 * u[k] + l - 1]
    OBVIOUS
  <2>2. PICK Cl, al : Cl = C[l] /\ al = acc[l]
    OBVIOUS
  <2>3. Cl = {8 * u[k] + l - 1 : k \in 1..m}
    BY <1>1, <2>2
  <2>4. cl \in [1..m -> Cl] /\ \A c \in Cl : \E i \in 1..m : cl[i] = c
    BY ONLY <2>1, <2>3
  <2>5. \A i, j \in 1..m : cl[i] = cl[j] => i = j
    <3>1. SUFFICES ASSUME NEW i \in 1..m, NEW j \in 1..m, 8 * u[i] + l - 1 = 8 * u[j] + l - 1
                   PROVE  i = j
      BY <2>1
    <3>2. u[i] \in Nat /\ u[j] \in Nat
      BY <1>2
    <3>3. u[i] = u[j]
      BY ONLY <3>1, <3>2, LanesApart, l \in 1..8
    <3>. QED
      BY <3>3
  <2>6. al = Listed(m, cl, term)
    <3>1. al = [k \in 1..m |-> term[8 * u[k] + l - 1]]
      BY <2>2
    <3>. QED
      BY ONLY <2>1, <3>1 DEF Listed
  <2>7. OneToOne(term, Cl)
    <3>1. Cl \subseteq Columns(1..8, C)
      BY <2>2 DEF Columns
    <3>. QED
      BY <1>3, <3>1 DEF OneToOne
  <2>8. Adds(al, term, Cl) /\ Len(al) = m
    <3>1. Lists(m, cl, Cl)
      BY ONLY <2>4, <2>5 DEF Lists
    <3>. QED
      BY ONLY <2>6, <2>7, <3>1, AddsListed, m \in Nat
  <2>. QED
    BY <2>2, <2>8
<1>5. ASSUME NEW b \in 1..8, NEW d \in 1..8, b # d
      PROVE  C[b] \cap C[d] = {}
  <2>1. ASSUME NEW i \in 1..m, NEW k \in 1..m
        PROVE  8 * u[i] + b - 1 # 8 * u[k] + d - 1
    <3>1. u[i] \in Nat /\ u[k] \in Nat
      BY <1>2
    <3>. QED
      BY ONLY <1>5, <3>1, LanesApart, b \in 1..8, d \in 1..8
  <2>. QED
    BY <1>1, <2>1
<1>6. Pieces(1..8, m, acc, term, C)
  BY <1>3, <1>4, <1>5 DEF Pieces
<1>. QED
  BY <1>3, <1>6, AddsLanes DEF Sums

\* The terms of one block, by their column in it.
TermsOf(term, length, b) == [c \in 0..length - 1 |-> term[length * b + c]]

ColumnsOf(length, b) == {length * b + c : c \in 0..length - 1}

\* The sum of a block, as a part of the sum of the row.
LEMMA AddsOfBlock ==
  ASSUME NEW length \in Nat, NEW b, NEW term, NEW s, Sums(s, TermsOf(term, length, b), length)
  PROVE  Adds(s, term, ColumnsOf(length, b)) /\ Len(s) = length
<1>. DEFINE f == TermsOf(term, length, b)
            D == 0..length - 1
<1>1. \A c \in D : f[c] = term[length * b + c]
  BY DEF TermsOf
<1>2. Adds(s, f, D) /\ Len(s) = length
  BY DEF Sums
<1>3. {f[c] : c \in D} = {term[c] : c \in ColumnsOf(length, b)}
  BY <1>1 DEF ColumnsOf
<1>4. \A c \in ColumnsOf(length, b) : \E d \in D : f[d] = term[c]
  BY <1>1 DEF ColumnsOf
<1>. HIDE DEF f, D
<1>5. s \in Seq({f[c] : c \in D}) /\ \A i, j \in 1..Len(s) : s[i] = s[j] => i = j
  BY <1>2 DEF Adds
<1>6. \A d \in D : \E i \in 1..Len(s) : s[i] = f[d]
  BY <1>2 DEF Adds
<1>7. \A c \in ColumnsOf(length, b) : \E i \in 1..Len(s) : s[i] = term[c]
  BY ONLY <1>4, <1>6
<1>8. s \in Seq({term[c] : c \in ColumnsOf(length, b)})
  BY <1>3, <1>5
<1>. QED
  BY <1>2, <1>5, <1>7, <1>8 DEF Adds

\* The columns of the blocks are the columns of the row, and no two blocks share one.
LEMMA ColumnsOfAll ==
  ASSUME NEW n \in Nat, NEW length \in Nat \ {0},
         NEW C, C = [i \in 1..n |-> ColumnsOf(length, i - 1)]
  PROVE  /\ Columns(1..n, C) = 0..n * length - 1
         /\ \A i, j \in 1..n : i # j => C[i] \cap C[j] = {}
<1>0. n * length \in Nat
  BY ProductsOfNumbers
<1>1. ASSUME NEW b \in 0..n - 1, NEW c \in 0..length - 1
      PROVE  length * b + c \in 0..n * length - 1 /\ (length * b + c) \div length = b
  <2>1. c + 1 \in 1..length
    OBVIOUS
  <2>2. /\ length * b + (c + 1) \in 1..n * length
        /\ (length * b + (c + 1) - 1) \div length = b
    BY ONLY <2>1, PlaceOf, n \in Nat, length \in Nat \ {0}, b \in 0..n - 1
  <2>3. length * b + (c + 1) - 1 = length * b + c /\ length * b \in Nat
    BY ProductsOfNumbers
  <2>. QED
    BY <1>0, <2>2, <2>3
<1>2. ASSUME NEW k \in 0..n * length - 1
      PROVE  \E b \in 0..n - 1, c \in 0..length - 1 : k = length * b + c
  <2>1. PICK m \in 1..n * length : m = k + 1
    BY <1>0
  <2>. DEFINE b == (m - 1) \div length
              j == 1 + ((m - 1) % length)
  <2>2. b \in 0..n - 1 /\ j \in 1..length /\ m = length * b + j
    BY ONLY PieceOf, n \in Nat, length \in Nat \ {0}, m \in 1..n * length
  <2>. HIDE DEF b, j
  <2>3. j - 1 \in 0..length - 1 /\ k = length * b + (j - 1)
    BY <2>1, <2>2, ProductsOfNumbers
  <2>. QED
    BY <2>2, <2>3
<1>3. \A i \in 1..n : i - 1 \in 0..n - 1 /\ C[i] = ColumnsOf(length, i - 1)
  OBVIOUS
<1>4. ASSUME NEW i \in 1..n, NEW k \in C[i]
      PROVE  k \in 0..n * length - 1 /\ k \div length = i - 1
  <2>1. PICK c \in 0..length - 1 : k = length * (i - 1) + c
    BY <1>3 DEF ColumnsOf
  <2>. QED
    BY <1>1, <1>3, <2>1
<1>5. ASSUME NEW k \in 0..n * length - 1
      PROVE  \E i \in 1..n : k \in C[i]
  <2>1. PICK b \in 0..n - 1, c \in 0..length - 1 : k = length * b + c
    BY <1>2
  <2>2. b + 1 \in 1..n /\ b + 1 - 1 = b
    OBVIOUS
  <2>3. C[b + 1] = ColumnsOf(length, b)
    BY <1>3, <2>2
  <2>4. k \in C[b + 1]
    BY <2>1, <2>3 DEF ColumnsOf
  <2>. QED
    BY <2>2, <2>4
<1>6. Columns(1..n, C) = 0..n * length - 1
  BY <1>4, <1>5 DEF Columns
<1>7. ASSUME NEW i \in 1..n, NEW j \in 1..n, i # j
      PROVE  C[i] \cap C[j] = {}
  BY <1>4, <1>7
<1>. QED
  BY <1>6, <1>7

\* A sum made block by block.
LEMMA BlocksSum ==
  ASSUME NEW n \in Nat, NEW length \in Nat \ {0}, NEW term, OneToOne(term, 0..n * length - 1),
         NEW parts, Len(parts) = n,
         \A b \in 0..n - 1 : Sums(parts[b + 1], TermsOf(term, length, b), length)
  PROVE  Sums(Joined(parts, length), term, n * length)
<1>1. PICK C : C = [i \in 1..n |-> ColumnsOf(length, i - 1)]
  OBVIOUS
<1>2. /\ Columns(1..n, C) = 0..n * length - 1
      /\ \A i, j \in 1..n : i # j => C[i] \cap C[j] = {}
  BY ONLY <1>1, ColumnsOfAll, n \in Nat, length \in Nat \ {0}
<1>3. ASSUME NEW i \in 1..n
      PROVE  Adds(parts[i], term, C[i]) /\ Len(parts[i]) = length
  <2>1. i - 1 \in 0..n - 1 /\ (i - 1) + 1 = i
    OBVIOUS
  <2>2. Sums(parts[i], TermsOf(term, length, i - 1), length)
    BY <2>1
  <2>3. Adds(parts[i], term, ColumnsOf(length, i - 1)) /\ Len(parts[i]) = length
    BY ONLY <2>2, AddsOfBlock, length \in Nat \ {0}
  <2>. QED
    BY <1>1, <2>3
<1>4. Pieces(1..n, length, parts, term, C)
  BY <1>2, <1>3 DEF Pieces
<1>5. /\ Adds(Joined(parts, length), term, Columns(1..n, C))
      /\ Len(Joined(parts, length)) = n * length
  BY ONLY <1>4, AddsJoined, n \in Nat, length \in Nat \ {0}, Len(parts) = n
<1>. QED
  BY <1>2, <1>5 DEF Sums

\* All terms in their order.
LEMMA RowSums ==
  ASSUME NEW n \in Nat, NEW term, OneToOne(term, 0..n - 1)
  PROVE  Sums([k \in 1..n |-> term[k - 1]], term, n)
<1>1. PICK col : col = [k \in 1..n |-> k - 1]
  OBVIOUS
<1>2. \A c \in 0..n - 1 : \E i \in 1..n : col[i] = c
  <2>1. \A c \in 0..n - 1 : c + 1 \in 1..n /\ (c + 1) - 1 = c
    OBVIOUS
  <2>. QED
    BY <1>1, <2>1
<1>3. Lists(n, col, 0..n - 1)
  BY <1>1, <1>2 DEF Lists
<1>4. Listed(n, col, term) = [k \in 1..n |-> term[k - 1]]
  BY <1>1 DEF Listed
<1>. QED
  BY <1>3, <1>4, AddsListed DEF Sums

\* What the properties of KernelCalls say of a sum.
LEMMA AddsIsSumOf ==
  ASSUME NEW s, NEW term, NEW C, Adds(s, term, C)
  PROVE  IsSumOf(s, {term[c] : c \in C})
<1>. DEFINE T == {term[c] : c \in C}
<1>1. /\ s \in Seq(T)
      /\ \A i, j \in 1..Len(s) : s[i] = s[j] => i = j
      /\ \A c \in C : \E i \in 1..Len(s) : s[i] = term[c]
  BY DEF Adds
<1>2. PICK n \in Nat : n = Len(s)
  BY <1>1
<1>3. \A x \in T : \E i \in 1..n : s[i] = x
  BY <1>1, <1>2
<1>. HIDE DEF T
<1>4. DOMAIN s = 1..n /\ s \in [1..n -> T]
  BY <1>1, <1>2
<1>5. s \in Bijection(1..n, T)
  BY <1>1, <1>2, <1>3, <1>4 DEF Bijection, Injection, Surjection, IsInjective
<1>6. ExistsBijection(1..n, T)
  BY <1>5 DEF ExistsBijection
<1>7. Cardinality(T) = n
  BY <1>6, FS_CountingElements
<1>8. ToSet(s) = T
  BY <1>3, <1>4 DEF ToSet
<1>9. IsSumOf(s, T)
  BY <1>2, <1>7, <1>8 DEF IsSumOf
<1>. QED
  BY <1>9 DEF T

\* A sum whose terms are replaced one by one.
LEMMA AddsRenamed ==
  ASSUME NEW s, NEW term, NEW C, Adds(s, term, C), NEW new, OneToOne(new, C),
         NEW u, u = [i \in DOMAIN s |-> u[i]],
         \A i \in DOMAIN s : \A c \in C : s[i] = term[c] => u[i] = new[c]
  PROVE  Adds(u, new, C)
<1>1. PICK n \in Nat : n = Len(s)
  BY AddsFacts
<1>2. /\ \A i \in 1..n : \E c \in C : s[i] = term[c]
      /\ \A i, j \in 1..n : s[i] = s[j] => i = j
      /\ \A c \in C : \E i \in 1..n : s[i] = term[c]
  BY <1>1, AddsFacts
<1>3. DOMAIN s = 1..n
  BY <1>1 DEF Adds
<1>4. PICK T : T = {new[c] : c \in C}
  OBVIOUS
<1>5. \A i \in 1..n : \E c \in C : s[i] = term[c] /\ u[i] = new[c]
  BY <1>2, <1>3
<1>6. u \in [1..n -> T]
  BY <1>3, <1>4, <1>5
<1>7. u \in Seq(T) /\ Len(u) = n
  BY <1>6
<1>8. ASSUME NEW i \in 1..n, NEW j \in 1..n, u[i] = u[j]
      PROVE  i = j
  <2>1. PICK c \in C : s[i] = term[c] /\ u[i] = new[c]
    BY <1>5
  <2>2. PICK d \in C : s[j] = term[d] /\ u[j] = new[d]
    BY <1>5
  <2>3. c = d
    BY <1>8, <2>1, <2>2 DEF OneToOne
  <2>. QED
    BY <1>2, <2>1, <2>2, <2>3
<1>9. ASSUME NEW c \in C
      PROVE  \E i \in 1..n : u[i] = new[c]
  BY <1>2, <1>3
<1>. QED
  BY <1>4, <1>7, <1>8, <1>9 DEF Adds

-----------------------------------------------------------------------------
(* The terms of a row.                                                      *)

\* The products of n columns of a row at address a with the floats from x on.
RowTerms(format, a, n, x) ==
  [c \in 0..n - 1 |-> <<Decoded(format, a, KernelColumn(format, c)), x + c>>]

\* No two terms of a row are the same: they are of different floats.
LEMMA RowTermsDiffer ==
  ASSUME NEW format, NEW a, NEW n \in Nat, NEW x \in Nat
  PROVE  OneToOne(RowTerms(format, a, n, x), 0..n - 1)
<1>1. \A c \in 0..n - 1 : RowTerms(format, a, n, x)[c][2] = x + c
  BY DEF RowTerms
<1>2. \A c, d \in 0..n - 1 : x + c = x + d => c = d
  OBVIOUS
<1>. QED
  BY <1>1, <1>2 DEF OneToOne

\* The shapes of the blocks.
LEMMA BlockShapes ==
  /\ BlockColumns["F16"] = 1 /\ BlockBytes["F16"] = 2
  /\ BlockColumns["Q4_0"] = 32 /\ BlockBytes["Q4_0"] = 18
  /\ BlockColumns["Q8_0"] = 32 /\ BlockBytes["Q8_0"] = 34
  /\ BlockColumns["Q4_K"] = 256 /\ BlockBytes["Q4_K"] = 144
  /\ BlockColumns["Q6_K"] = 256 /\ BlockBytes["Q6_K"] = 210
  /\ \A format \in Formats : BlockColumns[format] \in Nat \ {0} /\ BlockBytes[format] \in Nat \ {0}
BY DEF BlockColumns, BlockBytes, Formats

\* Column c of block b.
LEMMA DivideBlock ==
  ASSUME NEW n \in Nat \ {0}, NEW b \in Nat, NEW c \in 0..n - 1
  PROVE  /\ (n * b + c) \div n = b /\ (n * b + c) % n = c
         /\ c \div n = 0 /\ c % n = c
         /\ n * b \in Nat
<1>1. /\ (n * b + c) \div n = b /\ (n * b + c) % n = c
  BY Z3
<1>2. c \div n = 0 /\ c % n = c
  BY Z3
<1>. QED
  BY <1>1, <1>2, ProductsOfNumbers

\* A column is decoded from its block.
LEMMA DecodedInBlock ==
  ASSUME NEW format \in Formats, NEW a \in Nat, NEW b \in Nat, NEW c \in 0..BlockColumns[format] - 1
  PROVE  Decoded(format, a, BlockColumns[format] * b + c)
           = Decoded(format, a + BlockBytes[format] * b, c)
<1>. DEFINE n == BlockColumns[format]
            m == BlockBytes[format]
<1>1. n \in Nat \ {0} /\ m \in Nat /\ c \in 0..n - 1
  BY BlockShapes
<1>2. /\ (n * b + c) \div n = b /\ (n * b + c) % n = c
      /\ c \div n = 0 /\ c % n = c
  <2>. HIDE DEF n
  <2>. QED
    BY ONLY <1>1, DivideBlock, b \in Nat
<1>3. m * b \in Nat
  BY <1>1, ProductsOfNumbers
<1>4. a + m * ((n * b + c) \div n) = a + m * b /\ a + m * b + m * (c \div n) = a + m * b
  <2>1. PICK q, r : q = (n * b + c) \div n /\ r = c \div n /\ q = b /\ r = 0
    BY <1>2
  <2>2. m * q = m * b /\ m * r = 0
    BY ONLY <1>1, <2>1
  <2>. QED
    BY ONLY <1>3, <2>1, <2>2, a \in Nat
<1>. QED
  BY <1>2, <1>4 DEF Decoded

\* The kernels of Q4_0 permute the columns within each block.
LEMMA KernelColumnInBlock ==
  ASSUME NEW format \in Formats, NEW b \in Nat, NEW c \in 0..BlockColumns[format] - 1
  PROVE  /\ KernelColumn(format, c) \in 0..BlockColumns[format] - 1
         /\ KernelColumn(format, BlockColumns[format] * b + c)
              = BlockColumns[format] * b + KernelColumn(format, c)
<1>1. CASE format = "Q4_0"
  <2>1. c \in 0..31
    BY <1>1, BlockShapes
  <2>2. /\ (32 * b + c) \div 32 = b /\ (32 * b + c) % 32 = c /\ (32 * b + c) % 2 = c % 2
        /\ c \div 32 = 0 /\ c % 32 = c /\ c \div 2 \in 0..15
    BY <2>1
  <2>3. KernelColumn("Q4_0", c) = (IF c % 2 = 0 THEN 0 ELSE 16) + (c \div 2)
    BY <2>1, <2>2 DEF KernelColumn
  <2>4. KernelColumn("Q4_0", 32 * b + c) = 32 * b + (IF c % 2 = 0 THEN 0 ELSE 16) + (c \div 2)
    BY <2>1, <2>2 DEF KernelColumn
  <2>. QED
    BY <1>1, <2>2, <2>3, <2>4, BlockShapes
<1>2. CASE format # "Q4_0"
  BY <1>2 DEF KernelColumn
<1>. QED
  BY <1>1, <1>2

\* The terms of a block of a row are those of a row of one block.
LEMMA BlockOfRow ==
  ASSUME NEW format \in Formats, NEW a \in Nat, NEW x \in Nat, NEW n \in Nat, NEW b \in 0..n - 1,
         NEW length, length = BlockColumns[format]
  PROVE  TermsOf(RowTerms(format, a, n * length, x), length, b)
           = RowTerms(format, a + BlockBytes[format] * b, length, x + length * b)
<1>1. length \in Nat \ {0}
  BY BlockShapes
<1>2. ASSUME NEW c \in 0..length - 1
      PROVE  /\ length * b + c \in 0..n * length - 1
             /\ x + (length * b + c) = x + length * b + c
             /\ Decoded(format, a, KernelColumn(format, length * b + c))
                  = Decoded(format, a + BlockBytes[format] * b, KernelColumn(format, c))
  <2>1. c + 1 \in 1..length
    BY <1>1
  <2>2. length * b + (c + 1) \in 1..n * length
    BY ONLY <1>1, <2>1, PlaceOf, n \in Nat, b \in 0..n - 1
  <2>3. length * b \in Nat /\ n * length \in Nat /\ b \in Nat
    BY <1>1, ProductsOfNumbers
  <2>4. /\ KernelColumn(format, c) \in 0..length - 1
        /\ KernelColumn(format, length * b + c) = length * b + KernelColumn(format, c)
    BY ONLY <1>2, <2>3, KernelColumnInBlock, format \in Formats, length = BlockColumns[format]
  <2>5. Decoded(format, a, length * b + KernelColumn(format, c))
          = Decoded(format, a + BlockBytes[format] * b, KernelColumn(format, c))
    BY ONLY <2>3, <2>4, DecodedInBlock, format \in Formats, a \in Nat, length = BlockColumns[format]
  <2>. QED
    BY <2>2, <2>3, <2>4, <2>5
<1>. QED
  BY <1>2 DEF TermsOf, RowTerms

-----------------------------------------------------------------------------
(* The native kernels.                                                      *)

\* A kernel that sums block by block.
LEMMA BlockwiseSum ==
  ASSUME NEW format \in Formats, NEW a \in Nat, NEW x \in Nat, NEW n \in Nat,
         NEW length, length = BlockColumns[format], NEW parts, Len(parts) = n,
         \A b \in 0..n - 1 :
           Sums(parts[b + 1], RowTerms(format, a + BlockBytes[format] * b, length, x + length * b),
                length)
  PROVE  Sums(Joined(parts, length), RowTerms(format, a, n * length, x), n * length)
<1>1. length \in Nat \ {0} /\ n * length \in Nat
  BY BlockShapes, ProductsOfNumbers
<1>2. PICK term : term = RowTerms(format, a, n * length, x)
  OBVIOUS
<1>3. OneToOne(term, 0..n * length - 1)
  BY <1>1, <1>2, RowTermsDiffer
<1>4. ASSUME NEW b \in 0..n - 1
      PROVE  Sums(parts[b + 1], TermsOf(term, length, b), length)
  <2>1. TermsOf(RowTerms(format, a, n * length, x), length, b)
          = RowTerms(format, a + BlockBytes[format] * b, length, x + length * b)
    BY BlockOfRow
  <2>. QED
    BY <1>2, <2>1
<1>. QED
  BY ONLY <1>1, <1>2, <1>3, <1>4, BlocksSum, n \in Nat, Len(parts) = n

\* Blocks of a row of whole blocks.
LEMMA BlocksOfRow ==
  ASSUME NEW format \in Formats, NEW n \in Nat, NEW length, length = BlockColumns[format]
  PROVE  Blocks(format, n * length) = n
<1>1. length \in Nat \ {0}
  BY BlockShapes
<1>2. (n * length) \div length = n
  BY ONLY <1>1, n \in Nat, Z3
<1>. QED
  BY <1>2 DEF Blocks

\* Batched kernels unpack a block into its decoded weights.
LEMMA UnpackedIsDecoded ==
  ASSUME NEW format \in {"Q4_0", "Q8_0", "Q4_K"}, NEW blk \in Nat,
         NEW k \in 0..BlockColumns[format] - 1
  PROVE  Unpacked(format, blk)[k] = Decoded(format, blk, KernelColumn(format, k))
<1>1. CASE format = "Q4_0"
  <2>1. k \in 0..31
    BY <1>1, BlockShapes
  <2>2. /\ k \div 32 = 0 /\ k % 32 = k /\ k \div 2 \in 0..15
    BY <2>1
  <2>3. PICK c : c = KernelColumn("Q4_0", k)
    OBVIOUS
  <2>4. c = (IF k % 2 = 0 THEN 0 ELSE 16) + (k \div 2)
    BY <2>1, <2>2, <2>3 DEF KernelColumn
  <2>5. c \in 0..31 /\ c \div 32 = 0 /\ c % 32 = c /\ blk + 18 * (c \div 32) = blk
    BY <2>2, <2>4
  <2>6. Decoded("Q4_0", blk, c) = DecodedQ4_0(blk, c)
    BY <2>5, BlockShapes DEF Decoded
  <2>7. Unpacked("Q4_0", blk)[k]
          = Q4_0Weight(blk, IF k % 2 = 0 THEN Low(blk + 2 + k \div 2) ELSE High(blk + 2 + k \div 2))
    BY <2>1 DEF Unpacked, UnpackedQ4_0
  <2>8. DecodedQ4_0(blk, c)
          = Q4_0Weight(blk, IF k % 2 = 0 THEN Low(blk + 2 + k \div 2) ELSE High(blk + 2 + k \div 2))
    <3>1. CASE k % 2 = 0
      BY <2>2, <2>4, <3>1 DEF DecodedQ4_0
    <3>2. CASE k % 2 # 0
      <4>1. c >= 16 /\ blk + 2 + c - 16 = blk + 2 + k \div 2
        BY <2>2, <2>4, <3>2
      <4>. QED
        BY <3>2, <4>1, <2>5 DEF DecodedQ4_0
    <3>. QED
      BY <3>1, <3>2
  <2>. QED
    BY <1>1, <2>3, <2>6, <2>7, <2>8
<1>2. CASE format = "Q8_0"
  <2>1. k \in 0..31
    BY <1>2, BlockShapes
  <2>2. k % 32 = k /\ blk + 34 * (k \div 32) = blk
    BY <2>1
  <2>. QED
    BY <1>2, <2>1, <2>2, BlockShapes DEF Decoded, KernelColumn, Unpacked, UnpackedQ8_0
<1>3. CASE format = "Q4_K"
  <2>1. k \in 0..255
    BY <1>3, BlockShapes
  <2>2. k % 256 = k /\ blk + 144 * (k \div 256) = blk
    BY <2>1
  <2>. QED
    BY <1>3, <2>1, <2>2, BlockShapes DEF Decoded, KernelColumn, Unpacked, UnpackedQ4_K
<1>. QED
  BY <1>1, <1>2, <1>3

\* The batched native kernels.
LEMMA GemmSums ==
  ASSUME NEW format \in {"Q4_0", "Q8_0", "Q4_K"}, NEW a \in Nat, NEW x \in Nat, NEW n \in Nat,
         NEW cols, cols = n * BlockColumns[format]
  PROVE  Sums(GemmOf(format, a, cols, x), RowTerms(format, a, cols, x), cols)
<1>. DEFINE length == BlockColumns[format]
            bytes == BlockBytes[format]
            q(b) == Unpacked(format, a + b * bytes)
            fmas(b) == [i \in 1..length \div 8 |->
                          Multiply8([l \in 1..8 |-> q(b)[8 * (i - 1) + l - 1]],
                                    x + length * b + 8 * (i - 1))]
            sum(b) == HorizontalSum(Accumulate(fmas(b)))
            parts == [i \in 1..n |-> sum(i - 1)]
<1>1. /\ format \in Formats /\ length \in {32, 256} /\ bytes \in Nat
      /\ length \div 8 \in Nat /\ 8 * (length \div 8) = length
  BY BlockShapes DEF Formats
<1>2. GemmOf(format, a, cols, x) = Joined(parts, length)
  <2>1. Blocks(format, cols) = n
    BY <1>1, BlocksOfRow
  <2>. QED
    BY <2>1 DEF GemmOf, Concat
<1>3. ASSUME NEW b \in 0..n - 1
      PROVE  Sums(sum(b), RowTerms(format, a + bytes * b, length, x + length * b), length)
  <2>m. PICK m \in Nat : m = length \div 8 /\ 8 * m = length
    BY <1>1
  <2>. DEFINE y == x + length * b
              blk == a + bytes * b
              term == RowTerms(format, blk, length, y)
  <2>1. y \in Nat /\ blk \in Nat /\ blk = a + b * bytes /\ 8 * m = length /\ length \in Nat
    <3>1. length * b \in Nat /\ bytes * b \in Nat /\ b * bytes = bytes * b
      <4>. HIDE DEF length, bytes
      <4>. QED
        BY <1>1, ProductsOfNumbers
    <3>. QED
      BY <1>1, <2>m, <3>1
  <2>2. PICK u : u = [k \in 1..m |-> k - 1]
    OBVIOUS
  <2>3. /\ u \in [1..m -> 0..m - 1] /\ \A i, j \in 1..m : u[i] = u[j] => i = j
        /\ \A k \in 1..m : u[k] = k - 1
    BY <2>1, <2>2
  <2>4. \A i \in 0..m - 1 : \E k \in 1..m : u[k] = i
    <3>1. \A i \in 0..m - 1 : i + 1 \in 1..m /\ (i + 1) - 1 = i
      BY <2>1
    <3>. QED
      BY <2>3, <3>1
  <2>5. ASSUME NEW l \in 1..8, NEW k \in 1..m
        PROVE  /\ 8 * (k - 1) + l - 1 \in 0..length - 1
               /\ <<q(b)[8 * (k - 1) + l - 1], x + length * b + 8 * (k - 1) + l - 1>>
                    = term[8 * (k - 1) + l - 1]
    <3>1. PICK c \in 0..length - 1 : c = 8 * (k - 1) + l - 1
      <4>. HIDE DEF length
      <4>. QED
        BY <2>1
    <3>2. q(b)[c] = Decoded(format, blk, KernelColumn(format, c))
      BY <2>1, UnpackedIsDecoded
    <3>3. term[c] = <<Decoded(format, blk, KernelColumn(format, c)), y + c>>
      BY DEF RowTerms
    <3>4. x + length * b + 8 * (k - 1) + l - 1 = y + c
      <4>. HIDE DEF length
      <4>1. x + length * b \in Nat
        BY <2>1
      <4>. QED
        BY <2>1, <3>1, <4>1
    <3>. QED
      BY <3>1, <3>2, <3>3, <3>4
  <2>6. \A l \in 1..8 : Accumulate(fmas(b))[l] = [k \in 1..m |-> term[8 * u[k] + l - 1]]
    <3>1. \A l \in 1..8 : Accumulate(fmas(b))[l]
            = [k \in 1..m |-> <<q(b)[8 * (k - 1) + l - 1], x + length * b + 8 * (k - 1) + l - 1>>]
      BY <2>m DEF Accumulate, Multiply8
    <3>. HIDE DEF fmas, q, term, length
    <3>2. ASSUME NEW l \in 1..8
          PROVE  Accumulate(fmas(b))[l] = [k \in 1..m |-> term[8 * u[k] + l - 1]]
      <4>1. \A k \in 1..m : <<q(b)[8 * (k - 1) + l - 1], x + length * b + 8 * (k - 1) + l - 1>>
                              = term[8 * u[k] + l - 1]
        BY <2>3, <2>5
      <4>. QED
        BY <3>1, <4>1
    <3>. QED
      BY <3>2
  <2>7. OneToOne(term, 0..8 * m - 1)
    BY <2>1, RowTermsDiffer
  <2>8. PICK acc : acc = Accumulate(fmas(b))
    OBVIOUS
  <2>9. Sums(HorizontalSum(acc), term, 8 * m)
    <3>. HIDE DEF fmas, term
    <3>. QED
      BY ONLY <2>3, <2>4, <2>6, <2>7, <2>8, StepsSum, m \in Nat
  <2>. QED
    BY <2>1, <2>8, <2>9
<1>. HIDE DEF sum
<1>4. Len(parts) = n /\ \A b \in 0..n - 1 : parts[b + 1] = sum(b)
  OBVIOUS
<1>. HIDE DEF parts, length, bytes
<1>5. Sums(Joined(parts, length), RowTerms(format, a, n * length, x), n * length)
  <2>1. \A b \in 0..n - 1 : Sums(parts[b + 1], RowTerms(format, a + BlockBytes[format] * b, length, x + length * b), length)
    BY <1>3, <1>4 DEF bytes
  <2>2. length = BlockColumns[format]
    BY DEF length
  <2>. QED
    BY ONLY <1>1, <1>4, <2>1, <2>2, BlockwiseSum, a \in Nat, x \in Nat, n \in Nat
<1>. QED
  BY <1>2, <1>5 DEF length

\* A quarter of two registers, four and four.
LEMMA EightOf ==
  ASSUME NEW v, NEW n \in {0, 8}, NEW l \in 1..8
  PROVE  Eight(v, n)[l] = v[n + l]
<1>. DEFINE S == {v[i] : i \in 1..16}
<1>0. \A i \in 1..16 : v[i] \in S
  OBVIOUS
<1>. HIDE DEF S
<1>2. PICK s, t : s = SubSeq(v, n + 1, n + 4) /\ t = SubSeq(v, n + 5, n + 8)
  OBVIOUS
<1>3. /\ s \in Seq(S) /\ Len(s) = 4 /\ \A i \in 1..4 : s[i] = v[n + i]
  <2>1. PICK p, r : p = n + 1 /\ r = n + 4
    OBVIOUS
  <2>2. p \in Int /\ r \in Int /\ p =< r /\ r - p + 1 = 4 /\ \A i \in 1..4 : p + i - 1 = n + i
    BY <2>1
  <2>3. \A i \in p..r : v[i] \in S
    BY <1>0, <2>1
  <2>4. /\ SubSeq(v, p, r) \in Seq(S) /\ Len(SubSeq(v, p, r)) = IF p =< r THEN r - p + 1 ELSE 0
        /\ \A i \in 1..r - p + 1 : SubSeq(v, p, r)[i] = v[p + i - 1]
    BY ONLY <2>2, <2>3, SubSeqProperties
  <2>. QED
    BY <1>2, <2>1, <2>2, <2>4
<1>4. /\ t \in Seq(S) /\ Len(t) = 4 /\ \A i \in 1..4 : t[i] = v[n + 4 + i]
  <2>1. PICK p, r : p = n + 5 /\ r = n + 8
    OBVIOUS
  <2>2. p \in Int /\ r \in Int /\ p =< r /\ r - p + 1 = 4 /\ \A i \in 1..4 : p + i - 1 = n + 4 + i
    BY <2>1
  <2>3. \A i \in p..r : v[i] \in S
    BY <1>0, <2>1
  <2>4. /\ SubSeq(v, p, r) \in Seq(S) /\ Len(SubSeq(v, p, r)) = IF p =< r THEN r - p + 1 ELSE 0
        /\ \A i \in 1..r - p + 1 : SubSeq(v, p, r)[i] = v[p + i - 1]
    BY ONLY <2>2, <2>3, SubSeqProperties
  <2>. QED
    BY <1>2, <2>1, <2>2, <2>4
<1>6. (s \o t)[l] = IF l =< 4 THEN s[l] ELSE t[l - 4]
  <2>1. \A i \in 1..Len(s) + Len(t) : (s \o t)[i] = IF i =< Len(s) THEN s[i] ELSE t[i - Len(s)]
    BY ONLY <1>3, <1>4, ConcatProperties
  <2>2. l \in 1..Len(s) + Len(t) /\ Len(s) = 4
    BY <1>3, <1>4
  <2>3. (s \o t)[l] = IF l =< Len(s) THEN s[l] ELSE t[l - Len(s)]
    BY ONLY <2>1, <2>2
  <2>. QED
    BY ONLY <2>2, <2>3
<1>5. l > 4 => l - 4 \in 1..4 /\ n + 4 + (l - 4) = n + l
  OBVIOUS
<1>. QED
  BY <1>2, <1>3, <1>4, <1>5, <1>6 DEF Eight

\* The lanes of the vectors of a block are in the order of the floats.
LEMMA VectorsAreUnpacked ==
  ASSUME NEW format \in {"Q4_0", "Q8_0"}, NEW blk \in Nat, NEW v \in 1..4, NEW l \in 1..8
  PROVE  Vectors(format, blk)[v][l] = Unpacked(format, blk)[8 * (v - 1) + l - 1]
<1>1. CASE format = "Q4_0"
  <2>. DEFINE raw == Load16(blk + 2)
              low == [i \in 1..16 |-> Q4_0Weight(blk, Low(raw[i]))]
              high == [i \in 1..16 |-> Q4_0Weight(blk, High(raw[i]))]
              q == UnpackedQ4_0(blk)
  <2>1. \A i \in 1..16 : /\ low[i] = Q4_0Weight(blk, Low(blk + 2 + (i - 1)))
                         /\ high[i] = Q4_0Weight(blk, High(blk + 2 + (i - 1)))
    <3>1. \A i \in 1..16 : raw[i] = blk + 2 + (i - 1)
      BY DEF Load16
    <3>. QED
      BY <3>1
  <2>2. PICK lo, hi : lo = UnpackLo(low, high) /\ hi = UnpackHi(low, high)
    OBVIOUS
  <2>3. Vectors("Q4_0", blk) = <<Eight(lo, 0), Eight(lo, 8), Eight(hi, 0), Eight(hi, 8)>>
    BY <2>2 DEF Vectors, VectorsQ4_0
  <2>. HIDE DEF low, high, raw
  <2>4. lo = [i \in 1..16 |-> lo[i]] /\ hi = [i \in 1..16 |-> hi[i]]
    BY <2>2 DEF UnpackLo, UnpackHi
  <2>5. ASSUME NEW i \in 1..16
        PROVE  lo[i] = q[i - 1] /\ hi[i] = q[16 + i - 1]
    <3>1. CASE i % 2 = 1
      <4>1. PICK j \in 1..8 : i = 2 * j - 1
        <5>1. (i + 1) \div 2 \in 1..8 /\ i = 2 * ((i + 1) \div 2) - 1
          BY <3>1
        <5>. QED
          BY <5>1
      <4>2. (i + 1) \div 2 = j /\ (i - 1) \div 2 = j - 1 /\ (i - 1) % 2 = 0
        BY <4>1
      <4>3. (16 + i - 1) \div 2 = 8 + j - 1 /\ (16 + i - 1) % 2 = 0
        BY <4>1
      <4>4. lo[i] = low[j] /\ hi[i] = low[8 + j] /\ j \in 1..16 /\ 8 + j \in 1..16
        BY <2>2, <3>1, <4>2 DEF UnpackLo, UnpackHi
      <4>5. lo[i] = Q4_0Weight(blk, Low(blk + 2 + (j - 1)))
        BY <2>1, <4>4
      <4>6. hi[i] = Q4_0Weight(blk, Low(blk + 2 + (8 + j - 1)))
        BY <2>1, <4>4
      <4>. QED
        BY <4>2, <4>3, <4>5, <4>6 DEF UnpackedQ4_0
    <3>2. CASE i % 2 # 1
      <4>1. PICK j \in 1..8 : i = 2 * j
        <5>1. i \div 2 \in 1..8 /\ i = 2 * (i \div 2)
          BY <3>2
        <5>. QED
          BY <5>1
      <4>2. i \div 2 = j /\ (i - 1) \div 2 = j - 1 /\ (i - 1) % 2 = 1
        BY <4>1
      <4>3. (16 + i - 1) \div 2 = 8 + j - 1 /\ (16 + i - 1) % 2 = 1
        BY <4>1
      <4>4. lo[i] = high[j] /\ hi[i] = high[8 + j] /\ j \in 1..16 /\ 8 + j \in 1..16
        BY <2>2, <3>2, <4>2 DEF UnpackLo, UnpackHi
      <4>5. lo[i] = Q4_0Weight(blk, High(blk + 2 + (j - 1)))
        BY <2>1, <4>4
      <4>6. hi[i] = Q4_0Weight(blk, High(blk + 2 + (8 + j - 1)))
        BY <2>1, <4>4
      <4>. QED
        BY <4>2, <4>3, <4>5, <4>6 DEF UnpackedQ4_0
    <3>. QED
      BY <3>1, <3>2
  <2>6. /\ Eight(lo, 0)[l] = lo[0 + l] /\ Eight(lo, 8)[l] = lo[8 + l]
        /\ Eight(hi, 0)[l] = hi[0 + l] /\ Eight(hi, 8)[l] = hi[8 + l]
    BY EightOf
  <2>7. /\ lo[l] = q[l - 1] /\ lo[8 + l] = q[8 + l - 1] /\ hi[l] = q[16 + l - 1] /\ hi[8 + l] = q[24 + l - 1]
    <3>1. l \in 1..16 /\ 8 + l \in 1..16 /\ 16 + (8 + l) - 1 = 24 + l - 1
      OBVIOUS
    <3>. QED
      BY ONLY <2>5, <3>1
  <2>8. Vectors("Q4_0", blk)[v][l] = q[8 * (v - 1) + l - 1]
    BY <2>3, <2>6, <2>7
  <2>. QED
    BY <1>1, <2>8 DEF Unpacked
<1>2. CASE format = "Q8_0"
  <2>. DEFINE q == UnpackedQ8_0(blk)
  <2>1. PICK lo, hi : /\ lo = [i \in 1..16 |-> Q8_0Weight(blk, i - 1)]
                      /\ hi = [i \in 1..16 |-> Q8_0Weight(blk, 16 + i - 1)]
    OBVIOUS
  <2>3. Vectors("Q8_0", blk) = <<Eight(lo, 0), Eight(lo, 8), Eight(hi, 0), Eight(hi, 8)>>
    BY <2>1 DEF Vectors, VectorsQ8_0
  <2>4. lo = [i \in 1..16 |-> lo[i]] /\ hi = [i \in 1..16 |-> hi[i]]
    BY <2>1
  <2>5. ASSUME NEW i \in 1..16
        PROVE  lo[i] = q[i - 1] /\ hi[i] = q[16 + i - 1]
    BY <2>1 DEF UnpackedQ8_0
  <2>6. /\ Eight(lo, 0)[l] = lo[0 + l] /\ Eight(lo, 8)[l] = lo[8 + l]
        /\ Eight(hi, 0)[l] = hi[0 + l] /\ Eight(hi, 8)[l] = hi[8 + l]
    BY EightOf
  <2>7. /\ lo[l] = q[l - 1] /\ lo[8 + l] = q[8 + l - 1] /\ hi[l] = q[16 + l - 1] /\ hi[8 + l] = q[24 + l - 1]
    <3>1. l \in 1..16 /\ 8 + l \in 1..16 /\ 16 + (8 + l) - 1 = 24 + l - 1
      OBVIOUS
    <3>. QED
      BY ONLY <2>5, <3>1
  <2>8. Vectors("Q8_0", blk)[v][l] = q[8 * (v - 1) + l - 1]
    BY <2>3, <2>6, <2>7
  <2>. QED
    BY <1>2, <2>8 DEF Unpacked
<1>. QED
  BY <1>1, <1>2

\* The vector a step of the two accumulators adds: the first takes the vectors 1 and 3 of
\* each block, the second 2 and 4.
DotStep(n, k) ==
  IF k =< 2 * n THEN 4 * ((k - 1) \div 2) + 2 * ((k - 1) % 2)
  ELSE 4 * ((k - 2 * n - 1) \div 2) + 2 * ((k - 2 * n - 1) % 2) + 1

\* The accumulators take every step of eight floats once.
LEMMA DotStepsAreDistinct ==
  ASSUME NEW n \in Nat
  PROVE  /\ \A k \in 1..4 * n : DotStep(n, k) \in 0..4 * n - 1
         /\ \A k, m \in 1..4 * n : DotStep(n, k) = DotStep(n, m) => k = m
         /\ \A i \in 0..4 * n - 1 : \E k \in 1..4 * n : DotStep(n, k) = i
<1>1. ASSUME NEW k \in 1..4 * n
      PROVE  DotStep(n, k) \in 0..4 * n - 1
  BY Z3 DEF DotStep
<1>2. ASSUME NEW k \in 1..4 * n, NEW m \in 1..4 * n, DotStep(n, k) = DotStep(n, m)
      PROVE  k = m
  BY <1>2, Z3 DEF DotStep
<1>3. ASSUME NEW i \in 0..4 * n - 1
      PROVE  \E k \in 1..4 * n : DotStep(n, k) = i
  <2>1. PICK b \in 0..n - 1, r \in 0..3 : i = 4 * b + r
    <3>1. i \div 4 \in 0..n - 1 /\ i % 4 \in 0..3 /\ i = 4 * (i \div 4) + (i % 4)
      BY Z3
    <3>. QED
      BY <3>1
  <2>2. CASE r \in {0, 2}
    <3>1. PICK k \in 1..2 * n : k = 2 * b + r \div 2 + 1
      BY <2>2
    <3>2. (k - 1) \div 2 = b /\ (k - 1) % 2 = r \div 2
      BY <2>2, <3>1
    <3>3. DotStep(n, k) = i
      BY <2>1, <2>2, <3>1, <3>2 DEF DotStep
    <3>. QED
      BY <3>3
  <2>3. CASE r \in {1, 3}
    <3>1. PICK k \in 2 * n + 1..4 * n : k = 2 * n + 2 * b + r \div 2 + 1
      BY <2>3
    <3>2. (k - 2 * n - 1) \div 2 = b /\ (k - 2 * n - 1) % 2 = r \div 2
      BY <2>3, <3>1
    <3>3. DotStep(n, k) = i
      BY <2>1, <2>3, <3>1, <3>2 DEF DotStep
    <3>. QED
      BY <3>3
  <2>. QED
    BY <2>2, <2>3
<1>. QED
  BY <1>1, <1>2, <1>3

HasLength(s, n) == DOMAIN s = 1..n /\ s = [k \in 1..n |-> s[k]]
OneThenOther(s, m, t, n) == [k \in 1..m + n |-> IF k =< m THEN s[k] ELSE t[k - m]]

\* A concatenation, element by element.
LEMMA ConcatOf ==
  ASSUME NEW m \in Nat, NEW n \in Nat, NEW s, NEW t, HasLength(s, m), HasLength(t, n)
  PROVE  s \o t = OneThenOther(s, m, t, n)
<1>. DEFINE S == {s[k] : k \in 1..m} \cup {t[k] : k \in 1..n}
<1>1. \A k \in 1..m : s[k] \in S
  OBVIOUS
<1>2. \A k \in 1..n : t[k] \in S
  OBVIOUS
<1>. HIDE DEF S
<1>3. s \in Seq(S) /\ Len(s) = m /\ t \in Seq(S) /\ Len(t) = n
  <2>1. s \in Seq(S) /\ Len(s) = m
    BY ONLY <1>1, HasLength(s, m), m \in Nat DEF HasLength
  <2>2. t \in Seq(S) /\ Len(t) = n
    BY ONLY <1>2, HasLength(t, n), n \in Nat DEF HasLength
  <2>. QED
    BY ONLY <2>1, <2>2
<1>4. /\ s \o t \in Seq(S) /\ Len(s \o t) = m + n
      /\ \A i \in 1..m + n : (s \o t)[i] = IF i =< m THEN s[i] ELSE t[i - m]
  <2>1. /\ s \o t \in Seq(S) /\ Len(s \o t) = Len(s) + Len(t)
        /\ \A i \in 1..Len(s) + Len(t) : (s \o t)[i] = IF i =< Len(s) THEN s[i] ELSE t[i - Len(s)]
    BY ONLY <1>3, ConcatProperties
  <2>. QED
    BY ONLY <1>3, <2>1
<1>5. PICK u : u = s \o t
  OBVIOUS
<1>6. u \in Seq(S) /\ Len(u) = m + n
  BY <1>4, <1>5
<1>7. u = [k \in 1..m + n |-> u[k]]
  BY ONLY <1>6
<1>8. \A k \in 1..m + n : u[k] = IF k =< m THEN s[k] ELSE t[k - m]
  BY <1>4, <1>5
<1>9. u = OneThenOther(s, m, t, n)
  BY ONLY <1>7, <1>8 DEF OneThenOther
<1>. QED
  BY <1>5, <1>9

\* The single native kernels of Q4_0 and Q8_0.
LEMMA DotSums ==
  ASSUME NEW format \in {"Q4_0", "Q8_0"}, NEW a \in Nat, NEW x \in Nat, NEW n \in Nat,
         NEW cols, cols = n * BlockColumns[format]
  PROVE  Sums(DotOf(format, a, cols, x), RowTerms(format, a, cols, x), cols)
<1>. DEFINE bytes == BlockBytes[format]
            term == RowTerms(format, a, cols, x)
            products(b, v) ==
              Multiply8(Vectors(format, a + b * BlockBytes[format])[v], x + 32 * b + 8 * (v - 1))
            fmas0 == Concat(n, 2, LAMBDA b : <<products(b, 1), products(b, 3)>>)
            fmas1 == Concat(n, 2, LAMBDA b : <<products(b, 2), products(b, 4)>>)
<1>1. /\ format \in Formats /\ BlockColumns[format] = 32 /\ bytes \in Nat
      /\ cols = 32 * n /\ cols \in Nat /\ 8 * (4 * n) = cols /\ 4 * n \in Nat /\ 2 * n \in Nat
  BY BlockShapes DEF Formats
<1>2. DotOf(format, a, cols, x) = HorizontalSum(AddVectors(Accumulate(fmas0), Accumulate(fmas1)))
  <2>1. Blocks(format, cols) = n
    BY <1>1, BlocksOfRow
  <2>. QED
    BY <2>1 DEF DotOf
\* Vector v of block b, lane by lane.
<1>3. ASSUME NEW b \in 0..n - 1, NEW v \in 1..4, NEW l \in 1..8
      PROVE  products(b, v)[l] = term[8 * (4 * b + v - 1) + l - 1]
  <2>1. PICK blk \in Nat : blk = a + b * bytes
    BY <1>1, ProductsOfNumbers
  <2>2. PICK c \in 0..31 : c = 8 * (v - 1) + l - 1
    OBVIOUS
  <2>3. Vectors(format, blk)[v][l] = Decoded(format, blk, KernelColumn(format, c))
    <3>1. Vectors(format, blk)[v][l] = Unpacked(format, blk)[c]
      BY <2>2, VectorsAreUnpacked
    <3>2. c \in 0..BlockColumns[format] - 1 /\ format \in {"Q4_0", "Q8_0", "Q4_K"}
      BY <1>1
    <3>3. Unpacked(format, blk)[c] = Decoded(format, blk, KernelColumn(format, c))
      BY ONLY <3>2, UnpackedIsDecoded, blk \in Nat
    <3>. QED
      BY <3>1, <3>3
  <2>4. products(b, v)[l] = <<Decoded(format, blk, KernelColumn(format, c)), x + 32 * b + c>>
    <3>1. products(b, v)[l] = <<Vectors(format, blk)[v][l], x + 32 * b + 8 * (v - 1) + l - 1>>
      BY <2>1 DEF Multiply8
    <3>2. x + 32 * b + 8 * (v - 1) + l - 1 = x + 32 * b + c
      BY <2>2
    <3>. QED
      BY <2>3, <3>1, <3>2
  <2>5. 32 * b + c \in 0..cols - 1 /\ 8 * (4 * b + v - 1) + l - 1 = 32 * b + c
    BY <1>1, <2>2
  <2>6. /\ KernelColumn(format, c) \in 0..31
        /\ KernelColumn(format, 32 * b + c) = 32 * b + KernelColumn(format, c)
    <3>1. c \in 0..BlockColumns[format] - 1 /\ format \in Formats /\ b \in Nat
      BY <1>1
    <3>2. /\ KernelColumn(format, c) \in 0..BlockColumns[format] - 1
          /\ KernelColumn(format, BlockColumns[format] * b + c)
               = BlockColumns[format] * b + KernelColumn(format, c)
      BY ONLY <3>1, KernelColumnInBlock
    <3>. QED
      BY <1>1, <3>2
  <2>7. Decoded(format, a, 32 * b + KernelColumn(format, c))
          = Decoded(format, blk, KernelColumn(format, c))
    <3>1. a + bytes * b = blk
      BY <1>1, <2>1
    <3>2. /\ KernelColumn(format, c) \in 0..BlockColumns[format] - 1
          /\ format \in Formats /\ b \in Nat
      BY <1>1, <2>6
    <3>3. Decoded(format, a, BlockColumns[format] * b + KernelColumn(format, c))
            = Decoded(format, a + BlockBytes[format] * b, KernelColumn(format, c))
      BY ONLY <3>2, DecodedInBlock, a \in Nat
    <3>. QED
      BY <1>1, <3>1, <3>3
  <2>8. term[32 * b + c] = <<Decoded(format, a, KernelColumn(format, 32 * b + c)), x + (32 * b + c)>>
    BY <2>5 DEF RowTerms
  <2>9. x + (32 * b + c) = x + 32 * b + c
    BY <2>2
  <2>. HIDE DEF products, term
  <2>. QED
    BY <2>4, <2>5, <2>6, <2>7, <2>8, <2>9
<1>. HIDE DEF term, products
<1>4. ASSUME NEW k \in 1..2 * n
      PROVE  /\ (k - 1) \div 2 \in 0..n - 1 /\ (k - 1) % 2 \in {0, 1}
             /\ fmas0[k] = products((k - 1) \div 2, 1 + 2 * ((k - 1) % 2))
             /\ fmas1[k] = products((k - 1) \div 2, 2 + 2 * ((k - 1) % 2))
  <2>1. (k - 1) \div 2 \in 0..n - 1 /\ (k - 1) % 2 \in {0, 1}
    OBVIOUS
  <2>2. PICK b \in 0..n - 1, r \in {0, 1} : b = (k - 1) \div 2 /\ r = (k - 1) % 2
    BY <2>1
  <2>3. /\ fmas0[k] = <<products(b, 1), products(b, 3)>>[1 + r]
        /\ fmas1[k] = <<products(b, 2), products(b, 4)>>[1 + r]
    <3>1. 1 + b \in 1..n /\ 1 + b - 1 = b /\ k \in 1..n * 2
      BY <2>2
    <3>. QED
      BY <2>2, <3>1 DEF Concat, Joined
  <2>4. /\ <<products(b, 1), products(b, 3)>>[1 + r] = products(b, 1 + 2 * r)
        /\ <<products(b, 2), products(b, 4)>>[1 + r] = products(b, 2 + 2 * r)
    BY <2>2
  <2>. QED
    BY <2>1, <2>2, <2>3, <2>4
<1>5. DOMAIN fmas0 = 1..2 * n /\ DOMAIN fmas1 = 1..2 * n
  BY DEF Concat, Joined
<1>. HIDE DEF fmas0, fmas1
<1>6. PICK u : u = [k \in 1..4 * n |-> DotStep(n, k)]
  OBVIOUS
<1>7. /\ u \in [1..4 * n -> 0..4 * n - 1] /\ \A k \in 1..4 * n : u[k] = DotStep(n, k)
      /\ \A i, j \in 1..4 * n : u[i] = u[j] => i = j
      /\ \A i \in 0..4 * n - 1 : \E k \in 1..4 * n : u[k] = i
  BY <1>6, DotStepsAreDistinct
<1>8. ASSUME NEW l \in 1..8
      PROVE  AddVectors(Accumulate(fmas0), Accumulate(fmas1))[l]
               = [k \in 1..4 * n |-> term[8 * u[k] + l - 1]]
  <2>1. PICK s, t : /\ s = [k \in 1..2 * n |-> fmas0[k][l]]
                    /\ t = [k \in 1..2 * n |-> fmas1[k][l]]
    OBVIOUS
  <2>2. AddVectors(Accumulate(fmas0), Accumulate(fmas1))[l] = s \o t
    BY <1>5, <2>1 DEF AddVectors, Accumulate
  <2>3. /\ Len(s) = 2 * n /\ Len(t) = 2 * n
        /\ s \o t = [k \in 1..4 * n |-> IF k =< 2 * n THEN s[k] ELSE t[k - 2 * n]]
    <3>1. PICK m \in Nat : m = 2 * n
      BY <1>1
    <3>2. Len(s) = m /\ Len(t) = m /\ m + m = 4 * n
      BY <2>1, <3>1
    <3>3. HasLength(s, m) /\ HasLength(t, m)
      BY <2>1, <3>1 DEF HasLength
    <3>4. s \o t = OneThenOther(s, m, t, m)
      BY ONLY <3>3, ConcatOf, m \in Nat
    <3>. QED
      BY <3>1, <3>2, <3>4 DEF OneThenOther
  <2>4. ASSUME NEW k \in 1..4 * n, k =< 2 * n
        PROVE  s[k] = term[8 * u[k] + l - 1]
    <3>1. k \in 1..2 * n
      BY <2>4
    <3>2. PICK b \in 0..n - 1, r \in {0, 1} : b = (k - 1) \div 2 /\ r = (k - 1) % 2
      BY <1>4, <3>1
    <3>3. s[k] = products(b, 1 + 2 * r)[l]
      BY <1>4, <2>1, <3>1, <3>2
    <3>4. products(b, 1 + 2 * r)[l] = term[8 * (4 * b + (1 + 2 * r) - 1) + l - 1]
      BY <1>3, 1 + 2 * r \in 1..4
    <3>5. u[k] = 4 * b + 2 * r
      BY <1>7, <2>4, <3>2 DEF DotStep
    <3>6. 8 * (4 * b + (1 + 2 * r) - 1) + l - 1 = 8 * (4 * b + 2 * r) + l - 1
      OBVIOUS
    <3>. QED
      BY <3>3, <3>4, <3>5, <3>6
  <2>5. ASSUME NEW k \in 1..4 * n, ~(k =< 2 * n)
        PROVE  t[k - 2 * n] = term[8 * u[k] + l - 1]
    <3>1. PICK m \in 1..2 * n : m = k - 2 * n
      BY <2>5
    <3>2. PICK b \in 0..n - 1, r \in {0, 1} : b = (m - 1) \div 2 /\ r = (m - 1) % 2
      BY <1>4, <3>1
    <3>3. t[m] = products(b, 2 + 2 * r)[l]
      BY <1>4, <2>1, <3>1, <3>2
    <3>4. products(b, 2 + 2 * r)[l] = term[8 * (4 * b + (2 + 2 * r) - 1) + l - 1]
      BY <1>3, 2 + 2 * r \in 1..4
    <3>5. u[k] = 4 * b + 2 * r + 1
      <4>1. k - 2 * n - 1 = m - 1
        BY <3>1
      <4>. QED
        BY <1>7, <2>5, <3>2, <4>1 DEF DotStep
    <3>6. 8 * (4 * b + (2 + 2 * r) - 1) + l - 1 = 8 * (4 * b + 2 * r + 1) + l - 1
      OBVIOUS
    <3>. QED
      BY <3>1, <3>3, <3>4, <3>5, <3>6
  <2>. QED
    BY <2>2, <2>3, <2>4, <2>5
<1>9. OneToOne(term, 0..8 * (4 * n) - 1)
  BY <1>1, RowTermsDiffer DEF term
<1>10. PICK acc : acc = AddVectors(Accumulate(fmas0), Accumulate(fmas1))
  OBVIOUS
<1>11. PICK m \in Nat : m = 4 * n
  BY <1>1
<1>12. /\ OneToOne(term, 0..8 * m - 1) /\ u \in [1..m -> 0..m - 1]
       /\ \A i, j \in 1..m : u[i] = u[j] => i = j
       /\ \A i \in 0..m - 1 : \E k \in 1..m : u[k] = i
       /\ \A l \in 1..8 : acc[l] = [k \in 1..m |-> term[8 * u[k] + l - 1]]
  BY <1>7, <1>8, <1>9, <1>10, <1>11
<1>13. Sums(HorizontalSum(acc), term, 8 * m)
  BY ONLY <1>12, StepsSum, m \in Nat
<1>. QED
  BY <1>1, <1>2, <1>10, <1>11, <1>13 DEF term

\* The terms of a group of 64 columns.
GroupTerms(blk, g, x0) ==
  [c \in 0..63 |-> <<Q4KWeight(blk, g, c \div 32, c % 32), x0 + c>>]

\* A group of 64 columns of a Q4_K block.
LEMMA GroupOfBlock ==
  ASSUME NEW blk \in Nat, NEW g \in 0..3, NEW y \in Nat
  PROVE  TermsOf(RowTerms("Q4_K", blk, 256, y), 64, g) = GroupTerms(blk, g, y + 64 * g)
<1>1. ASSUME NEW c \in 0..63
      PROVE  /\ 64 * g + c \in 0..255 /\ y + (64 * g + c) = y + 64 * g + c
             /\ Decoded("Q4_K", blk, 64 * g + c) = Q4KWeight(blk, g, c \div 32, c % 32)
  <2>1. PICK k \in 0..255 : k = 64 * g + c
    OBVIOUS
  <2>2. k % 256 = k /\ k \div 256 = 0 /\ k \div 64 = g /\ (k % 64) \div 32 = c \div 32 /\ k % 32 = c % 32
    BY <2>1
  <2>3. blk + 144 * (k \div 256) = blk
    BY <2>2
  <2>. QED
    BY <2>1, <2>2, <2>3, BlockShapes DEF Decoded
<1>2. PICK term : term = RowTerms("Q4_K", blk, 256, y)
  OBVIOUS
<1>3. \A k \in 0..255 : term[k] = <<Decoded("Q4_K", blk, k), y + k>>
  <2>1. \A k \in 0..255 : KernelColumn("Q4_K", k) = k
    BY DEF KernelColumn
  <2>2. term = [c \in 0..255 |-> <<Decoded("Q4_K", blk, KernelColumn("Q4_K", c)), y + c>>]
    BY <1>2, 256 - 1 = 255 DEF RowTerms
  <2>. QED
    BY <2>1, <2>2
<1>4. \A c \in 0..63 : term[64 * g + c] = <<Q4KWeight(blk, g, c \div 32, c % 32), y + 64 * g + c>>
  BY <1>1, <1>3
<1>5. TermsOf(term, 64, g) = [c \in 0..63 |-> term[64 * g + c]]
  BY DEF TermsOf
<1>. QED
  <2>1. TermsOf(term, 64, g) = [c \in 0..63 |-> <<Q4KWeight(blk, g, c \div 32, c % 32), y + 64 * g + c>>]
    BY ONLY <1>4, <1>5
  <2>. QED
    BY <1>2, <2>1 DEF GroupTerms

\* The step of a group: low and high nibbles in turn.
GroupStep(k) == 4 * ((k - 1) % 2) + (k - 1) \div 2

\* The accumulator of a group takes every step of eight floats once.
LEMMA GroupStepsAreDistinct ==
  /\ \A k \in 1..8 : GroupStep(k) \in 0..7
  /\ \A k, m \in 1..8 : GroupStep(k) = GroupStep(m) => k = m
  /\ \A i \in 0..7 : \E k \in 1..8 : GroupStep(k) = i
<1>1. /\ GroupStep(1) = 0 /\ GroupStep(2) = 4 /\ GroupStep(3) = 1 /\ GroupStep(4) = 5
      /\ GroupStep(5) = 2 /\ GroupStep(6) = 6 /\ GroupStep(7) = 3 /\ GroupStep(8) = 7
  BY DEF GroupStep
<1>2. 1..8 = {1, 2, 3, 4, 5, 6, 7, 8} /\ 0..7 = {0, 1, 2, 3, 4, 5, 6, 7}
  OBVIOUS
<1>. QED
  BY <1>1, <1>2

\* The sum of a group, low nibbles and high nibbles in turn.
LEMMA GroupSums ==
  ASSUME NEW blk \in Nat, NEW g \in 0..3, NEW x0 \in Nat
  PROVE  LET products(l, half) ==
               Multiply8([k \in 1..8 |-> Q4KWeight(blk, g, half, l + k - 1)], x0 + 32 * half + l)
         IN Sums(HorizontalSum(Accumulate(
                   Concat(4, 2, LAMBDA i : <<products(8 * i, 0), products(8 * i, 1)>>))),
                 GroupTerms(blk, g, x0), 64)
<1>. DEFINE products(l, half) ==
              Multiply8([k \in 1..8 |-> Q4KWeight(blk, g, half, l + k - 1)], x0 + 32 * half + l)
            fmas == Concat(4, 2, LAMBDA i : <<products(8 * i, 0), products(8 * i, 1)>>)
            term == GroupTerms(blk, g, x0)
<1>1. ASSUME NEW b \in 0..3, NEW half \in {0, 1}, NEW l \in 1..8
      PROVE  products(8 * b, half)[l] = term[8 * (4 * half + b) + l - 1]
  <2>1. PICK c \in 0..63 : c = 32 * half + 8 * b + l - 1
    OBVIOUS
  <2>2. c \div 32 = half /\ c % 32 = 8 * b + l - 1
    BY <2>1
  <2>3. products(8 * b, half)[l]
          = <<Q4KWeight(blk, g, half, 8 * b + l - 1), x0 + 32 * half + 8 * b + l - 1>>
    BY DEF Multiply8
  <2>4. term[c] = <<Q4KWeight(blk, g, c \div 32, c % 32), x0 + c>>
    BY DEF GroupTerms
  <2>5. x0 + 32 * half + 8 * b + l - 1 = x0 + c /\ 8 * (4 * half + b) + l - 1 = c
    BY <2>1
  <2>. HIDE DEF products, term
  <2>. QED
    BY <2>2, <2>3, <2>4, <2>5
<1>. HIDE DEF term, products
<1>2. ASSUME NEW k \in 1..8
      PROVE  /\ (k - 1) \div 2 \in 0..3 /\ (k - 1) % 2 \in {0, 1}
             /\ fmas[k] = products(8 * ((k - 1) \div 2), (k - 1) % 2)
  <2>1. (k - 1) \div 2 \in 0..3 /\ (k - 1) % 2 \in {0, 1}
    OBVIOUS
  <2>2. PICK b \in 0..3, r \in {0, 1} : b = (k - 1) \div 2 /\ r = (k - 1) % 2
    BY <2>1
  <2>3. fmas[k] = <<products(8 * b, 0), products(8 * b, 1)>>[1 + r]
    <3>1. 1 + b \in 1..4 /\ 1 + b - 1 = b /\ k \in 1..4 * 2
      BY <2>2
    <3>. QED
      BY <2>2, <3>1 DEF Concat, Joined
  <2>4. <<products(8 * b, 0), products(8 * b, 1)>>[1 + r] = products(8 * b, r)
    BY <2>2
  <2>. QED
    BY <2>1, <2>2, <2>3, <2>4
<1>3. DOMAIN fmas = 1..8
  BY DEF Concat, Joined
<1>. HIDE DEF fmas
<1>4. PICK u : u = [k \in 1..8 |-> GroupStep(k)]
  OBVIOUS
<1>5. /\ u \in [1..8 -> 0..8 - 1] /\ \A k \in 1..8 : u[k] = GroupStep(k)
      /\ \A i, j \in 1..8 : u[i] = u[j] => i = j
      /\ \A i \in 0..8 - 1 : \E k \in 1..8 : u[k] = i
  BY <1>4, GroupStepsAreDistinct
<1>6. ASSUME NEW l \in 1..8
      PROVE  Accumulate(fmas)[l] = [k \in 1..8 |-> term[8 * u[k] + l - 1]]
  <2>1. ASSUME NEW k \in 1..8
        PROVE  fmas[k][l] = term[8 * u[k] + l - 1]
    <3>1. PICK b \in 0..3, r \in {0, 1} : b = (k - 1) \div 2 /\ r = (k - 1) % 2
      BY <1>2
    <3>2. fmas[k][l] = term[8 * (4 * r + b) + l - 1]
      BY <1>1, <1>2, <3>1
    <3>3. u[k] = 4 * r + b
      BY <1>5, <3>1 DEF GroupStep
    <3>. QED
      BY <3>2, <3>3
  <2>. QED
    BY <1>3, <2>1 DEF Accumulate
<1>7. OneToOne(term, 0..8 * 8 - 1)
  <2>1. \A c \in 0..63 : term[c][2] = x0 + c
    BY DEF term, GroupTerms
  <2>2. \A c, d \in 0..63 : x0 + c = x0 + d => c = d
    OBVIOUS
  <2>3. 0..8 * 8 - 1 = 0..63
    OBVIOUS
  <2>4. ASSUME NEW c \in 0..63, NEW d \in 0..63, term[c] = term[d]
        PROVE  c = d
    <3>1. x0 + c = x0 + d
      BY <2>1, <2>4
    <3>. QED
      BY <2>2, <3>1
  <2>5. OneToOne(term, 0..63)
    BY <2>4 DEF OneToOne
  <2>. QED
    BY <2>3, <2>5
<1>8. PICK acc, m : acc = Accumulate(fmas) /\ m = 8
  OBVIOUS
<1>9. /\ m \in Nat /\ OneToOne(term, 0..8 * m - 1) /\ u \in [1..m -> 0..m - 1]
      /\ \A i, j \in 1..m : u[i] = u[j] => i = j
      /\ \A i \in 0..m - 1 : \E k \in 1..m : u[k] = i
      /\ \A l \in 1..8 : acc[l] = [k \in 1..m |-> term[8 * u[k] + l - 1]]
  BY <1>5, <1>6, <1>7, <1>8
<1>10. Sums(HorizontalSum(acc), term, 8 * m)
  BY ONLY <1>9, StepsSum
<1>11. Sums(HorizontalSum(Accumulate(fmas)), term, 64)
  BY <1>8, <1>10
<1>. QED
  BY <1>11 DEF fmas, products, term

\* The single native kernel of Q4_K.
LEMMA DotQ4_KSums ==
  ASSUME NEW a \in Nat, NEW x \in Nat, NEW n \in Nat, NEW cols, cols = n * 256
  PROVE  Sums(DotQ4_K(a, cols, x), RowTerms("Q4_K", a, cols, x), cols)
<1>. DEFINE products(blk, g, x0, l, half) ==
              Multiply8([k \in 1..8 |-> Q4KWeight(blk, g, half, l + k - 1)], x0 + 32 * half + l)
            group(blk, g, x0) ==
              HorizontalSum(Accumulate(
                Concat(4, 2, LAMBDA i : <<products(blk, g, x0, 8 * i, 0), products(blk, g, x0, 8 * i, 1)>>)))
            block(b) == Concat(4, 64, LAMBDA g : group(a + 144 * b, g, x + 256 * b + 64 * g))
            parts == [i \in 1..n |-> block(i - 1)]
<1>1. ASSUME NEW blk \in Nat, NEW g \in 0..3, NEW x0 \in Nat
      PROVE  Sums(group(blk, g, x0), GroupTerms(blk, g, x0), 64)
  BY GroupSums
<1>2. "Q4_K" \in Formats /\ BlockColumns["Q4_K"] = 256 /\ BlockBytes["Q4_K"] = 144
  BY BlockShapes DEF Formats
<1>3. DotQ4_K(a, cols, x) = Joined(parts, 256)
  <2>1. Blocks("Q4_K", cols) = n
    BY <1>2, BlocksOfRow
  <2>. QED
    BY <2>1 DEF DotQ4_K, Concat
<1>. HIDE DEF group
<1>4. ASSUME NEW b \in 0..n - 1
      PROVE  Sums(block(b), RowTerms("Q4_K", a + 144 * b, 256, x + 256 * b), 256)
  <2>1. PICK blk \in Nat, y \in Nat : blk = a + 144 * b /\ y = x + 256 * b
    OBVIOUS
  <2>2. PICK groups : groups = [i \in 1..4 |-> group(blk, i - 1, y + 64 * (i - 1))]
    OBVIOUS
  <2>3. block(b) = Joined(groups, 64)
    BY <2>1, <2>2 DEF Concat
  <2>4. PICK term : term = RowTerms("Q4_K", blk, 256, y)
    OBVIOUS
  <2>5. ASSUME NEW g \in 0..3
        PROVE  Sums(groups[g + 1], TermsOf(term, 64, g), 64)
    <3>1. groups[g + 1] = group(blk, g, y + 64 * g)
      BY <2>2, g + 1 \in 1..4, (g + 1) - 1 = g
    <3>2. y + 64 * g \in Nat
      OBVIOUS
    <3>3. TermsOf(term, 64, g) = GroupTerms(blk, g, y + 64 * g)
      <4>1. TermsOf(RowTerms("Q4_K", blk, 256, y), 64, g) = GroupTerms(blk, g, y + 64 * g)
        BY ONLY GroupOfBlock, blk \in Nat, y \in Nat, g \in 0..3
      <4>. QED
        BY <2>4, <4>1, Zenon
    <3>. QED
      BY <1>1, <3>1, <3>2, <3>3
  <2>6. PICK four, wide : four = 4 /\ wide = 64
    OBVIOUS
  <2>7. /\ four \in Nat /\ wide \in Nat \ {0} /\ Len(groups) = four
        /\ OneToOne(term, 0..four * wide - 1)
        /\ \A g \in 0..four - 1 : Sums(groups[g + 1], TermsOf(term, wide, g), wide)
    <3>1. OneToOne(term, 0..256 - 1)
      <4>1. PICK m \in Nat : m = 256
        OBVIOUS
      <4>2. OneToOne(RowTerms("Q4_K", blk, m, y), 0..m - 1)
        BY ONLY RowTermsDiffer, m \in Nat, y \in Nat
      <4>. QED
        BY ONLY <2>4, <4>1, <4>2
    <3>. QED
      BY <2>2, <2>5, <2>6, <3>1
  <2>8. Sums(Joined(groups, wide), term, four * wide)
    BY ONLY <2>7, BlocksSum
  <2>. QED
    BY <2>1, <2>3, <2>4, <2>6, <2>8
<1>. HIDE DEF block
<1>5. Len(parts) = n /\ \A b \in 0..n - 1 : parts[b + 1] = block(b)
  OBVIOUS
<1>. HIDE DEF parts
<1>6. PICK format, wide : format = "Q4_K" /\ wide = 256
  OBVIOUS
<1>7. /\ format \in Formats /\ wide = BlockColumns[format] /\ Len(parts) = n
      /\ \A b \in 0..n - 1 :
           Sums(parts[b + 1], RowTerms(format, a + BlockBytes[format] * b, wide, x + wide * b), wide)
  BY <1>2, <1>4, <1>5, <1>6
<1>8. Sums(Joined(parts, wide), RowTerms(format, a, n * wide, x), n * wide)
  BY ONLY <1>7, BlockwiseSum, a \in Nat, x \in Nat, n \in Nat
<1>. QED
  BY <1>3, <1>6, <1>8

-----------------------------------------------------------------------------
(* The Java kernels.                                                        *)

\* Blocks that are unpacked and summed in the order of the floats.
LEMMA JavaBlocksSum ==
  ASSUME NEW format \in {"Q4_0", "Q8_0"}, NEW a \in Nat, NEW n \in Nat, NEW parts, Len(parts) = n,
         \A b \in 0..n - 1 :
           parts[b + 1] = [k \in 1..32 |->
              <<Unpacked(format, a + BlockBytes[format] * b)[k - 1], 32 * b + k - 1>>]
  PROVE  Sums(Joined(parts, 32), RowTerms(format, a, n * 32, 0), n * 32)
<1>1. PICK wide, x : wide = 32 /\ x = 0
  OBVIOUS
<1>2. format \in Formats /\ wide = BlockColumns[format] /\ x \in Nat /\ BlockBytes[format] \in Nat
  BY <1>1, BlockShapes DEF Formats
<1>3. ASSUME NEW b \in 0..n - 1
      PROVE  Sums(parts[b + 1], RowTerms(format, a + BlockBytes[format] * b, wide, x + wide * b), wide)
  <2>1. PICK blk \in Nat, y \in Nat : blk = a + BlockBytes[format] * b /\ y = x + wide * b
    <3>1. PICK p \in Nat, q \in Nat : p = BlockBytes[format] * b /\ q = wide * b
      BY <1>1, <1>2, ProductsOfNumbers
    <3>2. a + p \in Nat /\ x + q \in Nat
      BY ONLY <1>2, a \in Nat, p \in Nat, q \in Nat
    <3>. QED
      BY ONLY <3>1, <3>2
  <2>2. PICK term : term = RowTerms(format, blk, wide, y)
    OBVIOUS
  <2>3. ASSUME NEW k \in 1..32
        PROVE  <<Unpacked(format, blk)[k - 1], 32 * b + k - 1>> = term[k - 1]
    <3>1. PICK c \in 0..31 : c = k - 1
      OBVIOUS
    <3>2. Unpacked(format, blk)[c] = Decoded(format, blk, KernelColumn(format, c))
      <4>1. format \in {"Q4_0", "Q8_0", "Q4_K"} /\ c \in 0..BlockColumns[format] - 1
        <5>1. BlockColumns[format] = 32
          BY <1>1, <1>2
        <5>. QED
          BY <5>1
      <4>. QED
        BY ONLY <4>1, UnpackedIsDecoded, blk \in Nat
    <3>3. term[c] = <<Decoded(format, blk, KernelColumn(format, c)), y + c>>
      BY <1>1, <2>2 DEF RowTerms
    <3>4. 32 * b + k - 1 = y + c
      BY <1>1, <2>1, <3>1
    <3>. QED
      BY <3>1, <3>2, <3>3, <3>4
  <2>4. parts[b + 1] = [k \in 1..wide |-> term[k - 1]]
    <3>1. parts[b + 1] = [k \in 1..32 |-> <<Unpacked(format, blk)[k - 1], 32 * b + k - 1>>]
      BY <2>1
    <3>. QED
      BY <1>1, <2>3, <3>1
  <2>5. wide \in Nat /\ OneToOne(term, 0..wide - 1)
    <3>1. wide \in Nat
      BY <1>1
    <3>. QED
      BY ONLY <2>2, <3>1, RowTermsDiffer, y \in Nat
  <2>6. Sums([k \in 1..wide |-> term[k - 1]], term, wide)
    BY ONLY <2>5, RowSums
  <2>. QED
    BY <2>1, <2>2, <2>4, <2>6
<1>4. Sums(Joined(parts, wide), RowTerms(format, a, n * wide, x), n * wide)
  BY ONLY <1>2, <1>3, BlockwiseSum, a \in Nat, n \in Nat, Len(parts) = n
<1>. QED
  BY <1>1, <1>4

\* The batched kernels.
LEMMA BatchSums ==
  ASSUME NEW format \in {"Q4_0", "Q8_0"}, NEW a \in Nat, NEW n \in Nat, NEW cols, cols = n * 32
  PROVE  Sums(FusedDotBatch(format, a, cols), RowTerms(format, a, cols, 0), cols)
<1>. DEFINE block(b) == [i \in 1..32 |->
              <<Unpacked(format, a + b * BlockBytes[format])[i - 1], 32 * b + i - 1>>]
            parts == [i \in 1..n |-> block(i - 1)]
<1>1. format \in Formats /\ BlockColumns[format] = 32 /\ BlockBytes[format] \in Nat
  BY BlockShapes DEF Formats
<1>2. FusedDotBatch(format, a, cols) = Joined(parts, 32)
  <2>1. Blocks(format, cols) = n
    BY <1>1, BlocksOfRow
  <2>. QED
    BY <2>1 DEF FusedDotBatch, Concat
<1>3. Len(parts) = n
  OBVIOUS
<1>4. ASSUME NEW b \in 0..n - 1
      PROVE  parts[b + 1] = [k \in 1..32 |->
                <<Unpacked(format, a + BlockBytes[format] * b)[k - 1], 32 * b + k - 1>>]
  <2>1. b + 1 \in 1..n /\ (b + 1) - 1 = b /\ b * BlockBytes[format] = BlockBytes[format] * b
    BY <1>1
  <2>2. parts[b + 1] = block(b)
    BY <2>1
  <2>. QED
    BY <2>1, <2>2
<1>. HIDE DEF parts
<1>. QED
  <2>1. PICK p : p = parts
    OBVIOUS
  <2>2. /\ Len(p) = n
        /\ \A b \in 0..n - 1 :
             p[b + 1] = [k \in 1..32 |->
                <<Unpacked(format, a + BlockBytes[format] * b)[k - 1], 32 * b + k - 1>>]
    BY ONLY <1>3, <1>4, <2>1
  <2>3. Sums(Joined(p, 32), RowTerms(format, a, n * 32, 0), n * 32)
    BY ONLY <2>2, JavaBlocksSum, format \in {"Q4_0", "Q8_0"}, a \in Nat, n \in Nat
  <2>. QED
    BY <1>2, <2>1, <2>3

\* The terms of a Q4_0 block in the order of its nibbles.
Nibbles(blk, x) == [k \in 1..32 |-> <<UnpackedQ4_0(blk)[k - 1], x + (k - 1)>>]

NibbleOf(blk, byte, y, k) == NibblePair(blk, byte, y)[1 + ((k - 1) % 2)]

ByteOf(blk, k) == blk + 2 + (k - 1) \div 2
FloatOf(x, k) == x + 2 * ((k - 1) \div 2)

\* Element k of a block that is summed in pairs of nibbles.
LEMMA NibblePairOf ==
  ASSUME NEW blk \in Nat, NEW x \in Nat
  PROVE  \A k \in 1..32 : NibbleOf(blk, ByteOf(blk, k), FloatOf(x, k), k) = Nibbles(blk, x)[k]
<1>. SUFFICES ASSUME NEW k \in 1..32
              PROVE  NibbleOf(blk, ByteOf(blk, k), FloatOf(x, k), k) = Nibbles(blk, x)[k]
  OBVIOUS
<1>0. PICK byte, y : byte = ByteOf(blk, k) /\ y = FloatOf(x, k)
  OBVIOUS
<1>1. PICK c \in 0..31 : c = k - 1
  OBVIOUS
<1>2. y \in Nat /\ y + (c % 2) = x + c /\ c % 2 \in {0, 1}
  BY <1>0, <1>1 DEF FloatOf
<1>3. UnpackedQ4_0(blk)[c] = Q4_0Weight(blk, IF c % 2 = 0 THEN Low(byte) ELSE High(byte))
  BY <1>0, <1>1 DEF UnpackedQ4_0, ByteOf
<1>4. NibblePair(blk, byte, y)[1 + (c % 2)] = <<UnpackedQ4_0(blk)[c], x + c>>
  <2>1. CASE c % 2 = 0
    BY <1>2, <1>3, <2>1 DEF NibblePair
  <2>2. CASE c % 2 = 1
    BY <1>2, <1>3, <2>2 DEF NibblePair
  <2>. QED
    BY <1>2, <2>1, <2>2
<1>. QED
  BY <1>0, <1>1, <1>4 DEF Nibbles, NibbleOf

\* A block from a byte array, byte by byte.
LEMMA HeapBlock ==
  ASSUME NEW blk \in Nat, NEW x \in Nat
  PROVE  Concat(16, 2, LAMBDA i : NibblePair(blk, blk + 2 + i, x + 2 * i)) = Nibbles(blk, x)
<1>1. Concat(16, 2, LAMBDA i : NibblePair(blk, blk + 2 + i, x + 2 * i)) = [k \in 1..32 |->
        NibblePair(blk, blk + 2 + (k - 1) \div 2, x + 2 * ((k - 1) \div 2))[1 + ((k - 1) % 2)]]
  <2>1. \A k \in 1..32 : 1 + (k - 1) \div 2 \in 1..16 /\ 1 + (k - 1) \div 2 - 1 = (k - 1) \div 2
    OBVIOUS
  <2>. QED
    BY <2>1 DEF Concat, Joined
<1>2. ASSUME NEW k \in 1..32
      PROVE  NibblePair(blk, blk + 2 + (k - 1) \div 2, x + 2 * ((k - 1) \div 2))[1 + ((k - 1) % 2)]
               = Nibbles(blk, x)[k]
  <2>1. NibbleOf(blk, ByteOf(blk, k), FloatOf(x, k), k) = Nibbles(blk, x)[k]
    BY NibblePairOf
  <2>. QED
    BY <2>1 DEF NibbleOf, ByteOf, FloatOf
<1>3. Nibbles(blk, x) = [k \in 1..32 |-> Nibbles(blk, x)[k]]
  BY DEF Nibbles
<1>. QED
  BY <1>1, <1>2, <1>3

\* A block through the pointer, in two longs.
LEMMA LongBlock ==
  ASSUME NEW blk \in Nat, NEW x \in Nat
  PROVE  Concat(8, 2, LAMBDA i : NibblePair(blk, LongByte(blk + 2, i), x + 2 * i))
           \o Concat(8, 2, LAMBDA i : NibblePair(blk, LongByte(blk + 2 + 8, i), x + 16 + 2 * i))
         = Nibbles(blk, x)
<1>1. PICK s, t :
        /\ s = Concat(8, 2, LAMBDA i : NibblePair(blk, LongByte(blk + 2, i), x + 2 * i))
        /\ t = Concat(8, 2, LAMBDA i : NibblePair(blk, LongByte(blk + 2 + 8, i), x + 16 + 2 * i))
  OBVIOUS
<1>2. \A k \in 1..16 : 1 + (k - 1) \div 2 \in 1..8 /\ 1 + (k - 1) \div 2 - 1 = (k - 1) \div 2
  OBVIOUS
<1>3. s = [k \in 1..16 |->
        NibblePair(blk, blk + 2 + (k - 1) \div 2, x + 2 * ((k - 1) \div 2))[1 + ((k - 1) % 2)]]
  BY <1>1, <1>2 DEF Concat, Joined, LongByte
<1>4. t = [k \in 1..16 |->
        NibblePair(blk, blk + 2 + 8 + (k - 1) \div 2, x + 16 + 2 * ((k - 1) \div 2))[1 + ((k - 1) % 2)]]
  BY <1>1, <1>2 DEF Concat, Joined, LongByte
<1>5. ASSUME NEW k \in 1..16
      PROVE  s[k] = Nibbles(blk, x)[k]
  <2>1. k \in 1..32
    OBVIOUS
  <2>2. NibbleOf(blk, ByteOf(blk, k), FloatOf(x, k), k) = Nibbles(blk, x)[k]
    BY <2>1, NibblePairOf
  <2>. QED
    BY <1>3, <2>2 DEF NibbleOf, ByteOf, FloatOf
<1>6. ASSUME NEW k \in 17..32
      PROVE  t[k - 16] = Nibbles(blk, x)[k]
  <2>1. PICK m \in 1..16 : m = k - 16
    OBVIOUS
  <2>2. k \in 1..32
    OBVIOUS
  <2>3. NibbleOf(blk, ByteOf(blk, k), FloatOf(x, k), k) = Nibbles(blk, x)[k]
    BY <2>2, NibblePairOf
  <2>4. /\ blk + 2 + 8 + (m - 1) \div 2 = ByteOf(blk, k) /\ (m - 1) % 2 = (k - 1) % 2
        /\ x + 16 + 2 * ((m - 1) \div 2) = FloatOf(x, k)
    BY <2>1 DEF ByteOf, FloatOf
  <2>5. t[m] = NibbleOf(blk, ByteOf(blk, k), FloatOf(x, k), k)
    BY <1>4, <2>4 DEF NibbleOf
  <2>. QED
    BY <2>1, <2>3, <2>5
<1>7. s \o t = [k \in 1..32 |-> IF k =< 16 THEN s[k] ELSE t[k - 16]]
  <2>1. PICK m \in Nat : m = 16
    OBVIOUS
  <2>2. HasLength(s, m) /\ HasLength(t, m)
    BY <1>3, <1>4, <2>1 DEF HasLength
  <2>3. s \o t = OneThenOther(s, m, t, m)
    BY ONLY <2>2, ConcatOf, m \in Nat
  <2>. QED
    BY <2>1, <2>3 DEF OneThenOther
<1>8. \A k \in 1..32 : (s \o t)[k] = Nibbles(blk, x)[k]
  <2>1. ASSUME NEW k \in 1..16
        PROVE  (s \o t)[k] = Nibbles(blk, x)[k]
    <3>1. k \in 1..32 /\ k =< 16
      OBVIOUS
    <3>2. (s \o t)[k] = s[k]
      BY ONLY <1>7, <3>1
    <3>. QED
      BY ONLY <1>5, <3>2, k \in 1..16
  <2>2. ASSUME NEW k \in 17..32
        PROVE  (s \o t)[k] = Nibbles(blk, x)[k]
    <3>1. k \in 1..32 /\ ~(k =< 16)
      OBVIOUS
    <3>2. (s \o t)[k] = t[k - 16]
      BY ONLY <1>7, <3>1
    <3>. QED
      BY ONLY <1>6, <3>2, k \in 17..32
  <2>3. \A k \in 1..32 : k \in 1..16 \/ k \in 17..32
    OBVIOUS
  <2>. QED
    BY ONLY <2>1, <2>2, <2>3
<1>9. s \o t = Nibbles(blk, x)
  <2>1. s \o t = [k \in 1..32 |-> (s \o t)[k]]
    BY <1>7
  <2>2. Nibbles(blk, x) = [k \in 1..32 |-> Nibbles(blk, x)[k]]
    BY DEF Nibbles
  <2>. QED
    BY <1>8, <2>1, <2>2
<1>. QED
  BY <1>1, <1>9

\* The single kernel of Q4_0.
LEMMA FusedDotQ4_0Sums ==
  ASSUME NEW a \in Nat, NEW n \in Nat, NEW cols, cols = n * 32, NEW heap
  PROVE  Sums(FusedDotQ4_0(a, cols, heap), RowTerms("Q4_0", a, cols, 0), cols)
<1>. DEFINE heapBlock(blk, x) == Concat(16, 2, LAMBDA i : NibblePair(blk, blk + 2 + i, x + 2 * i))
            longBlock(blk, x) ==
              Concat(8, 2, LAMBDA i : NibblePair(blk, LongByte(blk + 2, i), x + 2 * i))
              \o Concat(8, 2, LAMBDA i : NibblePair(blk, LongByte(blk + 2 + 8, i), x + 16 + 2 * i))
            block(b) == IF heap THEN heapBlock(a + 18 * b, 32 * b) ELSE longBlock(a + 18 * b, 32 * b)
            parts == [i \in 1..n |-> block(i - 1)]
<1>1. "Q4_0" \in Formats /\ BlockColumns["Q4_0"] = 32 /\ BlockBytes["Q4_0"] = 18
  BY BlockShapes DEF Formats
<1>2. FusedDotQ4_0(a, cols, heap) = Joined(parts, 32)
  <2>1. Blocks("Q4_0", cols) = n
    BY <1>1, BlocksOfRow
  <2>. QED
    BY <2>1 DEF FusedDotQ4_0, Concat
<1>3. \A blk, x \in Nat : heapBlock(blk, x) = Nibbles(blk, x) /\ longBlock(blk, x) = Nibbles(blk, x)
  BY HeapBlock, LongBlock
<1>. HIDE DEF heapBlock, longBlock
<1>4. \A b \in 0..n - 1 : block(b) = Nibbles(a + 18 * b, 32 * b)
  BY <1>3
<1>. HIDE DEF block
<1>5. ASSUME NEW b \in 0..n - 1
      PROVE  parts[b + 1] = [k \in 1..32 |->
                <<Unpacked("Q4_0", a + BlockBytes["Q4_0"] * b)[k - 1], 32 * b + k - 1>>]
  <2>1. b + 1 \in 1..n /\ (b + 1) - 1 = b
    OBVIOUS
  <2>2. PICK blk \in Nat, x \in Nat : blk = a + 18 * b /\ x = 32 * b
    OBVIOUS
  <2>3. parts[b + 1] = Nibbles(blk, x)
    BY <1>4, <2>1, <2>2
  <2>4. \A k \in 1..32 : 32 * b + k - 1 = x + (k - 1)
    BY <2>2
  <2>. QED
    BY <1>1, <2>2, <2>3, <2>4 DEF Unpacked, Nibbles
<1>6. Len(parts) = n
  OBVIOUS
<1>. HIDE DEF parts
<1>7. PICK format : format = "Q4_0"
  OBVIOUS
<1>8. Sums(Joined(parts, 32), RowTerms(format, a, n * 32, 0), n * 32)
  <2>1. /\ format \in {"Q4_0", "Q8_0"}
        /\ \A b \in 0..n - 1 : parts[b + 1] = [k \in 1..32 |->
             <<Unpacked(format, a + BlockBytes[format] * b)[k - 1], 32 * b + k - 1>>]
    BY <1>5, <1>7
  <2>. QED
    BY ONLY <1>6, <2>1, JavaBlocksSum, a \in Nat, n \in Nat
<1>. QED
  BY <1>2, <1>7, <1>8

\* The single kernel of Q8_0, from an array or in longs.
LEMMA FusedDotQ8_0Sums ==
  ASSUME NEW a \in Nat, NEW n \in Nat, NEW cols, cols = n * 32, NEW heap
  PROVE  Sums(FusedDotQ8_0(a, cols, heap), RowTerms("Q8_0", a, cols, 0), cols)
<1>. DEFINE byte(blk, k) == IF heap THEN blk + 2 + k ELSE LongByte(blk + 2 + 8 * (k \div 8), k % 8)
            block(b) == [k \in 1..32 |->
               <<Weight({Half(a + 34 * b)}, Byte(byte(a + 34 * b, k - 1)), 0, {}), 32 * b + k - 1>>]
            parts == [i \in 1..n |-> block(i - 1)]
<1>1. "Q8_0" \in Formats /\ BlockColumns["Q8_0"] = 32 /\ BlockBytes["Q8_0"] = 34
  BY BlockShapes DEF Formats
<1>2. FusedDotQ8_0(a, cols, heap) = Joined(parts, 32)
  <2>1. Blocks("Q8_0", cols) = n
    BY <1>1, BlocksOfRow
  <2>. QED
    BY <2>1 DEF FusedDotQ8_0, Concat
<1>3. ASSUME NEW blk \in Nat, NEW k \in 1..32
      PROVE  Weight({Half(blk)}, Byte(byte(blk, k - 1)), 0, {}) = UnpackedQ8_0(blk)[k - 1]
  <2>1. byte(blk, k - 1) = blk + 2 + (k - 1)
    BY DEF LongByte
  <2>. HIDE DEF byte
  <2>2. k - 1 \in 0..31
    OBVIOUS
  <2>. QED
    BY <2>1, <2>2 DEF UnpackedQ8_0, Q8_0Weight
<1>. HIDE DEF byte
<1>4. ASSUME NEW b \in 0..n - 1
      PROVE  parts[b + 1] = [k \in 1..32 |->
                <<Unpacked("Q8_0", a + BlockBytes["Q8_0"] * b)[k - 1], 32 * b + k - 1>>]
  <2>1. b + 1 \in 1..n /\ (b + 1) - 1 = b
    OBVIOUS
  <2>2. PICK blk \in Nat : blk = a + 34 * b
    OBVIOUS
  <2>3. parts[b + 1] = [k \in 1..32 |->
          <<Weight({Half(blk)}, Byte(byte(blk, k - 1)), 0, {}), 32 * b + k - 1>>]
    BY <2>1, <2>2
  <2>. HIDE DEF parts
  <2>. QED
    <3>1. Unpacked("Q8_0", blk) = UnpackedQ8_0(blk)
      BY DEF Unpacked
    <3>2. \A k \in 1..32 : UnpackedQ8_0(blk)[k - 1] = Weight({Half(blk)}, Byte(byte(blk, k - 1)), 0, {})
      BY <1>3
    <3>3. a + BlockBytes["Q8_0"] * b = blk
      BY <1>1, <2>2
    <3>. QED
      BY ONLY <2>3, <3>1, <3>2, <3>3
<1>5. Len(parts) = n
  OBVIOUS
<1>. HIDE DEF parts
<1>6. PICK format : format = "Q8_0"
  OBVIOUS
<1>7. Sums(Joined(parts, 32), RowTerms(format, a, n * 32, 0), n * 32)
  <2>1. /\ format \in {"Q4_0", "Q8_0"}
        /\ \A b \in 0..n - 1 : parts[b + 1] = [k \in 1..32 |->
             <<Unpacked(format, a + BlockBytes[format] * b)[k - 1], 32 * b + k - 1>>]
    BY <1>4, <1>6
  <2>. QED
    BY ONLY <1>5, <2>1, JavaBlocksSum, a \in Nat, n \in Nat
<1>. QED
  BY <1>2, <1>6, <1>7

\* The kernel of F16, four at a time or one by one.
LEMMA FusedDotF16Sums ==
  ASSUME NEW a \in Nat, NEW cols \in Nat, NEW heap
  PROVE  Sums(FusedDotF16(a, cols, heap), RowTerms("F16", a, cols, 0), cols)
<1>. DEFINE packed == IF heap THEN 0 ELSE 4 * (cols \div 4)
            half(i) == IF i < packed
                       THEN LET p == a + 2 * 4 * (i \div 4)  j == i % 4
                            IN {<<LongByte(p, 2 * j), 0, 8, 0>>, <<LongByte(p, 2 * j + 1), 0, 8, 8>>}
                       ELSE Half(a + 2 * i)
<1>1. FusedDotF16(a, cols, heap) = [i \in 1..cols |-> <<Weight({}, half(i - 1), 0, {}), i - 1>>]
  BY DEF FusedDotF16
<1>2. ASSUME NEW i \in Nat
      PROVE  half(i) = Half(a + 2 * i)
  <2>1. /\ a + 2 * 4 * (i \div 4) + 2 * (i % 4) = a + 2 * i
        /\ a + 2 * 4 * (i \div 4) + (2 * (i % 4) + 1) = a + 2 * i + 1
    OBVIOUS
  <2>. HIDE DEF packed
  <2>. QED
    BY <2>1 DEF Half, LongByte
<1>. HIDE DEF half
<1>3. PICK term : term = RowTerms("F16", a, cols, 0)
  OBVIOUS
<1>4. ASSUME NEW i \in 1..cols
      PROVE  <<Weight({}, half(i - 1), 0, {}), i - 1>> = term[i - 1]
  <2>1. PICK c \in 0..cols - 1 : c = i - 1
    OBVIOUS
  <2>2. KernelColumn("F16", c) = c
    BY DEF KernelColumn
  <2>3. c \div 1 = c
    OBVIOUS
  <2>4. Decoded("F16", a, c) = Weight({}, Half(a + 2 * c), 0, {})
    BY <2>3, BlockShapes DEF Decoded
  <2>5. term[c] = <<Decoded("F16", a, c), c>>
    BY <1>3, <2>2 DEF RowTerms
  <2>. QED
    BY <1>2, <2>1, <2>4, <2>5
<1>5. OneToOne(term, 0..cols - 1)
  BY ONLY <1>3, RowTermsDiffer, 0 \in Nat, cols \in Nat
<1>6. Sums([k \in 1..cols |-> term[k - 1]], term, cols)
  BY ONLY <1>5, RowSums, cols \in Nat
<1>7. [k \in 1..cols |-> term[k - 1]] = FusedDotF16(a, cols, heap)
  BY <1>1, <1>4
<1>. QED
  BY <1>3, <1>6, <1>7

\* Column k of the row when lane after lane is added.
LaneColumn(full, k) == 8 * ((k - 1) % full) + (k - 1) \div full

\* Eight at a time visits every column once.
LEMMA LanesList ==
  ASSUME NEW full \in Nat \ {0}, NEW col, col = [k \in 1..8 * full |-> LaneColumn(full, k)]
  PROVE  Lists(8 * full, col, 0..8 * full - 1)
<1>1. ASSUME NEW k \in 1..8 * full
      PROVE  \E s \in 0..7, i \in 0..full - 1 : k = full * s + (i + 1) /\ col[k] = 8 * i + s
  <2>. DEFINE s == (k - 1) \div full
              j == 1 + ((k - 1) % full)
  <2>1. s \in 0..8 - 1 /\ j \in 1..full /\ k = full * s + j
    BY ONLY PieceOf, 8 \in Nat, full \in Nat \ {0}, k \in 1..8 * full
  <2>2. col[k] = 8 * ((k - 1) % full) + s /\ (k - 1) % full = j - 1
    BY <2>1 DEF LaneColumn
  <2>. HIDE DEF s, j
  <2>. QED
    BY <2>1, <2>2, j - 1 \in 0..full - 1, (j - 1) + 1 = j
<1>2. ASSUME NEW s \in 0..7, NEW i \in 0..full - 1
      PROVE  full * s + (i + 1) \in 1..8 * full /\ col[full * s + (i + 1)] = 8 * i + s
  <2>1. PICK j, k : j \in 1..full /\ j = i + 1 /\ k = full * s + j
    OBVIOUS
  <2>2. k \in 1..8 * full /\ (k - 1) \div full = s /\ 1 + ((k - 1) % full) = j
    <3>1. s \in 0..8 - 1
      OBVIOUS
    <3>. QED
      BY ONLY <2>1, <3>1, PlaceOf, 8 \in Nat, full \in Nat \ {0}
  <2>3. (k - 1) % full = i
    <3>1. k - 1 \in Nat
      BY <2>2
    <3>2. (k - 1) % full \in Nat
      BY ONLY <3>1, full \in Nat \ {0}, Divide
    <3>. QED
      BY <2>1, <2>2, <3>2
  <2>. QED
    BY <2>1, <2>2, <2>3 DEF LaneColumn
<1>3. ASSUME NEW k \in 1..8 * full
      PROVE  col[k] \in 0..8 * full - 1
  <2>1. PICK s \in 0..7, i \in 0..full - 1 : col[k] = 8 * i + s
    BY <1>1
  <2>. QED
    BY <2>1
<1>4. ASSUME NEW k \in 1..8 * full, NEW m \in 1..8 * full, col[k] = col[m]
      PROVE  k = m
  <2>1. PICK s \in 0..7, i \in 0..full - 1 : k = full * s + (i + 1) /\ col[k] = 8 * i + s
    BY <1>1
  <2>2. PICK t \in 0..7, j \in 0..full - 1 : m = full * t + (j + 1) /\ col[m] = 8 * j + t
    BY <1>1
  <2>3. s = t /\ i = j
    BY <1>4, <2>1, <2>2
  <2>. QED
    BY <2>1, <2>2, <2>3
<1>5. ASSUME NEW c \in 0..8 * full - 1
      PROVE  \E k \in 1..8 * full : col[k] = c
  <2>1. PICK s \in 0..7, i \in 0..full - 1 : c = 8 * i + s
    <3>1. c % 8 \in 0..7 /\ c \div 8 \in 0..full - 1 /\ c = 8 * (c \div 8) + (c % 8)
      OBVIOUS
    <3>. QED
      BY <3>1
  <2>. QED
    BY <1>2, <2>1
<1>. QED
  BY <1>3, <1>4, <1>5 DEF Lists

\* Formats without a kernel of their own in Java.
LEMMA UnrolledSums ==
  ASSUME NEW format \in {"Q4_K", "Q6_K"}, NEW a \in Nat, NEW cols \in Nat \ {0},
         cols % 256 = 0
  PROVE  Sums(DotProductUnrolled([c \in 0..cols - 1 |-> Decoded(format, a, c)], cols),
              RowTerms(format, a, cols, 0), cols)
<1>1. PICK full \in Nat \ {0} : full = cols \div 8 /\ 8 * full = cols /\ cols % 8 = 0
  <2>1. cols \div 8 \in Nat \ {0} /\ 8 * (cols \div 8) = cols /\ cols % 8 = 0
    OBVIOUS
  <2>. QED
    BY <2>1
<1>2. PICK row : row = [c \in 0..cols - 1 |-> Decoded(format, a, c)]
  OBVIOUS
<1>3. PICK term : term = RowTerms(format, a, cols, 0)
  OBVIOUS
<1>4. \A c \in 0..cols - 1 : term[c] = <<row[c], c>>
  <2>1. \A c \in 0..cols - 1 : KernelColumn(format, c) = c /\ 0 + c = c
    BY DEF KernelColumn
  <2>. QED
    BY <1>2, <1>3, <2>1 DEF RowTerms
<1>5. PICK col : col = [k \in 1..8 * full |-> LaneColumn(full, k)]
  OBVIOUS
<1>6. Lists(8 * full, col, 0..8 * full - 1)
  BY ONLY <1>5, LanesList, full \in Nat \ {0}
<1>. DEFINE lane(s) == [i \in 1..full |-> <<row[8 * (i - 1) + s], 8 * (i - 1) + s>>]
<1>7. Concat(8, full, lane) = Listed(8 * full, col, term)
  <2>1. ASSUME NEW k \in 1..8 * full
        PROVE  /\ (k - 1) \div full \in 0..7 /\ 1 + ((k - 1) % full) \in 1..full
               /\ lane((k - 1) \div full)[1 + ((k - 1) % full)] = term[col[k]]
    <3>. DEFINE s == (k - 1) \div full
                j == 1 + ((k - 1) % full)
    <3>1. s \in 0..8 - 1 /\ j \in 1..full /\ k = full * s + j
      BY ONLY PieceOf, 8 \in Nat, full \in Nat \ {0}, k \in 1..8 * full
    <3>2. (k - 1) % full \in Nat
      BY Divide
    <3>3. j - 1 = (k - 1) % full
      BY <3>2
    <3>4. col[k] = 8 * (j - 1) + s
      BY <1>5, <3>3 DEF LaneColumn
    <3>. HIDE DEF s, j
    <3>5. col[k] \in 0..cols - 1
      BY <1>1, <3>1, <3>4
    <3>6. lane(s)[j] = <<row[8 * (j - 1) + s], 8 * (j - 1) + s>>
      BY <3>1
    <3>7. lane(s)[j] = term[col[k]]
      BY <1>4, <3>4, <3>5, <3>6
    <3>. QED
      BY <3>1, <3>7 DEF s, j
  <2>2. \A k \in 1..8 * full : 1 + (k - 1) \div full \in 1..8 /\ 1 + (k - 1) \div full - 1 = (k - 1) \div full
    BY <2>1
  <2>. HIDE DEF lane
  <2>. QED
    BY <2>1, <2>2 DEF Concat, Joined, Listed
<1>8. DotProductUnrolled(row, cols) = Concat(8, full, lane) \o <<>>
  <2>. DEFINE wide == cols \div 8
              lanes(s) == [i \in 1..wide |-> <<row[8 * (i - 1) + s], 8 * (i - 1) + s>>]
              rest == [i \in 1..cols % 8 |-> <<row[8 * wide + i - 1], 8 * wide + i - 1>>]
  <2>1. DotProductUnrolled(row, cols) = Concat(8, wide, lanes) \o rest
    BY DEF DotProductUnrolled
  <2>2. rest = <<>>
    BY <1>1
  <2>3. wide = full
    BY <1>1
  <2>4. Concat(8, wide, lanes) = Concat(8, full, lane)
    BY <2>3 DEF Concat
  <2>. QED
    BY <2>1, <2>2, <2>4
<1>9. OneToOne(term, 0..8 * full - 1)
  BY <1>1, <1>3, RowTermsDiffer
<1>10. Adds(Listed(8 * full, col, term), term, 0..8 * full - 1) /\ Len(Listed(8 * full, col, term)) = 8 * full
  <2>1. PICK m \in Nat : m = 8 * full
    OBVIOUS
  <2>2. OneToOne(term, 0..m - 1) /\ Lists(m, col, 0..m - 1)
    BY <1>6, <1>9, <2>1
  <2>3. Adds(Listed(m, col, term), term, 0..m - 1) /\ Len(Listed(m, col, term)) = m
    BY ONLY <2>2, AddsListed, m \in Nat
  <2>. QED
    BY <2>1, <2>3
<1>11. Listed(8 * full, col, term) \o <<>> = Listed(8 * full, col, term)
  BY <1>10, ConcatEmptySeq DEF Adds
<1>. QED
  BY <1>1, <1>2, <1>3, <1>7, <1>8, <1>10, <1>11 DEF Sums

\* A row of whole blocks.
LEMMA WholeBlocks ==
  ASSUME NEW format \in Formats, NEW cols \in Nat, cols % BlockColumns[format] = 0
  PROVE  \E n \in Nat : cols = n * BlockColumns[format]
<1>1. PICK length \in Nat \ {0} : length = BlockColumns[format]
  BY BlockShapes
<1>2. cols \div length \in Nat /\ cols = length * (cols \div length) + (cols % length)
  BY Divide
<1>3. PICK n \in Nat : n = cols \div length
  BY <1>2
<1>4. cols = n * length
  BY ONLY <1>1, <1>2, <1>3, cols % BlockColumns[format] = 0, cols \in Nat, n \in Nat, length \in Nat
<1>. QED
  BY <1>1, <1>4

\* Every native kernel, for one row and the floats from x on.
LEMMA NativeRowSums ==
  ASSUME NEW op \in {"gemv", "gemm"}, NEW format \in {"Q4_0", "Q8_0", "Q4_K"}, NEW a \in Nat,
         NEW cols \in Nat, cols % BlockColumns[format] = 0, NEW x \in Nat
  PROVE  Sums(NativeRow(op, format, a, cols, x), RowTerms(format, a, cols, x), cols)
<1>1. PICK n \in Nat : cols = n * BlockColumns[format]
  BY WholeBlocks DEF Formats
<1>2. CASE op = "gemm"
  <2>1. Sums(GemmOf(format, a, cols, x), RowTerms(format, a, cols, x), cols)
    BY <1>1, GemmSums
  <2>2. NativeRow(op, format, a, cols, x) = GemmOf(format, a, cols, x)
    BY <1>2 DEF NativeRow, GemmQ4_0, GemmQ8_0, GemmQ4_K
  <2>. QED
    BY <2>1, <2>2
<1>3. CASE op = "gemv" /\ format # "Q4_K"
  <2>1. Sums(DotOf(format, a, cols, x), RowTerms(format, a, cols, x), cols)
    BY <1>1, <1>3, DotSums
  <2>2. NativeRow(op, format, a, cols, x) = DotOf(format, a, cols, x)
    BY <1>3 DEF NativeRow, DotQ4_0, DotQ8_0
  <2>. QED
    BY <2>1, <2>2
<1>4. CASE op = "gemv" /\ format = "Q4_K"
  <2>1. Sums(DotQ4_K(a, cols, x), RowTerms("Q4_K", a, cols, x), cols)
    BY <1>1, <1>4, BlockShapes, DotQ4_KSums
  <2>2. NativeRow(op, format, a, cols, x) = DotQ4_K(a, cols, x)
    BY <1>4 DEF NativeRow
  <2>. QED
    BY <1>4, <2>1, <2>2
<1>. QED
  BY <1>2, <1>3, <1>4

\* Every Java kernel, for one row and its input vector.
LEMMA JavaRowSums ==
  ASSUME NEW op \in {"gemv", "gemm"}, NEW format \in Formats, NEW a \in Nat,
         NEW cols \in Nat \ {0}, cols % BlockColumns[format] = 0, NEW heap
  PROVE  Sums(JavaRow(op, format, a, cols, heap), RowTerms(format, a, cols, 0), cols)
<1>1. PICK n \in Nat : cols = n * BlockColumns[format]
  BY WholeBlocks
<1>2. CASE format \in {"Q4_0", "Q8_0"} /\ op = "gemm"
  <2>1. cols = n * 32
    BY <1>1, <1>2, BlockShapes
  <2>2. Sums(FusedDotBatch(format, a, cols), RowTerms(format, a, cols, 0), cols)
    BY <1>2, <2>1, BatchSums
  <2>3. JavaRow(op, format, a, cols, heap) = FusedDotBatch(format, a, cols)
    BY <1>2 DEF JavaRow
  <2>. QED
    BY <2>2, <2>3
<1>3. CASE format = "Q4_0" /\ op = "gemv"
  <2>1. Sums(FusedDotQ4_0(a, cols, heap), RowTerms("Q4_0", a, cols, 0), cols)
    BY <1>1, <1>3, BlockShapes, FusedDotQ4_0Sums
  <2>2. JavaRow(op, format, a, cols, heap) = FusedDotQ4_0(a, cols, heap)
    BY <1>3 DEF JavaRow
  <2>. QED
    BY <1>3, <2>1, <2>2
<1>4. CASE format = "Q8_0" /\ op = "gemv"
  <2>1. Sums(FusedDotQ8_0(a, cols, heap), RowTerms("Q8_0", a, cols, 0), cols)
    BY <1>1, <1>4, BlockShapes, FusedDotQ8_0Sums
  <2>2. JavaRow(op, format, a, cols, heap) = FusedDotQ8_0(a, cols, heap)
    BY <1>4 DEF JavaRow
  <2>. QED
    BY <1>4, <2>1, <2>2
<1>5. CASE format = "F16"
  <2>1. Sums(FusedDotF16(a, cols, heap), RowTerms("F16", a, cols, 0), cols)
    BY FusedDotF16Sums
  <2>2. JavaRow(op, format, a, cols, heap) = FusedDotF16(a, cols, heap)
    BY <1>5 DEF JavaRow
  <2>. QED
    BY <1>5, <2>1, <2>2
<1>6. CASE format \in {"Q4_K", "Q6_K"}
  <2>. DEFINE row == [c \in 0..cols - 1 |-> Decoded(format, a, c)]
  <2>1. cols % 256 = 0
    BY <1>6, BlockShapes
  <2>2. Sums(DotProductUnrolled(row, cols), RowTerms(format, a, cols, 0), cols)
    BY <1>6, <2>1, UnrolledSums
  <2>3. JavaRow(op, format, a, cols, heap) = DotProductUnrolled(row, cols)
    BY <1>6 DEF JavaRow
  <2>. QED
    BY <2>2, <2>3
<1>. QED
  BY <1>2, <1>3, <1>4, <1>5, <1>6 DEF Formats

-----------------------------------------------------------------------------
(* The native buffers.                                                      *)

Floats(buf) == Cardinality(DOMAIN buf)
IsBuffer(buf) == Floats(buf) \in Nat /\ DOMAIN buf = 0..Floats(buf) - 1

\* A buffer of n floats.
LEMMA NewBuffer ==
  ASSUME NEW n \in Nat, NEW buf, DOMAIN buf = 0..n - 1
  PROVE  IsBuffer(buf) /\ Floats(buf) = n
<1>1. Cardinality(0..n - 1) = n
  BY FS_Interval
<1>. QED
  BY <1>1 DEF IsBuffer, Floats

\* ensureIn and ensureOut: the buffer is large enough then and never smaller than before.
LEMMA EnsuredFits ==
  ASSUME NEW buf, NEW needed \in Nat, NEW empty, IsBuffer(buf)
  PROVE  LET new == Ensured(buf, needed, empty)
         IN IsBuffer(new) /\ Floats(new) >= needed /\ Floats(new) >= Floats(buf)
<1>. DEFINE size == Floats(buf)
            larger == IF needed > 2 * size THEN needed ELSE 2 * size
            new == [i \in 0..larger - 1 |-> empty]
<1>1. size \in Nat
  BY DEF IsBuffer
<1>2. CASE size >= needed
  <2>1. Ensured(buf, needed, empty) = buf
    BY <1>2 DEF Ensured, Floats
  <2>. QED
    BY <1>1, <1>2, <2>1
<1>3. CASE ~(size >= needed)
  <2>1. Ensured(buf, needed, empty) = new
    BY <1>3 DEF Ensured, Floats
  <2>2. larger \in Nat /\ larger >= needed /\ larger >= size
    BY <1>1, <1>3
  <2>3. IsBuffer(new) /\ Floats(new) = larger
    <3>. HIDE DEF larger
    <3>. QED
      BY <2>2, NewBuffer
  <2>. QED
    BY <2>1, <2>2, <2>3
<1>. QED
  BY <1>2, <1>3

-----------------------------------------------------------------------------
(* The shapes of the calls.                                                 *)

Shapes == Matrices \cup Heads

LEMMA CallsAreShapes ==
  /\ Len(Calls) \in Nat
  /\ UNION ToSet(Calls) \subseteq Shapes
  /\ \A i \in 1..Len(Calls) : Calls[i] \subseteq UNION ToSet(Calls)
<1>1. Calls \in Seq(SUBSET Shapes)
  BY KernelAssumption DEF Shapes
<1>2. Len(Calls) \in Nat /\ DOMAIN Calls = 1..Len(Calls)
  BY <1>1
<1>3. \A i \in 1..Len(Calls) : Calls[i] \in SUBSET Shapes
  BY <1>1
<1>. QED
  BY <1>2, <1>3 DEF ToSet

LEMMA MatrixShape ==
  ASSUME NEW c \in Shapes, IsMatrix(c)
  PROVE  /\ c.op \in {"gemv", "gemm"}
         /\ c.format \in Formats
         /\ c.rows \in Nat /\ c.cols \in Nat /\ c.batch \in Nat /\ c.base \in Nat
         /\ c.rows > 0 /\ c.cols > 0 /\ c.batch > 0
         /\ c.place \in {"mapped", "direct", "heap"}
         /\ c.cols % BlockColumns[c.format] = 0
         /\ c.op = "gemv" => c.batch = 1
BY DEF Shapes, Matrices, Heads, IsMatrix

LEMMA HeadsShape ==
  ASSUME NEW c \in Shapes, ~IsMatrix(c)
  PROVE  /\ c.op = "attention"
         /\ c.heads \in Nat /\ c.kvHeads \in Nat /\ c.headDim \in Nat /\ c.pos \in Nat
         /\ c.heads > 0 /\ c.kvHeads > 0 /\ c.headDim > 0
BY DEF Shapes, Matrices, Heads, IsMatrix

LEMMA RowsHaveBytes ==
  ASSUME NEW f \in Formats, NEW cols \in Nat
  PROVE  Blocks(f, cols) \in Nat /\ RowBytes(f, cols) \in Nat
<1>1. Blocks(f, cols) \in Nat
  BY BlockShapes DEF Blocks
<1>. QED
  BY <1>1, BlockShapes, ProductsOfNumbers DEF RowBytes

\* Sizes of a call in floats.
LEMMA CallSizes ==
  ASSUME NEW c \in Shapes
  PROVE  /\ Batch(c) \in Nat /\ InWidth(c) \in Nat /\ OutWidth(c) \in Nat
         /\ TotalIn(c) \in Nat /\ TotalOut(c) \in Nat
<1>1. Batch(c) \in Nat /\ InWidth(c) \in Nat /\ OutWidth(c) \in Nat
  <2>1. CASE IsMatrix(c)
    BY <2>1, MatrixShape DEF Batch, InWidth, OutWidth
  <2>2. CASE ~IsMatrix(c)
    <3>1. c.heads * c.headDim \in Nat
      BY <2>2, HeadsShape, ProductsOfNumbers
    <3>. QED
      BY <2>2, <3>1 DEF Batch, InWidth, OutWidth
  <2>. QED
    BY <2>1, <2>2
<1>. QED
  BY <1>1, ProductsOfNumbers DEF TotalIn, TotalOut

-----------------------------------------------------------------------------
(* The inductive invariant of the places, the buffers and the GPU fields.   *)

GpuPlaces == {"gpuVecIn", "gpuVecOut", "upload", "gpuWeights", "dispatch"}

PlacesInv ==
  /\ pc \notin {"returned", "closed"} => call \in Shapes
  /\ pc \in GpuPlaces => call.op = "gemv"
  /\ pc \in {"native", "kernel"} => TriesNative(call)

\* The kernel is called with buffers that take the call.
BuffersInv ==
  /\ IsBuffer(inBuf) /\ IsBuffer(outBuf)
  /\ pc = "kernel" => TotalIn(call) =< Floats(inBuf) /\ TotalOut(call) =< Floats(outBuf)

\* A GPU field names a buffer that exists, or none, or the last allocation for it
\* failed; no two fields name the same buffer.
FieldsInv ==
  /\ \A s \in Slots : slot[s].buffer = 0 \/ slot[s].buffer \in live \/ s \in failed
  /\ \A s, u \in Slots : s = u \/ slot[s].buffer = 0 \/ slot[s].buffer # slot[u].buffer
  /\ live \subseteq {slot[s].buffer : s \in Slots}
  /\ pc = "closed" => live = {}

Fits(s) ==
  /\ slot[s].capacity >= Needed(s)
  /\ slot[s].buffer \in live \/ s \in failed

\* The buffers the call has been given so far.
GivenInv ==
  /\ pc \in {"gpuVecOut", "upload", "gpuWeights", "dispatch"} => Fits("vecIn")
  /\ pc \in {"upload", "gpuWeights", "dispatch"} => Fits("vecOut")
  /\ pc = "dispatch" => Fits("weights")

GpuInv == FieldsInv /\ GivenInv

KernelInv == TypeOK /\ PlacesInv /\ BuffersInv /\ GpuInv

LEMMA InitKernelInv == Init => KernelInv
<1>. SUFFICES ASSUME Init
              PROVE  KernelInv
  OBVIOUS
<1>1. /\ IsBuffer(inBuf) /\ Floats(inBuf) = InFloats
      /\ IsBuffer(outBuf) /\ Floats(outBuf) = OutFloats
  <2>1. DOMAIN inBuf = 0..InFloats - 1 /\ DOMAIN outBuf = 0..OutFloats - 1
    BY DEF Init
  <2>2. InFloats \in Nat /\ OutFloats \in Nat
    BY KernelAssumption
  <2>. QED
    BY <2>1, <2>2, NewBuffer
<1>2. TypeOK
  <2>1. slot \in [Slots -> [buffer : 0..lastBuffer, capacity : Nat]]
    BY DEF Init
  <2>2. Cardinality(DOMAIN inBuf) >= InFloats /\ Cardinality(DOMAIN outBuf) >= OutFloats
    BY <1>1, KernelAssumption DEF Floats
  <2>3. number \in 0..Len(Calls)
    BY CallsAreShapes DEF Init
  <2>4. live \subseteq 1..lastBuffer /\ lastBuffer \in Nat /\ failed \subseteq Slots
    BY DEF Init
  <2>5. {gpu, native} \subseteq BOOLEAN
    <3>1. gpu \in BOOLEAN /\ native \in BOOLEAN
      BY DEF Init
    <3>. QED
      BY ONLY <3>1, Zenon
  <2>6. call \in (UNION ToSet(Calls)) \cup {NoCall}
    BY DEF Init
  <2>7. pc \in {"returned", "gpuVecIn", "gpuVecOut", "upload", "gpuWeights", "dispatch",
               "native", "kernel", "fallback", "closed"}
    BY DEF Init
  <2>. QED
    BY <2>1, <2>2, <2>3, <2>4, <2>5, <2>6, <2>7 DEF TypeOK
<1>3. GpuInv
  BY DEF Init, GpuInv, FieldsInv, GivenInv, Slots
<1>4. PlacesInv
  BY DEF Init, PlacesInv, GpuPlaces
<1>. QED
  BY <1>1, <1>2, <1>3, <1>4 DEF Init, KernelInv, BuffersInv

-----------------------------------------------------------------------------
(* The steps, one by one.                                                   *)

\* A GPU buffer is asked for with a number.
LEMMA Needs ==
  ASSUME NEW s \in Slots, call \in Shapes, call.op = "gemv"
  PROVE  Needed(s) \in Nat
<1>1. /\ call.rows \in Nat /\ call.cols \in Nat
      /\ call.rows * RowBytes(call.format, call.cols) \in Nat
  BY MatrixShape, RowsHaveBytes, ProductsOfNumbers DEF IsMatrix
<1>. QED
  BY <1>1, KernelAssumption DEF Needed, Slots

LEMMA BeginKeepsInv ==
  ASSUME KernelInv, NEW c \in UNION ToSet(Calls), Begin(c)
  PROVE  KernelInv'
<1>. USE DEF KernelInv
<1>1. c \in Shapes /\ number \in 0..Len(Calls) /\ number < Len(Calls) /\ Len(Calls) \in Nat
  BY CallsAreShapes DEF Begin, TypeOK
<1>2. TypeOK'
  <2>1. number' \in 0..Len(Calls)
    BY <1>1 DEF Begin
  <2>2. pc' \in {"gpuVecIn", "native", "fallback"}
    BY DEF Begin, Route
  <2>. QED
    BY <2>1, <2>2 DEF Begin, TypeOK, gpuVars
<1>3. PlacesInv'
  BY <1>1 DEF Begin, PlacesInv, Route, TriesGpu, TriesNative, GpuPlaces, IsMatrix, HasKernel
<1>4. BuffersInv'
  BY DEF Begin, Route, BuffersInv, IsBuffer, Floats
<1>5. GpuInv'
  <2>1. FieldsInv'
    BY DEF Begin, GpuInv, FieldsInv, gpuVars, Route
  <2>2. GivenInv'
    BY DEF Begin, GivenInv, Route
  <2>. QED
    BY <2>1, <2>2 DEF GpuInv
<1>. QED
  BY <1>2, <1>3, <1>4, <1>5

\* Where the call may go when it leaves the GPU.
LEMMA RouteIsOpen ==
  ASSUME KernelInv, pc' = Route(call), UNCHANGED <<gpu, native, call, inBuf, outBuf>>,
         pc \in GpuPlaces
  PROVE  /\ pc' \in {"native", "fallback"}
         /\ PlacesInv' /\ BuffersInv'
<1>1. pc' \in {"native", "fallback"} /\ call \in Shapes
  BY DEF Route, KernelInv, PlacesInv, GpuPlaces
<1>2. PlacesInv'
  BY <1>1 DEF PlacesInv, Route, TriesNative, GpuPlaces, IsMatrix, HasKernel
<1>3. BuffersInv'
  BY <1>1 DEF KernelInv, BuffersInv, IsBuffer, Floats
<1>. QED
  BY <1>1, <1>2, <1>3

\* The places of an ensure() of the GPU attempt.
Ensures == {<<"vecIn", "gpuVecIn", "gpuVecOut">>, <<"vecOut", "gpuVecOut", "upload">>,
            <<"weights", "gpuWeights", "dispatch">>}

LEMMA EnsureAllocatesKeepsInv ==
  ASSUME KernelInv, NEW e \in Ensures, EnsureAllocates(e[1], e[2], e[3])
  PROVE  KernelInv'
<1>. USE DEF KernelInv
<1>. DEFINE s == e[1]
            new == lastBuffer + 1
<1>1. s \in Slots /\ pc \in GpuPlaces /\ pc' \in GpuPlaces /\ pc = e[2] /\ pc' = e[3]
  BY DEF Ensures, Slots, GpuPlaces, EnsureAllocates
<1>2. /\ slot' = [slot EXCEPT ![s] = [buffer |-> new, capacity |-> Needed(s)]]
      /\ live' = (live \ {slot[s].buffer}) \cup {new}
      /\ failed' = failed \ {s}
      /\ lastBuffer' = new
      /\ UNCHANGED <<gpu, native, number, call, inBuf, outBuf, result>>
  BY DEF EnsureAllocates
<1>3. /\ slot \in [Slots -> [buffer : 0..lastBuffer, capacity : Nat]]
      /\ live \subseteq 1..lastBuffer
      /\ failed \subseteq Slots
      /\ FieldsInv
  BY DEF TypeOK, GpuInv
<1>4. call \in Shapes /\ call.op = "gemv" /\ Needed(s) \in Nat
  <2>1. call \in Shapes /\ call.op = "gemv"
    BY <1>1 DEF PlacesInv, GpuPlaces
  <2>. QED
    BY <1>1, <2>1, Needs
<1>5. lastBuffer \in Nat
  BY DEF TypeOK
<1>6. TypeOK'
  <2>1. slot' \in [Slots -> [buffer : 0..lastBuffer', capacity : Nat]]
    <3>1. 0..lastBuffer \subseteq 0..new /\ new \in 0..new
      BY <1>5
    <3>. QED
      BY <1>1, <1>2, <1>3, <1>4, <3>1
  <2>2. live' \subseteq 1..lastBuffer' /\ lastBuffer' \in Nat
    <3>1. 1..lastBuffer \subseteq 1..new /\ new \in 1..new /\ new \in Nat
      BY <1>5
    <3>. HIDE DEF new
    <3>. QED
      BY <1>2, <1>3, <3>1
  <2>3. failed' \subseteq Slots
    BY <1>2, <1>3
  <2>. QED
    BY <1>1, <1>2, <2>1, <2>2, <2>3 DEF TypeOK, GpuPlaces
<1>7. PlacesInv' /\ BuffersInv'
  BY <1>1, <1>2, <1>4 DEF PlacesInv, BuffersInv, IsBuffer, Floats, GpuPlaces
<1>8. FieldsInv'
  <2>1. /\ slot'[s] = [buffer |-> new, capacity |-> Needed(s)]
        /\ \A u \in Slots : u # s => slot'[u] = slot[u]
        /\ \A u \in Slots : slot[u].buffer \in 0..lastBuffer
    BY <1>1, <1>2, <1>3
  <2>2. new # 0 /\ new \notin 0..lastBuffer /\ new \notin live
    BY <1>3, <1>5
  <2>3. \A u \in Slots : slot'[u].buffer = 0 \/ slot'[u].buffer \in live' \/ u \in failed'
    BY <1>2, <1>3, <2>1, <2>2, <1>1 DEF FieldsInv
  <2>4. \A u, v \in Slots : u = v \/ slot'[u].buffer = 0 \/ slot'[u].buffer # slot'[v].buffer
    BY <1>1, <1>3, <2>1, <2>2 DEF FieldsInv
  <2>5. live' \subseteq {slot'[u].buffer : u \in Slots}
    <3>. SUFFICES ASSUME NEW b \in live'
                  PROVE  \E u \in Slots : slot'[u].buffer = b
      OBVIOUS
    <3>1. CASE b = new
      BY <1>1, <2>1, <3>1
    <3>2. CASE b # new
      <4>1. b \in live /\ b # slot[s].buffer
        BY <1>2, <3>2
      <4>2. PICK u \in Slots : slot[u].buffer = b
        BY <1>3, <4>1 DEF FieldsInv
      <4>. QED
        BY <2>1, <4>1, <4>2
    <3>. QED
      BY <3>1, <3>2
  <2>. QED
    BY <1>1, <2>3, <2>4, <2>5 DEF FieldsInv, GpuPlaces
<1>9. GivenInv'
  <2>1. \A u \in Slots : Needed(u)' = Needed(u)
    BY <1>2 DEF Needed, Slots
  <2>2. Fits(s)'
    BY <1>1, <1>2, <1>3, <1>4, <2>1 DEF Fits
  <2>3. \A u \in Slots \ {s} : Fits(u) => Fits(u)'
    BY <1>1, <1>2, <1>3, <1>4, <2>1 DEF Fits, FieldsInv
  <2>. QED
    BY <1>1, <2>2, <2>3 DEF GivenInv, GpuInv, Ensures, Slots
<1>. QED
  BY <1>6, <1>7, <1>8, <1>9 DEF GpuInv

LEMMA EnsureKeepsKeepsInv ==
  ASSUME KernelInv, NEW e \in Ensures, EnsureKeeps(e[1], e[2], e[3])
  PROVE  KernelInv'
<1>. USE DEF KernelInv
<1>. DEFINE s == e[1]
<1>1. s \in Slots /\ pc \in GpuPlaces /\ pc' \in GpuPlaces /\ pc = e[2] /\ pc' = e[3]
  BY DEF Ensures, Slots, GpuPlaces, EnsureKeeps
<1>2. UNCHANGED <<gpu, native, number, call, inBuf, outBuf, result, slot, live, lastBuffer, failed>>
  BY DEF EnsureKeeps, gpuVars
<1>3. TypeOK'
  BY <1>1, <1>2 DEF TypeOK, GpuPlaces
<1>4. PlacesInv' /\ BuffersInv'
  BY <1>1, <1>2 DEF PlacesInv, BuffersInv, IsBuffer, Floats, GpuPlaces
<1>5. FieldsInv'
  BY <1>1, <1>2 DEF GpuInv, FieldsInv, GpuPlaces
<1>6. GivenInv'
  <2>1. \A u \in Slots : Fits(u) => Fits(u)'
    BY <1>2 DEF Fits, Needed, Slots
  <2>2. Fits(s)
    BY <1>1 DEF EnsureKeeps, Suffices, Fits, GpuInv, FieldsInv
  <2>. QED
    BY <1>1, <2>1, <2>2 DEF GivenInv, GpuInv, Ensures, Slots
<1>. QED
  BY <1>3, <1>4, <1>5, <1>6 DEF GpuInv

LEMMA EnsureFailsKeepsInv ==
  ASSUME KernelInv, NEW e \in Ensures, EnsureFails(e[1], e[2])
  PROVE  KernelInv'
<1>. USE DEF KernelInv
<1>. DEFINE s == e[1]
<1>1. s \in Slots /\ pc \in GpuPlaces
  BY DEF Ensures, Slots, GpuPlaces, EnsureFails
<1>2. /\ live' = live \ {slot[s].buffer}
      /\ failed' = failed \cup {s}
      /\ pc' = Route(call)
      /\ UNCHANGED <<gpu, native, number, call, inBuf, outBuf, result, slot, lastBuffer>>
  BY DEF EnsureFails
<1>3. pc' \in {"native", "fallback"} /\ PlacesInv' /\ BuffersInv'
  BY <1>1, <1>2, RouteIsOpen
<1>4. TypeOK'
  BY <1>1, <1>2, <1>3 DEF TypeOK
<1>5. FieldsInv'
  <2>1. \A u \in Slots : slot[u].buffer = 0 \/ slot[u].buffer \in live' \/ u \in failed'
    BY <1>1, <1>2 DEF GpuInv, FieldsInv
  <2>. QED
    BY <1>2, <1>3, <2>1 DEF GpuInv, FieldsInv
<1>6. GivenInv'
  BY <1>3 DEF GivenInv
<1>. QED
  BY <1>3, <1>4, <1>5, <1>6 DEF GpuInv

\* Upload, the dispatch and what they throw change nothing but the place.
LEMMA UseKeepsInv ==
  ASSUME KernelInv, Upload \/ GpuDispatch \/ GpuThrows
  PROVE  KernelInv'
<1>. USE DEF KernelInv
<1>1. UNCHANGED <<gpu, native, number, call, inBuf, outBuf, result, slot, live, lastBuffer, failed>>
  BY DEF Upload, GpuDispatch, GpuThrows, gpuVars
<1>2. \/ pc = "upload" /\ pc' = "gpuWeights"
      \/ pc \in GpuPlaces /\ pc' = Route(call)
  BY DEF Upload, GpuDispatch, GpuThrows, GpuPlaces
<1>3. PlacesInv' /\ BuffersInv' /\ pc' \in {"gpuWeights", "native", "fallback"}
  <2>1. CASE pc = "upload" /\ pc' = "gpuWeights"
    BY <1>1, <2>1 DEF PlacesInv, BuffersInv, IsBuffer, Floats, GpuPlaces
  <2>2. CASE pc \in GpuPlaces /\ pc' = Route(call)
    BY <1>1, <2>2, RouteIsOpen
  <2>. QED
    BY <1>2, <2>1, <2>2
<1>4. TypeOK'
  BY <1>1, <1>3 DEF TypeOK
<1>5. FieldsInv'
  BY <1>1, <1>3 DEF GpuInv, FieldsInv
<1>6. GivenInv'
  <2>1. \A u \in Slots : Fits(u) => Fits(u)'
    BY <1>1 DEF Fits, Needed, Slots
  <2>2. pc' = "gpuWeights" => pc = "upload"
    BY <1>2 DEF Route
  <2>. QED
    BY <1>3, <2>1, <2>2 DEF GivenInv, GpuInv, Slots
<1>. QED
  BY <1>3, <1>4, <1>5, <1>6 DEF GpuInv

LEMMA GpuStepKeepsInv ==
  ASSUME KernelInv, GpuStep
  PROVE  KernelInv'
<1>1. CASE Upload \/ GpuDispatch \/ GpuThrows
  BY <1>1, UseKeepsInv
<1>2. ASSUME NEW e \in Ensures, Ensure(e[1], e[2], e[3])
      PROVE  KernelInv'
  BY <1>2, EnsureAllocatesKeepsInv, EnsureKeepsKeepsInv, EnsureFailsKeepsInv DEF Ensure
<1>3. \/ Upload \/ GpuDispatch \/ GpuThrows
      \/ \E e \in Ensures : Ensure(e[1], e[2], e[3])
  <2>1. CASE Ensure("vecIn", "gpuVecIn", "gpuVecOut")
    BY <2>1 DEF Ensures
  <2>2. CASE Ensure("vecOut", "gpuVecOut", "upload")
    BY <2>2 DEF Ensures
  <2>3. CASE Ensure("weights", "gpuWeights", "dispatch")
    BY <2>3 DEF Ensures
  <2>. QED
    BY <2>1, <2>2, <2>3 DEF GpuStep
<1>. QED
  BY <1>1, <1>2, <1>3

\* The steps outside the GPU attempt leave its buffers alone.
LEMMA OutsideGpu ==
  ASSUME KernelInv, UNCHANGED <<slot, live, lastBuffer, failed>>,
         pc \notin GpuPlaces, pc' \in {"kernel", "fallback", "returned"}
  PROVE  GpuInv'
<1>1. FieldsInv'
  BY DEF KernelInv, GpuInv, FieldsInv
<1>2. GivenInv'
  BY DEF GivenInv
<1>. QED
  BY <1>1, <1>2 DEF GpuInv

LEMMA PrepareKeepsInv ==
  ASSUME KernelInv, Prepare
  PROVE  KernelInv'
<1>. USE DEF KernelInv
<1>. DEFINE in == Ensured(inBuf, TotalIn(call), NoFloat)
            out == Ensured(outBuf, TotalOut(call), Stale)
<1>1. /\ pc = "native" /\ pc' = "kernel"
      /\ inBuf' = CopiedIn(in) /\ outBuf' = out
      /\ UNCHANGED <<gpu, native, number, call, result, slot, live, lastBuffer, failed>>
  BY DEF Prepare, gpuVars
<1>2. call \in Shapes /\ TotalIn(call) \in Nat /\ TotalOut(call) \in Nat
  BY <1>1, CallSizes DEF PlacesInv
<1>3. /\ IsBuffer(in) /\ Floats(in) >= TotalIn(call) /\ Floats(in) >= Floats(inBuf)
      /\ IsBuffer(out) /\ Floats(out) >= TotalOut(call) /\ Floats(out) >= Floats(outBuf)
  BY <1>2, EnsuredFits DEF BuffersInv
<1>4. IsBuffer(CopiedIn(in)) /\ Floats(CopiedIn(in)) = Floats(in)
  <2>1. DOMAIN CopiedIn(in) = DOMAIN in
    BY DEF CopiedIn
  <2>. QED
    BY <1>3, <2>1 DEF IsBuffer, Floats
<1>5. BuffersInv'
  <2>1. TotalIn(call)' = TotalIn(call) /\ TotalOut(call)' = TotalOut(call)
    BY <1>1 DEF TotalIn, TotalOut
  <2>2. /\ IsBuffer(inBuf)' /\ Floats(inBuf)' = Floats(in)
        /\ IsBuffer(outBuf)' /\ Floats(outBuf)' = Floats(out)
    BY <1>1, <1>3, <1>4 DEF IsBuffer, Floats
  <2>3. Floats(in) \in Nat /\ Floats(out) \in Nat
    BY <1>3 DEF IsBuffer
  <2>. QED
    BY <1>2, <1>3, <2>1, <2>2, <2>3 DEF BuffersInv
<1>6. PlacesInv'
  BY <1>1, <1>2 DEF PlacesInv, TriesNative, GpuPlaces
<1>7. TypeOK'
  <2>1. Floats(inBuf) >= InFloats /\ Floats(outBuf) >= OutFloats
    BY DEF TypeOK, Floats
  <2>2. Floats(inBuf)' >= InFloats /\ Floats(outBuf)' >= OutFloats
    <3>1. /\ InFloats \in Nat /\ OutFloats \in Nat /\ Floats(inBuf) \in Nat /\ Floats(outBuf) \in Nat
          /\ Floats(in) \in Nat /\ Floats(out) \in Nat
      BY <1>3, KernelAssumption DEF BuffersInv, IsBuffer
    <3>2. Floats(inBuf)' = Floats(in) /\ Floats(outBuf)' = Floats(out)
      BY <1>1, <1>4 DEF Floats
    <3>. QED
      BY <1>3, <2>1, <3>1, <3>2
  <2>. QED
    BY <1>1, <2>2 DEF TypeOK, Floats
<1>8. GpuInv'
  BY <1>1, OutsideGpu DEF GpuPlaces
<1>. QED
  BY <1>5, <1>6, <1>7, <1>8

\* The kernels write into the buffers, Java only into the caller's arrays.
LEMMA ComputeKeepsInv ==
  ASSUME KernelInv, RunMatrixKernel \/ RunAttentionKernel \/ RefuseHeap \/ Fallback
  PROVE  KernelInv'
<1>. USE DEF KernelInv
<1>1. /\ pc \in {"kernel", "fallback"} /\ pc' \in {"fallback", "returned"}
      /\ UNCHANGED <<gpu, native, number, call, inBuf, slot, live, lastBuffer, failed>>
  BY DEF RunMatrixKernel, RunAttentionKernel, RefuseHeap, Fallback, gpuVars
<1>2. DOMAIN outBuf' = DOMAIN outBuf
  <2>1. CASE RunMatrixKernel
    BY <2>1 DEF RunMatrixKernel, MatrixOut
  <2>2. CASE RunAttentionKernel
    BY <2>2 DEF RunAttentionKernel, AttentionOut
  <2>3. CASE RefuseHeap \/ Fallback
    BY <2>3 DEF RefuseHeap, Fallback
  <2>. QED
    BY <2>1, <2>2, <2>3
<1>3. TypeOK'
  BY <1>1, <1>2 DEF TypeOK
<1>4. PlacesInv'
  BY <1>1 DEF PlacesInv, GpuPlaces
<1>5. BuffersInv'
  BY <1>1, <1>2 DEF BuffersInv, IsBuffer, Floats
<1>6. GpuInv'
  BY <1>1, OutsideGpu DEF GpuPlaces
<1>. QED
  BY <1>3, <1>4, <1>5, <1>6

\* No segment, or no result: the buffers stay as they are.
LEMMA AttentionThrowsKeepsInv ==
  ASSUME KernelInv, SegmentThrows \/ AttentionThrows
  PROVE  KernelInv'
<1>. USE DEF KernelInv
<1>1. /\ pc \in {"native", "fallback"} /\ pc' \in {"fallback", "returned"}
      /\ pc' = "fallback" => call' = call
      /\ call' \in {call, NoCall}
      /\ UNCHANGED <<gpu, native, number, inBuf, outBuf, slot, live, lastBuffer, failed>>
  BY DEF SegmentThrows, AttentionThrows, gpuVars
<1>2. TypeOK'
  BY <1>1 DEF TypeOK
<1>3. PlacesInv'
  BY <1>1 DEF PlacesInv, GpuPlaces
<1>4. BuffersInv'
  BY <1>1 DEF BuffersInv, IsBuffer, Floats
<1>5. GpuInv'
  BY <1>1, OutsideGpu DEF GpuPlaces
<1>. QED
  BY <1>2, <1>3, <1>4, <1>5

LEMMA CloseKeepsInv ==
  ASSUME KernelInv, Close
  PROVE  KernelInv'
<1>. USE DEF KernelInv
<1>1. /\ pc' = "closed"
      /\ live' = live \ {slot[s].buffer : s \in Slots}
      /\ slot' = [s \in Slots |-> [slot[s] EXCEPT !.buffer = 0]]
      /\ UNCHANGED <<gpu, native, number, call, inBuf, outBuf, result, lastBuffer, failed>>
  BY DEF Close
<1>2. live' = {}
  BY <1>1 DEF GpuInv, FieldsInv
<1>3. TypeOK'
  <2>1. slot' \in [Slots -> [buffer : 0..lastBuffer', capacity : Nat]]
    <3>1. 0 \in 0..lastBuffer
      BY DEF TypeOK
    <3>. QED
      BY <1>1, <3>1 DEF TypeOK
  <2>. QED
    BY <1>1, <1>2, <2>1 DEF TypeOK
<1>4. PlacesInv' /\ BuffersInv'
  BY <1>1 DEF PlacesInv, BuffersInv, IsBuffer, Floats, GpuPlaces
<1>5. GpuInv'
  <2>1. \A s \in Slots : slot'[s].buffer = 0
    BY <1>1 DEF TypeOK
  <2>. QED
    BY <1>1, <1>2, <2>1 DEF GpuInv, FieldsInv, GivenInv
<1>. QED
  BY <1>3, <1>4, <1>5

LEMMA NextKernelInv == KernelInv /\ [Next]_vars => KernelInv'
<1>. SUFFICES ASSUME KernelInv, [Next]_vars
              PROVE  KernelInv'
  OBVIOUS
<1>1. CASE UNCHANGED vars
  <2>1. TypeOK' /\ PlacesInv'
    BY <1>1 DEF vars, gpuVars, KernelInv, TypeOK, PlacesInv, TriesNative, GpuPlaces
  <2>2. BuffersInv'
    BY <1>1 DEF vars, gpuVars, KernelInv, BuffersInv, IsBuffer, Floats, TotalIn, TotalOut
  <2>3. FieldsInv' /\ GivenInv'
    BY <1>1 DEF vars, gpuVars, KernelInv, GpuInv, FieldsInv, GivenInv, Fits, Needed
  <2>. QED
    BY <2>1, <2>2, <2>3 DEF KernelInv, GpuInv
<1>2. CASE \E c \in UNION ToSet(Calls) : Begin(c)
  BY <1>2, BeginKeepsInv
<1>3. CASE GpuStep
  BY <1>3, GpuStepKeepsInv
<1>4. CASE Prepare
  BY <1>4, PrepareKeepsInv
<1>5. CASE RunMatrixKernel \/ RunAttentionKernel \/ RefuseHeap \/ Fallback
  BY <1>5, ComputeKeepsInv
<1>6. CASE Close
  BY <1>6, CloseKeepsInv
<1>7. CASE SegmentThrows \/ AttentionThrows
  BY <1>7, AttentionThrowsKeepsInv
<1>. QED
  BY <1>1, <1>2, <1>3, <1>4, <1>5, <1>6, <1>7 DEF Next

LEMMA KernelInvHolds == Spec => []KernelInv
BY InitKernelInv, NextKernelInv, PTL DEF Spec

-----------------------------------------------------------------------------
(* The theorems about the buffers.                                          *)

\* Types; the native buffers never get smaller than they were made.
THEOREM KernelTypes == Spec => []TypeOK
<1>1. KernelInv => TypeOK
  BY DEF KernelInv
<1>. QED
  BY <1>1, KernelInvHolds, PTL

\* Upload and dispatch (dispatchFusedGemv) are given GPU buffers large enough for the
\* call, which exist unless the last allocation for their field failed, in any
\* sequence of calls of any shapes.
THEOREM GpuCallsHaveRoom == Spec => []GpuBuffersFit
<1>1. KernelInv => GpuBuffersFit
  BY DEF KernelInv, GpuInv, GivenInv, Fits, GpuBuffersFit, Slots
<1>. QED
  BY <1>1, KernelInvHolds, PTL

\* However often the buffers grow and whichever allocations fail, every GPU buffer is
\* named by a field of the engine until close(), which frees them all.
THEOREM GpuBuffersAreFreed == Spec => []NoGpuLeak
<1>1. KernelInv => NoGpuLeak
  BY DEF KernelInv, GpuInv, FieldsInv, NoGpuLeak
<1>. QED
  BY <1>1, KernelInvHolds, PTL

-----------------------------------------------------------------------------
(* From sums to results: rows, floats and bytes of a call.                  *)

\* The ranges of the threads are the rows, all of them.
LEMMA AllRowsAreComputed ==
  ASSUME NEW total \in Nat \ {0}, NEW threads \in Nat \ {0}, NEW serial \in Nat
  PROVE  UNION {range[1]..range[2] - 1 : range \in ParallelFor(total, threads, serial)}
           = 0..total - 1
<1>1. CASE total =< serial \/ threads =< 1
  <2>1. ParallelFor(total, threads, serial) = {<<0, total>>}
    BY <1>1 DEF ParallelFor
  <2>. QED
    BY <2>1
<1>2. CASE ~(total =< serial \/ threads =< 1)
  <2>1. PICK chunk : chunk = (total + threads - 1) \div threads
    OBVIOUS
  <2>. DEFINE end(s) == IF total < s + chunk THEN total ELSE s + chunk
              starts == {u \in 0..threads - 1 : u * chunk < end(u * chunk)}
  <2>2. ParallelFor(total, threads, serial) = {<<t * chunk, end(t * chunk)>> : t \in starts}
    BY <1>2, <2>1 DEF ParallelFor
  <2>3. chunk \in Nat \ {0} /\ total =< threads * chunk
    <3>1. PICK m \in Nat : m = total + threads - 1
      OBVIOUS
    <3>2. chunk = m \div threads
      BY <2>1, <3>1
    <3>3. chunk \in Nat /\ m % threads \in Nat /\ m % threads < threads
          /\ m = threads * chunk + (m % threads)
      BY ONLY <3>2, Divide, m \in Nat, threads \in Nat \ {0}
    <3>4. PICK p \in Nat : p = threads * chunk
      BY <3>3, ProductsOfNumbers
    <3>5. total =< p
      BY <3>1, <3>3, <3>4
    <3>6. chunk # 0
      <4>. SUFFICES ASSUME chunk = 0
                    PROVE  FALSE
        OBVIOUS
      <4>1. p = 0
        BY <3>4
      <4>. QED
        BY <3>5, <4>1
    <3>. QED
      BY <3>3, <3>4, <3>5, <3>6
  <2>4. ASSUME NEW t \in starts
        PROVE  (t * chunk)..(end(t * chunk) - 1) \subseteq 0..total - 1
    <3>1. PICK s \in Nat : s = t * chunk
      BY <2>3, ProductsOfNumbers
    <3>2. end(s) =< total /\ end(s) \in Nat
      BY <2>3, <3>1
    <3>. HIDE DEF end
    <3>. QED
      BY <3>1, <3>2
  <2>5. ASSUME NEW r \in 0..total - 1
        PROVE  \E t \in starts : r \in (t * chunk)..(end(t * chunk) - 1)
    <3>1. PICK u : u = r \div chunk
      OBVIOUS
    <3>2. u \in Nat /\ r % chunk \in Nat /\ r % chunk < chunk /\ r = chunk * u + (r % chunk)
      BY ONLY <2>3, <3>1, Divide, r \in Nat
    <3>3. PICK s \in Nat : s = u * chunk /\ s = chunk * u
      BY <2>3, <3>2, ProductsOfNumbers
    <3>4. s =< r /\ r < s + chunk /\ r < total
      BY <2>3, <3>2, <3>3
    <3>5. u < threads
      <4>. SUFFICES ASSUME threads =< u
                    PROVE  FALSE
        BY <3>2
      <4>1. chunk * threads =< chunk * u
        <5>1. threads \in Nat /\ u \in Nat /\ chunk \in Nat
          BY <2>3, <3>2
        <5>. QED
          BY ONLY <5>1, threads =< u, TimesIsMonotonic
      <4>2. PICK p \in Nat : p = threads * chunk /\ p = chunk * threads
        BY <2>3, ProductsOfNumbers
      <4>. QED
        BY <2>3, <3>3, <3>4, <4>1, <4>2
    <3>6. s < end(s) /\ r \in s..(end(s) - 1)
      BY <2>3, <3>4
    <3>7. u \in starts
      BY <3>2, <3>3, <3>5, <3>6
    <3>. QED
      BY <3>3, <3>6, <3>7
  <2>6. UNION {range[1]..range[2] - 1 : range \in {<<t * chunk, end(t * chunk)>> : t \in starts}}
          = UNION {(t * chunk)..(end(t * chunk) - 1) : t \in starts}
    <3>. DEFINE range(t) == <<t * chunk, end(t * chunk)>>
    <3>1. \A t \in starts : range(t)[1] = t * chunk /\ range(t)[2] = end(t * chunk)
      OBVIOUS
    <3>. HIDE DEF starts, end, range
    <3>2. UNION {g[1]..g[2] - 1 : g \in {range(t) : t \in starts}}
            = UNION {(t * chunk)..(end(t * chunk) - 1) : t \in starts}
      BY <3>1
    <3>. QED
      BY <3>2 DEF range
  <2>. HIDE DEF starts, end
  <2>. QED
    BY <2>2, <2>4, <2>5, <2>6
<1>. QED
  BY <1>1, <1>2

\* The n floats from x on are those of input vector t of call k.
Holds(floats, x, n, k, t) == \A c \in 0..n - 1 : floats[x + c] = <<k, t, c>>

\* What they are multiplied with, and they.
TermsWith(format, a, n, k, t) ==
  {<<Decoded(format, a, KernelColumn(format, c)), <<k, t, c>>>> : c \in 0..n - 1}

\* Indices are replaced by what is there.
LEMMA ResolvedSum ==
  ASSUME NEW format, NEW a \in Nat, NEW n \in Nat, NEW x \in Nat, NEW s,
         Sums(s, RowTerms(format, a, n, x), n), NEW floats, NEW k, NEW t,
         Holds(floats, x, n, k, t)
  PROVE  IsSumOf(Resolve(s, floats), TermsWith(format, a, n, k, t))
<1>1. PICK C, term, new :
        /\ C = 0..n - 1 /\ term = RowTerms(format, a, n, x)
        /\ new = [c \in C |-> <<Decoded(format, a, KernelColumn(format, c)), <<k, t, c>>>>]
  OBVIOUS
<1>2. PICK u : u = Resolve(s, floats) /\ u = [i \in DOMAIN s |-> <<s[i][1], floats[s[i][2]]>>]
  BY DEF Resolve
<1>3. Adds(s, term, C)
  BY <1>1 DEF Sums
<1>4. OneToOne(new, C)
  <2>1. ASSUME NEW c \in C, NEW d \in C, new[c] = new[d]
        PROVE  c = d
    BY <1>1, <2>1
  <2>. QED
    BY <2>1 DEF OneToOne
<1>5. u = [i \in DOMAIN s |-> u[i]]
  BY <1>2
<1>6. ASSUME NEW i \in DOMAIN s, NEW c \in C, s[i] = term[c]
      PROVE  u[i] = new[c]
  <2>1. term[c][1] = Decoded(format, a, KernelColumn(format, c)) /\ term[c][2] = x + c
    BY <1>1 DEF RowTerms
  <2>2. floats[x + c] = <<k, t, c>>
    BY <1>1 DEF Holds
  <2>3. u[i] = <<term[c][1], floats[term[c][2]]>>
    BY <1>2, <1>6
  <2>. QED
    BY <1>1, <2>1, <2>2, <2>3
<1>7. Adds(u, new, C)
  BY ONLY <1>3, <1>4, <1>5, <1>6, AddsRenamed
<1>8. IsSumOf(u, {new[c] : c \in C})
  BY ONLY <1>7, AddsIsSumOf
<1>9. {new[c] : c \in C} = TermsWith(format, a, n, k, t)
  BY <1>1 DEF TermsWith
<1>. QED
  BY <1>2, <1>8, <1>9

\* The bytes of quants, scales and minima lie in the block.
LEMMA FieldsInBlock ==
  ASSUME NEW format \in {"Q4_0", "Q8_0", "Q4_K"}, NEW blk \in Nat,
         NEW c \in 0..BlockColumns[format] - 1
  PROVE  \A f \in Fields(Decoded(format, blk, c)) :
           f[1] \in Nat /\ f[1] - blk \in 0..BlockBytes[format] - 1
<1>1. CASE format = "Q4_0"
  <2>1. c \in 0..31 /\ c % 32 = c /\ c \div 32 = 0 /\ BlockBytes[format] = 18
    BY <1>1, BlockShapes
  <2>2. Decoded(format, blk, c) = DecodedQ4_0(blk, c)
    BY <1>1, <2>1, BlockShapes DEF Decoded
  <2>3. \A f \in Fields(Decoded(format, blk, c)) :
          f[1] \in {IF c < 16 THEN blk + 2 + c ELSE blk + 2 + c - 16, blk, blk + 1}
    BY <2>1, <2>2 DEF Fields, DecodedQ4_0, Q4_0Weight, Weight, Low, High, Half
  <2>. QED
    BY <2>1, <2>3
<1>2. CASE format = "Q8_0"
  <2>1. c \in 0..31 /\ c % 32 = c /\ c \div 32 = 0 /\ BlockBytes[format] = 34
    BY <1>2, BlockShapes
  <2>2. Decoded(format, blk, c) = Q8_0Weight(blk, c)
    BY <1>2, <2>1, BlockShapes DEF Decoded
  <2>3. \A f \in Fields(Decoded(format, blk, c)) : f[1] \in {blk + 2 + c, blk, blk + 1}
    BY <2>1, <2>2 DEF Fields, Q8_0Weight, Weight, Byte, Half
  <2>. QED
    BY <2>1, <2>3
<1>3. CASE format = "Q4_K"
  <2>1. c \in 0..255 /\ c % 256 = c /\ c \div 256 = 0 /\ BlockBytes[format] = 144
    BY <1>3, BlockShapes
  <2>2. Decoded(format, blk, c) = Q4KWeight(blk, c \div 64, (c % 64) \div 32, c % 32)
    BY <1>3, <2>1, BlockShapes DEF Decoded
  <2>3. c \div 64 \in 0..3 /\ c % 32 \in 0..31 /\ (c % 64) \div 32 \in 0..1
    BY <2>1
  <2>4. PICK g \in 0..3, l \in 0..31, half \in 0..1 :
          g = c \div 64 /\ l = c % 32 /\ half = (c % 64) \div 32
    BY <2>3
  <2>5. PICK w : w = Q4KWeight(blk, g, half, l) /\ w = Decoded(format, blk, c)
    BY <2>2, <2>4
  <2>6. \A f \in w.quant : f[1] \in Nat /\ f[1] - blk \in 0..143
    BY <2>5 DEF Q4KWeight, Weight, Low, High
  <2>7. \A f \in Half(blk) \cup Half(blk + 2) : f[1] \in Nat /\ f[1] - blk \in 0..143
    BY DEF Half
  <2>8. PICK j \in 0..7 : j = 2 * g + half
    OBVIOUS
  <2>9. \A f \in ScaleBits(blk + 4, j) \cup MinBits(blk + 4, j) :
          f[1] \in Nat /\ f[1] - blk \in 0..143
    BY DEF ScaleBits, MinBits
  <2>10. w.scale = {Half(blk), ScaleBits(blk + 4, j)} /\ w.less = {Half(blk + 2), MinBits(blk + 4, j)}
    BY <2>5, <2>8 DEF Q4KWeight, Weight
  <2>11. \A f \in Fields(w) : f[1] \in Nat /\ f[1] - blk \in 0..143
    BY ONLY <2>6, <2>7, <2>9, <2>10 DEF Fields
  <2>12. BlockBytes[format] - 1 = 143
    BY ONLY <2>1
  <2>. QED
    BY ONLY <2>5, <2>11, <2>12
<1>. QED
  BY <1>1, <1>2, <1>3

\* Element j of vector b of several of one length.
LEMMA PlaceInAll ==
  ASSUME NEW n \in Nat, NEW length \in Nat, NEW b \in 0..n - 1, NEW j \in 0..length - 1
  PROVE  /\ b * length + j \in 0..n * length - 1
         /\ (b * length + j) \div length = b
         /\ (b * length + j) % length = j
<1>1. length \in Nat \ {0} /\ j + 1 \in 1..length
  OBVIOUS
<1>2. PICK i, k, total : i = j + 1 /\ k = length * b + i /\ total = n * length
  OBVIOUS
<1>3. k \in 1..total /\ (k - 1) \div length = b /\ 1 + ((k - 1) % length) = i
  BY ONLY <1>1, <1>2, PlaceOf, n \in Nat, b \in 0..n - 1
<1>4. total \in Nat
  BY <1>2, ProductsOfNumbers
<1>5. PICK p \in Nat : p = length * b /\ p = b * length
  BY <1>1, ProductsOfNumbers
<1>6. k - 1 = b * length + j /\ k - 1 \in 0..total - 1
  BY <1>2, <1>3, <1>4, <1>5
<1>7. (k - 1) % length \in Nat
  BY <1>1, <1>4, <1>6, Divide
<1>8. (k - 1) % length = j
  BY <1>2, <1>3, <1>7
<1>. QED
  BY <1>2, <1>3, <1>6, <1>8

\* The bytes of quants, scales and minima lie in the row.
LEMMA FieldsInRow ==
  ASSUME NEW format \in {"Q4_0", "Q8_0", "Q4_K"}, NEW a \in Nat, NEW cols \in Nat,
         cols % BlockColumns[format] = 0, NEW c \in 0..cols - 1
  PROVE  \A f \in Fields(Decoded(format, a, KernelColumn(format, c))) :
           f[1] \in Nat /\ f[1] - a \in 0..RowBytes(format, cols) - 1
<1>1. format \in Formats
  BY DEF Formats
<1>2. PICK length, bytes : length = BlockColumns[format] /\ bytes = BlockBytes[format]
                           /\ length \in Nat \ {0} /\ bytes \in Nat \ {0}
  BY <1>1, BlockShapes
<1>3. PICK n \in Nat : cols = n * length
  BY <1>1, <1>2, WholeBlocks
<1>4. RowBytes(format, cols) = n * bytes
  BY <1>1, <1>2, <1>3, BlocksOfRow DEF RowBytes
<1>5. PICK b, i : b = c \div length /\ i = c % length
  OBVIOUS
<1>6. b \in 0..n - 1 /\ i \in 0..length - 1 /\ c = length * b + i
  <2>1. PICK k \in 1..n * length : k = c + 1
    BY <1>3
  <2>2. (k - 1) \div length \in 0..n - 1 /\ 1 + ((k - 1) % length) \in 1..length
        /\ k = length * ((k - 1) \div length) + (1 + ((k - 1) % length))
    BY ONLY PieceOf, n \in Nat, <1>2, k \in 1..n * length
  <2>3. k - 1 = c
    BY <2>1
  <2>4. b \in 0..n - 1 /\ 1 + i \in 1..length /\ k = length * b + (1 + i)
    BY <1>5, <2>2, <2>3
  <2>5. i \in Nat
    BY <1>2, <1>5, Divide
  <2>6. PICK p \in Nat : p = length * b
    BY <1>2, <2>4, ProductsOfNumbers
  <2>7. length * b + (1 + i) = p + 1 + i
    BY <2>5, <2>6
  <2>8. c = length * b + i
    BY <2>1, <2>4, <2>5, <2>6, <2>7
  <2>9. i \in 0..length - 1
    BY <1>2, <2>4, <2>5
  <2>. QED
    BY <2>4, <2>8, <2>9
<1>7. PICK d : d = KernelColumn(format, i)
  OBVIOUS
<1>8. d \in 0..length - 1 /\ KernelColumn(format, c) = length * b + d
  BY <1>1, <1>2, <1>6, <1>7, KernelColumnInBlock
<1>9. PICK p \in Nat : p = bytes * b /\ p = b * bytes
  BY <1>2, <1>6, ProductsOfNumbers
<1>10. Decoded(format, a, KernelColumn(format, c)) = Decoded(format, a + p, d)
  BY <1>1, <1>2, <1>6, <1>8, <1>9, DecodedInBlock
<1>11. ASSUME NEW f \in Fields(Decoded(format, a + p, d))
       PROVE  f[1] \in Nat /\ f[1] - a \in 0..n * bytes - 1
  <2>1. PICK blk \in Nat : blk = a + p
    BY <1>9
  <2>2. f[1] \in Nat /\ f[1] - blk \in 0..bytes - 1
    BY <1>2, <1>8, <1>11, <2>1, FieldsInBlock
  <2>3. PICK j : j = f[1] - blk
    OBVIOUS
  <2>4. b * bytes + j \in 0..n * bytes - 1
    BY <1>2, <1>6, <2>2, <2>3, PlaceInAll
  <2>5. f[1] - a = p + j
    <3>1. j \in Nat /\ f[1] \in Int
      BY <1>2, <2>1, <2>2, <2>3
    <3>. QED
      BY <2>1, <2>3, <3>1
  <2>. QED
    BY <1>9, <2>2, <2>4, <2>5
<1>. QED
  BY <1>4, <1>10, <1>11

\* The KV heads of query heads without whole groups run into the next position, and
\* no further; those of whole groups exist.
LEMMA KvHeadRange ==
  ASSUME NEW heads \in Nat \ {0}, NEW kvHeads \in Nat \ {0}, NEW h \in 0..heads - 1
  PROVE  /\ KvHead(heads, kvHeads, h) \in 0..2 * kvHeads - 1
         /\ heads =< kvHeads \/ heads % kvHeads = 0 => KvHead(heads, kvHeads, h) < kvHeads
         /\ ~(heads =< kvHeads \/ heads % kvHeads = 0) => KvHead(heads, kvHeads, heads - 1) >= kvHeads
<1>1. PICK g, rest : g = heads \div kvHeads /\ rest = heads % kvHeads
  OBVIOUS
<1>2. g \in Nat /\ rest \in Nat /\ rest < kvHeads /\ heads = kvHeads * g + rest
  BY <1>1, Divide
<1>3. CASE g = 0
  <2>1. heads = rest /\ KvHead(heads, kvHeads, h) = h \div 1
    BY <1>1, <1>2, <1>3 DEF KvHead
  <2>2. h \div 1 = h
    OBVIOUS
  <2>. QED
    BY <1>2, <2>1, <2>2
<1>4. CASE g = 1
  <2>1. heads = kvHeads + rest
    BY <1>2, <1>4
  <2>2. \A k \in 0..heads - 1 : KvHead(heads, kvHeads, k) = k
    BY <1>1, <1>4 DEF KvHead
  <2>3. heads - 1 \in 0..heads - 1
    OBVIOUS
  <2>. QED
    BY <1>1, <1>2, <2>1, <2>2, <2>3
<1>5. CASE g > 1
  <2>1. \A k \in 0..heads - 1 : KvHead(heads, kvHeads, k) = k \div g
    BY <1>1, <1>5 DEF KvHead
  <2>2. PICK p \in Nat : p = kvHeads * g /\ p = g * kvHeads
    BY <1>2, ProductsOfNumbers
  <2>3. heads = p + rest
    BY <1>2, <2>2
  <2>4. ASSUME NEW k \in 0..heads - 1, NEW n \in Nat, k < g * n
        PROVE  k \div g < n
    <3>1. PICK b, m : b = k \div g /\ m = k % g
      OBVIOUS
    <3>2. b \in Nat /\ m \in Nat /\ k = g * b + m
      <4>1. g \in Nat \ {0} /\ k \in Nat
        BY <1>2, <1>5
      <4>. QED
        BY ONLY <3>1, <4>1, Divide
    <3>3. SUFFICES ASSUME n =< b
                   PROVE  FALSE
      BY <3>1, <3>2
    <3>4. g * n =< g * b
      BY ONLY <1>2, <3>2, <3>3, TimesIsMonotonic, n \in Nat
    <3>5. PICK x \in Nat, y \in Nat : x = g * n /\ y = g * b
      BY <1>2, <3>2, ProductsOfNumbers
    <3>. QED
      BY <2>4, <3>2, <3>4, <3>5
  <2>5. h \div g \in Nat
    <3>1. g \in Nat \ {0} /\ h \in Nat
      BY <1>2, <1>5
    <3>. QED
      BY ONLY <3>1, Divide
  <2>6. h \div g < 2 * kvHeads
    <3>1. kvHeads * 1 =< kvHeads * g
      BY ONLY <1>2, <1>5, TimesIsMonotonic, kvHeads \in Nat \ {0}
    <3>2. g * (2 * kvHeads) = p + p
      BY <1>2, <2>2
    <3>3. h < g * (2 * kvHeads)
      BY <1>2, <2>2, <2>3, <3>1, <3>2
    <3>. QED
      BY <2>4, <3>3
  <2>7. CASE rest = 0
    <3>1. h < g * kvHeads
      BY <2>2, <2>3, <2>7
    <3>2. h \div g < kvHeads
      BY <2>4, <3>1
    <3>. QED
      BY <1>1, <2>1, <2>5, <2>6, <2>7, <3>2
  <2>8. CASE rest # 0
    <3>1. heads > kvHeads
      <4>1. kvHeads * 1 =< kvHeads * g
        BY ONLY <1>2, <1>5, TimesIsMonotonic, kvHeads \in Nat \ {0}
      <4>. QED
        BY <1>2, <2>2, <2>3, <2>8, <4>1
    <3>2. PICK k : k = heads - 1
      OBVIOUS
    <3>3. k \in 0..heads - 1 /\ k >= p
      BY <1>2, <2>3, <2>8, <3>2
    <3>4. k \div g >= kvHeads
      <4>1. PICK b, m : b = k \div g /\ m = k % g
        OBVIOUS
      <4>2. b \in Nat /\ m \in Nat /\ m < g /\ k = g * b + m
        <5>1. g \in Nat \ {0} /\ k \in Nat
          BY <1>2, <1>5, <3>3
        <5>. QED
          BY ONLY <4>1, <5>1, Divide
      <4>3. SUFFICES ASSUME b + 1 =< kvHeads
                     PROVE  FALSE
        BY <4>1, <4>2
      <4>4. g * (b + 1) =< g * kvHeads
        <5>1. b + 1 \in Nat
          BY <4>2
        <5>. QED
          BY ONLY <1>2, <4>3, <5>1, TimesIsMonotonic, kvHeads \in Nat \ {0}
      <4>5. PICK y \in Nat : y = g * b
        BY <1>2, <4>2, ProductsOfNumbers
      <4>6. g * (b + 1) = y + g
        BY <1>2, <4>2, <4>5
      <4>. QED
        BY <1>2, <2>2, <3>3, <4>2, <4>4, <4>5, <4>6
    <3>5. KvHead(heads, kvHeads, heads - 1) >= kvHeads
      BY <2>1, <3>2, <3>3, <3>4
    <3>. QED
      BY <1>1, <2>1, <2>5, <2>6, <2>8, <3>1, <3>5
  <2>. QED
    BY <1>2, <2>7, <2>8
<1>. QED
  BY <1>2, <1>3, <1>4, <1>5

-----------------------------------------------------------------------------
(* Attention: scores and weighted sums of a head.                           *)

\* The members of a finite set of numbers in order: each of them once.
LEMMA AscendingLists ==
  ASSUME NEW S, S \subseteq Nat, IsFiniteSet(S), NEW n, n = Cardinality(S)
  PROVE  n \in Nat /\ Lists(n, Ascending(S), S)
<1>1. n \in Nat
  BY FS_CardinalityType
<1>. DEFINE below(x) == {m \in S : m < x}
            f == [x \in S |-> Cardinality(below(x))]
<1>2. ASSUME NEW x \in S
      PROVE  IsFiniteSet(below(x)) /\ f[x] \in 0..n - 1
  <2>1. below(x) \in SUBSET S /\ x \notin below(x)
    OBVIOUS
  <2>. HIDE DEF below
  <2>2. IsFiniteSet(below(x)) /\ Cardinality(below(x)) =< n /\ Cardinality(below(x)) # n
    BY <2>1, FS_Subset
  <2>3. Cardinality(below(x)) \in Nat
    BY <2>2, FS_CardinalityType
  <2>4. f[x] = Cardinality(below(x))
    OBVIOUS
  <2>. QED
    BY <1>1, <2>2, <2>3, <2>4
<1>3. ASSUME NEW x \in S, NEW y \in S, x < y
      PROVE  f[x] # f[y]
  <2>1. below(x) \in SUBSET below(y) /\ x \in below(y) /\ x \notin below(x)
    <3>1. ASSUME NEW m \in S, m < x
          PROVE  m < y
      <4>1. m \in Nat /\ x \in Nat /\ y \in Nat
        OBVIOUS
      <4>. QED
        BY ONLY <1>3, <3>1, <4>1
    <3>2. x \in Nat /\ ~(x < x)
      OBVIOUS
    <3>. QED
      BY <1>3, <3>1, <3>2
  <2>2. IsFiniteSet(below(y))
    BY <1>2
  <2>. HIDE DEF below
  <2>3. Cardinality(below(x)) # Cardinality(below(y))
    BY <2>1, <2>2, FS_Subset
  <2>. QED
    BY <2>3
<1>. HIDE DEF f
<1>4. ASSUME NEW x \in S, NEW y \in S, f[x] = f[y]
      PROVE  x = y
  <2>1. x \in Nat /\ y \in Nat
    OBVIOUS
  <2>. QED
    BY <1>3, <1>4, <2>1
<1>5. \A i \in 0..n - 1 : \E x \in S : f[x] = i
  <2>1. f \in [S -> 0..n - 1]
    BY <1>2 DEF f
  <2>2. f \in Injection(S, 0..n - 1)
    BY <1>4, <2>1 DEF Injection, IsInjective
  <2>3. IsFiniteSet(0..n - 1) /\ Cardinality(0..n - 1) = n
    <3>1. n - 1 \in Int /\ 0 \in Int /\ (IF 0 > n - 1 THEN 0 ELSE n - 1 - 0 + 1) = n
      BY <1>1
    <3>. QED
      BY <3>1, FS_Interval
  <2>4. f \in Surjection(S, 0..n - 1)
    BY <2>2, <2>3, FS_Injection
  <2>. QED
    BY <2>4 DEF Surjection
<1>6. PICK col : col = Ascending(S)
  OBVIOUS
<1>7. ASSUME NEW k \in 1..n
      PROVE  col[k] \in S /\ f[col[k]] = k - 1
  <2>1. k - 1 \in 0..n - 1
    BY <1>1
  <2>2. \E x \in S : Cardinality(below(x)) = k - 1
    BY <1>5, <2>1 DEF f
  <2>3. col[k] = CHOOSE x \in S : Cardinality(below(x)) = k - 1
    <3>1. col = [i \in 1..Cardinality(S) |-> CHOOSE x \in S : Cardinality(below(x)) = i - 1]
      BY ONLY <1>6, Zenon DEF Ascending
    <3>2. Cardinality(S) = n
      OBVIOUS
    <3>. HIDE DEF below
    <3>. QED
      BY <3>1, <3>2
  <2>4. col[k] \in S /\ Cardinality(below(col[k])) = k - 1
    BY <2>2, <2>3
  <2>. QED
    BY <2>4 DEF f
<1>8. col \in [1..n -> S]
  <2>1. col = [k \in 1..n |-> col[k]]
    <3>. DEFINE member(i) == CHOOSE x \in S : Cardinality(below(x)) = i - 1
    <3>1. col = [i \in 1..Cardinality(S) |-> member(i)]
      BY ONLY <1>6, Zenon DEF Ascending
    <3>2. Cardinality(S) = n
      OBVIOUS
    <3>. HIDE DEF member
    <3>. QED
      BY ONLY <3>1, <3>2
  <2>. QED
    BY <1>7, <2>1
<1>9. ASSUME NEW i \in 1..n, NEW j \in 1..n, col[i] = col[j]
      PROVE  i = j
  BY <1>1, <1>7, <1>9
<1>10. ASSUME NEW x \in S
       PROVE  \E i \in 1..n : col[i] = x
  <2>1. f[x] \in 0..n - 1
    BY <1>2
  <2>2. PICK i \in 1..n : i - 1 = f[x]
    BY <1>1, <2>1
  <2>3. col[i] \in S /\ f[col[i]] = f[x]
    BY <1>7, <2>2
  <2>. QED
    BY <1>4, <2>3
<1>. QED
  BY <1>1, <1>6, <1>8, <1>9, <1>10 DEF Lists

\* A loop in steps of several columns, then one by one, takes them in order.
Stepped(wide, n, f) ==
  Concat(n \div wide, wide, LAMBDA i : [j \in 1..wide |-> f[wide * i + j - 1]])
    \o [i \in 1..n % wide |-> f[wide * (n \div wide) + i - 1]]

LEMMA InSteps ==
  ASSUME NEW wide \in {4, 8}, NEW n \in Nat, NEW f
  PROVE  Stepped(wide, n, f) = [i \in 1..n |-> f[i - 1]]
<1>1. PICK full, rest : full = n \div wide /\ rest = n % wide
  OBVIOUS
<1>2. full \in Nat /\ rest \in Nat /\ n = wide * full + rest /\ wide \in Nat \ {0}
  BY <1>1
<1>3. PICK m \in Nat : m = full * wide /\ m = wide * full
  BY <1>2, ProductsOfNumbers
<1>. DEFINE step(i) == [j \in 1..wide |-> f[wide * i + j - 1]]
            s == Concat(full, wide, step)
            t == [i \in 1..rest |-> f[wide * full + i - 1]]
<1>4. s = [k \in 1..m |-> f[k - 1]]
  <2>1. s = [k \in 1..m |-> step((k - 1) \div wide)[1 + ((k - 1) % wide)]]
    <3>1. \A k \in 1..m : 1 + (k - 1) \div wide \in 1..full /\ (1 + (k - 1) \div wide) - 1 = (k - 1) \div wide
      <4>1. \A k \in 1..full * wide : (k - 1) \div wide \in 0..full - 1
        BY ONLY <1>2, PieceOf
      <4>. QED
        BY <1>2, <1>3, <4>1
    <3>. HIDE DEF step
    <3>2. Len([i \in 1..full |-> step(i - 1)]) = full
      BY <1>2
    <3>. QED
      BY <1>2, <1>3, <3>1, <3>2 DEF Concat, Joined
  <2>2. ASSUME NEW k \in 1..m
        PROVE  step((k - 1) \div wide)[1 + ((k - 1) % wide)] = f[k - 1]
    <3>1. PICK b, j : b = (k - 1) \div wide /\ j = 1 + ((k - 1) % wide)
      OBVIOUS
    <3>2. b \in 0..full - 1 /\ j \in 1..wide /\ k = wide * b + j
      BY ONLY <1>2, <1>3, <3>1, PieceOf, k \in 1..m
    <3>3. step(b)[j] = f[wide * b + j - 1]
      BY <3>2
    <3>4. wide * b + j - 1 = k - 1
      BY <1>2, <3>2
    <3>. QED
      BY <3>1, <3>3, <3>4
  <2>. HIDE DEF s, step
  <2>. QED
    BY <2>1, <2>2
<1>5. t = [i \in 1..rest |-> f[m + i - 1]]
  BY <1>3
<1>. HIDE DEF s, t
<1>6. s \o t = [k \in 1..m + rest |-> IF k =< m THEN s[k] ELSE t[k - m]]
  <2>1. HasLength(s, m) /\ HasLength(t, rest)
    BY <1>4, <1>5 DEF HasLength
  <2>2. s \o t = OneThenOther(s, m, t, rest)
    BY ONLY <1>2, <2>1, ConcatOf, m \in Nat
  <2>. QED
    BY ONLY <2>2 DEF OneThenOther
<1>7. ASSUME NEW k \in 1..n
      PROVE  (IF k =< m THEN s[k] ELSE t[k - m]) = f[k - 1]
  <2>1. CASE k =< m
    <3>1. k \in 1..m
      BY <2>1
    <3>. QED
      BY <1>4, <2>1, <3>1
  <2>2. CASE ~(k =< m)
    <3>1. k - m \in 1..rest /\ m + (k - m) - 1 = k - 1
      BY <1>2, <1>3, <2>2
    <3>. QED
      BY <1>5, <2>2, <3>1
  <2>. QED
    BY <2>1, <2>2
<1>8. m + rest = n
  BY <1>2, <1>3
<1>9. s \o t = [k \in 1..n |-> f[k - 1]]
  BY ONLY <1>6, <1>7, <1>8
<1>. QED
  BY <1>1, <1>9 DEF s, t, Stepped

\* The terms of a score: n indices of the query from q on and of the cache from k on.
ScoreTerms(q, k, n) == [d \in 0..n - 1 |-> <<q + d, k + d>>]

LEMMA ScoreTermsDiffer ==
  ASSUME NEW q \in Nat, NEW k \in Nat, NEW n \in Nat
  PROVE  OneToOne(ScoreTerms(q, k, n), 0..n - 1)
<1>1. ASSUME NEW c \in 0..n - 1, NEW d \in 0..n - 1, <<q + c, k + c>> = <<q + d, k + d>>
      PROVE  c = d
  BY <1>1
<1>. QED
  BY <1>1 DEF OneToOne, ScoreTerms

\* Four at a time.
LEMMA JavaScoreSums ==
  ASSUME NEW q \in Nat, NEW k \in Nat, NEW n \in Nat
  PROVE  Sums(JavaScore(q, k, n), ScoreTerms(q, k, n), n)
<1>. DEFINE f == [d \in Nat |-> <<q + d, k + d>>]
            full == n \div 4
            step(i) == [j \in 1..4 |-> <<q + 4 * i + j - 1, k + 4 * i + j - 1>>]
            fstep(i) == [j \in 1..4 |-> f[4 * i + j - 1]]
<1>1. full \in Nat /\ n % 4 \in Nat
  OBVIOUS
<1>2. ASSUME NEW i \in Nat
      PROVE  step(i) = fstep(i)
  <2>1. ASSUME NEW j \in 1..4
        PROVE  <<q + 4 * i + j - 1, k + 4 * i + j - 1>> = f[4 * i + j - 1]
    <3>1. 4 * i + j - 1 \in Nat
      OBVIOUS
    <3>2. f[4 * i + j - 1] = <<q + (4 * i + j - 1), k + (4 * i + j - 1)>>
      BY <3>1
    <3>. QED
      BY <3>1, <3>2
  <2>. QED
    BY <2>1
<1>3. [i \in 1..n % 4 |-> <<q + 4 * full + i - 1, k + 4 * full + i - 1>>]
        = [i \in 1..n % 4 |-> f[4 * full + i - 1]]
  <2>1. ASSUME NEW i \in 1..n % 4
        PROVE  <<q + 4 * full + i - 1, k + 4 * full + i - 1>> = f[4 * full + i - 1]
    <3>1. 4 * full + i - 1 \in Nat
      BY <1>1
    <3>2. f[4 * full + i - 1] = <<q + (4 * full + i - 1), k + (4 * full + i - 1)>>
      BY <3>1
    <3>. QED
      BY <1>1, <3>1, <3>2
  <2>. QED
    BY <2>1
<1>. HIDE DEF f
<1>4. Concat(full, 4, step) = Concat(full, 4, fstep)
  <2>1. [i \in 1..full |-> step(i - 1)] = [i \in 1..full |-> fstep(i - 1)]
    <3>1. \A i \in 1..full : i - 1 \in Nat
      BY <1>1
    <3>. HIDE DEF full, step, fstep
    <3>. QED
      BY <1>2, <3>1
  <2>. QED
    BY <2>1 DEF Concat
<1>5. JavaScore(q, k, n) = Concat(full, 4, fstep) \o [i \in 1..n % 4 |-> f[4 * full + i - 1]]
  BY <1>3, <1>4 DEF JavaScore
<1>6. Concat(full, 4, fstep) \o [i \in 1..n % 4 |-> f[4 * full + i - 1]] = [i \in 1..n |-> f[i - 1]]
  <2>1. Stepped(4, n, f) = Concat(full, 4, fstep) \o [i \in 1..n % 4 |-> f[4 * full + i - 1]]
    BY DEF Stepped
  <2>2. Stepped(4, n, f) = [i \in 1..n |-> f[i - 1]]
    BY InSteps
  <2>. QED
    BY ONLY <2>1, <2>2
<1>7. [i \in 1..n |-> f[i - 1]] = [i \in 1..n |-> ScoreTerms(q, k, n)[i - 1]]
  BY DEF f, ScoreTerms
<1>8. JavaScore(q, k, n) = [i \in 1..n |-> ScoreTerms(q, k, n)[i - 1]]
  BY ONLY <1>5, <1>6, <1>7
<1>. QED
  BY <1>8, ScoreTermsDiffer, RowSums

\* The loop over a value vector comes by every component once.
LEMMA VisitsEach ==
  ASSUME NEW width \in {4, 8}, NEW n \in Nat, NEW d \in 0..n - 1
  PROVE  Cardinality({j \in 1..n : Visited(n, width)[j] = d}) = 1
<1>. DEFINE f == [i \in Nat |-> i]
            full == n \div width
            step(i) == [j \in 1..width |-> width * i + j - 1]
            fstep(i) == [j \in 1..width |-> f[width * i + j - 1]]
<1>1. full \in Nat /\ n % width \in Nat
  OBVIOUS
<1>2. ASSUME NEW i \in Nat
      PROVE  step(i) = fstep(i)
  <2>1. \A j \in 1..width : width * i + j - 1 \in Nat
    OBVIOUS
  <2>. QED
    BY <2>1
<1>3. [i \in 1..n % width |-> width * full + i - 1] = [i \in 1..n % width |-> f[width * full + i - 1]]
  <2>1. \A i \in 1..n % width : width * full + i - 1 \in Nat
    BY <1>1
  <2>. QED
    BY <2>1
<1>. HIDE DEF f
<1>4. Concat(full, width, step) = Concat(full, width, fstep)
  <2>1. [i \in 1..full |-> step(i - 1)] = [i \in 1..full |-> fstep(i - 1)]
    <3>1. \A i \in 1..full : i - 1 \in Nat
      BY <1>1
    <3>. HIDE DEF full, step, fstep
    <3>. QED
      BY <1>2, <3>1
  <2>. QED
    BY <2>1 DEF Concat
<1>5. Visited(n, width)
        = Concat(full, width, fstep) \o [i \in 1..n % width |-> f[width * full + i - 1]]
  BY <1>3, <1>4 DEF Visited
<1>6. Concat(full, width, fstep) \o [i \in 1..n % width |-> f[width * full + i - 1]]
        = [i \in 1..n |-> f[i - 1]]
  <2>1. Stepped(width, n, f)
          = Concat(full, width, fstep) \o [i \in 1..n % width |-> f[width * full + i - 1]]
    BY DEF Stepped
  <2>2. Stepped(width, n, f) = [i \in 1..n |-> f[i - 1]]
    BY InSteps
  <2>. QED
    BY ONLY <2>1, <2>2
<1>7. \A j \in 1..n : Visited(n, width)[j] = j - 1
  <2>1. Visited(n, width) = [i \in 1..n |-> f[i - 1]]
    BY ONLY <1>5, <1>6
  <2>. QED
    BY <2>1 DEF f
<1>8. {j \in 1..n : Visited(n, width)[j] = d} = {d + 1}
  BY <1>7
<1>. QED
  BY <1>8, FS_Singleton

\* Vector k of the score kernel's accumulators, the first with the even ones (and the
\* one of a last step of 8), then the second.
ScoreStep(w, v, k) == IF k =< w + v THEN 2 * (k - 1) ELSE 2 * (k - w - v - 1) + 1

EachStepOnce(w, v, m) ==
  /\ \A i \in 1..m : ScoreStep(w, v, i) \in 0..m - 1
  /\ \A i, j \in 1..m : ScoreStep(w, v, i) = ScoreStep(w, v, j) => i = j
  /\ \A i \in 0..m - 1 : \E j \in 1..m : ScoreStep(w, v, j) = i

LEMMA ScoreStepsAreDistinct ==
  ASSUME NEW w \in Nat, NEW v \in {0, 1}
  PROVE  EachStepOnce(w, v, 2 * w + v)
<1>1. \A k \in 1..2 * w + v : ScoreStep(w, v, k) \in 0..2 * w + v - 1
  BY DEF ScoreStep
<1>2. \A k, m \in 1..2 * w + v : ScoreStep(w, v, k) = ScoreStep(w, v, m) => k = m
  BY DEF ScoreStep
<1>3. ASSUME NEW i \in 0..2 * w + v - 1
      PROVE  \E k \in 1..2 * w + v : ScoreStep(w, v, k) = i
  <2>1. PICK b \in Nat : i = 2 * b \/ i = 2 * b + 1
    <3>1. i \div 2 \in Nat /\ (i = 2 * (i \div 2) \/ i = 2 * (i \div 2) + 1)
      OBVIOUS
    <3>. QED
      BY <3>1
  <2>2. CASE i = 2 * b
    <3>1. b + 1 \in 1..2 * w + v /\ b + 1 =< w + v
      BY <2>2
    <3>2. ScoreStep(w, v, b + 1) = i
      BY <2>2, <3>1 DEF ScoreStep
    <3>. QED
      BY <3>1, <3>2
  <2>3. CASE i = 2 * b + 1
    <3>1. w + v + 1 + b \in 1..2 * w + v /\ ~(w + v + 1 + b =< w + v)
      BY <2>3
    <3>2. ScoreStep(w, v, w + v + 1 + b) = i
      BY <2>3, <3>1 DEF ScoreStep
    <3>. QED
      BY <3>1, <3>2
  <2>. QED
    BY <2>1, <2>2, <2>3
<1>. QED
  BY <1>1, <1>2, <1>3 DEF EachStepOnce

\* Steps of 16, of 8, then one by one.
LEMMA NativeScoreSums ==
  ASSUME NEW q \in Nat, NEW k \in Nat, NEW n \in Nat
  PROVE  Sums(NativeScore(q, k, n), ScoreTerms(q, k, n), n)
<1>. DEFINE products(d) == [l \in 1..8 |-> <<q + d + l - 1, k + d + l - 1>>]
<1>1. PICK w \in Nat, v \in {0, 1} : w = n \div 16 /\ v = (n - 16 * w) \div 8
  <2>1. n \div 16 \in Nat /\ (n - 16 * (n \div 16)) \div 8 \in {0, 1}
    OBVIOUS
  <2>. QED
    BY <2>1
<1>2. PICK m \in Nat : m = 2 * w + v
  OBVIOUS
<1>3. PICK rest \in Nat : rest = 16 * w + 8 * v
  OBVIOUS
<1>4. rest = 8 * m /\ rest =< n /\ n - rest \in Nat /\ 16 * w =< n
  BY <1>1, <1>2, <1>3
<1>5. PICK term : term = ScoreTerms(q, k, n)
  OBVIOUS
<1>6. ASSUME NEW d \in Nat, d + 8 =< n, NEW l \in 1..8
      PROVE  products(d)[l] = term[d + l - 1]
  <2>1. d + l - 1 \in 0..n - 1
    BY <1>6
  <2>2. term[d + l - 1] = <<q + (d + l - 1), k + (d + l - 1)>>
    BY <1>5, <2>1 DEF ScoreTerms
  <2>. QED
    BY <2>2
<1>7. PICK wide, narrow, odd :
        /\ wide = [i \in 1..w |-> products(16 * (i - 1))]
        /\ narrow = [i \in 1..v |-> products(16 * w + 8 * (i - 1))]
        /\ odd = [i \in 1..w |-> products(16 * (i - 1) + 8)]
  OBVIOUS
<1>8. PICK tail : tail = [i \in 1..n - rest |-> <<q + rest + i - 1, k + rest + i - 1>>]
  OBVIOUS
<1>9. PICK acc : acc = AddVectors(Accumulate(wide \o narrow), Accumulate(odd))
  OBVIOUS
<1>10. NativeScore(q, k, n) = HorizontalSum(acc) \o tail
  BY <1>1, <1>3, <1>7, <1>8, <1>9 DEF NativeScore
<1>. HIDE DEF products
<1>11. PICK even : even = wide \o narrow
  OBVIOUS
<1>12. even = [i \in 1..w + v |-> products(16 * (i - 1))]
  <2>1. even = [i \in 1..w + v |-> IF i =< w THEN wide[i] ELSE narrow[i - w]]
    <3>1. HasLength(wide, w) /\ HasLength(narrow, v) /\ v \in Nat
      BY <1>7 DEF HasLength
    <3>2. wide \o narrow = OneThenOther(wide, w, narrow, v)
      BY ONLY <3>1, ConcatOf, w \in Nat
    <3>. QED
      BY ONLY <1>11, <3>2 DEF OneThenOther
  <2>2. ASSUME NEW i \in 1..w + v
        PROVE  (IF i =< w THEN wide[i] ELSE narrow[i - w]) = products(16 * (i - 1))
    <3>1. CASE i =< w
      BY <1>7, <3>1
    <3>2. CASE ~(i =< w)
      <4>1. i - w = 1 /\ v = 1 /\ i - 1 = w
        BY <3>2
      <4>2. narrow[1] = products(16 * w + 8 * (1 - 1))
        BY <1>7, <4>1
      <4>3. 16 * w + 8 * (1 - 1) = 16 * (i - 1)
        BY <4>1
      <4>. QED
        BY <3>2, <4>1, <4>2, <4>3
    <3>. QED
      BY <3>1, <3>2
  <2>. QED
    BY <2>1, <2>2
<1>13. PICK u : u = [i \in 1..m |-> ScoreStep(w, v, i)]
  OBVIOUS
<1>14. /\ u \in [1..m -> 0..m - 1] /\ \A i \in 1..m : u[i] = ScoreStep(w, v, i)
       /\ \A i, j \in 1..m : u[i] = u[j] => i = j
       /\ \A i \in 0..m - 1 : \E j \in 1..m : u[j] = i
  <2>1. /\ \A i \in 1..m : ScoreStep(w, v, i) \in 0..m - 1
        /\ \A i, j \in 1..m : ScoreStep(w, v, i) = ScoreStep(w, v, j) => i = j
        /\ \A i \in 0..m - 1 : \E j \in 1..m : ScoreStep(w, v, j) = i
    <3>1. EachStepOnce(w, v, m)
      BY <1>2, ScoreStepsAreDistinct
    <3>. QED
      BY ONLY <3>1 DEF EachStepOnce
  <2>. QED
    BY <1>13, <2>1
<1>15. ASSUME NEW l \in 1..8
       PROVE  acc[l] = [i \in 1..m |-> term[8 * u[i] + l - 1]]
  <2>1. PICK s, t : /\ s = [i \in 1..w + v |-> even[i][l]]
                    /\ t = [i \in 1..w |-> odd[i][l]]
    OBVIOUS
  <2>2. DOMAIN even = 1..w + v /\ DOMAIN odd = 1..w
    BY <1>7, <1>12
  <2>3. acc[l] = s \o t
    BY <1>9, <1>11, <2>1, <2>2 DEF AddVectors, Accumulate
  <2>4. s \o t = [i \in 1..(w + v) + w |-> IF i =< w + v THEN s[i] ELSE t[i - (w + v)]]
    <3>1. PICK first \in Nat : first = w + v
      OBVIOUS
    <3>2. HasLength(s, first) /\ HasLength(t, w)
      BY <2>1, <3>1 DEF HasLength
    <3>3. s \o t = OneThenOther(s, first, t, w)
      BY ONLY <3>2, ConcatOf, first \in Nat, w \in Nat
    <3>. QED
      BY <3>1, <3>3 DEF OneThenOther
  <2>5. ASSUME NEW i \in 1..m
        PROVE  (IF i =< w + v THEN s[i] ELSE t[i - (w + v)]) = term[8 * u[i] + l - 1]
    <3>1. CASE i =< w + v
      <4>1. i \in 1..w + v
        BY <3>1
      <4>2. s[i] = products(16 * (i - 1))[l]
        BY <1>12, <2>1, <4>1
      <4>3. 16 * (i - 1) \in Nat /\ 16 * (i - 1) + 8 =< n
        BY <1>1, <4>1
      <4>4. products(16 * (i - 1))[l] = term[16 * (i - 1) + l - 1]
        BY <1>6, <4>3
      <4>5. u[i] = 2 * (i - 1)
        BY <1>14, <3>1 DEF ScoreStep
      <4>6. 8 * (2 * (i - 1)) + l - 1 = 16 * (i - 1) + l - 1
        OBVIOUS
      <4>. QED
        BY <3>1, <4>2, <4>4, <4>5, <4>6
    <3>2. CASE ~(i =< w + v)
      <4>1. PICK j \in 1..w : j = i - (w + v)
        BY <1>2, <3>2
      <4>2. t[j] = products(16 * (j - 1) + 8)[l]
        BY <1>7, <2>1
      <4>3. 16 * (j - 1) + 8 \in Nat /\ (16 * (j - 1) + 8) + 8 =< n
        BY <1>1
      <4>4. products(16 * (j - 1) + 8)[l] = term[16 * (j - 1) + 8 + l - 1]
        BY <1>6, <4>3
      <4>5. u[i] = 2 * (j - 1) + 1
        <5>1. i - w - v - 1 = j - 1
          BY <4>1
        <5>. QED
          BY <1>14, <3>2, <5>1 DEF ScoreStep
      <4>6. 8 * (2 * (j - 1) + 1) + l - 1 = 16 * (j - 1) + 8 + l - 1
        OBVIOUS
      <4>. QED
        BY <3>2, <4>1, <4>2, <4>4, <4>5, <4>6
    <3>. QED
      BY <3>1, <3>2
  <2>6. (w + v) + w = m
    BY <1>2
  <2>. QED
    BY ONLY <2>3, <2>4, <2>5, <2>6
<1>16. OneToOne(term, 0..n - 1)
  BY <1>5, ScoreTermsDiffer
<1>17. Sums(HorizontalSum(acc), term, 8 * m)
  <2>1. OneToOne(term, 0..8 * m - 1)
    BY <1>4, <1>16 DEF OneToOne
  <2>2. \A l \in 1..8 : acc[l] = [i \in 1..m |-> term[8 * u[i] + l - 1]]
    BY <1>15
  <2>. QED
    BY ONLY <1>14, <2>1, <2>2, StepsSum, m \in Nat
<1>18. Adds(tail, term, rest..n - 1) /\ Len(tail) = n - rest
  <2>1. PICK col : col = [i \in 1..n - rest |-> rest + i - 1]
    OBVIOUS
  <2>2. Lists(n - rest, col, rest..n - 1)
    <3>1. col \in [1..n - rest -> rest..n - 1]
      BY <1>4, <2>1
    <3>2. \A i, j \in 1..n - rest : col[i] = col[j] => i = j
      BY <1>4, <2>1
    <3>3. ASSUME NEW c \in rest..n - 1
          PROVE  \E i \in 1..n - rest : col[i] = c
      <4>1. c - rest + 1 \in 1..n - rest /\ rest + (c - rest + 1) - 1 = c
        BY <1>4
      <4>. QED
        BY <2>1, <4>1
    <3>. QED
      BY <3>1, <3>2, <3>3 DEF Lists
  <2>3. tail = Listed(n - rest, col, term)
    <3>1. ASSUME NEW i \in 1..n - rest
          PROVE  <<q + rest + i - 1, k + rest + i - 1>> = term[col[i]]
      <4>1. col[i] = rest + i - 1 /\ rest + i - 1 \in 0..n - 1
        BY <1>4, <2>1
      <4>2. term[rest + i - 1] = <<q + (rest + i - 1), k + (rest + i - 1)>>
        BY <1>5, <4>1 DEF ScoreTerms
      <4>. QED
        BY <4>1, <4>2
    <3>. QED
      BY ONLY <1>8, <3>1 DEF Listed
  <2>4. OneToOne(term, rest..n - 1)
    BY <1>4, <1>16 DEF OneToOne
  <2>. QED
    BY ONLY <1>4, <2>2, <2>3, <2>4, AddsListed
<1>19. Adds(HorizontalSum(acc) \o tail, term, 0..n - 1) /\ Len(HorizontalSum(acc) \o tail) = n
  <2>1. PICK s : s = HorizontalSum(acc)
    OBVIOUS
  <2>2. PICK C, D : C = 0..rest - 1 /\ D = rest..n - 1
    OBVIOUS
  <2>3. C \cup D = 0..n - 1 /\ C \cap D = {}
    BY <1>4, <2>2
  <2>4. Adds(s, term, C) /\ Len(s) = rest
    BY <1>4, <1>17, <2>1, <2>2 DEF Sums
  <2>5. OneToOne(term, C \cup D) /\ Adds(tail, term, D)
    BY <1>16, <1>18, <2>2, <2>3
  <2>6. Adds(s \o tail, term, C \cup D) /\ Len(s \o tail) = Len(s) + Len(tail)
    BY ONLY <2>3, <2>4, <2>5, AddsBoth
  <2>7. Len(s) + Len(tail) = n
    BY <1>4, <1>18, <2>4
  <2>. QED
    BY ONLY <2>1, <2>3, <2>6, <2>7
<1>. QED
  BY <1>5, <1>10, <1>19 DEF Sums

\* A query head uses the KV head of its group.
LEMMA KvHeadOfGroup ==
  ASSUME NEW heads \in Nat \ {0}, NEW kvHeads \in Nat \ {0}, heads % kvHeads = 0,
         NEW h \in 0..heads - 1
  PROVE  KvHead(heads, kvHeads, h) = (h * kvHeads) \div heads /\ KvHead(heads, kvHeads, h) \in Nat
<1>1. PICK g : g = heads \div kvHeads
  OBVIOUS
<1>2. g \in Nat /\ heads = kvHeads * g + (heads % kvHeads)
  BY <1>1, Divide
<1>3. PICK p \in Nat : p = kvHeads * g /\ p = g * kvHeads
  BY <1>2, ProductsOfNumbers
<1>4. heads = p
  BY <1>2, <1>3
<1>5. g # 0
  <2>. SUFFICES ASSUME g = 0
                PROVE  FALSE
    OBVIOUS
  <2>. QED
    BY <1>3, <1>4
<1>6. PICK b, r : b = h \div g /\ r = h % g
  OBVIOUS
<1>7. b \in Nat /\ r \in Nat /\ r < g /\ h = g * b + r
  <2>1. g \in Nat \ {0} /\ h \in Nat
    BY <1>2, <1>5
  <2>. QED
    BY ONLY <1>6, <2>1, Divide
<1>8. KvHead(heads, kvHeads, h) = b
  <2>1. CASE g = 1
    BY <1>1, <1>6, <2>1 DEF KvHead
  <2>2. CASE g # 1
    <3>1. heads \div kvHeads > 1
      BY <1>1, <1>2, <1>5, <2>2
    <3>. QED
      BY <1>1, <1>6, <3>1 DEF KvHead
  <2>. QED
    BY <2>1, <2>2
<1>9. r * kvHeads \in 0..heads - 1
  <2>1. r + 1 =< g /\ r + 1 \in Nat
    BY <1>2, <1>7
  <2>2. kvHeads * (r + 1) =< kvHeads * g
    BY ONLY <1>2, <2>1, TimesIsMonotonic, kvHeads \in Nat
  <2>3. PICK m \in Nat : m = kvHeads * r /\ m = r * kvHeads
    BY <1>7, ProductsOfNumbers
  <2>4. kvHeads * (r + 1) = m + kvHeads
    BY <1>7, <2>3
  <2>. QED
    BY <1>3, <1>4, <2>2, <2>3, <2>4
<1>10. h * kvHeads = heads * b + r * kvHeads
  <2>1. h * kvHeads = (g * b + r) * kvHeads
    BY <1>7
  <2>2. (g * b + r) * kvHeads = (g * kvHeads) * b + r * kvHeads
    BY <1>2, <1>7
  <2>. QED
    BY <1>3, <1>4, <2>1, <2>2
<1>11. (h * kvHeads) \div heads = b
  <2>1. PICK m, q : m = h * kvHeads /\ q = r * kvHeads
    OBVIOUS
  <2>2. q \in 0..heads - 1 /\ m = heads * b + q
    BY <1>9, <1>10, <2>1
  <2>3. (heads * b + q) \div heads = b
    BY ONLY <1>7, <2>2, DivideBlock, heads \in Nat \ {0}
  <2>. QED
    BY ONLY <2>1, <2>2, <2>3
<1>. QED
  BY <1>7, <1>8, <1>11

ValueTerms(c, h, kvH, d) ==
  {<<<<h, t>>, (t * c.kvHeads + kvH) * c.headDim + d>> : t \in (0..c.pos) \ c.faint}

\* The output component of a head: the values of the positions that count, in order.
LEMMA WeightedSums ==
  ASSUME NEW c \in Heads, NEW h \in Nat, NEW d \in 0..c.headDim - 1, NEW width \in {4, 8},
         NEW kvH \in Nat, kvH = KvHead(c.heads, c.kvHeads, h)
  PROVE  IsSumOf(WeightedSum(c, h, d, width), ValueTerms(c, h, kvH, d))
<1>. DEFINE S == (0..c.pos) \ c.faint
            term == [t \in S |-> <<<<h, t>>, (t * c.kvHeads + kvH) * c.headDim + d>>]
<1>1. c.headDim \in Nat /\ c.pos \in Nat
  BY DEF Heads
<1>2. PICK kept, n : kept = Ascending(S) /\ n = Cardinality(S)
  OBVIOUS
<1>3. n \in Nat /\ Lists(n, kept, S)
  <2>1. IsFiniteSet(0..c.pos)
    BY <1>1, 0 \in Int, c.pos \in Int, FS_Interval
  <2>2. IsFiniteSet(S) /\ S \subseteq Nat
    BY <1>1, <2>1, FS_Subset
  <2>. HIDE DEF S
  <2>. QED
    BY <1>2, <2>2, AscendingLists
<1>4. kept \in [1..n -> S] /\ Len(kept) = n
  BY <1>3 DEF Lists
<1>5. Cardinality({j \in 1..c.headDim : Visited(c.headDim, width)[j] = d}) = 1
  BY <1>1, VisitsEach
<1>6. WeightedSum(c, h, d, width) = Listed(n, kept, term)
  <2>. DEFINE place(t) == <<<<h, t>>, CacheIndex(c.kvHeads, c.headDim, t, KvHead(c.heads, c.kvHeads, h)) + d>>
              part(k) == [i \in 1..1 |-> place(kept[k + 1])]
  <2>1. WeightedSum(c, h, d, width) = Concat(n, 1, part)
    <3>. DEFINE sum(s, v) == Concat(Len(s), v, LAMBDA k : [i \in 1..v |-> place(s[k + 1])])
    <3>1. WeightedSum(c, h, d, width)
            = sum(Ascending(S), Cardinality({j \in 1..c.headDim : Visited(c.headDim, width)[j] = d}))
      BY DEF WeightedSum
    <3>2. sum(kept, 1) = Concat(n, 1, part)
      <4>. HIDE DEF place
      <4>. QED
        BY <1>4 DEF Concat
    <3>. HIDE DEF sum, S, part, place
    <3>. QED
      BY ONLY <1>2, <1>5, <3>1, <3>2
  <2>2. Concat(n, 1, part) = [k \in 1..n |-> place(kept[k])]
    <3>1. Len([i \in 1..n |-> part(i - 1)]) = n /\ n * 1 = n
      BY <1>3
    <3>2. Concat(n, 1, part)
            = [k \in 1..n |-> [i \in 1..n |-> part(i - 1)][1 + (k - 1) \div 1][1 + ((k - 1) % 1)]]
      BY <3>1 DEF Concat, Joined
    <3>3. ASSUME NEW k \in 1..n
          PROVE  [i \in 1..n |-> part(i - 1)][1 + (k - 1) \div 1][1 + ((k - 1) % 1)] = place(kept[k])
      <4>1. 1 + (k - 1) \div 1 = k /\ 1 + ((k - 1) % 1) = 1 /\ k - 1 + 1 = k
        OBVIOUS
      <4>2. [i \in 1..n |-> part(i - 1)][k] = part(k - 1)
        OBVIOUS
      <4>3. part(k - 1)[1] = place(kept[k])
        BY <4>1
      <4>. HIDE DEF part, place
      <4>. QED
        BY <4>1, <4>2, <4>3
    <3>. HIDE DEF part, place
    <3>. QED
      BY <3>2, <3>3
  <2>3. ASSUME NEW k \in 1..n
        PROVE  place(kept[k]) = term[kept[k]]
    BY <1>4 DEF CacheIndex
  <2>. HIDE DEF place, term, part
  <2>. QED
    BY <2>1, <2>2, <2>3 DEF Listed
<1>7. OneToOne(term, S)
  BY DEF OneToOne
<1>. HIDE DEF term
<1>8. Adds(Listed(n, kept, term), term, S)
  BY <1>3, <1>7, AddsListed
<1>9. IsSumOf(Listed(n, kept, term), {term[t] : t \in S})
  BY ONLY <1>8, AddsIsSumOf
<1>10. {term[t] : t \in S} = ValueTerms(c, h, kvH, d)
  BY DEF term, ValueTerms
<1>. QED
  BY <1>6, <1>9, <1>10

\* The query's indices replaced by its floats, and the terms of the score then.
Queried(s, floats) == [i \in DOMAIN s |-> <<floats[s[i][1]], s[i][2]>>]
QueriedTerms(q, k, n, m) == {<<<<m, 0, q + d>>, k + d>> : d \in 0..n - 1}

\* The score of a position: the floats of the query with the components of its key.
LEMMA ScoreIsWhole ==
  ASSUME NEW q \in Nat, NEW k \in Nat, NEW n \in Nat, NEW s, Sums(s, ScoreTerms(q, k, n), n),
         NEW floats, NEW m, \A d \in 0..n - 1 : floats[q + d] = <<m, 0, q + d>>
  PROVE  IsSumOf(Queried(s, floats), QueriedTerms(q, k, n, m))
<1>1. PICK u : u = Queried(s, floats) /\ u = [i \in DOMAIN s |-> <<floats[s[i][1]], s[i][2]>>]
  BY DEF Queried
<1>2. PICK C, term, new : C = 0..n - 1 /\ term = ScoreTerms(q, k, n)
                          /\ new = [d \in C |-> <<<<m, 0, q + d>>, k + d>>]
  OBVIOUS
<1>3. Adds(s, term, C)
  BY <1>2 DEF Sums
<1>4. OneToOne(new, C)
  <2>1. ASSUME NEW c \in C, NEW d \in C, new[c] = new[d]
        PROVE  c = d
    <3>1. k + c = k + d
      BY <1>2, <2>1
    <3>. QED
      BY <1>2, <3>1
  <2>. QED
    BY <2>1 DEF OneToOne
<1>5. u = [i \in DOMAIN s |-> u[i]]
  BY <1>1
<1>6. ASSUME NEW i \in DOMAIN s, NEW d \in C, s[i] = term[d]
      PROVE  u[i] = new[d]
  <2>1. s[i] = <<q + d, k + d>>
    BY <1>2, <1>6 DEF ScoreTerms
  <2>2. u[i] = <<floats[q + d], k + d>>
    BY <1>1, <2>1
  <2>3. floats[q + d] = <<m, 0, q + d>>
    BY <1>2
  <2>. QED
    BY <1>2, <2>2, <2>3
<1>7. Adds(u, new, C)
  BY ONLY <1>3, <1>4, <1>5, <1>6, AddsRenamed
<1>8. IsSumOf(u, {new[d] : d \in C})
  BY ONLY <1>7, AddsIsSumOf
<1>9. {new[d] : d \in C} = QueriedTerms(q, k, n, m)
  BY <1>2 DEF QueriedTerms
<1>. QED
  BY <1>1, <1>8, <1>9

\* Of every head of a call: the sums that AttentionIsExact asks for.
GroupIsExact(c, m, scores, out, h, kvH, n) ==
  /\ \A t \in 0..c.pos :
       IsSumOf(scores[t], {<<<<m, 0, h * n + d>>, (t * c.kvHeads + kvH) * n + d>> : d \in 0..n - 1})
  /\ \A d \in 0..n - 1 :
       IsSumOf(out[d], {<<<<h, t>>, (t * c.kvHeads + kvH) * n + d>> : t \in (0..c.pos) \ c.faint})

HeadIsExact(c, m, scores, out, h) ==
  GroupIsExact(c, m, scores, out, h, (h * c.kvHeads) \div c.heads, c.headDim)

\* Of either path, from the floats of the call.
LEMMA HeadsAreExact ==
  ASSUME NEW c \in Heads, NEW m, NEW floats, NEW path \in {"native", "java"},
         \A i \in 0..c.heads * c.headDim - 1 : floats[i] = <<m, 0, i>>,
         c.heads % c.kvHeads = 0, NEW h \in 0..c.heads - 1
  PROVE  LET attention == Attention(c, 0..c.heads - 1, path, floats)
         IN HeadIsExact(c, m, attention.scores[h], attention.out[h], h)
<1>. DEFINE attention == Attention(c, 0..c.heads - 1, path, floats)
<1>1. /\ c.heads \in Nat \ {0} /\ c.kvHeads \in Nat \ {0} /\ c.headDim \in Nat /\ c.pos \in Nat
      /\ c.heads % c.kvHeads = 0 /\ h \in Nat
  BY DEF Heads
<1>2. PICK kvH \in Nat : kvH = KvHead(c.heads, c.kvHeads, h) /\ kvH = (h * c.kvHeads) \div c.heads
  BY <1>1, KvHeadOfGroup
<1>3. PICK n \in Nat : n = c.headDim
  BY <1>1
<1>4. ASSUME NEW t \in 0..c.pos
      PROVE  IsSumOf(attention.scores[h][t],
                     {<<<<m, 0, h * n + d>>, (t * c.kvHeads + kvH) * n + d>> : d \in 0..n - 1})
  <2>1. PICK q \in Nat : q = h * n
    BY <1>1, ProductsOfNumbers
  <2>2. PICK k \in Nat : k = (t * c.kvHeads + kvH) * n
    <3>1. t * c.kvHeads + kvH \in Nat
      BY <1>1, ProductsOfNumbers
    <3>. QED
      BY <3>1, ProductsOfNumbers
  <2>3. PICK s : s = IF path = "native" THEN NativeScore(q, k, n) ELSE JavaScore(q, k, n)
    OBVIOUS
  <2>4. Sums(s, ScoreTerms(q, k, n), n)
    BY <2>3, NativeScoreSums, JavaScoreSums
  <2>5. \A d \in 0..n - 1 : floats[q + d] = <<m, 0, q + d>>
    <3>1. ASSUME NEW d \in 0..n - 1
          PROVE  q + d \in 0..c.heads * c.headDim - 1
      <4>1. h * n + d \in 0..c.heads * n - 1
        BY <1>1, PlaceInAll
      <4>. QED
        BY <1>3, <2>1, <4>1
    <3>. QED
      BY <3>1
  <2>6. IsSumOf(Queried(s, floats), QueriedTerms(q, k, n, m))
    BY ONLY <2>4, <2>5, ScoreIsWhole, q \in Nat, k \in Nat, n \in Nat
  <2>7. attention.scores[h][t] = Queried(s, floats)
    <3>1. attention.scores[h] = HeadScores(c, h, path, floats)
      BY DEF Attention
    <3>2. CacheIndex(c.kvHeads, c.headDim, t, KvHead(c.heads, c.kvHeads, h)) = k /\ h * c.headDim = q
      BY <1>2, <1>3, <2>1, <2>2 DEF CacheIndex
    <3>3. HeadScores(c, h, path, floats)[t] = [i \in DOMAIN s |-> <<floats[s[i][1]], s[i][2]>>]
      BY <1>3, <2>3, <3>2 DEF HeadScores
    <3>4. HeadScores(c, h, path, floats)[t] = Queried(s, floats)
      BY ONLY <3>3 DEF Queried
    <3>. QED
      BY <3>1, <3>4
  <2>8. QueriedTerms(q, k, n, m)
          = {<<<<m, 0, h * n + d>>, (t * c.kvHeads + kvH) * n + d>> : d \in 0..n - 1}
    BY <2>1, <2>2 DEF QueriedTerms
  <2>. QED
    BY <2>6, <2>7, <2>8
<1>5. ASSUME NEW d \in 0..n - 1
      PROVE  IsSumOf(attention.out[h][d],
                     {<<<<h, t>>, (t * c.kvHeads + kvH) * n + d>> : t \in (0..c.pos) \ c.faint})
  <2>1. PICK width \in {4, 8} : width = Width[path]
    BY DEF Width
  <2>2. attention.out[h][d] = WeightedSum(c, h, d, width)
    BY <1>3, <2>1 DEF Attention
  <2>3. d \in 0..c.headDim - 1
    BY <1>3
  <2>4. IsSumOf(WeightedSum(c, h, d, width),
                {<<<<h, t>>, (t * c.kvHeads + kvH) * c.headDim + d>> : t \in (0..c.pos) \ c.faint})
    <3>1. kvH = KvHead(c.heads, c.kvHeads, h) /\ h \in Nat
      BY <1>1, <1>2
    <3>2. IsSumOf(WeightedSum(c, h, d, width), ValueTerms(c, h, kvH, d))
      BY ONLY <2>3, <3>1, WeightedSums, c \in Heads, width \in {4, 8}, kvH \in Nat
    <3>. QED
      BY ONLY <3>2 DEF ValueTerms
  <2>. QED
    BY <1>3, <2>2, <2>4
<1>. HIDE DEF attention
<1>6. PICK scores, out : scores = attention.scores[h] /\ out = attention.out[h]
  OBVIOUS
<1>7. (h * c.kvHeads) \div c.heads = kvH /\ c.headDim = n
  BY <1>2, <1>3
<1>8. GroupIsExact(c, m, scores, out, h, kvH, n)
  BY <1>4, <1>5, <1>6 DEF GroupIsExact
<1>9. HeadIsExact(c, m, scores, out, h)
  BY ONLY <1>7, <1>8 DEF HeadIsExact
<1>. QED
  BY <1>6, <1>9 DEF attention

-----------------------------------------------------------------------------
(* The results: a second invariant on top of the first.                     *)

\* The kernel finds the floats of this call in its buffer; the result is kept.
InputInv ==
  pc = "kernel" => \A t \in 0..Batch(call) - 1, i \in 0..InWidth(call) - 1 :
                     inBuf[t * InWidth(call) + i] = <<number, t, i>>

SumsInv == KernelInv /\ InputInv /\ ResultsAreDecoded

\* Prepare fills the buffer.
LEMMA PrepareCopies ==
  ASSUME KernelInv, Prepare
  PROVE  InputInv'
<1>. DEFINE in == Ensured(inBuf, TotalIn(call), NoFloat)
            batch == Batch(call)
            wide == InWidth(call)
<1>1. /\ pc = "native" /\ inBuf' = CopiedIn(in)
      /\ UNCHANGED <<number, call>>
  BY DEF Prepare
<1>2. /\ call \in Shapes /\ TotalIn(call) \in Nat /\ batch \in Nat /\ wide \in Nat
      /\ TotalIn(call) = batch * wide
  BY <1>1, CallSizes DEF KernelInv, PlacesInv, TotalIn
<1>3. IsBuffer(in) /\ Floats(in) >= TotalIn(call)
  BY <1>2, EnsuredFits DEF KernelInv, BuffersInv
<1>4. 0..TotalIn(call) - 1 \subseteq DOMAIN in
  BY <1>2, <1>3 DEF IsBuffer
<1>. HIDE DEF in, batch, wide
<1>5. ASSUME NEW t \in 0..batch - 1, NEW i \in 0..wide - 1
      PROVE  inBuf'[t * wide + i] = <<number, t, i>>
  <2>1. PICK k : k = t * wide + i
    OBVIOUS
  <2>2. k \in 0..TotalIn(call) - 1 /\ k \div wide = t /\ k % wide = i
    BY <1>2, <2>1, PlaceInAll
  <2>3. k \in DOMAIN in /\ k < TotalIn(call)
    BY <1>2, <1>4, <2>2
  <2>4. inBuf'[k] = <<number, k \div wide, k % wide>>
    BY <1>1, <2>3 DEF CopiedIn, wide
  <2>. QED
    BY <2>1, <2>2, <2>4
<1>6. Batch(call)' = batch /\ InWidth(call)' = wide /\ number' = number
  BY <1>1 DEF batch, wide, Batch, InWidth
<1>. QED
  BY <1>5, <1>6 DEF InputInv

\* A row begins at a byte.
LEMMA RowsHaveAddresses ==
  ASSUME NEW c \in Shapes, IsMatrix(c), NEW r \in 0..c.rows - 1
  PROVE  RowAddress(c, r) \in Nat
<1>1. r \in Nat /\ RowBytes(c.format, c.cols) \in Nat /\ c.base \in Nat
  BY MatrixShape, RowsHaveBytes
<1>. QED
  BY <1>1, ProductsOfNumbers DEF RowAddress

\* The threads of the kernel compute every row, and every head.
LEMMA KernelComputesRows ==
  ASSUME NEW c \in Shapes
  PROVE  KernelRows(c) = 0..(IF IsMatrix(c) THEN c.rows ELSE c.heads) - 1
<1>1. PICK total \in Nat \ {0} : total = IF IsMatrix(c) THEN c.rows ELSE c.heads
  BY MatrixShape, HeadsShape
<1>2. HwThreads \in Nat \ {0} /\ SerialRows \in Nat
  BY KernelAssumption
<1>. QED
  BY <1>1, <1>2, AllRowsAreComputed DEF KernelRows

\* The native kernel.
LEMMA MatrixKernelSums ==
  ASSUME SumsInv, RunMatrixKernel
  PROVE  ResultsAreDecoded'
<1>1. /\ pc = "kernel" /\ IsMatrix(call) /\ outBuf' = MatrixOut
      /\ result' = [t \in 0..call.batch - 1 |->
                      [r \in 0..call.rows - 1 |-> outBuf'[t * call.rows + r]]]
      /\ UNCHANGED <<number, call>>
  BY DEF RunMatrixKernel
<1>2. call \in Shapes /\ TriesNative(call) /\ HasKernel(call)
  BY <1>1 DEF SumsInv, KernelInv, PlacesInv, TriesNative
<1>3. /\ call.op \in {"gemv", "gemm"} /\ call.format \in {"Q4_0", "Q8_0", "Q4_K"}
      /\ call.rows \in Nat /\ call.cols \in Nat /\ call.batch \in Nat
      /\ call.cols % BlockColumns[call.format] = 0
  BY <1>1, <1>2, MatrixShape DEF HasKernel
<1>4. /\ IsBuffer(outBuf) /\ TotalOut(call) =< Floats(outBuf)
      /\ TotalOut(call) = call.batch * call.rows /\ TotalOut(call) \in Nat
      /\ Batch(call) = call.batch /\ InWidth(call) = call.cols
  BY <1>1, <1>2, CallSizes DEF SumsInv, KernelInv, BuffersInv, TotalOut, Batch, OutWidth, InWidth
<1>5. KernelRows(call) = 0..call.rows - 1
  BY <1>1, <1>2, KernelComputesRows
<1>6. ASSUME NEW t \in 0..call.batch - 1, NEW r \in 0..call.rows - 1
      PROVE  IsSumOf(result'[t][r], Reference(t, r))
  <2>. DEFINE a == RowAddress(call, r)
              x == t * call.cols
              s == NativeRow(call.op, call.format, a, call.cols, x)
  <2>1. PICK k : k = t * call.rows + r
    OBVIOUS
  <2>2. k \in 0..TotalOut(call) - 1 /\ k \div call.rows = t /\ k % call.rows = r
    <3>1. PICK n, length : n = call.batch /\ length = call.rows
      OBVIOUS
    <3>2. n \in Nat /\ length \in Nat /\ t \in 0..n - 1 /\ r \in 0..length - 1
      BY <1>3, <3>1
    <3>3. /\ t * length + r \in 0..n * length - 1
          /\ (t * length + r) \div length = t /\ (t * length + r) % length = r
      BY ONLY <3>2, PlaceInAll
    <3>. QED
      BY ONLY <1>4, <2>1, <3>1, <3>3
  <2>3. k \in DOMAIN outBuf
    BY <1>4, <2>2 DEF IsBuffer
  <2>4. result'[t][r] = MatrixOut[k]
    BY <1>1, <2>1
  <2>5. MatrixOut[k] = Resolve(s, inBuf)
    <3>1. t < call.batch
      BY <1>3
    <3>. QED
      BY <1>5, <2>2, <2>3, <3>1 DEF MatrixOut
  <2>6. a \in Nat /\ x \in Nat
    BY <1>1, <1>2, <1>3, RowsHaveAddresses, ProductsOfNumbers
  <2>7. Holds(inBuf, x, call.cols, number, t)
    BY <1>1, <1>4 DEF SumsInv, InputInv, Holds
  <2>. HIDE DEF a, x
  <2>8. Sums(s, RowTerms(call.format, a, call.cols, x), call.cols)
    BY <1>3, <2>6, NativeRowSums
  <2>. HIDE DEF s
  <2>9. IsSumOf(Resolve(s, inBuf), TermsWith(call.format, a, call.cols, number, t))
    BY <1>3, <2>6, <2>7, <2>8, ResolvedSum
  <2>10. TermsWith(call.format, a, call.cols, number, t) = Reference(t, r)
    BY DEF TermsWith, Reference, a
  <2>. QED
    BY <2>4, <2>5, <2>9, <2>10
<1>7. /\ call' = call /\ IsMatrix(call)' = IsMatrix(call)
      /\ \A t, r : Reference(t, r)' = Reference(t, r)
  BY <1>1 DEF Reference, IsMatrix, RowAddress
<1>. QED
  BY <1>6, <1>7 DEF ResultsAreDecoded

\* The Java kernels.
LEMMA FallbackSums ==
  ASSUME SumsInv, Fallback
  PROVE  ResultsAreDecoded'
<1>1. pc = "fallback" /\ UNCHANGED <<number, call>> /\ call \in Shapes
  BY DEF Fallback, SumsInv, KernelInv, PlacesInv
<1>2. \A t, r : Reference(t, r)' = Reference(t, r)
  BY <1>1 DEF Reference, RowAddress
<1>3. CASE ~IsMatrix(call)
  BY <1>1, <1>3 DEF ResultsAreDecoded, IsMatrix
<1>4. CASE IsMatrix(call)
  <2>. DEFINE row(r) == JavaRow(call.op, call.format, RowAddress(call, r), call.cols,
                                call.place # "mapped")
              floats(t) == [i \in 0..call.cols - 1 |-> <<number, t, i>>]
  <2>1. result' = [t \in 0..call.batch - 1 |-> [r \in 0..call.rows - 1 |-> Resolve(row(r), floats(t))]]
    BY <1>4 DEF Fallback
  <2>2. /\ call.op \in {"gemv", "gemm"} /\ call.format \in Formats
        /\ call.rows \in Nat /\ call.cols \in Nat \ {0} /\ call.batch \in Nat
        /\ call.cols % BlockColumns[call.format] = 0
    BY <1>1, <1>4, MatrixShape
  <2>3. ASSUME NEW t \in 0..call.batch - 1, NEW r \in 0..call.rows - 1
        PROVE  IsSumOf(result'[t][r], Reference(t, r))
    <3>. DEFINE a == RowAddress(call, r)
    <3>1. a \in Nat
      BY <1>1, <1>4, RowsHaveAddresses
    <3>. HIDE DEF a
    <3>2. Sums(row(r), RowTerms(call.format, a, call.cols, 0), call.cols)
      <4>1. PICK heap : heap = (call.place # "mapped")
        OBVIOUS
      <4>2. Sums(JavaRow(call.op, call.format, a, call.cols, heap),
                 RowTerms(call.format, a, call.cols, 0), call.cols)
        BY <2>2, <3>1, JavaRowSums
      <4>. QED
        BY <4>1, <4>2 DEF a
    <3>3. Holds(floats(t), 0, call.cols, number, t)
      BY DEF Holds
    <3>4. result'[t][r] = Resolve(row(r), floats(t))
      BY <2>1
    <3>. HIDE DEF row, floats
    <3>5. IsSumOf(Resolve(row(r), floats(t)), TermsWith(call.format, a, call.cols, number, t))
      BY <2>2, <3>1, <3>2, <3>3, ResolvedSum
    <3>6. TermsWith(call.format, a, call.cols, number, t) = Reference(t, r)
      BY DEF TermsWith, Reference, a
    <3>. QED
      BY <3>4, <3>5, <3>6
  <2>. QED
    BY <1>1, <1>2, <2>3 DEF ResultsAreDecoded
<1>. QED
  BY <1>3, <1>4

LEMMA NextSumsInv == SumsInv /\ [Next]_vars => SumsInv'
<1>. SUFFICES ASSUME SumsInv, [Next]_vars
              PROVE  SumsInv'
  OBVIOUS
<1>1. KernelInv /\ KernelInv'
  BY NextKernelInv DEF SumsInv
<1>2. CASE Prepare
  <2>1. InputInv'
    BY <1>1, <1>2, PrepareCopies
  <2>2. ResultsAreDecoded'
    BY <1>2 DEF Prepare, ResultsAreDecoded
  <2>. QED
    BY <1>1, <2>1, <2>2 DEF SumsInv
<1>3. CASE RunMatrixKernel
  <2>1. InputInv'
    BY <1>3 DEF RunMatrixKernel, InputInv
  <2>. QED
    BY <1>1, <1>3, <2>1, MatrixKernelSums DEF SumsInv
<1>4. CASE Fallback
  <2>1. InputInv'
    BY <1>4 DEF Fallback, InputInv
  <2>. QED
    BY <1>1, <1>4, <2>1, FallbackSums DEF SumsInv
<1>5. CASE RunAttentionKernel
  BY <1>1, <1>5 DEF RunAttentionKernel, SumsInv, InputInv, ResultsAreDecoded, IsMatrix
<1>6. CASE UNCHANGED vars
  <2>1. UNCHANGED <<pc, call, number, inBuf, result>>
    BY <1>6 DEF vars
  <2>2. ResultsAreDecoded'
    <3>1. \A t, r : Reference(t, r)' = Reference(t, r)
      BY <2>1 DEF Reference, RowAddress
    <3>. QED
      BY <2>1, <3>1 DEF SumsInv, ResultsAreDecoded, IsMatrix
  <2>3. InputInv'
    BY <2>1 DEF SumsInv, InputInv, Batch, InWidth, IsMatrix
  <2>. QED
    BY <1>1, <2>2, <2>3 DEF SumsInv
<1>7. CASE GpuStep \/ RefuseHeap \/ SegmentThrows \/ Close \/ \E c \in UNION ToSet(Calls) : Begin(c)
  <2>1. pc' \notin {"kernel", "returned"}
    <3>1. CASE GpuStep
      BY <3>1 DEF GpuStep, Ensure, EnsureKeeps, EnsureAllocates, EnsureFails, Upload, GpuDispatch,
                  GpuThrows, Route
    <3>2. CASE RefuseHeap \/ SegmentThrows \/ Close
      BY <3>2 DEF RefuseHeap, SegmentThrows, Close
    <3>3. CASE \E c \in UNION ToSet(Calls) : Begin(c)
      BY <3>3 DEF Begin, Route
    <3>. QED
      BY <1>7, <3>1, <3>2, <3>3
  <2>. QED
    BY <1>1, <2>1 DEF SumsInv, InputInv, ResultsAreDecoded
<1>8. CASE AttentionThrows
  BY <1>1, <1>8 DEF AttentionThrows, SumsInv, InputInv, ResultsAreDecoded, IsMatrix, NoCall
<1>. QED
  BY <1>2, <1>3, <1>4, <1>5, <1>6, <1>7, <1>8 DEF Next

LEMMA InitSumsInv == Init => SumsInv
<1>1. Init => InputInv /\ ResultsAreDecoded
  BY DEF Init, InputInv, ResultsAreDecoded, IsMatrix, NoCall
<1>. QED
  BY <1>1, InitKernelInv DEF SumsInv

LEMMA SumsInvHolds == Spec => []SumsInv
BY InitSumsInv, NextSumsInv, PTL DEF Spec

\* Every product is the sum over its row of decoded weight times input of this call,
\* for every format, shape, batch and place of the matrix and every path
\* (fastai_streaming_kernels.cpp and the fused dot products of StreamingTransformerEngine).
THEOREM ProductsAreDecoded == Spec => []ResultsAreDecoded
<1>1. SumsInv => ResultsAreDecoded
  BY DEF SumsInv
<1>. QED
  BY <1>1, SumsInvHolds, PTL

LEMMA HeadsOfCall ==
  ASSUME NEW c \in Shapes, c.op = "attention"
  PROVE  c \in Heads /\ ~IsMatrix(c)
BY DEF Shapes, Matrices, IsMatrix

\* The elements of the vector of position t and KV head kvH in a slice.
VectorCells(c, t, kvH) == {(t * c.kvHeads + kvH) * c.headDim + d : d \in 0..c.headDim - 1}

\* A head reads the whole key of every position, and of values nothing else.
LEMMA HeadReads ==
  ASSUME NEW c \in Heads, NEW h \in 0..c.heads - 1,
         NEW kvH \in Nat, kvH = KvHead(c.heads, c.kvHeads, h)
  PROVE  /\ \A t \in 0..c.pos :
              Reads(HeadScores(c, h, "native", inBuf)[t]) = VectorCells(c, t, kvH)
         /\ \A d \in 0..c.headDim - 1 :
              Reads(WeightedSum(c, h, d, Width.native)) \subseteq UNION {VectorCells(c, t, kvH) : t \in 0..c.pos}
<1>1. c.heads \in Nat \ {0} /\ c.kvHeads \in Nat \ {0} /\ c.headDim \in Nat /\ c.pos \in Nat /\ h \in Nat
  BY DEF Heads
<1>2. ASSUME NEW t \in 0..c.pos
      PROVE  Reads(HeadScores(c, h, "native", inBuf)[t]) = VectorCells(c, t, kvH)
  <2>1. PICK n \in Nat, q \in Nat : n = c.headDim /\ q = h * c.headDim
    BY <1>1, ProductsOfNumbers
  <2>2. PICK k \in Nat : k = (t * c.kvHeads + kvH) * n
    <3>1. t * c.kvHeads + kvH \in Nat
      BY <1>1, ProductsOfNumbers
    <3>. QED
      BY <2>1, <3>1, ProductsOfNumbers
  <2>3. PICK s, term, C : s = NativeScore(q, k, n) /\ term = ScoreTerms(q, k, n) /\ C = 0..n - 1
    OBVIOUS
  <2>4. Adds(s, term, C)
    BY <2>3, NativeScoreSums DEF Sums
  <2>5. DOMAIN s = 1..Len(s)
    BY <2>4 DEF Adds
  <2>6. /\ \A i \in DOMAIN s : \E d \in C : s[i] = term[d]
        /\ \A d \in C : \E i \in DOMAIN s : s[i] = term[d]
    BY ONLY <2>4, <2>5, AddsFacts
  <2>7. \A d \in C : term[d][2] = k + d
    BY <2>3 DEF ScoreTerms
  <2>8. {s[i][2] : i \in DOMAIN s} = {k + d : d \in C}
    BY ONLY <2>6, <2>7
  <2>9. PICK u : u = HeadScores(c, h, "native", inBuf)[t] /\ u = [i \in DOMAIN s |-> <<inBuf[s[i][1]], s[i][2]>>]
    <3>1. CacheIndex(c.kvHeads, c.headDim, t, KvHead(c.heads, c.kvHeads, h)) = k /\ h * c.headDim = q
      BY <2>1, <2>2 DEF CacheIndex
    <3>. QED
      BY <2>1, <2>3, <3>1 DEF HeadScores
  <2>10. Reads(u) = {s[i][2] : i \in DOMAIN s}
    BY ONLY <2>9 DEF Reads
  <2>. QED
    <3>1. {k + d : d \in C} = VectorCells(c, t, kvH)
      BY <2>1, <2>2, <2>3 DEF VectorCells
    <3>2. Reads(u) = VectorCells(c, t, kvH)
      BY ONLY <2>8, <2>10, <3>1
    <3>. QED
      BY ONLY <2>9, <3>2
<1>3. ASSUME NEW d \in 0..c.headDim - 1
      PROVE  Reads(WeightedSum(c, h, d, Width.native)) \subseteq UNION {VectorCells(c, t, kvH) : t \in 0..c.pos}
  <2>1. PICK s, terms : s = WeightedSum(c, h, d, Width.native) /\ terms = ValueTerms(c, h, kvH, d)
    OBVIOUS
  <2>2. IsSumOf(s, terms)
    <3>1. Width.native = 8
      BY DEF Width
    <3>. QED
      BY <1>1, <2>1, <3>1, WeightedSums
  <2>3. \A i \in DOMAIN s : s[i] \in terms
    BY <2>2 DEF IsSumOf, ToSet
  <2>4. \A x \in terms : \E t \in 0..c.pos : x[2] = (t * c.kvHeads + kvH) * c.headDim + d
    BY <2>1 DEF ValueTerms
  <2>5. \A x \in terms : \E t \in 0..c.pos : x[2] \in VectorCells(c, t, kvH)
    BY <2>4 DEF VectorCells
  <2>. QED
    BY <2>1, <2>3, <2>5 DEF Reads
<1>. QED
  BY <1>2, <1>3

\* Vector p of those a slice has room for, and only such a one, lies in it.
LEMMA VectorsOfSlice ==
  ASSUME NEW n \in Nat, NEW length \in Nat \ {0}, NEW p \in Nat
  PROVE  /\ p < n => \A d \in 0..length - 1 : p * length + d \in 0..n * length - 1
         /\ p * length \in 0..n * length - 1 => p < n
<1>1. p < n => \A d \in 0..length - 1 : p * length + d \in 0..n * length - 1
  BY PlaceInAll
<1>2. ASSUME p * length \in 0..n * length - 1, n =< p
      PROVE  FALSE
  <2>1. length * n =< length * p
    BY ONLY <1>2, TimesIsMonotonic, n \in Nat, p \in Nat, length \in Nat \ {0}
  <2>2. PICK x \in Nat, y \in Nat : x = n * length /\ x = length * n /\ y = p * length /\ y = length * p
    BY ProductsOfNumbers
  <2>. QED
    BY <1>2, <2>1, <2>2
<1>. QED
  BY <1>1, <1>2

\* All heads: the slice is left exactly at the end of the context.
LEMMA CacheReadsInside ==
  ASSUME NEW c \in Heads, KernelRows(c) = 0..c.heads - 1
  PROVE  CacheReads(c) \subseteq 0..SegmentLength(c) - 1
           <=> c.pos + (IF WholeGroups(c) THEN 0 ELSE 1) < c.maxTokens
<1>1. PICK heads \in Nat \ {0}, K \in Nat \ {0}, D \in Nat \ {0}, M \in Nat \ {0}, pos \in Nat :
        heads = c.heads /\ K = c.kvHeads /\ D = c.headDim /\ M = c.maxTokens /\ pos = c.pos
  BY DEF Heads
<1>2. PICK n \in Nat : n = M * K /\ n = K * M
  BY ProductsOfNumbers
<1>3. SegmentLength(c) = n * D
  BY <1>1, <1>2 DEF SegmentLength
<1>. DEFINE whole == heads =< K \/ heads % K = 0
<1>4. PICK more \in 0..1 :
        /\ more = IF WholeGroups(c) THEN 0 ELSE 1
        /\ whole => more = 0
        /\ ~whole => more = 1
  BY <1>1 DEF WholeGroups
<1>5. ASSUME pos + more < M
      PROVE  CacheReads(c) \subseteq 0..n * D - 1
  <2>1. ASSUME NEW h \in 0..heads - 1, NEW t \in 0..pos
        PROVE  VectorCells(c, t, KvHead(heads, K, h)) \subseteq 0..n * D - 1
    <3>1. PICK kvH \in Nat : kvH = KvHead(heads, K, h) /\ kvH < 2 * K /\ (whole => kvH < K)
      BY KvHeadRange
    <3>2. PICK p \in Nat : p = t * K /\ p = K * t
      BY ProductsOfNumbers
    <3>3. K * (t + 1 + more) =< n
      <4>1. t + 1 + more =< M /\ t + 1 + more \in Nat
        BY <1>5
      <4>2. K * (t + 1 + more) =< K * M
        BY ONLY <4>1, TimesIsMonotonic, K \in Nat \ {0}, M \in Nat \ {0}
      <4>. QED
        BY <1>2, <4>2
    <3>4. p + kvH < n
      <4>1. CASE whole
        <5>1. K * (t + 1 + more) = p + K
          BY <1>4, <3>2, <4>1
        <5>. QED
          BY <3>1, <3>3, <4>1, <5>1
      <4>2. CASE ~whole
        <5>1. K * (t + 1 + more) = p + 2 * K
          BY <1>4, <3>2, <4>2
        <5>. QED
          BY <3>1, <3>3, <5>1
      <4>. QED
        BY <4>1, <4>2
    <3>5. PICK x \in Nat : x = p + kvH
      OBVIOUS
    <3>6. \A d \in 0..D - 1 : x * D + d \in 0..n * D - 1
      BY ONLY <3>4, <3>5, VectorsOfSlice, n \in Nat, D \in Nat \ {0}, x \in Nat
    <3>. QED
      BY <1>1, <3>1, <3>2, <3>5, <3>6 DEF VectorCells
  <2>2. ASSUME NEW h \in 0..heads - 1, NEW t \in 0..pos
        PROVE  Reads(HeadScores(c, h, "native", inBuf)[t]) \subseteq 0..n * D - 1
    <3>1. PICK kvH \in Nat : kvH = KvHead(heads, K, h)
      BY KvHeadRange
    <3>. QED
      BY <1>1, <2>1, <3>1, HeadReads
  <2>3. ASSUME NEW h \in 0..heads - 1, NEW d \in 0..D - 1
        PROVE  Reads(WeightedSum(c, h, d, Width.native)) \subseteq 0..n * D - 1
    <3>1. PICK kvH \in Nat : kvH = KvHead(heads, K, h)
      BY KvHeadRange
    <3>2. Reads(WeightedSum(c, h, d, Width.native)) \subseteq UNION {VectorCells(c, t, kvH) : t \in 0..pos}
      BY <1>1, <3>1, HeadReads
    <3>3. \A t \in 0..pos : VectorCells(c, t, kvH) \subseteq 0..n * D - 1
      BY <2>1, <3>1
    <3>. QED
      BY ONLY <3>2, <3>3
  <2>. QED
    BY <1>1, <2>2, <2>3 DEF CacheReads
<1>6. ASSUME CacheReads(c) \subseteq 0..n * D - 1
      PROVE  pos + more < M
  <2>1. PICK h \in 0..heads - 1 : h = heads - 1
    OBVIOUS
  <2>2. PICK kvH \in Nat : kvH = KvHead(heads, K, h) /\ (~whole => kvH >= K)
    <3>1. KvHead(heads, K, h) \in 0..2 * K - 1 /\ (~whole => KvHead(heads, K, heads - 1) >= K)
      BY KvHeadRange
    <3>2. ~whole => KvHead(heads, K, h) >= K
      BY ONLY <2>1, <3>1
    <3>3. PICK y : y = KvHead(heads, K, h)
      OBVIOUS
    <3>. QED
      BY ONLY <3>1, <3>2, <3>3, K \in Nat \ {0}
  <2>3. PICK p \in Nat, x \in Nat : p = pos * K /\ p = K * pos /\ x = p + kvH
    BY ProductsOfNumbers
  <2>4. x * D \in VectorCells(c, pos, kvH)
    <3>1. x * D \in Nat /\ x * D + 0 = x * D /\ 0 \in 0..D - 1
      BY ProductsOfNumbers
    <3>. QED
      BY <1>1, <2>3, <3>1 DEF VectorCells
  <2>5. x * D \in CacheReads(c)
    <3>1. h \in 0..c.heads - 1 /\ c.pos \in 0..c.pos /\ kvH = KvHead(c.heads, c.kvHeads, h)
      BY <1>1, <2>2
    <3>2. Reads(HeadScores(c, h, "native", inBuf)[c.pos]) = VectorCells(c, c.pos, kvH)
      BY <3>1, HeadReads
    <3>3. \A i \in KernelRows(c), t \in 0..c.pos :
            Reads(HeadScores(c, i, "native", inBuf)[t]) \subseteq CacheReads(c)
      BY DEF CacheReads
    <3>4. VectorCells(c, c.pos, kvH) \subseteq CacheReads(c)
      BY <3>1, <3>2, <3>3
    <3>. QED
      BY ONLY <1>1, <2>4, <3>4
  <2>6. x < n
    BY <1>6, <2>5, VectorsOfSlice
  <2>7. CASE whole
    <3>1. SUFFICES ASSUME M =< pos
                   PROVE  FALSE
      BY <1>4, <2>7
    <3>2. K * M =< K * pos
      BY ONLY <3>1, TimesIsMonotonic, K \in Nat \ {0}, M \in Nat \ {0}, pos \in Nat
    <3>. QED
      BY <1>2, <2>3, <2>6, <3>2
  <2>8. CASE ~whole
    <3>1. SUFFICES ASSUME M =< pos + 1
                   PROVE  FALSE
      BY <1>4, <2>8
    <3>2. K * M =< K * (pos + 1)
      BY ONLY <3>1, TimesIsMonotonic, K \in Nat \ {0}, M \in Nat \ {0}, pos + 1 \in Nat
    <3>3. K * (pos + 1) = p + K
      BY <2>3
    <3>. QED
      BY <1>2, <2>2, <2>3, <2>6, <2>8, <3>2, <3>3
  <2>. QED
    BY <2>7, <2>8
<1>. QED
  BY <1>1, <1>3, <1>4, <1>5, <1>6

\* The native kernels stay within the floats and the bytes they are handed, attention
\* within the slices of the cache exactly up to the end of the context (gemv_q4_0_avx2
\* and its like, compute_attention_avx2).
THEOREM KernelIsInside == Spec => []KernelStaysInside
<1>1. ASSUME KernelInv, pc = "kernel"
      PROVE  KernelStaysInside
  <2>1. call \in Shapes /\ TriesNative(call) /\ BuffersInv
    BY <1>1 DEF KernelInv, PlacesInv
  <2>2. /\ Batch(call) \in Nat /\ InWidth(call) \in Nat /\ OutWidth(call) \in Nat
        /\ TotalIn(call) = Batch(call) * InWidth(call) /\ TotalIn(call) \in Nat
        /\ TotalOut(call) = Batch(call) * OutWidth(call) /\ TotalOut(call) \in Nat
    BY <2>1, CallSizes DEF TotalIn, TotalOut
  <2>3. 0..TotalIn(call) - 1 \subseteq DOMAIN inBuf /\ 0..TotalOut(call) - 1 \subseteq DOMAIN outBuf
    <3>1. /\ Floats(inBuf) \in Nat /\ DOMAIN inBuf = 0..Floats(inBuf) - 1
          /\ Floats(outBuf) \in Nat /\ DOMAIN outBuf = 0..Floats(outBuf) - 1
          /\ TotalIn(call) =< Floats(inBuf) /\ TotalOut(call) =< Floats(outBuf)
      BY <1>1, <2>1 DEF BuffersInv, IsBuffer
    <3>. QED
      <4>1. ASSUME NEW m \in Nat, NEW n \in Nat, m =< n
            PROVE  0..m - 1 \subseteq 0..n - 1
        BY <4>1
      <4>. QED
        BY ONLY <2>2, <3>1, <4>1
  <2>4. ASSUME NEW t \in 0..Batch(call) - 1
        PROVE  /\ {t * InWidth(call) + i : i \in 0..InWidth(call) - 1} \subseteq DOMAIN inBuf
               /\ {t * OutWidth(call) + r : r \in 0..OutWidth(call) - 1} \subseteq DOMAIN outBuf
    <3>1. \A i \in 0..InWidth(call) - 1 : t * InWidth(call) + i \in 0..TotalIn(call) - 1
      BY <2>2, PlaceInAll
    <3>2. \A r \in 0..OutWidth(call) - 1 : t * OutWidth(call) + r \in 0..TotalOut(call) - 1
      BY <2>2, PlaceInAll
    <3>. QED
      BY <2>3, <3>1, <3>2
  <2>5. ASSUME IsMatrix(call), NEW r \in KernelRows(call), NEW t \in 0..call.batch - 1
        PROVE  LET sum == NativeRow(call.op, call.format, RowAddress(call, r), call.cols, t * call.cols)
               IN \A k \in DOMAIN sum :
                    /\ sum[k][2] \in 0..Batch(call) * call.cols - 1
                    /\ \A f \in Fields(sum[k][1]) :
                         f[1] - call.base \in 0..call.rows * RowBytes(call.format, call.cols) - 1
    <3>. DEFINE a == RowAddress(call, r)
                x == t * call.cols
                sum == NativeRow(call.op, call.format, a, call.cols, x)
                bytes == RowBytes(call.format, call.cols)
    <3>1. /\ call.op \in {"gemv", "gemm"} /\ call.format \in {"Q4_0", "Q8_0", "Q4_K"}
          /\ call.rows \in Nat /\ call.cols \in Nat /\ call.batch \in Nat /\ call.base \in Nat
          /\ call.cols % BlockColumns[call.format] = 0
          /\ Batch(call) = call.batch
      BY <2>1, <2>5, MatrixShape DEF TriesNative, HasKernel, Batch
    <3>2. r \in 0..call.rows - 1
      BY <2>1, <2>5, KernelComputesRows
    <3>3. a \in Nat /\ x \in Nat /\ bytes \in Nat /\ a = call.base + r * bytes
      <4>1. bytes \in Nat
        BY <3>1, RowsHaveBytes DEF Formats
      <4>. QED
        BY <2>1, <2>5, <3>1, <3>2, <4>1, RowsHaveAddresses, ProductsOfNumbers DEF RowAddress
    <3>4. Sums(sum, RowTerms(call.format, a, call.cols, x), call.cols)
      <4>. HIDE DEF a, x
      <4>. QED
        BY <3>1, <3>3, NativeRowSums
    <3>5. ASSUME NEW k \in DOMAIN sum
          PROVE  \E c \in 0..call.cols - 1 :
                   sum[k] = <<Decoded(call.format, a, KernelColumn(call.format, c)), x + c>>
      <4>1. PICK s, term, n, C : s = sum /\ term = RowTerms(call.format, a, call.cols, x)
                                 /\ n = call.cols /\ C = 0..n - 1
        OBVIOUS
      <4>2. Adds(s, term, C) /\ Len(s) = n
        BY <3>4, <4>1 DEF Sums
      <4>3. \A i \in 1..n : \E c \in C : s[i] = term[c]
        BY ONLY <4>2, AddsFacts
      <4>4. DOMAIN s = 1..n
        BY <4>2 DEF Adds
      <4>. HIDE DEF sum
      <4>5. PICK c \in 0..n - 1 : s[k] = term[c]
        BY <4>1, <4>3, <4>4
      <4>. QED
        BY <4>1, <4>5 DEF RowTerms
    <3>6. ASSUME NEW k \in DOMAIN sum
          PROVE  /\ sum[k][2] \in 0..Batch(call) * call.cols - 1
                 /\ \A f \in Fields(sum[k][1]) : f[1] - call.base \in 0..call.rows * bytes - 1
      <4>1. PICK c \in 0..call.cols - 1 :
              sum[k] = <<Decoded(call.format, a, KernelColumn(call.format, c)), x + c>>
        BY <3>5
      <4>2. x + c \in 0..Batch(call) * call.cols - 1
        BY <3>1, PlaceInAll
      <4>3. ASSUME NEW f \in Fields(Decoded(call.format, a, KernelColumn(call.format, c)))
            PROVE  f[1] - call.base \in 0..call.rows * bytes - 1
        <5>1. PICK j \in 0..bytes - 1 : j = f[1] - a /\ f[1] \in Nat
          BY <3>1, <3>3, FieldsInRow
        <5>2. r * bytes + j \in 0..call.rows * bytes - 1
          BY <3>1, <3>2, <3>3, PlaceInAll
        <5>3. PICK p \in Nat : p = r * bytes
          BY <3>2, <3>3, ProductsOfNumbers
        <5>4. f[1] - call.base = p + j
          BY <3>1, <3>3, <5>1, <5>3
        <5>. QED
          BY <5>2, <5>3, <5>4
      <4>. HIDE DEF sum, a, x, bytes
      <4>. QED
        BY <4>1, <4>2, <4>3
    <3>. QED
      BY <3>6
  <2>6. ASSUME ~IsMatrix(call)
        PROVE  CacheReads(call) \subseteq 0..SegmentLength(call) - 1
                 <=> call.pos + (IF WholeGroups(call) THEN 0 ELSE 1) < call.maxTokens
    <3>1. call \in Heads /\ KernelRows(call) = 0..call.heads - 1
      BY <2>1, <2>6, HeadsShape, HeadsOfCall, KernelComputesRows
    <3>. QED
      BY <3>1, CacheReadsInside
  <2>. QED
    BY <2>4, <2>5, <2>6 DEF KernelStaysInside
<1>2. KernelInv => KernelStaysInside
  BY <1>1 DEF KernelStaysInside
<1>. QED
  BY <1>2, KernelInvHolds, PTL

-----------------------------------------------------------------------------
(* Attention: a third invariant on top of the second.                       *)

AttentionInv == SumsInv /\ AttentionIsExact

LEMMA ExactHeads ==
  AttentionIsExact <=>
    (pc = "returned" /\ call.op = "attention" /\ call.heads % call.kvHeads = 0 =>
       \A h \in 0..call.heads - 1 : HeadIsExact(call, number, result.scores[h], result.out[h], h))
BY DEF AttentionIsExact, HeadIsExact, GroupIsExact

\* The native kernel: output component d of head h is float h * headDim + d.
LEMMA AttentionKernelSums ==
  ASSUME SumsInv, RunAttentionKernel
  PROVE  AttentionIsExact'
<1>. DEFINE attention == Attention(call, KernelRows(call), "native", inBuf)
<1>1. /\ pc = "kernel" /\ ~IsMatrix(call) /\ UNCHANGED <<call, number>>
      /\ outBuf' = AttentionOut(attention)
      /\ result' = [scores |-> attention.scores,
                    out |-> [h \in 0..call.heads - 1 |->
                               [d \in 0..call.headDim - 1 |-> outBuf'[h * call.headDim + d]]]]
  BY DEF RunAttentionKernel
<1>2. call \in Shapes /\ call \in Heads /\ call.heads \in Nat \ {0} /\ call.headDim \in Nat
  BY <1>1, HeadsShape, HeadsOfCall DEF SumsInv, KernelInv, PlacesInv
<1>3. KernelRows(call) = 0..call.heads - 1
  BY <1>1, <1>2, KernelComputesRows
<1>4. PICK size \in Nat : size = call.heads * call.headDim
  BY <1>2, ProductsOfNumbers
<1>5. /\ InWidth(call) = size /\ Batch(call) = 1 /\ OutWidth(call) = size
      /\ 0..size - 1 \subseteq DOMAIN outBuf
  <2>1. InWidth(call) = size /\ Batch(call) = 1 /\ OutWidth(call) = size
    BY <1>1, <1>4 DEF InWidth, Batch, OutWidth
  <2>2. size =< Floats(outBuf)
    BY <1>1, <2>1 DEF SumsInv, KernelInv, BuffersInv, TotalOut
  <2>3. Floats(outBuf) \in Nat /\ DOMAIN outBuf = 0..Floats(outBuf) - 1
    BY DEF SumsInv, KernelInv, BuffersInv, IsBuffer
  <2>. QED
    BY <2>1, <2>2, <2>3
<1>6. \A i \in 0..size - 1 : inBuf[i] = <<number, 0, i>>
  <2>1. \A i \in 0..size - 1 : inBuf[0 * size + i] = <<number, 0, i>>
    BY <1>1, <1>5 DEF SumsInv, InputInv
  <2>2. \A i \in 0..size - 1 : 0 * size + i = i
    OBVIOUS
  <2>. QED
    BY <2>1, <2>2
<1>7. ASSUME NEW h \in 0..call.heads - 1
      PROVE  /\ attention.scores[h] = result'.scores[h]
             /\ \A d \in 0..call.headDim - 1 : attention.out[h][d] = result'.out[h][d]
  <2>1. attention.scores = result'.scores
    BY <1>1
  <2>2. ASSUME NEW d \in 0..call.headDim - 1
        PROVE  attention.out[h][d] = result'.out[h][d]
    <3>1. PICK k : k = h * call.headDim + d
      OBVIOUS
    <3>2. k \in 0..size - 1 /\ k \div call.headDim = h /\ k % call.headDim = d
      <4>1. PICK n \in Nat, length \in Nat : n = call.heads /\ length = call.headDim
        BY <1>2
      <4>2. /\ h * length + d \in 0..n * length - 1
            /\ (h * length + d) \div length = h /\ (h * length + d) % length = d
        <5>1. h \in 0..n - 1 /\ d \in 0..length - 1
          BY <4>1
        <5>. QED
          BY ONLY <5>1, PlaceInAll, n \in Nat, length \in Nat
      <4>. QED
        BY ONLY <1>4, <3>1, <4>1, <4>2
    <3>3. DOMAIN attention.out = 0..call.heads - 1
      BY <1>3 DEF Attention
    <3>. HIDE DEF attention
    <3>4. AttentionOut(attention)[k] = attention.out[h][d]
      BY <1>5, <3>2, <3>3 DEF AttentionOut
    <3>5. result'.out[h][d] = outBuf'[k]
      BY <1>1, <3>1
    <3>. QED
      BY <1>1, <3>4, <3>5
  <2>. QED
    BY <2>1, <2>2
<1>8. ASSUME call.heads % call.kvHeads = 0, NEW h \in 0..call.heads - 1
      PROVE  HeadIsExact(call, number, result'.scores[h], result'.out[h], h)
  <2>1. HeadIsExact(call, number, attention.scores[h], attention.out[h], h)
    <3>1. \A i \in 0..call.heads * call.headDim - 1 : inBuf[i] = <<number, 0, i>>
      BY <1>4, <1>6
    <3>. QED
      BY <1>2, <1>3, <1>8, <3>1, HeadsAreExact
  <2>. HIDE DEF attention
  <2>. QED
    BY <1>7, <2>1 DEF HeadIsExact, GroupIsExact
<1>9. call'.heads % call'.kvHeads = 0 => \A h \in 0..call'.heads - 1 :
        HeadIsExact(call', number', result'.scores[h], result'.out[h], h)
  BY <1>1, <1>8
<1>. QED
  BY <1>9 DEF AttentionIsExact, HeadIsExact, GroupIsExact

\* Java, from the caller's array.
LEMMA AttentionFallbackSums ==
  ASSUME SumsInv, Fallback
  PROVE  AttentionIsExact'
<1>1. pc = "fallback" /\ UNCHANGED <<number, call>> /\ call \in Shapes
  BY DEF Fallback, SumsInv, KernelInv, PlacesInv
<1>2. CASE ~(call.op = "attention" /\ call.heads % call.kvHeads = 0)
  BY <1>1, <1>2 DEF AttentionIsExact
<1>3. CASE call.op = "attention" /\ call.heads % call.kvHeads = 0
  <2>. DEFINE floats == [i \in 0..TotalIn(call) - 1 |-> <<number, 0, i>>]
              attention == Attention(call, 0..call.heads - 1, "java", floats)
  <2>1. call \in Heads /\ ~IsMatrix(call)
    BY <1>1, <1>3, HeadsOfCall
  <2>2. result' = attention
    BY <2>1 DEF Fallback
  <2>3. TotalIn(call) = call.heads * call.headDim
    <3>1. call.heads * call.headDim \in Nat
      BY <1>1, <2>1, HeadsShape, ProductsOfNumbers
    <3>. QED
      BY <2>1, <3>1 DEF TotalIn, Batch, InWidth
  <2>4. \A i \in 0..call.heads * call.headDim - 1 : floats[i] = <<number, 0, i>>
    BY <2>3
  <2>. HIDE DEF floats
  <2>5. \A h \in 0..call.heads - 1 :
          HeadIsExact(call, number, attention.scores[h], attention.out[h], h)
    BY <1>3, <2>1, <2>4, HeadsAreExact
  <2>. HIDE DEF attention
  <2>6. \A h \in 0..call'.heads - 1 :
          HeadIsExact(call', number', result'.scores[h], result'.out[h], h)
    BY <1>1, <2>2, <2>5
  <2>. QED
    BY <2>6 DEF AttentionIsExact, HeadIsExact, GroupIsExact
<1>. QED
  BY <1>2, <1>3

LEMMA NextAttentionInv == AttentionInv /\ [Next]_vars => AttentionInv'
<1>. SUFFICES ASSUME AttentionInv, [Next]_vars
              PROVE  AttentionInv'
  OBVIOUS
<1>1. SumsInv /\ SumsInv'
  BY NextSumsInv DEF AttentionInv
<1>2. CASE RunAttentionKernel
  BY <1>1, <1>2, AttentionKernelSums DEF AttentionInv
<1>3. CASE Fallback
  BY <1>1, <1>3, AttentionFallbackSums DEF AttentionInv
<1>4. CASE RunMatrixKernel
  BY <1>1, <1>4 DEF RunMatrixKernel, IsMatrix, AttentionInv, AttentionIsExact
<1>5. CASE UNCHANGED vars
  <2>1. UNCHANGED <<pc, call, number, result>>
    BY <1>5 DEF vars
  <2>2. AttentionIsExact'
    <3>1. pc = "returned" /\ call.op = "attention" /\ call.heads % call.kvHeads = 0 =>
            \A h \in 0..call.heads - 1 : HeadIsExact(call, number, result.scores[h], result.out[h], h)
      BY ExactHeads DEF AttentionInv
    <3>2. pc' = "returned" /\ call'.op = "attention" /\ call'.heads % call'.kvHeads = 0 =>
            \A h \in 0..call'.heads - 1 : HeadIsExact(call', number', result'.scores[h], result'.out[h], h)
      BY ONLY <2>1, <3>1
    <3>. QED
      BY ONLY <3>2 DEF AttentionIsExact, HeadIsExact, GroupIsExact
  <2>. QED
    BY <1>1, <2>2 DEF AttentionInv
<1>6. CASE GpuStep \/ Prepare \/ SegmentThrows \/ RefuseHeap \/ Close \/ \E c \in UNION ToSet(Calls) : Begin(c)
  <2>1. pc' # "returned"
    BY <1>6 DEF GpuStep, Ensure, EnsureKeeps, EnsureAllocates, EnsureFails, Upload, GpuDispatch,
                GpuThrows, Prepare, SegmentThrows, RefuseHeap, Close, Begin, Route
  <2>. QED
    BY <1>1, <2>1 DEF AttentionInv, AttentionIsExact
<1>7. CASE AttentionThrows
  BY <1>1, <1>7 DEF AttentionThrows, AttentionInv, AttentionIsExact, NoCall
<1>. QED
  BY <1>2, <1>3, <1>4, <1>5, <1>6, <1>7 DEF Next

\* Attention, native or Java, for every number of heads in groups of one size, every
\* head dimension and position: each score is the whole dot product with the key of the head's group, each output
\* component the whole weighted sum of the values (fastai_attention_forward and the
\* attention loops of StreamingTransformerEngine).
THEOREM AttentionIsWhole == Spec => []AttentionIsExact
<1>1. Init => AttentionInv
  <2>1. Init => AttentionIsExact
    BY DEF Init, AttentionIsExact, NoCall
  <2>. QED
    BY <2>1, InitSumsInv DEF AttentionInv
<1>2. AttentionInv => AttentionIsExact
  BY DEF AttentionInv
<1>. QED
  BY <1>1, <1>2, NextAttentionInv, PTL DEF Spec

-----------------------------------------------------------------------------
(* Decoding: sets of bits that are counted, values in one and two fields.   *)

\* A set whose members are counted.
LEMMA Counted ==
  ASSUME NEW S, NEW n \in Nat, NEW g \in [1..n -> S],
         \A i, j \in 1..n : g[i] = g[j] => i = j,
         \A x \in S : \E i \in 1..n : g[i] = x
  PROVE  Cardinality(S) = n
<1>1. g \in Bijection(1..n, S)
  BY DEF Bijection, Injection, Surjection, IsInjective
<1>2. ExistsBijection(1..n, S)
  BY <1>1 DEF ExistsBijection
<1>. QED
  BY <1>2, FS_CountingElements

LEMMA SameCount ==
  ASSUME NEW S, NEW T, IsFiniteSet(T), NEW g \in [S -> T],
         \A x, y \in S : g[x] = g[y] => x = y,
         \A z \in T : \E x \in S : g[x] = z
  PROVE  Cardinality(S) = Cardinality(T)
<1>1. g \in Bijection(S, T)
  BY DEF Bijection, Injection, Surjection, IsInjective
<1>2. ExistsBijection(S, T)
  BY <1>1 DEF ExistsBijection
<1>3. ExistsBijection(T, S)
  BY <1>2, Fun_ExistsBijSymmetric
<1>. QED
  BY <1>3, FS_Bijection

\* v is made of n bits, each of which is stored somewhere; they are its bits 0 to n - 1.
Complete(v) == IsWhole(v, Cardinality(StoredBits(v)))

BitOf(f, i) == <<f[1], f[2] + i>>

LEMMA StoredInFields ==
  ASSUME NEW v, NEW p
  PROVE  p \in StoredBits(v) <=> \E f \in v : \E i \in 0..f[3] - 1 : p = BitOf(f, i)
BY DEF StoredBits, BitOf

One(a, x, n) == {<<a, x, n, 0>>}
Two(a, x, n, b, z, m) == {<<a, x, n, 0>>, <<b, z, m, n>>}

\* n bits of byte a, from bit x on.
BitsFrom(a, x, n) == {<<a, x + i>> : i \in 0..n - 1}

\* A value in one field.
LEMMA OneField ==
  ASSUME NEW a \in Nat, NEW x \in Nat, NEW n \in Nat
  PROVE  Complete(One(a, x, n)) /\ StoredBits(One(a, x, n)) = BitsFrom(a, x, n)
<1>. DEFINE v == {<<a, x, n, 0>>}
<1>1. \A p : p \in StoredBits(v) <=> \E i \in 0..n - 1 : p = <<a, x + i>>
  <2>1. PICK f : f = <<a, x, n, 0>>
    OBVIOUS
  <2>2. \A i : BitOf(f, i) = <<a, x + i>>
    BY <2>1 DEF BitOf
  <2>3. f[3] = n /\ v = {f}
    BY <2>1
  <2>4. ASSUME NEW p
        PROVE  p \in StoredBits(v) <=> \E i \in 0..n - 1 : p = <<a, x + i>>
    <3>1. p \in StoredBits({f}) <=> \E h \in {f} : \E i \in 0..h[3] - 1 : p = BitOf(h, i)
      BY ONLY StoredInFields
    <3>2. p \in StoredBits({f}) <=> \E i \in 0..f[3] - 1 : p = BitOf(f, i)
      BY ONLY <3>1
    <3>. QED
      BY <2>2, <2>3, <3>2
  <2>. QED
    BY <2>4
<1>2. PICK S : S = StoredBits(v)
  OBVIOUS
<1>3. PICK g : g = [i \in 1..n |-> <<a, x + i - 1>>]
  OBVIOUS
<1>4. \A i \in 1..n : g[i] \in S
  <2>1. ASSUME NEW i \in 1..n
        PROVE  <<a, x + i - 1>> \in S
    <3>1. i - 1 \in 0..n - 1 /\ x + (i - 1) = x + i - 1
      OBVIOUS
    <3>. QED
      BY <1>1, <1>2, <3>1
  <2>. QED
    BY <1>3, <2>1
<1>5. \A p \in S : \E i \in 1..n : g[i] = p
  <2>1. SUFFICES ASSUME NEW p \in S
                 PROVE  \E i \in 1..n : g[i] = p
    OBVIOUS
  <2>2. PICK i \in 0..n - 1 : p = <<a, x + i>>
    BY <1>1, <1>2
  <2>3. i + 1 \in 1..n /\ x + (i + 1) - 1 = x + i
    OBVIOUS
  <2>. QED
    BY <1>3, <2>2, <2>3
<1>6. \A i, j \in 1..n : g[i] = g[j] => i = j
  BY <1>3
<1>7. Cardinality(S) = n
  <2>1. g \in [1..n -> S]
    BY <1>3, <1>4
  <2>. QED
    BY ONLY <1>5, <1>6, <2>1, Counted, n \in Nat
<1>8. UNION {f[4]..f[4] + f[3] - 1 : f \in v} = 0..n - 1
  OBVIOUS
<1>9. IsWhole(v, n)
  BY <1>2, <1>7, <1>8 DEF IsWhole
<1>10. v = One(a, x, n)
  BY DEF One
<1>11. Complete(v)
  BY <1>2, <1>7, <1>9 DEF Complete
<1>12. StoredBits(v) = BitsFrom(a, x, n)
  <2>. HIDE DEF v
  <2>. QED
    BY <1>1 DEF BitsFrom
<1>. QED
  BY ONLY <1>10, <1>11, <1>12

\* A value in two fields, of different bytes or different bits.
LEMMA TwoFields ==
  ASSUME NEW a \in Nat, NEW x \in Nat, NEW n \in Nat,
         NEW b \in Nat, NEW z \in Nat, NEW m \in Nat, a # b
  PROVE  /\ Complete(Two(a, x, n, b, z, m))
         /\ StoredBits(Two(a, x, n, b, z, m)) = BitsFrom(a, x, n) \cup BitsFrom(b, z, m)
<1>. DEFINE v == {<<a, x, n, 0>>, <<b, z, m, n>>}
<1>1. \A p : p \in StoredBits(v) <=> \/ \E i \in 0..n - 1 : p = <<a, x + i>>
                                     \/ \E i \in 0..m - 1 : p = <<b, z + i>>
  <2>1. PICK f, h : f = <<a, x, n, 0>> /\ h = <<b, z, m, n>>
    OBVIOUS
  <2>2. \A i : BitOf(f, i) = <<a, x + i>> /\ BitOf(h, i) = <<b, z + i>>
    BY <2>1 DEF BitOf
  <2>3. f[3] = n /\ h[3] = m /\ v = {f, h}
    BY <2>1
  <2>4. ASSUME NEW p
        PROVE  p \in StoredBits(v) <=> \/ \E i \in 0..n - 1 : p = <<a, x + i>>
                                      \/ \E i \in 0..m - 1 : p = <<b, z + i>>
    <3>1. p \in StoredBits({f, h}) <=> \E e \in {f, h} : \E i \in 0..e[3] - 1 : p = BitOf(e, i)
      BY ONLY StoredInFields
    <3>2. p \in StoredBits({f, h}) <=> \/ \E i \in 0..f[3] - 1 : p = BitOf(f, i)
                                      \/ \E i \in 0..h[3] - 1 : p = BitOf(h, i)
      BY ONLY <3>1
    <3>. QED
      BY <2>2, <2>3, <3>2
  <2>. QED
    BY <2>4
<1>2. PICK S : S = StoredBits(v)
  OBVIOUS
<1>3. PICK g : g = [i \in 1..n + m |-> IF i =< n THEN <<a, x + i - 1>> ELSE <<b, z + i - n - 1>>]
  OBVIOUS
<1>4. \A i \in 1..n + m : g[i] \in S
  <2>1. ASSUME NEW i \in 1..n + m
        PROVE  g[i] \in S
    <3>1. CASE i =< n
      <4>1. i - 1 \in 0..n - 1 /\ x + (i - 1) = x + i - 1
        BY <3>1
      <4>2. g[i] = <<a, x + (i - 1)>>
        BY <1>3, <3>1, <4>1
      <4>. QED
        BY <1>1, <1>2, <4>1, <4>2
    <3>2. CASE ~(i =< n)
      <4>1. i - n - 1 \in 0..m - 1 /\ z + (i - n - 1) = z + i - n - 1
        BY <3>2
      <4>2. g[i] = <<b, z + (i - n - 1)>>
        BY <1>3, <3>2, <4>1
      <4>. QED
        BY <1>1, <1>2, <4>1, <4>2
    <3>. QED
      BY <3>1, <3>2
  <2>. QED
    BY <2>1
<1>5. \A p \in S : \E i \in 1..n + m : g[i] = p
  <2>1. SUFFICES ASSUME NEW p \in S
                 PROVE  \E i \in 1..n + m : g[i] = p
    OBVIOUS
  <2>2. CASE \E i \in 0..n - 1 : p = <<a, x + i>>
    <3>1. PICK i \in 0..n - 1 : p = <<a, x + i>>
      BY <2>2
    <3>2. i + 1 \in 1..n + m /\ x + (i + 1) - 1 = x + i /\ i + 1 =< n
      OBVIOUS
    <3>3. g[i + 1] = p
      BY <1>3, <3>1, <3>2
    <3>. QED
      BY <3>2, <3>3
  <2>3. CASE \E i \in 0..m - 1 : p = <<b, z + i>>
    <3>1. PICK i \in 0..m - 1 : p = <<b, z + i>>
      BY <2>3
    <3>2. n + i + 1 \in 1..n + m /\ z + (n + i + 1) - n - 1 = z + i /\ ~(n + i + 1 =< n)
      OBVIOUS
    <3>3. g[n + i + 1] = p
      BY <1>3, <3>1, <3>2
    <3>. QED
      BY <3>2, <3>3
  <2>. QED
    BY <1>1, <1>2, <2>2, <2>3
<1>6. \A i, j \in 1..n + m : g[i] = g[j] => i = j
  BY <1>3
<1>7. Cardinality(S) = n + m
  <2>1. g \in [1..n + m -> S]
    BY <1>3, <1>4
  <2>2. PICK k \in Nat : k = n + m
    OBVIOUS
  <2>3. Cardinality(S) = k
    BY ONLY <1>5, <1>6, <2>1, <2>2, Counted
  <2>. QED
    BY <2>2, <2>3
<1>8. UNION {f[4]..f[4] + f[3] - 1 : f \in v} = 0..n + m - 1
  <2>1. UNION {f[4]..f[4] + f[3] - 1 : f \in v} = (0..0 + n - 1) \cup (n..n + m - 1)
    OBVIOUS
  <2>2. (0..0 + n - 1) \cup (n..n + m - 1) = 0..n + m - 1
    OBVIOUS
  <2>. QED
    BY <2>1, <2>2
<1>9. IsWhole(v, n + m)
  BY <1>2, <1>7, <1>8 DEF IsWhole
<1>10. v = Two(a, x, n, b, z, m)
  BY DEF Two
<1>11. Complete(v)
  BY <1>2, <1>7, <1>9 DEF Complete
<1>12. StoredBits(v) = BitsFrom(a, x, n) \cup BitsFrom(b, z, m)
  <2>. HIDE DEF v
  <2>. QED
    BY <1>1 DEF BitsFrom
<1>. QED
  BY ONLY <1>10, <1>11, <1>12

-----------------------------------------------------------------------------
(* Which value each bit of a block belongs to.                              *)

\* The values of column k of a block.
ValuesAt(format, blk, k) ==
  LET w == Decoded(format, blk, k) IN {w.quant} \cup w.scale \cup w.less

\* The scale or minimum that bit t of byte m of the packed ones belongs to.
PackedOwner(s, m, t) ==
  CASE m < 4 -> ScaleBits(s, IF t < 6 THEN m ELSE m + 4)
    [] m \in 4..7 -> MinBits(s, IF t < 6 THEN m - 4 ELSE m)
    [] m \in 8..11 -> IF t < 4 THEN ScaleBits(s, m - 4) ELSE MinBits(s, m - 4)

\* The column of Q6_K whose quant has bit t of byte i of a block among its bits.
LowColumn(i, t) ==
  128 * (i \div 64) + 32 * ((i % 64) \div 32 + (IF t < 4 THEN 0 ELSE 2)) + (i % 32)

HighColumn(i, t) == 128 * ((i - 128) \div 32) + 32 * (t \div 2) + (i % 32)

Nibble(a, t) == IF t < 4 THEN Low(a) ELSE High(a)

\* The value that bit t of byte i of a block belongs to.
Owner(format, blk, i, t) ==
  CASE format = "F16" -> Half(blk)
    [] format = "Q4_0" -> IF i < 2 THEN Half(blk) ELSE Nibble(blk + i, t)
    [] format = "Q8_0" -> IF i < 2 THEN Half(blk) ELSE Byte(blk + i)
    [] format = "Q4_K" -> IF i < 2 THEN Half(blk)
                          ELSE IF i < 4 THEN Half(blk + 2)
                          ELSE IF i < 16 THEN PackedOwner(blk + 4, i - 4, t)
                          ELSE Nibble(blk + i, t)
    [] format = "Q6_K" -> IF i < 128 THEN DecodedQ6_K(blk, LowColumn(i, t)).quant
                          ELSE IF i < 192 THEN DecodedQ6_K(blk, HighColumn(i, t)).quant
                          ELSE IF i < 208 THEN Byte(blk + i)
                          ELSE Half(blk + 208)

\* All bits of v are bits of the block that belong to v.
Owned(format, blk, v) ==
  \A p \in StoredBits(v) :
    \E i \in 0..BlockBytes[format] - 1, t \in 0..7 :
      p = <<blk + i, t>> /\ v = Owner(format, blk, i, t)

\* v is a value of the block and has bit t of byte i.
HasBit(format, blk, v, i, t) ==
  /\ <<blk + i, t>> \in StoredBits(v)
  /\ \E k \in 0..BlockColumns[format] - 1 : v \in ValuesAt(format, blk, k)

\* The values of a block are complete, and every bit of the block belongs to one.
UsedUp(format, blk) ==
  /\ \A k \in 0..BlockColumns[format] - 1 : \A v \in ValuesAt(format, blk, k) :
       Complete(v) /\ Owned(format, blk, v)
  /\ \A i \in 0..BlockBytes[format] - 1, t \in 0..7 :
       HasBit(format, blk, Owner(format, blk, i, t), i, t)
  /\ \A k, j \in 0..BlockColumns[format] - 1 :
       Decoded(format, blk, k).quant = Decoded(format, blk, j).quant => k = j
  /\ \A k \in 0..BlockColumns[format] - 1 : StoredBits(Decoded(format, blk, k).quant) # {}

-----------------------------------------------------------------------------
(* The fields.                                                              *)

LEMMA BitsOfByte ==
  ASSUME NEW a \in Nat
  PROVE  /\ \A p : p \in BitsFrom(a, 0, 4) <=> \E t \in 0..3 : p = <<a, t>>
         /\ \A p : p \in BitsFrom(a, 4, 4) <=> \E t \in 4..7 : p = <<a, t>>
         /\ \A p : p \in BitsFrom(a, 0, 6) <=> \E t \in 0..5 : p = <<a, t>>
         /\ \A p : p \in BitsFrom(a, 6, 2) <=> \E t \in 6..7 : p = <<a, t>>
         /\ \A p : p \in BitsFrom(a, 0, 8) <=> \E t \in 0..7 : p = <<a, t>>
<1>1. ASSUME NEW x \in 0..7, NEW n \in 0..8, NEW p
      PROVE  p \in BitsFrom(a, x, n) <=> \E t \in x..x + n - 1 : p = <<a, t>>
  <2>1. ASSUME NEW t \in x..x + n - 1
        PROVE  t - x \in 0..n - 1 /\ x + (t - x) = t
    OBVIOUS
  <2>2. ASSUME NEW i \in 0..n - 1
        PROVE  x + i \in x..x + n - 1
    OBVIOUS
  <2>. QED
    BY <2>1, <2>2 DEF BitsFrom
<1>. QED
  BY <1>1

LEMMA LowField ==
  ASSUME NEW a \in Nat
  PROVE  Complete(Low(a)) /\ \A p : p \in StoredBits(Low(a)) <=> \E t \in 0..3 : p = <<a, t>>
<1>1. Complete(One(a, 0, 4)) /\ StoredBits(One(a, 0, 4)) = BitsFrom(a, 0, 4)
  BY OneField
<1>2. One(a, 0, 4) = Low(a)
  BY DEF One, Low
<1>3. \A p : p \in BitsFrom(a, 0, 4) <=> \E t \in 0..3 : p = <<a, t>>
  BY BitsOfByte
<1>. QED
  BY ONLY <1>1, <1>2, <1>3

LEMMA HighField ==
  ASSUME NEW a \in Nat
  PROVE  Complete(High(a)) /\ \A p : p \in StoredBits(High(a)) <=> \E t \in 4..7 : p = <<a, t>>
<1>1. Complete(One(a, 4, 4)) /\ StoredBits(One(a, 4, 4)) = BitsFrom(a, 4, 4)
  BY OneField
<1>2. One(a, 4, 4) = High(a)
  BY DEF One, High
<1>3. \A p : p \in BitsFrom(a, 4, 4) <=> \E t \in 4..7 : p = <<a, t>>
  BY BitsOfByte
<1>. QED
  BY ONLY <1>1, <1>2, <1>3

LEMMA ByteField ==
  ASSUME NEW a \in Nat
  PROVE  Complete(Byte(a)) /\ \A p : p \in StoredBits(Byte(a)) <=> \E t \in 0..7 : p = <<a, t>>
<1>1. Complete(One(a, 0, 8)) /\ StoredBits(One(a, 0, 8)) = BitsFrom(a, 0, 8)
  BY OneField
<1>2. One(a, 0, 8) = Byte(a)
  BY DEF One, Byte
<1>3. \A p : p \in BitsFrom(a, 0, 8) <=> \E t \in 0..7 : p = <<a, t>>
  BY BitsOfByte
<1>. QED
  BY ONLY <1>1, <1>2, <1>3

LEMMA HalfField ==
  ASSUME NEW a \in Nat
  PROVE  /\ Complete(Half(a))
         /\ \A p : p \in StoredBits(Half(a)) <=> \E t \in 0..7 : p = <<a, t>> \/ p = <<a + 1, t>>
<1>1. a + 1 \in Nat /\ a # a + 1
  OBVIOUS
<1>2. /\ Complete(Two(a, 0, 8, a + 1, 0, 8))
      /\ StoredBits(Two(a, 0, 8, a + 1, 0, 8)) = BitsFrom(a, 0, 8) \cup BitsFrom(a + 1, 0, 8)
  BY <1>1, TwoFields
<1>3. Two(a, 0, 8, a + 1, 0, 8) = Half(a)
  BY DEF Two, Half
<1>4. \A p : p \in BitsFrom(a, 0, 8) <=> \E t \in 0..7 : p = <<a, t>>
  BY BitsOfByte
<1>5. \A p : p \in BitsFrom(a + 1, 0, 8) <=> \E t \in 0..7 : p = <<a + 1, t>>
  BY <1>1, BitsOfByte
<1>. QED
  BY ONLY <1>2, <1>3, <1>4, <1>5

LEMMA NibbleField ==
  ASSUME NEW a \in Nat, NEW t \in 0..7
  PROVE  <<a, t>> \in StoredBits(Nibble(a, t))
BY LowField, HighField DEF Nibble

-----------------------------------------------------------------------------
(* Blocks of F16, Q4_0 and Q8_0.                                            *)

LEMMA UsedUpF16 ==
  ASSUME NEW blk \in Nat
  PROVE  UsedUp("F16", blk)
<1>1. BlockColumns["F16"] = 1 /\ BlockBytes["F16"] = 2
  BY BlockShapes
<1>2. Decoded("F16", blk, 0) = Weight({}, Half(blk), 0, {})
  BY <1>1 DEF Decoded
<1>3. Decoded("F16", blk, 0).quant = Half(blk) /\ ValuesAt("F16", blk, 0) = {Half(blk)}
  BY <1>2 DEF ValuesAt, Weight
<1>4. \A i, t : Owner("F16", blk, i, t) = Half(blk)
  BY DEF Owner
<1>5. Owned("F16", blk, Half(blk))
  BY <1>1, <1>4, HalfField DEF Owned
<1>6. ASSUME NEW i \in 0..1, NEW t \in 0..7
      PROVE  <<blk + i, t>> \in StoredBits(Half(blk))
  BY HalfField
<1>7. ASSUME NEW i \in 0..1, NEW t \in 0..7
      PROVE  HasBit("F16", blk, Half(blk), i, t)
  BY <1>1, <1>3, <1>6 DEF HasBit
<1>8. <<blk + 0, 0>> \in StoredBits(Half(blk))
  BY <1>6
<1>9. \A k : k \in 0..BlockColumns["F16"] - 1 <=> k = 0
  BY <1>1
<1>10. Complete(Half(blk))
  BY HalfField
<1>11. \A i \in 0..BlockBytes["F16"] - 1, t \in 0..7 :
         HasBit("F16", blk, Owner("F16", blk, i, t), i, t)
  BY <1>1, <1>4, <1>7
<1>. QED
  BY <1>3, <1>5, <1>8, <1>9, <1>10, <1>11 DEF UsedUp


\* Quants of four bits, two to a byte.
LEMMA NibblesDiffer ==
  ASSUME NEW a \in Nat, NEW b \in Nat
  PROVE  /\ Low(a) = Low(b) => a = b
         /\ High(a) = High(b) => a = b
         /\ Low(a) # High(b)
         /\ Byte(a) = Byte(b) => a = b
<1>1. <<a, 0>> \in StoredBits(Low(a)) /\ <<a, 4>> \in StoredBits(High(a))
      /\ <<a, 0>> \in StoredBits(Byte(a))
  BY LowField, HighField, ByteField
<1>2. <<a, 0>> \in StoredBits(Low(b)) => a = b
  BY LowField
<1>3. <<a, 4>> \in StoredBits(High(b)) => a = b
  BY HighField
<1>4. <<a, 0>> \in StoredBits(Byte(b)) => a = b
  BY ByteField
<1>5. <<a, 0>> \notin StoredBits(High(b))
  BY HighField
<1>. QED
  BY <1>1, <1>2, <1>3, <1>4, <1>5

LEMMA UsedUpQ4_0 ==
  ASSUME NEW blk \in Nat
  PROVE  UsedUp("Q4_0", blk)
<1>1. BlockColumns["Q4_0"] = 32 /\ BlockBytes["Q4_0"] = 18 /\ "Q4_0" \in Formats
  BY BlockShapes DEF Formats
<1>2. ASSUME NEW k \in 0..31
      PROVE  Decoded("Q4_0", blk, k) = DecodedQ4_0(blk, k)
  <2>1. k % 32 = k /\ k \div 32 = 0
    OBVIOUS
  <2>. QED
    BY <1>1, <2>1 DEF Decoded
<1>3. ASSUME NEW k \in 0..31
      PROVE  /\ Decoded("Q4_0", blk, k).quant = IF k < 16 THEN Low(blk + 2 + k) ELSE High(blk + 2 + k - 16)
             /\ ValuesAt("Q4_0", blk, k) = {Decoded("Q4_0", blk, k).quant, Half(blk)}
  BY <1>2 DEF ValuesAt, DecodedQ4_0, Q4_0Weight, Weight
<1>4. \A i \in 0..17, t \in 0..7 :
        Owner("Q4_0", blk, i, t) = IF i < 2 THEN Half(blk) ELSE Nibble(blk + i, t)
  BY DEF Owner
<1>5. Owned("Q4_0", blk, Half(blk))
  <2>1. ASSUME NEW p \in StoredBits(Half(blk))
        PROVE  \E i \in 0..17, t \in 0..7 : p = <<blk + i, t>> /\ Half(blk) = Owner("Q4_0", blk, i, t)
    <3>1. PICK t \in 0..7 : p = <<blk, t>> \/ p = <<blk + 1, t>>
      BY HalfField
    <3>2. Owner("Q4_0", blk, 0, t) = Half(blk) /\ Owner("Q4_0", blk, 1, t) = Half(blk)
      BY <1>4
    <3>3. p = <<blk + 0, t>> \/ p = <<blk + 1, t>>
      BY <3>1
    <3>. QED
      BY <3>2, <3>3
  <2>. QED
    BY <1>1, <2>1 DEF Owned
<1>6. ASSUME NEW i \in 2..17
      PROVE  Owned("Q4_0", blk, Low(blk + i)) /\ Owned("Q4_0", blk, High(blk + i))
  <2>1. \A t \in 0..3 : Owner("Q4_0", blk, i, t) = Low(blk + i)
    BY <1>4 DEF Nibble
  <2>2. \A t \in 4..7 : Owner("Q4_0", blk, i, t) = High(blk + i)
    BY <1>4 DEF Nibble
  <2>3. \A p \in StoredBits(Low(blk + i)) : \E t \in 0..3 : p = <<blk + i, t>>
    BY LowField
  <2>4. \A p \in StoredBits(High(blk + i)) : \E t \in 4..7 : p = <<blk + i, t>>
    BY HighField
  <2>. QED
    BY <1>1, <2>1, <2>2, <2>3, <2>4 DEF Owned
<1>7. \A k \in 0..31 : \A v \in ValuesAt("Q4_0", blk, k) : Complete(v) /\ Owned("Q4_0", blk, v)
  <2>1. ASSUME NEW k \in 0..31
        PROVE  Complete(Decoded("Q4_0", blk, k).quant) /\ Owned("Q4_0", blk, Decoded("Q4_0", blk, k).quant)
    <3>1. CASE k < 16
      <4>1. PICK i \in 2..17 : i = k + 2 /\ blk + 2 + k = blk + i
        BY <3>1
      <4>. QED
        BY <1>3, <1>6, <3>1, <4>1, LowField
    <3>2. CASE ~(k < 16)
      <4>1. PICK i \in 2..17 : i = k - 14 /\ blk + 2 + k - 16 = blk + i
        BY <3>2
      <4>. QED
        BY <1>3, <1>6, <3>2, <4>1, HighField
    <3>. QED
      BY <3>1, <3>2
  <2>. QED
    BY <1>3, <1>5, <2>1, HalfField
<1>8. ASSUME NEW i \in 0..17, NEW t \in 0..7
      PROVE  HasBit("Q4_0", blk, Owner("Q4_0", blk, i, t), i, t)
  <2>1. CASE i < 2
    <3>1. <<blk + i, t>> \in StoredBits(Half(blk))
      BY <2>1, HalfField
    <3>2. Half(blk) \in ValuesAt("Q4_0", blk, 0)
      BY <1>3
    <3>. QED
      BY <1>1, <1>4, <2>1, <3>1, <3>2 DEF HasBit
  <2>2. CASE ~(i < 2)
    <3>1. <<blk + i, t>> \in StoredBits(Nibble(blk + i, t))
      <4>1. blk + i \in Nat
        OBVIOUS
      <4>. QED
        BY <4>1, NibbleField
    <3>2. \E k \in 0..31 : Nibble(blk + i, t) \in ValuesAt("Q4_0", blk, k)
      <4>1. CASE t < 4
        <5>1. i - 2 \in 0..31 /\ i - 2 < 16 /\ blk + 2 + (i - 2) = blk + i
          BY <2>2
        <5>. QED
          BY <1>3, <4>1, <5>1 DEF Nibble
      <4>2. CASE ~(t < 4)
        <5>1. i + 14 \in 0..31 /\ ~(i + 14 < 16) /\ blk + 2 + (i + 14) - 16 = blk + i
          BY <2>2
        <5>. QED
          BY <1>3, <4>2, <5>1 DEF Nibble
      <4>. QED
        BY <4>1, <4>2
    <3>. QED
      BY <1>1, <1>4, <2>2, <3>1, <3>2 DEF HasBit
  <2>. QED
    BY <2>1, <2>2
<1>9. ASSUME NEW k \in 0..31, NEW j \in 0..31,
             Decoded("Q4_0", blk, k).quant = Decoded("Q4_0", blk, j).quant
      PROVE  k = j
  <2>1. PICK a, b : /\ a = (IF k < 16 THEN blk + 2 + k ELSE blk + 2 + k - 16)
                    /\ b = (IF j < 16 THEN blk + 2 + j ELSE blk + 2 + j - 16)
    OBVIOUS
  <2>2. a \in Nat /\ b \in Nat
    BY <2>1
  <2>3. (IF k < 16 THEN Low(a) ELSE High(a)) = (IF j < 16 THEN Low(b) ELSE High(b))
    <3>1. Decoded("Q4_0", blk, k).quant = IF k < 16 THEN Low(a) ELSE High(a)
      BY <1>3, <2>1
    <3>2. Decoded("Q4_0", blk, j).quant = IF j < 16 THEN Low(b) ELSE High(b)
      BY <1>3, <2>1
    <3>. QED
      BY ONLY <1>9, <3>1, <3>2
  <2>4. a = b /\ (k < 16 <=> j < 16)
    <3>1. /\ Low(a) = Low(b) => a = b
          /\ High(a) = High(b) => a = b
          /\ Low(a) # High(b) /\ Low(b) # High(a)
      BY <2>2, NibblesDiffer
    <3>. QED
      BY ONLY <2>3, <3>1
  <2>. QED
    BY ONLY <2>1, <2>4, blk \in Nat, k \in 0..31, j \in 0..31
<1>10. \A k \in 0..31 : StoredBits(Decoded("Q4_0", blk, k).quant) # {}
  <2>1. \A a \in Nat : <<a, 0>> \in StoredBits(Low(a)) /\ <<a, 4>> \in StoredBits(High(a))
    BY LowField, HighField
  <2>2. ASSUME NEW k \in 0..31
        PROVE  StoredBits(Decoded("Q4_0", blk, k).quant) # {}
    <3>1. CASE k < 16
      <4>1. blk + 2 + k \in Nat
        OBVIOUS
      <4>. QED
        BY <1>3, <2>1, <3>1, <4>1
    <3>2. CASE ~(k < 16)
      <4>1. blk + 2 + k - 16 \in Nat
        BY <3>2
      <4>. QED
        BY <1>3, <2>1, <3>2, <4>1
    <3>. QED
      BY <3>1, <3>2
  <2>. QED
    BY <2>2
<1>11. BlockColumns["Q4_0"] - 1 = 31 /\ BlockBytes["Q4_0"] - 1 = 17
  BY <1>1
<1>. QED
  BY ONLY <1>7, <1>8, <1>9, <1>10, <1>11 DEF UsedUp

LEMMA UsedUpQ8_0 ==
  ASSUME NEW blk \in Nat
  PROVE  UsedUp("Q8_0", blk)
<1>1. BlockColumns["Q8_0"] = 32 /\ BlockBytes["Q8_0"] = 34
  BY BlockShapes
<1>2. ASSUME NEW k \in 0..31
      PROVE  Decoded("Q8_0", blk, k) = Q8_0Weight(blk, k)
  <2>1. k % 32 = k /\ k \div 32 = 0
    OBVIOUS
  <2>. QED
    BY <1>1, <2>1 DEF Decoded
<1>3. ASSUME NEW k \in 0..31
      PROVE  /\ Decoded("Q8_0", blk, k).quant = Byte(blk + 2 + k)
             /\ ValuesAt("Q8_0", blk, k) = {Byte(blk + 2 + k), Half(blk)}
  BY <1>2 DEF ValuesAt, Q8_0Weight, Weight
<1>4. \A i \in 0..33, t \in 0..7 :
        Owner("Q8_0", blk, i, t) = IF i < 2 THEN Half(blk) ELSE Byte(blk + i)
  BY DEF Owner
<1>5. Owned("Q8_0", blk, Half(blk))
  <2>1. ASSUME NEW p \in StoredBits(Half(blk))
        PROVE  \E i \in 0..33, t \in 0..7 : p = <<blk + i, t>> /\ Half(blk) = Owner("Q8_0", blk, i, t)
    <3>1. PICK t \in 0..7 : p = <<blk, t>> \/ p = <<blk + 1, t>>
      BY HalfField
    <3>2. Owner("Q8_0", blk, 0, t) = Half(blk) /\ Owner("Q8_0", blk, 1, t) = Half(blk)
      BY <1>4
    <3>3. p = <<blk + 0, t>> \/ p = <<blk + 1, t>>
      BY <3>1
    <3>. QED
      BY <3>2, <3>3
  <2>. QED
    BY <1>1, <2>1 DEF Owned
<1>6. ASSUME NEW k \in 0..31
      PROVE  Owned("Q8_0", blk, Byte(blk + 2 + k))
  <2>1. PICK i \in 2..33 : i = k + 2 /\ blk + 2 + k = blk + i
    OBVIOUS
  <2>2. \A t \in 0..7 : Owner("Q8_0", blk, i, t) = Byte(blk + i)
    BY <1>4
  <2>3. \A p \in StoredBits(Byte(blk + i)) : \E t \in 0..7 : p = <<blk + i, t>>
    BY ByteField
  <2>. QED
    BY <1>1, <2>1, <2>2, <2>3 DEF Owned
<1>7. \A k \in 0..31 : \A v \in ValuesAt("Q8_0", blk, k) : Complete(v) /\ Owned("Q8_0", blk, v)
  <2>1. ASSUME NEW k \in 0..31
        PROVE  Complete(Byte(blk + 2 + k)) /\ Owned("Q8_0", blk, Byte(blk + 2 + k))
    <3>1. blk + 2 + k \in Nat
      OBVIOUS
    <3>. QED
      BY <1>6, <3>1, ByteField
  <2>2. Complete(Half(blk))
    BY HalfField
  <2>. QED
    BY ONLY <1>3, <1>5, <2>1, <2>2
<1>8. ASSUME NEW i \in 0..33, NEW t \in 0..7
      PROVE  HasBit("Q8_0", blk, Owner("Q8_0", blk, i, t), i, t)
  <2>1. CASE i < 2
    <3>1. <<blk + i, t>> \in StoredBits(Half(blk))
      BY <2>1, HalfField
    <3>2. Half(blk) \in ValuesAt("Q8_0", blk, 0)
      BY <1>3
    <3>. QED
      BY <1>1, <1>4, <2>1, <3>1, <3>2 DEF HasBit
  <2>2. CASE ~(i < 2)
    <3>1. <<blk + i, t>> \in StoredBits(Byte(blk + i))
      BY ByteField
    <3>2. i - 2 \in 0..31 /\ blk + 2 + (i - 2) = blk + i
      BY <2>2
    <3>3. Byte(blk + i) \in ValuesAt("Q8_0", blk, i - 2)
      BY <1>3, <3>2
    <3>. QED
      BY <1>1, <1>4, <2>2, <3>1, <3>2, <3>3 DEF HasBit
  <2>. QED
    BY <2>1, <2>2
<1>9. ASSUME NEW k \in 0..31, NEW j \in 0..31,
             Decoded("Q8_0", blk, k).quant = Decoded("Q8_0", blk, j).quant
      PROVE  k = j
  <2>1. PICK a, b : a = blk + 2 + k /\ b = blk + 2 + j /\ a \in Nat /\ b \in Nat
    OBVIOUS
  <2>2. Byte(a) = Byte(b)
    BY <1>3, <1>9, <2>1
  <2>3. a = b
    BY <2>1, <2>2, NibblesDiffer
  <2>. QED
    BY <2>1, <2>3
<1>10. \A k \in 0..31 : StoredBits(Decoded("Q8_0", blk, k).quant) # {}
  <2>1. \A a \in Nat : <<a, 0>> \in StoredBits(Byte(a))
    BY ByteField
  <2>2. ASSUME NEW k \in 0..31
        PROVE  StoredBits(Decoded("Q8_0", blk, k).quant) # {}
    <3>1. blk + 2 + k \in Nat
      OBVIOUS
    <3>. QED
      BY <1>3, <2>1, <3>1
  <2>. QED
    BY <2>2
<1>11. BlockColumns["Q8_0"] - 1 = 31 /\ BlockBytes["Q8_0"] - 1 = 33
  BY <1>1
<1>. QED
  BY ONLY <1>7, <1>8, <1>9, <1>10, <1>11 DEF UsedUp

-----------------------------------------------------------------------------
(* Blocks of Q4_K.                                                          *)

\* The packed scales and minima of a Q4_K block.
LEMMA ScaleField ==
  ASSUME NEW s \in Nat, NEW j \in 0..7
  PROVE  /\ Complete(ScaleBits(s, j))
         /\ j < 4 => \A p : p \in StoredBits(ScaleBits(s, j)) <=> \E t \in 0..5 : p = <<s + j, t>>
         /\ j >= 4 => \A p : p \in StoredBits(ScaleBits(s, j)) <=>
                               \/ \E t \in 0..3 : p = <<s + j + 4, t>>
                               \/ \E t \in 6..7 : p = <<s + j - 4, t>>
<1>1. CASE j < 4
  <2>1. PICK a \in Nat : a = s + j
    OBVIOUS
  <2>2. Complete(One(a, 0, 6)) /\ StoredBits(One(a, 0, 6)) = BitsFrom(a, 0, 6)
    BY OneField
  <2>3. One(a, 0, 6) = ScaleBits(s, j)
    BY <1>1, <2>1 DEF One, ScaleBits
  <2>4. \A p : p \in BitsFrom(a, 0, 6) <=> \E t \in 0..5 : p = <<a, t>>
    BY BitsOfByte
  <2>5. ~(j >= 4)
    BY <1>1
  <2>. QED
    BY ONLY <2>1, <2>2, <2>3, <2>4, <2>5
<1>2. CASE ~(j < 4)
  <2>1. PICK a, b : a = s + j + 4 /\ b = s + j - 4 /\ a \in Nat /\ b \in Nat /\ a # b
    BY <1>2
  <2>2. /\ Complete(Two(a, 0, 4, b, 6, 2))
        /\ StoredBits(Two(a, 0, 4, b, 6, 2)) = BitsFrom(a, 0, 4) \cup BitsFrom(b, 6, 2)
    BY <2>1, TwoFields, SMTT(30)
  <2>3. Two(a, 0, 4, b, 6, 2) = ScaleBits(s, j)
    BY <1>2, <2>1 DEF Two, ScaleBits
  <2>4. \A p : p \in BitsFrom(a, 0, 4) <=> \E t \in 0..3 : p = <<a, t>>
    BY <2>1, BitsOfByte
  <2>5. \A p : p \in BitsFrom(b, 6, 2) <=> \E t \in 6..7 : p = <<b, t>>
    BY <2>1, BitsOfByte
  <2>. QED
    BY ONLY <1>2, <2>1, <2>2, <2>3, <2>4, <2>5
<1>. QED
  BY <1>1, <1>2

LEMMA MinField ==
  ASSUME NEW s \in Nat, NEW j \in 0..7
  PROVE  /\ Complete(MinBits(s, j))
         /\ j < 4 => \A p : p \in StoredBits(MinBits(s, j)) <=> \E t \in 0..5 : p = <<s + j + 4, t>>
         /\ j >= 4 => \A p : p \in StoredBits(MinBits(s, j)) <=>
                               \/ \E t \in 4..7 : p = <<s + j + 4, t>>
                               \/ \E t \in 6..7 : p = <<s + j, t>>
<1>1. CASE j < 4
  <2>1. PICK a \in Nat : a = s + j + 4
    OBVIOUS
  <2>2. Complete(One(a, 0, 6)) /\ StoredBits(One(a, 0, 6)) = BitsFrom(a, 0, 6)
    BY OneField
  <2>3. One(a, 0, 6) = MinBits(s, j)
    BY <1>1, <2>1 DEF One, MinBits
  <2>4. \A p : p \in BitsFrom(a, 0, 6) <=> \E t \in 0..5 : p = <<a, t>>
    BY BitsOfByte
  <2>5. ~(j >= 4)
    BY <1>1
  <2>. QED
    BY ONLY <2>1, <2>2, <2>3, <2>4, <2>5
<1>2. CASE ~(j < 4)
  <2>1. PICK a, b : a = s + j + 4 /\ b = s + j /\ a \in Nat /\ b \in Nat /\ a # b
    BY <1>2
  <2>2. /\ Complete(Two(a, 4, 4, b, 6, 2))
        /\ StoredBits(Two(a, 4, 4, b, 6, 2)) = BitsFrom(a, 4, 4) \cup BitsFrom(b, 6, 2)
    BY <2>1, TwoFields
  <2>3. Two(a, 4, 4, b, 6, 2) = MinBits(s, j)
    BY <1>2, <2>1 DEF Two, MinBits
  <2>4. \A p : p \in BitsFrom(a, 4, 4) <=> \E t \in 4..7 : p = <<a, t>>
    BY <2>1, BitsOfByte
  <2>5. \A p : p \in BitsFrom(b, 6, 2) <=> \E t \in 6..7 : p = <<b, t>>
    BY <2>1, BitsOfByte
  <2>. QED
    BY ONLY <1>2, <2>1, <2>2, <2>3, <2>4, <2>5
<1>. QED
  BY <1>1, <1>2

\* v has bits of the packed bytes only, all of which belong to it.
PackedOwned(s, v) ==
  \A p \in StoredBits(v) : \E m \in 0..11, t \in 0..7 : p = <<s + m, t>> /\ v = PackedOwner(s, m, t)

LEMMA PackedOnce ==
  ASSUME NEW s \in Nat, NEW j \in 0..7
  PROVE  PackedOwned(s, ScaleBits(s, j)) /\ PackedOwned(s, MinBits(s, j))
<1>1. ASSUME NEW p \in StoredBits(ScaleBits(s, j))
      PROVE  \E m \in 0..11, t \in 0..7 : p = <<s + m, t>> /\ ScaleBits(s, j) = PackedOwner(s, m, t)
  <2>1. CASE j < 4
    <3>1. PICK t \in 0..5 : p = <<s + j, t>>
      BY <1>1, <2>1, ScaleField
    <3>2. PackedOwner(s, j, t) = ScaleBits(s, j)
      BY <2>1 DEF PackedOwner
    <3>. QED
      BY <3>1, <3>2
  <2>2. CASE ~(j < 4)
    <3>1. CASE \E t \in 0..3 : p = <<s + j + 4, t>>
      <4>1. PICK t \in 0..3 : p = <<s + j + 4, t>>
        BY <3>1
      <4>2. PICK m \in 8..11 : m = j + 4 /\ s + j + 4 = s + m /\ m - 4 = j
        BY <2>2
      <4>3. PackedOwner(s, m, t) = ScaleBits(s, m - 4)
        BY DEF PackedOwner
      <4>. QED
        BY <4>1, <4>2, <4>3
    <3>2. CASE \E t \in 6..7 : p = <<s + j - 4, t>>
      <4>1. PICK t \in 6..7 : p = <<s + j - 4, t>>
        BY <3>2
      <4>2. PICK m \in 0..3 : m = j - 4 /\ s + j - 4 = s + m /\ m + 4 = j
        BY <2>2
      <4>3. PackedOwner(s, m, t) = ScaleBits(s, m + 4)
        BY DEF PackedOwner
      <4>. QED
        BY <4>1, <4>2, <4>3
    <3>3. j >= 4
      BY <2>2
    <3>. QED
      BY <1>1, <3>1, <3>2, <3>3, ScaleField
  <2>. QED
    BY <2>1, <2>2
<1>2. ASSUME NEW p \in StoredBits(MinBits(s, j))
      PROVE  \E m \in 0..11, t \in 0..7 : p = <<s + m, t>> /\ MinBits(s, j) = PackedOwner(s, m, t)
  <2>1. CASE j < 4
    <3>1. PICK t \in 0..5 : p = <<s + j + 4, t>>
      BY <1>2, <2>1, MinField
    <3>2. PICK m \in 4..7 : m = j + 4 /\ s + j + 4 = s + m /\ m - 4 = j
      BY <2>1
    <3>3. PackedOwner(s, m, t) = MinBits(s, m - 4)
      BY DEF PackedOwner
    <3>. QED
      BY <3>1, <3>2, <3>3
  <2>2. CASE ~(j < 4)
    <3>1. CASE \E t \in 4..7 : p = <<s + j + 4, t>>
      <4>1. PICK t \in 4..7 : p = <<s + j + 4, t>>
        BY <3>1
      <4>2. PICK m \in 8..11 : m = j + 4 /\ s + j + 4 = s + m /\ m - 4 = j
        BY <2>2
      <4>3. PackedOwner(s, m, t) = MinBits(s, m - 4)
        BY DEF PackedOwner
      <4>. QED
        BY <4>1, <4>2, <4>3
    <3>2. CASE \E t \in 6..7 : p = <<s + j, t>>
      <4>1. PICK t \in 6..7 : p = <<s + j, t>>
        BY <3>2
      <4>2. j \in 4..7
        BY <2>2
      <4>3. PackedOwner(s, j, t) = MinBits(s, j)
        BY <4>2 DEF PackedOwner
      <4>. QED
        BY <4>1, <4>2, <4>3
    <3>3. j >= 4
      BY <2>2
    <3>. QED
      BY <1>2, <3>1, <3>2, <3>3, MinField
  <2>. QED
    BY <2>1, <2>2
<1>. QED
  BY <1>1, <1>2 DEF PackedOwned

LEMMA PackedAll ==
  ASSUME NEW s \in Nat, NEW m \in 0..11, NEW t \in 0..7
  PROVE  /\ <<s + m, t>> \in StoredBits(PackedOwner(s, m, t))
         /\ \E j \in 0..7 : PackedOwner(s, m, t) \in {ScaleBits(s, j), MinBits(s, j)}
<1>1. CASE m < 4 /\ t < 6
  <2>1. PackedOwner(s, m, t) = ScaleBits(s, m) /\ m \in 0..7 /\ t \in 0..5
    BY <1>1 DEF PackedOwner
  <2>2. <<s + m, t>> \in StoredBits(ScaleBits(s, m))
    BY <1>1, <2>1, ScaleField
  <2>. QED
    BY <2>1, <2>2
<1>2. CASE m < 4 /\ ~(t < 6)
  <2>1. PICK j \in 4..7 : j = m + 4 /\ j - 4 = m /\ s + j - 4 = s + m
    BY <1>2
  <2>2. PackedOwner(s, m, t) = ScaleBits(s, j) /\ j \in 0..7 /\ t \in 6..7 /\ j >= 4
    BY <1>2, <2>1 DEF PackedOwner
  <2>3. <<s + j - 4, t>> \in StoredBits(ScaleBits(s, j))
    BY <2>2, ScaleField
  <2>. QED
    BY <2>1, <2>2, <2>3
<1>3. CASE m \in 4..7 /\ t < 6
  <2>1. PICK j \in 0..3 : j = m - 4 /\ s + j + 4 = s + m
    BY <1>3
  <2>2. PackedOwner(s, m, t) = MinBits(s, j) /\ j \in 0..7 /\ t \in 0..5 /\ j < 4
    BY <1>3, <2>1 DEF PackedOwner
  <2>3. <<s + j + 4, t>> \in StoredBits(MinBits(s, j))
    BY <2>2, MinField
  <2>. QED
    BY <2>1, <2>2, <2>3
<1>4. CASE m \in 4..7 /\ ~(t < 6)
  <2>1. PackedOwner(s, m, t) = MinBits(s, m) /\ m \in 0..7 /\ t \in 6..7 /\ m >= 4
    BY <1>4 DEF PackedOwner
  <2>2. <<s + m, t>> \in StoredBits(MinBits(s, m))
    BY <2>1, MinField
  <2>. QED
    BY <2>1, <2>2
<1>5. CASE m \in 8..11 /\ t < 4
  <2>1. PICK j \in 4..7 : j = m - 4 /\ s + j + 4 = s + m
    BY <1>5
  <2>2. PackedOwner(s, m, t) = ScaleBits(s, j) /\ j \in 0..7 /\ t \in 0..3 /\ j >= 4
    BY <1>5, <2>1 DEF PackedOwner
  <2>3. <<s + j + 4, t>> \in StoredBits(ScaleBits(s, j))
    BY <2>2, ScaleField
  <2>. QED
    BY <2>1, <2>2, <2>3
<1>6. CASE m \in 8..11 /\ ~(t < 4)
  <2>1. PICK j \in 4..7 : j = m - 4 /\ s + j + 4 = s + m
    BY <1>6
  <2>2. PackedOwner(s, m, t) = MinBits(s, j) /\ j \in 0..7 /\ t \in 4..7 /\ j >= 4
    BY <1>6, <2>1 DEF PackedOwner
  <2>3. <<s + j + 4, t>> \in StoredBits(MinBits(s, j))
    BY <2>2, MinField
  <2>. QED
    BY <2>1, <2>2, <2>3
<1>. QED
  BY <1>1, <1>2, <1>3, <1>4, <1>5, <1>6

\* The columns of a Q4_K block.
LEMMA ColumnsOfQ4_K ==
  ASSUME NEW blk \in Nat, NEW k \in 0..255
  PROVE  \E g \in 0..3, h \in 0..1, l \in 0..31 :
           /\ k = 64 * g + 32 * h + l
           /\ Decoded("Q4_K", blk, k) = Q4KWeight(blk, g, h, l)
<1>1. k % 256 = k /\ k \div 256 = 0
  OBVIOUS
<1>2. Decoded("Q4_K", blk, k) = Q4KWeight(blk, k \div 64, (k % 64) \div 32, k % 32)
  BY <1>1, BlockShapes DEF Decoded
<1>3. /\ k \div 64 \in 0..3 /\ (k % 64) \div 32 \in 0..1 /\ k % 32 \in 0..31
      /\ k = 64 * (k \div 64) + 32 * ((k % 64) \div 32) + (k % 32)
  OBVIOUS
<1>. QED
  BY ONLY <1>2, <1>3

LEMMA Q4_KOfColumn ==
  ASSUME NEW blk \in Nat, NEW g \in 0..3, NEW h \in 0..1, NEW l \in 0..31
  PROVE  /\ 64 * g + 32 * h + l \in 0..255
         /\ Decoded("Q4_K", blk, 64 * g + 32 * h + l) = Q4KWeight(blk, g, h, l)
<1>1. PICK k \in 0..255 : k = 64 * g + 32 * h + l
  OBVIOUS
<1>2. PICK g1 \in 0..3, h1 \in 0..1, l1 \in 0..31 :
        k = 64 * g1 + 32 * h1 + l1 /\ Decoded("Q4_K", blk, k) = Q4KWeight(blk, g1, h1, l1)
  BY ColumnsOfQ4_K
<1>3. g1 = g /\ h1 = h /\ l1 = l
  BY <1>1, <1>2
<1>. QED
  BY <1>1, <1>2, <1>3

Q4KQuant(blk, g, h, l) == IF h = 0 THEN Low(blk + 16 + 32 * g + l) ELSE High(blk + 16 + 32 * g + l)

Q4KValues(blk, g, h, l) ==
  {Q4KQuant(blk, g, h, l), Half(blk), Half(blk + 2),
   ScaleBits(blk + 4, 2 * g + h), MinBits(blk + 4, 2 * g + h)}

LEMMA Q4_KValues ==
  ASSUME NEW blk \in Nat, NEW k, NEW g \in 0..3, NEW h \in 0..1, NEW l \in 0..31,
         Decoded("Q4_K", blk, k) = Q4KWeight(blk, g, h, l)
  PROVE  /\ Decoded("Q4_K", blk, k).quant = Q4KQuant(blk, g, h, l)
         /\ ValuesAt("Q4_K", blk, k) = Q4KValues(blk, g, h, l)
BY DEF ValuesAt, Q4KWeight, Weight, Q4KQuant, Q4KValues

LEMMA OwnedQ4_K ==
  ASSUME NEW blk \in Nat, NEW g \in 0..3, NEW h \in 0..1, NEW l \in 0..31
  PROVE  \A v \in Q4KValues(blk, g, h, l) :
           Complete(v) /\ Owned("Q4_K", blk, v)
<1>0. \A i \in 0..143, t \in 0..7 :
        Owner("Q4_K", blk, i, t) = IF i < 2 THEN Half(blk)
                                   ELSE IF i < 4 THEN Half(blk + 2)
                                   ELSE IF i < 16 THEN PackedOwner(blk + 4, i - 4, t)
                                   ELSE Nibble(blk + i, t)
  BY DEF Owner
<1>1. BlockBytes["Q4_K"] - 1 = 143
  BY BlockShapes
<1>2. ASSUME NEW v, Complete(v),
             \A p \in StoredBits(v) :
               \E i \in 0..143, t \in 0..7 : p = <<blk + i, t>> /\ v = Owner("Q4_K", blk, i, t)
      PROVE  Complete(v) /\ Owned("Q4_K", blk, v)
  BY <1>1, <1>2 DEF Owned
<1>3. Complete(Half(blk)) /\ Owned("Q4_K", blk, Half(blk))
  <2>1. ASSUME NEW p \in StoredBits(Half(blk))
        PROVE  \E i \in 0..143, t \in 0..7 : p = <<blk + i, t>> /\ Half(blk) = Owner("Q4_K", blk, i, t)
    <3>1. PICK t \in 0..7 : p = <<blk, t>> \/ p = <<blk + 1, t>>
      BY HalfField
    <3>2. Owner("Q4_K", blk, 0, t) = Half(blk) /\ Owner("Q4_K", blk, 1, t) = Half(blk)
      BY <1>0
    <3>3. p = <<blk + 0, t>> \/ p = <<blk + 1, t>>
      BY <3>1
    <3>. QED
      BY <3>2, <3>3
  <2>. QED
    BY <1>2, <2>1, HalfField
<1>4. Complete(Half(blk + 2)) /\ Owned("Q4_K", blk, Half(blk + 2))
  <2>1. ASSUME NEW p \in StoredBits(Half(blk + 2))
        PROVE  \E i \in 0..143, t \in 0..7 : p = <<blk + i, t>> /\ Half(blk + 2) = Owner("Q4_K", blk, i, t)
    <3>1. blk + 2 \in Nat
      OBVIOUS
    <3>2. PICK t \in 0..7 : p = <<blk + 2, t>> \/ p = <<blk + 2 + 1, t>>
      BY <3>1, HalfField
    <3>3. Owner("Q4_K", blk, 2, t) = Half(blk + 2) /\ Owner("Q4_K", blk, 3, t) = Half(blk + 2)
      BY <1>0
    <3>4. p = <<blk + 2, t>> \/ p = <<blk + 3, t>>
      BY <3>2
    <3>. QED
      BY <3>3, <3>4
  <2>2. Complete(Half(blk + 2))
    <3>1. blk + 2 \in Nat
      OBVIOUS
    <3>. QED
      BY <3>1, HalfField
  <2>. QED
    BY <1>2, <2>1, <2>2
<1>5. ASSUME NEW v, Complete(v), PackedOwned(blk + 4, v)
      PROVE  Complete(v) /\ Owned("Q4_K", blk, v)
  <2>1. ASSUME NEW p \in StoredBits(v)
        PROVE  \E i \in 0..143, t \in 0..7 : p = <<blk + i, t>> /\ v = Owner("Q4_K", blk, i, t)
    <3>1. \E m \in 0..11, t \in 0..7 : p = <<blk + 4 + m, t>> /\ v = PackedOwner(blk + 4, m, t)
      BY <1>5 DEF PackedOwned
    <3>2. PICK m \in 0..11, t \in 0..7 : p = <<blk + 4 + m, t>> /\ v = PackedOwner(blk + 4, m, t)
      BY <3>1
    <3>3. PICK i \in 4..15 : i = m + 4 /\ blk + 4 + m = blk + i /\ i - 4 = m
      OBVIOUS
    <3>4. Owner("Q4_K", blk, i, t) = PackedOwner(blk + 4, i - 4, t)
      BY <1>0
    <3>. QED
      BY <3>2, <3>3, <3>4
  <2>. QED
    BY <1>2, <1>5, <2>1
<1>6. PICK j \in 0..7 : j = 2 * g + h
  OBVIOUS
<1>7. PICK s \in Nat : s = blk + 4
  OBVIOUS
<1>8. /\ Complete(ScaleBits(s, j)) /\ PackedOwned(s, ScaleBits(s, j))
      /\ Complete(MinBits(s, j)) /\ PackedOwned(s, MinBits(s, j))
  BY PackedOnce, ScaleField, MinField
<1>9. /\ Complete(ScaleBits(s, j)) /\ Owned("Q4_K", blk, ScaleBits(s, j))
      /\ Complete(MinBits(s, j)) /\ Owned("Q4_K", blk, MinBits(s, j))
  BY <1>5, <1>7, <1>8
<1>10. Complete(Q4KQuant(blk, g, h, l)) /\ Owned("Q4_K", blk, Q4KQuant(blk, g, h, l))
  <2>1. PICK i \in 16..143 : i = 16 + 32 * g + l /\ blk + 16 + 32 * g + l = blk + i
    OBVIOUS
  <2>2. PICK a \in Nat : a = blk + i
    OBVIOUS
  <2>3. CASE h = 0
    <3>1. Q4KQuant(blk, g, h, l) = Low(a)
      BY <2>1, <2>2, <2>3 DEF Q4KQuant
    <3>2. \A t \in 0..3 : Owner("Q4_K", blk, i, t) = Low(a)
      BY <1>0, <2>2 DEF Nibble
    <3>3. Complete(Low(a)) /\ \A p \in StoredBits(Low(a)) : \E t \in 0..3 : p = <<a, t>>
      BY LowField
    <3>4. ASSUME NEW p \in StoredBits(Low(a))
          PROVE  \E e \in 0..143, t \in 0..7 : p = <<blk + e, t>> /\ Low(a) = Owner("Q4_K", blk, e, t)
      BY <2>2, <3>2, <3>3
    <3>. QED
      BY <1>2, <3>1, <3>3, <3>4
  <2>4. CASE h = 1
    <3>1. Q4KQuant(blk, g, h, l) = High(a)
      BY <2>1, <2>2, <2>4 DEF Q4KQuant
    <3>2. \A t \in 4..7 : Owner("Q4_K", blk, i, t) = High(a)
      BY <1>0, <2>2 DEF Nibble
    <3>3. Complete(High(a)) /\ \A p \in StoredBits(High(a)) : \E t \in 4..7 : p = <<a, t>>
      BY HighField
    <3>4. ASSUME NEW p \in StoredBits(High(a))
          PROVE  \E e \in 0..143, t \in 0..7 : p = <<blk + e, t>> /\ High(a) = Owner("Q4_K", blk, e, t)
      BY <2>2, <3>2, <3>3
    <3>. QED
      BY <1>2, <3>1, <3>3, <3>4
  <2>. QED
    BY <2>3, <2>4
<1>. QED
  BY <1>3, <1>4, <1>6, <1>7, <1>9, <1>10 DEF Q4KValues

LEMMA BitsOfQ4_K ==
  ASSUME NEW blk \in Nat, NEW i \in 0..143, NEW t \in 0..7
  PROVE  /\ <<blk + i, t>> \in StoredBits(Owner("Q4_K", blk, i, t))
         /\ \E g \in 0..3, h \in 0..1, l \in 0..31 :
              Owner("Q4_K", blk, i, t) \in
                Q4KValues(blk, g, h, l)
<1>0. Owner("Q4_K", blk, i, t) = IF i < 2 THEN Half(blk)
                             ELSE IF i < 4 THEN Half(blk + 2)
                             ELSE IF i < 16 THEN PackedOwner(blk + 4, i - 4, t)
                             ELSE Nibble(blk + i, t)
  BY DEF Owner
<1>1. CASE i < 2
  <2>1. <<blk + i, t>> \in StoredBits(Half(blk))
    BY <1>1, HalfField
  <2>2. Owner("Q4_K", blk, i, t) = Half(blk)
    BY <1>0, <1>1
  <2>. QED
    BY <2>1, <2>2 DEF Q4KValues
<1>2. CASE i \in 2..3
  <2>1. PICK a \in Nat : a = blk + 2
    OBVIOUS
  <2>2. blk + i = a \/ blk + i = a + 1
    BY <1>2, <2>1
  <2>3. <<blk + i, t>> \in StoredBits(Half(a))
    BY <2>2, HalfField
  <2>4. Owner("Q4_K", blk, i, t) = Half(a)
    BY <1>0, <1>2, <2>1
  <2>. QED
    BY <2>1, <2>3, <2>4 DEF Q4KValues
<1>3. CASE i \in 4..15
  <2>1. PICK s \in Nat, m \in 0..11 : s = blk + 4 /\ m = i - 4 /\ s + m = blk + i
    BY <1>3
  <2>2. <<s + m, t>> \in StoredBits(PackedOwner(s, m, t))
    BY PackedAll
  <2>3. PICK j \in 0..7 : PackedOwner(s, m, t) \in {ScaleBits(s, j), MinBits(s, j)}
    BY PackedAll
  <2>4. Owner("Q4_K", blk, i, t) = PackedOwner(s, m, t)
    BY <1>0, <1>3, <2>1
  <2>5. PICK g \in 0..3, h \in 0..1 : j = 2 * g + h
    <3>1. j \div 2 \in 0..3 /\ j % 2 \in 0..1 /\ j = 2 * (j \div 2) + (j % 2)
      OBVIOUS
    <3>. QED
      BY ONLY <3>1
  <2>6. 0 \in 0..31
    OBVIOUS
  <2>. QED
    BY ONLY <2>1, <2>2, <2>3, <2>4, <2>5, <2>6 DEF Q4KValues
<1>4. CASE i \in 16..143
  <2>1. PICK a \in Nat : a = blk + i
    OBVIOUS
  <2>2. Owner("Q4_K", blk, i, t) = Nibble(a, t)
    BY <1>0, <1>4, <2>1
  <2>3. <<a, t>> \in StoredBits(Nibble(a, t))
    BY NibbleField
  <2>4. PICK g \in 0..3, l \in 0..31 : i = 16 + 32 * g + l
    <3>1. /\ (i - 16) \div 32 \in 0..3 /\ (i - 16) % 32 \in 0..31
          /\ i = 16 + 32 * ((i - 16) \div 32) + ((i - 16) % 32)
      BY <1>4
    <3>. QED
      BY ONLY <3>1
  <2>5. blk + 16 + 32 * g + l = a
    BY <2>1, <2>4
  <2>6. Nibble(a, t) = Q4KQuant(blk, g, IF t < 4 THEN 0 ELSE 1, l)
    BY <2>5 DEF Nibble, Q4KQuant
  <2>7. (IF t < 4 THEN 0 ELSE 1) \in 0..1
    OBVIOUS
  <2>. QED
    BY ONLY <2>1, <2>2, <2>3, <2>6, <2>7, g \in 0..3, l \in 0..31 DEF Q4KValues
<1>. QED
  BY <1>1, <1>2, <1>3, <1>4

LEMMA UsedUpQ4_K ==
  ASSUME NEW blk \in Nat
  PROVE  UsedUp("Q4_K", blk)
<1>1. BlockColumns["Q4_K"] - 1 = 255 /\ BlockBytes["Q4_K"] - 1 = 143
  BY BlockShapes
<1>2. \A k \in 0..255 : \A v \in ValuesAt("Q4_K", blk, k) : Complete(v) /\ Owned("Q4_K", blk, v)
  <2>1. ASSUME NEW k \in 0..255, NEW v \in ValuesAt("Q4_K", blk, k)
        PROVE  Complete(v) /\ Owned("Q4_K", blk, v)
    <3>1. PICK g \in 0..3, h \in 0..1, l \in 0..31 : Decoded("Q4_K", blk, k) = Q4KWeight(blk, g, h, l)
      BY ColumnsOfQ4_K
    <3>2. v \in Q4KValues(blk, g, h, l)
      BY <2>1, <3>1, Q4_KValues
    <3>. QED
      BY <3>2, OwnedQ4_K
  <2>. QED
    BY <2>1
<1>3. ASSUME NEW i \in 0..143, NEW t \in 0..7
      PROVE  HasBit("Q4_K", blk, Owner("Q4_K", blk, i, t), i, t)
  <2>1. PICK g \in 0..3, h \in 0..1, l \in 0..31 :
          Owner("Q4_K", blk, i, t) \in Q4KValues(blk, g, h, l)
    BY BitsOfQ4_K
  <2>2. PICK k \in 0..255 : Decoded("Q4_K", blk, k) = Q4KWeight(blk, g, h, l)
    BY Q4_KOfColumn
  <2>3. Owner("Q4_K", blk, i, t) \in ValuesAt("Q4_K", blk, k)
    BY <2>1, <2>2, Q4_KValues
  <2>4. <<blk + i, t>> \in StoredBits(Owner("Q4_K", blk, i, t))
    BY BitsOfQ4_K
  <2>. QED
    BY ONLY <1>1, <2>3, <2>4, k \in 0..255 DEF HasBit
<1>4. ASSUME NEW k \in 0..255, NEW j \in 0..255,
             Decoded("Q4_K", blk, k).quant = Decoded("Q4_K", blk, j).quant
      PROVE  k = j
  <2>1. PICK g \in 0..3, h \in 0..1, l \in 0..31 :
          k = 64 * g + 32 * h + l /\ Decoded("Q4_K", blk, k) = Q4KWeight(blk, g, h, l)
    BY ColumnsOfQ4_K
  <2>2. PICK e \in 0..3, f \in 0..1, m \in 0..31 :
          j = 64 * e + 32 * f + m /\ Decoded("Q4_K", blk, j) = Q4KWeight(blk, e, f, m)
    BY ColumnsOfQ4_K
  <2>3. Q4KQuant(blk, g, h, l) = Q4KQuant(blk, e, f, m)
    <3>1. Decoded("Q4_K", blk, k).quant = Q4KQuant(blk, g, h, l)
      BY <2>1, Q4_KValues
    <3>2. Decoded("Q4_K", blk, j).quant = Q4KQuant(blk, e, f, m)
      BY <2>2, Q4_KValues
    <3>. QED
      BY ONLY <1>4, <3>1, <3>2
  <2>4. g = e /\ h = f /\ l = m
    <3>1. PICK a, b : /\ a = blk + 16 + 32 * g + l /\ b = blk + 16 + 32 * e + m
                      /\ a \in Nat /\ b \in Nat
      OBVIOUS
    <3>2. /\ Q4KQuant(blk, g, h, l) = IF h = 0 THEN Low(a) ELSE High(a)
          /\ Q4KQuant(blk, e, f, m) = IF f = 0 THEN Low(b) ELSE High(b)
      BY <3>1 DEF Q4KQuant
    <3>3. /\ Low(a) = Low(b) => a = b
          /\ High(a) = High(b) => a = b
          /\ Low(a) # High(b) /\ Low(b) # High(a)
      BY <3>1, NibblesDiffer
    <3>4. (h = 0 <=> f = 0) /\ a = b
      BY ONLY <2>3, <3>2, <3>3
    <3>5. h = f
      BY <3>4
    <3>. QED
      BY <3>1, <3>4, <3>5
  <2>. QED
    BY <2>1, <2>2, <2>4
<1>5. ASSUME NEW k \in 0..255
      PROVE  StoredBits(Decoded("Q4_K", blk, k).quant) # {}
  <2>1. PICK g \in 0..3, h \in 0..1, l \in 0..31 : Decoded("Q4_K", blk, k) = Q4KWeight(blk, g, h, l)
    BY ColumnsOfQ4_K
  <2>2. Decoded("Q4_K", blk, k).quant = Q4KQuant(blk, g, h, l)
    BY <2>1, Q4_KValues
  <2>3. PICK a \in Nat : a = blk + 16 + 32 * g + l
    OBVIOUS
  <2>4. <<a, 0>> \in StoredBits(Low(a)) /\ <<a, 4>> \in StoredBits(High(a))
    BY LowField, HighField
  <2>. QED
    BY <2>2, <2>3, <2>4 DEF Q4KQuant
<1>6. PICK n, m : /\ n = BlockColumns["Q4_K"] /\ m = BlockBytes["Q4_K"]
                  /\ n - 1 = 255 /\ m - 1 = 143
  BY <1>1
<1>7. /\ \A k \in 0..n - 1 : \A v \in ValuesAt("Q4_K", blk, k) : Complete(v) /\ Owned("Q4_K", blk, v)
      /\ \A i \in 0..m - 1, t \in 0..7 : HasBit("Q4_K", blk, Owner("Q4_K", blk, i, t), i, t)
  BY ONLY <1>2, <1>3, <1>6
<1>8. \A k, j \in 0..n - 1 : Decoded("Q4_K", blk, k).quant = Decoded("Q4_K", blk, j).quant => k = j
  <2>1. \A k, j \in 0..255 : Decoded("Q4_K", blk, k).quant = Decoded("Q4_K", blk, j).quant => k = j
    BY <1>4, Zenon
  <2>2. 0..n - 1 = 0..255
    BY <1>6
  <2>. QED
    BY ONLY <2>1, <2>2, Zenon
<1>9. \A k \in 0..n - 1 : StoredBits(Decoded("Q4_K", blk, k).quant) # {}
  BY ONLY <1>5, <1>6
<1>. QED
  BY ONLY <1>6, <1>7, <1>8, <1>9 DEF UsedUp

-----------------------------------------------------------------------------
(* Blocks of Q6_K.                                                          *)

\* The quant of column 128 * n + 32 * q + l of a Q6_K block.
Q6KLow(blk, n, q, l) == blk + 64 * n + 32 * (q % 2) + l
Q6KHigh(blk, n, l) == blk + 128 + 32 * n + l
Q6KQuant(blk, n, q, l) ==
  Two(Q6KLow(blk, n, q, l), IF q < 2 THEN 0 ELSE 4, 4, Q6KHigh(blk, n, l), 2 * q, 2)

Q6KValues(blk, n, q, l) ==
  {Q6KQuant(blk, n, q, l), Half(blk + 208), Byte(blk + 192 + 8 * n + l \div 16 + 2 * q)}

IsQ6KColumn(blk, k, n, q, l) ==
  /\ k \in 0..255
  /\ DecodedQ6_K(blk, k).quant = Q6KQuant(blk, n, q, l)
  /\ Decoded("Q6_K", blk, k).quant = Q6KQuant(blk, n, q, l)
  /\ ValuesAt("Q6_K", blk, k) = Q6KValues(blk, n, q, l)

LEMMA ColumnsOfQ6_K ==
  ASSUME NEW blk \in Nat, NEW n \in 0..1, NEW q \in 0..3, NEW l \in 0..31
  PROVE  IsQ6KColumn(blk, 128 * n + 32 * q + l, n, q, l)
<1>0. PICK k : k = 128 * n + 32 * q + l
  OBVIOUS
<1>1. /\ k \in 0..255 /\ k % 256 = k /\ k \div 256 = 0
      /\ k \div 128 = n /\ (k % 128) \div 32 = q /\ k % 32 = l
  BY <1>0
<1>2. Decoded("Q6_K", blk, k) = DecodedQ6_K(blk, k)
  BY <1>1, BlockShapes DEF Decoded
<1>3. PICK x, low, high, s :
        /\ x = blk + 64 * n + l + (IF q % 2 = 1 THEN 32 ELSE 0)
        /\ low = IF q < 2 THEN Low(x) ELSE High(x)
        /\ high = {<<blk + 128 + 32 * n + l, 2 * q, 2, 4>>}
        /\ s = Byte(blk + 192 + 8 * n + l \div 16 + 2 * q)
  OBVIOUS
<1>4. DecodedQ6_K(blk, k) = Weight({Half(blk + 208), s}, low \cup high, 32, {})
  <2>1. PICK n1, q1, l1 : n1 = k \div 128 /\ q1 = (k % 128) \div 32 /\ l1 = k % 32
    OBVIOUS
  <2>2. PICK y : y = blk + 64 * n1 + l1 + (IF q1 % 2 = 1 THEN 32 ELSE 0)
    OBVIOUS
  <2>3. DecodedQ6_K(blk, k)
          = Weight({Half(blk + 208), Byte(blk + 192 + 8 * n1 + l1 \div 16 + 2 * q1)},
                   (IF q1 < 2 THEN Low(y) ELSE High(y)) \cup {<<blk + 128 + 32 * n1 + l1, 2 * q1, 2, 4>>},
                   32, {})
    BY <1>1, <2>1, <2>2 DEF DecodedQ6_K
  <2>4. n1 = n /\ q1 = q /\ l1 = l
    BY ONLY <1>1, <2>1
  <2>. QED
    BY ONLY <1>3, <2>2, <2>3, <2>4
<1>5. low \cup high = Q6KQuant(blk, n, q, l)
  <2>1. x = Q6KLow(blk, n, q, l)
    BY <1>3 DEF Q6KLow
  <2>2. low = {<<x, IF q < 2 THEN 0 ELSE 4, 4, 0>>}
    BY <1>3 DEF Low, High
  <2>3. high = {<<Q6KHigh(blk, n, l), 2 * q, 2, 4>>}
    BY <1>3 DEF Q6KHigh
  <2>. QED
    BY ONLY <2>1, <2>2, <2>3 DEF Q6KQuant, Two
<1>6. DecodedQ6_K(blk, k).quant = Q6KQuant(blk, n, q, l)
  <2>1. Weight({Half(blk + 208), s}, low \cup high, 32, {}).quant = low \cup high
    BY DEF Weight
  <2>. QED
    BY ONLY <1>4, <1>5, <2>1
<1>7. ValuesAt("Q6_K", blk, k) = {Q6KQuant(blk, n, q, l), Half(blk + 208), s}
  <2>1. PICK w : w = Weight({Half(blk + 208), s}, low \cup high, 32, {})
    OBVIOUS
  <2>2. w.quant = Q6KQuant(blk, n, q, l) /\ w.scale = {Half(blk + 208), s} /\ w.less = {}
    BY <1>5, <2>1 DEF Weight
  <2>3. ValuesAt("Q6_K", blk, k) = {w.quant} \cup w.scale \cup w.less
    BY ONLY <1>2, <1>4, <2>1 DEF ValuesAt
  <2>. QED
    BY ONLY <2>2, <2>3
<1>8. ValuesAt("Q6_K", blk, k) = Q6KValues(blk, n, q, l)
  BY ONLY <1>3, <1>7 DEF Q6KValues
<1>. QED
  BY ONLY <1>0, <1>1, <1>2, <1>6, <1>8 DEF IsQ6KColumn

LEMMA PartsOfQ6_K ==
  ASSUME NEW k \in 0..255
  PROVE  \E n \in 0..1, q \in 0..3, l \in 0..31 : k = 128 * n + 32 * q + l
<1>1. /\ k \div 128 \in 0..1 /\ (k % 128) \div 32 \in 0..3 /\ k % 32 \in 0..31
      /\ k = 128 * (k \div 128) + 32 * ((k % 128) \div 32) + (k % 32)
  OBVIOUS
<1>. QED
  BY ONLY <1>1

\* Its bits: four of one byte and two of another.
IsQ6KQuant(blk, n, q, l) ==
  /\ Complete(Q6KQuant(blk, n, q, l))
  /\ \A p : p \in StoredBits(Q6KQuant(blk, n, q, l)) <=>
       \/ \E t \in 0..7 : (t < 4 <=> q < 2) /\ p = <<Q6KLow(blk, n, q, l), t>>
       \/ \E t \in 2 * q..2 * q + 1 : p = <<Q6KHigh(blk, n, l), t>>

LEMMA Q6KField ==
  ASSUME NEW blk \in Nat, NEW n \in 0..1, NEW q \in 0..3, NEW l \in 0..31
  PROVE  IsQ6KQuant(blk, n, q, l)
<1>0. PICK a, b : a = Q6KLow(blk, n, q, l) /\ b = Q6KHigh(blk, n, l)
  OBVIOUS
<1>1. a \in Nat /\ b \in Nat /\ a # b
  BY <1>0 DEF Q6KLow, Q6KHigh
<1>2. PICK x \in Nat : x = IF q < 2 THEN 0 ELSE 4
  OBVIOUS
<1>3. PICK y \in Nat : y = 2 * q
  OBVIOUS
<1>4. Q6KQuant(blk, n, q, l) = Two(a, x, 4, b, y, 2)
  BY <1>0, <1>2, <1>3 DEF Q6KQuant
<1>5. /\ Complete(Two(a, x, 4, b, y, 2))
      /\ StoredBits(Two(a, x, 4, b, y, 2)) = BitsFrom(a, x, 4) \cup BitsFrom(b, y, 2)
  BY ONLY <1>1, TwoFields, x \in Nat, y \in Nat, 4 \in Nat, 2 \in Nat, SMTT(30)
<1>6. ASSUME NEW p
      PROVE  p \in BitsFrom(a, x, 4) <=> \E t \in 0..7 : (t < 4 <=> q < 2) /\ p = <<a, t>>
  <2>1. CASE q < 2
    <3>1. p \in BitsFrom(a, 0, 4) <=> \E t \in 0..3 : p = <<a, t>>
      BY <1>1, BitsOfByte
    <3>. QED
      BY <1>2, <2>1, <3>1
  <2>2. CASE ~(q < 2)
    <3>1. p \in BitsFrom(a, 4, 4) <=> \E t \in 4..7 : p = <<a, t>>
      BY <1>1, BitsOfByte
    <3>. QED
      BY <1>2, <2>2, <3>1
  <2>. QED
    BY <2>1, <2>2
<1>7. ASSUME NEW p
      PROVE  p \in BitsFrom(b, y, 2) <=> \E t \in 2 * q..2 * q + 1 : p = <<b, t>>
  <2>1. ASSUME NEW t \in 2 * q..2 * q + 1
        PROVE  t - y \in 0..2 - 1 /\ y + (t - y) = t
    BY <1>3
  <2>2. ASSUME NEW i \in 0..2 - 1
        PROVE  y + i \in 2 * q..2 * q + 1
    BY <1>3
  <2>. QED
    BY <2>1, <2>2 DEF BitsFrom
<1>. QED
  BY ONLY <1>0, <1>4, <1>5, <1>6, <1>7 DEF IsQ6KQuant

\* Which column the bits of a quant belong to.
LEMMA LowColumnOf ==
  ASSUME NEW n \in 0..1, NEW o \in 0..1, NEW l \in 0..31, NEW t \in 0..7, NEW q \in 0..3,
         q = IF t < 4 THEN o ELSE 2 + o
  PROVE  LowColumn(64 * n + 32 * o + l, t) = 128 * n + 32 * q + l
<1>1. PICK i \in 0..127 : i = 64 * n + 32 * o + l
  OBVIOUS
<1>2. i \div 64 = n /\ (i % 64) \div 32 = o /\ i % 32 = l
  BY <1>1
<1>3. n \in Int /\ o \in Int /\ l \in Int
  OBVIOUS
<1>. QED
  BY ONLY <1>1, <1>2, <1>3, q = IF t < 4 THEN o ELSE 2 + o, t \in 0..7 DEF LowColumn

LEMMA HighColumnOf ==
  ASSUME NEW n \in 0..1, NEW l \in 0..31, NEW t \in 0..7, NEW q \in 0..3,
         t \in 2 * q..2 * q + 1
  PROVE  HighColumn(128 + 32 * n + l, t) = 128 * n + 32 * q + l
<1>1. PICK i \in 128..191 : i = 128 + 32 * n + l
  OBVIOUS
<1>2. (i - 128) \div 32 = n /\ i % 32 = l /\ t \div 2 = q
  BY <1>1
<1>. QED
  BY <1>1, <1>2 DEF HighColumn

OwnsLowBit(blk, n, q, l, t) ==
  \E i \in 0..127 : /\ Q6KLow(blk, n, q, l) = blk + i
                    /\ Owner("Q6_K", blk, i, t) = Q6KQuant(blk, n, q, l)

LEMMA QuantOwnsLow ==
  ASSUME NEW blk \in Nat, NEW n \in 0..1, NEW q \in 0..3, NEW l \in 0..31,
         NEW t \in 0..7, t < 4 <=> q < 2
  PROVE  OwnsLowBit(blk, n, q, l, t)
<1>1. PICK o \in 0..1 : o = q % 2
  OBVIOUS
<1>2. PICK i \in 0..127 : i = 64 * n + 32 * o + l
  OBVIOUS
<1>3. q = IF t < 4 THEN o ELSE 2 + o
  BY <1>1
<1>4. LowColumn(i, t) = 128 * n + 32 * q + l
  BY <1>2, <1>3, LowColumnOf
<1>5. Q6KLow(blk, n, q, l) = blk + i
  BY <1>1, <1>2 DEF Q6KLow
<1>6. Owner("Q6_K", blk, i, t) = DecodedQ6_K(blk, LowColumn(i, t)).quant
  BY DEF Owner
<1>7. DecodedQ6_K(blk, LowColumn(i, t)).quant = Q6KQuant(blk, n, q, l)
  <2>1. IsQ6KColumn(blk, 128 * n + 32 * q + l, n, q, l)
    BY ColumnsOfQ6_K
  <2>. QED
    BY ONLY <1>4, <2>1 DEF IsQ6KColumn
<1>. QED
  BY <1>2, <1>5, <1>6, <1>7 DEF OwnsLowBit

OwnsHighBit(blk, n, q, l, t) ==
  \E i \in 128..191 : /\ Q6KHigh(blk, n, l) = blk + i
                      /\ Owner("Q6_K", blk, i, t) = Q6KQuant(blk, n, q, l)

LEMMA QuantOwnsHigh ==
  ASSUME NEW blk \in Nat, NEW n \in 0..1, NEW q \in 0..3, NEW l \in 0..31,
         NEW t \in 2 * q..2 * q + 1
  PROVE  OwnsHighBit(blk, n, q, l, t)
<1>1. PICK i \in 128..191 : i = 128 + 32 * n + l
  OBVIOUS
<1>2. t \in 0..7
  OBVIOUS
<1>3. HighColumn(i, t) = 128 * n + 32 * q + l
  BY <1>1, <1>2, HighColumnOf
<1>4. Q6KHigh(blk, n, l) = blk + i
  BY <1>1 DEF Q6KHigh
<1>5. Owner("Q6_K", blk, i, t) = DecodedQ6_K(blk, HighColumn(i, t)).quant
  BY DEF Owner
<1>6. DecodedQ6_K(blk, HighColumn(i, t)).quant = Q6KQuant(blk, n, q, l)
  <2>1. IsQ6KColumn(blk, 128 * n + 32 * q + l, n, q, l)
    BY ColumnsOfQ6_K
  <2>. QED
    BY ONLY <1>3, <2>1 DEF IsQ6KColumn
<1>. QED
  BY <1>1, <1>4, <1>5, <1>6 DEF OwnsHighBit

LEMMA OwnedQ6_K ==
  ASSUME NEW blk \in Nat, NEW n \in 0..1, NEW q \in 0..3, NEW l \in 0..31
  PROVE  \A v \in Q6KValues(blk, n, q, l) : Complete(v) /\ Owned("Q6_K", blk, v)
<1>1. BlockBytes["Q6_K"] - 1 = 209
  BY BlockShapes
<1>2. ASSUME NEW v, Complete(v),
             \A p \in StoredBits(v) :
               \E i \in 0..209, t \in 0..7 : p = <<blk + i, t>> /\ v = Owner("Q6_K", blk, i, t)
      PROVE  Complete(v) /\ Owned("Q6_K", blk, v)
  BY <1>1, <1>2 DEF Owned
<1>3. Complete(Half(blk + 208)) /\ Owned("Q6_K", blk, Half(blk + 208))
  <2>1. PICK a \in Nat : a = blk + 208
    OBVIOUS
  <2>2. ASSUME NEW p \in StoredBits(Half(a))
        PROVE  \E i \in 0..209, t \in 0..7 : p = <<blk + i, t>> /\ Half(a) = Owner("Q6_K", blk, i, t)
    <3>1. PICK t \in 0..7 : p = <<a, t>> \/ p = <<a + 1, t>>
      BY HalfField
    <3>2. Owner("Q6_K", blk, 208, t) = Half(a) /\ Owner("Q6_K", blk, 209, t) = Half(a)
      BY <2>1 DEF Owner
    <3>3. p = <<blk + 208, t>> \/ p = <<blk + 209, t>>
      BY <2>1, <3>1
    <3>. QED
      BY <3>2, <3>3
  <2>3. Complete(Half(a))
    BY HalfField
  <2>. QED
    BY <1>2, <2>1, <2>2, <2>3
<1>4. PICK i \in 192..207 : i = 192 + 8 * n + l \div 16 + 2 * q
  OBVIOUS
<1>5. Complete(Byte(blk + i)) /\ Owned("Q6_K", blk, Byte(blk + i))
  <2>1. PICK a \in Nat : a = blk + i
    OBVIOUS
  <2>2. \A t \in 0..7 : Owner("Q6_K", blk, i, t) = Byte(a)
    BY <2>1 DEF Owner
  <2>3. Complete(Byte(a)) /\ \A p \in StoredBits(Byte(a)) : \E t \in 0..7 : p = <<a, t>>
    BY ByteField
  <2>4. i \in 0..209
    OBVIOUS
  <2>5. \A p \in StoredBits(Byte(a)) :
          \E e \in 0..209, t \in 0..7 : p = <<blk + e, t>> /\ Byte(a) = Owner("Q6_K", blk, e, t)
    BY ONLY <2>1, <2>2, <2>3, <2>4
  <2>. QED
    BY <1>2, <2>1, <2>3, <2>5
<1>6. Complete(Q6KQuant(blk, n, q, l)) /\ Owned("Q6_K", blk, Q6KQuant(blk, n, q, l))
  <2>1. PICK v, a, b : v = Q6KQuant(blk, n, q, l) /\ a = Q6KLow(blk, n, q, l) /\ b = Q6KHigh(blk, n, l)
    OBVIOUS
  <2>2. /\ Complete(v)
        /\ \A p : p \in StoredBits(v) <=>
             \/ \E t \in 0..7 : (t < 4 <=> q < 2) /\ p = <<a, t>>
             \/ \E t \in 2 * q..2 * q + 1 : p = <<b, t>>
    <3>1. /\ Complete(Q6KQuant(blk, n, q, l))
          /\ \A p : p \in StoredBits(Q6KQuant(blk, n, q, l)) <=>
               \/ \E t \in 0..7 : (t < 4 <=> q < 2) /\ p = <<Q6KLow(blk, n, q, l), t>>
               \/ \E t \in 2 * q..2 * q + 1 : p = <<Q6KHigh(blk, n, l), t>>
      <4>1. IsQ6KQuant(blk, n, q, l)
        BY Q6KField
      <4>. QED
        BY ONLY <4>1 DEF IsQ6KQuant
    <3>. QED
      BY ONLY <2>1, <3>1
  <2>3. ASSUME NEW p \in StoredBits(v)
        PROVE  \E e \in 0..209, t \in 0..7 : p = <<blk + e, t>> /\ v = Owner("Q6_K", blk, e, t)
    <3>1. CASE \E t \in 0..7 : (t < 4 <=> q < 2) /\ p = <<a, t>>
      <4>1. PICK t \in 0..7 : (t < 4 <=> q < 2) /\ p = <<a, t>>
        BY <3>1
      <4>2. OwnsLowBit(blk, n, q, l, t)
        BY <4>1, QuantOwnsLow
      <4>3. PICK e \in 0..127 : a = blk + e /\ Owner("Q6_K", blk, e, t) = v
        BY ONLY <2>1, <4>2 DEF OwnsLowBit
      <4>. QED
        BY <4>1, <4>3
    <3>2. CASE \E t \in 2 * q..2 * q + 1 : p = <<b, t>>
      <4>1. PICK t \in 2 * q..2 * q + 1 : p = <<b, t>>
        BY <3>2
      <4>2. t \in 0..7
        OBVIOUS
      <4>3. OwnsHighBit(blk, n, q, l, t)
        BY <4>1, QuantOwnsHigh
      <4>4. PICK e \in 128..191 : b = blk + e /\ Owner("Q6_K", blk, e, t) = v
        BY ONLY <2>1, <4>3 DEF OwnsHighBit
      <4>. QED
        BY <4>1, <4>2, <4>4
    <3>. QED
      BY ONLY <2>2, <2>3, <3>1, <3>2
  <2>. QED
    <3>1. Complete(v) /\ Owned("Q6_K", blk, v)
      BY ONLY <1>2, <2>2, <2>3
    <3>. QED
      BY ONLY <2>1, <3>1
<1>7. blk + 192 + 8 * n + l \div 16 + 2 * q = blk + i
  BY <1>4
<1>. QED
  BY ONLY <1>3, <1>5, <1>6, <1>7 DEF Q6KValues

LEMMA BitsOfQ6_K ==
  ASSUME NEW blk \in Nat, NEW i \in 0..209, NEW t \in 0..7
  PROVE  /\ <<blk + i, t>> \in StoredBits(Owner("Q6_K", blk, i, t))
         /\ \E n \in 0..1, q \in 0..3, l \in 0..31 :
              Owner("Q6_K", blk, i, t) \in Q6KValues(blk, n, q, l)
<1>1. CASE i < 128
  <2>1. PICK n \in 0..1, o \in 0..1, l \in 0..31 : i = 64 * n + 32 * o + l
    <3>1. /\ i \div 64 \in 0..1 /\ (i % 64) \div 32 \in 0..1 /\ i % 32 \in 0..31
          /\ i = 64 * (i \div 64) + 32 * ((i % 64) \div 32) + (i % 32)
      BY <1>1
    <3>. QED
      BY ONLY <3>1
  <2>2. PICK q \in 0..3 : q = IF t < 4 THEN o ELSE 2 + o
    OBVIOUS
  <2>3. LowColumn(i, t) = 128 * n + 32 * q + l
    BY <2>1, <2>2, LowColumnOf
  <2>4. DecodedQ6_K(blk, LowColumn(i, t)).quant = Q6KQuant(blk, n, q, l)
    <3>1. IsQ6KColumn(blk, 128 * n + 32 * q + l, n, q, l)
      BY ColumnsOfQ6_K
    <3>. QED
      BY ONLY <2>3, <3>1 DEF IsQ6KColumn
  <2>5. Owner("Q6_K", blk, i, t) = Q6KQuant(blk, n, q, l)
    BY <1>1, <2>4 DEF Owner
  <2>6. q % 2 = o /\ (t < 4 <=> q < 2)
    BY <2>2
  <2>7. Q6KLow(blk, n, q, l) = blk + i
    BY <2>1, <2>6 DEF Q6KLow
  <2>8. <<blk + i, t>> \in StoredBits(Q6KQuant(blk, n, q, l))
    <3>1. \A p : p \in StoredBits(Q6KQuant(blk, n, q, l)) <=>
            \/ \E u \in 0..7 : (u < 4 <=> q < 2) /\ p = <<Q6KLow(blk, n, q, l), u>>
            \/ \E u \in 2 * q..2 * q + 1 : p = <<Q6KHigh(blk, n, l), u>>
      <4>1. IsQ6KQuant(blk, n, q, l)
        BY Q6KField
      <4>. QED
        BY ONLY <4>1 DEF IsQ6KQuant
    <3>. QED
      BY ONLY <2>6, <2>7, <3>1, t \in 0..7
  <2>. QED
    BY ONLY <2>5, <2>8, n \in 0..1, q \in 0..3, l \in 0..31 DEF Q6KValues
<1>2. CASE i \in 128..191
  <2>1. PICK n \in 0..1, l \in 0..31 : i = 128 + 32 * n + l
    <3>1. /\ (i - 128) \div 32 \in 0..1 /\ (i - 128) % 32 \in 0..31
          /\ i = 128 + 32 * ((i - 128) \div 32) + ((i - 128) % 32)
      BY <1>2
    <3>. QED
      BY ONLY <3>1
  <2>2. PICK q \in 0..3 : q = t \div 2 /\ t \in 2 * q..2 * q + 1
    OBVIOUS
  <2>3. HighColumn(i, t) = 128 * n + 32 * q + l
    BY <2>1, <2>2, HighColumnOf
  <2>4. DecodedQ6_K(blk, HighColumn(i, t)).quant = Q6KQuant(blk, n, q, l)
    <3>1. IsQ6KColumn(blk, 128 * n + 32 * q + l, n, q, l)
      BY ColumnsOfQ6_K
    <3>. QED
      BY ONLY <2>3, <3>1 DEF IsQ6KColumn
  <2>5. Owner("Q6_K", blk, i, t) = Q6KQuant(blk, n, q, l)
    BY <1>2, <2>4 DEF Owner
  <2>6. Q6KHigh(blk, n, l) = blk + i
    BY <2>1 DEF Q6KHigh
  <2>7. <<blk + i, t>> \in StoredBits(Q6KQuant(blk, n, q, l))
    <3>1. \A p : p \in StoredBits(Q6KQuant(blk, n, q, l)) <=>
            \/ \E u \in 0..7 : (u < 4 <=> q < 2) /\ p = <<Q6KLow(blk, n, q, l), u>>
            \/ \E u \in 2 * q..2 * q + 1 : p = <<Q6KHigh(blk, n, l), u>>
      <4>1. IsQ6KQuant(blk, n, q, l)
        BY Q6KField
      <4>. QED
        BY ONLY <4>1 DEF IsQ6KQuant
    <3>. QED
      BY ONLY <2>2, <2>6, <3>1
  <2>. QED
    BY ONLY <2>5, <2>7, n \in 0..1, q \in 0..3, l \in 0..31 DEF Q6KValues
<1>3. CASE i \in 192..207
  <2>1. PICK a \in Nat : a = blk + i
    OBVIOUS
  <2>2. Owner("Q6_K", blk, i, t) = Byte(a)
    BY <1>3, <2>1 DEF Owner
  <2>3. <<a, t>> \in StoredBits(Byte(a))
    BY ByteField
  <2>4. PICK n \in 0..1, q \in 0..3, e \in 0..1 : i = 192 + 8 * n + e + 2 * q
    <3>1. /\ (i - 192) \div 8 \in 0..1 /\ ((i - 192) % 8) \div 2 \in 0..3 /\ i % 2 \in 0..1
          /\ i = 192 + 8 * ((i - 192) \div 8) + (i % 2) + 2 * (((i - 192) % 8) \div 2)
      BY <1>3
    <3>. QED
      BY ONLY <3>1
  <2>5. PICK l \in 0..31 : l = 16 * e /\ l \div 16 = e
    <3>1. 16 * e \in 0..31 /\ (16 * e) \div 16 = e
      OBVIOUS
    <3>. QED
      BY <3>1
  <2>6. blk + 192 + 8 * n + l \div 16 + 2 * q = a
    BY <2>1, <2>4, <2>5
  <2>7. Byte(a) \in Q6KValues(blk, n, q, l)
    BY ONLY <2>6 DEF Q6KValues
  <2>. QED
    BY ONLY <2>1, <2>2, <2>3, <2>7, n \in 0..1, q \in 0..3, l \in 0..31
<1>4. CASE i \in 208..209
  <2>1. PICK a \in Nat : a = blk + 208
    OBVIOUS
  <2>2. blk + i = a \/ blk + i = a + 1
    BY <1>4, <2>1
  <2>3. <<blk + i, t>> \in StoredBits(Half(a))
    BY <2>2, HalfField
  <2>4. Owner("Q6_K", blk, i, t) = Half(a)
    BY <1>4, <2>1 DEF Owner
  <2>5. Half(a) \in Q6KValues(blk, 0, 0, 0)
    BY <2>1 DEF Q6KValues
  <2>6. 0 \in 0..1 /\ 0 \in 0..3 /\ 0 \in 0..31
    OBVIOUS
  <2>. QED
    BY ONLY <2>3, <2>4, <2>5, <2>6
<1>. QED
  BY <1>1, <1>2, <1>3, <1>4

LEMMA UsedUpQ6_K ==
  ASSUME NEW blk \in Nat
  PROVE  UsedUp("Q6_K", blk)
<1>1. PICK n, m : n = BlockColumns["Q6_K"] /\ m = BlockBytes["Q6_K"] /\ n - 1 = 255 /\ m - 1 = 209
  BY BlockShapes
<1>2. \A k \in 0..255 : \A v \in ValuesAt("Q6_K", blk, k) : Complete(v) /\ Owned("Q6_K", blk, v)
  <2>1. ASSUME NEW k \in 0..255, NEW v \in ValuesAt("Q6_K", blk, k)
        PROVE  Complete(v) /\ Owned("Q6_K", blk, v)
    <3>1. PICK b \in 0..1, q \in 0..3, l \in 0..31 : k = 128 * b + 32 * q + l
      BY PartsOfQ6_K
    <3>2. v \in Q6KValues(blk, b, q, l)
      <4>1. ValuesAt("Q6_K", blk, k) = Q6KValues(blk, b, q, l)
        <5>1. IsQ6KColumn(blk, 128 * b + 32 * q + l, b, q, l)
          BY ColumnsOfQ6_K
        <5>. QED
          BY ONLY <3>1, <5>1 DEF IsQ6KColumn
      <4>. QED
        BY ONLY <2>1, <4>1
    <3>. QED
      BY <3>2, OwnedQ6_K
  <2>. QED
    BY <2>1
<1>3. ASSUME NEW i \in 0..209, NEW t \in 0..7
      PROVE  HasBit("Q6_K", blk, Owner("Q6_K", blk, i, t), i, t)
  <2>1. PICK b \in 0..1, q \in 0..3, l \in 0..31 :
          Owner("Q6_K", blk, i, t) \in Q6KValues(blk, b, q, l)
    BY BitsOfQ6_K
  <2>2. PICK k : k = 128 * b + 32 * q + l
    OBVIOUS
  <2>3. k \in 0..255 /\ ValuesAt("Q6_K", blk, k) = Q6KValues(blk, b, q, l)
    <3>1. IsQ6KColumn(blk, 128 * b + 32 * q + l, b, q, l)
      BY ColumnsOfQ6_K
    <3>. QED
      BY ONLY <2>2, <3>1 DEF IsQ6KColumn
  <2>4. <<blk + i, t>> \in StoredBits(Owner("Q6_K", blk, i, t))
    BY BitsOfQ6_K
  <2>. QED
    BY ONLY <1>1, <2>1, <2>3, <2>4 DEF HasBit
<1>4. ASSUME NEW k \in 0..255, NEW j \in 0..255,
             Decoded("Q6_K", blk, k).quant = Decoded("Q6_K", blk, j).quant
      PROVE  k = j
  <2>1. PICK b \in 0..1, q \in 0..3, l \in 0..31 : k = 128 * b + 32 * q + l
    BY PartsOfQ6_K
  <2>2. PICK c \in 0..1, r \in 0..3, h \in 0..31 : j = 128 * c + 32 * r + h
    BY PartsOfQ6_K
  <2>3. PICK v, w : v = Q6KQuant(blk, b, q, l) /\ w = Q6KQuant(blk, c, r, h)
    OBVIOUS
  <2>4. v = w
    <3>1. Decoded("Q6_K", blk, k).quant = Q6KQuant(blk, b, q, l)
      <4>1. IsQ6KColumn(blk, 128 * b + 32 * q + l, b, q, l)
        BY ColumnsOfQ6_K
      <4>. QED
        BY ONLY <2>1, <4>1 DEF IsQ6KColumn
    <3>2. Decoded("Q6_K", blk, j).quant = Q6KQuant(blk, c, r, h)
      <4>1. IsQ6KColumn(blk, 128 * c + 32 * r + h, c, r, h)
        BY ColumnsOfQ6_K
      <4>. QED
        BY ONLY <2>2, <4>1 DEF IsQ6KColumn
    <3>. QED
      BY ONLY <1>4, <2>3, <3>1, <3>2
  <2>5. \A p : p \in StoredBits(v) <=>
          \/ \E t \in 0..7 : (t < 4 <=> q < 2) /\ p = <<Q6KLow(blk, b, q, l), t>>
          \/ \E t \in 2 * q..2 * q + 1 : p = <<Q6KHigh(blk, b, l), t>>
    <3>1. \A p : p \in StoredBits(Q6KQuant(blk, b, q, l)) <=>
            \/ \E t \in 0..7 : (t < 4 <=> q < 2) /\ p = <<Q6KLow(blk, b, q, l), t>>
            \/ \E t \in 2 * q..2 * q + 1 : p = <<Q6KHigh(blk, b, l), t>>
      <4>1. IsQ6KQuant(blk, b, q, l)
        BY Q6KField
      <4>. QED
        BY ONLY <4>1 DEF IsQ6KQuant
    <3>. QED
      BY ONLY <2>3, <3>1
  <2>6. \A p : p \in StoredBits(w) <=>
          \/ \E t \in 0..7 : (t < 4 <=> r < 2) /\ p = <<Q6KLow(blk, c, r, h), t>>
          \/ \E t \in 2 * r..2 * r + 1 : p = <<Q6KHigh(blk, c, h), t>>
    <3>1. \A p : p \in StoredBits(Q6KQuant(blk, c, r, h)) <=>
            \/ \E t \in 0..7 : (t < 4 <=> r < 2) /\ p = <<Q6KLow(blk, c, r, h), t>>
            \/ \E t \in 2 * r..2 * r + 1 : p = <<Q6KHigh(blk, c, h), t>>
      <4>1. IsQ6KQuant(blk, c, r, h)
        BY Q6KField
      <4>. QED
        BY ONLY <4>1 DEF IsQ6KQuant
    <3>. QED
      BY ONLY <2>3, <3>1
  <2>7. 2 * q \in 2 * q..2 * q + 1
    OBVIOUS
  <2>8. <<Q6KHigh(blk, b, l), 2 * q>> \in StoredBits(w)
    BY ONLY <2>4, <2>5, <2>7
  <2>9. Q6KHigh(blk, b, l) # Q6KLow(blk, c, r, h)
    BY DEF Q6KHigh, Q6KLow
  <2>10. Q6KHigh(blk, b, l) = Q6KHigh(blk, c, h) /\ 2 * q \in 2 * r..2 * r + 1
    BY ONLY <2>6, <2>8, <2>9
  <2>11. q = r /\ b = c /\ l = h
    BY <2>10 DEF Q6KHigh
  <2>. QED
    BY <2>1, <2>2, <2>11
<1>5. ASSUME NEW k \in 0..255
      PROVE  StoredBits(Decoded("Q6_K", blk, k).quant) # {}
  <2>1. PICK b \in 0..1, q \in 0..3, l \in 0..31 : k = 128 * b + 32 * q + l
    BY PartsOfQ6_K
  <2>2. Decoded("Q6_K", blk, k).quant = Q6KQuant(blk, b, q, l)
    <3>1. IsQ6KColumn(blk, 128 * b + 32 * q + l, b, q, l)
      BY ColumnsOfQ6_K
    <3>. QED
      BY ONLY <2>1, <3>1 DEF IsQ6KColumn
  <2>3. \A p : p \in StoredBits(Q6KQuant(blk, b, q, l)) <=>
          \/ \E t \in 0..7 : (t < 4 <=> q < 2) /\ p = <<Q6KLow(blk, b, q, l), t>>
          \/ \E t \in 2 * q..2 * q + 1 : p = <<Q6KHigh(blk, b, l), t>>
    <3>1. IsQ6KQuant(blk, b, q, l)
      BY Q6KField
    <3>. QED
      BY ONLY <3>1 DEF IsQ6KQuant
  <2>4. 2 * q \in 2 * q..2 * q + 1
    OBVIOUS
  <2>. QED
    BY ONLY <2>2, <2>3, <2>4
<1>6. 0..n - 1 = 0..255 /\ 0..m - 1 = 0..209
  BY <1>1
<1>7. \A i \in 0..m - 1, t \in 0..7 : HasBit("Q6_K", blk, Owner("Q6_K", blk, i, t), i, t)
  BY ONLY <1>3, <1>6
<1>8. \A k, j \in 0..n - 1 : Decoded("Q6_K", blk, k).quant = Decoded("Q6_K", blk, j).quant => k = j
  <2>1. \A k, j \in 0..255 : Decoded("Q6_K", blk, k).quant = Decoded("Q6_K", blk, j).quant => k = j
    BY <1>4, Zenon
  <2>. QED
    BY ONLY <1>6, <2>1, Zenon
<1>9. \A k \in 0..n - 1 : StoredBits(Decoded("Q6_K", blk, k).quant) # {}
  BY ONLY <1>5, <1>6
<1>10. \A k \in 0..n - 1 : \A v \in ValuesAt("Q6_K", blk, k) : Complete(v) /\ Owned("Q6_K", blk, v)
  BY ONLY <1>2, <1>6
<1>. QED
  BY ONLY <1>1, <1>7, <1>8, <1>9, <1>10 DEF UsedUp

\* In every format.
LEMMA BlocksAreUsedUp ==
  ASSUME NEW format \in Formats, NEW blk \in Nat
  PROVE  UsedUp(format, blk)
<1>1. format \in {"F16", "Q4_0", "Q8_0", "Q4_K", "Q6_K"}
  BY DEF Formats
<1>. QED
  BY <1>1, UsedUpF16, UsedUpQ4_0, UsedUpQ8_0, UsedUpQ4_K, UsedUpQ6_K

-----------------------------------------------------------------------------
(* Rows of whole blocks.                                                    *)

\* Byte i of block b is not byte j of another one.
LEMMA SamePlace ==
  ASSUME NEW m \in Nat \ {0}, NEW b \in Nat, NEW e \in Nat, NEW i \in 0..m - 1, NEW j \in 0..m - 1,
         m * b + i = m * e + j
  PROVE  b = e /\ i = j
<1>1. /\ (m * b + i) \div m = b /\ (m * b + i) % m = i
      /\ (m * e + j) \div m = e /\ (m * e + j) % m = j
  BY DivideBlock
<1>. QED
  BY <1>1

\* Every number below n * m is in one of n pieces of length m.
LEMMA PieceAndPlace ==
  ASSUME NEW n \in Nat, NEW m \in Nat \ {0}, NEW y \in 0..n * m - 1
  PROVE  \E b \in 0..n - 1, i \in 0..m - 1 : y = m * b + i
<1>1. n * m \in Nat
  BY ProductsOfNumbers
<1>2. PICK k \in 1..n * m : k = y + 1
  BY <1>1
<1>3. PICK b, i : b = (k - 1) \div m /\ i = (k - 1) % m
  OBVIOUS
<1>4. b \in 0..n - 1 /\ 1 + i \in 1..m /\ k = m * b + (1 + i)
  BY ONLY <1>3, PieceOf, n \in Nat, m \in Nat \ {0}, k \in 1..n * m
<1>5. i \in Nat
  <2>1. k - 1 \in Nat
    BY <1>1, <1>2
  <2>. QED
    BY <1>3, <2>1, Divide
<1>6. PICK p \in Nat : p = m * b
  BY <1>4, ProductsOfNumbers
<1>7. i \in 0..m - 1 /\ y = p + i
  BY <1>1, <1>2, <1>4, <1>5, <1>6
<1>. QED
  BY <1>4, <1>6, <1>7

\* Column c of a row is column k of its block b.
IsColumn(format, c, b, k) ==
  /\ c = BlockColumns[format] * b + k
  /\ Decoded(format, 0, c) = Decoded(format, BlockBytes[format] * b, k)

LEMMA ColumnOfBlock ==
  ASSUME NEW format \in Formats, NEW n \in Nat, NEW b \in 0..n - 1,
         NEW k \in 0..BlockColumns[format] - 1
  PROVE  \E c \in 0..n * BlockColumns[format] - 1 : IsColumn(format, c, b, k)
<1>1. PICK m : m = BlockColumns[format] /\ m \in Nat \ {0}
  BY BlockShapes
<1>2. b * m + k \in 0..n * m - 1
  BY <1>1, PlaceInAll
<1>3. PICK p \in Nat : p = m * b /\ p = b * m
  BY <1>1, ProductsOfNumbers
<1>4. PICK q \in Nat : q = BlockBytes[format] * b
  BY BlockShapes, ProductsOfNumbers
<1>5. Decoded(format, 0, m * b + k) = Decoded(format, 0 + BlockBytes[format] * b, k)
  BY <1>1, DecodedInBlock
<1>6. 0 + BlockBytes[format] * b = BlockBytes[format] * b
  BY <1>4
<1>7. IsColumn(format, m * b + k, b, k)
  BY ONLY <1>1, <1>5, <1>6 DEF IsColumn
<1>8. m * b + k \in 0..n * m - 1
  BY <1>2, <1>3
<1>. QED
  BY ONLY <1>1, <1>7, <1>8

LEMMA BlockOfColumn ==
  ASSUME NEW format \in Formats, NEW n \in Nat, NEW c \in 0..n * BlockColumns[format] - 1
  PROVE  \E b \in 0..n - 1, k \in 0..BlockColumns[format] - 1 : IsColumn(format, c, b, k)
<1>1. PICK m : m = BlockColumns[format] /\ m \in Nat \ {0}
  BY BlockShapes
<1>2. PICK b \in 0..n - 1, k \in 0..m - 1 : c = m * b + k
  BY <1>1, PieceAndPlace
<1>3. PICK d \in 0..n * m - 1 : IsColumn(format, d, b, k)
  BY <1>1, ColumnOfBlock
<1>4. d = c
  BY <1>1, <1>2, <1>3 DEF IsColumn
<1>. QED
  BY <1>1, <1>3, <1>4

\* The values of a row of n blocks.
IsValue(format, n, v) ==
  \E b \in 0..n - 1, k \in 0..BlockColumns[format] - 1 :
    v \in ValuesAt(format, BlockBytes[format] * b, k)

\* Bit t of byte i of block b.
BlockBit(format, b, i, t) == <<BlockBytes[format] * b + i, t>>

LEMMA BlockBitsDiffer ==
  ASSUME NEW format \in Formats, NEW b \in Nat, NEW e \in Nat,
         NEW i \in 0..BlockBytes[format] - 1, NEW j \in 0..BlockBytes[format] - 1, NEW t, NEW u,
         BlockBit(format, b, i, t) = BlockBit(format, e, j, u)
  PROVE  b = e /\ i = j /\ t = u
<1>1. PICK m : m = BlockBytes[format] /\ m \in Nat \ {0}
  BY BlockShapes
<1>2. m * b + i = m * e + j /\ t = u
  BY <1>1 DEF BlockBit
<1>. QED
  <2>1. i \in 0..m - 1 /\ j \in 0..m - 1
    BY <1>1
  <2>2. b = e /\ i = j
    BY ONLY <1>1, <1>2, <2>1, SamePlace, b \in Nat, e \in Nat
  <2>. QED
    BY <1>2, <2>2

LEMMA ValueOfBlock ==
  ASSUME NEW format \in Formats, NEW b \in Nat, NEW k \in 0..BlockColumns[format] - 1,
         NEW v \in ValuesAt(format, BlockBytes[format] * b, k)
  PROVE  /\ Complete(v)
         /\ \A p \in StoredBits(v) :
              \E i \in 0..BlockBytes[format] - 1, t \in 0..7 :
                p = BlockBit(format, b, i, t) /\ v = Owner(format, BlockBytes[format] * b, i, t)
<1>1. PICK blk \in Nat : blk = BlockBytes[format] * b
  BY BlockShapes, ProductsOfNumbers
<1>2. UsedUp(format, blk)
  BY BlocksAreUsedUp
<1>3. Complete(v) /\ Owned(format, blk, v)
  BY <1>1, <1>2 DEF UsedUp
<1>. QED
  BY ONLY <1>1, <1>3 DEF Owned, BlockBit

LEMMA BitsOfBlock ==
  ASSUME NEW format \in Formats, NEW b \in Nat, NEW i \in 0..BlockBytes[format] - 1, NEW t \in 0..7
  PROVE  \E k \in 0..BlockColumns[format] - 1 :
           \E v \in ValuesAt(format, BlockBytes[format] * b, k) :
             BlockBit(format, b, i, t) \in StoredBits(v)
<1>1. PICK blk \in Nat : blk = BlockBytes[format] * b
  BY BlockShapes, ProductsOfNumbers
<1>2. UsedUp(format, blk)
  BY BlocksAreUsedUp
<1>3. HasBit(format, blk, Owner(format, blk, i, t), i, t)
  BY <1>2 DEF UsedUp
<1>. QED
  BY ONLY <1>1, <1>3 DEF HasBit, BlockBit

\* A bit is stored in one value only.
LEMMA OneValuePerBit ==
  ASSUME NEW format \in Formats, NEW n \in Nat,
         NEW v, IsValue(format, n, v), NEW w, IsValue(format, n, w),
         NEW p, p \in StoredBits(v), p \in StoredBits(w)
  PROVE  v = w
<1>1. PICK b \in 0..n - 1, k \in 0..BlockColumns[format] - 1 :
        v \in ValuesAt(format, BlockBytes[format] * b, k)
  BY DEF IsValue
<1>2. PICK e \in 0..n - 1, j \in 0..BlockColumns[format] - 1 :
        w \in ValuesAt(format, BlockBytes[format] * e, j)
  BY DEF IsValue
<1>3. PICK i \in 0..BlockBytes[format] - 1, t \in 0..7 :
        p = BlockBit(format, b, i, t) /\ v = Owner(format, BlockBytes[format] * b, i, t)
  BY <1>1, ValueOfBlock
<1>4. PICK h \in 0..BlockBytes[format] - 1, u \in 0..7 :
        p = BlockBit(format, e, h, u) /\ w = Owner(format, BlockBytes[format] * e, h, u)
  BY <1>2, ValueOfBlock
<1>5. b = e /\ i = h /\ t = u
  <2>1. b \in Nat /\ e \in Nat
    OBVIOUS
  <2>2. BlockBit(format, b, i, t) = BlockBit(format, e, h, u)
    BY <1>3, <1>4
  <2>. QED
    BY <2>1, <2>2, BlockBitsDiffer
<1>. QED
  BY ONLY <1>3, <1>4, <1>5

\* The bits of the values are the bits of the row.
LEMMA BitsOfRow ==
  ASSUME NEW format \in Formats, NEW n \in Nat, NEW p
  PROVE  (\E v : IsValue(format, n, v) /\ p \in StoredBits(v))
           <=> p \in (0..n * BlockBytes[format] - 1) \X (0..7)
<1>1. PICK m : m = BlockBytes[format] /\ m \in Nat \ {0}
  BY BlockShapes
<1>2. ASSUME NEW v, IsValue(format, n, v), p \in StoredBits(v)
      PROVE  p \in (0..n * m - 1) \X (0..7)
  <2>1. PICK b \in 0..n - 1, k \in 0..BlockColumns[format] - 1 :
          v \in ValuesAt(format, BlockBytes[format] * b, k)
    BY <1>2 DEF IsValue
  <2>2. PICK i \in 0..BlockBytes[format] - 1, t \in 0..7 : p = BlockBit(format, b, i, t)
    BY <1>2, <2>1, ValueOfBlock
  <2>3. b * m + i \in 0..n * m - 1
    BY <1>1, PlaceInAll
  <2>4. m * b + i = b * m + i
    BY <1>1
  <2>. QED
    BY ONLY <1>1, <2>2, <2>3, <2>4, t \in 0..7 DEF BlockBit
<1>3. ASSUME NEW y \in 0..n * m - 1, NEW t \in 0..7, p = <<y, t>>
      PROVE  \E v : IsValue(format, n, v) /\ p \in StoredBits(v)
  <2>1. PICK b \in 0..n - 1, i \in 0..m - 1 : y = m * b + i
    BY <1>1, PieceAndPlace
  <2>2. PICK k \in 0..BlockColumns[format] - 1 :
          \E v \in ValuesAt(format, BlockBytes[format] * b, k) :
            BlockBit(format, b, i, t) \in StoredBits(v)
    <3>1. b \in Nat /\ i \in 0..BlockBytes[format] - 1
      BY <1>1
    <3>. QED
      BY <3>1, BitsOfBlock
  <2>3. PICK v \in ValuesAt(format, BlockBytes[format] * b, k) : BlockBit(format, b, i, t) \in StoredBits(v)
    BY <2>2
  <2>4. IsValue(format, n, v)
    BY <2>3 DEF IsValue
  <2>5. p = BlockBit(format, b, i, t)
    BY <1>1, <1>3, <2>1 DEF BlockBit
  <2>. QED
    BY ONLY <2>3, <2>4, <2>5
<1>. QED
  BY ONLY <1>1, <1>2, <1>3

\* The quants of different columns are different.
LEMMA QuantsDiffer ==
  ASSUME NEW format \in Formats, NEW n \in Nat,
         NEW c \in 0..n * BlockColumns[format] - 1, NEW d \in 0..n * BlockColumns[format] - 1,
         Decoded(format, 0, c).quant = Decoded(format, 0, d).quant
  PROVE  c = d
<1>1. PICK b \in 0..n - 1, k \in 0..BlockColumns[format] - 1 : IsColumn(format, c, b, k)
  BY BlockOfColumn
<1>2. PICK e \in 0..n - 1, j \in 0..BlockColumns[format] - 1 : IsColumn(format, d, e, j)
  BY BlockOfColumn
<1>3. PICK x, y : x = BlockBytes[format] * b /\ y = BlockBytes[format] * e /\ x \in Nat /\ y \in Nat
  <2>1. BlockBytes[format] * b \in Nat /\ BlockBytes[format] * e \in Nat
    BY BlockShapes, ProductsOfNumbers
  <2>. QED
    BY <2>1
<1>4. PICK v : v = Decoded(format, x, k).quant /\ v = Decoded(format, y, j).quant
  BY <1>1, <1>2, <1>3 DEF IsColumn
<1>5. v \in ValuesAt(format, x, k) /\ v \in ValuesAt(format, y, j)
  BY ONLY <1>4 DEF ValuesAt
<1>6. UsedUp(format, x)
  BY <1>3, BlocksAreUsedUp
<1>7. PICK p : p \in StoredBits(v)
  <2>1. StoredBits(Decoded(format, x, k).quant) # {}
    BY <1>6 DEF UsedUp
  <2>. QED
    BY ONLY <1>4, <2>1
<1>8. PICK i \in 0..BlockBytes[format] - 1, t \in 0..7 : p = BlockBit(format, b, i, t)
  BY <1>3, <1>5, <1>7, ValueOfBlock
<1>9. PICK h \in 0..BlockBytes[format] - 1, u \in 0..7 : p = BlockBit(format, e, h, u)
  BY <1>3, <1>5, <1>7, ValueOfBlock
<1>10. b = e
  <2>1. b \in Nat /\ e \in Nat
    OBVIOUS
  <2>2. BlockBit(format, b, i, t) = BlockBit(format, e, h, u)
    BY <1>8, <1>9
  <2>. QED
    BY <2>1, <2>2, BlockBitsDiffer
<1>11. Decoded(format, x, k).quant = Decoded(format, x, j).quant
  BY <1>3, <1>4, <1>10
<1>12. k = j
  BY <1>6, <1>11 DEF UsedUp
<1>. QED
  BY <1>1, <1>2, <1>10, <1>12 DEF IsColumn

\* The weights of a row of n blocks, and their values.
RowWeights(format, cols) == {Decoded(format, 0, c) : c \in 0..cols - 1}
ValuesIn(weights) == UNION {{w.quant} \cup w.scale \cup w.less : w \in weights}

LEMMA RowValues ==
  ASSUME NEW format \in Formats, NEW n \in Nat, NEW v
  PROVE  v \in ValuesIn(RowWeights(format, n * BlockColumns[format])) <=> IsValue(format, n, v)
<1>1. PICK cols : cols = n * BlockColumns[format]
  OBVIOUS
<1>2. v \in ValuesIn(RowWeights(format, cols)) <=> \E c \in 0..cols - 1 : v \in ValuesAt(format, 0, c)
  BY DEF ValuesIn, RowWeights, ValuesAt
<1>3. ASSUME NEW c \in 0..cols - 1, v \in ValuesAt(format, 0, c)
      PROVE  IsValue(format, n, v)
  <2>1. PICK b \in 0..n - 1, k \in 0..BlockColumns[format] - 1 : IsColumn(format, c, b, k)
    BY <1>1, BlockOfColumn
  <2>2. v \in ValuesAt(format, BlockBytes[format] * b, k)
    BY ONLY <1>3, <2>1 DEF IsColumn, ValuesAt
  <2>. QED
    BY <2>2 DEF IsValue
<1>4. ASSUME IsValue(format, n, v)
      PROVE  \E c \in 0..cols - 1 : v \in ValuesAt(format, 0, c)
  <2>1. PICK b \in 0..n - 1, k \in 0..BlockColumns[format] - 1 :
          v \in ValuesAt(format, BlockBytes[format] * b, k)
    BY <1>4 DEF IsValue
  <2>2. PICK c \in 0..cols - 1 : IsColumn(format, c, b, k)
    BY <1>1, ColumnOfBlock
  <2>3. v \in ValuesAt(format, 0, c)
    BY ONLY <2>1, <2>2 DEF IsColumn, ValuesAt
  <2>. QED
    BY <2>3
<1>. QED
  BY ONLY <1>1, <1>2, <1>3, <1>4

LEMMA AsManyQuantsAsColumns ==
  ASSUME NEW format \in Formats, NEW n \in Nat, NEW cols \in Nat, cols = n * BlockColumns[format]
  PROVE  Cardinality({w.quant : w \in RowWeights(format, cols)}) = cols
<1>1. PICK quants : quants = {w.quant : w \in RowWeights(format, cols)}
  OBVIOUS
<1>2. \A q : q \in quants <=> \E c \in 0..cols - 1 : q = Decoded(format, 0, c).quant
  BY <1>1 DEF RowWeights
<1>3. PICK g : g = [i \in 1..cols |-> Decoded(format, 0, i - 1).quant]
  OBVIOUS
<1>4. g \in [1..cols -> quants]
  <2>1. ASSUME NEW i \in 1..cols
        PROVE  Decoded(format, 0, i - 1).quant \in quants
    <3>1. i - 1 \in 0..cols - 1
      OBVIOUS
    <3>. QED
      BY <1>2, <3>1
  <2>. QED
    BY <1>3, <2>1
<1>5. ASSUME NEW i \in 1..cols, NEW j \in 1..cols, g[i] = g[j]
      PROVE  i = j
  <2>1. PICK c, d : c = i - 1 /\ d = j - 1 /\ c \in 0..cols - 1 /\ d \in 0..cols - 1
    OBVIOUS
  <2>2. Decoded(format, 0, c).quant = Decoded(format, 0, d).quant
    BY <1>3, <1>5, <2>1
  <2>3. c = d
    BY <2>1, <2>2, QuantsDiffer
  <2>. QED
    BY <2>1, <2>3
<1>6. ASSUME NEW q \in quants
      PROVE  \E i \in 1..cols : g[i] = q
  <2>1. PICK c \in 0..cols - 1 : q = Decoded(format, 0, c).quant
    BY <1>2
  <2>2. c + 1 \in 1..cols /\ (c + 1) - 1 = c
    OBVIOUS
  <2>. QED
    BY <1>3, <2>1, <2>2
<1>7. Cardinality(quants) = cols
  BY ONLY <1>4, <1>5, <1>6, Counted, cols \in Nat
<1>. QED
  BY <1>1, <1>7

\* Bits of values are as many as the bits of the row.
LEMMA AsManyBitsAsStored ==
  ASSUME NEW format \in Formats, NEW n \in Nat, NEW values,
         \A v : v \in values <=> IsValue(format, n, v)
  PROVE  /\ UNION {StoredBits(v) : v \in values} = (0..n * BlockBytes[format] - 1) \X (0..7)
         /\ Cardinality(UNION {{v} \X StoredBits(v) : v \in values}) = 8 * (n * BlockBytes[format])
<1>1. PICK r \in Nat : r = n * BlockBytes[format]
  BY BlockShapes, ProductsOfNumbers
<1>2. PICK T : T = (0..r - 1) \X (0..7)
  OBVIOUS
<1>3. \A p : (\E v \in values : p \in StoredBits(v)) <=> p \in T
  <2>1. ASSUME NEW p
        PROVE  (\E v : IsValue(format, n, v) /\ p \in StoredBits(v)) <=> p \in T
    BY <1>1, <1>2, BitsOfRow
  <2>. QED
    BY ONLY <2>1, \A v : v \in values <=> IsValue(format, n, v)
<1>4. UNION {StoredBits(v) : v \in values} = T
  BY ONLY <1>3
<1>5. PICK P : P = UNION {{v} \X StoredBits(v) : v \in values}
  OBVIOUS
<1>6. \A x : x \in P <=> \E v \in values : \E p \in StoredBits(v) : x = <<v, p>>
  BY ONLY <1>5
<1>7. PICK g : g = [x \in P |-> x[2]]
  OBVIOUS
<1>8. g \in [P -> T]
  BY ONLY <1>3, <1>6, <1>7
<1>9. ASSUME NEW x \in P, NEW y \in P, g[x] = g[y]
      PROVE  x = y
  <2>1. PICK v \in values : \E p \in StoredBits(v) : x = <<v, p>>
    BY <1>6
  <2>2. PICK w \in values : \E q \in StoredBits(w) : y = <<w, q>>
    BY <1>6
  <2>3. PICK p \in StoredBits(v) : x = <<v, p>>
    BY <2>1
  <2>4. PICK q \in StoredBits(w) : y = <<w, q>>
    BY <2>2
  <2>5. p = q
    BY <1>7, <1>9, <2>3, <2>4
  <2>6. IsValue(format, n, v) /\ IsValue(format, n, w)
    OBVIOUS
  <2>7. v = w
    BY <2>5, <2>6, OneValuePerBit
  <2>. QED
    BY <2>3, <2>4, <2>5, <2>7
<1>10. ASSUME NEW p \in T
       PROVE  \E x \in P : g[x] = p
  <2>1. PICK v \in values : p \in StoredBits(v)
    BY <1>3
  <2>2. <<v, p>> \in P
    BY <1>6, <2>1
  <2>. QED
    BY <1>7, <2>2
<1>11. IsFiniteSet(T) /\ Cardinality(T) = 8 * r
  <2>1. IsFiniteSet(0..r - 1) /\ Cardinality(0..r - 1) = r
    <3>1. 0 \in Int /\ r - 1 \in Int
      OBVIOUS
    <3>. QED
      BY <3>1, FS_Interval
  <2>2. IsFiniteSet(0..7) /\ Cardinality(0..7) = 8
    <3>1. PICK a, b : a = 0 /\ b = 7 /\ a \in Int /\ b \in Int
      OBVIOUS
    <3>2. IsFiniteSet(a..b) /\ Cardinality(a..b) = IF a > b THEN 0 ELSE b - a + 1
      BY ONLY <3>1, FS_Interval
    <3>. QED
      BY <3>1, <3>2
  <2>3. IsFiniteSet(T) /\ Cardinality(T) = Cardinality(0..r - 1) * Cardinality(0..7)
    BY <1>2, <2>1, <2>2, FS_Product
  <2>. QED
    BY <2>1, <2>2, <2>3
<1>12. Cardinality(P) = Cardinality(T)
  BY ONLY <1>8, <1>9, <1>10, <1>11, SameCount
<1>. QED
  BY ONLY <1>1, <1>2, <1>4, <1>5, <1>11, <1>12

\* A row of whole blocks.
RowUsedUp(format, cols, weights) ==
  /\ Cardinality({w.quant : w \in weights}) = cols
  /\ \A v \in ValuesIn(weights) : IsWhole(v, Cardinality(StoredBits(v)))
  /\ UNION {StoredBits(v) : v \in ValuesIn(weights)} = (0..RowBytes(format, cols) - 1) \X (0..7)
  /\ Cardinality(UNION {{v} \X StoredBits(v) : v \in ValuesIn(weights)}) = 8 * RowBytes(format, cols)

LEMMA RowIsUsedUp ==
  ASSUME NEW format \in Formats, NEW cols \in Nat, cols % BlockColumns[format] = 0
  PROVE  RowUsedUp(format, cols, RowWeights(format, cols))
<1>0. PICK weights : weights = RowWeights(format, cols)
  OBVIOUS
<1>1. PICK n \in Nat : cols = n * BlockColumns[format]
  BY WholeBlocks
<1>2. RowBytes(format, cols) = n * BlockBytes[format]
  BY <1>1, BlocksOfRow DEF RowBytes
<1>3. PICK values : values = ValuesIn(weights)
  OBVIOUS
<1>4. \A v : v \in values <=> IsValue(format, n, v)
  BY <1>0, <1>1, <1>3, RowValues
<1>5. Cardinality({w.quant : w \in weights}) = cols
  BY <1>0, <1>1, AsManyQuantsAsColumns
<1>6. \A v \in values : IsWhole(v, Cardinality(StoredBits(v)))
  <2>1. ASSUME NEW v \in values
        PROVE  Complete(v)
    <3>1. PICK b \in 0..n - 1, k \in 0..BlockColumns[format] - 1 :
            v \in ValuesAt(format, BlockBytes[format] * b, k)
      BY <1>4 DEF IsValue
    <3>. QED
      BY <3>1, ValueOfBlock
  <2>. QED
    BY ONLY <2>1 DEF Complete
<1>7. /\ UNION {StoredBits(v) : v \in values} = (0..n * BlockBytes[format] - 1) \X (0..7)
      /\ Cardinality(UNION {{v} \X StoredBits(v) : v \in values}) = 8 * (n * BlockBytes[format])
  BY ONLY <1>4, AsManyBitsAsStored, format \in Formats, n \in Nat
<1>. QED
  BY ONLY <1>0, <1>2, <1>3, <1>5, <1>6, <1>7 DEF RowUsedUp

\* Decoding: every bit of a row of any number of whole blocks, in every format, belongs
\* to one value of it, the values are complete, and no two columns share a quant.
THEOREM EveryBitIsDecoded == Spec => []DecodingLosesNothing
<1>1. KernelInv => DecodingLosesNothing
  <2>1. SUFFICES ASSUME KernelInv, IsMatrix(call)
                 PROVE  LET weights == {Decoded(call.format, 0, c) : c \in 0..call.cols - 1}
                            values == UNION {{w.quant} \cup w.scale \cup w.less : w \in weights}
                        IN /\ Cardinality({w.quant : w \in weights}) = call.cols
                           /\ \A v \in values : IsWhole(v, Cardinality(StoredBits(v)))
                           /\ UNION {StoredBits(v) : v \in values} =
                                (0..RowBytes(call.format, call.cols) - 1) \X (0..7)
                           /\ Cardinality(UNION {{v} \X StoredBits(v) : v \in values}) =
                                8 * RowBytes(call.format, call.cols)
    BY DEF DecodingLosesNothing
  <2>2. call \in Shapes
    <3>1. call \in (UNION ToSet(Calls)) \cup {NoCall}
      BY <2>1 DEF KernelInv, TypeOK
    <3>2. call # NoCall
      BY <2>1 DEF IsMatrix, NoCall
    <3>. QED
      BY <3>1, <3>2, CallsAreShapes
  <2>3. call.format \in Formats /\ call.cols \in Nat /\ call.cols % BlockColumns[call.format] = 0
    BY <2>1, <2>2, MatrixShape
  <2>4. PICK format, cols, weights : format = call.format /\ cols = call.cols
                                     /\ weights = RowWeights(format, cols)
    OBVIOUS
  <2>5. /\ Cardinality({w.quant : w \in weights}) = cols
        /\ \A v \in ValuesIn(weights) : IsWhole(v, Cardinality(StoredBits(v)))
        /\ UNION {StoredBits(v) : v \in ValuesIn(weights)} = (0..RowBytes(format, cols) - 1) \X (0..7)
        /\ Cardinality(UNION {{v} \X StoredBits(v) : v \in ValuesIn(weights)})
             = 8 * RowBytes(format, cols)
    <3>1. RowUsedUp(call.format, call.cols, RowWeights(call.format, call.cols))
      BY <2>3, RowIsUsedUp
    <3>. QED
      BY ONLY <2>4, <3>1 DEF RowUsedUp
  <2>6. weights = {Decoded(call.format, 0, c) : c \in 0..call.cols - 1}
    BY ONLY <2>4 DEF RowWeights
  <2>7. ValuesIn(weights) = UNION {{w.quant} \cup w.scale \cup w.less : w \in weights}
    BY DEF ValuesIn
  <2>. QED
    BY ONLY <2>4, <2>5, <2>6, <2>7, Zenon
<1>. QED
  BY <1>1, KernelInvHolds, PTL
=============================================================================
