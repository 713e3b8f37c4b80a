------------------------------ MODULE ModArith ------------------------------
(***************************************************************************)
(* Facts about positions modulo the size n of a ring buffer, for the       *)
(* proofs about windows that wrap around.  They are what lets a position   *)
(* modulo n be read as a block of the file.                                *)
(***************************************************************************)
EXTENDS Integers, TLAPS

\* A position modulo n is a slot of the buffer.
LEMMA ModType ==
  ASSUME NEW n \in Nat \ {0}, NEW i \in Nat
  PROVE  i % n \in 0..n-1
OBVIOUS

\* Division with remainder.
LEMMA ModDef ==
  ASSUME NEW n \in Nat \ {0}, NEW i \in Nat
  PROVE  \E q \in Nat : i = n * q + (i % n)
<1>1. i \div n \in Nat /\ i = n * (i \div n) + (i % n)
  OBVIOUS
<1> QED
  BY <1>1

\* The remainder is the only one.
LEMMA ModUnique ==
  ASSUME NEW n \in Nat \ {0}, NEW i \in Nat, NEW q \in Nat, NEW r \in 0..n-1,
         i = n * q + r
  PROVE  i % n = r
OBVIOUS

\* Moving by less than a turn of the buffer.
LEMMA ModShift ==
  ASSUME NEW n \in Nat \ {0}, NEW b \in Nat, NEW d \in Int, -n <= d, d <= n, b + d >= 0
  PROVE  (b + d) % n = IF (b % n) + d < 0 THEN (b % n) + d + n
                       ELSE IF (b % n) + d < n THEN (b % n) + d
                       ELSE (b % n) + d - n
<1> DEFINE r == b % n
<1>1. PICK q \in Nat : b = n * q + r
  BY ModDef
<1>2. r \in 0..n-1
  BY ModType
<1> HIDE DEF r
<1>3. CASE r + d < 0
  <2>1. q >= 1
    <3>1. q # 0
      BY <1>1, <1>2, <1>3
    <3> QED
      BY <3>1
  <2>2. n * (q - 1) = n * q - n
    OBVIOUS
  <2>3. b + d = n * (q - 1) + (r + d + n)
    BY <1>1, <1>2, <2>2
  <2>4. q - 1 \in Nat /\ r + d + n \in 0..n-1 /\ b + d \in Nat
    BY <2>1, <1>2, <1>3
  <2>5. (b + d) % n = r + d + n
    BY <2>3, <2>4, ModUnique
  <2> QED
    BY <2>5, <1>3 DEF r
<1>4. CASE r + d >= 0 /\ r + d < n
  <2>1. b + d = n * q + (r + d)
    BY <1>1, <1>2
  <2>2. r + d \in 0..n-1 /\ b + d \in Nat
    BY <1>2, <1>4
  <2>3. (b + d) % n = r + d
    BY <2>1, <2>2, ModUnique
  <2> QED
    BY <2>3, <1>4, <1>2 DEF r
<1>5. CASE r + d >= n
  <2>1. n * (q + 1) = n * q + n
    OBVIOUS
  <2>2. b + d = n * (q + 1) + (r + d - n)
    BY <1>1, <1>2, <2>1
  <2>3. q + 1 \in Nat /\ r + d - n \in 0..n-1 /\ b + d \in Nat
    BY <1>2, <1>5
  <2>4. (b + d) % n = r + d - n
    BY <2>2, <2>3, ModUnique
  <2> QED
    BY <2>4, <1>5, <1>2 DEF r
<1> QED
  BY <1>2, <1>3, <1>4, <1>5

\* Two places less than a turn apart have different slots.
LEMMA ModInjective ==
  ASSUME NEW n \in Nat \ {0}, NEW i \in Nat, NEW j \in Nat,
         i < j + n, j < i + n, i % n = j % n
  PROVE  i = j
<1> DEFINE d == j - i
<1>1. d \in Int /\ -n <= d /\ d <= n /\ d < n /\ -n < d /\ i + d >= 0 /\ i + d = j
  OBVIOUS
<1>2. i % n \in 0..n-1
  BY ModType
<1> HIDE DEF d
<1>3. j % n = IF (i % n) + d < 0 THEN (i % n) + d + n
              ELSE IF (i % n) + d < n THEN (i % n) + d
              ELSE (i % n) + d - n
  BY <1>1, ModShift
<1>4. d = 0
  BY <1>1, <1>2, <1>3
<1> QED
  BY <1>1, <1>4

\* Moving on from a slot.
LEMMA ModAdd ==
  ASSUME NEW n \in Nat \ {0}, NEW b \in Nat, NEW k \in 0..n
  PROVE  ((b % n) + k) % n = (b + k) % n
<1> DEFINE r == b % n
<1>1. r \in 0..n-1 /\ r \in Nat
  BY ModType
<1>2. k \in Int /\ -n <= k /\ k <= n /\ b + k >= 0 /\ r + k >= 0
  BY <1>1
<1>3. (b + k) % n = IF r + k < 0 THEN r + k + n
                    ELSE IF r + k < n THEN r + k ELSE r + k - n
  BY <1>2, ModShift
<1>4. r % n = r
  BY <1>1
<1> HIDE DEF r
<1>5. (r + k) % n = IF (r % n) + k < 0 THEN (r % n) + k + n
                    ELSE IF (r % n) + k < n THEN (r % n) + k ELSE (r % n) + k - n
  BY <1>1, <1>2, ModShift
<1>6. (r + k) % n = (b + k) % n
  BY <1>3, <1>4, <1>5
<1> QED
  BY <1>6 DEF r

\* The three-way test of a window of w slots from b on, which may wrap around
\* the end of the buffer, tells the places of the window from those of the
\* n - w places before it.
LEMMA WindowTest ==
  ASSUME NEW n \in Nat \ {0}, NEW w \in 1..n-1, NEW b \in Nat, NEW i \in Nat,
         b <= i + (n - w), i < b + w
  PROVE  LET base == b % n
             top  == (base + w) % n
             s    == i % n
         IN  /\ base < top => top = base + w
             /\ i >= b <=> \/ base < top /\ s >= base /\ s < top
                           \/ base >= top /\ (s >= base \/ s < top)
<1> DEFINE base == b % n
           top  == (base + w) % n
           s    == i % n
           d    == i - b
<1>1. base \in 0..n-1
  BY ModType
<1>2. top = IF base + w < n THEN base + w ELSE base + w - n
  <2>1. w \in 0..n /\ w \in Int /\ -n <= w /\ w <= n /\ b + w >= 0
    OBVIOUS
  <2>2. top = (b + w) % n
    BY <2>1, ModAdd
  <2>3. (b + w) % n = IF base + w < 0 THEN base + w + n
                      ELSE IF base + w < n THEN base + w ELSE base + w - n
    BY <2>1, ModShift
  <2> HIDE DEF base
  <2> QED
    BY <1>1, <2>2, <2>3
<1>3. d \in Int /\ -(n - w) <= d /\ d < w /\ -n <= d /\ d <= n /\ b + d >= 0 /\ b + d = i
  OBVIOUS
<1> HIDE DEF d
<1>4. s = IF base + d < 0 THEN base + d + n
          ELSE IF base + d < n THEN base + d
          ELSE base + d - n
  BY <1>3, ModShift
<1>5. i >= b <=> d >= 0
  BY <1>3
<1> HIDE DEF base, top, s
<1>6. base < top => top = base + w
  BY <1>1, <1>2
<1>7. d >= 0 <=> \/ base < top /\ s >= base /\ s < top
                 \/ base >= top /\ (s >= base \/ s < top)
  BY <1>1, <1>2, <1>3, <1>4
<1> QED
  BY <1>5, <1>6, <1>7 DEF base, top, s
=============================================================================
