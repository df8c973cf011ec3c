----------------------- MODULE InstructionQueuePoints -----------------------
(* Lemmas about the operators of InstructionQueue: the cells of a sweep in  *)
(* the order of their cycles, the points of a packet in the order of their  *)
(* offsets, and the cycles a command takes.                                 *)
EXTENDS InstructionQueue, FiniteSetTheorems, SequenceTheorems, WellFoundedInduction, TLAPS
----------------------------------------------------------------------------
(* Sweeps: the cells of a packet in the order of their cycles.              *)

(* A product grows with its first factor.                                   *)
LEMMA Monotone ==
  ASSUME NEW a \in Int, NEW b \in Int, NEW s \in Nat, a <= b
  PROVE  a * s \in Int /\ b * s \in Int /\ a * s <= b * s
<1>1. (b - a) * s >= 0
  <2>1. b - a \in Nat
    OBVIOUS
  <2>2. \A m \in Nat : m * s \in Nat
    OBVIOUS
  <2> QED
    BY <2>1, <2>2
<1>2. (b - a) * s = b * s - a * s
  OBVIOUS
<1> QED
  BY <1>1, <1>2

(* One more of the first factor adds the second.                            *)
LEMMA Carry ==
  ASSUME NEW a \in Int, NEW b \in Int, NEW s \in Nat, a < b
  PROVE  a * s \in Int /\ b * s \in Int /\ a * s + s <= b * s
<1>1. (a + 1) * s <= b * s
  BY Monotone
<1>2. (a + 1) * s = a * s + s
  OBVIOUS
<1> QED
  BY <1>1, <1>2

(* The order of two dimensions, the second the outer one.                   *)
Before2(x, y) == x[2] < y[2] \/ (x[2] = y[2] /\ x[1] < y[1])
Off2(s, x) == x[1] * s[1] + x[2] * s[2]
Cells2(c) == (0 .. c[1] - 1) \X (0 .. c[2] - 1)
Dense2(c, s) ==
  /\ {c[1], c[2], s[1], s[2]} \subseteq Nat \ {0}
  /\ c[2] > 1 => s[2] > (c[1] - 1) * s[1]

(* In two dimensions a cell that comes later in the sweep is due later: the *)
(* strides the encoders accept never fold back.                             *)
LEMMA Order2 ==
  ASSUME NEW c, NEW s, Dense2(c, s), NEW x \in Cells2(c), NEW y \in Cells2(c), Before2(x, y)
  PROVE  Off2(s, x) \in Nat /\ Off2(s, y) \in Nat /\ Off2(s, x) < Off2(s, y)
<1> DEFINE p1 == x[1] * s[1]
           p2 == x[2] * s[2]
           q1 == y[1] * s[1]
           q2 == y[2] * s[2]
           m  == (c[1] - 1) * s[1]
<1>1. /\ x[1] \in Nat /\ x[2] \in Nat /\ y[1] \in Nat /\ y[2] \in Nat
      /\ x[1] <= c[1] - 1 /\ y[1] <= c[1] - 1 /\ x[2] <= c[2] - 1 /\ y[2] <= c[2] - 1
      /\ s[1] \in Nat \ {0} /\ s[2] \in Nat \ {0} /\ c[1] \in Nat \ {0} /\ c[2] \in Nat \ {0}
  BY DEF Cells2, Dense2
<1>2. p1 \in Nat /\ p2 \in Nat /\ q1 \in Nat /\ q2 \in Nat /\ m \in Nat
  BY <1>1
<1>3. p1 <= m
  BY <1>1, Monotone
<1>4. CASE x[2] < y[2]
  <2>1. p2 + s[2] <= q2
    BY <1>1, <1>4, Carry
  <2>2. s[2] > m
    BY <1>1, <1>4 DEF Dense2
  <2> HIDE DEF p1, p2, q1, q2, m
  <2>3. p1 + p2 < q1 + q2
    BY <1>1, <1>2, <1>3, <2>1, <2>2
  <2>4. p1 + p2 \in Nat /\ q1 + q2 \in Nat
    BY <1>2
  <2> QED
    BY <2>3, <2>4 DEF Off2, p1, p2, q1, q2
<1>5. CASE x[2] = y[2] /\ x[1] < y[1]
  <2>1. p1 + s[1] <= q1
    BY <1>1, <1>5, Carry
  <2>2. p2 = q2
    BY <1>5
  <2> HIDE DEF p1, p2, q1, q2, m
  <2>3. p1 + p2 < q1 + q2
    BY <1>1, <1>2, <2>1, <2>2
  <2>4. p1 + p2 \in Nat /\ q1 + q2 \in Nat
    BY <1>2
  <2> QED
    BY <2>3, <2>4 DEF Off2, p1, p2, q1, q2
<1> QED
  BY <1>4, <1>5 DEF Before2

(* What follows a cell is the next one, and nothing lies between.           *)
Next2(c, x) == IF x[1] + 1 = c[1] THEN <<0, x[2] + 1>> ELSE <<x[1] + 1, x[2]>>

(* The cell the counter goes to next is the next one due, and it runs over  *)
(* at the last cell only.                                                   *)
LEMMA Follow2 ==
  ASSUME NEW c, NEW s, Dense2(c, s), NEW x \in Cells2(c)
  PROVE  /\ Next2(c, x)[2] # c[2] =>
              /\ Next2(c, x) \in Cells2(c) /\ Off2(s, x) < Off2(s, Next2(c, x))
              /\ \A y \in Cells2(c) : Off2(s, y) <= Off2(s, x) \/ Off2(s, Next2(c, x)) <= Off2(s, y)
         /\ Next2(c, x)[2] = c[2] =>
              x = <<c[1] - 1, c[2] - 1>> /\ \A y \in Cells2(c) : Off2(s, y) <= Off2(s, x)
<1>1. /\ x[1] \in Nat /\ x[2] \in Nat /\ x[1] <= c[1] - 1 /\ x[2] <= c[2] - 1 /\ x = <<x[1], x[2]>>
      /\ s[1] \in Nat \ {0} /\ s[2] \in Nat \ {0} /\ c[1] \in Nat \ {0} /\ c[2] \in Nat \ {0}
  BY DEF Cells2, Dense2
<1>2. \A y \in Cells2(c) : /\ y[1] \in Nat /\ y[2] \in Nat /\ y[1] <= c[1] - 1 /\ y[2] <= c[2] - 1
                           /\ y = <<y[1], y[2]>> /\ Off2(s, y) \in Int
  BY <1>1 DEF Cells2, Off2
<1>3. \A y, z \in Cells2(c) : Before2(y, z) => Off2(s, y) < Off2(s, z)
  BY Order2
<1>4. CASE Next2(c, x)[2] # c[2]
  <2>1. Next2(c, x) \in Cells2(c) /\ Before2(x, Next2(c, x))
    BY <1>1, <1>4 DEF Next2, Cells2, Before2
  <2>2. ASSUME NEW y \in Cells2(c)
        PROVE  y = x \/ Before2(y, x) \/ y = Next2(c, x) \/ Before2(Next2(c, x), y)
    <3>1. y = <<y[1], y[2]>> /\ y[1] \in Nat /\ y[2] \in Nat /\ y[1] <= c[1] - 1
      BY <1>2
    <3> QED
      BY <1>1, <3>1 DEF Next2, Before2
  <2>3. \A y \in Cells2(c) : Off2(s, y) <= Off2(s, x) \/ Off2(s, Next2(c, x)) <= Off2(s, y)
    <3> TAKE y \in Cells2(c)
    <3>1. /\ Before2(y, x) => Off2(s, y) < Off2(s, x)
          /\ Before2(Next2(c, x), y) => Off2(s, Next2(c, x)) < Off2(s, y)
          /\ Off2(s, y) \in Int /\ Off2(s, x) \in Int /\ Off2(s, Next2(c, x)) \in Int
      BY <1>2, <1>3, <2>1
    <3> QED
      BY <2>2, <3>1
  <2> QED
    BY <1>3, <1>4, <2>1, <2>3
<1>5. CASE Next2(c, x)[2] = c[2]
  <2>1. x[1] = c[1] - 1 /\ x[2] = c[2] - 1
    BY <1>1, <1>5 DEF Next2
  <2>2. ASSUME NEW y \in Cells2(c) PROVE Off2(s, y) <= Off2(s, x)
    <3>1. y = x \/ Before2(y, x)
      BY <1>1, <1>2, <2>1 DEF Before2
    <3>2. Off2(s, y) \in Int /\ Off2(s, x) \in Int
      BY <1>2
    <3> QED
      BY <1>3, <3>1, <3>2
  <2> QED
    BY <1>1, <1>5, <2>1, <2>2
<1> QED
  BY <1>4, <1>5

(* Three dimensions, the third the outermost: two and one more.             *)
Before3(x, y) == x[3] < y[3] \/ (x[3] = y[3] /\ Before2(x, y))
Off3(s, x) == x[1] * s[1] + x[2] * s[2] + x[3] * s[3]
Dense3(c, s) ==
  /\ Dense2(c, s) /\ {c[3], s[3]} \subseteq Nat \ {0}
  /\ c[3] > 1 => s[3] > (c[1] - 1) * s[1] + (c[2] - 1) * s[2]

(* A cell of a loop packet is a cell of its two inner dimensions and a      *)
(* count of the third.                                                      *)
LEMMA CellFacts ==
  ASSUME NEW c, NEW s, Dense3(c, s), NEW x \in Cells(c)
  PROVE  /\ x = <<x[1], x[2], x[3]>> /\ <<x[1], x[2]>> \in Cells2(c)
         /\ x[1] \in Nat /\ x[2] \in Nat /\ x[3] \in Nat
         /\ x[1] <= c[1] - 1 /\ x[2] <= c[2] - 1 /\ x[3] <= c[3] - 1
         /\ {c[1], c[2], c[3], s[1], s[2], s[3]} \subseteq Nat \ {0}
         /\ Off3(s, x) = Off2(s, <<x[1], x[2]>>) + x[3] * s[3]
         /\ Off2(s, <<x[1], x[2]>>) \in Nat /\ x[3] * s[3] \in Nat /\ Off3(s, x) \in Nat
         /\ Off2(s, <<x[1], x[2]>>) <= (c[1] - 1) * s[1] + (c[2] - 1) * s[2]
<1> DEFINE p1 == x[1] * s[1]
           p2 == x[2] * s[2]
           p3 == x[3] * s[3]
           m1 == (c[1] - 1) * s[1]
           m2 == (c[2] - 1) * s[2]
<1>1. /\ x = <<x[1], x[2], x[3]>> /\ <<x[1], x[2]>> \in Cells2(c)
      /\ x[1] \in Nat /\ x[2] \in Nat /\ x[3] \in Nat
      /\ x[1] <= c[1] - 1 /\ x[2] <= c[2] - 1 /\ x[3] <= c[3] - 1
  BY DEF Cells, Cells2, Dense3, Dense2
<1>2. {c[1], c[2], c[3], s[1], s[2], s[3]} \subseteq Nat \ {0}
  BY DEF Dense3, Dense2
<1>3. p1 \in Nat /\ p2 \in Nat /\ p3 \in Nat /\ m1 \in Nat /\ m2 \in Nat
  BY <1>1, <1>2
<1>4. p1 <= m1 /\ p2 <= m2
  <2>1. \A a, b \in Int, t \in Nat : a <= b => a * t <= b * t
    BY Monotone
  <2>2. x[1] \in Int /\ x[2] \in Int /\ c[1] - 1 \in Int /\ c[2] - 1 \in Int /\ s[1] \in Nat /\ s[2] \in Nat
    BY <1>1, <1>2
  <2> HIDE DEF p1, p2, p3, m1, m2
  <2> QED
    BY <1>1, <2>1, <2>2 DEF p1, p2, m1, m2
<1>5. /\ Off3(s, x) = p1 + p2 + p3 /\ Off2(s, <<x[1], x[2]>>) = p1 + p2
  BY DEF Off3, Off2
<1> HIDE DEF p1, p2, p3, m1, m2
<1>6. p1 + p2 <= m1 + m2 /\ p1 + p2 \in Nat /\ p1 + p2 + p3 \in Nat
  BY <1>3, <1>4
<1> QED
  BY <1>1, <1>2, <1>3, <1>5, <1>6 DEF p3, m1, m2

(* In three dimensions, too, a later cell is due later.                     *)
LEMMA Order3 ==
  ASSUME NEW c, NEW s, Dense3(c, s), NEW x \in Cells(c), NEW y \in Cells(c), Before3(x, y)
  PROVE  Off3(s, x) < Off3(s, y)
<1> DEFINE a == Off2(s, <<x[1], x[2]>>)
           b == Off2(s, <<y[1], y[2]>>)
           p == x[3] * s[3]
           q == y[3] * s[3]
           m == (c[1] - 1) * s[1] + (c[2] - 1) * s[2]
<1>1. a \in Nat /\ b \in Nat /\ p \in Nat /\ q \in Nat /\ a <= m /\ Off3(s, x) = a + p /\ Off3(s, y) = b + q
  BY CellFacts
<1>2. x[3] \in Nat /\ y[3] \in Nat /\ s[3] \in Nat \ {0} /\ y[3] <= c[3] - 1 /\ c[3] \in Nat
      /\ c[1] \in Nat /\ c[2] \in Nat /\ s[1] \in Nat /\ s[2] \in Nat
  BY CellFacts
<1>3. CASE x[3] < y[3]
  <2>1. p + s[3] <= q
    BY <1>2, <1>3, Carry
  <2>2. s[3] > m
    <3>1. c[3] > 1
      BY <1>2, <1>3
    <3> QED
      BY <3>1 DEF Dense3
  <2>3. m \in Int
    BY <1>2
  <2> HIDE DEF a, b, p, q, m
  <2> QED
    BY <1>1, <1>2, <2>1, <2>2, <2>3
<1>4. CASE x[3] = y[3] /\ Before2(x, y)
  <2>1. Before2(<<x[1], x[2]>>, <<y[1], y[2]>>)
    BY <1>4 DEF Before2
  <2>2. a < b
    <3>1. Dense2(c, s) /\ <<x[1], x[2]>> \in Cells2(c) /\ <<y[1], y[2]>> \in Cells2(c)
      BY CellFacts DEF Dense3
    <3> QED
      BY <2>1, <3>1, Order2
  <2>3. p = q
    BY <1>4
  <2> HIDE DEF a, b, p, q, m
  <2> QED
    BY <1>1, <2>2, <2>3
<1> QED
  BY <1>3, <1>4 DEF Before3

(* The digit advance_icu_coordinate_3d increments is the first one below    *)
(* its count.                                                               *)
LEMMA DigitIs ==
  ASSUME NEW c, NEW s, Dense3(c.counts, s), NEW x \in Cells(c.counts)
  PROVE  Digit(c, x) = IF x[1] < c.counts[1] - 1 THEN 1
                       ELSE IF x[2] < c.counts[2] - 1 THEN 2
                       ELSE IF x[3] < c.counts[3] - 1 THEN 3 ELSE 4
<1> DEFINE n == c.counts
           D == IF x[1] < n[1] - 1 THEN 1 ELSE IF x[2] < n[2] - 1 THEN 2 ELSE IF x[3] < n[3] - 1 THEN 3 ELSE 4
           P(d) == /\ d = 4 \/ x[d] < n[d] - 1
                   /\ \A e \in 1 .. d - 1 : x[e] = n[e] - 1
<1>1. /\ x[1] \in Nat /\ x[2] \in Nat /\ x[3] \in Nat
      /\ x[1] <= n[1] - 1 /\ x[2] <= n[2] - 1 /\ x[3] <= n[3] - 1
      /\ n[1] \in Nat \ {0} /\ n[2] \in Nat \ {0} /\ n[3] \in Nat \ {0}
  BY CellFacts
<1>2. /\ P(1) <=> x[1] < n[1] - 1
      /\ P(2) <=> x[1] = n[1] - 1 /\ x[2] < n[2] - 1
      /\ P(3) <=> x[1] = n[1] - 1 /\ x[2] = n[2] - 1 /\ x[3] < n[3] - 1
      /\ P(4) <=> x[1] = n[1] - 1 /\ x[2] = n[2] - 1 /\ x[3] = n[3] - 1
  <2>1. 1 .. 0 = {} /\ 1 .. 1 = {1} /\ 1 .. 2 = {1, 2} /\ 1 .. 3 = {1, 2, 3}
    OBVIOUS
  <2> QED
    BY <2>1
<1>3. D \in 1 .. 4 /\ P(D) /\ \A d \in 1 .. 4 : P(d) => d = D
  <2> HIDE DEF P
  <2>1. \A d \in 1 .. 4 : d \in {1, 2, 3, 4}
    OBVIOUS
  <2> QED
    BY <1>1, <1>2, <2>1
<1>4. Digit(c, x) = CHOOSE d \in 1 .. 4 : P(d)
  BY DEF Digit
<1> HIDE DEF P, D
<1>5. Digit(c, x) = D
  BY <1>3, <1>4
<1> QED
  BY <1>5 DEF D

(* The cell Advance goes to is the next one due, and there is none after    *)
(* the last cell only.                                                      *)
LEMMA Follow3 ==
  ASSUME NEW c, NEW s, Dense3(c.counts, s), NEW x \in Cells(c.counts)
  PROVE  /\ Digit(c, x) # 4 =>
              /\ Advance(c, x) \in Cells(c.counts) /\ Off3(s, x) < Off3(s, Advance(c, x))
              /\ \A y \in Cells(c.counts) : Off3(s, y) <= Off3(s, x) \/ Off3(s, Advance(c, x)) <= Off3(s, y)
         /\ Digit(c, x) = 4 =>
              /\ x = <<c.counts[1] - 1, c.counts[2] - 1, c.counts[3] - 1>>
              /\ \A y \in Cells(c.counts) : Off3(s, y) <= Off3(s, x)
<1> DEFINE n == c.counts
           z == Advance(c, x)
<1>1. /\ x = <<x[1], x[2], x[3]>> /\ x[1] \in Nat /\ x[2] \in Nat /\ x[3] \in Nat
      /\ x[1] <= n[1] - 1 /\ x[2] <= n[2] - 1 /\ x[3] <= n[3] - 1
      /\ n[1] \in Nat \ {0} /\ n[2] \in Nat \ {0} /\ n[3] \in Nat \ {0}
  BY CellFacts
<1>2. \A y \in Cells(n) : /\ y = <<y[1], y[2], y[3]>> /\ y[1] \in Nat /\ y[2] \in Nat /\ y[3] \in Nat
                           /\ y[1] <= n[1] - 1 /\ y[2] <= n[2] - 1 /\ y[3] <= n[3] - 1
                           /\ Off3(s, y) \in Nat
  BY CellFacts
<1>3. \A y, w \in Cells(n) : Before3(y, w) => Off3(s, y) < Off3(s, w)
  BY Order3
<1>4. Digit(c, x) = IF x[1] < n[1] - 1 THEN 1 ELSE IF x[2] < n[2] - 1 THEN 2
                    ELSE IF x[3] < n[3] - 1 THEN 3 ELSE 4
  BY DigitIs
<1>5. z = <<IF 1 < Digit(c, x) THEN 0 ELSE IF 1 = Digit(c, x) THEN x[1] + 1 ELSE x[1],
            IF 2 < Digit(c, x) THEN 0 ELSE IF 2 = Digit(c, x) THEN x[2] + 1 ELSE x[2],
            IF 3 < Digit(c, x) THEN 0 ELSE IF 3 = Digit(c, x) THEN x[3] + 1 ELSE x[3]>>
  BY DEF Advance
<1>6. CASE Digit(c, x) # 4
  <2>1. z \in Cells(n) /\ Before3(x, z)
    BY <1>1, <1>4, <1>5, <1>6 DEF Cells, Before3, Before2
  <2>2. ASSUME NEW y \in Cells(n)
        PROVE  y = x \/ Before3(y, x) \/ y = z \/ Before3(z, y)
    <3>1. /\ y = <<y[1], y[2], y[3]>> /\ y[1] \in Nat /\ y[2] \in Nat /\ y[3] \in Nat
          /\ y[1] <= n[1] - 1 /\ y[2] <= n[2] - 1 /\ y[3] <= n[3] - 1
      BY <1>2
    <3>2. CASE Digit(c, x) = 1
      <4>1. z = <<x[1] + 1, x[2], x[3]>>
        BY <1>5, <3>2
      <4> HIDE DEF z, n
      <4> QED
        BY <1>1, <3>1, <4>1 DEF Before3, Before2
    <3>3. CASE Digit(c, x) = 2
      <4>1. z = <<0, x[2] + 1, x[3]>> /\ x[1] = n[1] - 1
        BY <1>1, <1>4, <1>5, <3>3
      <4> HIDE DEF z, n
      <4> QED
        BY <1>1, <3>1, <4>1 DEF Before3, Before2
    <3>4. CASE Digit(c, x) = 3
      <4>1. z = <<0, 0, x[3] + 1>> /\ x[1] = n[1] - 1 /\ x[2] = n[2] - 1
        BY <1>1, <1>4, <1>5, <3>4
      <4> HIDE DEF z, n
      <4> QED
        BY <1>1, <3>1, <4>1 DEF Before3, Before2
    <3> QED
      BY <1>4, <1>6, <3>2, <3>3, <3>4
  <2>3. \A y \in Cells(n) : Off3(s, y) <= Off3(s, x) \/ Off3(s, z) <= Off3(s, y)
    <3> HIDE DEF z, n
    <3> TAKE y \in Cells(n)
    <3>1. /\ Before3(y, x) => Off3(s, y) < Off3(s, x)
          /\ Before3(z, y) => Off3(s, z) < Off3(s, y)
          /\ Off3(s, y) \in Int /\ Off3(s, x) \in Int /\ Off3(s, z) \in Int
      BY <1>2, <1>3, <2>1 DEF n
    <3> QED
      BY <2>2, <3>1
  <2>4. Off3(s, x) < Off3(s, z)
    BY <1>3, <2>1
  <2> QED
    BY <1>6, <2>1, <2>3, <2>4
<1>7. CASE Digit(c, x) = 4
  <2>1. x[1] = n[1] - 1 /\ x[2] = n[2] - 1 /\ x[3] = n[3] - 1
    BY <1>1, <1>4, <1>7
  <2>2. ASSUME NEW y \in Cells(n) PROVE Off3(s, y) <= Off3(s, x)
    <3>1. /\ y = <<y[1], y[2], y[3]>> /\ y[1] \in Nat /\ y[2] \in Nat /\ y[3] \in Nat
          /\ y[1] <= n[1] - 1 /\ y[2] <= n[2] - 1 /\ y[3] <= n[3] - 1
      BY <1>2
    <3>2. y = x \/ Before3(y, x)
      <4> HIDE DEF n
      <4> QED
        BY <1>1, <2>1, <3>1 DEF Before3, Before2
    <3>3. Off3(s, y) \in Int /\ Off3(s, x) \in Int
      BY <1>2
    <3> QED
      BY <1>3, <3>2, <3>3
  <2> QED
    BY <1>1, <1>7, <2>1, <2>2
<1> QED
  BY <1>6, <1>7

-----------------------------------------------------------------------------
(* The points of a packet in the order of their offsets.                    *)
Spread(S, m) ==
  /\ m \in Nat /\ \A p \in S : p.off \in 0 .. m
  /\ \A p, q \in S : p.off = q.off => p = q

(* Points that are spread over m + 1 cycles are finitely many.              *)
LEMMA SpreadFinite ==
  ASSUME NEW S, NEW m, Spread(S, m)
  PROVE  IsFiniteSet(S) /\ Cardinality(S) \in Nat
<1> DEFINE f == [p \in S |-> p.off]
<1>1. f \in Injection(S, 0 .. m)
  BY DEF Spread, Injection, IsInjective
<1>2. IsFiniteSet(0 .. m)
  BY FS_Interval DEF Spread
<1>3. IsFiniteSet(S)
  BY <1>1, <1>2, FS_Injection
<1> QED
  BY <1>3, FS_CardinalityType

(* The rank of an offset counts the points before it.                       *)
LEMMA Ranks ==
  ASSUME NEW S, NEW m, Spread(S, m), NEW n \in Int
  PROVE  /\ IsFiniteSet({q \in S : q.off < n}) /\ Rank(S, n) \in Nat /\ Rank(S, n) <= Cardinality(S)
         /\ (\A p \in S : n <= p.off) => Rank(S, n) = 0
         /\ (\A p \in S : p.off < n) => Rank(S, n) = Cardinality(S)
         /\ (\A p \in S : p.off # n) => Rank(S, n + 1) = Rank(S, n)
         /\ \A p \in S : p.off = n => Rank(S, n + 1) = Rank(S, n) + 1
<1> DEFINE T == {q \in S : q.off < n}
           U == {q \in S : q.off < n + 1}
<1>1. IsFiniteSet(S)
  BY SpreadFinite
<1>2. \A p \in S : p.off \in Int
  BY DEF Spread
<1>3. IsFiniteSet(T) /\ Cardinality(T) <= Cardinality(S) /\ Cardinality(T) \in Nat
  <2>1. T \in SUBSET S
    OBVIOUS
  <2>2. IsFiniteSet(T) /\ Cardinality(T) <= Cardinality(S)
    BY <1>1, <2>1, FS_Subset
  <2> QED
    BY <2>2, FS_CardinalityType
<1>4. Rank(S, n) = Cardinality(T) /\ Rank(S, n + 1) = Cardinality(U)
  BY DEF Rank
<1>5. ASSUME \A p \in S : n <= p.off PROVE Cardinality(T) = 0
  <2>1. T = {}
    BY <1>2, <1>5
  <2> QED
    BY <2>1, FS_EmptySet
<1>6. ASSUME \A p \in S : p.off < n PROVE T = S
  BY <1>6
<1>7. ASSUME \A p \in S : p.off # n PROVE U = T
  BY <1>2, <1>7
<1>8. ASSUME NEW p \in S, p.off = n PROVE Cardinality(U) = Cardinality(T) + 1
  <2>1. U = T \cup {p} /\ p \notin T
    BY <1>2, <1>8 DEF Spread
  <2> HIDE DEF U, T
  <2> QED
    BY <1>3, <2>1, FS_AddElement
<1> HIDE DEF T, U
<1> QED
  BY <1>3, <1>4, <1>5, <1>6, <1>7, <1>8 DEF T

(* The list by offset holds every point at its rank.                        *)
LEMMA Listing ==
  ASSUME NEW S, NEW m, Spread(S, m)
  PROVE  /\ Len(ByOffset(S)) = Cardinality(S) /\ DOMAIN ByOffset(S) = 1 .. Cardinality(S)
         /\ \A p \in S : /\ Rank(S, p.off) + 1 \in 1 .. Cardinality(S)
                         /\ ByOffset(S)[Rank(S, p.off) + 1] = p
         /\ \A p \in S : (\A q \in S : q.off <= p.off) => Rank(S, p.off) + 1 = Cardinality(S)
<1> DEFINE N == Cardinality(S)
           L == ByOffset(S)
<1>1. N \in Nat /\ \A p \in S : p.off \in Int
  <2>1. N \in Nat
    BY SpreadFinite
  <2> HIDE DEF N
  <2> QED
    BY <2>1 DEF Spread
<1>2. L = [n \in 1 .. N |-> CHOOSE p \in S : Rank(S, p.off) = n - 1]
  BY DEF ByOffset
<1>3. Len(L) = N /\ DOMAIN L = 1 .. N
  <2>1. L \in [1 .. N -> {L[n] : n \in 1 .. N}]
    BY <1>2
  <2>2. L \in Seq({L[n] : n \in 1 .. N})
    BY <1>1, <2>1, SeqDef
  <2>3. DOMAIN L = 1 .. N
    BY <1>2
  <2> HIDE DEF L, N
  <2> QED
    BY <1>1, <2>2, <2>3, LenProperties
<1>4. \A p \in S : /\ Rank(S, p.off) \in Nat /\ Rank(S, p.off + 1) = Rank(S, p.off) + 1
                   /\ Rank(S, p.off + 1) <= N
  <2> TAKE p \in S
  <2>1. p.off \in Int /\ p.off + 1 \in Int
    BY <1>1
  <2> QED
    BY <2>1, Ranks
<1>5. ASSUME NEW p \in S, NEW q \in S, Rank(S, p.off) = Rank(S, q.off)
      PROVE  p = q
  <2>1. \A a, b \in S : a.off < b.off => Rank(S, a.off + 1) <= Rank(S, b.off)
    <3> TAKE a, b \in S
    <3> HAVE a.off < b.off
    <3>1. IsFiniteSet({r \in S : r.off < b.off})
      BY <1>1, Ranks
    <3>2. {r \in S : r.off < a.off + 1} \in SUBSET {r \in S : r.off < b.off}
      BY <1>1
    <3> QED
      BY <3>1, <3>2, FS_Subset DEF Rank
  <2>2. ~(p.off < q.off) /\ ~(q.off < p.off)
    <3>1. \A a, b \in S : a.off < b.off => Rank(S, a.off) # Rank(S, b.off)
      <4> TAKE a, b \in S
      <4> HAVE a.off < b.off
      <4>1. Rank(S, a.off) + 1 <= Rank(S, b.off)
        BY <1>4, <2>1
      <4>2. Rank(S, a.off) \in Nat /\ Rank(S, b.off) \in Nat
        BY <1>4
      <4> QED
        BY <4>1, <4>2
    <3> QED
      BY <1>5, <3>1
  <2>3. p.off = q.off
    BY <1>1, <2>2
  <2> QED
    BY <2>3 DEF Spread
<1>6. ASSUME NEW p \in S
      PROVE  Rank(S, p.off) + 1 \in 1 .. N /\ L[Rank(S, p.off) + 1] = p
  <2>1. Rank(S, p.off) \in Nat /\ Rank(S, p.off) + 1 <= N
    BY <1>4
  <2>2. Rank(S, p.off) + 1 \in 1 .. N
    BY <1>1, <2>1
  <2>3. PICK n \in 1 .. N : n = Rank(S, p.off) + 1
    BY <2>2
  <2>4. L[n] = CHOOSE q \in S : Rank(S, q.off) = n - 1
    BY <1>2
  <2>5. n - 1 = Rank(S, p.off)
    BY <2>1, <2>3
  <2>6. Rank(S, p.off) = n - 1 /\ \A q \in S : Rank(S, q.off) = n - 1 => q = p
    BY <1>5, <2>5
  <2>7. L[n] = p
    BY <2>4, <2>6
  <2> QED
    BY <2>2, <2>3, <2>7
<1>7. ASSUME NEW p \in S, \A q \in S : q.off <= p.off
      PROVE  Rank(S, p.off) + 1 = N
  <2>1. \A q \in S : q.off < p.off + 1
    BY <1>1, <1>7
  <2>2. p.off + 1 \in Int
    BY <1>1
  <2>3. Rank(S, p.off + 1) = N
    BY <2>1, <2>2, Ranks
  <2> QED
    BY <1>4, <2>3
<1> QED
  BY <1>3, <1>6, <1>7

(* The first cell is due at once, the corner last.                          *)
LEMMA Corner2 ==
  ASSUME NEW c, NEW s, Dense2(c, s)
  PROVE  /\ \A x \in Cells2(c) : Off2(s, x) \in Nat
         /\ \A x, y \in Cells2(c) : Off2(s, x) = Off2(s, y) => x = y
         /\ <<c[1] - 1, c[2] - 1>> \in Cells2(c)
         /\ \A x \in Cells2(c) : Off2(s, x) <= Off2(s, <<c[1] - 1, c[2] - 1>>)
         /\ <<0, 0>> \in Cells2(c) /\ Off2(s, <<0, 0>>) = 0
<1>1. s[1] \in Nat \ {0} /\ s[2] \in Nat \ {0} /\ c[1] \in Nat \ {0} /\ c[2] \in Nat \ {0}
  BY DEF Dense2
<1>2. \A x \in Cells2(c) : /\ x[1] \in Nat /\ x[2] \in Nat /\ x[1] <= c[1] - 1 /\ x[2] <= c[2] - 1
                           /\ x = <<x[1], x[2]>>
  BY <1>1 DEF Cells2
<1>3. \A x \in Cells2(c) : Off2(s, x) \in Nat
  BY <1>1, <1>2 DEF Off2
<1>4. \A x, y \in Cells2(c) : x = y \/ Before2(x, y) \/ Before2(y, x)
  <2> TAKE x, y \in Cells2(c)
  <2>1. /\ x = <<x[1], x[2]>> /\ y = <<y[1], y[2]>>
        /\ x[1] \in Nat /\ x[2] \in Nat /\ y[1] \in Nat /\ y[2] \in Nat
    BY <1>2
  <2> QED
    BY <2>1 DEF Before2
<1>5. \A x, y \in Cells2(c) : Before2(x, y) => Off2(s, x) < Off2(s, y)
  BY Order2
<1>6. \A x, y \in Cells2(c) : Off2(s, x) = Off2(s, y) => x = y
  <2> TAKE x, y \in Cells2(c)
  <2>1. Off2(s, x) \in Nat /\ Off2(s, y) \in Nat
    BY <1>3
  <2> QED
    BY <1>4, <1>5, <2>1
<1>7. <<c[1] - 1, c[2] - 1>> \in Cells2(c) /\ <<0, 0>> \in Cells2(c)
  BY <1>1 DEF Cells2
<1>8. ASSUME NEW x \in Cells2(c) PROVE Off2(s, x) <= Off2(s, <<c[1] - 1, c[2] - 1>>)
  <2> DEFINE z == <<c[1] - 1, c[2] - 1>>
  <2>1. x = z \/ Before2(x, z)
    BY <1>1, <1>2 DEF Before2
  <2>2. Off2(s, x) \in Nat /\ Off2(s, z) \in Nat
    BY <1>3, <1>7
  <2>3. Before2(x, z) => Off2(s, x) < Off2(s, z)
    BY <1>5, <1>7
  <2> HIDE DEF z
  <2>4. Off2(s, x) <= Off2(s, z)
    BY <2>1, <2>2, <2>3
  <2> QED
    BY <2>4 DEF z
<1>9. Off2(s, <<0, 0>>) = 0
  BY <1>1 DEF Off2
<1> QED
  BY <1>3, <1>6, <1>7, <1>8, <1>9

(* The same in three dimensions.                                            *)
LEMMA Corner3 ==
  ASSUME NEW c, NEW s, Dense3(c, s)
  PROVE  /\ \A x \in Cells(c) : Off3(s, x) \in Nat
         /\ \A x, y \in Cells(c) : Off3(s, x) = Off3(s, y) => x = y
         /\ <<c[1] - 1, c[2] - 1, c[3] - 1>> \in Cells(c)
         /\ \A x \in Cells(c) : Off3(s, x) <= Off3(s, <<c[1] - 1, c[2] - 1, c[3] - 1>>)
         /\ <<0, 0, 0>> \in Cells(c) /\ Off3(s, <<0, 0, 0>>) = 0
<1>1. {c[1], c[2], c[3], s[1], s[2], s[3]} \subseteq Nat \ {0}
  BY DEF Dense3, Dense2
<1>2. \A x \in Cells(c) : /\ x[1] \in Nat /\ x[2] \in Nat /\ x[3] \in Nat
                          /\ x[1] <= c[1] - 1 /\ x[2] <= c[2] - 1 /\ x[3] <= c[3] - 1
                          /\ x = <<x[1], x[2], x[3]>> /\ Off3(s, x) \in Nat
  BY CellFacts
<1>4. \A x, y \in Cells(c) : x = y \/ Before3(x, y) \/ Before3(y, x)
  <2> TAKE x, y \in Cells(c)
  <2>1. /\ x = <<x[1], x[2], x[3]>> /\ y = <<y[1], y[2], y[3]>>
        /\ x[1] \in Nat /\ x[2] \in Nat /\ x[3] \in Nat /\ y[1] \in Nat /\ y[2] \in Nat /\ y[3] \in Nat
    BY <1>2
  <2> QED
    BY <2>1 DEF Before3, Before2
<1>5. \A x, y \in Cells(c) : Before3(x, y) => Off3(s, x) < Off3(s, y)
  BY Order3
<1>6. \A x, y \in Cells(c) : Off3(s, x) = Off3(s, y) => x = y
  <2> TAKE x, y \in Cells(c)
  <2>1. Off3(s, x) \in Nat /\ Off3(s, y) \in Nat
    BY <1>2
  <2> QED
    BY <1>4, <1>5, <2>1
<1>7. <<c[1] - 1, c[2] - 1, c[3] - 1>> \in Cells(c) /\ <<0, 0, 0>> \in Cells(c)
  BY <1>1 DEF Cells
<1>8. ASSUME NEW x \in Cells(c) PROVE Off3(s, x) <= Off3(s, <<c[1] - 1, c[2] - 1, c[3] - 1>>)
  <2> DEFINE z == <<c[1] - 1, c[2] - 1, c[3] - 1>>
  <2>1. x = z \/ Before3(x, z)
    BY <1>1, <1>2 DEF Before3, Before2
  <2>2. Off3(s, x) \in Nat /\ Off3(s, z) \in Nat
    BY <1>2, <1>7
  <2>3. Before3(x, z) => Off3(s, x) < Off3(s, z)
    BY <1>5, <1>7
  <2> HIDE DEF z
  <2>4. Off3(s, x) <= Off3(s, z)
    BY <2>1, <2>2, <2>3
  <2> QED
    BY <2>4 DEF z
<1>9. Off3(s, <<0, 0, 0>>) = 0
  BY <1>1 DEF Off3
<1> QED
  BY <1>2, <1>6, <1>7, <1>8, <1>9
----------------------------------------------------------------------------
(* The points of each kind of packet, and the last of them.                 *)
RepeatCells(c) == Cells(<<c.counts[1], c.counts[2], 1>>)
LoopPoints(c) == {[off |-> LoopOffset(c, x), value |-> LoopValue(c, x)] : x \in Cells(c.counts)}
RepeatPoint(c, v, x) ==
  [off |-> x[1] * c.intervals[1] + x[2] * c.intervals[2] - 1,
   value |-> Move(v, x[1] * c.rows[1] + x[2] * c.rows[2])]
RepeatPoints(c, v) == {RepeatPoint(c, v, x) : x \in RepeatCells(c) \ {<<0, 0, 0>>}}
SweepPoints(c) ==
  {[off |-> SideOffset(c, s, x), value |-> SideValue(c, s, x)] : s \in {1, 2}, x \in RepeatCells(c)}

(* The issues of a packet are its points in the order of their offsets.     *)
LEMMA PointsAre ==
  ASSUME NEW c, NEW v
  PROVE  /\ c.k = "loop" => Points(c, v) = ByOffset(LoopPoints(c))
         /\ c.k = "repeat2d" => Points(c, v) = ByOffset(RepeatPoints(c, v))
         /\ c.k = "writeread" => Points(c, v) = ByOffset(SweepPoints(c))
BY DEF Points, LoopPoints, RepeatPoints, RepeatPoint, SweepPoints, RepeatCells

(* The issues of a loop packet are in different cycles, the last one in the *)
(* last cycle of loop_duration.                                             *)
LEMMA LoopSpread ==
  ASSUME NEW c, c.k = "loop", Sound(c)
  PROVE  /\ Dense3(c.counts, c.strides) /\ c.wait \in Nat
         /\ \A x \in Cells(c.counts) : LoopOffset(c, x) = c.wait + Off3(c.strides, x) /\ LoopOffset(c, x) \in Nat
         /\ Spread(LoopPoints(c), loop_duration(c) - 1)
         /\ \E p \in LoopPoints(c) : p.off = loop_duration(c) - 1
<1>1. Dense3(c.counts, c.strides) /\ c.wait \in Nat
  BY DEF Sound, Swings, Dense3, Dense2
<1>2. \A x \in Cells(c.counts) : LoopOffset(c, x) = c.wait + Off3(c.strides, x)
  <2> TAKE x \in Cells(c.counts)
  <2>1. /\ x[1] \in Nat /\ x[2] \in Nat /\ x[3] \in Nat
        /\ {c.strides[1], c.strides[2], c.strides[3]} \subseteq Nat
    BY <1>1, CellFacts
  <2> DEFINE p1 == x[1] * c.strides[1]
             p2 == x[2] * c.strides[2]
             p3 == x[3] * c.strides[3]
  <2>2. p1 \in Nat /\ p2 \in Nat /\ p3 \in Nat
    BY <2>1
  <2>3. LoopOffset(c, x) = c.wait + p1 + p2 + p3 /\ Off3(c.strides, x) = p1 + p2 + p3
    BY DEF LoopOffset, Off3
  <2> HIDE DEF p1, p2, p3
  <2> QED
    BY <1>1, <2>2, <2>3
<1>3. \A x \in Cells(c.counts) : LoopOffset(c, x) \in Nat /\ Off3(c.strides, x) \in Nat
  <2>1. \A x \in Cells(c.counts) : Off3(c.strides, x) \in Nat
    BY <1>1, Corner3
  <2> QED
    BY <1>1, <1>2, <2>1
<1> DEFINE z == <<c.counts[1] - 1, c.counts[2] - 1, c.counts[3] - 1>>
           M == loop_duration(c) - 1
<1>4. z \in Cells(c.counts) /\ \A x \in Cells(c.counts) : Off3(c.strides, x) <= Off3(c.strides, z)
  BY <1>1, Corner3
<1>5. LoopOffset(c, z) = M
  <2> DEFINE p1 == (c.counts[1] - 1) * c.strides[1]
             p2 == (c.counts[2] - 1) * c.strides[2]
             p3 == (c.counts[3] - 1) * c.strides[3]
  <2>1. {c.counts[1], c.counts[2], c.counts[3], c.strides[1], c.strides[2], c.strides[3]} \subseteq Nat \ {0}
    BY <1>1 DEF Dense3, Dense2
  <2>2. p1 \in Nat /\ p2 \in Nat /\ p3 \in Nat
    <3>1. \A a \in Nat \ {0}, b \in Nat \ {0} : (a - 1) * b \in Nat
      OBVIOUS
    <3> QED
      BY <2>1, <3>1
  <2>3. loop_duration(c) = c.wait + p1 + p2 + p3 + 1 /\ LoopOffset(c, z) = c.wait + p1 + p2 + p3
    BY DEF loop_duration, LoopOffset
  <2> HIDE DEF p1, p2, p3
  <2> QED
    BY <1>1, <2>2, <2>3
<1>6. M \in Nat /\ \A x \in Cells(c.counts) : LoopOffset(c, x) \in 0 .. M
  <2>1. M \in Nat
    BY <1>3, <1>4, <1>5
  <2>2. \A x \in Cells(c.counts) : LoopOffset(c, x) <= LoopOffset(c, z)
    <3> HIDE DEF z
    <3> QED
      BY <1>1, <1>2, <1>3, <1>4
  <2> HIDE DEF M, z
  <2> QED
    BY <1>3, <1>5, <2>1, <2>2
<1>7. \A x, y \in Cells(c.counts) : LoopOffset(c, x) = LoopOffset(c, y) => x = y
  <2>1. \A x, y \in Cells(c.counts) : Off3(c.strides, x) = Off3(c.strides, y) => x = y
    BY <1>1, Corner3
  <2> QED
    BY <1>1, <1>2, <1>3, <2>1
<1>8. Spread(LoopPoints(c), M)
  <2> HIDE DEF M
  <2> QED
    BY <1>6, <1>7 DEF Spread, LoopPoints
<1>9. \E p \in LoopPoints(c) : p.off = M
  <2> HIDE DEF M, z
  <2>1. [off |-> LoopOffset(c, z), value |-> LoopValue(c, z)] \in LoopPoints(c)
    BY <1>4 DEF LoopPoints
  <2> QED
    BY <1>5, <2>1
<1> QED
  BY <1>1, <1>2, <1>3, <1>8, <1>9

(* A sweep of two dimensions is one of three whose third is 1.              *)
LEMMA FlatCells ==
  ASSUME NEW c, NEW s, Dense2(c, s)
  PROVE  /\ \A x \in Cells(<<c[1], c[2], 1>>) :
              /\ <<x[1], x[2]>> \in Cells2(c) /\ x = <<x[1], x[2], 0>>
              /\ x[1] * s[1] + x[2] * s[2] = Off2(s, <<x[1], x[2]>>)
         /\ \A y \in Cells2(c) : <<y[1], y[2], 0>> \in Cells(<<c[1], c[2], 1>>)
<1>1. c[1] \in Nat \ {0} /\ c[2] \in Nat \ {0}
  BY DEF Dense2
<1>2. 0 .. 1 - 1 = {0}
  OBVIOUS
<1> QED
  BY <1>1, <1>2 DEF Cells, Cells2, Off2

(* The issues of a 2-D repeat are in different cycles, the last one at      *)
(* repeat_2d_final_offset.                                                  *)
LEMMA RepeatSpread ==
  ASSUME NEW c, NEW v, c.k = "repeat2d", Sound(c)
  PROVE  /\ Dense2(c.counts, c.intervals) /\ (c.counts[1] > 1 \/ c.counts[2] > 1)
         /\ \A x \in Cells2(c.counts) : x # <<0, 0>> =>
              /\ Off2(c.intervals, x) \in Nat \ {0}
              /\ RepeatPoint(c, v, x) \in RepeatPoints(c, v)
              /\ RepeatPoint(c, v, x).off = Off2(c.intervals, x) - 1
         /\ \A p \in RepeatPoints(c, v) : \E x \in Cells2(c.counts) :
              x # <<0, 0>> /\ p = RepeatPoint(c, v, x)
         /\ Spread(RepeatPoints(c, v), repeat_2d_final_offset(c) - 1)
         /\ \E p \in RepeatPoints(c, v) : p.off = repeat_2d_final_offset(c) - 1
<1> DEFINE n == c.counts
           s == c.intervals
           z == <<n[1] - 1, n[2] - 1>>
           F == repeat_2d_final_offset(c)
<1>1. Dense2(n, s) /\ (n[1] > 1 \/ n[2] > 1)
  BY DEF Sound, Swings, Dense2
<1>2. /\ \A x \in Cells2(n) : Off2(s, x) \in Nat
      /\ \A x, y \in Cells2(n) : Off2(s, x) = Off2(s, y) => x = y
      /\ z \in Cells2(n) /\ \A x \in Cells2(n) : Off2(s, x) <= Off2(s, z)
      /\ <<0, 0>> \in Cells2(n) /\ Off2(s, <<0, 0>>) = 0
  BY <1>1, Corner2
<1>3. \A x \in Cells2(n) : x # <<0, 0>> => Off2(s, x) \in Nat \ {0}
  <2> HIDE DEF n, s, z
  <2> QED
    BY <1>2
<1>4. \A x \in Cells2(n) : RepeatPoint(c, v, x).off = Off2(s, x) - 1
  <2> TAKE x \in Cells2(n)
  <2> DEFINE p1 == x[1] * s[1]
             p2 == x[2] * s[2]
  <2>1. x[1] \in Nat /\ x[2] \in Nat /\ s[1] \in Nat /\ s[2] \in Nat
    BY <1>1 DEF Cells2, Dense2
  <2>2. p1 \in Nat /\ p2 \in Nat
    BY <2>1
  <2>3. RepeatPoint(c, v, x).off = p1 + p2 - 1 /\ Off2(s, x) = p1 + p2
    BY DEF RepeatPoint, Off2
  <2> HIDE DEF p1, p2
  <2> QED
    BY <2>2, <2>3
<1>5. ASSUME NEW x \in Cells2(n), x # <<0, 0>>
      PROVE  RepeatPoint(c, v, x) \in RepeatPoints(c, v)
  <2> DEFINE y == <<x[1], x[2], 0>>
  <2>1. y \in Cells(<<n[1], n[2], 1>>) /\ x = <<x[1], x[2]>>
    <3>1. x = <<x[1], x[2]>>
      BY DEF Cells2
    <3> QED
      BY <1>1, <3>1, FlatCells
  <2>2. y \in RepeatCells(c) \ {<<0, 0, 0>>}
    BY <1>5, <2>1 DEF RepeatCells
  <2>3. RepeatPoint(c, v, y) = RepeatPoint(c, v, x)
    BY DEF RepeatPoint
  <2> HIDE DEF y
  <2> QED
    BY <2>2, <2>3 DEF RepeatPoints
<1>6. ASSUME NEW p \in RepeatPoints(c, v)
      PROVE  \E x \in Cells2(n) : x # <<0, 0>> /\ p = RepeatPoint(c, v, x)
  <2>1. PICK y \in RepeatCells(c) \ {<<0, 0, 0>>} : p = RepeatPoint(c, v, y)
    BY DEF RepeatPoints
  <2>2. <<y[1], y[2]>> \in Cells2(n) /\ y = <<y[1], y[2], 0>>
    BY <1>1, FlatCells DEF RepeatCells
  <2>3. <<y[1], y[2]>> # <<0, 0>>
    BY <2>1, <2>2
  <2>4. RepeatPoint(c, v, y) = RepeatPoint(c, v, <<y[1], y[2]>>)
    BY DEF RepeatPoint
  <2> QED
    BY <2>1, <2>2, <2>3, <2>4
<1>7. F = Off2(s, z) /\ z # <<0, 0>>
  BY <1>1 DEF repeat_2d_final_offset, Off2, Dense2
<1> HIDE DEF n, s, z, F
<1>8. F \in Nat \ {0} /\ F - 1 \in Nat
  BY <1>2, <1>3, <1>7
<1>9. Spread(RepeatPoints(c, v), F - 1)
  <2>1. ASSUME NEW p \in RepeatPoints(c, v) PROVE p.off \in 0 .. F - 1
    <3>1. PICK x \in Cells2(n) : x # <<0, 0>> /\ p = RepeatPoint(c, v, x)
      BY <1>6
    <3>2. Off2(s, x) \in Nat \ {0} /\ Off2(s, x) <= F
      BY <1>2, <1>3, <1>7, <3>1
    <3>3. p.off = Off2(s, x) - 1
      BY <1>4, <3>1
    <3> QED
      BY <1>8, <3>2, <3>3
  <2>2. ASSUME NEW p \in RepeatPoints(c, v), NEW q \in RepeatPoints(c, v), p.off = q.off PROVE p = q
    <3>1. PICK x \in Cells2(n) : x # <<0, 0>> /\ p = RepeatPoint(c, v, x)
      BY <1>6
    <3>2. PICK y \in Cells2(n) : y # <<0, 0>> /\ q = RepeatPoint(c, v, y)
      BY <1>6
    <3>3. Off2(s, x) \in Nat /\ Off2(s, y) \in Nat /\ p.off = Off2(s, x) - 1 /\ q.off = Off2(s, y) - 1
      BY <1>2, <1>4, <3>1, <3>2
    <3> DEFINE i == Off2(s, x)
               j == Off2(s, y)
               P == p.off
               Q == q.off
    <3>4. i \in Nat /\ j \in Nat /\ P = i - 1 /\ Q = j - 1 /\ P = Q
      BY <2>2, <3>3
    <3> HIDE DEF i, j, P, Q
    <3>6. i = j
      BY <3>4
    <3>5. x = y
      BY <1>2, <3>6 DEF i, j
    <3> QED
      BY <3>1, <3>2, <3>5
  <2> QED
    BY <1>8, <2>1, <2>2 DEF Spread
<1>10. \E p \in RepeatPoints(c, v) : p.off = F - 1
  BY <1>2, <1>4, <1>5, <1>7
<1> QED
  BY <1>1, <1>3, <1>4, <1>5, <1>6, <1>9, <1>10 DEF n, s, F

(* A write/read packet: each side sweeps, the sides never meet, and the     *)
(* last issue is at last_issue_cycle.                                       *)
LEMMA SweepSpread ==
  ASSUME NEW c, c.k = "writeread", Sound(c)
  PROVE  /\ \A s \in {1, 2} : Dense2(c.counts, c.strides[s]) /\ c.offsets[s] \in Nat
         /\ c.wait \in Nat /\ c.base \in Nat
         /\ \A s \in {1, 2}, x \in Cells2(c.counts) :
              /\ SideOffset(c, s, x) = c.wait + c.offsets[s] + Off2(c.strides[s], x)
              /\ SideOffset(c, s, x) \in Nat
              /\ [off |-> SideOffset(c, s, x), value |-> SideValue(c, s, x)] \in SweepPoints(c)
         /\ \A p \in SweepPoints(c) : \E s \in {1, 2}, x \in Cells2(c.counts) :
              p = [off |-> SideOffset(c, s, x), value |-> SideValue(c, s, x)]
         /\ \A x, y \in Cells2(c.counts) : SideOffset(c, 1, x) # SideOffset(c, 2, y)
         /\ Spread(SweepPoints(c), last_issue_cycle(c))
         /\ \E p \in SweepPoints(c) : p.off = last_issue_cycle(c)
<1> DEFINE n == c.counts
           z == <<n[1] - 1, n[2] - 1>>
           M == last_issue_cycle(c)
<1>1. \A s \in {1, 2} : Dense2(n, c.strides[s]) /\ c.offsets[s] \in Nat
  BY DEF Sound, Swings, Dense2
<1>2. c.wait \in Nat /\ c.base \in Nat
  BY DEF Sound
<1>3. \A x, y \in Cells2(n) : SideOffset(c, 1, x) # SideOffset(c, 2, y)
  BY DEF Sound, Cells2
<1>4. ASSUME NEW s \in {1, 2}, NEW x \in Cells2(n)
      PROVE  /\ SideOffset(c, s, x) = c.wait + c.offsets[s] + Off2(c.strides[s], x)
             /\ SideOffset(c, s, x) \in Nat /\ Off2(c.strides[s], x) \in Nat
  <2> DEFINE p1 == x[1] * c.strides[s][1]
             p2 == x[2] * c.strides[s][2]
  <2>1. x[1] \in Nat /\ x[2] \in Nat /\ c.strides[s][1] \in Nat /\ c.strides[s][2] \in Nat
    BY <1>1 DEF Cells2, Dense2
  <2>2. p1 \in Nat /\ p2 \in Nat
    BY <2>1
  <2>3. SideOffset(c, s, x) = c.wait + c.offsets[s] + p1 + p2 /\ Off2(c.strides[s], x) = p1 + p2
    BY DEF SideOffset, Off2
  <2>4. c.wait \in Nat /\ c.offsets[s] \in Nat
    BY <1>1, <1>2
  <2> HIDE DEF p1, p2
  <2> QED
    BY <2>2, <2>3, <2>4
<1>5. ASSUME NEW s \in {1, 2}, NEW x \in Cells2(n)
      PROVE  [off |-> SideOffset(c, s, x), value |-> SideValue(c, s, x)] \in SweepPoints(c)
  <2> DEFINE y == <<x[1], x[2], 0>>
  <2>1. y \in RepeatCells(c)
    BY <1>1, FlatCells DEF RepeatCells
  <2>2. [off |-> SideOffset(c, s, y), value |-> SideValue(c, s, y)] \in SweepPoints(c)
    BY <2>1 DEF SweepPoints
  <2>3. SideOffset(c, s, y) = SideOffset(c, s, x) /\ SideValue(c, s, y) = SideValue(c, s, x)
    BY DEF SideOffset, SideValue
  <2> QED
    BY <2>2, <2>3
<1>6. ASSUME NEW p \in SweepPoints(c)
      PROVE  \E s \in {1, 2}, x \in Cells2(n) :
               p = [off |-> SideOffset(c, s, x), value |-> SideValue(c, s, x)]
  <2>1. PICK s \in {1, 2}, y \in RepeatCells(c) :
          p = [off |-> SideOffset(c, s, y), value |-> SideValue(c, s, y)]
    BY DEF SweepPoints
  <2>2. <<y[1], y[2]>> \in Cells2(n)
    BY <1>1, FlatCells DEF RepeatCells
  <2>3. /\ SideOffset(c, s, y) = SideOffset(c, s, <<y[1], y[2]>>)
        /\ SideValue(c, s, y) = SideValue(c, s, <<y[1], y[2]>>)
    BY DEF SideOffset, SideValue
  <2> QED
    BY <2>1, <2>2, <2>3
<1>7. /\ z \in Cells2(n)
      /\ \A s \in {1, 2}, x \in Cells2(n) : SideOffset(c, s, x) <= SideOffset(c, s, z)
      /\ \A s \in {1, 2}, x, y \in Cells2(n) : SideOffset(c, s, x) = SideOffset(c, s, y) => x = y
  <2>1. z \in Cells2(n)
    BY <1>1, Corner2
  <2>2. ASSUME NEW s \in {1, 2}, NEW x \in Cells2(n)
        PROVE  SideOffset(c, s, x) <= SideOffset(c, s, z)
    <3>1. Off2(c.strides[s], x) <= Off2(c.strides[s], z)
      BY <1>1, Corner2
    <3>2. c.offsets[s] \in Nat
      BY <1>1
    <3> HIDE DEF z, n
    <3> QED
      BY <1>2, <1>4, <2>1, <3>1, <3>2
  <2>3. ASSUME NEW s \in {1, 2}, NEW x \in Cells2(n), NEW y \in Cells2(n),
               SideOffset(c, s, x) = SideOffset(c, s, y)
        PROVE  x = y
    <3>1. c.offsets[s] \in Nat
      BY <1>1
    <3>2. Off2(c.strides[s], x) = Off2(c.strides[s], y)
      BY <1>2, <1>4, <2>3, <3>1
    <3> QED
      BY <1>1, <3>2, Corner2
  <2> QED
    BY <2>1, <2>2, <2>3
<1>8. /\ M \in Nat /\ SideOffset(c, 1, z) <= M /\ SideOffset(c, 2, z) <= M
      /\ M = SideOffset(c, 1, z) \/ M = SideOffset(c, 2, z)
  <2>1. SideOffset(c, 1, z) \in Nat /\ SideOffset(c, 2, z) \in Nat
    BY <1>4, <1>7
  <2>2. M = IF SideOffset(c, 1, z) > SideOffset(c, 2, z) THEN SideOffset(c, 1, z) ELSE SideOffset(c, 2, z)
    BY DEF last_issue_cycle
  <2> HIDE DEF M, z
  <2> QED
    BY <2>1, <2>2
<1> HIDE DEF M, z
<1>9. Spread(SweepPoints(c), M)
  <2>1. ASSUME NEW p \in SweepPoints(c) PROVE p.off \in 0 .. M
    <3>1. PICK s \in {1, 2}, x \in Cells2(n) :
            p = [off |-> SideOffset(c, s, x), value |-> SideValue(c, s, x)]
      BY <1>6
    <3>2. SideOffset(c, s, x) \in Nat /\ SideOffset(c, s, x) <= SideOffset(c, s, z) /\ p.off = SideOffset(c, s, x)
      BY <1>4, <1>7, <3>1
    <3>3. SideOffset(c, s, z) <= M /\ SideOffset(c, s, z) \in Nat
      BY <1>4, <1>7, <1>8
    <3> QED
      BY <1>8, <3>2, <3>3
  <2>2. ASSUME NEW p \in SweepPoints(c), NEW q \in SweepPoints(c), p.off = q.off PROVE p = q
    <3>1. PICK s \in {1, 2}, x \in Cells2(n) :
            p = [off |-> SideOffset(c, s, x), value |-> SideValue(c, s, x)]
      BY <1>6
    <3>2. PICK t \in {1, 2}, y \in Cells2(n) :
            q = [off |-> SideOffset(c, t, y), value |-> SideValue(c, t, y)]
      BY <1>6
    <3>3. SideOffset(c, s, x) = SideOffset(c, t, y)
      BY <2>2, <3>1, <3>2
    <3>4. s = t
      BY <1>3, <3>3
    <3>5. x = y
      BY <1>7, <3>3, <3>4
    <3> QED
      BY <3>1, <3>2, <3>4, <3>5
  <2> QED
    BY <1>8, <2>1, <2>2 DEF Spread
<1>10. \E p \in SweepPoints(c) : p.off = M
  <2>1. PICK s \in {1, 2} : M = SideOffset(c, s, z)
    BY <1>8
  <2>2. [off |-> SideOffset(c, s, z), value |-> SideValue(c, s, z)] \in SweepPoints(c)
    BY <1>5, <1>7
  <2> QED
    BY <2>1, <2>2
<1> QED
  BY <1>1, <1>2, <1>3, <1>4, <1>5, <1>6, <1>9, <1>10 DEF M

-----------------------------------------------------------------------------
(* How long a command takes, as the appending code computes it.             *)
Extent(c) ==
  CASE c.k = "insn" -> 1
    [] c.k = "nop" -> c.count
    [] c.k = "wait" -> 0
    [] c.k \in {"sync", "notify"} -> 1
    [] c.k = "repeat" -> c.count * c.interval
    [] c.k = "repeat2d" -> repeat_2d_final_offset(c)
    [] c.k = "loop" -> loop_duration(c)
    [] c.k = "writeread" -> last_issue_cycle(c) + 1

(* What the memory holds.                                                   *)
Native == {"insn", "nop", "repeat", "repeat2d", "loop", "writeread", "sync", "wait", "notify"}

(* The kinds of commands the memory holds.                                  *)
LEMMA Kinds ==
  ASSUME NEW c, Sound(c), c.k # "legacy"
  PROVE  c.k \in Native
BY DEF Sound, Native

(* The point with the largest offset ends the list.                         *)
LEMMA Listed ==
  ASSUME NEW S, NEW m, Spread(S, m), NEW p \in S, p.off = m
  PROVE  /\ Len(ByOffset(S)) \in Nat \ {0} /\ ByOffset(S)[Len(ByOffset(S))] = p
<1>1. \A q \in S : q.off <= p.off
  BY DEF Spread
<1>2. Rank(S, p.off) + 1 = Cardinality(S) /\ Len(ByOffset(S)) = Cardinality(S)
  BY <1>1, Listing
<1>3. ByOffset(S)[Rank(S, p.off) + 1] = p /\ Rank(S, p.off) + 1 \in 1 .. Cardinality(S)
  BY Listing
<1>4. Cardinality(S) \in Nat
  BY SpreadFinite
<1> QED
  BY <1>2, <1>3, <1>4

(* A command takes the cycles the appending code computes for it.           *)
LEMMA Spans ==
  ASSUME NEW c, Sound(c), c.k # "legacy"
  PROVE  Span(c) = Extent(c) /\ Extent(c) \in Nat
<1>1. c.k \in Native
  BY Kinds
<1>2. CASE c.k \in {"nop", "wait", "sync", "notify"}
  BY <1>2 DEF Span, Extent, Sound
<1>3. c.k \notin {"nop", "wait", "sync", "notify"} =>
        Span(c) = Points(c, None)[Len(Points(c, None))].off + 1
  BY DEF Span
<1>4. CASE c.k = "insn"
  <2>1. Points(c, None) = <<[off |-> 0, value |-> c.value]>>
    BY <1>4 DEF Points
  <2>2. Span(c) = 1
    BY <1>3, <1>4, <2>1
  <2> QED
    BY <1>4, <2>2 DEF Extent
<1>5. CASE c.k = "repeat"
  <2> DEFINE N == c.count
             P == [n \in 1 .. N |-> [off |-> n * c.interval - 1, value |-> Move(None, n * c.row)]]
             m == N * c.interval
  <2>1. N \in Nat \ {0} /\ c.interval \in Nat \ {0}
    BY <1>5 DEF Sound
  <2>2. Points(c, None) = P
    BY <1>5 DEF Points
  <2>3. Len(P) = N
    <3>1. P \in [1 .. N -> {P[n] : n \in 1 .. N}]
      OBVIOUS
    <3> HIDE DEF P
    <3>2. P \in Seq({P[n] : n \in 1 .. N})
      BY <2>1, <3>1, SeqDef
    <3> QED
      BY <2>1, <3>1, <3>2, LenProperties
  <2>4. P[N].off = m - 1
    BY <2>1
  <2>5. m \in Nat
    BY <2>1
  <2>6. Span(c) = P[Len(P)].off + 1
    BY <1>3, <1>5, <2>2
  <2> HIDE DEF P, m
  <2>7. Span(c) = m
    BY <2>3, <2>4, <2>5, <2>6
  <2> QED
    BY <1>5, <2>5, <2>7 DEF Extent, m
<1>6. CASE c.k = "repeat2d"
  <2> DEFINE m == repeat_2d_final_offset(c)
  <2>1. PICK p \in RepeatPoints(c, None) : p.off = m - 1
    BY <1>6, RepeatSpread
  <2>2. Spread(RepeatPoints(c, None), m - 1)
    BY <1>6, RepeatSpread
  <2>3. Points(c, None) = ByOffset(RepeatPoints(c, None))
    BY <1>6, PointsAre
  <2>4. m - 1 \in Nat /\ m \in Int
    <3>1. m - 1 \in Nat
      BY <2>2 DEF Spread
    <3>2. \E x \in Cells2(c.counts) : m = Off2(c.intervals, x) /\ Off2(c.intervals, x) \in Nat
      <4>1. Dense2(c.counts, c.intervals)
        BY <1>6, RepeatSpread
      <4> QED
        BY <4>1, Corner2 DEF repeat_2d_final_offset, Off2
    <3> QED
      BY <3>1, <3>2
  <2> HIDE DEF m
  <2>5. Points(c, None)[Len(Points(c, None))] = p
    BY <2>1, <2>2, <2>3, Listed
  <2>6. Span(c) = m
    BY <1>3, <1>6, <2>1, <2>4, <2>5
  <2> QED
    BY <1>6, <2>4, <2>6 DEF Extent, m
<1>7. CASE c.k = "loop"
  <2> DEFINE m == loop_duration(c)
  <2>1. PICK p \in LoopPoints(c) : p.off = m - 1
    BY <1>7, LoopSpread
  <2>2. Spread(LoopPoints(c), m - 1)
    BY <1>7, LoopSpread
  <2>3. Points(c, None) = ByOffset(LoopPoints(c))
    BY <1>7, PointsAre
  <2>4. m - 1 \in Nat /\ m \in Int
    <3>1. m - 1 \in Nat
      BY <2>2 DEF Spread
    <3> DEFINE q1 == (c.counts[1] - 1) * c.strides[1]
               q2 == (c.counts[2] - 1) * c.strides[2]
               q3 == (c.counts[3] - 1) * c.strides[3]
    <3>2. c.wait \in Nat /\ {c.counts[1], c.counts[2], c.counts[3], c.strides[1], c.strides[2], c.strides[3]} \subseteq Nat \ {0}
      BY <1>7, LoopSpread DEF Dense3, Dense2
    <3>3. q1 \in Int /\ q2 \in Int /\ q3 \in Int
      BY <3>2
    <3>4. m = c.wait + q1 + q2 + q3 + 1
      BY DEF loop_duration
    <3> HIDE DEF q1, q2, q3, m
    <3> QED
      BY <3>1, <3>2, <3>3, <3>4
  <2> HIDE DEF m
  <2>5. Points(c, None)[Len(Points(c, None))] = p
    BY <2>1, <2>2, <2>3, Listed
  <2>6. Span(c) = m
    BY <1>3, <1>7, <2>1, <2>4, <2>5
  <2> QED
    BY <1>7, <2>4, <2>6 DEF Extent, m
<1>8. CASE c.k = "writeread"
  <2> DEFINE m == last_issue_cycle(c)
  <2>1. PICK p \in SweepPoints(c) : p.off = m
    BY <1>8, SweepSpread
  <2>2. Spread(SweepPoints(c), m) /\ m \in Nat
    BY <1>8, SweepSpread DEF Spread
  <2>3. Points(c, None) = ByOffset(SweepPoints(c))
    BY <1>8, PointsAre
  <2> HIDE DEF m
  <2>5. Points(c, None)[Len(Points(c, None))] = p
    BY <2>1, <2>2, <2>3, Listed
  <2>6. Span(c) = m + 1 /\ m + 1 \in Nat
    BY <1>3, <1>8, <2>1, <2>2, <2>5
  <2> QED
    BY <1>8, <2>6 DEF Extent, m
<1> QED
  BY <1>1, <1>2, <1>4, <1>5, <1>6, <1>7, <1>8 DEF Native

(* A set of natural numbers has a least one.                                *)
LEMMA Minimum ==
  ASSUME NEW T, T \subseteq Nat, T # {}
  PROVE  \E x \in T : \A y \in T : x <= y
<1>1. IsWellFoundedOn(OpToRel(<, Nat), Nat)
  BY NatLessThanWellFounded
<1>2. PICK x \in T : \A y \in T : ~ (<<y, x>> \in OpToRel(<, Nat))
  BY <1>1, WFMin
<1>3. \A y \in T : ~(y < x)
  BY <1>2 DEF OpToRel
<1> QED
  BY <1>3

(* The list by offset holds the points, each of them, in the order of their *)
(* offsets.                                                                 *)
LEMMA Sorted ==
  ASSUME NEW S, NEW m, Spread(S, m)
  PROVE  /\ ByOffset(S) \in Seq(S)
         /\ \A p \in S : \E k \in 1 .. Len(ByOffset(S)) : ByOffset(S)[k] = p
         /\ \A k, l \in 1 .. Len(ByOffset(S)) : k < l => ByOffset(S)[k].off < ByOffset(S)[l].off
<1> DEFINE N == Cardinality(S)
           L == ByOffset(S)
           f == [p \in S |-> Rank(S, p.off) + 1]
<1>1. IsFiniteSet(S) /\ N \in Nat /\ \A p \in S : p.off \in Int
  <2>1. IsFiniteSet(S) /\ N \in Nat
    BY SpreadFinite
  <2> HIDE DEF N
  <2> QED
    BY <2>1 DEF Spread
<1>2. /\ Len(L) = N /\ DOMAIN L = 1 .. N
      /\ \A p \in S : Rank(S, p.off) + 1 \in 1 .. N /\ L[Rank(S, p.off) + 1] = p
  BY Listing
<1> HIDE DEF L
<1>3. f \in Injection(S, 1 .. N)
  <2>1. f \in [S -> 1 .. N]
    BY <1>2
  <2>2. \A p, q \in S : f[p] = f[q] => p = q
    BY <1>2
  <2> HIDE DEF f
  <2> QED
    BY <2>1, <2>2 DEF Injection, IsInjective
<1>4. f \in Surjection(S, 1 .. N)
  <2>1. IsFiniteSet(1 .. N) /\ Cardinality(1 .. N) = N
    BY <1>1, FS_Interval
  <2>2. Cardinality(S) = Cardinality(1 .. N)
    BY <2>1
  <2> HIDE DEF f
  <2> QED
    BY <1>3, <2>1, <2>2, FS_Injection
<1>5. ASSUME NEW k \in 1 .. N
      PROVE  \E p \in S : k = Rank(S, p.off) + 1 /\ L[k] = p
  <2>1. PICK p \in S : f[p] = k
    BY <1>4 DEF Surjection
  <2>2. k = Rank(S, p.off) + 1
    BY <2>1
  <2> QED
    BY <1>2, <2>2
<1>6. ASSUME NEW k \in 1 .. N, NEW l \in 1 .. N, k < l
      PROVE  L[k].off < L[l].off
  <2>1. PICK p \in S : k = Rank(S, p.off) + 1 /\ L[k] = p
    BY <1>5
  <2>2. PICK q \in S : l = Rank(S, q.off) + 1 /\ L[l] = q
    BY <1>5
  <2>3. CASE q.off <= p.off
    <3>1. {r \in S : r.off < q.off} \in SUBSET {r \in S : r.off < p.off}
      BY <1>1, <2>3
    <3>2. p.off \in Int /\ q.off \in Int
      BY <1>1
    <3>3. IsFiniteSet({r \in S : r.off < p.off})
      BY <3>2, Ranks
    <3>4. Rank(S, q.off) <= Rank(S, p.off)
      BY <3>1, <3>3, FS_Subset DEF Rank
    <3>5. Rank(S, q.off) \in Nat /\ Rank(S, p.off) \in Nat
      BY <3>2, Ranks
    <3> QED
      BY <1>6, <2>1, <2>2, <3>4, <3>5
  <2>4. p.off \in Int /\ q.off \in Int
    BY <1>1
  <2> QED
    BY <2>1, <2>2, <2>3, <2>4
<1>7. L \in Seq(S)
  <2>1. L \in [1 .. N -> S]
    <3>1. L = [n \in 1 .. N |-> CHOOSE p \in S : Rank(S, p.off) = n - 1]
      BY DEF L, ByOffset
    <3>2. \A n \in 1 .. N : L[n] \in S
      BY <1>5
    <3> QED
      BY <3>1, <3>2
  <2> QED
    BY <1>1, <2>1, SeqDef
<1> QED
  BY <1>2, <1>5, <1>6, <1>7 DEF L
----------------------------------------------------------------------------
(* An instruction; the row of a repeat may be out of range.                 *)
Instr == [op : {"rd", "wr", "none"}, row : Int]

(* An instruction whose row is moved is an instruction.                     *)
LEMMA Moves ==
  ASSUME NEW v \in Instr, NEW d \in Int
  PROVE  Move(v, d) \in Instr
<1>1. Move(v, d) = [v EXCEPT !.row = v.row + d]
  BY DEF Move
<1>2. v.row + d \in Int
  BY DEF Instr
<1> QED
  BY <1>1, <1>2 DEF Instr

(* Products of integers and of natural numbers.                             *)
LEMMA Products ==
  /\ \A a, b \in Int : a * b \in Int
  /\ \A a, b \in Nat : a * b \in Nat
  OBVIOUS

(* What a command issues are instructions.                                  *)
LEMMA PointValues ==
  ASSUME NEW c, Sound(c), NEW v \in Instr
  PROVE  /\ c.k = "insn" => c.value \in Instr
         /\ c.k = "repeat" => \A n \in Nat : Move(v, n * c.row) \in Instr
         /\ c.k = "repeat2d" => \A p \in RepeatPoints(c, v) : p.value \in Instr
         /\ c.k = "loop" => \A p \in LoopPoints(c) : p.value \in Instr
         /\ c.k = "writeread" => \A p \in SweepPoints(c) : p.value \in Instr
<1>1. ASSUME c.k = "insn" PROVE c.value \in Instr
  <2>1. c.value \in [op : {"rd", "wr"}, row : Nat]
    BY <1>1 DEF Sound
  <2> QED
    BY <2>1 DEF Instr
<1>2. ASSUME c.k = "repeat", NEW n \in Nat PROVE Move(v, n * c.row) \in Instr
  <2>1. c.row \in Int
    BY <1>2 DEF Sound
  <2>2. n * c.row \in Int
    BY <2>1, Products
  <2> QED
    BY <2>2, Moves
<1>3. ASSUME c.k = "repeat2d", NEW p \in RepeatPoints(c, v) PROVE p.value \in Instr
  <2>1. PICK x \in Cells2(c.counts) : p = RepeatPoint(c, v, x)
    BY <1>3, RepeatSpread
  <2>2. x[1] \in Int /\ x[2] \in Int /\ c.rows[1] \in Int /\ c.rows[2] \in Int
    BY <1>3 DEF Cells2, Sound, Swings
  <2>3. x[1] * c.rows[1] \in Int /\ x[2] * c.rows[2] \in Int
    BY <2>2, Products
  <2>4. x[1] * c.rows[1] + x[2] * c.rows[2] \in Int
    BY <2>3
  <2> QED
    BY <2>1, <2>4, Moves DEF RepeatPoint
<1>4. ASSUME c.k = "loop", NEW p \in LoopPoints(c) PROVE p.value \in Instr
  <2>1. PICK x \in Cells(c.counts) : p = [off |-> LoopOffset(c, x), value |-> LoopValue(c, x)]
    BY DEF LoopPoints
  <2>2. x[1] \in Int /\ x[2] \in Int /\ x[3] \in Int
    BY DEF Cells
  <2>3. c.rows[1] \in Int /\ c.rows[2] \in Int /\ c.rows[3] \in Int
    BY <1>4 DEF Sound, Swings
  <2>4. x[1] * c.rows[1] \in Int /\ x[2] * c.rows[2] \in Int /\ x[3] * c.rows[3] \in Int
    BY <2>2, <2>3, Products
  <2>5. x[1] * c.rows[1] + x[2] * c.rows[2] + x[3] * c.rows[3] \in Int
    BY <2>4
  <2>6. c.value \in Instr
    <3>1. c.value \in [op : {"rd", "wr"}, row : Nat]
      BY <1>4 DEF Sound
    <3> QED
      BY <3>1 DEF Instr
  <2> QED
    BY <2>1, <2>5, <2>6, Moves DEF LoopValue
<1>5. ASSUME c.k = "writeread", NEW p \in SweepPoints(c) PROVE p.value \in Instr
  <2>1. PICK s \in {1, 2}, x \in Cells2(c.counts) :
          p = [off |-> SideOffset(c, s, x), value |-> SideValue(c, s, x)]
    BY <1>5, SweepSpread
  <2>2. x[1] \in Int /\ x[2] \in Int /\ c.rows[1] \in Int /\ c.rows[2] \in Int /\ c.base \in Int
    <3>1. Swings(c.counts, c.strides[1], c.rows) /\ c.base \in Nat
      BY <1>5 DEF Sound
    <3> QED
      BY <3>1 DEF Cells2, Swings
  <2>3. x[1] * c.rows[1] \in Int /\ x[2] * c.rows[2] \in Int
    BY <2>2, Products
  <2>4. c.base + x[1] * c.rows[1] + x[2] * c.rows[2] \in Int
    BY <2>2, <2>3
  <2> QED
    BY <2>1, <2>4 DEF SideValue, Instr, Wr, Rd
<1> QED
  BY <1>1, <1>2, <1>3, <1>4, <1>5

(* The set a packet's points are listed from.                               *)
PointSet(c, v) ==
  CASE c.k = "repeat2d" -> RepeatPoints(c, v)
    [] c.k = "loop" -> LoopPoints(c)
    [] c.k = "writeread" -> SweepPoints(c)

(* The issues of a packet are spread over its cycles.                       *)
LEMMA Swept2 ==
  ASSUME NEW c, Sound(c), NEW v, c.k \in {"repeat2d", "loop", "writeread"}
  PROVE  /\ Points(c, v) = ByOffset(PointSet(c, v))
         /\ Spread(PointSet(c, v), Span(c) - 1)
         /\ Span(c) \in Nat \ {0}
<1>1. Span(c) = Extent(c) /\ Extent(c) \in Nat
  BY Spans
<1>2. Points(c, v) = ByOffset(PointSet(c, v))
  BY PointsAre DEF PointSet
<1>3. CASE c.k = "repeat2d"
  <2>1. Spread(RepeatPoints(c, v), Span(c) - 1)
    BY <1>1, <1>3, RepeatSpread DEF Extent
  <2>2. Spread(PointSet(c, v), Span(c) - 1)
    BY <1>3, <2>1 DEF PointSet
  <2>3. Span(c) - 1 \in Nat
    BY <2>2 DEF Spread
  <2> QED
    BY <1>1, <1>2, <2>2, <2>3
<1>4. CASE c.k = "loop"
  <2>1. Spread(LoopPoints(c), Span(c) - 1)
    BY <1>1, <1>4, LoopSpread DEF Extent
  <2>2. Spread(PointSet(c, v), Span(c) - 1)
    BY <1>4, <2>1 DEF PointSet
  <2>3. Span(c) - 1 \in Nat
    BY <2>2 DEF Spread
  <2> QED
    BY <1>1, <1>2, <2>2, <2>3
<1>5. CASE c.k = "writeread"
  <2>1. Spread(SweepPoints(c), last_issue_cycle(c)) /\ Span(c) = last_issue_cycle(c) + 1
    BY <1>1, <1>5, SweepSpread DEF Extent
  <2>2. last_issue_cycle(c) \in Nat
    BY <2>1 DEF Spread
  <2>3. Span(c) - 1 = last_issue_cycle(c) /\ Span(c) \in Nat \ {0}
    BY <2>1, <2>2
  <2> QED
    BY <1>2, <1>5, <2>1, <2>3 DEF PointSet
<1> QED
  BY <1>3, <1>4, <1>5

(* An issue of a command.                                                   *)
Point == [off : Nat, value : Instr]

(* The issues of a command are within its cycles and in order.              *)
LEMMA PointSeq ==
  ASSUME NEW c, Sound(c), c.k # "legacy", NEW v \in Instr
  PROVE  /\ Points(c, v) \in Seq(Point)
         /\ \A k \in 1 .. Len(Points(c, v)) : Points(c, v)[k].off < Span(c)
         /\ \A k, l \in 1 .. Len(Points(c, v)) : k < l => Points(c, v)[k].off < Points(c, v)[l].off
<1> DEFINE P == Points(c, v)
<1>1. c.k \in Native
  BY Kinds
<1>2. CASE c.k \in {"nop", "wait", "sync", "notify"}
  <2>1. P = <<>>
    BY <1>2 DEF Points
  <2> QED
    BY <2>1, EmptySeq
<1>3. CASE c.k = "insn"
  <2>1. P = <<[off |-> 0, value |-> c.value]>>
    BY <1>3 DEF Points
  <2>2. c.value \in Instr
    BY <1>3, PointValues
  <2>3. Span(c) = 1
    BY <1>3, Spans DEF Extent
  <2> QED
    BY <2>1, <2>2, <2>3 DEF Point
<1>4. CASE c.k = "repeat"
  <2> DEFINE N == c.count
             I == c.interval
  <2>1. N \in Nat \ {0} /\ I \in Nat \ {0}
    BY <1>4 DEF Sound
  <2>2. P = [n \in 1 .. N |-> [off |-> n * I - 1, value |-> Move(v, n * c.row)]]
    BY <1>4 DEF Points
  <2>3. \A n \in 1 .. N : Move(v, n * c.row) \in Instr
    BY <1>4, PointValues
  <2>4. Span(c) = N * I /\ N * I \in Nat
    BY <1>4, Spans DEF Extent
  <2> HIDE DEF N, I
  <2>5. \A n \in 1 .. N : n * I \in Nat \ {0} /\ n * I <= N * I
    <3> TAKE n \in 1 .. N
    <3>1. n * I <= N * I
      BY <2>1, Monotone
    <3>2. n * I \in Nat \ {0}
      BY <2>1
    <3> QED
      BY <3>1, <3>2
  <2>6. \A n \in 1 .. N : P[n].off = n * I - 1 /\ P[n].value \in Instr /\ P[n] \in Point
    <3> TAKE n \in 1 .. N
    <3> DEFINE o == n * I
    <3>1. o \in Nat \ {0}
      BY <2>5
    <3> HIDE DEF o
    <3>2. o - 1 \in Nat
      BY <3>1
    <3>3. P[n] = [off |-> o - 1, value |-> Move(v, n * c.row)]
      BY <2>2 DEF o
    <3>4. Move(v, n * c.row) \in Instr
      BY <2>3
    <3> QED
      BY <3>2, <3>3, <3>4 DEF Point, o
  <2> HIDE DEF P
  <2>7. P \in [1 .. N -> Point]
    BY <2>2, <2>6
  <2>8. P \in Seq(Point) /\ Len(P) = N
    <3>1. P \in Seq(Point)
      BY <2>1, <2>7, SeqDef
    <3> QED
      BY <2>1, <2>7, <3>1, LenProperties
  <2>9. ASSUME NEW k \in 1 .. N PROVE P[k].off < Span(c)
    <3>1. PICK o \in Nat \ {0} : o = k * I
      BY <2>5
    <3>2. o <= Span(c) /\ P[k].off = o - 1 /\ Span(c) \in Nat
      BY <2>4, <2>5, <2>6, <3>1
    <3> QED
      BY <3>2
  <2>10. ASSUME NEW k \in 1 .. N, NEW l \in 1 .. N, k < l PROVE P[k].off < P[l].off
    <3>1. k * I + I <= l * I
      BY <2>1, <2>10, Carry
    <3>2. PICK o \in Nat \ {0} : o = k * I
      BY <2>5
    <3>3. PICK p \in Nat \ {0} : p = l * I
      BY <2>5
    <3>4. P[k].off = o - 1 /\ P[l].off = p - 1 /\ o + I <= p
      BY <2>6, <3>1, <3>2, <3>3
    <3> QED
      BY <2>1, <3>4
  <2> QED
    BY <2>8, <2>9, <2>10 DEF P
<1>5. CASE c.k \in {"repeat2d", "loop", "writeread"}
  <2> DEFINE S == PointSet(c, v)
  <2>1. P = ByOffset(S) /\ Spread(S, Span(c) - 1) /\ Span(c) \in Nat \ {0}
    BY <1>5, Swept2
  <2>2. /\ P \in Seq(S)
        /\ \A k, l \in 1 .. Len(P) : k < l => P[k].off < P[l].off
    <3> HIDE DEF S
    <3> QED
      BY <2>1, Sorted
  <2>3. \A p \in S : p.off \in Nat /\ p.off < Span(c)
    <3> HIDE DEF S
    <3> QED
      BY <2>1 DEF Spread
  <2>4. \A p \in S : p.value \in Instr
    BY <1>5, PointValues DEF PointSet
  <2>5. \A p \in S : p \in Point
    <3>1. \A p \in S : p = [off |-> p.off, value |-> p.value]
      BY <1>5 DEF PointSet, RepeatPoints, LoopPoints, SweepPoints, RepeatPoint
    <3> QED
      BY <2>3, <2>4, <3>1 DEF Point
  <2> HIDE DEF S, P
  <2>6. P \in Seq(Point)
    BY <2>2, <2>5, SeqMonotonic
  <2>7. \A k \in 1 .. Len(P) : P[k] \in S
    BY <2>2, ElementOfSeq
  <2> QED
    BY <2>2, <2>3, <2>6, <2>7 DEF P
<1> QED
  BY <1>1, <1>2, <1>3, <1>4, <1>5 DEF Native
=============================================================================
