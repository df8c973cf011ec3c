------------------------ MODULE ProgramLoaderProofs ------------------------
(* Proofs about ProgramLoader, for every set of programs and of             *)
(* configurations, and all widths of vectors, buses, words and buffers.     *)
EXTENDS ProgramLoader, SequenceTheorems, FiniteSetTheorems, TLAPS

(* What is being loaded.                                                    *)
Part == images[current]
Size == ByteCount(current)

(* Vectors the route has taken from the FIFO.                               *)
Taken == Vectors(Part) - unrequested - outstanding - Len(inbound)

(* A stage of the cycle is entered for some states of the loader only, and  *)
(* the ICU loads a program as long as the loader does.                      *)
Phases ==
  /\ stage = "start" => state = "Ready"
  /\ stage = "prime" => state \in {"AllCommitted", "Prime"}
  /\ stage \in {"commit", "accept", "route", "dma"} => Loading
  /\ Loading => loading
  /\ ~Loading => current > Len(images)

(* What submit() checked of the order of the images.                        *)
InOrder(M) ==
  /\ \A i, j \in DOMAIN M : i < j => Group(M[i].store) <= Group(M[j].store)
  /\ \A i \in DOMAIN M : M[i].store = "Qctl" => \E j \in DOMAIN M :
       M[j].store = "Imem" /\ M[j].macro /\ M[j].queue = M[i].queue
  /\ \A i \in DOMAIN M : M[i].store = "BarrierEvents" => \E j \in DOMAIN M : M[j].store = "Barr"
  /\ \A i, j \in DOMAIN M : M[i].store = "Barr" /\ M[j].store = "Barr" => i = j

(* Image i of a program makes sense, in view of the others.                 *)
Sound(M, i) ==
  /\ M[i].store = "Qctl" => ControlsValid(M[i].table)
  /\ M[i].store = "Qctl" /\ HasPackets(M[i].table) =>
       \E j \in DOMAIN M : /\ M[j].store = "Imem" /\ M[j].macro
                           /\ M[j].queue = [M[i].queue EXCEPT !.kind = "Mem"]
  /\ M[i].store \in {"QueueEvents", "BarrierEvents"} =>
       EventsWhole(M[i]) /\ BindingsValid(Bindings(M[i]))
  /\ M[i].store = "BarrierEvents" => \A k \in DOMAIN M :
       M[k].store = "Barr" => BarriersBound(M[k].table, Bindings(M[i]))

(* What is sealed is sound, and fits in the pool; a failure has its cause   *)
(* in the program.                                                          *)
Checked ==
  /\ \A i \in sealed : Sound(images, i)
  /\ Cardinality(PoolEntries(images, sealed)) <= PoolCapacity
  /\ fault # "none" => ~WellFormed(images)

(* The stores hold the images before the current one, and the first words   *)
(* of that.                                                                 *)
Filled ==
  /\ \A i \in DOMAIN images :
       /\ \A a \in 1 .. Len(rams[i]) : rams[i][a] = WordOf(i, a)
       /\ i < current => Len(rams[i]) = images[i].words
       /\ i > current => rams[i] = <<>>
  /\ sealed = {i \in DOMAIN images : i < current}
  /\ \A j \in sealed : images[j].store = "Barr" => barriers = j

(* The next words are those that wait for their commit latency.             *)
Accepted ==
  Loading =>
    /\ accepted = Len(rams[current]) + Len(commits)
    /\ \A k \in 1 .. Len(commits) :
         /\ commits[k].address = Len(rams[current]) + k - 1
         /\ commits[k].bytes = WordOf(current, Len(rams[current]) + k)

(* Behind them come, without a gap, the bytes of the reassembly buffer and  *)
(* of the stages of the bus: stage s carries those after base[s], up to     *)
(* where the stage before it begins.                                        *)
Carries(base) ==
  /\ base \in [0 .. config.route -> 0 .. routed]
  /\ base[0] = routed
  /\ base[config.route] = accepted * Part.width + Len(reassembly)
  /\ \A s, t \in 0 .. config.route : s <= t => base[t] <= base[s]
  /\ \A s \in 1 .. config.route :
       /\ base[s] + Len(route[s]) = base[s - 1]
       /\ \A b \in 1 .. Len(route[s]) : route[s][b] = <<current, base[s] + b>>

Carried ==
  Loading =>
    /\ DOMAIN route = 1 .. config.route
    /\ \A b \in 1 .. Len(reassembly) :
         reassembly[b] = <<current, accepted * Part.width + b>>
    /\ \E base \in [0 .. config.route -> 0 .. routed] : Carries(base)

(* And behind those, the vectors of the FIFO; the rest is still to come.    *)
Fed ==
  Loading =>
    /\ Taken \in Nat
    /\ routed <= Size
    /\ routed < Size => routed = Taken * VectorBytes + offset /\ offset < VectorBytes
    /\ routed = Size => Taken = Vectors(Part) /\ offset = 0
    /\ \A k \in 1 .. Len(inbound) : inbound[k] = <<current, Taken + k>>

(* Nothing exceeds its credit, and between programs there is nothing.       *)
Bounded ==
  /\ outstanding + Len(inbound) <= FifoDepth
  /\ Len(reassembly) <= ReassemblyBytes
  /\ Len(commits) <= config.commit + 1
  /\ ~Loading => /\ Drained /\ reassembly = <<>> /\ commits = <<>>
                 /\ \A s \in DOMAIN route : route[s] = <<>>

IInv ==
  /\ TypeOK /\ Phases /\ InOrder(images) /\ Filled /\ Accepted /\ Carried /\ Fed /\ Bounded
  /\ Checked
----------------------------------------------------------------------------
LEMMA Mul ==
  /\ \A a, b \in Nat : a * b \in Nat
  /\ \A a, b \in Nat : (a + 1) * b = a * b + b
  /\ \A a, b, c \in Nat : a <= b => a * c <= b * c
  <1>1. \A a, b \in Nat : a * b \in Nat
    OBVIOUS
  <1>2. \A a, b \in Nat : (a + 1) * b = a * b + b
    OBVIOUS
  <1>3. ASSUME NEW a \in Nat, NEW b \in Nat, NEW c \in Nat, a <= b PROVE a * c <= b * c
    <2>1. b - a \in Nat /\ a + (b - a) = b
      BY <1>3
    <2>2. \A d \in Nat : (a + d) * c = a * c + d * c /\ d * c \in Nat
      OBVIOUS
    <2>3. b * c = a * c + (b - a) * c /\ (b - a) * c \in Nat
      BY <2>1, <2>2
    <2>4. a * c \in Nat
      OBVIOUS
    <2> DEFINE p == a * c
               q == (b - a) * c
    <2>5. b * c = p + q /\ p \in Nat /\ q \in Nat
      BY <2>3, <2>4
    <2> HIDE DEF p, q
    <2>6. p <= p + q
      BY <2>5
    <2> QED BY <2>5, <2>6 DEF p
  <1> QED BY <1>1, <1>2, <1>3

LEMMA DivFacts ==
  ASSUME NEW x \in Nat, NEW y \in Nat \ {0}
  PROVE  x \div y \in Nat /\ (x \div y) * y <= x /\ x < (x \div y) * y + y
  OBVIOUS

LEMMA DivUnique ==
  ASSUME NEW x \in Nat, NEW y \in Nat \ {0}, NEW q \in Nat, q * y <= x, x < q * y + y
  PROVE  x \div y = q
<1> DEFINE d == x \div y
<1>1. d \in Nat /\ d * y <= x /\ x < d * y + y
  BY DivFacts
<1> HIDE DEF d
<1>2. CASE d < q
  <2>1. (d + 1) * y <= q * y
    BY <1>1, <1>2, Mul
  <2>2. (d + 1) * y = d * y + y
    BY <1>1
  <2> QED BY <1>1, <2>1, <2>2
<1>3. CASE q < d
  <2>1. (q + 1) * y <= d * y
    BY <1>1, <1>3, Mul
  <2>2. (q + 1) * y = q * y + y
    BY <1>1
  <2> QED BY <1>1, <2>1, <2>2
<1> QED BY <1>1, <1>2, <1>3 DEF d

LEMMA MovesFacts ==
  ASSUME config.route \in Nat \ {0}
  PROVE  \A s \in 1 .. config.route : Moves[s] =
    IF s = config.route THEN route[s] = <<>> \/ Delivered ELSE route[s] = <<>> \/ Moves[s + 1]
<1> DEFINE L == config.route
           f == [s \in 1 .. L |-> Delivered \/ \E t \in s .. L : route[t] = <<>>]
           ok(g) == g = [s \in 1 .. L |-> IF s = L THEN route[s] = <<>> \/ Delivered
                                            ELSE route[s] = <<>> \/ g[s + 1]]
<1>1. \A s \in 1 .. L : f[s] = IF s = L THEN route[s] = <<>> \/ Delivered
                                            ELSE route[s] = <<>> \/ f[s + 1]
  <2> SUFFICES ASSUME NEW s \in 1 .. L
               PROVE  f[s] = IF s = L THEN route[s] = <<>> \/ Delivered
                                      ELSE route[s] = <<>> \/ f[s + 1]
    OBVIOUS
  <2>0. L \in Nat \ {0}
    OBVIOUS
  <2>1. CASE s = L
    <3>1. s .. L = {L}
      BY <2>0, <2>1
    <3> QED BY <2>1, <3>1
  <2>2. CASE s # L
    <3>1. s + 1 \in 1 .. L /\ s .. L = {s} \cup ((s + 1) .. L)
      BY <2>0, <2>2
    <3> QED BY <2>2, <3>1
  <2> QED BY <2>1, <2>2
<1>2. ok(f)
  BY <1>1
<1>3. Moves = CHOOSE g : ok(g)
  BY DEF Moves
<1> HIDE DEF ok, f
<1>4. ok(Moves)
  BY <1>2, <1>3
<1> QED BY <1>4 DEF ok

LEMMA FirstAndRest ==
  ASSUME NEW S, NEW q \in Seq(S), NEW n \in 0 .. Len(q)
  PROVE  /\ Len(q) \in Nat
         /\ SubSeq(q, 1, n) \in Seq(S) /\ Len(SubSeq(q, 1, n)) = n
         /\ \A k \in 1 .. n : SubSeq(q, 1, n)[k] = q[k]
         /\ SubSeq(q, n + 1, Len(q)) \in Seq(S) /\ Len(SubSeq(q, n + 1, Len(q))) = Len(q) - n
         /\ \A k \in 1 .. Len(q) - n : SubSeq(q, n + 1, Len(q))[k] = q[n + k]
<1>1. Len(q) \in Nat /\ n \in Nat /\ n <= Len(q) /\ \A k \in 1 .. Len(q) : q[k] \in S
  BY ElementOfSeq
<1>2. /\ SubSeq(q, 1, n) \in Seq(S) /\ Len(SubSeq(q, 1, n)) = n
      /\ \A k \in 1 .. n : SubSeq(q, 1, n)[k] = q[k]
  <2>1. \A k \in 1 .. n : q[k] \in S
    BY <1>1
  <2>2. /\ SubSeq(q, 1, n) \in Seq(S) /\ Len(SubSeq(q, 1, n)) = IF 1 <= n THEN n - 1 + 1 ELSE 0
        /\ \A k \in 1 .. n - 1 + 1 : SubSeq(q, 1, n)[k] = q[1 + k - 1]
    BY <1>1, <2>1, SubSeqProperties
  <2>3. \A k \in 1 .. n : k \in 1 .. n - 1 + 1 /\ 1 + k - 1 = k
    BY <1>1
  <2> QED
    BY <1>1, <2>2, <2>3
<1>3. /\ SubSeq(q, n + 1, Len(q)) \in Seq(S) /\ Len(SubSeq(q, n + 1, Len(q))) = Len(q) - n
      /\ \A k \in 1 .. Len(q) - n : SubSeq(q, n + 1, Len(q))[k] = q[n + k]
  <2> DEFINE l == Len(q)
             r == SubSeq(q, n + 1, l)
  <2>1. \A k \in n + 1 .. l : q[k] \in S
    BY <1>1
  <2>2. n + 1 \in Int /\ l \in Int
    BY <1>1
  <2>3. /\ r \in Seq(S) /\ Len(r) = IF n + 1 <= l THEN l - (n + 1) + 1 ELSE 0
        /\ \A k \in 1 .. l - (n + 1) + 1 : r[k] = q[n + 1 + k - 1]
    BY <2>1, <2>2, SubSeqProperties
  <2>4. \A k \in 1 .. l - n : k \in 1 .. l - (n + 1) + 1 /\ n + 1 + k - 1 = n + k
    BY <1>1
  <2>5. l \in Nat /\ n <= l
    BY <1>1
  <2> HIDE DEF l, r
  <2>6. (IF n + 1 <= l THEN l - (n + 1) + 1 ELSE 0) = l - n
    BY <1>1, <2>5
  <2>7. r \in Seq(S) /\ Len(r) = l - n /\ \A k \in 1 .. l - n : r[k] = q[n + k]
    BY <2>3, <2>4, <2>6
  <2> QED
    BY <2>7 DEF l, r
<1> QED
  BY <1>1, <1>2, <1>3

(* The constants and the types.                                             *)
LEMMA ConstantFacts ==
  /\ VectorBytes \in Nat \ {0} /\ ReassemblyBytes \in Nat \ {0} /\ FifoDepth \in Nat \ {0}
  /\ MaxGeneration \in Nat \ {0} /\ QueueCapacity \in Nat /\ PoolCapacity \in Nat
  /\ \A c \in Configs : /\ c.bus \in Nat \ {0} /\ c.route \in Nat \ {0}
                        /\ c.interval \in Nat \ {0} /\ c.commit \in Nat \ {0}
<1>1. VectorBytes \in Nat \ {0} /\ ReassemblyBytes \in Nat \ {0} /\ FifoDepth \in Nat \ {0}
      /\ MaxGeneration \in Nat \ {0} /\ QueueCapacity \in Nat /\ PoolCapacity \in Nat
  BY LoaderAssumption
<1>2. Configs \subseteq Config
  BY LoaderAssumption
<1> QED
  BY <1>1, <1>2 DEF Config

LEMMA Types ==
  ASSUME TypeOK
  PROVE  /\ config \in Configs /\ config.bus \in Nat \ {0} /\ config.route \in Nat \ {0}
         /\ config.interval \in Nat \ {0} /\ config.commit \in Nat \ {0}
         /\ images \in Seq(Image) /\ Len(images) \in Nat /\ DOMAIN images = 1 .. Len(images)
         /\ current \in Nat \ {0} /\ (Loading => current \in DOMAIN images)
         /\ routed \in Nat /\ offset \in Nat /\ accepted \in Nat /\ cooldown \in Nat
         /\ unrequested \in Nat /\ outstanding \in Nat /\ answered \in Nat /\ answered <= outstanding
         /\ Len(inbound) \in Nat /\ Len(reassembly) \in Nat /\ Len(commits) \in Nat
         /\ DOMAIN commits = 1 .. Len(commits)
         /\ DOMAIN rams = DOMAIN images
         /\ \A i \in DOMAIN images : rams[i] \in Seq(Seq(Bytes)) /\ Len(rams[i]) \in Nat
         /\ \A s \in DOMAIN route : route[s] \in Seq(Bytes) /\ Len(route[s]) \in Nat
<1>1. config \in Configs
  BY DEF TypeOK
<1>2. images \in Seq(Image) /\ DOMAIN images = 1 .. Len(images) /\ Len(images) \in Nat
  BY DEF TypeOK
<1>3. current \in Nat \ {0} /\ (Loading => current \in DOMAIN images)
  BY DEF TypeOK
<1>4. routed \in Nat /\ offset \in Nat /\ accepted \in Nat /\ cooldown \in Nat
      /\ unrequested \in Nat /\ outstanding \in Nat /\ answered \in Nat /\ answered <= outstanding
  BY DEF TypeOK
<1>5. Len(inbound) \in Nat /\ Len(reassembly) \in Nat
  BY DEF TypeOK
<1>6. Len(commits) \in Nat /\ DOMAIN commits = 1 .. Len(commits)
  <2>1. commits \in Seq([address : Nat, bytes : Seq(Bytes), wait : 0 .. config.commit])
    BY DEF TypeOK
  <2> QED
    BY <2>1, LenProperties
<1>7. DOMAIN rams = DOMAIN images
      /\ \A i \in DOMAIN images : rams[i] \in Seq(Seq(Bytes)) /\ Len(rams[i]) \in Nat
  <2>1. rams \in Seq(Seq(Seq(Bytes))) /\ DOMAIN rams = DOMAIN images
    BY DEF TypeOK
  <2>2. DOMAIN rams = 1 .. Len(rams)
    BY <2>1, LenProperties
  <2>3. \A i \in DOMAIN images : rams[i] \in Seq(Seq(Bytes))
    BY <2>1, <2>2, ElementOfSeq
  <2> QED
    BY <2>1, <2>3, LenProperties
<1>8. \A s \in DOMAIN route : route[s] \in Seq(Bytes) /\ Len(route[s]) \in Nat
  <2>1. route \in Seq(Seq(Bytes))
    BY DEF TypeOK
  <2>2. DOMAIN route = 1 .. Len(route)
    BY <2>1, LenProperties
  <2>3. \A s \in DOMAIN route : route[s] \in Seq(Bytes)
    BY <2>1, <2>2, ElementOfSeq
  <2> QED
    BY <2>3, LenProperties
<1> QED
  BY <1>1, <1>2, <1>3, <1>4, <1>5, <1>6, <1>7, <1>8, ConstantFacts

LEMMA ImageTypes ==
  ASSUME NEW m \in Image
  PROVE  /\ m.store \in Stores /\ m.width \in Nat \ {0} /\ m.width <= ReassemblyBytes /\ m.words \in Nat
         /\ m.words * m.width \in Nat /\ Vectors(m) \in Nat
         /\ m.words * m.width = 0 => Vectors(m) = 0
         /\ \A f \in Nat : /\ f * VectorBytes < m.words * m.width
                           /\ m.words * m.width <= f * VectorBytes + VectorBytes
                           => Vectors(m) = f + 1
<1>1. m.store \in Stores /\ m.width \in Nat \ {0} /\ m.width <= ReassemblyBytes /\ m.words \in Nat
  BY ConstantFacts DEF Image
<1> DEFINE n == m.words * m.width
<1>2. n \in Nat
  BY <1>1, Mul
<1> HIDE DEF n
<1>3. Vectors(m) = (n + VectorBytes - 1) \div VectorBytes
  BY DEF Vectors, CeilDiv, n
<1>4. n + VectorBytes - 1 \in Nat
  BY <1>2, ConstantFacts
<1>5. Vectors(m) \in Nat
  BY <1>3, <1>4, ConstantFacts, DivFacts
<1>6. ASSUME n = 0 PROVE Vectors(m) = 0
  <2>1. 0 * VectorBytes = 0
    BY ConstantFacts
  <2> QED
    BY <1>2, <1>3, <1>4, <1>6, <2>1, ConstantFacts, DivUnique
<1>7. ASSUME NEW f \in Nat, f * VectorBytes < n, n <= f * VectorBytes + VectorBytes
      PROVE  Vectors(m) = f + 1
  <2> DEFINE g == f * VectorBytes
  <2>1. (f + 1) * VectorBytes = g + VectorBytes /\ g \in Nat
    BY ConstantFacts, Mul
  <2>2. g < n /\ n <= g + VectorBytes
    BY <1>7
  <2> HIDE DEF g
  <2>3. /\ g + VectorBytes <= n + VectorBytes - 1
        /\ n + VectorBytes - 1 < g + VectorBytes + VectorBytes
    BY <1>2, <2>1, <2>2, ConstantFacts
  <2> DEFINE q == f + 1
             x == n + VectorBytes - 1
  <2>4. q \in Nat /\ x \in Nat /\ q * VectorBytes <= x /\ x < q * VectorBytes + VectorBytes
    BY <1>4, <2>1, <2>3
  <2> HIDE DEF q, x
  <2>5. x \div VectorBytes = q
    BY <2>4, ConstantFacts, DivUnique
  <2> QED
    BY <1>3, <2>5 DEF q, x
<1> QED
  BY <1>1, <1>2, <1>5, <1>6, <1>7 DEF n

(* What the invariant says of the image that is being loaded.               *)
LEMMA PartFacts ==
  ASSUME IInv, Loading
  PROVE  /\ current \in 1 .. Len(images) /\ Part \in Image
         /\ Part.width \in Nat \ {0} /\ Part.width <= ReassemblyBytes /\ Part.words \in Nat
         /\ Size = Part.words * Part.width /\ Size \in Nat /\ Vectors(Part) \in Nat
<1>1. current \in 1 .. Len(images) /\ images \in Seq(Image)
  BY Types DEF IInv
<1>2. Part \in Image
  BY <1>1, ElementOfSeq DEF Part
<1>3. Size = Part.words * Part.width
  BY DEF Size, ByteCount, Part
<1> QED
  BY <1>1, <1>2, <1>3, ImageTypes

partVars == <<images, current, ramVars, reassembly, accepted, feedVars, unrequested, outstanding,
              inbound>>

(* Time passes for the words that wait, and nothing else happens to them.   *)
SameWords ==
  /\ Len(commits') = Len(commits) /\ (commits = <<>> => commits' = <<>>)
  /\ \A k \in 1 .. Len(commits) :
       commits'[k].address = commits[k].address /\ commits'[k].bytes = commits[k].bytes

(* More images do not take less of the pool.                                *)
LEMMA PoolFacts ==
  ASSUME NEW M, NEW T, IsFiniteSet(T), NEW S \in SUBSET T
  PROVE  Cardinality(PoolEntries(M, S)) <= Cardinality(PoolEntries(M, T))
<1>1. IsFiniteSet(T \X (1 .. QueueCapacity))
  <2>1. 1 \in Int /\ QueueCapacity \in Int
    BY ConstantFacts
  <2>2. IsFiniteSet(1 .. QueueCapacity)
    BY <2>1, FS_Interval
  <2> QED
    BY <2>2, FS_Product
<1>2. PoolEntries(M, T) \in SUBSET (T \X (1 .. QueueCapacity))
  BY DEF PoolEntries
<1>3. IsFiniteSet(PoolEntries(M, T))
  BY <1>1, <1>2, FS_Subset
<1>4. PoolEntries(M, S) \in SUBSET PoolEntries(M, T)
  BY DEF PoolEntries
<1> QED
  BY <1>3, <1>4, FS_Subset

LEMMA PoolCounts ==
  ASSUME NEW M, NEW T, IsFiniteSet(T)
  PROVE  Cardinality(PoolEntries(M, T)) \in Nat
<1>1. IsFiniteSet(T \X (1 .. QueueCapacity))
  <2>1. 1 \in Int /\ QueueCapacity \in Int
    BY ConstantFacts
  <2>2. IsFiniteSet(1 .. QueueCapacity)
    BY <2>1, FS_Interval
  <2> QED
    BY <2>2, FS_Product
<1>2. PoolEntries(M, T) \in SUBSET (T \X (1 .. QueueCapacity))
  BY DEF PoolEntries
<1> QED
  BY <1>1, <1>2, FS_Subset, FS_CardinalityType

LEMMA WellFormedFacts ==
  ASSUME NEW M
  PROVE  WellFormed(M) <=> /\ \A i \in DOMAIN M : Sound(M, i)
                           /\ Cardinality(PoolEntries(M, DOMAIN M)) <= PoolCapacity
  BY DEF WellFormed, Sound

LEMMA NothingSealed ==
  ASSUME NEW M
  PROVE  Cardinality(PoolEntries(M, {})) <= PoolCapacity
<1>1. PoolEntries(M, {}) = {}
  BY DEF PoolEntries
<1> QED
  BY <1>1, FS_EmptySet, ConstantFacts

LEMMA StillChecked ==
  ASSUME IInv, images' = images, sealed' = sealed, fault' = fault
  PROVE  Checked'
  BY DEF IInv, Checked

(* Steps that move no byte.                                                 *)
LEMMA QuietInv ==
  ASSUME IInv, TypeOK', Phases', Loading' <=> Loading, Loading => config' = config,
         UNCHANGED <<partVars, fault>>, SameWords
  PROVE  IInv'
<1>1. UNCHANGED <<images, current, rams, sealed, barriers, reassembly, accepted, routed,
                  offset, route, unrequested, outstanding, inbound, fault>>
  BY DEF partVars, ramVars, feedVars
<1>2. InOrder(images)'
  BY <1>1 DEF IInv, InOrder
<1>3. Filled'
  BY <1>1 DEF IInv, Filled, WordOf
<1>4. Accepted'
  BY <1>1 DEF IInv, Accepted, WordOf, SameWords
<1>5. Carried'
  <2>1. CASE Loading
    <3>1. config' = config /\ Carried
      BY <2>1 DEF IInv
    <3>2. \A base : Carries(base) => Carries(base)'
      BY <1>1, <3>1 DEF Carries, Part
    <3> QED
      BY <1>1, <2>1, <3>1, <3>2 DEF Carried, Part
  <2>2. CASE ~Loading
    BY <2>2 DEF Carried
  <2> QED
    BY <2>1, <2>2
<1>6. Fed'
  BY <1>1 DEF IInv, Fed, Taken, Size, ByteCount, Part, Vectors
<1>7. Bounded'
  <2>1. Drained' = Drained
    BY <1>1 DEF Drained, DmaIdle
  <2>2. Len(commits') <= config'.commit + 1
    <3>1. CASE Loading
      BY <1>1, <3>1 DEF IInv, Bounded, SameWords
    <3>2. CASE ~Loading
      <4>1. Len(commits') = 0
        BY <1>1, <3>2 DEF IInv, Bounded, SameWords
      <4>2. config'.commit \in Nat
        BY ConstantFacts DEF TypeOK
      <4> QED
        BY <4>1, <4>2
    <3> QED
      BY <3>1, <3>2
  <2> QED
    BY <1>1, <2>1, <2>2 DEF IInv, Bounded, SameWords
<1>8. Checked'
  BY <1>1, StillChecked
<1> QED
  BY <1>2, <1>3, <1>4, <1>5, <1>6, <1>7, <1>8 DEF IInv

(* A state in which nothing is being loaded, and nothing has been.          *)
LEMMA EmptyTypes ==
  /\ <<>> \in Seq(Image) /\ DOMAIN <<>> = {} /\ Len(<<>>) = 0
  /\ \A S : <<>> \in Seq(S)
  OBVIOUS

LEMMA InitInv == Init => IInv
<1> SUFFICES ASSUME Init PROVE IInv
  OBVIOUS
<1>1. /\ state = "Idle" /\ config \in Configs /\ images = <<>> /\ generation = 0 /\ current = 1
      /\ startRequested = FALSE /\ dependencies = FALSE /\ kernelDone = FALSE
      /\ routed = 0 /\ offset = 0 /\ accepted = 0 /\ cooldown = 0
      /\ route = <<>> /\ reassembly = <<>> /\ commits = <<>>
      /\ unrequested = 0 /\ outstanding = 0 /\ answered = 0 /\ inbound = <<>>
      /\ rams = <<>> /\ sealed = {} /\ barriers = 0
      /\ loading = FALSE /\ issue = TRUE /\ computing = FALSE
      /\ traffic = FALSE /\ stage = "runtime" /\ fault = "none"
  BY DEF Init
<1>2. ~Loading
  BY <1>1 DEF Loading
<1>3. TypeOK
  <2>1. state \in States /\ generation \in 0 .. MaxGeneration
    BY <1>1, ConstantFacts DEF States
  <2>2. {startRequested, dependencies, kernelDone, loading, issue, computing, traffic} \subseteq BOOLEAN
    BY <1>1
  <2>3. {routed, offset, accepted, cooldown} \subseteq Nat /\ {unrequested, outstanding} \subseteq Nat
        /\ answered \in 0 .. outstanding
    BY <1>1
  <2>4. /\ images \in Seq(Image) /\ route \in Seq(Seq(Bytes)) /\ reassembly \in Seq(Bytes)
        /\ commits \in Seq([address : Nat, bytes : Seq(Bytes), wait : 0 .. config.commit])
        /\ inbound \in Seq(Bytes) /\ rams \in Seq(Seq(Seq(Bytes))) /\ DOMAIN rams = DOMAIN images
    BY <1>1, EmptyTypes
  <2>5. sealed \subseteq DOMAIN images /\ barriers \in {0} \cup DOMAIN images
        /\ stage \in {"runtime", "start", "prime", "commit", "accept", "route", "dma", "chip"}
        /\ fault \in {"none", "exception"}
    BY <1>1
  <2> QED
    BY <1>1, <1>2, <2>1, <2>2, <2>3, <2>4, <2>5 DEF TypeOK
<1>4. Phases
  BY <1>1, <1>2 DEF Phases
<1>5. DOMAIN images = {} /\ DOMAIN route = {}
  BY <1>1
<1>6. InOrder(images) /\ Filled
  BY <1>1, <1>5 DEF InOrder, Filled
<1>7. Accepted /\ Carried /\ Fed
  BY <1>2 DEF Accepted, Carried, Fed
<1>8. Bounded
  <2>1. config.commit \in Nat
    BY <1>1, ConstantFacts
  <2> QED
    BY <1>1, <1>5, <2>1, ConstantFacts DEF Bounded, Drained, DmaIdle
<1>9. Checked
  BY <1>1, NothingSealed DEF Checked
<1> QED
  BY <1>3, <1>4, <1>6, <1>7, <1>8, <1>9 DEF IInv

(* The runtime between two programs, and the steps of a cycle that only     *)
(* change the state of the loader.                                          *)
LEMMA ConfigureInv ==
  ASSUME IInv, NEW c \in Configs, Configure(c)
  PROVE  IInv'
<1>1. ~Loading /\ ~Loading' /\ config' = c /\ commits = <<>>
  BY DEF Configure, Busy, Loading, IInv, Bounded
<1>2. /\ UNCHANGED <<partVars, commits, answered, fault>>
      /\ UNCHANGED <<state, generation, runVars, icuVars, cooldown, traffic, stage>>
  BY DEF Configure, partVars, ramVars, feedVars, dmaVars, wordVars
<1>3. TypeOK'
  <2>1. commits' \in Seq([address : Nat, bytes : Seq(Bytes), wait : 0 .. config.commit])'
    BY <1>1, <1>2, EmptyTypes DEF partVars
  <2> QED
    BY <1>1, <1>2, <2>1 DEF IInv, TypeOK, Bytes, partVars, runVars, icuVars, ramVars, feedVars, dmaVars
<1>4. Phases'
  BY <1>1, <1>2 DEF IInv, Phases, partVars, icuVars
<1> QED
  BY <1>1, <1>2, <1>3, <1>4, QuietInv DEF SameWords

LEMMA RequestInv ==
  ASSUME IInv, RequestStart \/ \E b \in BOOLEAN : SetDependenciesReady(b)
  PROVE  IInv'
<1>1. UNCHANGED <<partVars, commits, answered, fault, config, generation, state, kernelDone, icuVars,
                  cooldown, traffic, stage>>
  BY DEF RequestStart, SetDependenciesReady, partVars, progVars, ramVars, feedVars, dmaVars, wordVars
<1>2. startRequested' \in BOOLEAN /\ dependencies' \in BOOLEAN
  <2>1. startRequested \in BOOLEAN /\ dependencies \in BOOLEAN
    BY DEF IInv, TypeOK
  <2> QED
    BY <2>1 DEF RequestStart, SetDependenciesReady
<1>3. TypeOK'
  BY <1>1, <1>2 DEF IInv, TypeOK, Bytes, Loading, partVars, icuVars, ramVars, feedVars, dmaVars
<1>4. Phases' /\ (Loading' <=> Loading)
  BY <1>1 DEF IInv, Phases, Loading, partVars, icuVars
<1> QED
  BY <1>1, <1>3, <1>4, QuietInv DEF SameWords

LEMMA StateStepInv ==
  ASSUME IInv, BeginCycle \/ TickReady \/ \E b \in BOOLEAN : TickPrime(b)
  PROVE  IInv'
<1>1. UNCHANGED <<partVars, commits, answered, fault, config, generation, runVars, computing, cooldown, traffic>>
  BY DEF BeginCycle, TickReady, TickPrime, partVars, progVars, ramVars, feedVars, dmaVars, wordVars, icuVars
<1>2. /\ state' \in States /\ loading' \in BOOLEAN /\ issue' \in BOOLEAN
      /\ stage' \in {"start", "prime", "commit", "chip"}
  <2>1. state \in States /\ loading \in BOOLEAN /\ issue \in BOOLEAN
    BY DEF IInv, TypeOK
  <2>2. CASE BeginCycle
    <3>1. state' = state /\ loading' = loading
      BY <2>2 DEF BeginCycle
    <3>2. issue' \in BOOLEAN
      BY <2>1, <2>2 DEF BeginCycle
    <3>3. stage' \in {"start", "prime", "commit", "chip"}
      BY <2>2 DEF BeginCycle
    <3> QED
      BY <2>1, <3>1, <3>2, <3>3
  <2>3. CASE TickReady
    <3>1. CASE startRequested /\ dependencies
      BY <2>1, <2>3, <3>1 DEF TickReady, States
    <3>2. CASE ~(startRequested /\ dependencies)
      BY <2>1, <2>3, <3>2 DEF TickReady
    <3> QED
      BY <3>1, <3>2
  <2>4. CASE \E b \in BOOLEAN : TickPrime(b)
    BY <2>1, <2>4 DEF TickPrime, States, icuVars
  <2> QED
    BY <2>2, <2>3, <2>4
<1>3. Loading' <=> Loading
  BY DEF BeginCycle, TickReady, TickPrime, Ticking, IInv, Phases, Loading
<1>4. TypeOK'
  BY <1>1, <1>2, <1>3 DEF IInv, TypeOK, Bytes, partVars, runVars, ramVars, feedVars, dmaVars
<1>5. Phases'
  <2>1. Phases /\ current' = current /\ images' = images
    BY <1>1 DEF IInv, partVars
  <2>2. CASE BeginCycle
    BY <1>3, <2>1, <2>2 DEF BeginCycle, Phases, Busy, Loading
  <2>3. CASE TickReady
    BY <1>3, <2>1, <2>3 DEF TickReady, Ticking, Phases, Loading
  <2>4. CASE \E b \in BOOLEAN : TickPrime(b)
    BY <1>3, <2>1, <2>4 DEF TickPrime, Ticking, Phases, Loading, icuVars
  <2> QED
    BY <2>2, <2>3, <2>4
<1> QED
  BY <1>1, <1>3, <1>4, <1>5, QuietInv DEF SameWords

LEMMA Rows ==
  ASSUME NEW n \in Nat, NEW S, NEW x \in S
  PROVE  [i \in 1 .. n |-> x] \in Seq(S)
<1>1. [i \in 1 .. n |-> x] \in [1 .. n -> S]
  OBVIOUS
<1> QED
  BY <1>1, SeqDef

(* An image is begun: everything between DDR and its store is empty.        *)
LEMMA FreshInv ==
  ASSUME images' \in Seq(Image), current' \in DOMAIN images', config'.route \in Nat \ {0},
         unrequested' = Vectors(images'[current']), outstanding' = 0, inbound' = <<>>,
         routed' = 0, offset' = 0, accepted' = 0, reassembly' = <<>>, commits' = <<>>,
         rams'[current'] = <<>>, DOMAIN route' = 1 .. config'.route,
         \A s \in DOMAIN route' : route'[s] = <<>>
  PROVE  Accepted' /\ Carried' /\ Fed'
<1> DEFINE m == images'[current']
<1>1. m \in Image
  BY ElementOfSeq
<1>2. /\ m.width \in Nat \ {0} /\ m.words \in Nat /\ m.words * m.width \in Nat /\ Vectors(m) \in Nat
      /\ m.words * m.width = 0 => Vectors(m) = 0
  BY <1>1, ImageTypes
<1>3. Part' = m /\ Size' = m.words * m.width
  BY DEF Part, Size, ByteCount
<1>4. Len(inbound') = 0 /\ Len(commits') = 0 /\ Len(reassembly') = 0 /\ Len(rams'[current']) = 0
  BY EmptyTypes
<1>5. \A n \in Nat : 0 * n = 0
  OBVIOUS
<1> HIDE DEF m
<1>6. Accepted'
  BY <1>4 DEF Accepted
<1>7. Carried'
  <2> DEFINE L == config'.route
  <2>1. PICK base : base = [s \in 0 .. L |-> 0]
    OBVIOUS
  <2>2. base \in [0 .. L -> 0 .. routed'] /\ \A s \in 0 .. L : base[s] = 0
    BY <2>1
  <2>3. 0 \in 0 .. L /\ L \in 0 .. L /\ \A s \in 1 .. L : s - 1 \in 0 .. L /\ s \in 0 .. L
    OBVIOUS
  <2>4. base[L] = accepted' * m.width + Len(reassembly')
    BY <1>2, <1>4, <1>5, <2>2, <2>3
  <2>5. \A s \in 1 .. L : Len(route'[s]) = 0 /\ 1 .. Len(route'[s]) = {}
    BY EmptyTypes
  <2>6. \A s \in 1 .. L : base[s] + Len(route'[s]) = base[s - 1]
    BY <2>2, <2>3, <2>5
  <2>7. Carries(base)'
    BY <1>3, <2>2, <2>3, <2>4, <2>5, <2>6 DEF Carries
  <2>8. 1 .. Len(reassembly') = {}
    BY <1>4
  <2> QED
    BY <1>3, <2>2, <2>7, <2>8 DEF Carried
<1>8. Fed'
  <2>1. Taken' = 0
    BY <1>2, <1>3, <1>4 DEF Taken, m
  <2>2. 0 * VectorBytes = 0 /\ 0 < VectorBytes
    BY ConstantFacts
  <2> QED
    BY <1>2, <1>3, <1>4, <2>1, <2>2 DEF Fed
<1> QED
  BY <1>6, <1>7, <1>8

(* submit()                                                                 *)
LEMMA SubmitInv ==
  ASSUME IInv, NEW p \in Programs, Submit(p)
  PROVE  IInv'
<1> DEFINE M == p.images
<1>1. M \in Seq(Image) /\ p.generation \in 0 .. MaxGeneration /\ Len(M) \in Nat /\ DOMAIN M = 1 .. Len(M)
  BY LoaderAssumption, LenProperties DEF IsProgram
<1>2. /\ images' = M /\ rams' = [i \in DOMAIN M |-> <<>>] /\ sealed' = {} /\ barriers' = 0
      /\ loading' = TRUE /\ issue' = FALSE /\ computing' = FALSE
      /\ startRequested' = FALSE /\ dependencies' = FALSE /\ kernelDone' = FALSE
      /\ current' = 1 /\ routed' = 0 /\ offset' = 0 /\ accepted' = 0 /\ cooldown' = 0
      /\ route' = [s \in 1 .. config.route |-> <<>>]
      /\ reassembly' = <<>> /\ commits' = <<>>
      /\ UNCHANGED <<config, outstanding, answered, inbound, traffic, stage, fault>>
      /\ stage = "runtime" /\ CanLoadProgram /\ ValidProgram(p)
  BY DEF Submit, Runtime
<1>3. unrequested = 0 /\ outstanding = 0 /\ inbound = <<>>
  BY <1>2 DEF CanLoadProgram, Drained, DmaIdle
<1>4. \/ M = <<>> /\ state' = "AllCommitted" /\ unrequested' = 0
      \/ M # <<>> /\ state' = "LoadQueue" /\ unrequested' = Vectors(M[1])
  BY <1>3 DEF Submit, BeginQueue
<1>5. Loading' <=> M # <<>>
  BY <1>4 DEF Loading
<1>6. M # <<>> => 1 \in DOMAIN M
  BY <1>1
<1>7. unrequested' \in Nat
  <2>1. CASE M # <<>>
    <3>1. M[1] \in Image
      BY <1>1, <1>6, <2>1, ElementOfSeq
    <3> QED
      BY <1>4, <2>1, <3>1, ImageTypes
  <2> QED
    BY <1>4, <2>1
<1>8. config.route \in Nat \ {0} /\ config.commit \in Nat \ {0} /\ config \in Configs
  BY Types DEF IInv
<1> HIDE DEF M
<1>9. TypeOK'
  <2>1. generation' \in 0 .. MaxGeneration
    <3>1. generation' = IF p.generation # 0 THEN p.generation ELSE generation + 1
      BY DEF Submit
    <3>2. p.generation = 0 => generation < MaxGeneration
      BY <1>2 DEF ValidProgram
    <3>3. generation \in 0 .. MaxGeneration
      BY DEF IInv, TypeOK
    <3> QED
      BY <1>1, <3>1, <3>2, <3>3, ConstantFacts
  <2>2. state' \in States
    BY <1>4 DEF States
  <2>3. rams' \in Seq(Seq(Seq(Bytes)))' /\ DOMAIN rams' = DOMAIN images'
    <3>1. <<>> \in Seq(Seq(Bytes'))
      OBVIOUS
    <3>2. [i \in 1 .. Len(M) |-> <<>>] \in Seq(Seq(Seq(Bytes')))
      BY <1>1, <3>1, Rows
    <3> QED
      BY <1>1, <1>2, <3>2
  <2>4. route' \in Seq(Seq(Bytes'))
    <3>1. <<>> \in Seq(Bytes')
      OBVIOUS
    <3> QED
      BY <1>2, <1>8, <3>1, Rows
  <2>5. {startRequested', dependencies', kernelDone', loading', issue', computing', traffic'} \subseteq BOOLEAN
    <3>1. traffic' \in BOOLEAN
      BY <1>2 DEF IInv, TypeOK
    <3> QED
      BY <1>2, <3>1
  <2>6. {routed', offset', accepted', cooldown'} \subseteq Nat
    BY <1>2
  <2>7. {unrequested', outstanding'} \subseteq Nat /\ answered' \in 0 .. outstanding'
    BY <1>2, <1>7 DEF IInv, TypeOK
  <2>8. stage' \in {"runtime", "start", "prime", "commit", "accept", "route", "dma", "chip"}
        /\ fault' \in {"none", "exception"}
    BY <1>2 DEF IInv, TypeOK
  <2>9. /\ reassembly' \in Seq(Bytes') /\ inbound' \in Seq(Bytes')
        /\ commits' \in Seq([address : Nat, bytes : Seq(Bytes'), wait : 0 .. config'.commit])
    BY <1>2, <1>3, EmptyTypes
  <2>10. current' \in Nat \ {0} /\ (Loading' => current' \in DOMAIN images')
    BY <1>2, <1>5, <1>6
  <2>11. /\ images' \in Seq(Image) /\ config' \in Configs
         /\ sealed' \subseteq DOMAIN images' /\ barriers' \in {0} \cup DOMAIN images'
    BY <1>1, <1>2, <1>8
  <2> QED
    BY <2>1, <2>2, <2>3, <2>4, <2>5, <2>6, <2>7, <2>8, <2>9, <2>10, <2>11 DEF TypeOK
<1>10. Phases'
  <2>1. ~Loading' => current' > Len(images')
    <3>1. M = <<>> => Len(M) = 0
      BY <1>1
    <3> QED
      BY <1>2, <1>5, <3>1
  <2>2. Phases' <=> (~Loading' => current' > Len(images'))
    BY <1>2 DEF Phases
  <2> QED
    BY <2>1, <2>2
<1>11. InOrder(images)'
  <2>1. InOrder(M)
    <3>1. \A i, j \in DOMAIN M : i < j => Group(M[i].store) <= Group(M[j].store)
      BY <1>2 DEF ValidProgram, M
    <3>2. \A i \in DOMAIN M : M[i].store = "Qctl" => \E j \in DOMAIN M :
            M[j].store = "Imem" /\ M[j].macro /\ M[j].queue = M[i].queue
      BY <1>2 DEF ValidProgram, M
    <3>3. \A i \in DOMAIN M : M[i].store = "BarrierEvents" => \E j \in DOMAIN M : M[j].store = "Barr"
      BY <1>2 DEF ValidProgram, Has, M
    <3>4. ASSUME NEW i \in DOMAIN M, NEW j \in DOMAIN M, M[i].store = "Barr", M[j].store = "Barr"
          PROVE  i = j
      <4>1. M[i].queue = M[j].queue
        BY <1>2, <3>4 DEF ValidProgram, Geometry, M
      <4>2. ~(i < j) /\ ~(j < i)
        BY <1>2, <3>4, <4>1 DEF ValidProgram, M
      <4> QED
        BY <1>1, <4>2
    <3> QED
      BY <3>1, <3>2, <3>3, <3>4 DEF InOrder
  <2> QED
    BY <1>2, <2>1 DEF InOrder
<1>12. Filled'
  <2>1. \A i \in DOMAIN M : rams'[i] = <<>> /\ Len(rams'[i]) = 0 /\ ~(i < 1)
    BY <1>1, <1>2
  <2>2. {i \in DOMAIN M : i < 1} = {}
    BY <2>1
  <2> QED
    BY <1>2, <2>1, <2>2 DEF Filled
<1>13. Accepted' /\ Carried' /\ Fed'
  <2>1. CASE M = <<>>
    BY <1>5, <2>1 DEF Accepted, Carried, Fed
  <2>2. CASE M # <<>>
    <3>1. rams'[current'] = <<>> /\ current' \in DOMAIN images'
      BY <1>2, <1>6, <2>2
    <3>2. DOMAIN route' = 1 .. config'.route /\ \A s \in DOMAIN route' : route'[s] = <<>>
      BY <1>2
    <3>3. unrequested' = Vectors(images'[current'])
      BY <1>2, <1>4, <2>2
    <3> QED
      BY <1>1, <1>2, <1>3, <1>8, <3>1, <3>2, <3>3, FreshInv
  <2> QED
    BY <2>1, <2>2
<1>14. Bounded'
  <2>1. outstanding' + Len(inbound') <= FifoDepth
    BY <1>2, <1>3, EmptyTypes, ConstantFacts
  <2>2. Len(reassembly') <= ReassemblyBytes /\ Len(commits') <= config'.commit + 1
    BY <1>2, <1>8, EmptyTypes, ConstantFacts
  <2>3. ~Loading' => unrequested' = 0
    BY <1>4, <1>5
  <2>4. \A s \in DOMAIN route' : route'[s] = <<>>
    BY <1>2
  <2> QED
    BY <1>2, <1>3, <2>1, <2>2, <2>3, <2>4 DEF Bounded, Drained, DmaIdle
<1>15. Checked'
  <2>1. fault' = "none"
    BY <1>2 DEF Submit, Runtime
  <2> QED
    BY <1>2, <2>1, NothingSealed DEF Checked
<1> QED
  BY <1>9, <1>10, <1>11, <1>12, <1>13, <1>14, <1>15 DEF IInv

(* reset_execution_state()                                                  *)
LEMMA ResetInv ==
  ASSUME IInv, ResetExecutionState
  PROVE  IInv'
<1>1. /\ state' = "Idle" /\ images' = <<>> /\ generation' = 0
      /\ startRequested' = FALSE /\ dependencies' = FALSE /\ kernelDone' = FALSE
      /\ route' = <<>> /\ reassembly' = <<>> /\ commits' = <<>>
      /\ unrequested' = 0 /\ outstanding' = 0 /\ answered' = 0 /\ inbound' = <<>>
      /\ rams' = <<>> /\ sealed' = {} /\ barriers' = 0
      /\ loading' = FALSE /\ issue' = TRUE /\ computing' = FALSE /\ traffic' = FALSE
      /\ stage' = "runtime" /\ fault' = "none"
      /\ UNCHANGED <<config, current, routed, offset, accepted, cooldown>>
  BY DEF ResetExecutionState
<1>2. ~Loading'
  BY <1>1 DEF Loading
<1>3. config \in Configs /\ config.commit \in Nat \ {0} /\ current \in Nat \ {0}
      /\ routed \in Nat /\ offset \in Nat /\ accepted \in Nat /\ cooldown \in Nat
  BY Types DEF IInv
<1>4. TypeOK'
  <2>1. state' \in States /\ generation' \in 0 .. MaxGeneration
    BY <1>1, ConstantFacts DEF States
  <2>2. {startRequested', dependencies', kernelDone', loading', issue', computing', traffic'} \subseteq BOOLEAN
    BY <1>1
  <2>3. {routed', offset', accepted', cooldown'} \subseteq Nat /\ {unrequested', outstanding'} \subseteq Nat
        /\ answered' \in 0 .. outstanding'
    BY <1>1, <1>3
  <2>4. /\ images' \in Seq(Image) /\ route' \in Seq(Seq(Bytes')) /\ reassembly' \in Seq(Bytes')
        /\ commits' \in Seq([address : Nat, bytes : Seq(Bytes'), wait : 0 .. config'.commit])
        /\ inbound' \in Seq(Bytes') /\ rams' \in Seq(Seq(Seq(Bytes'))) /\ DOMAIN rams' = DOMAIN images'
    BY <1>1, EmptyTypes
  <2>5. sealed' \subseteq DOMAIN images' /\ barriers' \in {0} \cup DOMAIN images'
        /\ stage' \in {"runtime", "start", "prime", "commit", "accept", "route", "dma", "chip"}
        /\ fault' \in {"none", "exception"}
    BY <1>1 DEF IInv, TypeOK
  <2> QED
    BY <1>1, <1>2, <1>3, <2>1, <2>2, <2>3, <2>4, <2>5 DEF TypeOK
<1>5. Phases'
  <2>1. current' > Len(images')
    BY <1>1, <1>3, EmptyTypes
  <2> QED
    BY <1>1, <1>2, <2>1 DEF Phases
<1>6. DOMAIN images' = {} /\ DOMAIN route' = {}
  BY <1>1
<1>7. InOrder(images)' /\ Filled'
  BY <1>1, <1>6 DEF InOrder, Filled
<1>8. Accepted' /\ Carried' /\ Fed'
  BY <1>2 DEF Accepted, Carried, Fed
<1>9. Bounded'
  <2>1. Len(inbound') = 0 /\ Len(reassembly') = 0 /\ Len(commits') = 0
    BY <1>1, EmptyTypes
  <2> QED
    BY <1>1, <1>3, <1>6, <2>1, ConstantFacts DEF Bounded, Drained, DmaIdle
<1>10. Checked'
  BY <1>1, NothingSealed DEF Checked
<1> QED
  BY <1>4, <1>5, <1>7, <1>8, <1>9, <1>10 DEF IInv

(* The chip, the data DMAs and DDR: latencies pass.                         *)
LEMMA SystemInv ==
  ASSUME IInv, NEW d \in BOOLEAN, NEW o \in BOOLEAN, NEW n \in 0 .. FifoDepth, TickSystem(d, o, n)
  PROVE  IInv'
<1>1. /\ UNCHANGED <<partVars, fault, config, generation, startRequested, dependencies, loading, issue>>
      /\ stage' = "runtime" /\ traffic' = o /\ answered' = n /\ n \in answered .. outstanding
      /\ cooldown' = Closer(cooldown) /\ computing' = (computing /\ ~d)
      /\ commits' = [k \in DOMAIN commits |-> [commits[k] EXCEPT !.wait = Closer(@)]]
  BY DEF TickSystem, partVars, progVars, ramVars, feedVars
<1>2. state \in States /\ computing \in BOOLEAN /\ kernelDone \in BOOLEAN /\ cooldown \in Nat
      /\ commits \in Seq([address : Nat, bytes : Seq(Bytes), wait : 0 .. config.commit])
      /\ config.commit \in Nat
  <2>1. config.commit \in Nat
    BY Types DEF IInv
  <2> QED
    BY <2>1 DEF IInv, TypeOK
<1>3. state' \in {state, "Draining", "Completed"} /\ (Loading => state' = state)
      /\ (~Loading => state' \notin {"LoadQueue", "WaitCommit"})
  BY DEF TickSystem, Loading
<1>4. kernelDone' \in BOOLEAN /\ computing' \in BOOLEAN
  BY <1>1, <1>2 DEF TickSystem
<1>5. Loading' <=> Loading
  BY <1>3 DEF Loading
<1>6. DOMAIN commits = 1 .. Len(commits) /\ Len(commits) \in Nat
      /\ \A k \in 1 .. Len(commits) :
           commits[k] \in [address : Nat, bytes : Seq(Bytes), wait : 0 .. config.commit]
  BY <1>2, LenProperties, ElementOfSeq
<1>7. \A w \in 0 .. config.commit : Closer(w) \in 0 .. config.commit
  BY <1>2 DEF Closer
<1>8. /\ commits' \in Seq([address : Nat, bytes : Seq(Bytes), wait : 0 .. config.commit])
      /\ SameWords
  <2> DEFINE l == Len(commits)
             R == [address : Nat, bytes : Seq(Bytes), wait : 0 .. config.commit]
  <2>1. \A k \in 1 .. l : [commits[k] EXCEPT !.wait = Closer(@)] \in R
    BY <1>6, <1>7
  <2>2. commits' = [k \in 1 .. l |-> [commits[k] EXCEPT !.wait = Closer(@)]]
    BY <1>1, <1>6
  <2>3. \A k \in 1 .. l : /\ commits'[k].address = commits[k].address
                          /\ commits'[k].bytes = commits[k].bytes
    BY <1>6, <2>2
  <2> HIDE DEF R
  <2>4. commits' \in [1 .. l -> R]
    BY <2>1, <2>2
  <2>5. commits' \in Seq(R)
    BY <1>6, <2>4, SeqDef
  <2>6. Len(commits') = l
    BY <1>6, <2>2
  <2>7. commits = <<>> => commits' = <<>>
    BY <1>6, <2>2
  <2> QED
    BY <2>3, <2>5, <2>6, <2>7 DEF SameWords, R
<1>9. TypeOK'
  <2>1. state' \in States
    BY <1>2, <1>3 DEF States
  <2>2. cooldown' \in Nat
    BY <1>1, <1>2 DEF Closer
  <2>3. answered' \in 0 .. outstanding'
    BY <1>1 DEF partVars, IInv, TypeOK
  <2>4. Bytes' = Bytes /\ config' = config
    BY <1>1 DEF Bytes, partVars
  <2>5. {startRequested', dependencies', kernelDone', loading', issue', computing', traffic'} \subseteq BOOLEAN
    BY <1>1, <1>4 DEF IInv, TypeOK
  <2> QED
    BY <1>1, <1>5, <1>8, <2>1, <2>2, <2>3, <2>4, <2>5 DEF IInv, TypeOK, partVars, ramVars, feedVars
<1>10. Phases'
  BY <1>1, <1>5 DEF IInv, Phases, partVars
<1> QED
  BY <1>1, <1>5, <1>8, <1>9, <1>10, QuietInv

(* What stays of Part and of the type of bytes.                             *)
LEMMA SamePart ==
  ASSUME UNCHANGED <<images, current>>
  PROVE  Part' = Part /\ Size' = Size /\ Bytes' = Bytes /\ \A i, a : WordOf(i, a)' = WordOf(i, a)
  BY DEF Part, Size, ByteCount, Bytes, WordOf

(* The DMA takes what DDR answered and requests more.                       *)
LEMMA DmaInv ==
  ASSUME IInv, NEW free \in BOOLEAN, TickDma(free)
  PROVE  IInv'
<1> DEFINE got == Vectors(Part) - unrequested - outstanding
           n == outstanding - answered
           more == [k \in 1 .. answered |-> <<current, got + k>>]
<1>1. /\ UNCHANGED <<images, current, ramVars, reassembly, accepted, feedVars, commits, cooldown,
                     fault, config, generation, runVars, icuVars, traffic>>
      /\ stage = "dma" /\ stage' = "chip"
      /\ inbound' = inbound \o more /\ answered' = 0
  BY DEF TickDma, Ticking, progVars, wordVars, Part
<1>2. \/ /\ unrequested > 0 /\ n + Len(inbound) + answered < FifoDepth
         /\ unrequested' = unrequested - 1 /\ outstanding' = n + 1
      \/ unrequested' = unrequested /\ outstanding' = n
  BY DEF TickDma, HasCredit
<1>3. Loading /\ Loading' /\ state' \in {state, "WaitCommit"}
  BY <1>1 DEF TickDma, IInv, Phases, Loading
<1>4. /\ unrequested \in Nat /\ outstanding \in Nat /\ answered \in Nat /\ answered <= outstanding
      /\ Len(inbound) \in Nat /\ inbound \in Seq(Bytes) /\ current \in DOMAIN images
  BY <1>3, Types DEF IInv, TypeOK
<1>5. /\ Vectors(Part) \in Nat /\ Taken \in Nat /\ Taken + Len(inbound) = got
      /\ \A k \in 1 .. Len(inbound) : inbound[k] = <<current, Taken + k>>
  <2>1. Vectors(Part) \in Nat
    BY <1>3, PartFacts
  <2>2. Taken \in Nat /\ \A k \in 1 .. Len(inbound) : inbound[k] = <<current, Taken + k>>
    BY <1>3 DEF IInv, Fed
  <2>3. Taken = Vectors(Part) - unrequested - outstanding - Len(inbound)
    BY DEF Taken
  <2> QED
    BY <1>4, <2>1, <2>2, <2>3
<1>6. Part' = Part /\ Size' = Size /\ Bytes' = Bytes /\ \A i, a : WordOf(i, a)' = WordOf(i, a)
  BY <1>1, SamePart
<1>7. n \in Nat /\ got \in Nat
  BY <1>4, <1>5
<1>8. /\ more \in Seq(Bytes) /\ Len(more) = answered
      /\ \A k \in 1 .. answered : more[k] = <<current, got + k>>
  <2> HIDE DEF got
  <2>1. \A k \in 1 .. answered : <<current, got + k>> \in Bytes
    BY <1>4, <1>7 DEF Bytes
  <2>2. more \in [1 .. answered -> Bytes]
    BY <2>1
  <2> QED
    BY <1>4, <2>2, SeqDef
<1> HIDE DEF more
<1>9. /\ inbound' \in Seq(Bytes) /\ Len(inbound') = Len(inbound) + answered
      /\ \A k \in 1 .. Len(inbound') : inbound'[k] = <<current, Taken + k>>
  <2>1. /\ inbound \o more \in Seq(Bytes) /\ Len(inbound \o more) = Len(inbound) + answered
        /\ \A i \in 1 .. Len(inbound) + answered :
             (inbound \o more)[i] = IF i <= Len(inbound) THEN inbound[i] ELSE more[i - Len(inbound)]
    BY <1>4, <1>8, ConcatProperties
  <2>2. ASSUME NEW k \in 1 .. Len(inbound) + answered
        PROVE  (inbound \o more)[k] = <<current, Taken + k>>
    <3>1. CASE k <= Len(inbound)
      <4>1. k \in 1 .. Len(inbound)
        BY <1>4, <3>1
      <4> QED
        BY <1>5, <2>1, <3>1, <4>1
    <3>2. CASE ~(k <= Len(inbound))
      <4>1. k - Len(inbound) \in 1 .. answered /\ got + (k - Len(inbound)) = Taken + k
        BY <1>4, <1>5, <1>7, <3>2
      <4>2. more[k - Len(inbound)] = <<current, got + (k - Len(inbound))>>
        BY <1>8, <4>1
      <4> QED
        BY <2>1, <3>2, <4>1, <4>2
    <3> QED
      BY <3>1, <3>2
  <2> QED
    BY <1>1, <2>1, <2>2
<1>10. /\ unrequested' \in Nat /\ outstanding' \in Nat
       /\ unrequested' + outstanding' + Len(inbound') = unrequested + outstanding + Len(inbound)
       /\ outstanding' + Len(inbound') <= FifoDepth
  <2>1. outstanding + Len(inbound) <= FifoDepth
    BY DEF IInv, Bounded
  <2> DEFINE a == Len(inbound)
             b == Len(inbound')
  <2>2. a \in Nat /\ b = a + answered /\ outstanding + a <= FifoDepth
    BY <1>4, <1>9, <2>1
  <2> HIDE DEF a, b
  <2>3. n + a + answered < FifoDepth \/ (unrequested' = unrequested /\ outstanding' = n)
    BY <1>2 DEF a
  <2>4. \/ unrequested > 0 /\ unrequested' = unrequested - 1 /\ outstanding' = n + 1
        \/ unrequested' = unrequested /\ outstanding' = n
    BY <1>2
  <2>5. /\ unrequested' \in Nat /\ outstanding' \in Nat
        /\ unrequested' + outstanding' + b = unrequested + outstanding + a
        /\ outstanding' + b <= FifoDepth
    BY <1>4, <2>2, <2>3, <2>4, ConstantFacts
  <2> QED
    BY <2>5 DEF a, b
<1>11. Taken' = Taken
  <2> DEFINE v == Vectors(Part)
             a == Len(inbound)
             b == Len(inbound')
             s == unrequested + outstanding + a
             t == unrequested' + outstanding' + b
  <2>1. Taken = v - unrequested - outstanding - a /\ Taken' = v - unrequested' - outstanding' - b
    BY <1>6 DEF Taken
  <2>2. a \in Nat /\ b \in Nat /\ v \in Nat
    BY <1>4, <1>5, <1>9
  <2>3. t = s
    BY <1>10
  <2>4. unrequested \in Nat /\ outstanding \in Nat /\ unrequested' \in Nat /\ outstanding' \in Nat
    BY <1>4, <1>10
  <2> HIDE DEF v, a, b
  <2>5. v - unrequested - outstanding - a = v - s
    BY <2>2, <2>4
  <2>6. v - unrequested' - outstanding' - b = v - t
    BY <2>2, <2>4
  <2> HIDE DEF s, t
  <2> QED BY <2>1, <2>3, <2>5, <2>6
<1>12. TypeOK'
  <2>1. state' \in States
    BY <1>3 DEF IInv, TypeOK, States
  <2>2. stage' \in {"runtime", "start", "prime", "commit", "accept", "route", "dma", "chip"}
    BY <1>1
  <2>3. answered' \in 0 .. outstanding' /\ {unrequested', outstanding'} \subseteq Nat
    BY <1>1, <1>10
  <2> QED
    BY <1>1, <1>3, <1>4, <1>6, <1>9, <2>1, <2>2, <2>3
    DEF IInv, TypeOK, ramVars, feedVars, runVars, icuVars
<1>13. Phases'
  BY <1>1, <1>3 DEF IInv, Phases, icuVars
<1>14. InOrder(images)'
  BY <1>1 DEF IInv, InOrder
<1>15. Filled' /\ Accepted'
  BY <1>1, <1>3, <1>6 DEF IInv, Filled, Accepted, ramVars
<1>16. Carried'
  <2>1. \A base : Carries(base) => Carries(base)'
    BY <1>1, <1>6 DEF Carries, feedVars
  <2> QED
    BY <1>1, <1>3, <1>6, <2>1 DEF IInv, Carried, feedVars
<1>17. Fed'
  BY <1>1, <1>3, <1>6, <1>9, <1>11 DEF IInv, Fed, feedVars
<1>18. Bounded'
  BY <1>1, <1>3, <1>10 DEF IInv, Bounded
<1>19. Checked'
  BY <1>1, StillChecked DEF ramVars
<1> QED
  BY <1>12, <1>13, <1>14, <1>15, <1>16, <1>17, <1>18, <1>19 DEF IInv

(* A complete word is accepted: its bytes leave the reassembly buffer.      *)
LEMMA AcceptInv ==
  ASSUME IInv, TickAccept
  PROVE  IInv'
<1> DEFINE W == Part.width
           A == accepted
           R == Len(reassembly)
           K == Len(commits)
           L == config.route
<1>1. /\ UNCHANGED <<images, current, ramVars, feedVars, dmaVars, fault, config, generation, runVars,
                     icuVars, state, traffic>>
      /\ stage = "accept" /\ stage' = "route"
  BY DEF TickAccept, Ticking, progVars
<1>2. Loading /\ Loading'
  BY <1>1 DEF IInv, Phases, Loading
<1>3. Phases'
  BY <1>1, <1>2 DEF IInv, Phases, icuVars
<1>4. CASE ~CanWrite
  <2>1. UNCHANGED <<commits, accepted, cooldown, reassembly>>
    BY <1>4 DEF TickAccept, wordVars
  <2>2. stage' \in {"runtime", "start", "prime", "commit", "accept", "route", "dma", "chip"}
    BY <1>1
  <2>3. TypeOK'
    BY <1>1, <1>2, <2>1, <2>2
    DEF IInv, TypeOK, Bytes, ramVars, feedVars, dmaVars, runVars, icuVars
  <2>4. UNCHANGED <<partVars, fault>> /\ SameWords
    BY <1>1, <2>1 DEF partVars, dmaVars, SameWords
  <2> QED
    BY <1>1, <1>2, <1>3, <2>3, <2>4, QuietInv
<1>5. CASE CanWrite
  <2> DEFINE word == SubSeq(reassembly, 1, W)
             rest == SubSeq(reassembly, W + 1, Len(reassembly))
             C == [address : Nat, bytes : Seq(Bytes), wait : 0 .. config.commit]
             c == [address |-> accepted, wait |-> config.commit, bytes |-> word]
  <2>1. /\ commits' = Append(commits, c) /\ reassembly' = rest
        /\ accepted' = accepted + 1 /\ cooldown' = config.interval
        /\ R >= W /\ K <= config.commit
    BY <1>5 DEF TickAccept, CanWrite, Width, Part
  <2>2. /\ A \in Nat /\ R \in Nat /\ K \in Nat /\ L \in Nat \ {0} /\ W \in Nat \ {0}
        /\ W <= ReassemblyBytes /\ config.commit \in Nat /\ config.interval \in Nat
        /\ current \in 1 .. Len(images) /\ current \in DOMAIN images
        /\ reassembly \in Seq(Bytes) /\ commits \in Seq(C)
    <3>1. reassembly \in Seq(Bytes) /\ commits \in Seq(C)
      BY DEF IInv, TypeOK
    <3> QED
      BY <1>2, <3>1, Types, PartFacts DEF IInv
  <2>3. Part' = Part /\ Size' = Size /\ Bytes' = Bytes /\ \A i, a : WordOf(i, a)' = WordOf(i, a)
    BY <1>1, SamePart
  <2>4. /\ word \in Seq(Bytes) /\ Len(word) = W /\ \A k \in 1 .. W : word[k] = reassembly[k]
        /\ rest \in Seq(Bytes) /\ Len(rest) = R - W
        /\ \A k \in 1 .. R - W : rest[k] = reassembly[W + k]
    <3>1. W \in 0 .. Len(reassembly)
      BY <2>1, <2>2
    <3> QED
      BY <2>2, <3>1, FirstAndRest
  <2>5. /\ accepted = Len(rams[current]) + K
        /\ \A k \in 1 .. K : commits[k].address = Len(rams[current]) + k - 1
        /\ \A k \in 1 .. K : commits[k].bytes = WordOf(current, Len(rams[current]) + k)
    BY <1>2 DEF IInv, Accepted
  <2>6. \A b \in 1 .. R : reassembly[b] = <<current, A * W + b>>
    BY <1>2 DEF IInv, Carried
  <2>7. word = WordOf(current, A + 1)
    <3>1. \A a : WordOf(current, a) = [b \in 1 .. W |-> <<current, (a - 1) * W + b>>]
      BY Zenon DEF WordOf, Part
    <3>6. WordOf(current, A + 1) = [b \in 1 .. W |-> <<current, A * W + b>>]
      <4> DEFINE a == A + 1
      <4>1. WordOf(current, a) = [b \in 1 .. W |-> <<current, (a - 1) * W + b>>]
        BY <3>1
      <4>2. a - 1 = A
        BY <2>2
      <4> HIDE DEF a
      <4>3. WordOf(current, a) = [b \in 1 .. W |-> <<current, A * W + b>>]
        BY <4>1, <4>2
      <4> QED
        BY <4>3 DEF a
    <3>3. word = [b \in 1 .. W |-> word[b]]
      <4> HIDE DEF word
      <4>1. word = [b \in 1 .. Len(word) |-> word[b]]
        BY <2>4, LenProperties
      <4> QED
        BY <2>4, <4>1
    <3>4. \A b \in 1 .. W : b \in 1 .. R
      BY <2>1, <2>2
    <3>5. \A b \in 1 .. W : word[b] = <<current, A * W + b>>
      BY <2>4, <2>6, <3>4
    <3> HIDE DEF word
    <3> QED
      BY <3>3, <3>5, <3>6
  <2> HIDE DEF word, rest
  <2>8. c \in C /\ c.address = accepted /\ c.bytes = word
    BY <2>2, <2>4
  <2> HIDE DEF c, C
  <2>9. /\ commits' \in Seq(C) /\ Len(commits') = K + 1
        /\ \A k \in 1 .. K : commits'[k] = commits[k]
        /\ commits'[K + 1] = c
    <3>1. /\ Append(commits, c) \in Seq(C) /\ Len(Append(commits, c)) = Len(commits) + 1
          /\ \A i \in 1 .. Len(commits) : Append(commits, c)[i] = commits[i]
          /\ Append(commits, c)[Len(commits) + 1] = c
      BY <2>2, <2>8, AppendProperties
    <3> QED
      BY <2>1, <3>1
  <2>10. TypeOK'
    <3>1. stage' \in {"runtime", "start", "prime", "commit", "accept", "route", "dma", "chip"}
      BY <1>1
    <3>2. {routed', offset', accepted', cooldown'} \subseteq Nat
      <4>1. routed' = routed /\ offset' = offset
        BY <1>1 DEF feedVars
      <4>2. routed \in Nat /\ offset \in Nat
        BY Types DEF IInv
      <4>3. accepted' \in Nat /\ cooldown' \in Nat
        BY <2>1, <2>2
      <4> QED
        BY <4>1, <4>2, <4>3
    <3>3. reassembly' \in Seq(Bytes')
      BY <2>1, <2>3, <2>4
    <3>4. commits' \in Seq([address : Nat, bytes : Seq(Bytes), wait : 0 .. config.commit])'
      BY <1>1, <2>3, <2>9 DEF C
    <3> QED
      BY <1>1, <1>2, <2>3, <3>1, <3>2, <3>3, <3>4
      DEF IInv, TypeOK, ramVars, feedVars, dmaVars, runVars, icuVars
  <2>11. Filled' /\ InOrder(images)'
    BY <1>1, <2>3 DEF IInv, Filled, InOrder, ramVars
  <2>12. Accepted'
    <3> DEFINE r == Len(rams[current])
    <3>1. r \in Nat
      <4>1. \A i \in DOMAIN images : Len(rams[i]) \in Nat
        BY Types DEF IInv
      <4> QED
        BY <2>2, <4>1
    <3>2. rams' = rams /\ current' = current
      BY <1>1 DEF ramVars
    <3>3. accepted = r + K
      BY <2>5
    <3>4. \A k \in 1 .. K + 1 : commits'[k].address = r + k - 1
                                 /\ commits'[k].bytes = WordOf(current, r + k)
      <4> SUFFICES ASSUME NEW k \in 1 .. K + 1
                   PROVE  /\ commits'[k].address = r + k - 1
                          /\ commits'[k].bytes = WordOf(current, r + k)
        OBVIOUS
      <4>1. CASE k \in 1 .. K
        BY <2>5, <2>9, <4>1
      <4>2. CASE k = K + 1
        <5>1. r + k - 1 = accepted /\ r + k = A + 1
          <6> HIDE DEF r, K
          <6>1. K \in Nat
            BY <2>2
          <6> QED
            BY <3>1, <3>3, <4>2, <6>1
        <5> QED
          BY <2>7, <2>8, <2>9, <4>2, <5>1
      <4> QED
        BY <2>2, <4>1, <4>2
    <3>5. accepted' = r + (K + 1)
      <4> HIDE DEF r, K
      <4> QED
        BY <2>1, <2>2, <3>1, <3>3
    <3> QED
      BY <2>3, <2>9, <3>2, <3>4, <3>5 DEF Accepted
  <2>13. Carried'
    <3>1. PICK base \in [0 .. config.route -> 0 .. routed] : Carries(base)
      BY <1>2 DEF IInv, Carried
    <3>2. (A + 1) * W = A * W + W /\ A * W \in Nat
      BY <2>2, Mul
    <3>3. accepted' * W + Len(reassembly') = A * W + R
      <4> DEFINE p == A * W
                 x == Len(reassembly')
      <4>1. accepted' * W = p + W /\ p \in Nat
        BY <2>1, <3>2
      <4>2. x = R - W
        BY <2>1, <2>4
      <4> HIDE DEF p, x
      <4>3. (p + W) + x = p + R
        BY <2>2, <4>1, <4>2
      <4> QED
        BY <4>1, <4>3 DEF p, x
    <3>4. Carries(base)'
      BY <1>1, <2>3, <3>1, <3>3 DEF Carries, feedVars
    <3>5. \A b \in 1 .. Len(reassembly') : reassembly'[b] = <<current, accepted' * W + b>>
      <4> DEFINE p == A * W
      <4> SUFFICES ASSUME NEW b \in 1 .. R - W
                   PROVE  rest[b] = <<current, (p + W) + b>>
        BY <2>1, <2>4, <3>2
      <4>1. rest[b] = reassembly[W + b] /\ W + b \in 1 .. R
        BY <2>2, <2>4
      <4>2. reassembly[W + b] = <<current, p + (W + b)>>
        BY <2>6, <4>1
      <4>3. p \in Nat
        BY <3>2
      <4> HIDE DEF p
      <4>4. p + (W + b) = (p + W) + b
        BY <2>2, <4>3
      <4> QED
        BY <4>1, <4>2, <4>4
    <3>6. DOMAIN route = 1 .. config.route
      BY <1>2 DEF IInv, Carried
    <3> QED
      BY <1>1, <2>3, <3>1, <3>4, <3>5, <3>6 DEF Carried, feedVars
  <2>14. Fed'
    BY <1>1, <1>2, <2>3 DEF IInv, Fed, Taken, dmaVars, feedVars
  <2>15. Bounded'
    <3>1. outstanding' + Len(inbound') <= FifoDepth
      BY <1>1 DEF IInv, Bounded, dmaVars
    <3>2. Len(reassembly') <= ReassemblyBytes
      <4>1. R <= ReassemblyBytes
        BY DEF IInv, Bounded
      <4>2. R - W <= ReassemblyBytes
        BY <2>2, <4>1, ConstantFacts
      <4> QED
        BY <2>1, <2>4, <4>2
    <3>3. Len(commits') <= config'.commit + 1
      BY <1>1, <2>1, <2>2, <2>9
    <3> QED
      BY <1>2, <3>1, <3>2, <3>3 DEF Bounded
  <2>16. Checked'
    BY <1>1, StillChecked DEF ramVars
  <2> QED
    BY <1>3, <2>10, <2>11, <2>12, <2>13, <2>14, <2>15, <2>16 DEF IInv
<1> QED
  BY <1>4, <1>5

LEMMA LeastOfThree ==
  ASSUME NEW x \in Nat, NEW y \in Nat, NEW z \in Nat
  PROVE  /\ Least({x, y, z}) \in {x, y, z}
         /\ Least({x, y, z}) <= x /\ Least({x, y, z}) <= y /\ Least({x, y, z}) <= z
<1>1. \E n \in {x, y, z} : \A m \in {x, y, z} : n <= m
  OBVIOUS
<1>2. Least({x, y, z}) = CHOOSE n \in {x, y, z} : \A m \in {x, y, z} : n <= m
  BY DEF Least
<1> QED
  BY <1>1, <1>2

(* The route feeds the bytes that follow those it fed before: they are of   *)
(* the front vector, and a packet ends with its vector, or with the image.  *)
LEMMA PacketFacts ==
  ASSUME IInv, Loading, Feeds
  PROVE  /\ PacketSize \in Nat \ {0}
         /\ offset \in Nat /\ offset < VectorBytes /\ offset + PacketSize <= VectorBytes
         /\ routed \in Nat /\ routed + PacketSize <= Size
         /\ Taken \in Nat /\ routed = Taken * VectorBytes + offset
         /\ Packet \in Seq(Bytes) /\ Len(Packet) = PacketSize
         /\ \A b \in 1 .. PacketSize : Packet[b] = <<current, routed + b>>
<1> DEFINE p == PacketSize
           T == Taken
<1>1. /\ offset \in Nat /\ routed \in Nat /\ config.bus \in Nat \ {0} /\ inbound \in Seq(Bytes)
      /\ current \in DOMAIN images
  <2>1. inbound \in Seq(Bytes)
    BY DEF IInv, TypeOK
  <2> QED
    BY <2>1, Types DEF IInv
<1>2. Size \in Nat /\ Size = ByteCount(current)
  BY PartFacts DEF Size
<1>3. inbound # <<>> /\ routed < Size
  BY <1>2 DEF Feeds
<1>4. /\ T \in Nat /\ routed = T * VectorBytes + offset /\ offset < VectorBytes
      /\ \A k \in 1 .. Len(inbound) : inbound[k] = <<current, T + k>>
  BY <1>3 DEF IInv, Fed
<1>5. p \in Nat \ {0} /\ p <= VectorBytes - offset /\ p <= Size - routed
  <2> DEFINE x == config.bus
             y == VectorBytes - offset
             z == Size - routed
  <2>1. x \in Nat \ {0} /\ y \in Nat \ {0} /\ z \in Nat \ {0}
    BY <1>1, <1>2, <1>3, <1>4, ConstantFacts
  <2>2. p = Least({x, y, z})
    BY <1>2 DEF PacketSize
  <2> HIDE DEF x, y, z, p
  <2>3. p \in {x, y, z} /\ p <= y /\ p <= z
    BY <2>1, <2>2, LeastOfThree
  <2>4. p \in Nat \ {0} /\ p <= y /\ p <= z
    BY <2>1, <2>3
  <2> QED
    BY <2>4 DEF y, z
<1>6. Head(inbound) = <<current, T + 1>>
  <2>1. Head(inbound) = inbound[1] /\ 1 \in 1 .. Len(inbound)
    BY <1>1, <1>3, EmptySeq
  <2> QED
    BY <1>4, <2>1
<1>7. Head(inbound)[1] = current /\ (Head(inbound)[2] - 1) * VectorBytes = T * VectorBytes
  <2> DEFINE h == Head(inbound)[2]
  <2>1. Head(inbound)[1] = current /\ h = T + 1
    BY <1>6
  <2> HIDE DEF h
  <2>2. h - 1 = T
    BY <1>4, <2>1
  <2>3. (h - 1) * VectorBytes = T * VectorBytes
    BY <2>2
  <2> QED
    BY <2>1, <2>3 DEF h
<1>8. Packet = [b \in 1 .. p |-> <<current, routed + b>>]
  <2> DEFINE q == T * VectorBytes
  <2>1. Packet = [b \in 1 .. p |-> <<current, q + offset + b>>]
    BY <1>7 DEF Packet
  <2>2. routed = q + offset
    BY <1>4
  <2> HIDE DEF q, p
  <2> QED
    BY <2>1, <2>2
<1> HIDE DEF p
<1>9. \A b \in 1 .. p : <<current, routed + b>> \in Bytes
  <2>1. \A b \in 1 .. p : routed + b \in Nat \ {0}
    BY <1>1, <1>5
  <2> QED
    BY <1>1, <2>1 DEF Bytes
<1>10. Packet \in Seq(Bytes) /\ Len(Packet) = p /\ \A b \in 1 .. p : Packet[b] = <<current, routed + b>>
  <2>1. Packet \in [1 .. p -> Bytes]
    BY <1>8, <1>9
  <2> QED
    BY <1>5, <1>8, <2>1, SeqDef
<1>11. offset + p <= VectorBytes /\ routed + p <= Size
  BY <1>1, <1>2, <1>5, ConstantFacts
<1> QED
  BY <1>1, <1>4, <1>5, <1>10, <1>11 DEF p

(* What a step of the route changes.                                        *)
LEMMA RouteStep ==
  ASSUME IInv, TickRoute
  PROVE  /\ Loading /\ Loading'
         /\ config.route \in Nat \ {0} /\ DOMAIN route = 1 .. config.route
         /\ Part' = Part /\ Size' = Size /\ Bytes' = Bytes
         /\ UNCHANGED <<images, current, config, accepted>>
         /\ reassembly \in Seq(Bytes) /\ inbound \in Seq(Bytes)
         /\ \A s \in 1 .. config.route : route[s] \in Seq(Bytes) /\ Len(route[s]) \in Nat
         /\ route' = [s \in 1 .. config.route |->
              IF ~Moves[s] THEN route[s]
              ELSE IF s > 1 THEN route[s - 1] ELSE IF Feeds THEN Packet ELSE <<>>]
         /\ \A s \in 1 .. config.route : Moves[s] <=>
              IF s = config.route THEN route[s] = <<>> \/ Delivered
                                  ELSE route[s] = <<>> \/ Moves[s + 1]
         /\ Feeds => Moves[1]
         /\ routed' = IF Feeds THEN routed + PacketSize ELSE routed
<1>1. stage = "route" /\ UNCHANGED <<images, current, config, accepted, state>>
  BY DEF TickRoute, Ticking, progVars
<1>2. Loading /\ Loading'
  BY <1>1 DEF IInv, Phases, Loading
<1>3. Part' = Part /\ Size' = Size /\ Bytes' = Bytes
  BY <1>1, SamePart
<1>4. DOMAIN route = 1 .. config.route
  BY <1>2 DEF IInv, Carried
<1>5. config.route \in Nat \ {0}
  BY Types DEF IInv
<1>6. \A s \in 1 .. config.route : route[s] \in Seq(Bytes) /\ Len(route[s]) \in Nat
  BY <1>4, Types DEF IInv
<1>7. reassembly \in Seq(Bytes) /\ inbound \in Seq(Bytes)
  BY DEF IInv, TypeOK
<1>8. /\ route' = [s \in 1 .. config.route |->
              IF ~Moves[s] THEN route[s]
              ELSE IF s > 1 THEN route[s - 1] ELSE IF Feeds THEN Packet ELSE <<>>]
      /\ routed' = IF Feeds THEN routed + PacketSize ELSE routed
  BY DEF TickRoute
<1>9. Feeds => Moves[1]
  BY DEF Feeds
<1>10. \A s \in 1 .. config.route : Moves[s] <=>
              IF s = config.route THEN route[s] = <<>> \/ Delivered
                                  ELSE route[s] = <<>> \/ Moves[s + 1]
  BY <1>5, MovesFacts, Zenon
<1> QED
  BY <1>1, <1>2, <1>3, <1>4, <1>5, <1>6, <1>7, <1>8, <1>9, <1>10

(* A packet that leaves the route is appended to the reassembly buffer.     *)
LEMMA DeliveryFacts ==
  ASSUME IInv, TickRoute
  PROVE  /\ reassembly' \in Seq(Bytes)
         /\ Len(reassembly') = IF Delivered THEN Len(reassembly) + Len(route[config.route])
                                            ELSE Len(reassembly)
         /\ Len(reassembly') <= ReassemblyBytes
         /\ \A k \in 1 .. Len(reassembly') : reassembly'[k] =
              IF k <= Len(reassembly) THEN reassembly[k] ELSE route[config.route][k - Len(reassembly)]
<1> DEFINE q == route[config.route]
<1>1. q \in Seq(Bytes) /\ reassembly \in Seq(Bytes)
  <2>1. config.route \in 1 .. config.route
    BY RouteStep
  <2> QED
    BY <2>1, RouteStep
<1>2. Len(reassembly) <= ReassemblyBytes
  BY DEF IInv, Bounded
<1>3. reassembly' = IF Delivered THEN reassembly \o q ELSE reassembly
  BY DEF TickRoute
<1>4. CASE Delivered
  <2>1. Len(reassembly) + Len(q) <= ReassemblyBytes
    BY <1>4 DEF Delivered, Fits
  <2> HIDE DEF q
  <2>2. /\ reassembly \o q \in Seq(Bytes) /\ Len(reassembly \o q) = Len(reassembly) + Len(q)
        /\ \A i \in 1 .. Len(reassembly) + Len(q) : (reassembly \o q)[i] =
             IF i <= Len(reassembly) THEN reassembly[i] ELSE q[i - Len(reassembly)]
    BY <1>1, ConcatProperties
  <2> QED
    BY <1>3, <1>4, <2>1, <2>2 DEF q
<1>5. CASE ~Delivered
  <2>1. \A k \in 1 .. Len(reassembly) : k <= Len(reassembly)
    BY <1>1
  <2> QED
    BY <1>1, <1>2, <1>3, <1>5, <2>1
<1> QED
  BY <1>4, <1>5

(* Each stage takes over the bytes of the stage before it when it moves, so *)
(* the stages, the buffer and the fed bytes still lie end to end.           *)
LEMMA RouteCarried ==
  ASSUME IInv, TickRoute
  PROVE  Carried'
<1> DEFINE L == config.route
           R == Len(reassembly)
           AW == accepted * Part.width
<1>1. /\ Loading /\ L \in Nat \ {0} /\ DOMAIN route = 1 .. L
      /\ Part' = Part /\ UNCHANGED <<current, config, accepted>>
      /\ \A s \in 1 .. L : route[s] \in Seq(Bytes) /\ Len(route[s]) \in Nat
      /\ routed' = IF Feeds THEN routed + PacketSize ELSE routed
      /\ Feeds => Moves[1]
  BY RouteStep
<1>2. /\ routed \in Nat /\ R \in Nat /\ AW \in Nat
  <2>1. accepted \in Nat /\ Part.width \in Nat /\ routed \in Nat /\ R \in Nat
    BY <1>1, Types, PartFacts DEF IInv
  <2> QED
    BY <2>1, Mul
<1>3. routed' \in Nat /\ routed <= routed'
  <2>1. Feeds => PacketSize \in Nat
    BY <1>1, PacketFacts
  <2> QED
    BY <1>1, <1>2, <2>1
<1>4. \A b \in 1 .. R : reassembly[b] = <<current, AW + b>>
  BY <1>1 DEF IInv, Carried
<1>5. PICK base \in [0 .. L -> 0 .. routed] : Carries(base)
  BY <1>1 DEF IInv, Carried
<1>6. /\ base[0] = routed /\ base[L] = AW + R
      /\ \A s \in 0 .. L : base[s] \in 0 .. routed
      /\ \A s, t \in 0 .. L : s <= t => base[t] <= base[s]
      /\ \A s \in 1 .. L : base[s] + Len(route[s]) = base[s - 1]
      /\ \A s \in 1 .. L : \A b \in 1 .. Len(route[s]) : route[s][b] = <<current, base[s] + b>>
  BY <1>5 DEF Carries
<1>7. \A s \in 1 .. L : s \in 0 .. L /\ s - 1 \in 0 .. L /\ (s > 1 => s - 1 \in 1 .. L /\ s - 1 + 1 = s)
  BY <1>1
<1>8. PICK next : next = [s \in 0 .. L |-> IF s = 0 THEN routed' ELSE IF Moves[s] THEN base[s - 1] ELSE base[s]]
  OBVIOUS
<1>9. /\ next[0] = routed'
      /\ \A s \in 1 .. L : next[s] = IF Moves[s] THEN base[s - 1] ELSE base[s]
  BY <1>1, <1>8
<1>10. next \in [0 .. L -> 0 .. routed']
  <2>1. \A s \in 0 .. L : 0 .. routed \subseteq 0 .. routed'
    BY <1>2, <1>3
  <2>2. \A s \in 1 .. L : next[s] \in 0 .. routed'
    BY <1>6, <1>7, <1>9, <2>1
  <2>3. next[0] \in 0 .. routed'
    BY <1>3, <1>9
  <2>4. \A s \in 0 .. L : s = 0 \/ s \in 1 .. L
    BY <1>1
  <2>5. \A s \in 0 .. L : next[s] \in 0 .. routed'
    BY <2>2, <2>3, <2>4
  <2> QED
    BY <1>8, <2>5
<1>17. \A s \in 0 .. L : base[s] \in Nat /\ next[s] \in Nat
  <2>1. \A s \in 0 .. L : base[s] \in Nat
    BY <1>2, <1>6
  <2>2. \A s \in 0 .. L : next[s] \in Nat
    BY <1>3, <1>10
  <2> QED
    BY <2>1, <2>2
<1>11. \A s, t \in 0 .. L : s <= t => next[t] <= next[s]
  <2> SUFFICES ASSUME NEW s \in 0 .. L, NEW t \in 0 .. L, s <= t
               PROVE  next[t] <= next[s]
    OBVIOUS
  <2>1. next[s] \in Nat
    BY <1>3, <1>10
  <2>2. CASE s = t
    BY <2>1, <2>2
  <2>3. CASE s < t
    <3>1. t \in 1 .. L /\ s <= t - 1 /\ t - 1 <= t /\ t - 1 \in 0 .. L
      BY <1>1, <2>3
    <3>2. next[t] <= base[t - 1]
      <4>1. base[t] <= base[t - 1] /\ base[t - 1] <= base[t - 1]
        BY <1>6, <3>1
      <4> QED
        BY <1>9, <3>1, <4>1
    <3>3. base[t - 1] <= base[s]
      BY <1>6, <3>1
    <3>4. base[s] <= next[s]
      <4>1. CASE s = 0
        BY <1>3, <1>6, <1>9, <4>1
      <4>2. CASE s # 0
        <5>1. s \in 1 .. L /\ s - 1 <= s
          BY <1>1, <4>2
        <5>2. base[s] <= base[s - 1] /\ base[s] <= base[s]
          BY <1>6, <1>7, <5>1
        <5> QED
          BY <1>9, <5>1, <5>2
      <4> QED
        BY <4>1, <4>2
    <3>5. next[t] \in Nat /\ base[t - 1] \in Nat /\ base[s] \in Nat
      BY <1>17, <3>1
    <3> QED
      BY <2>1, <3>2, <3>3, <3>4, <3>5
  <2> QED
    BY <2>2, <2>3
<1>12. ASSUME NEW s \in 1 .. L
       PROVE  /\ next[s] + Len(route'[s]) = next[s - 1]
              /\ \A b \in 1 .. Len(route'[s]) : route'[s][b] = <<current, next[s] + b>>
  <2>1. /\ base[s] + Len(route[s]) = base[s - 1]
        /\ \A b \in 1 .. Len(route[s]) : route[s][b] = <<current, base[s] + b>>
        /\ base[s] \in Nat /\ base[s - 1] \in Nat
    BY <1>2, <1>6, <1>7
  <2>2. route'[s] = IF ~Moves[s] THEN route[s]
                    ELSE IF s > 1 THEN route[s - 1] ELSE IF Feeds THEN Packet ELSE <<>>
    BY RouteStep
  <2>3. CASE s > 1
    <3> DEFINE r == s - 1
    <3>1. r \in 1 .. L /\ r # L /\ r + 1 = s
      BY <1>1, <2>3
    <3>2. Moves[r] <=> route[r] = <<>> \/ Moves[s]
      BY <3>1, RouteStep
    <3>3. /\ base[r] + Len(route[r]) = base[r - 1]
          /\ \A b \in 1 .. Len(route[r]) : route[r][b] = <<current, base[r] + b>>
          /\ base[r] \in Nat /\ base[r - 1] \in Nat
      <4>1. r \in 0 .. L /\ r - 1 \in 0 .. L
        BY <1>7, <3>1
      <4> HIDE DEF r
      <4> QED
        BY <1>6, <1>17, <3>1, <4>1
    <3>4. next[r] = IF Moves[r] THEN base[r - 1] ELSE base[r]
      BY <1>9, <3>1
    <3> HIDE DEF r
    <3>5. CASE Moves[s]
      <4>1. route'[s] = route[r] /\ next[s] = base[r] /\ next[r] = base[r - 1]
        BY <1>9, <2>2, <2>3, <3>2, <3>4, <3>5 DEF r
      <4> QED
        BY <3>3, <4>1 DEF r
    <3>6. CASE ~Moves[s]
      <4>1. route'[s] = route[s] /\ next[s] = base[s]
        BY <1>9, <2>2, <3>6
      <4>2. next[r] = base[r]
        <5>1. CASE route[r] = <<>>
          <6>1. Len(route[r]) = 0
            BY <5>1, EmptyTypes
          <6>2. base[r - 1] = base[r]
            BY <3>3, <6>1
          <6> QED
            BY <3>4, <6>2
        <5>2. CASE route[r] # <<>>
          BY <3>2, <3>4, <3>6, <5>2
        <5> QED
          BY <5>1, <5>2
      <4> QED
        BY <2>1, <4>1, <4>2 DEF r
    <3> QED
      BY <3>5, <3>6
  <2>4. CASE s = 1
    <3>1. next[s - 1] = routed' /\ base[s - 1] = routed
      BY <1>6, <1>9, <2>4
    <3>2. CASE ~Moves[s]
      <4>1. routed' = routed /\ route'[s] = route[s] /\ next[s] = base[s]
        BY <1>1, <1>9, <2>2, <2>4, <3>2
      <4> QED
        BY <2>1, <3>1, <4>1
    <3>3. CASE Moves[s]
      <4>1. next[s] = routed
        BY <1>9, <3>1, <3>3
      <4>2. CASE Feeds
        <5>1. route'[s] = Packet /\ routed' = routed + PacketSize
          BY <1>1, <2>2, <2>4, <3>3, <4>2
        <5>2. Len(Packet) = PacketSize /\ \A b \in 1 .. PacketSize : Packet[b] = <<current, routed + b>>
          BY <1>1, <4>2, PacketFacts
        <5> QED
          BY <3>1, <4>1, <5>1, <5>2
      <4>3. CASE ~Feeds
        <5>1. route'[s] = <<>> /\ routed' = routed
          BY <1>1, <2>2, <2>4, <3>3, <4>3
        <5>2. Len(route'[s]) = 0 /\ 1 .. Len(route'[s]) = {}
          BY <5>1, EmptyTypes
        <5> QED
          BY <1>2, <3>1, <4>1, <5>1, <5>2
      <4> QED
        BY <4>2, <4>3
    <3> QED
      BY <3>2, <3>3
  <2> QED
    BY <1>1, <2>3, <2>4
<1>13. next[L] = AW + Len(reassembly')
  <2> DEFINE q == Len(route[L])
  <2>1. L \in 1 .. L
    BY <1>1
  <2>2. q \in Nat /\ base[L] + q = base[L - 1] /\ base[L] = AW + R
    BY <1>1, <1>6, <2>1
  <2>3. Len(reassembly') = IF Delivered THEN R + q ELSE R
    BY DeliveryFacts
  <2>4. Moves[L] <=> route[L] = <<>> \/ Delivered
    BY <2>1, RouteStep
  <2>5. next[L] = IF Moves[L] THEN base[L - 1] ELSE base[L]
    BY <1>9, <2>1
  <2>6. CASE Delivered
    <3>1. next[L] = base[L] + q /\ Len(reassembly') = R + q
      BY <2>2, <2>3, <2>4, <2>5, <2>6
    <3> DEFINE x == Len(reassembly')
               y == next[L]
    <3>2. x = R + q /\ y = (AW + R) + q
      BY <2>2, <3>1
    <3> HIDE DEF x, y, AW, q, R
    <3>3. y = AW + x
      BY <1>2, <2>2, <3>2
    <3> QED
      BY <3>3 DEF x, y
  <2>7. CASE ~Delivered
    <3>1. next[L] = base[L]
      <4>1. CASE route[L] = <<>>
        <5>1. q = 0
          BY <4>1, EmptyTypes
        <5>2. base[L - 1] = base[L]
          BY <1>2, <2>2, <5>1
        <5> QED
          BY <2>5, <5>2
      <4>2. CASE route[L] # <<>>
        BY <2>4, <2>5, <2>7, <4>2
      <4> QED
        BY <4>1, <4>2
    <3> QED
      BY <2>2, <2>3, <2>7, <3>1
  <2> QED
    BY <2>6, <2>7
<1>14. Carries(next)'
  <2>1. accepted' * Part'.width = AW
    BY <1>1
  <2> HIDE DEF AW
  <2> QED
    BY <1>1, <1>9, <1>10, <1>11, <1>12, <1>13, <2>1 DEF Carries
<1>15. \A b \in 1 .. Len(reassembly') : reassembly'[b] = <<current, AW + b>>
  <2> DEFINE q == route[L]
  <2> SUFFICES ASSUME NEW b \in 1 .. Len(reassembly') PROVE reassembly'[b] = <<current, AW + b>>
    OBVIOUS
  <2>1. /\ Len(reassembly') = IF Delivered THEN R + Len(q) ELSE R
        /\ reassembly'[b] = IF b <= R THEN reassembly[b] ELSE q[b - R]
    BY DeliveryFacts
  <2>2. CASE b <= R
    BY <1>2, <1>4, <2>1, <2>2
  <2>3. CASE ~(b <= R)
    <3>1. L \in 1 .. L /\ Len(q) \in Nat
      BY <1>1
    <3>2. Delivered /\ Len(reassembly') = R + Len(q)
      BY <1>2, <2>1, <2>3
    <3>3. b - R \in 1 .. Len(q)
      BY <1>2, <2>3, <3>1, <3>2
    <3>4. q[b - R] = <<current, (AW + R) + (b - R)>>
      BY <1>6, <3>1, <3>3
    <3>5. (AW + R) + (b - R) = AW + b
      <4> HIDE DEF AW, R
      <4>1. b \in Int
        OBVIOUS
      <4> QED
        BY <1>2, <4>1
    <3> QED
      BY <2>1, <2>3, <3>4, <3>5
  <2> QED
    BY <2>2, <2>3
<1>16. DOMAIN route' = 1 .. L
  BY RouteStep
<1> QED
  BY <1>1, <1>10, <1>14, <1>15, <1>16 DEF Carried

(* The fed bytes stay those of the vectors taken: a vector is given up when *)
(* its last byte, or the last byte of the image, has been fed.              *)
LEMMA RouteFed ==
  ASSUME IInv, TickRoute
  PROVE  /\ Fed'
         /\ offset' \in Nat /\ routed' \in Nat /\ inbound' \in Seq(Bytes) /\ Len(inbound') <= Len(inbound)
<1>1. /\ Loading /\ Part' = Part /\ Size' = Size /\ UNCHANGED <<current, unrequested, outstanding>>
      /\ inbound \in Seq(Bytes)
  BY RouteStep DEF TickRoute
<1>2. /\ Taken \in Nat /\ routed <= Size
      /\ routed < Size => routed = Taken * VectorBytes + offset /\ offset < VectorBytes
      /\ routed = Size => Taken = Vectors(Part) /\ offset = 0
      /\ \A k \in 1 .. Len(inbound) : inbound[k] = <<current, Taken + k>>
  BY <1>1 DEF IInv, Fed
<1>3. /\ offset \in Nat /\ routed \in Nat /\ unrequested \in Nat /\ outstanding \in Nat
      /\ Len(inbound) \in Nat /\ Size \in Nat /\ Vectors(Part) \in Nat /\ Part \in Image
      /\ Size = Part.words * Part.width
  BY <1>1, Types, PartFacts DEF IInv
<1>4. CASE ~Feeds
  <2>1. UNCHANGED <<routed, offset, inbound>>
    BY <1>4 DEF TickRoute
  <2>2. Taken' = Taken
    BY <1>1, <2>1 DEF Taken
  <2> QED
    BY <1>1, <1>2, <1>3, <2>1, <2>2 DEF Fed
<1>5. CASE Feeds
  <2> DEFINE p == PacketSize
             T == Taken
             TV == T * VectorBytes
  <2>1. /\ p \in Nat \ {0} /\ offset < VectorBytes /\ offset + p <= VectorBytes
        /\ routed + p <= Size /\ routed = TV + offset
    BY <1>1, <1>5, PacketFacts
  <2>2. TV \in Nat /\ (T + 1) * VectorBytes = TV + VectorBytes
    BY <1>2, ConstantFacts, Mul
  <2>3. /\ VectorDone <=> offset + p = VectorBytes \/ routed + p = Size
        /\ routed' = routed + p
        /\ offset' = (IF VectorDone THEN 0 ELSE offset + p)
        /\ inbound' = (IF VectorDone THEN Tail(inbound) ELSE inbound)
    BY <1>5 DEF TickRoute, VectorDone, Size
  <2> HIDE DEF p, TV
  <2>4. CASE VectorDone
    <3>1. /\ Tail(inbound) \in Seq(Bytes) /\ Len(Tail(inbound)) = Len(inbound) - 1
          /\ \A k \in 1 .. Len(inbound) - 1 : Tail(inbound)[k] = inbound[k + 1]
      BY <1>1, <1>5, HeadTailProperties DEF Feeds
    <3>2. /\ inbound' \in Seq(Bytes) /\ Len(inbound') = Len(inbound) - 1 /\ Len(inbound') \in Nat
          /\ \A k \in 1 .. Len(inbound') : inbound'[k] = inbound[k + 1]
      <4>1. Len(Tail(inbound)) \in Nat
        BY <3>1, LenProperties
      <4> QED
        BY <2>3, <2>4, <3>1, <4>1
    <3>3. Taken' = T + 1
      <4> DEFINE v == Vectors(Part)
                 a == Len(inbound)
                 b == Len(inbound')
                 u == unrequested
                 o == outstanding
      <4>1. T = v - u - o - a /\ Taken' = v - u - o - b
        BY <1>1 DEF Taken
      <4>2. v \in Nat /\ u \in Nat /\ o \in Nat /\ a \in Nat /\ b = a - 1
        BY <1>3, <3>2
      <4> HIDE DEF v, a, b, u, o, T
      <4> QED
        BY <4>1, <4>2
    <3>4. \A k \in 1 .. Len(inbound') : inbound'[k] = <<current, Taken' + k>>
      <4> SUFFICES ASSUME NEW k \in 1 .. Len(inbound')
                   PROVE  inbound'[k] = <<current, Taken' + k>>
        OBVIOUS
      <4>1. k + 1 \in 1 .. Len(inbound) /\ inbound'[k] = inbound[k + 1]
        BY <1>3, <3>2
      <4>2. T + (k + 1) = T + 1 + k
        BY <1>2
      <4> QED
        BY <1>2, <3>3, <4>1, <4>2
    <3>5. TV < Size /\ (routed' = Size => Size <= TV + VectorBytes)
      BY <1>3, <2>1, <2>2, <2>3, ConstantFacts
    <3>6. routed' = Size => Taken' = Vectors(Part)
      BY <1>2, <1>3, <3>3, <3>5, ImageTypes DEF TV
    <3>7. routed' < Size => routed' = Taken' * VectorBytes + offset' /\ offset' < VectorBytes
      <4>1. routed' < Size => offset + p = VectorBytes
        BY <1>3, <2>1, <2>3, <2>4
      <4>2. offset' = 0 /\ Taken' * VectorBytes = TV + VectorBytes
        BY <2>2, <2>3, <2>4, <3>3
      <4> DEFINE x == Taken' * VectorBytes
      <4>3. x = TV + VectorBytes
        BY <4>2
      <4> HIDE DEF x
      <4>4. routed' < Size => routed' = x + offset' /\ offset' < VectorBytes
        BY <1>3, <2>1, <2>2, <2>3, <4>1, <4>2, <4>3, ConstantFacts
      <4> QED
        BY <4>4 DEF x
    <3>8. Fed'
      BY <1>1, <1>2, <2>1, <2>3, <2>4, <3>3, <3>4, <3>6, <3>7 DEF Fed
    <3> QED
      BY <1>3, <2>1, <2>3, <2>4, <3>2, <3>8
  <2>5. CASE ~VectorDone
    <3>1. inbound' = inbound /\ offset' = offset + p
      BY <2>3, <2>5
    <3>2. Taken' = T
      BY <1>1, <3>1 DEF Taken
    <3>3. offset + p < VectorBytes /\ routed' < Size /\ routed' = TV + offset'
      <4>1. offset + p # VectorBytes /\ routed + p # Size
        BY <2>3, <2>5
      <4> QED
        BY <1>3, <2>1, <2>2, <2>3, <3>1, <4>1, ConstantFacts
    <3>4. routed' = Taken' * VectorBytes + offset'
      BY <3>2, <3>3 DEF TV
    <3>5. Fed'
      <4>1. routed' <= Size /\ routed' # Size
        BY <1>3, <2>1, <2>3, <3>3
      <4> QED
        BY <1>1, <1>2, <3>1, <3>2, <3>3, <3>4, <4>1 DEF Fed
    <3>6. Len(inbound') <= Len(inbound)
      BY <1>3, <3>1
    <3> QED
      BY <1>1, <1>3, <2>1, <2>3, <3>1, <3>5, <3>6
  <2> QED
    BY <2>4, <2>5
<1> QED
  BY <1>4, <1>5

LEMMA RouteInv ==
  ASSUME IInv, TickRoute
  PROVE  IInv'
<1>1. /\ UNCHANGED <<images, current, config, generation, runVars, accepted, cooldown, unrequested,
                     outstanding, answered, ramVars, icuVars, state, commits, traffic, fault>>
      /\ stage' = "dma"
  BY DEF TickRoute, progVars
<1>2. Loading /\ Loading' /\ Bytes' = Bytes /\ \A i, a : WordOf(i, a)' = WordOf(i, a)
  BY <1>1, RouteStep, SamePart
<1>3. route' \in Seq(Seq(Bytes))
  <2> DEFINE L == config.route
             next(s) == IF ~Moves[s] THEN route[s]
                        ELSE IF s > 1 THEN route[s - 1] ELSE IF Feeds THEN Packet ELSE <<>>
  <2>1. \A s \in 1 .. L : next(s) \in Seq(Bytes)
    <3> SUFFICES ASSUME NEW s \in 1 .. L PROVE next(s) \in Seq(Bytes)
      OBVIOUS
    <3>1. route[s] \in Seq(Bytes)
      BY RouteStep
    <3>2. s > 1 => route[s - 1] \in Seq(Bytes)
      <4>1. s > 1 => s - 1 \in 1 .. L
        BY RouteStep
      <4> QED
        BY <4>1, RouteStep
    <3>3. Feeds => Packet \in Seq(Bytes)
      BY <1>2, PacketFacts
    <3>4. <<>> \in Seq(Bytes)
      OBVIOUS
    <3> QED
      BY <3>1, <3>2, <3>3, <3>4
  <2>2. route' = [s \in 1 .. L |-> next(s)]
    BY RouteStep
  <2> HIDE DEF next
  <2>3. route' \in [1 .. L -> Seq(Bytes)] /\ L \in Nat
    BY <2>1, <2>2, RouteStep
  <2> QED
    BY <2>3, SeqDef
<1>4. TypeOK'
  <2>1. stage' \in {"runtime", "start", "prime", "commit", "accept", "route", "dma", "chip"}
    BY <1>1
  <2>2. {routed', offset', accepted', cooldown'} \subseteq Nat
    <3>1. accepted \in Nat /\ cooldown \in Nat
      BY Types DEF IInv
    <3> QED
      BY <1>1, <3>1, RouteFed
  <2>3. reassembly' \in Seq(Bytes') /\ inbound' \in Seq(Bytes') /\ route' \in Seq(Seq(Bytes'))
    BY <1>2, <1>3, RouteFed, DeliveryFacts
  <2> QED
    BY <1>1, <1>2, <2>1, <2>2, <2>3 DEF IInv, TypeOK, ramVars, runVars, icuVars
<1>5. Phases'
  BY <1>1, <1>2 DEF IInv, Phases, icuVars
<1>6. InOrder(images)' /\ Filled' /\ Accepted'
  BY <1>1, <1>2 DEF IInv, InOrder, Filled, Accepted, ramVars
<1>7. Bounded'
  <2>1. outstanding' + Len(inbound') <= FifoDepth
    <3> DEFINE a == Len(inbound)
               b == Len(inbound')
    <3>1. outstanding + a <= FifoDepth
      BY DEF IInv, Bounded
    <3>2. b <= a /\ b \in Nat
      <4>1. inbound' \in Seq(Bytes)
        BY RouteFed
      <4> QED
        BY <4>1, RouteFed, LenProperties
    <3>3. outstanding' = outstanding /\ outstanding \in Nat /\ a \in Nat
      BY <1>1, Types DEF IInv
    <3> HIDE DEF a, b
    <3>4. outstanding' + b <= FifoDepth
      BY <3>1, <3>2, <3>3, ConstantFacts
    <3> QED
      BY <3>4 DEF b
  <2>2. Len(reassembly') <= ReassemblyBytes
    BY DeliveryFacts
  <2>3. Len(commits') <= config'.commit + 1
    BY <1>1 DEF IInv, Bounded
  <2> QED
    BY <1>2, <2>1, <2>2, <2>3 DEF Bounded
<1>8. Checked'
  BY <1>1, StillChecked DEF ramVars
<1> QED
  BY <1>4, <1>5, <1>6, <1>7, <1>8, RouteCarried, RouteFed DEF IInv

LEMMA DueFacts ==
  ASSUME IInv
  PROVE  Due \in 0 .. Len(commits)
<1>1. DOMAIN commits = 1 .. Len(commits) /\ Len(commits) \in Nat
  BY Types DEF IInv
<1>2. IsFiniteSet(1 .. Len(commits)) /\ Cardinality(1 .. Len(commits)) = Len(commits)
  <2> DEFINE K == Len(commits)
  <2>1. K \in Nat
    BY <1>1
  <2> HIDE DEF K
  <2>2. IsFiniteSet(1 .. K) /\ Cardinality(1 .. K) = IF 1 > K THEN 0 ELSE K - 1 + 1
    BY <2>1, FS_Interval
  <2>3. Cardinality(1 .. K) = K
    BY <2>1, <2>2
  <2> QED
    BY <2>2, <2>3 DEF K
<1> DEFINE S == {k \in DOMAIN commits : commits[k].wait = 0}
<1>3. S \subseteq 1 .. Len(commits)
  BY <1>1
<1> HIDE DEF S
<1>4. IsFiniteSet(S) /\ Cardinality(S) <= Len(commits)
  BY <1>2, <1>3, FS_Subset
<1>5. Cardinality(S) \in Nat
  BY <1>4, FS_CardinalityType
<1> QED
  BY <1>1, <1>4, <1>5 DEF Due, S

(* The words whose latency is over go behind those the store has; those     *)
(* left are the next ones.                                                  *)
LEMMA WrittenFacts ==
  ASSUME IInv, Loading, CommitWords
  PROVE  /\ current \in DOMAIN images
         /\ Written \in Seq(Seq(Bytes)) /\ Len(Written) = Len(rams[current]) + Due
         /\ \A a \in 1 .. Len(Written) : Written[a] = WordOf(current, a)
         /\ rams' \in Seq(Seq(Seq(Bytes))) /\ DOMAIN rams' = DOMAIN images
         /\ rams'[current] = Written
         /\ \A i \in DOMAIN images : i # current => rams'[i] = rams[i]
         /\ commits' \in Seq([address : Nat, bytes : Seq(Bytes), wait : 0 .. config.commit])
         /\ Len(commits') = Len(commits) - Due
         /\ accepted = Len(Written) + Len(commits')
         /\ \A k \in 1 .. Len(commits') :
              /\ commits'[k].address = Len(Written) + k - 1
              /\ commits'[k].bytes = WordOf(current, Len(Written) + k)
         /\ InSequence
<1> DEFINE r == Len(rams[current])
           K == Len(commits)
           D == Due
           C == [address : Nat, bytes : Seq(Bytes), wait : 0 .. config.commit]
           old == rams[current]
           new == [k \in 1 .. D |-> commits[k].bytes]
<1>1. /\ current \in DOMAIN images /\ old \in Seq(Seq(Bytes)) /\ r \in Nat /\ K \in Nat
      /\ commits \in Seq(C) /\ D \in 0 .. K
  <2>1. commits \in Seq(C)
    BY DEF IInv, TypeOK
  <2> QED
    BY <2>1, Types, DueFacts DEF IInv
<1>2. /\ accepted = r + K
      /\ \A k \in 1 .. K : commits[k].address = r + k - 1 /\ commits[k].bytes = WordOf(current, r + k)
  BY DEF IInv, Accepted
<1>3. \A a \in 1 .. r : old[a] = WordOf(current, a)
  BY <1>1 DEF IInv, Filled
<1>4. \A k \in 1 .. K : commits[k] \in C
  BY <1>1, ElementOfSeq
<1>5. \A k \in 1 .. D : k \in 1 .. K
  BY <1>1
<1>6. /\ new \in Seq(Seq(Bytes)) /\ Len(new) = D
      /\ \A k \in 1 .. D : new[k] = WordOf(current, r + k)
  <2>1. \A k \in 1 .. D : commits[k].bytes \in Seq(Bytes)
    BY <1>4, <1>5
  <2>2. \A k \in 1 .. D : commits[k].bytes = WordOf(current, r + k)
    BY <1>2, <1>5
  <2> HIDE DEF D, r
  <2>3. new \in [1 .. D -> Seq(Bytes)]
    BY <2>1
  <2>4. new \in Seq(Seq(Bytes)) /\ Len(new) = D
    BY <1>1, <2>3, SeqDef
  <2> QED
    BY <2>2, <2>4
<1> HIDE DEF new
<1>7. /\ Written \in Seq(Seq(Bytes)) /\ Len(Written) = r + D
      /\ \A a \in 1 .. r + D : Written[a] = IF a <= r THEN old[a] ELSE new[a - r]
  <2>1. Written = old \o new
    BY DEF Written, new
  <2> HIDE DEF old
  <2>2. /\ old \o new \in Seq(Seq(Bytes)) /\ Len(old \o new) = Len(old) + Len(new)
        /\ \A a \in 1 .. Len(old) + Len(new) : (old \o new)[a] =
             IF a <= Len(old) THEN old[a] ELSE new[a - Len(old)]
    BY <1>1, <1>6, ConcatProperties
  <2>3. Len(old) = r
    BY DEF old
  <2> QED
    BY <1>6, <2>1, <2>2, <2>3
<1>8. \A a \in 1 .. r + D : Written[a] = WordOf(current, a)
  <2> SUFFICES ASSUME NEW a \in 1 .. r + D PROVE Written[a] = WordOf(current, a)
    OBVIOUS
  <2>1. CASE a <= r
    <3> HIDE DEF r, D, old
    <3>1. a \in 1 .. r
      BY <1>1, <2>1
    <3> QED
      BY <1>3, <1>7, <2>1, <3>1
  <2>2. CASE ~(a <= r)
    <3> HIDE DEF r, D, old
    <3>1. a - r \in 1 .. D /\ r + (a - r) = a
      BY <1>1, <2>2
    <3>2. new[a - r] = WordOf(current, r + (a - r))
      BY <1>6, <3>1
    <3> QED
      BY <1>7, <2>2, <3>1, <3>2
  <2> QED
    BY <2>1, <2>2
<1>9. rams' \in Seq(Seq(Seq(Bytes))) /\ DOMAIN rams' = DOMAIN images
      /\ rams'[current] = Written /\ \A i \in DOMAIN images : i # current => rams'[i] = rams[i]
  <2>1. rams' = [rams EXCEPT ![current] = Written]
    BY DEF CommitWords
  <2>2. rams \in Seq(Seq(Seq(Bytes))) /\ DOMAIN rams = DOMAIN images
    BY DEF IInv, TypeOK
  <2>3. DOMAIN rams = 1 .. Len(rams) /\ Len(rams) \in Nat
        /\ \A i \in 1 .. Len(rams) : rams[i] \in Seq(Seq(Bytes))
    BY <2>2, LenProperties, ElementOfSeq
  <2>4. DOMAIN rams' = 1 .. Len(rams) /\ rams'[current] = Written
        /\ \A i \in 1 .. Len(rams) : i # current => rams'[i] = rams[i]
    BY <1>1, <2>1, <2>2, <2>3
  <2>5. rams' \in [1 .. Len(rams) -> Seq(Seq(Bytes))]
    BY <1>7, <2>1, <2>3, <2>4
  <2>6. rams' \in Seq(Seq(Seq(Bytes)))
    BY <2>3, <2>5, SeqDef
  <2> QED
    BY <2>2, <2>3, <2>4, <2>6
<1>10. /\ commits' \in Seq(C) /\ Len(commits') = K - D /\ K - D \in Nat
       /\ \A k \in 1 .. K - D : commits'[k] = commits[D + k]
  <2>1. commits' = SubSeq(commits, D + 1, Len(commits))
    BY DEF CommitWords
  <2> HIDE DEF C, D
  <2>2. /\ SubSeq(commits, D + 1, Len(commits)) \in Seq(C)
        /\ Len(SubSeq(commits, D + 1, Len(commits))) = Len(commits) - D
        /\ \A k \in 1 .. Len(commits) - D : SubSeq(commits, D + 1, Len(commits))[k] = commits[D + k]
    BY <1>1, FirstAndRest
  <2>3. K - D \in Nat
    BY <1>1
  <2> QED
    BY <2>1, <2>2, <2>3
<1>11. accepted = (r + D) + (K - D)
  <2> HIDE DEF r, D, K
  <2> QED
    BY <1>1, <1>2
<1>12. ASSUME NEW k \in 1 .. K - D
       PROVE  /\ commits'[k].address = (r + D) + k - 1
              /\ commits'[k].bytes = WordOf(current, (r + D) + k)
  <2> HIDE DEF r, D, K
  <2>1. D + k \in 1 .. K /\ r + (D + k) = (r + D) + k
    BY <1>1
  <2>2. commits[D + k].address = r + (D + k) - 1 /\ commits[D + k].bytes = WordOf(current, r + (D + k))
    BY <1>2, <2>1
  <2>3. r + (D + k) - 1 = (r + D) + k - 1
    BY <1>1
  <2>4. commits'[k] = commits[D + k]
    BY <1>10
  <2> QED
    BY <2>1, <2>2, <2>3, <2>4
<1>13. InSequence
  <2>1. \A k \in 1 .. D : commits[k].address = r + k - 1
    BY <1>2, <1>5
  <2> QED
    BY <2>1 DEF InSequence
<1>14. Len(Written) = r + D /\ Len(commits') = K - D
  BY <1>7, <1>10
<1> HIDE DEF r, D, K, C, old
<1>15. accepted = Len(Written) + Len(commits')
  BY <1>11, <1>14
<1>16. \A a \in 1 .. Len(Written) : Written[a] = WordOf(current, a)
  BY <1>8, <1>14
<1>17. \A k \in 1 .. Len(commits') :
         /\ commits'[k].address = Len(Written) + k - 1
         /\ commits'[k].bytes = WordOf(current, Len(Written) + k)
  BY <1>12, <1>14
<1> QED
  BY <1>1, <1>7, <1>9, <1>10, <1>13, <1>15, <1>16, <1>17 DEF r, D, K, C

(* The words of a cycle are written, and no image is sealed.                *)
LEMMA WritingInv ==
  ASSUME IInv, CommitWords, stage = "commit", stage' \in {"commit", "accept"}, Checked',
         fault' \in {"none", "exception"},
         UNCHANGED <<images, current, config, generation, runVars, feedVars, wordVars, dmaVars,
                     sealed, barriers, icuVars, state, traffic>>
  PROVE  IInv'
<1>1. /\ UNCHANGED <<images, current, config, generation, runVars, feedVars, wordVars, dmaVars,
                     sealed, barriers, icuVars, state, traffic>>
      /\ stage = "commit" /\ stage' \in {"commit", "accept"} /\ CommitWords
  OBVIOUS
<1>2. Loading /\ Loading'
  BY <1>1 DEF IInv, Phases, Loading
<1>3. fault' \in {"none", "exception"}
  OBVIOUS
<1>4. Part' = Part /\ Size' = Size /\ Bytes' = Bytes /\ \A i, a : WordOf(i, a)' = WordOf(i, a)
  BY <1>1, SamePart
<1>5. TypeOK'
  <2>1. stage' \in {"runtime", "start", "prime", "commit", "accept", "route", "dma", "chip"}
    BY <1>1
  <2>2. rams' \in Seq(Seq(Seq(Bytes'))) /\ DOMAIN rams' = DOMAIN images'
        /\ commits' \in Seq([address : Nat, bytes : Seq(Bytes'), wait : 0 .. config'.commit])
    BY <1>1, <1>2, <1>4, WrittenFacts
  <2> QED
    BY <1>1, <1>2, <1>3, <1>4, <2>1, <2>2
    DEF IInv, TypeOK, runVars, feedVars, wordVars, dmaVars, icuVars
<1>6. Phases'
  BY <1>1, <1>2 DEF IInv, Phases, icuVars
<1>7. InOrder(images)'
  BY <1>1 DEF IInv, InOrder
<1>8. Filled'
  <2>1. \A i \in DOMAIN images :
          /\ \A a \in 1 .. Len(rams'[i]) : rams'[i][a] = WordOf(i, a)
          /\ i < current => Len(rams'[i]) = images[i].words
          /\ i > current => rams'[i] = <<>>
    <3> SUFFICES ASSUME NEW i \in DOMAIN images
                 PROVE  /\ \A a \in 1 .. Len(rams'[i]) : rams'[i][a] = WordOf(i, a)
                        /\ i < current => Len(rams'[i]) = images[i].words
                        /\ i > current => rams'[i] = <<>>
      OBVIOUS
    <3>1. CASE i = current
      <4>1. ~(i < current) /\ ~(i > current)
        <5>1. current \in Nat
          BY Types DEF IInv
        <5> QED
          BY <3>1, <5>1
      <4> QED
        BY <1>1, <1>2, <3>1, <4>1, WrittenFacts
    <3>2. CASE i # current
      <4>1. rams'[i] = rams[i]
        BY <1>1, <1>2, <3>2, WrittenFacts
      <4> QED
        BY <4>1 DEF IInv, Filled
    <3> QED
      BY <3>1, <3>2
  <2> QED
    BY <1>1, <1>4, <2>1 DEF IInv, Filled
<1>9. Accepted'
  <2>1. /\ rams'[current] = Written /\ accepted = Len(Written) + Len(commits')
        /\ \A k \in 1 .. Len(commits') :
              /\ commits'[k].address = Len(Written) + k - 1
              /\ commits'[k].bytes = WordOf(current, Len(Written) + k)
    BY <1>1, <1>2, WrittenFacts
  <2> QED
    BY <1>1, <1>4, <2>1 DEF Accepted, wordVars
<1>10. Carried'
  <2>1. \A base : Carries(base) => Carries(base)'
    BY <1>1, <1>4 DEF Carries, feedVars, wordVars
  <2> QED
    BY <1>1, <1>2, <1>4, <2>1 DEF IInv, Carried, feedVars, wordVars
<1>11. Fed'
  BY <1>1, <1>2, <1>4 DEF IInv, Fed, Taken, feedVars, dmaVars
<1>12. Bounded'
  <2>1. Len(commits') <= config'.commit + 1
    <3>1. Len(commits') = Len(commits) - Due /\ Due \in 0 .. Len(commits)
      BY <1>1, <1>2, WrittenFacts, DueFacts
    <3>2. Len(commits) <= config.commit + 1 /\ Len(commits) \in Nat /\ config.commit \in Nat
      BY Types DEF IInv, Bounded
    <3> QED
      BY <1>1, <3>1, <3>2
  <2> QED
    BY <1>1, <1>2, <2>1 DEF IInv, Bounded, dmaVars, wordVars
<1> QED
  BY <1>5, <1>6, <1>7, <1>8, <1>9, <1>10, <1>11, <1>12 DEF IInv

LEMMA CommitInv ==
  ASSUME IInv, TickCommit
  PROVE  IInv'
<1>1. /\ UNCHANGED <<images, current, config, generation, runVars, feedVars, wordVars, dmaVars,
                     sealed, barriers, icuVars, state, traffic>>
      /\ stage = "commit" /\ stage' = "accept" /\ CommitWords
      /\ fault' = (IF ~InSequence THEN "exception" ELSE fault)
  BY DEF TickCommit, Ticking, progVars, Throw
<1>2. Loading
  BY <1>1 DEF IInv, Phases
<1>3. fault' = fault
  BY <1>1, <1>2, WrittenFacts
<1>4. Checked'
  BY <1>1, <1>3, StillChecked
<1>5. fault' \in {"none", "exception"}
  BY <1>3 DEF IInv, TypeOK
<1> QED
  BY <1>1, <1>4, <1>5, WritingInv

(* Once a store has all words of its image, nothing of the image is left    *)
(* anywhere: the bytes that were fed are all its bytes, and they are there. *)
LEMMA NothingLeft ==
  ASSUME IInv, Loading, CommitWords, ImageWritten
  PROVE  /\ commits' = <<>> /\ reassembly = <<>> /\ inbound = <<>>
         /\ unrequested = 0 /\ outstanding = 0
         /\ DOMAIN route = 1 .. config.route /\ \A s \in DOMAIN route : route[s] = <<>>
<1> DEFINE N == Part.words
           W == Part.width
           L == config.route
           R == Len(reassembly)
           K == Len(commits')
           C == [address : Nat, bytes : Seq(Bytes), wait : 0 .. config.commit]
<1>1. /\ N \in Nat /\ W \in Nat \ {0} /\ Size = N * W /\ Size \in Nat /\ Vectors(Part) \in Nat
  BY PartFacts
<1>2. /\ L \in Nat \ {0} /\ R \in Nat /\ accepted \in Nat /\ routed \in Nat
      /\ unrequested \in Nat /\ outstanding \in Nat /\ Len(inbound) \in Nat
      /\ reassembly \in Seq(Bytes) /\ inbound \in Seq(Bytes)
  <2>1. reassembly \in Seq(Bytes) /\ inbound \in Seq(Bytes)
    BY DEF IInv, TypeOK
  <2> QED
    BY <2>1, Types DEF IInv
<1>3. commits' \in Seq(C) /\ K \in Nat /\ accepted = N + K
  <2>1. Len(Written) = N
    BY DEF ImageWritten, Part
  <2> HIDE DEF C
  <2>2. commits' \in Seq(C) /\ accepted = Len(Written) + Len(commits')
    BY WrittenFacts DEF C
  <2> QED
    BY <2>1, <2>2, LenProperties
<1>4. PICK base \in [0 .. L -> 0 .. routed] : Carries(base)
  BY DEF IInv, Carried
<1>5. /\ base[0] = routed /\ base[L] = accepted * W + R
      /\ \A s, t \in 0 .. L : s <= t => base[t] <= base[s]
      /\ \A s \in 1 .. L : base[s] + Len(route[s]) = base[s - 1]
      /\ \A s \in 0 .. L : base[s] \in Nat
  <2>1. \A s \in 0 .. L : base[s] \in Nat
    BY <1>2, <1>4
  <2>2. /\ base[0] = routed /\ base[L] = accepted * W + R
        /\ \A s, t \in 0 .. L : s <= t => base[t] <= base[s]
        /\ \A s \in 1 .. L : base[s] + Len(route[s]) = base[s - 1]
    BY <1>4 DEF Carries
  <2> QED
    BY <2>1, <2>2
<1>6. 0 \in 0 .. L /\ L \in 0 .. L
  BY <1>2
<1>7. routed <= Size
  BY DEF IInv, Fed
<1>8. accepted * W + R <= N * W
  <2>1. base[L] <= base[0]
    BY <1>2, <1>5, <1>6
  <2>2. base[L] \in Nat
    BY <1>5, <1>6
  <2>3. base[L] <= Size
    BY <1>1, <1>2, <1>5, <1>7, <2>1, <2>2
  <2> QED
    BY <1>1, <1>5, <2>3
<1>9. accepted = N
  <2> SUFFICES ASSUME accepted # N PROVE FALSE
    OBVIOUS
  <2>1. N + 1 <= accepted
    BY <1>1, <1>2, <1>3
  <2>2. (N + 1) * W <= accepted * W /\ (N + 1) * W = N * W + W /\ accepted * W \in Nat /\ N * W \in Nat
    <3>1. N + 1 \in Nat
      BY <1>1
    <3> QED
      BY <1>1, <1>2, <2>1, <3>1, Mul
  <2> DEFINE x == N * W
             y == accepted * W
  <2>3. x + W <= y /\ y + R <= x /\ x \in Nat /\ y \in Nat
    BY <1>8, <2>2
  <2> HIDE DEF x, y
  <2> QED
    BY <1>1, <1>2, <2>3
<1>10. K = 0 /\ R = 0
  <2>1. K = 0
    BY <1>1, <1>3, <1>9
  <2> DEFINE x == N * W
  <2>2. x + R <= x /\ x \in Nat
    BY <1>1, <1>8, <1>9
  <2> HIDE DEF x
  <2>3. R = 0
    BY <1>2, <2>2
  <2> QED
    BY <2>1, <2>3
<1>11. commits' = <<>> /\ reassembly = <<>>
  <2> HIDE DEF C
  <2> QED
    BY <1>2, <1>3, <1>10, EmptySeq
<1>12. base[L] = Size /\ routed = Size
  <2>1. base[L] = Size
    <3> DEFINE x == N * W
    <3>1. base[L] = x + R /\ x \in Nat /\ Size = x
      BY <1>1, <1>5, <1>9
    <3> HIDE DEF x
    <3> QED
      BY <1>10, <3>1
  <2>2. base[L] <= base[0]
    BY <1>2, <1>5, <1>6
  <2> QED
    BY <1>1, <1>2, <1>5, <1>7, <2>1, <2>2
<1>13. \A s \in 0 .. L : base[s] = Size
  <2> SUFFICES ASSUME NEW s \in 0 .. L PROVE base[s] = Size
    OBVIOUS
  <2>1. 0 <= s /\ s <= L
    BY <1>2
  <2>2. base[s] <= base[0] /\ base[L] <= base[s] /\ base[s] \in Nat
    BY <1>5, <1>6, <2>1
  <2> QED
    BY <1>1, <1>5, <1>12, <2>2
<1>14. DOMAIN route = 1 .. L
  BY DEF IInv, Carried
<1>15. \A s \in DOMAIN route : route[s] = <<>>
  <2> SUFFICES ASSUME NEW s \in 1 .. L PROVE route[s] = <<>>
    BY <1>14
  <2>1. s \in 0 .. L /\ s - 1 \in 0 .. L
    BY <1>2
  <2>2. route[s] \in Seq(Bytes) /\ Len(route[s]) \in Nat
    BY <1>14, Types DEF IInv
  <2>3. base[s] + Len(route[s]) = base[s - 1] /\ base[s] = Size /\ base[s - 1] = Size
    BY <1>5, <1>13, <2>1
  <2>4. Len(route[s]) = 0
    BY <1>1, <2>2, <2>3
  <2> QED
    BY <2>2, <2>4, EmptySeq
<1>16. unrequested = 0 /\ outstanding = 0 /\ Len(inbound) = 0
  <2> DEFINE v == Vectors(Part)
             a == Len(inbound)
  <2>1. v = v - unrequested - outstanding - a
    BY <1>12 DEF IInv, Fed, Taken
  <2>2. v \in Nat /\ a \in Nat
    BY <1>1, <1>2
  <2> HIDE DEF v, a
  <2>3. unrequested = 0 /\ outstanding = 0 /\ a = 0
    BY <1>2, <2>1, <2>2
  <2> QED
    BY <2>3 DEF a
<1>17. inbound = <<>>
  BY <1>2, <1>16, EmptySeq
<1> QED
  BY <1>11, <1>14, <1>15, <1>16, <1>17

(* submit() has put what an image is sealed with before the image: whether  *)
(* it can be sealed depends on the program and the pool alone.              *)
LEMMA SealCheck ==
  ASSUME IInv, Loading
  PROVE  Sealable(current) <=>
           /\ Sound(images, current)
           /\ images[current].store = "Qctl" =>
                Cardinality(PoolEntries(images, sealed \cup {current})) <= PoolCapacity
<1> DEFINE m == images[current]
<1>1. current \in DOMAIN images /\ current \in Nat \ {0} /\ DOMAIN images = 1 .. Len(images)
      /\ Len(images) \in Nat
  BY Types DEF IInv
<1>2. /\ sealed = {i \in DOMAIN images : i < current}
      /\ \A j \in sealed : images[j].store = "Barr" => barriers = j
  BY DEF IInv, Filled
<1>3. \A i, j \in DOMAIN images : i < j => Group(images[i].store) <= Group(images[j].store)
  BY DEF IInv, InOrder
<1>4. ASSUME NEW j \in DOMAIN images, Group(images[j].store) < Group(m.store),
             Group(images[j].store) \in Nat, Group(m.store) \in Nat
      PROVE  j \in sealed
  <2>1. ~(current < j)
    BY <1>1, <1>3, <1>4
  <2>2. j # current
    BY <1>4
  <2>3. j < current
    BY <1>1, <2>1, <2>2
  <2> QED
    BY <1>2, <2>3
<1>5. Group("Imem") = 0 /\ Group("Qctl") = 2 /\ Group("Barr") = 2 /\ Group("BarrierEvents") = 3
  BY DEF Group
<1>6. ASSUME m.store = "Qctl", NEW q
      PROVE  InMacroMode(q) <=> \E j \in DOMAIN images :
               images[j].store = "Imem" /\ images[j].macro /\ images[j].queue = q
  <2>1. \A j \in DOMAIN images : images[j].store = "Imem" => j \in sealed
    BY <1>4, <1>5, <1>6
  <2> QED
    BY <1>2, <2>1 DEF InMacroMode
<1>7. ASSUME m.store = "Qctl"
      PROVE  InMacroMode(m.queue)
  <2>1. \E j \in DOMAIN images : images[j].store = "Imem" /\ images[j].macro
                                     /\ images[j].queue = m.queue
    BY <1>1, <1>7 DEF IInv, InOrder
  <2> QED
    BY <1>6, <1>7, <2>1
<1>8. ASSUME m.store = "BarrierEvents", NEW B
      PROVE  BarriersBound(CommittedBarriers, B) <=> \A k \in DOMAIN images :
               images[k].store = "Barr" => BarriersBound(images[k].table, B)
  <2>1. PICK j \in DOMAIN images : images[j].store = "Barr"
    BY <1>1, <1>8 DEF IInv, InOrder
  <2>2. j \in sealed
    BY <1>4, <1>5, <1>8, <2>1
  <2>3. barriers = j /\ j # 0
    BY <1>1, <1>2, <2>1, <2>2
  <2>4. \A k \in DOMAIN images : images[k].store = "Barr" => k = j
    BY <2>1 DEF IInv, InOrder
  <2>5. CommittedBarriers = images[j].table
    BY <2>3 DEF CommittedBarriers
  <2> QED
    BY <2>1, <2>4, <2>5
<1> HIDE DEF m
<1>9. Sealable(current) <=>
        /\ m.store = "Qctl" =>
             /\ InMacroMode(m.queue)
             /\ Cardinality(PoolEntries(images, sealed \cup {current})) <= PoolCapacity
             /\ ControlsValid(m.table)
             /\ HasPackets(m.table) => InMacroMode([m.queue EXCEPT !.kind = "Mem"])
        /\ m.store \in {"QueueEvents", "BarrierEvents"} =>
             EventsWhole(m) /\ BindingsValid(Bindings(m))
        /\ m.store = "BarrierEvents" => BarriersBound(CommittedBarriers, Bindings(m))
  BY DEF Sealable, m
<1>10. Sound(images, current) <=>
        /\ m.store = "Qctl" => ControlsValid(m.table)
        /\ m.store = "Qctl" /\ HasPackets(m.table) =>
             \E j \in DOMAIN images : /\ images[j].store = "Imem" /\ images[j].macro
                                      /\ images[j].queue = [m.queue EXCEPT !.kind = "Mem"]
        /\ m.store \in {"QueueEvents", "BarrierEvents"} =>
             EventsWhole(m) /\ BindingsValid(Bindings(m))
        /\ m.store = "BarrierEvents" => \A k \in DOMAIN images :
             images[k].store = "Barr" => BarriersBound(images[k].table, Bindings(m))
  BY DEF Sound, m
<1>11. CASE m.store = "Qctl"
  BY <1>6, <1>7, <1>9, <1>10, <1>11 DEF m
<1>12. CASE m.store = "BarrierEvents"
  BY <1>8, <1>9, <1>10, <1>12 DEF m
<1>13. CASE m.store \notin {"Qctl", "BarrierEvents"}
  BY <1>9, <1>10, <1>13 DEF m
<1> QED
  BY <1>11, <1>12, <1>13

LEMMA Finite ==
  ASSUME IInv
  PROVE  IsFiniteSet(DOMAIN images)
<1>1. DOMAIN images = 1 .. Len(images) /\ Len(images) \in Nat
  BY Types DEF IInv
<1> QED
  BY <1>1, FS_Interval

(* An image that cannot be sealed is one of a program that makes no sense.  *)
LEMMA SealFailsInv ==
  ASSUME IInv, TickSealFails
  PROVE  IInv'
<1>1. /\ UNCHANGED <<images, current, config, generation, runVars, feedVars, wordVars, dmaVars,
                     sealed, barriers, icuVars, state, traffic>>
      /\ stage = "commit" /\ stage' = "commit" /\ CommitWords
      /\ fault' = "exception" /\ ~Sealable(current)
  BY DEF TickSealFails, Ticking, progVars
<1>2. Loading
  BY <1>1 DEF IInv, Phases
<1>3. current \in DOMAIN images /\ sealed \cup {current} \in SUBSET DOMAIN images
  BY <1>2, Types DEF IInv, Filled
<1>4. ~WellFormed(images)
  <2>1. CASE ~Sound(images, current)
    BY <1>3, <2>1, WellFormedFacts
  <2>2. CASE ~(Cardinality(PoolEntries(images, sealed \cup {current})) <= PoolCapacity)
    <3>1. Cardinality(PoolEntries(images, sealed \cup {current}))
            <= Cardinality(PoolEntries(images, DOMAIN images))
      BY <1>3, Finite, PoolFacts
    <3>2. ~(Cardinality(PoolEntries(images, DOMAIN images)) <= PoolCapacity)
      <4>1. IsFiniteSet(sealed \cup {current})
        BY <1>3, Finite, FS_Subset
      <4> QED
        BY <2>2, <3>1, <4>1, Finite, PoolCounts, ConstantFacts
    <3> QED
      BY <3>2, WellFormedFacts
  <2> QED
    BY <1>1, <1>2, <2>1, <2>2, SealCheck
<1>5. Checked'
  BY <1>1, <1>4 DEF IInv, Checked
<1> QED
  BY <1>1, <1>5, WritingInv

(* The last word of an image: the image is sealed, the next one begun.      *)
LEMMA ImageCommittedInv ==
  ASSUME IInv, TickImageCommitted
  PROVE  IInv'
<1> DEFINE last == current = Len(images)
           succ == current + 1
<1>1. /\ UNCHANGED <<images, config, generation, runVars, route, reassembly, outstanding, answered,
                     inbound, loading, issue, traffic>>
      /\ stage = "commit" /\ stage' = "chip" /\ current' = succ
      /\ CommitWords /\ ImageWritten /\ Seal(current)
      /\ fault' = (IF ~InSequence THEN "exception" ELSE fault) /\ Sealable(current)
  BY DEF TickImageCommitted, Ticking, progVars, Throw
<1>2. \/ /\ last /\ state' = "AllCommitted"
         /\ UNCHANGED <<unrequested, routed, offset, accepted, cooldown>>
      \/ /\ ~last /\ state' = "LoadQueue" /\ unrequested' = Vectors(images[succ])
         /\ routed' = 0 /\ offset' = 0 /\ accepted' = 0 /\ cooldown' = 0
  BY DEF TickImageCommitted, BeginQueue
<1>3. Loading
  BY <1>1 DEF IInv, Phases, Loading
<1>4. /\ current \in DOMAIN images /\ current \in Nat \ {0} /\ DOMAIN images = 1 .. Len(images)
      /\ Len(images) \in Nat /\ images \in Seq(Image) /\ config.route \in Nat \ {0}
      /\ config.commit \in Nat
  BY <1>3, Types DEF IInv
<1>5. /\ commits' = <<>> /\ reassembly = <<>> /\ inbound = <<>> /\ unrequested = 0 /\ outstanding = 0
      /\ DOMAIN route = 1 .. config.route /\ \A s \in DOMAIN route : route[s] = <<>>
  BY <1>1, <1>3, NothingLeft
<1>6. /\ Len(Written) = images[current].words
      /\ \A a \in 1 .. Len(Written) : Written[a] = WordOf(current, a)
      /\ rams' \in Seq(Seq(Seq(Bytes))) /\ DOMAIN rams' = DOMAIN images /\ rams'[current] = Written
      /\ \A i \in DOMAIN images : i # current => rams'[i] = rams[i]
  BY <1>1, <1>3, WrittenFacts DEF ImageWritten
<1>7. fault' = fault
  BY <1>1, <1>3, WrittenFacts
<1>8. Loading' <=> ~last
  BY <1>2 DEF Loading
<1>9. ~last => succ \in DOMAIN images
  BY <1>4
<1>10. Bytes' = Bytes /\ \A i, a : WordOf(i, a)' = WordOf(i, a)
  BY <1>1 DEF Bytes, WordOf
<1>11. /\ sealed' = sealed \cup {current}
       /\ barriers' = (IF images[current].store = "Barr" THEN current ELSE barriers)
       /\ computing' \in BOOLEAN
  <2>1. images[current].words \in Nat /\ computing \in BOOLEAN
    BY <1>3, PartFacts DEF Part, IInv, TypeOK
  <2> QED
    BY <1>1, <2>1 DEF Seal
<1>12. TypeOK'
  <2>1. state' \in States
    BY <1>2 DEF States
  <2>2. unrequested' \in Nat
    <3>1. CASE last
      BY <1>2, <1>5, <3>1
    <3>2. CASE ~last
      <4>1. images[succ] \in Image
        BY <1>4, <1>9, <3>2, ElementOfSeq
      <4> QED
        BY <1>2, <3>2, <4>1, ImageTypes
    <3> QED
      BY <3>1, <3>2
  <2>3. {routed', offset', accepted', cooldown'} \subseteq Nat
    <3>1. routed \in Nat /\ offset \in Nat /\ accepted \in Nat /\ cooldown \in Nat
      BY Types DEF IInv
    <3> QED
      BY <1>2, <3>1
  <2>4. sealed' \subseteq DOMAIN images' /\ barriers' \in {0} \cup DOMAIN images'
    BY <1>1, <1>4, <1>11 DEF IInv, TypeOK
  <2>5. commits' \in Seq([address : Nat, bytes : Seq(Bytes'), wait : 0 .. config'.commit])
    BY <1>5, EmptyTypes
  <2>6. current' \in Nat \ {0} /\ (Loading' => current' \in DOMAIN images')
    BY <1>1, <1>4, <1>8, <1>9
  <2>7. stage' \in {"runtime", "start", "prime", "commit", "accept", "route", "dma", "chip"}
    BY <1>1
  <2>8. {startRequested', dependencies', kernelDone', loading', issue', computing', traffic'} \subseteq BOOLEAN
    BY <1>1, <1>11 DEF IInv, TypeOK, runVars
  <2>9. rams' \in Seq(Seq(Seq(Bytes'))) /\ DOMAIN rams' = DOMAIN images'
    BY <1>1, <1>6, <1>10
  <2>10. {unrequested', outstanding'} \subseteq Nat /\ answered' \in 0 .. outstanding'
    BY <1>1, <2>2 DEF IInv, TypeOK
  <2>11. /\ route' \in Seq(Seq(Bytes')) /\ reassembly' \in Seq(Bytes') /\ inbound' \in Seq(Bytes')
         /\ config' \in Configs /\ generation' \in 0 .. MaxGeneration /\ images' \in Seq(Image)
         /\ fault' \in {"none", "exception"}
    BY <1>1, <1>7, <1>10 DEF IInv, TypeOK
  <2> QED
    BY <2>1, <2>3, <2>4, <2>5, <2>6, <2>7, <2>8, <2>9, <2>10, <2>11 DEF TypeOK
<1>13. Phases'
  <2>1. ~Loading' => current' > Len(images')
    BY <1>1, <1>4, <1>8
  <2> QED
    BY <1>1, <1>3, <2>1 DEF IInv, Phases
<1>14. InOrder(images)'
  BY <1>1 DEF IInv, InOrder
<1>15. Filled'
  <2>1. \A i \in DOMAIN images :
          /\ \A a \in 1 .. Len(rams'[i]) : rams'[i][a] = WordOf(i, a)
          /\ i < succ => Len(rams'[i]) = images[i].words
          /\ i > succ => rams'[i] = <<>>
    <3> SUFFICES ASSUME NEW i \in DOMAIN images
                 PROVE  /\ \A a \in 1 .. Len(rams'[i]) : rams'[i][a] = WordOf(i, a)
                        /\ i < succ => Len(rams'[i]) = images[i].words
                        /\ i > succ => rams'[i] = <<>>
      OBVIOUS
    <3>1. CASE i = current
      <4>1. ~(i > succ)
        BY <1>4, <3>1
      <4> QED
        BY <1>6, <3>1, <4>1
    <3>2. CASE i # current
      <4>1. rams'[i] = rams[i]
        BY <1>6, <3>2
      <4>2. (i < succ => i < current) /\ (i > succ => i > current)
        BY <1>4, <3>2
      <4>3. /\ \A a \in 1 .. Len(rams[i]) : rams[i][a] = WordOf(i, a)
            /\ i < current => Len(rams[i]) = images[i].words
            /\ i > current => rams[i] = <<>>
        BY DEF IInv, Filled
      <4> QED
        BY <4>1, <4>2, <4>3
    <3> QED
      BY <3>1, <3>2
  <2>2. sealed' = {i \in DOMAIN images : i < succ}
    <3>1. sealed = {i \in DOMAIN images : i < current}
      BY DEF IInv, Filled
    <3>2. \A i \in DOMAIN images : i < succ <=> i < current \/ i = current
      BY <1>4
    <3> QED
      BY <1>4, <1>11, <3>1, <3>2
  <2>3. \A j \in sealed' : images[j].store = "Barr" => barriers' = j
    <3>1. \A j \in sealed : images[j].store = "Barr" => barriers = j
      BY DEF IInv, Filled
    <3>2. \A i, j \in DOMAIN images : images[i].store = "Barr" /\ images[j].store = "Barr" => i = j
      BY DEF IInv, InOrder
    <3>3. sealed \subseteq DOMAIN images
      BY DEF IInv, Filled
    <3> QED
      BY <1>4, <1>11, <3>1, <3>2, <3>3
  <2> QED
    BY <1>1, <1>10, <2>1, <2>2, <2>3 DEF Filled
<1>16. Accepted' /\ Carried' /\ Fed'
  <2>1. CASE last
    BY <1>8, <2>1 DEF Accepted, Carried, Fed
  <2>2. CASE ~last
    <3>1. rams'[succ] = <<>>
      <4>1. succ \in DOMAIN images /\ succ # current /\ succ > current
        BY <1>4, <1>9, <2>2
      <4>2. rams[succ] = <<>>
        BY <4>1 DEF IInv, Filled
      <4> QED
        BY <1>6, <4>1, <4>2
    <3>2. /\ unrequested' = Vectors(images[succ]) /\ routed' = 0 /\ offset' = 0 /\ accepted' = 0
      BY <1>2, <2>2
    <3> QED
      BY <1>1, <1>4, <1>5, <1>9, <2>2, <3>1, <3>2, FreshInv
  <2> QED
    BY <2>1, <2>2
<1>17. Bounded'
  <2>1. outstanding' + Len(inbound') <= FifoDepth
    BY <1>1 DEF IInv, Bounded
  <2>2. Len(reassembly') <= ReassemblyBytes
    BY <1>1 DEF IInv, Bounded
  <2>3. Len(commits') <= config'.commit + 1
    BY <1>1, <1>4, <1>5, EmptyTypes
  <2>4. ~Loading' => unrequested' = 0
    BY <1>2, <1>5, <1>8
  <2>5. outstanding' = 0 /\ inbound' = <<>> /\ reassembly' = <<>> /\ commits' = <<>>
        /\ \A s \in DOMAIN route' : route'[s] = <<>>
    BY <1>1, <1>5
  <2> QED
    BY <2>1, <2>2, <2>3, <2>4, <2>5 DEF Bounded, Drained, DmaIdle
<1>18. Checked'
  <2>1. /\ Sound(images, current)
        /\ images[current].store = "Qctl" =>
             Cardinality(PoolEntries(images, sealed \cup {current})) <= PoolCapacity
    BY <1>1, <1>3, SealCheck
  <2>2. \A i \in sealed' : Sound(images, i)
    BY <1>11, <2>1 DEF IInv, Checked
  <2>3. Cardinality(PoolEntries(images, sealed')) <= PoolCapacity
    <3>1. CASE images[current].store = "Qctl"
      BY <1>11, <2>1, <3>1
    <3>2. CASE images[current].store # "Qctl"
      <4>1. PoolEntries(images, sealed') = PoolEntries(images, sealed)
        BY <1>11, <3>2 DEF PoolEntries
      <4> QED
        BY <4>1 DEF IInv, Checked
    <3> QED
      BY <3>1, <3>2
  <2> QED
    BY <1>1, <1>7, <2>2, <2>3 DEF IInv, Checked
<1> QED
  BY <1>12, <1>13, <1>14, <1>15, <1>16, <1>17, <1>18 DEF IInv

LEMMA NextInv == IInv /\ [Next]_vars => IInv'
<1> SUFFICES ASSUME IInv, [Next]_vars PROVE IInv'
  OBVIOUS
<1>1. ASSUME NEW c \in Configs, Configure(c) PROVE IInv'
  BY <1>1, ConfigureInv
<1>2. ASSUME NEW p \in Programs, Submit(p) PROVE IInv'
  BY <1>2, SubmitInv
<1>3. CASE RequestStart \/ \E b \in BOOLEAN : SetDependenciesReady(b)
  BY <1>3, RequestInv
<1>4. CASE BeginCycle \/ TickReady \/ \E b \in BOOLEAN : TickPrime(b)
  BY <1>4, StateStepInv
<1>5. CASE TickCommit
  BY <1>5, CommitInv
<1>6. CASE TickImageCommitted
  BY <1>6, ImageCommittedInv
<1>7. CASE TickAccept
  BY <1>7, AcceptInv
<1>8. CASE TickRoute
  BY <1>8, RouteInv
<1>9. ASSUME NEW b \in BOOLEAN, TickDma(b) PROVE IInv'
  BY <1>9, DmaInv
<1>10. ASSUME NEW d \in BOOLEAN, NEW o \in BOOLEAN, NEW n \in 0 .. FifoDepth, TickSystem(d, o, n)
       PROVE  IInv'
  BY <1>10, SystemInv
<1>11. CASE ResetExecutionState
  BY <1>11, ResetInv
<1>12. CASE TickSealFails
  BY <1>12, SealFailsInv
<1>13. CASE UNCHANGED vars
  <2>1. UNCHANGED <<partVars, fault, config, generation, runVars, icuVars, state, stage, commits,
                    answered, cooldown, traffic>>
    BY <1>13 DEF vars, partVars, progVars, feedVars, wordVars, dmaVars
  <2>2. TypeOK' /\ Phases' /\ (Loading' <=> Loading)
    BY <2>1 DEF IInv, TypeOK, Phases, Loading, Bytes, partVars, runVars, icuVars, ramVars, feedVars
  <2> QED
    BY <2>1, <2>2, QuietInv DEF SameWords
<1> QED
  BY <1>1, <1>2, <1>3, <1>4, <1>5, <1>6, <1>7, <1>8, <1>9, <1>10, <1>11, <1>12, <1>13 DEF Next, Cycle

(* The inductive invariant: at any time the bytes of the image being loaded *)
(* lie without a gap along the store, the commit queue, the reassembly      *)
(* buffer, the stages of the bus and the FIFO.                              *)
THEOREM Invariance == Spec => []IInv
<1>1. Init => IInv
  BY InitInv
<1>2. IInv /\ [Next]_vars => IInv'
  BY NextInv
<1> QED
  BY <1>1, <1>2, PTL DEF Spec

(* Every value the loader, its DMA and the ICU hold is one of its kind.     *)
THEOREM TypeCorrect == Spec => []TypeOK
<1>1. IInv => TypeOK
  BY DEF IInv
<1> QED
  BY <1>1, Invariance, PTL

(* Of the programs that submit() accepts, tick() throws for those that are  *)
(* not well-formed, and for no other: not for the order of the images, not  *)
(* for the arrival of their words, not for what was loaded before.  And     *)
(* none of them ever gets ready, or is started.                             *)
THEOREM FailsOnlyMalformed == Spec => []FailsIffMalformed
<1>1. IInv => FailsIffMalformed
  <2> SUFFICES ASSUME IInv PROVE FailsIffMalformed
    OBVIOUS
  <2>1. fault # "none" => ~WellFormed(images)
    BY DEF IInv, Checked
  <2>2. ASSUME state \in {"AllCommitted", "Prime", "Ready"} \/ Started
        PROVE  WellFormed(images)
    <3>1. ~Loading
      BY <2>2 DEF Loading, Started
    <3>2. /\ sealed = {i \in DOMAIN images : i < current} /\ current > Len(images)
          /\ current \in Nat /\ DOMAIN images = 1 .. Len(images) /\ Len(images) \in Nat
      BY <3>1, Types DEF IInv, Phases, Filled
    <3>3. sealed = DOMAIN images
      BY <3>2
    <3> QED
      BY <3>3, WellFormedFacts DEF IInv, Checked
  <2> QED
    BY <2>1, <2>2 DEF FailsIffMalformed
<1> QED
  BY <1>1, Invariance, PTL

(* All that is between DDR and the stores is of the image being loaded.     *)
LEMMA InFlight ==
  ASSUME IInv
  PROVE  OneImageInFlight
<1>1. /\ outstanding + Len(inbound) <= FifoDepth /\ Len(reassembly) <= ReassemblyBytes
      /\ Len(commits) <= config.commit + 1
      /\ ~Loading => /\ Drained /\ reassembly = <<>> /\ commits = <<>>
                     /\ \A s \in DOMAIN route : route[s] = <<>>
  BY DEF IInv, Bounded
<1>2. /\ DOMAIN inbound = 1 .. Len(inbound) /\ DOMAIN reassembly = 1 .. Len(reassembly)
      /\ \A s \in DOMAIN route : DOMAIN route[s] = 1 .. Len(route[s])
  <2>1. inbound \in Seq(Bytes) /\ reassembly \in Seq(Bytes)
    BY DEF IInv, TypeOK
  <2>2. \A s \in DOMAIN route : route[s] \in Seq(Bytes)
    BY Types DEF IInv
  <2> QED
    BY <2>1, <2>2, LenProperties
<1>3. CASE Loading
  <2>1. \A k \in 1 .. Len(inbound) : inbound[k] = <<current, Taken + k>>
    BY <1>3 DEF IInv, Fed
  <2>2. /\ DOMAIN route = 1 .. config.route
        /\ \A b \in 1 .. Len(reassembly) : reassembly[b] = <<current, accepted * Part.width + b>>
    BY <1>3 DEF IInv, Carried
  <2>3. PICK base : Carries(base)
    BY <1>3 DEF IInv, Carried
  <2>4. \A s \in 1 .. config.route : \A b \in 1 .. Len(route[s]) :
          route[s][b] = <<current, base[s] + b>>
    BY <2>3 DEF Carries
  <2>5. OnlyCurrent(inbound) /\ OnlyCurrent(reassembly)
    BY <1>2, <2>1, <2>2 DEF OnlyCurrent
  <2>6. \A s \in DOMAIN route : OnlyCurrent(route[s])
    BY <1>2, <2>2, <2>4 DEF OnlyCurrent
  <2> QED
    BY <1>1, <1>3, <2>5, <2>6 DEF OneImageInFlight
<1>4. CASE ~Loading
  <2>1. inbound = <<>> /\ reassembly = <<>> /\ \A s \in DOMAIN route : route[s] = <<>>
    BY <1>1, <1>4 DEF Drained
  <2>2. OnlyCurrent(<<>>)
    BY DEF OnlyCurrent
  <2>3. OnlyCurrent(inbound) /\ OnlyCurrent(reassembly) /\ \A s \in DOMAIN route : OnlyCurrent(route[s])
    BY <2>1, <2>2
  <2> QED
    BY <1>1, <2>3 DEF OneImageInFlight
<1> QED
  BY <1>3, <1>4

(* No store gets more words than its image has.                             *)
LEMMA NotTooMany ==
  ASSUME IInv, Loading
  PROVE  Len(rams[current]) <= images[current].words
<1> DEFINE N == Part.words
           W == Part.width
           A == accepted
           L == config.route
           R == Len(reassembly)
           r == Len(rams[current])
           K == Len(commits)
<1>1. /\ N \in Nat /\ W \in Nat \ {0} /\ Size = N * W /\ A \in Nat /\ L \in Nat \ {0} /\ R \in Nat
      /\ r \in Nat /\ K \in Nat /\ routed \in Nat /\ Size \in Nat
  BY PartFacts, Types DEF IInv
<1>2. A = r + K /\ routed <= Size
  BY DEF IInv, Accepted, Fed
<1>3. A * W + R <= routed
  <2>1. PICK base \in [0 .. L -> 0 .. routed] : Carries(base)
    BY DEF IInv, Carried
  <2>2. base[L] = A * W + R
    BY <2>1 DEF Carries
  <2>3. L \in 0 .. L
    BY <1>1
  <2>4. base[L] <= routed
    BY <1>1, <2>1, <2>3
  <2> QED
    BY <2>2, <2>4
<1>4. A <= N
  <2> SUFFICES ASSUME ~(A <= N) PROVE FALSE
    OBVIOUS
  <2>1. N + 1 <= A /\ N + 1 \in Nat
    BY <1>1
  <2>2. (N + 1) * W <= A * W /\ (N + 1) * W = N * W + W /\ A * W \in Nat /\ N * W \in Nat
    BY <1>1, <2>1, Mul
  <2> DEFINE x == N * W
             y == A * W
  <2>3. x + W <= y /\ y + R <= routed /\ routed <= x /\ x \in Nat /\ y \in Nat
    BY <1>1, <1>2, <1>3, <2>2
  <2> HIDE DEF x, y
  <2> QED
    BY <1>1, <2>3
<1>5. r <= N
  <2> HIDE DEF r, K, N, A
  <2> QED
    BY <1>1, <1>2, <1>4
<1> QED
  BY <1>5 DEF Part

(* Each store gets the words of its own image, whole and in order, and      *)
(* nothing is primed or issued before all images are sealed.                *)
THEOREM StoresIntact == Spec => []ImagesIntact
<1>1. IInv => ImagesIntact
  <2> SUFFICES ASSUME IInv PROVE ImagesIntact
    OBVIOUS
  <2>1. /\ current \in Nat /\ DOMAIN images = 1 .. Len(images) /\ Len(images) \in Nat
        /\ images \in Seq(Image)
    BY Types DEF IInv
  <2>2. sealed = {i \in DOMAIN images : i < current}
    BY DEF IInv, Filled
  <2>3. ~Loading => current > Len(images)
    BY DEF IInv, Phases
  <2>4. ASSUME NEW i \in DOMAIN images
        PROVE  /\ Len(rams[i]) <= images[i].words
               /\ \A a \in 1 .. Len(rams[i]) : rams[i][a] = WordOf(i, a)
               /\ i \in sealed => Len(rams[i]) = images[i].words
    <3>1. /\ \A a \in 1 .. Len(rams[i]) : rams[i][a] = WordOf(i, a)
          /\ i < current => Len(rams[i]) = images[i].words
          /\ i > current => rams[i] = <<>>
      BY DEF IInv, Filled
    <3>2. images[i].words \in Nat
      <4>1. images[i] \in Image
        BY <2>1, ElementOfSeq
      <4> QED
        BY <4>1, ImageTypes
    <3>3. CASE i < current
      BY <3>1, <3>2, <3>3
    <3>4. CASE i > current
      <4>1. Len(rams[i]) = 0 /\ i \notin sealed
        BY <2>1, <2>2, <3>1, <3>4, EmptyTypes
      <4> QED
        BY <3>1, <3>2, <4>1
    <3>5. CASE i = current
      <4>1. Loading /\ i \notin sealed
        BY <2>1, <2>2, <2>3, <3>5
      <4> QED
        BY <3>1, <3>5, <4>1, NotTooMany
    <3> QED
      BY <2>1, <3>3, <3>4, <3>5
  <2>5. ASSUME state \in {"AllCommitted", "Prime", "Ready"} \/ Started \/ (issue /\ ~loading)
        PROVE  sealed = DOMAIN images
    <3>1. ~Loading
      BY <2>5 DEF Loading, Started, IInv, Phases
    <3> QED
      BY <2>1, <2>2, <2>3, <3>1
  <2> QED
    BY <2>4, <2>5, InFlight DEF ImagesIntact
<1> QED
  BY <1>1, Invariance, PTL
=============================================================================
