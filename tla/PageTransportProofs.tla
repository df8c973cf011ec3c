------------------------ MODULE PageTransportProofs ------------------------
(***************************************************************************)
(* Proofs about PageTransport, for every geometry, every number of banks   *)
(* and lanes, and every set of programs that observes what a schedule must *)
(* (Scheduled): each vector meets its Write, the commit scoreboard is      *)
(* exact, and Reads see their pages.                                       *)
(*                                                                         *)
(* The state is a function of two things: T, the vectors taken from DDR,   *)
(* and A, how many cycles ago each was.  The age of a vector says where its*)
(* segments are, in the receiver's pipelines (Piped), in a stream register *)
(* (Flying) or in SRAM (Written), and whether its token is still in the    *)
(* queue (Stored) or its Write has been sent (Sent).  PageInv says so of   *)
(* every variable; the parts below show for each of them that a step keeps *)
(* it, the queue's cycle (Tick) being the longest: it sends the Write of a *)
(* vector exactly in the cycle in which the age of its token is due.       *)
(***************************************************************************)
EXTENDS PageTransport, FiniteSetTheorems, SequenceTheorems, WellFoundedInduction, TLAPS

----------------------------------------------------------------------------
(* What a schedule makes of its packets.  c: with or without barriers.      *)

Prog(c, q)    == Programs[c][q[1]][q[2]]
Wordings(c, q) == WordTable[c][q]

(* A vector of a packet: the packet and its number.                         *)
Items(c)     == UNION {{k} \X (1 .. Entry(c, k).count) : k \in PacketTable[c]}
Bank(x)      == BankOf(x[1])
Lag(c, x)    == Entry(c, x[1]).delay
Row(c, x)    == RowOf(Entry(c, x[1]), x[2])
Stream(c, x) == Entry(c, x[1]).stream
Launch(c, x) == Entry(c, x[1]).launch

TagOf(c, k)   == <<BankOf(k), Entry(c, k).tag>>
LaneOf(c, k)  == CHOOSE l \in Lanes : TagOf(c, k) \in TagsOf(l)
IndexOf(c, k) == CHOOSE i \in DOMAIN Receives[LaneOf(c, k)] :
                   <<Receives[LaneOf(c, k)][i].bank, Receives[LaneOf(c, k)][i].tag>> = TagOf(c, k)
Lane(c, x)    == LaneOf(c, x[1])
Vector(c, x)  == VectorsOf[TagOf(c, x[1])][x[2]]

LEMMA PacketFacts ==
  ASSUME Scheduled, NEW c \in BOOLEAN, NEW k \in PacketTable[c]
  PROVE  /\ k = <<k[1], k[2]>> /\ k[1] \in Queues /\ BankOf(k) \in Banks
         /\ k[2] \in DOMAIN Prog(c, k[1]) /\ Entry(c, k) = Prog(c, k[1])[k[2]]
         /\ IsPacket(Entry(c, k))
         /\ Entry(c, k).count \in Nat \ {0} /\ Entry(c, k).reserve \in Nat \ {0}
         /\ Entry(c, k).delay \in Nat /\ Entry(c, k).delay < MaxAge
         /\ Entry(c, k).delay = Edge - Place[BankOf(k)] - 1
         /\ Entry(c, k).launch \in Launches
<1> DEFINE e == Entry(c, k)
<1>1. PacketTable[c] = UNION {{q} \X {i \in DOMAIN Programs[c][q[1]][q[2]] : IsPacket(Programs[c][q[1]][q[2]][i])}
                              : q \in Queues}
  BY DEF PacketTable
<1>2. PICK q \in Queues : k \in {q} \X {i \in DOMAIN Programs[c][q[1]][q[2]] : IsPacket(Programs[c][q[1]][q[2]][i])}
  BY <1>1
<1>3. k = <<k[1], k[2]>> /\ k[1] = q /\ k[2] \in DOMAIN Prog(c, q) /\ IsPacket(Prog(c, q)[k[2]])
  BY <1>2 DEF Prog
<1>4. BankOf(k) \in Banks
  BY <1>3 DEF BankOf, Queues
<1>5. e = Prog(c, q)[k[2]]
  BY <1>3 DEF Entry, Prog
<1>6. e.count \in Nat \ {0} /\ e.reserve \in Nat \ {0}
  <2>1. \A d \in ToSet(Prog(c, q)) : \/ IsPacket(d) /\ {d.count, d.reserve} \subseteq Nat \ {0}
                                     \/ d.op \in {"wait", "read"}
    BY DEF Scheduled, WellFormed, Prog
  <2>2. e \in ToSet(Prog(c, q))
    BY <1>3, <1>5 DEF ToSet
  <2> QED
    BY <1>3, <1>5, <2>1, <2>2 DEF IsPacket
<1>7. e.delay = Edge - Place[BankOf(k)] - 1 /\ e.delay < MaxAge
  BY DEF Scheduled, Timed
<1>8. e.delay \in Nat
  BY <1>4, <1>7, TransportAssumption
<1>9. e.launch \in Launches
  BY DEF Launches
<1> QED
  BY <1>3, <1>4, <1>5, <1>6, <1>7, <1>8, <1>9

LEMMA IsPacketOf ==
  ASSUME NEW c \in BOOLEAN, NEW q \in Queues, NEW i \in DOMAIN Prog(c, q), IsPacket(Prog(c, q)[i])
  PROVE  <<q, i>> \in PacketTable[c]
<1>1. PacketTable[c] = UNION {{p} \X {j \in DOMAIN Programs[c][p[1]][p[2]] : IsPacket(Programs[c][p[1]][p[2]][j])}
                              : p \in Queues}
  BY DEF PacketTable
<1> QED
  BY <1>1 DEF Prog

LEMMA ItemFacts ==
  ASSUME Scheduled, NEW c \in BOOLEAN, NEW x \in Items(c)
  PROVE  /\ x = <<x[1], x[2]>> /\ x[1] \in PacketTable[c] /\ x[2] \in 1 .. Entry(c, x[1]).count
         /\ x[2] \in Nat \ {0}
         /\ Bank(x) \in Banks /\ Lag(c, x) \in Nat /\ Lag(c, x) < MaxAge
         /\ Lag(c, x) = Edge - Place[Bank(x)] - 1
         /\ Row(c, x) \in Rows /\ Launch(c, x) \in Launches
<1>1. PICK k \in PacketTable[c] : x \in {k} \X (1 .. Entry(c, k).count)
  BY DEF Items
<1>2. x = <<x[1], x[2]>> /\ x[1] = k /\ x[2] \in 1 .. Entry(c, k).count
  BY <1>1
<1>3. Row(c, x) \in Rows
  <2>1. \A n \in 1 .. Entry(c, k).count : RowOf(Entry(c, k), n) \in Rows
    BY DEF Scheduled, RowsApart
  <2> QED
    BY <1>2, <2>1 DEF Row
<1> QED
  BY <1>2, <1>3, PacketFacts DEF Bank, Lag, Launch

LEMMA IsItem ==
  ASSUME NEW c \in BOOLEAN, NEW k \in PacketTable[c], NEW n \in 1 .. Entry(c, k).count
  PROVE  <<k, n>> \in Items(c)
BY DEF Items

(* A row of a bank belongs to one vector.                                   *)
LEMMA RowOnce ==
  ASSUME Scheduled, NEW c \in BOOLEAN, NEW x \in Items(c), NEW y \in Items(c),
         Bank(x) = Bank(y), Row(c, x) = Row(c, y)
  PROVE  x = y
<1>1. x = <<x[1], x[2]>> /\ x[1] \in PacketTable[c] /\ x[2] \in 1 .. Entry(c, x[1]).count
      /\ y = <<y[1], y[2]>> /\ y[1] \in PacketTable[c] /\ y[2] \in 1 .. Entry(c, y[1]).count
  BY ItemFacts
<1>2. \A m \in 1 .. Entry(c, x[1]).count, n \in 1 .. Entry(c, y[1]).count :
        RowOf(Entry(c, x[1]), m) = RowOf(Entry(c, y[1]), n) => x[1] = y[1] /\ m = n
  BY <1>1 DEF Scheduled, RowsApart, Bank
<1> QED
  BY <1>1, <1>2 DEF Row

LEMMA LaunchOnce ==
  ASSUME Scheduled, NEW c \in BOOLEAN, NEW j \in PacketTable[c], NEW k \in PacketTable[c],
         BankOf(j) = BankOf(k), Entry(c, j).launch = Entry(c, k).launch
  PROVE  j = k
BY DEF Scheduled, RowsApart

LEMMA TagOnce ==
  ASSUME Scheduled, NEW c \in BOOLEAN, NEW j \in PacketTable[c], NEW k \in PacketTable[c],
         BankOf(j) = BankOf(k), Entry(c, j).tag = Entry(c, k).tag
  PROVE  j = k
BY DEF Scheduled, ReceivesMatched

LEMMA StoreOnce ==
  ASSUME Scheduled, NEW c \in BOOLEAN, NEW j \in PacketTable[c], NEW k \in PacketTable[c],
         BankOf(j) = BankOf(k)
  PROVE  j[1] = k[1]
BY DEF Scheduled, WellFormed

LEMMA ReceiveType ==
  ASSUME Scheduled, NEW l \in Lanes
  PROVE  /\ Len(Receives[l]) \in Nat /\ DOMAIN Receives[l] = 1 .. Len(Receives[l])
         /\ \A i \in 1 .. Len(Receives[l]) : Receives[l][i].count \in Nat \ {0}
<1>1. Receives[l] \in Seq(ToSet(Receives[l]))
  BY DEF Scheduled, ReceivesMatched
<1>2. Len(Receives[l]) \in Nat /\ DOMAIN Receives[l] = 1 .. Len(Receives[l])
  BY <1>1
<1>3. ASSUME NEW i \in 1 .. Len(Receives[l]) PROVE Receives[l][i].count \in Nat \ {0}
  <2> DEFINE r == Receives[l][i]
  <2>1. r \in ToSet(Receives[l])
    BY <1>2 DEF ToSet
  <2> HIDE DEF r
  <2>2. PICK k \in PacketTable[TRUE] :
          LET e == Entry(TRUE, k)
          IN <<BankOf(k), e.tag, e.count, e.stream>> = <<r.bank, r.tag, r.count, r.stream>>
    BY <2>1 DEF Scheduled, ReceivesMatched
  <2>3. Entry(TRUE, k).count = r.count
    BY <2>2
  <2> QED
    BY <2>3, PacketFacts DEF r
<1> QED
  BY <1>2, <1>3

(* The Receive of a packet.                                                 *)
LEMMA LaneFacts ==
  ASSUME Scheduled, NEW c \in BOOLEAN, NEW k \in PacketTable[c]
  PROVE  /\ LaneOf(c, k) \in Lanes /\ IndexOf(c, k) \in 1 .. Len(Receives[LaneOf(c, k)])
         /\ LET r == Receives[LaneOf(c, k)][IndexOf(c, k)]
                e == Entry(c, k)
            IN r.bank = BankOf(k) /\ r.tag = e.tag /\ r.count = e.count /\ r.stream = e.stream
<1> DEFINE l == LaneOf(c, k)
           i == IndexOf(c, k)
           R == Receives[l]
           e == Entry(c, k)
<1>1. l \in Lanes /\ TagOf(c, k) \in TagsOf(l)
  <2>1. \E m \in Lanes : TagOf(c, k) \in TagsOf(m)
    BY DEF Scheduled, ReceivesMatched, TagOf
  <2> QED
    BY <2>1 DEF LaneOf
<1> HIDE DEF l
<1>2. Len(R) \in Nat /\ DOMAIN R = 1 .. Len(R)
  BY <1>1, ReceiveType
<1>3. \E j \in DOMAIN R : <<R[j].bank, R[j].tag>> = TagOf(c, k)
  <2>1. PICK r \in ToSet(R) : <<r.bank, r.tag>> = TagOf(c, k)
    BY <1>1 DEF TagsOf
  <2> QED
    BY <2>1 DEF ToSet
<1>4. i \in DOMAIN R /\ <<R[i].bank, R[i].tag>> = TagOf(c, k)
  <2>1. i = CHOOSE j \in DOMAIN R : <<R[j].bank, R[j].tag>> = TagOf(c, k)
    BY DEF IndexOf, l
  <2> HIDE DEF i
  <2> QED
    BY <1>3, <2>1
<1> HIDE DEF i
<1>5. R[i].bank = BankOf(k) /\ R[i].tag = e.tag
  BY <1>4 DEF TagOf
<1>6. R[i].count = e.count /\ R[i].stream = e.stream
  <2>1. R[i] \in ToSet(R)
    BY <1>4 DEF ToSet
  <2>2. PICK j \in PacketTable[c] :
          LET d == Entry(c, j)
          IN <<BankOf(j), d.tag, d.count, d.stream>> = <<R[i].bank, R[i].tag, R[i].count, R[i].stream>>
    BY <1>1, <2>1 DEF Scheduled, ReceivesMatched
  <2>3. BankOf(j) = R[i].bank /\ Entry(c, j).tag = R[i].tag /\ Entry(c, j).count = R[i].count
        /\ Entry(c, j).stream = R[i].stream
    BY <2>2
  <2>4. j = k
    BY <1>5, <2>3, TagOnce
  <2> QED
    BY <2>3, <2>4
<1> QED
  BY <1>1, <1>2, <1>4, <1>5, <1>6 DEF l, i

(* The packet of a Receive.                                                 *)
LEMMA ReceiveFacts ==
  ASSUME Scheduled, NEW c \in BOOLEAN, NEW l \in Lanes, NEW i \in 1 .. Len(Receives[l])
  PROVE  \E k \in PacketTable[c] : LaneOf(c, k) = l /\ IndexOf(c, k) = i
<1> DEFINE r == Receives[l][i]
<1>1. r \in ToSet(Receives[l])
  BY ReceiveType DEF ToSet
<1> HIDE DEF r
<1>2. PICK k \in PacketTable[c] :
        LET e == Entry(c, k)
        IN <<BankOf(k), e.tag, e.count, e.stream>> = <<r.bank, r.tag, r.count, r.stream>>
  BY <1>1 DEF Scheduled, ReceivesMatched
<1> DEFINE m == LaneOf(c, k)
           j == IndexOf(c, k)
<1>3. m \in Lanes /\ j \in 1 .. Len(Receives[m])
      /\ Receives[m][j].bank = BankOf(k) /\ Receives[m][j].tag = Entry(c, k).tag
  BY LaneFacts
<1> HIDE DEF m, j
<1>4. j \in DOMAIN Receives[m] /\ i \in DOMAIN Receives[l]
  BY <1>3, ReceiveType
<1>5. Receives[l][i].bank = Receives[m][j].bank /\ Receives[l][i].tag = Receives[m][j].tag
  BY <1>2, <1>3 DEF r
<1>6. l = m /\ i = j
  BY <1>3, <1>4, <1>5 DEF Scheduled, ReceivesMatched
<1> QED
  BY <1>6 DEF m, j

LEMMA PacketOfReceive ==
  ASSUME Scheduled, NEW c \in BOOLEAN, NEW j \in PacketTable[c], NEW k \in PacketTable[c],
         LaneOf(c, j) = LaneOf(c, k), IndexOf(c, j) = IndexOf(c, k)
  PROVE  j = k
<1>1. BankOf(j) = BankOf(k) /\ Entry(c, j).tag = Entry(c, k).tag
  BY LaneFacts
<1> QED
  BY <1>1, TagOnce

(* Vectors with one stream come by one lane.                                *)
LEMMA StreamOnce ==
  ASSUME Scheduled, NEW c \in BOOLEAN, NEW x \in Items(c), NEW y \in Items(c),
         Stream(c, x) = Stream(c, y)
  PROVE  Lane(c, x) = Lane(c, y)
<1> DEFINE l == Lane(c, x)
           m == Lane(c, y)
           i == IndexOf(c, x[1])
           j == IndexOf(c, y[1])
<1>1. x[1] \in PacketTable[c] /\ y[1] \in PacketTable[c]
  BY ItemFacts
<1>2. l \in Lanes /\ m \in Lanes /\ i \in 1 .. Len(Receives[l]) /\ j \in 1 .. Len(Receives[m])
      /\ Receives[l][i].stream = Stream(c, x) /\ Receives[m][j].stream = Stream(c, y)
  BY <1>1, LaneFacts DEF Lane, Stream
<1> HIDE DEF l, m, i, j
<1>3. i \in DOMAIN Receives[l] /\ j \in DOMAIN Receives[m]
  BY <1>2, ReceiveType
<1>4. l = m
  BY <1>2, <1>3 DEF Scheduled, ReceivesMatched
<1> QED
  BY <1>4 DEF l, m

(* The vector of an item, by its lane's count.                              *)
LEMMA VectorFacts ==
  ASSUME Scheduled, NEW c \in BOOLEAN, NEW x \in Items(c)
  PROVE  Vector(c, x) = <<Lane(c, x), VectorsBefore(Lane(c, x), IndexOf(c, x[1])) + x[2]>>
<1> DEFINE k == x[1]
           t == TagOf(c, k)
           l == LaneOf(c, k)
           i == IndexOf(c, k)
<1>1. k \in PacketTable[c] /\ x[2] \in 1 .. Entry(c, k).count
  BY ItemFacts
<1>2. l \in Lanes /\ i \in 1 .. Len(Receives[l]) /\ Receives[l][i].count = Entry(c, k).count
      /\ <<Receives[l][i].bank, Receives[l][i].tag>> = t
  BY <1>1, LaneFacts DEF TagOf
<1>3. t \in TagsOf(l)
  <2>1. Receives[l][i] \in ToSet(Receives[l])
    BY <1>2, ReceiveType DEF ToSet
  <2> HIDE DEF l, i, t
  <2> QED
    BY <1>2, <2>1 DEF TagsOf
<1>4. l = CHOOSE m \in Lanes : t \in TagsOf(m)
  BY DEF LaneOf
<1>5. i = CHOOSE j \in DOMAIN Receives[l] : <<Receives[l][j].bank, Receives[l][j].tag>> = t
  BY DEF IndexOf
<1> HIDE DEF l, i, t
<1>6. VectorsOf[t] = [n \in 1 .. Receives[l][i].count |-> <<l, VectorsBefore(l, i) + n>>]
  <2>1. t \in UNION {TagsOf(m) : m \in Lanes}
    BY <1>2, <1>3
  <2> QED
    BY <1>4, <1>5, <2>1 DEF VectorsOf
<1>7. VectorsOf[t][x[2]] = <<l, VectorsBefore(l, i) + x[2]>>
  BY <1>1, <1>2, <1>6
<1> QED
  BY <1>7 DEF t, l, i, Vector, Lane

----------------------------------------------------------------------------
(* The words of a program.                                                  *)

(* A set of numbers has a least one.                                        *)
LEMMA Minimum ==
  ASSUME NEW T, T \subseteq Nat, T # {}
  PROVE  \E x \in T : \A y \in T : x <= y
<1>1. IsWellFoundedOn(OpToRel(<, Nat), Nat)
  BY NatLessThanWellFounded
<1>2. PICK x \in T : \A y \in T : ~ (<<y, x>> \in OpToRel(<, Nat))
  BY <1>1, WFMin
<1>3. \A y \in T : ~(y < x)
  BY <1>2 DEF OpToRel
<1> QED
  BY <1>3

LEMMA ProgramType ==
  ASSUME Scheduled, NEW c \in BOOLEAN, NEW q \in Queues
  PROVE  /\ Len(Prog(c, q)) \in Nat /\ DOMAIN Prog(c, q) = 1 .. Len(Prog(c, q))
         /\ \A i \in 1 .. Len(Prog(c, q)) :
              LET e == Prog(c, q)[i]
              IN \/ IsPacket(e) /\ e.count \in Nat \ {0} /\ e.reserve \in Nat \ {0}
                 \/ q[1] = "native" /\ e.op \in {"wait", "read"} /\ ~IsPacket(e)
<1> DEFINE p == Prog(c, q)
<1>1. p \in Seq(ToSet(p)) /\ \A e \in ToSet(p) :
        \/ IsPacket(e) /\ {e.count, e.reserve} \subseteq Nat \ {0} /\ e.row \in Nat /\ e.stride \in Int
        \/ q[1] = "native" /\ e.op \in {"wait", "read"}
  BY DEF Scheduled, WellFormed, Prog
<1>2. Len(p) \in Nat /\ DOMAIN p = 1 .. Len(p)
  BY <1>1
<1>3. \A i \in 1 .. Len(p) : p[i] \in ToSet(p)
  BY <1>2 DEF ToSet
<1> HIDE DEF p
<1>4. \A i \in 1 .. Len(p) : \/ IsPacket(p[i]) /\ p[i].count \in Nat \ {0} /\ p[i].reserve \in Nat \ {0}
                             \/ q[1] = "native" /\ p[i].op \in {"wait", "read"} /\ ~IsPacket(p[i])
  BY <1>1, <1>3 DEF IsPacket
<1> QED
  BY <1>2, <1>4 DEF p

LEMMA BeginFacts ==
  ASSUME NEW p, NEW i \in Nat \ {0}
  PROVE  /\ Begin(p, i) \in Nat
         /\ i = 1 => Begin(p, i) = 0
         /\ Begin(p, i + 1) = Begin(p, i) + (IF IsPacket(p[i]) THEN 2 ELSE 1)
         /\ \A j \in Nat : j >= i => Begin(p, j) >= Begin(p, i)
<1> DEFINE S(j) == {m \in 1 .. j - 1 : IsPacket(p[m])}
<1>1. \A j \in Nat : IsFiniteSet(S(j)) /\ Cardinality(S(j)) \in Nat
  <2> TAKE j \in Nat
  <2>1. IsFiniteSet(1 .. j - 1)
    BY FS_Interval
  <2>2. IsFiniteSet(S(j))
    BY <2>1, FS_Subset
  <2> QED
    BY <2>2, FS_CardinalityType
<1>2. \A j \in Nat : Begin(p, j) = (j - 1) + Cardinality(S(j))
  BY DEF Begin
<1>3. i = 1 => Cardinality(S(i)) = 0
  <2>1. i = 1 => S(i) = {}
    OBVIOUS
  <2> HIDE DEF S
  <2> QED
    BY <2>1, FS_EmptySet
<1>4. Cardinality(S(i + 1)) = Cardinality(S(i)) + (IF IsPacket(p[i]) THEN 1 ELSE 0)
  <2>1. CASE IsPacket(p[i])
    <3>1. S(i + 1) = S(i) \cup {i} /\ i \notin S(i)
      BY <2>1
    <3> HIDE DEF S
    <3> QED
      BY <1>1, <2>1, <3>1, FS_AddElement
  <2>2. CASE ~IsPacket(p[i])
    <3>1. S(i + 1) = S(i)
      BY <2>2
    <3> HIDE DEF S
    <3> QED
      BY <1>1, <2>2, <3>1
  <2> QED
    BY <2>1, <2>2
<1>5. \A j \in Nat : j >= i => Cardinality(S(i)) <= Cardinality(S(j))
  <2> TAKE j \in Nat
  <2> HAVE j >= i
  <2>1. S(i) \subseteq S(j)
    OBVIOUS
  <2> HIDE DEF S
  <2> QED
    BY <1>1, <2>1, FS_Subset
<1> HIDE DEF S
<1>6. i + 1 \in Nat /\ (i + 1) - 1 = i
  OBVIOUS
<1>7. Begin(p, i + 1) = i + Cardinality(S(i + 1)) /\ Begin(p, i) = (i - 1) + Cardinality(S(i))
      /\ Cardinality(S(i)) \in Nat
  BY <1>1, <1>2, <1>6
<1>8. \A j \in Nat : j >= i => Begin(p, j) >= Begin(p, i)
  BY <1>1, <1>2, <1>5
<1> QED
  BY <1>3, <1>4, <1>7, <1>8

LEMMA WordsFacts ==
  ASSUME Scheduled, NEW c \in BOOLEAN, NEW q \in Queues
  PROVE  LET W == Wordings(c, q)
             p == Prog(c, q)
         IN /\ W \in Seq(Nat) /\ Len(W) \in Nat /\ Len(W) = Begin(p, Len(p) + 1)
            /\ \A i \in 1 .. Len(p) :
                 /\ Begin(p, i) < Len(W) /\ W[Begin(p, i) + 1] = i
                 /\ IsPacket(p[i]) => Begin(p, i) + 2 <= Len(W)
<1> DEFINE p == Prog(c, q)
           W == Wordings(c, q)
           n == Len(p)
<1>1. n \in Nat /\ DOMAIN p = 1 .. n
  BY ProgramType
<1>2. W = [w \in 1 .. Begin(p, n + 1) |-> CHOOSE i \in DOMAIN p : Begin(p, i) < w /\ w <= Begin(p, i + 1)]
  BY DEF Wordings, WordTable, WordsOf, Prog
<1> HIDE DEF p, W, n
<1>3. Begin(p, n + 1) \in Nat
  BY <1>1, BeginFacts
<1>4. \A i \in 1 .. n : /\ Begin(p, i) \in Nat
                        /\ Begin(p, i + 1) = Begin(p, i) + (IF IsPacket(p[i]) THEN 2 ELSE 1)
                        /\ Begin(p, i + 1) <= Begin(p, n + 1)
  <2> TAKE i \in 1 .. n
  <2>1. i \in Nat \ {0} /\ i + 1 \in Nat \ {0} /\ n + 1 \in Nat /\ n + 1 >= i + 1
    BY <1>1
  <2>2. Begin(p, i) \in Nat /\ Begin(p, i + 1) = Begin(p, i) + (IF IsPacket(p[i]) THEN 2 ELSE 1)
    BY <2>1, BeginFacts
  <2>3. Begin(p, n + 1) >= Begin(p, i + 1) /\ Begin(p, i + 1) \in Nat
    BY <2>1, BeginFacts
  <2> QED
    BY <1>3, <2>2, <2>3
<1>5. \A w \in 1 .. Begin(p, n + 1) : \E i \in 1 .. n : Begin(p, i) < w /\ w <= Begin(p, i + 1)
  <2> TAKE w \in 1 .. Begin(p, n + 1)
  <2> DEFINE T == {m \in 1 .. n + 1 : w <= Begin(p, m)}
  <2>1. w \in Nat \ {0} /\ n + 1 \in T /\ T \subseteq Nat
    BY <1>1, <1>3
  <2>2. PICK m \in T : \A y \in T : m <= y
    <3> HIDE DEF T
    <3> QED
      BY <2>1, Minimum
  <2>3. m \in 1 .. n + 1 /\ w <= Begin(p, m)
    BY <2>2
  <2>4. m # 1
    BY <2>1, <2>3, BeginFacts
  <2>5. m - 1 \in 1 .. n /\ (m - 1) + 1 = m
    BY <1>1, <2>3, <2>4
  <2>6. m - 1 \notin T
    BY <2>2, <2>3
  <2>7. ~(w <= Begin(p, m - 1))
    BY <1>1, <2>5, <2>6
  <2>8. Begin(p, m - 1) < w
    BY <1>4, <2>1, <2>5, <2>7
  <2> QED
    BY <2>3, <2>5, <2>8
<1>6. \A w \in 1 .. Begin(p, n + 1) : W[w] \in 1 .. n /\ Begin(p, W[w]) < w /\ w <= Begin(p, W[w] + 1)
  BY <1>1, <1>2, <1>5
<1>7. W \in Seq(Nat) /\ Len(W) = Begin(p, n + 1)
  <2> DEFINE N == Begin(p, n + 1)
             f(w) == CHOOSE i \in DOMAIN p : Begin(p, i) < w /\ w <= Begin(p, i + 1)
  <2>1. \A w \in 1 .. N : W[w] \in Nat
    BY <1>6
  <2>2. W = [w \in 1 .. N |-> f(w)] /\ N \in Nat
    BY <1>2, <1>3
  <2> HIDE DEF N, f
  <2>3. W \in [1 .. N -> Nat]
    BY <2>1, <2>2
  <2>4. W \in Seq(Nat) /\ Len(W) = N
    BY <2>2, <2>3
  <2> QED
    BY <2>4 DEF N
<1>8. ASSUME NEW i \in 1 .. n
      PROVE /\ Begin(p, i) < Len(W) /\ W[Begin(p, i) + 1] = i
            /\ IsPacket(p[i]) => Begin(p, i) + 2 <= Len(W)
  <2> DEFINE w == Begin(p, i) + 1
             j == W[w]
  <2>1. w \in 1 .. Begin(p, n + 1)
    BY <1>3, <1>4
  <2>2. j \in 1 .. n /\ Begin(p, j) < w /\ w <= Begin(p, j + 1)
    BY <1>6, <2>1
  <2> HIDE DEF j
  <2>3. ~(j < i)
    <3> SUFFICES ASSUME j < i PROVE FALSE
      OBVIOUS
    <3>1. j + 1 \in Nat \ {0} /\ i \in Nat /\ i >= j + 1
      BY <2>2
    <3>2. Begin(p, i) >= Begin(p, j + 1) /\ Begin(p, j + 1) \in Nat
      BY <3>1, BeginFacts
    <3> QED
      BY <1>4, <2>2, <3>2
  <2>4. ~(i < j)
    <3> SUFFICES ASSUME i < j PROVE FALSE
      OBVIOUS
    <3>1. i + 1 \in Nat \ {0} /\ j \in Nat /\ j >= i + 1
      BY <2>2
    <3>2. Begin(p, j) >= Begin(p, i + 1) /\ Begin(p, i + 1) \in Nat
      BY <3>1, BeginFacts
    <3> QED
      BY <1>4, <2>2, <3>2
  <2>5. j = i
    BY <2>2, <2>3, <2>4
  <2> QED
    BY <1>3, <1>4, <1>7, <2>5 DEF j
<1> QED
  BY <1>3, <1>7, <1>8 DEF p, W, n

----------------------------------------------------------------------------
(* A queue.  T: the vectors taken from DDR; I: those their Write has been   *)
(* issued for; R: those that are in SRAM on every tile; A: the cycles since *)
(* each was taken.                                                          *)

Shape(x) == \E f, p, w, a, t, o : x = [fetched |-> f, pending |-> p, iq |-> w, active |-> a, tokens |-> t, out |-> o]

(* i-MEM: the IQ holds the words from the b-th that have been fetched.      *)
Fetching(c, q, x, b) ==
  LET n == x.fetched - Len(x.pending)
  IN /\ x.pending \in {<<>>, <<0>>} /\ x.fetched \in Nat /\ x.fetched <= Len(Wordings(c, q))
     /\ b \in Nat /\ n \in Nat /\ b <= n
     /\ x.iq = SubSeq(Wordings(c, q), b + 1, n)

HasPackets(c, q) == \E k \in PacketTable[c] : k[1] = q

Supplied(c, q, x) ==
  \/ x.fetched = Len(Wordings(c, q)) \/ x.pending # <<>>
  \/ x.iq # <<>> /\ (HasPackets(c, q) => Len(x.iq) >= 2)

(* The packet before the i-th entry is open.                                *)
Open(c, I, q, a, i) ==
  LET k == <<q, i - 1>>
      n == Entry(c, k).count
  IN /\ k \in PacketTable[c] /\ a.left \in 0 .. n /\ a.elapsed \in Nat
     /\ a = [entry |-> i - 1, left |-> a.left, elapsed |-> a.elapsed]
     /\ \A m \in 1 .. n : <<k, m>> \in I <=> m <= n - a.left

(* The queue has come to the i-th entry.                                    *)
Progress(c, T, I, A, q, x, i) ==
  /\ i \in 1 .. Len(Prog(c, q)) + 1
  /\ x.active = Idle \/ Open(c, I, q, x.active, i)
  /\ \A y \in Items(c) : y[1][1] = q =>
       /\ y[1][2] < i /\ (x.active = Idle \/ y[1][2] # i - 1) => y \in I
       /\ y[1][2] >= i /\ y \in T => A[y] = 0 /\ y[1][2] = i /\ x.iq # <<>> /\ x.active = Idle

AllIn(c, R, b, launch) == \A y \in Items(c) : Bank(y) = b /\ Launch(c, y) = launch => y \in R

Waits(c, R, q, i) ==
  q[1] = "native" =>
    \A j \in 1 .. i - 1 : Prog(c, q)[j].op = "wait" => AllIn(c, R, q[2], Prog(c, q)[j].launch)

TokenOf(c, A, y) == [tag |-> Entry(c, y[1]).tag, age |-> A[y]]
EventToken(c, R, q, t) ==
  q[1] = "native" /\ t.age \in Nat /\ \E i \in DOMAIN Prog(c, q) :
    /\ Prog(c, q)[i].op = "wait" /\ t = [tag |-> Prog(c, q)[i].event, age |-> t.age]
    /\ AllIn(c, R, q[2], Prog(c, q)[i].launch)

(* A token for each vector whose Write is not issued, the oldest first.     *)
Tokens(c, T, I, R, A, q, s) ==
  /\ s \in Seq(ToSet(s))
  /\ \A j \in 1 .. Len(s) :
       (\E y \in T \ I : y[1][1] = q /\ s[j] = TokenOf(c, A, y)) \/ EventToken(c, R, q, s[j])
  /\ \A y \in T \ I : y[1][1] = q => \E j \in 1 .. Len(s) : s[j] = TokenOf(c, A, y)
  /\ \A k \in PacketTable[c] : k[1] = q =>
       \A i, j \in 1 .. Len(s) :
         i < j /\ s[i].tag = Entry(c, k).tag /\ s[j].tag = Entry(c, k).tag => s[i].age > s[j].age

QueueOK(c, T, I, R, A, q, x) ==
  \E i \in Nat : /\ Fetching(c, q, x, Begin(Prog(c, q), i)) /\ Supplied(c, q, x)
                 /\ Progress(c, T, I, A, q, x, i) /\ Waits(c, R, q, i)
                 /\ Tokens(c, T, I, R, A, q, x.tokens)

LEMMA IqFacts ==
  ASSUME Scheduled, NEW c \in BOOLEAN, NEW q \in Queues, NEW x, NEW b, Fetching(c, q, x, b)
  PROVE  /\ x.iq \in Seq(Nat) /\ Len(x.iq) = (x.fetched - Len(x.pending)) - b
         /\ Len(x.iq) \in Nat /\ Len(x.pending) \in {0, 1} /\ b \in Nat /\ x.fetched \in Nat
         /\ \A j \in 1 .. Len(x.iq) : x.iq[j] = Wordings(c, q)[b + j]
         /\ x.iq = <<>> <=> Len(x.iq) = 0
<1> DEFINE W == Wordings(c, q)
           n == x.fetched - Len(x.pending)
<1>1. W \in Seq(Nat) /\ Len(W) \in Nat
  BY WordsFacts
<1> HIDE DEF W
<1>2. Len(x.pending) \in {0, 1} /\ n \in Nat /\ b \in Nat /\ b <= n /\ n <= Len(W) /\ x.fetched \in Nat
      /\ x.iq = SubSeq(W, b + 1, n)
  BY <1>1 DEF Fetching, W
<1> HIDE DEF n
<1>3. \A j \in b + 1 .. n : W[j] \in Nat
  BY <1>1, <1>2
<1>4. /\ x.iq \in Seq(Nat) /\ Len(x.iq) = IF b + 1 <= n THEN n - (b + 1) + 1 ELSE 0
      /\ \A j \in 1 .. n - (b + 1) + 1 : x.iq[j] = W[(b + 1) + j - 1]
  BY <1>2, <1>3, SubSeqProperties
<1>5. Len(x.iq) = n - b /\ Len(x.iq) \in Nat
  BY <1>2, <1>4
<1>6. \A j \in 1 .. Len(x.iq) : x.iq[j] = W[b + j]
  <2> TAKE j \in 1 .. Len(x.iq)
  <2>1. j \in 1 .. n - (b + 1) + 1 /\ (b + 1) + j - 1 = b + j
    BY <1>2, <1>5
  <2> QED
    BY <1>4, <2>1
<1>7. x.iq = <<>> <=> Len(x.iq) = 0
  BY <1>4, EmptySeq
<1>8. Len(x.iq) = (x.fetched - Len(x.pending)) - b
  BY <1>5 DEF n
<1>9. \A j \in 1 .. Len(x.iq) : x.iq[j] = Wordings(c, q)[b + j]
  BY <1>6 DEF W
<1> QED
  BY <1>2, <1>4, <1>5, <1>7, <1>8, <1>9, Zenon

(* The first n words leave the IQ.                                          *)
LEMMA Advance ==
  ASSUME Scheduled, NEW c \in BOOLEAN, NEW q \in Queues, NEW x, NEW b, Fetching(c, q, x, b),
         NEW n \in 0 .. Len(x.iq)
  PROVE  SubSeq(x.iq, n + 1, Len(x.iq))
           = SubSeq(Wordings(c, q), (b + n) + 1, x.fetched - Len(x.pending))
<1> DEFINE W == Wordings(c, q)
           e == x.fetched - Len(x.pending)
           s == SubSeq(x.iq, n + 1, Len(x.iq))
           t == SubSeq(W, (b + n) + 1, e)
<1>1. /\ x.iq \in Seq(Nat) /\ Len(x.iq) = e - b /\ Len(x.iq) \in Nat /\ b \in Nat /\ e \in Int
      /\ \A j \in 1 .. Len(x.iq) : x.iq[j] = W[b + j]
  BY IqFacts
<1>2. W \in Seq(Nat) /\ Len(W) \in Nat /\ e <= Len(W) /\ b <= e /\ e \in Nat
  <2>1. x.pending \in {<<>>, <<0>>} /\ x.fetched \in Nat /\ x.fetched <= Len(W) /\ e \in Nat /\ b <= e
    BY DEF Fetching
  <2>2. Len(x.pending) \in {0, 1}
    BY <2>1
  <2> HIDE DEF W
  <2> QED
    BY <2>1, <2>2, WordsFacts DEF W
<1> HIDE DEF W, e
<1>20. n \in Nat /\ b + n \in Nat /\ n <= e - b
  BY <1>1
<1>3. \A j \in n + 1 .. Len(x.iq) : x.iq[j] \in Nat
  BY <1>1
<1>4. \A j \in (b + n) + 1 .. e : W[j] \in Nat
  <2> TAKE j \in (b + n) + 1 .. e
  <2>1. j \in 1 .. Len(W)
    BY <1>2, <1>20
  <2> QED
    BY <1>2, <2>1
<1>5. /\ s \in Seq(Nat) /\ Len(s) = IF n + 1 <= Len(x.iq) THEN Len(x.iq) - (n + 1) + 1 ELSE 0
      /\ \A j \in 1 .. Len(x.iq) - (n + 1) + 1 : s[j] = x.iq[(n + 1) + j - 1]
  BY <1>1, <1>3, SubSeqProperties
<1>6. /\ t \in Seq(Nat) /\ Len(t) = IF (b + n) + 1 <= e THEN e - ((b + n) + 1) + 1 ELSE 0
      /\ \A j \in 1 .. e - ((b + n) + 1) + 1 : t[j] = W[((b + n) + 1) + j - 1]
  BY <1>1, <1>4, SubSeqProperties
<1> HIDE DEF s, t
<1>7. Len(s) = Len(t) /\ Len(s) = Len(x.iq) - n
  BY <1>1, <1>2, <1>5, <1>6, <1>20
<1>8. \A j \in 1 .. Len(s) : s[j] = t[j]
  <2> TAKE j \in 1 .. Len(s)
  <2>0. Len(x.iq) = e - b /\ b \in Nat /\ e \in Nat /\ n \in Nat /\ j \in 1 .. (e - b) - n
    BY <1>1, <1>2, <1>7, <1>20
  <2>1. /\ j \in 1 .. Len(x.iq) - (n + 1) + 1 /\ (n + 1) + j - 1 = n + j /\ n + j \in 1 .. Len(x.iq)
        /\ j \in 1 .. e - ((b + n) + 1) + 1 /\ ((b + n) + 1) + j - 1 = b + (n + j)
    BY <2>0
  <2> QED
    BY <1>1, <1>5, <1>6, <2>1
<1>9. s = t
  BY <1>5, <1>6, <1>7, <1>8, SeqEqual
<1> QED
  BY <1>9 DEF s, t, W, e

(* What a queue fetched arrives: nothing is under way.                      *)
LEMMA Committed ==
  ASSUME Scheduled, NEW c \in BOOLEAN, barriers = c, NEW q \in Queues, NEW x, Shape(x),
         NEW b, Fetching(c, q, x, b), NEW y, y = CommitReadyFetch(x, q)
  PROVE  /\ Shape(y) /\ y.fetched = x.fetched /\ y.pending = <<>> /\ y.active = x.active
         /\ y.tokens = x.tokens /\ y.out = x.out
         /\ Fetching(c, q, y, b)
         /\ x.iq # <<>> => y.iq # <<>>
         /\ Supplied(c, q, x) => y.fetched = Len(Wordings(c, q)) \/ y.iq # <<>>
         /\ Supplied(c, q, x) /\ x.iq # <<>> /\ HasPackets(c, q) =>
              y.fetched = Len(Wordings(c, q)) \/ Len(y.iq) >= 2
<1> DEFINE W == Wordings(c, q)
           n == x.fetched - Len(x.pending)
           ready == Cardinality({k \in DOMAIN x.pending : x.pending[k] = 0})
           z == [x EXCEPT !.iq = x.iq \o SubSeq(W, n + 1, n + ready),
                          !.pending = SubSeq(x.pending, ready + 1, Len(x.pending))]
<1>1. y = z
  BY DEF CommitReadyFetch, Words, Wordings
<1>2. /\ x.pending \in {<<>>, <<0>>} /\ x.fetched \in Nat /\ x.fetched <= Len(W)
      /\ b \in Nat /\ n \in Nat /\ b <= n /\ x.iq = SubSeq(W, b + 1, n)
  BY DEF Fetching
<1>3. W \in Seq(Nat) /\ Len(W) \in Nat
  BY WordsFacts
<1> HIDE DEF W
<1>4. ready = Len(x.pending) /\ ready \in {0, 1}
  <2>1. CASE x.pending = <<>>
    <3>1. {k \in DOMAIN x.pending : x.pending[k] = 0} = {}
      BY <2>1
    <3> QED
      BY <2>1, <3>1, FS_EmptySet
  <2>2. CASE x.pending = <<0>>
    <3>1. {k \in DOMAIN x.pending : x.pending[k] = 0} = {1}
      BY <2>2
    <3> QED
      BY <2>2, <3>1, FS_Singleton
  <2> QED
    BY <1>2, <2>1, <2>2
<1>5. n + ready = x.fetched
  BY <1>2, <1>4
<1>6. SubSeq(x.pending, ready + 1, Len(x.pending)) = <<>>
  <2> HIDE DEF ready
  <2> QED
    BY <1>4, SubSeqEmpty
<1>7. x.iq \o SubSeq(W, n + 1, n + ready) = SubSeq(W, b + 1, x.fetched)
  <2>1. b + 1 \in 1 .. Len(W) + 1 /\ n \in (b + 1) - 1 .. Len(W) /\ x.fetched \in n .. Len(W)
    BY <1>2, <1>3, <1>4, <1>5
  <2> HIDE DEF n, ready
  <2> QED
    BY <1>2, <1>3, <1>5, <2>1, ConcatAdjacentSubSeq
<1> HIDE DEF n, ready
<1>8. /\ Shape(y) /\ y.fetched = x.fetched /\ y.pending = <<>> /\ y.active = x.active
      /\ y.tokens = x.tokens /\ y.out = x.out /\ y.iq = SubSeq(W, b + 1, x.fetched)
  <2>1. PICK f, p, w, a, t, o : x = [fetched |-> f, pending |-> p, iq |-> w, active |-> a, tokens |-> t, out |-> o]
    BY DEF Shape
  <2>2. y = [fetched |-> f, pending |-> <<>>, iq |-> SubSeq(W, b + 1, x.fetched), active |-> a,
             tokens |-> t, out |-> o]
    BY <1>1, <1>6, <1>7, <2>1
  <2>3. Shape(y)
    BY <2>2 DEF Shape
  <2> QED
    BY <2>1, <2>2, <2>3
<1>9. Fetching(c, q, y, b)
  <2>1. y.fetched - Len(y.pending) = x.fetched
    BY <1>2, <1>8
  <2>2. b <= x.fetched
    BY <1>2, <1>4, <1>5
  <2> QED
    BY <1>2, <1>8, <2>1, <2>2 DEF Fetching, W
<1>10. Len(x.iq) = n - b /\ Len(y.iq) = x.fetched - b /\ (x.iq = <<>> <=> Len(x.iq) = 0)
       /\ (y.iq = <<>> <=> Len(y.iq) = 0) /\ Len(x.iq) \in Nat /\ Len(y.iq) \in Nat
  <2>1. y.fetched - Len(y.pending) = x.fetched
    BY <1>2, <1>8
  <2> QED
    BY <1>9, <2>1, IqFacts DEF n
<1>11. x.pending # <<>> => ready = 1
  BY <1>2, <1>4
<1>12. (Supplied(c, q, x) => y.fetched = Len(W) \/ y.iq # <<>>)
       /\ (Supplied(c, q, x) /\ x.iq # <<>> /\ HasPackets(c, q) => y.fetched = Len(W) \/ Len(y.iq) >= 2)
       /\ (x.iq # <<>> => y.iq # <<>>)
  <2>1. Supplied(c, q, x) =>
          \/ x.fetched = Len(W) \/ x.pending # <<>>
          \/ x.iq # <<>> /\ (HasPackets(c, q) => Len(x.iq) >= 2)
    BY DEF Supplied, W
  <2>2. ready \in {0, 1} /\ x.fetched = n + ready /\ n \in Nat /\ b \in Nat /\ b <= n
    BY <1>2, <1>4, <1>5
  <2>3. Len(y.iq) = Len(x.iq) + ready
    BY <1>10, <2>2
  <2>4. x.iq # <<>> => Len(x.iq) >= 1 /\ Len(y.iq) >= 1
    BY <1>10, <2>2, <2>3
  <2>5. x.pending # <<>> => Len(y.iq) = Len(x.iq) + 1
    BY <1>11, <2>3
  <2>6. y.fetched = x.fetched
    BY <1>8
  <2>7. x.iq # <<>> => y.iq # <<>>
    BY <1>10, <2>4
  <2>8. x.pending # <<>> => y.iq # <<>>
    BY <1>10, <2>5
  <2>9. x.pending # <<>> /\ x.iq # <<>> => Len(y.iq) >= 2
    BY <1>10, <2>4, <2>5
  <2>10. Len(x.iq) >= 2 => Len(y.iq) >= 2
    BY <1>10, <2>2, <2>3
  <2> QED
    BY <2>1, <2>6, <2>7, <2>8, <2>9, <2>10
<1> QED
  BY <1>8, <1>9, <1>12 DEF W

(* The word at the head of the IQ is the first of the entry.                *)
LEMMA AtHead ==
  ASSUME Scheduled, NEW c \in BOOLEAN, NEW q \in Queues, NEW x, NEW i \in 1 .. Len(Prog(c, q)) + 1,
         Fetching(c, q, x, Begin(Prog(c, q), i))
  PROVE  /\ x.iq # <<>> => i \in 1 .. Len(Prog(c, q)) /\ x.iq[1] = i
         /\ i \in 1 .. Len(Prog(c, q)) /\ IsPacket(Prog(c, q)[i]) /\ x.pending = <<>>
              /\ x.fetched = Len(Wordings(c, q)) => Len(x.iq) >= 2
<1> DEFINE p == Prog(c, q)
           W == Wordings(c, q)
           b == Begin(p, i)
           n == x.fetched - Len(x.pending)
<1>1. Len(p) \in Nat
  BY ProgramType
<1>2. /\ W \in Seq(Nat) /\ Len(W) \in Nat /\ Len(W) = Begin(p, Len(p) + 1)
      /\ \A j \in 1 .. Len(p) : /\ Begin(p, j) < Len(W) /\ W[Begin(p, j) + 1] = j
                                /\ IsPacket(p[j]) => Begin(p, j) + 2 <= Len(W)
  BY WordsFacts
<1>3. /\ Len(x.iq) = n - b /\ Len(x.iq) \in Nat /\ b \in Nat /\ x.fetched \in Nat
      /\ \A j \in 1 .. Len(x.iq) : x.iq[j] = W[b + j]
      /\ x.iq = <<>> <=> Len(x.iq) = 0
  BY IqFacts
<1>4. n <= Len(W) /\ n \in Nat
  <2>1. x.pending \in {<<>>, <<0>>} /\ x.fetched <= Len(W) /\ n \in Nat
    BY DEF Fetching
  <2>2. Len(x.pending) \in {0, 1}
    BY <2>1
  <2> HIDE DEF W
  <2> QED
    BY <1>2, <1>3, <2>1, <2>2
<1>5. x.iq # <<>> => i \in 1 .. Len(p)
  <2> SUFFICES ASSUME x.iq # <<>>, i = Len(p) + 1 PROVE FALSE
    BY <1>1
  <2>1. b = Len(W)
    BY <1>2
  <2> HIDE DEF b, n, W
  <2> QED
    BY <1>2, <1>3, <1>4, <2>1
<1>6. x.iq # <<>> => x.iq[1] = i
  <2> SUFFICES ASSUME x.iq # <<>> PROVE x.iq[1] = i
    OBVIOUS
  <2>1. 1 \in 1 .. Len(x.iq)
    BY <1>3
  <2>2. x.iq[1] = W[b + 1]
    BY <1>3, <2>1
  <2> QED
    BY <1>2, <1>5, <2>2
<1>7. i \in 1 .. Len(p) /\ IsPacket(p[i]) /\ x.pending = <<>> /\ x.fetched = Len(W) => Len(x.iq) >= 2
  <2> SUFFICES ASSUME i \in 1 .. Len(p), IsPacket(p[i]), x.pending = <<>>, x.fetched = Len(W)
               PROVE  Len(x.iq) >= 2
    OBVIOUS
  <2>1. b + 2 <= Len(W)
    BY <1>2
  <2>2. n = Len(W)
    BY <1>2
  <2> HIDE DEF b, n, W
  <2> QED
    BY <1>2, <1>3, <2>1, <2>2
<1> QED
  BY <1>5, <1>6, <1>7

LEMMA SameQueue ==
  ASSUME Scheduled, NEW c \in BOOLEAN, NEW q \in Queues, NEW y \in Items(c), y[1][1] = q
  PROVE  /\ y = <<<<q, y[1][2]>>, y[2]>> /\ y[1] = <<q, y[1][2]>> /\ y[1] \in PacketTable[c]
         /\ y[1][2] \in 1 .. Len(Prog(c, q)) /\ IsPacket(Prog(c, q)[y[1][2]])
         /\ Entry(c, y[1]) = Prog(c, q)[y[1][2]] /\ Bank(y) = q[2]
         /\ y[2] \in 1 .. Entry(c, y[1]).count
<1>1. y = <<y[1], y[2]>> /\ y[1] \in PacketTable[c] /\ y[2] \in 1 .. Entry(c, y[1]).count
  BY ItemFacts
<1>2. /\ y[1] = <<y[1][1], y[1][2]>> /\ y[1][2] \in DOMAIN Prog(c, q)
      /\ Entry(c, y[1]) = Prog(c, q)[y[1][2]] /\ IsPacket(Entry(c, y[1]))
  BY <1>1, PacketFacts
<1>3. DOMAIN Prog(c, q) = 1 .. Len(Prog(c, q))
  BY ProgramType
<1>4. Bank(y) = q[2]
  BY DEF Bank, BankOf
<1> QED
  BY <1>1, <1>2, <1>3, <1>4

(* Both words of a packet are there: it opens.                              *)
LEMMA Activated ==
  ASSUME Scheduled, NEW c \in BOOLEAN, barriers = c, NEW q \in Queues, NEW x, Shape(x),
         NEW T, T \subseteq Items(c), NEW I, NEW A, \A y \in I : A[y] # 0, I \subseteq T,
         NEW i, Fetching(c, q, x, Begin(Prog(c, q), i)), x.pending = <<>>,
         Progress(c, T, I, A, q, x, i), x.active = Idle,
         Len(x.iq) >= 2, i <= Len(Prog(c, q)), IsPacket(Prog(c, q)[i]),
         NEW y, y = Activate(x, q)
  PROVE  /\ Shape(y) /\ y.fetched = x.fetched /\ y.pending = x.pending
         /\ y.tokens = x.tokens /\ y.out = x.out /\ y.active # Idle
         /\ Fetching(c, q, y, Begin(Prog(c, q), i + 1))
         /\ Progress(c, T, I, A, q, y, i + 1)
<1> DEFINE p == Prog(c, q)
           k == <<q, i>>
           n == Entry(c, k).count
           a == [entry |-> i, left |-> n, elapsed |-> 0]
<1>1. Len(p) \in Nat /\ i \in 1 .. Len(p) /\ i \in Nat \ {0} /\ i \in DOMAIN p
  <2>1. Len(p) \in Nat /\ DOMAIN p = 1 .. Len(p) /\ i \in 1 .. Len(p) + 1
    BY ProgramType DEF Progress
  <2> QED
    BY <2>1
<1>2. k \in PacketTable[c] /\ n \in Nat \ {0} /\ Entry(c, k) = p[i]
  BY <1>1, IsPacketOf, PacketFacts
<1>3. Len(x.iq) \in Nat /\ x.iq # <<>> /\ x.iq[1] = i
  BY <1>1, IqFacts, AtHead
<1>4. SubSeq(x.iq, 3, Len(x.iq)) = SubSeq(Wordings(c, q), Begin(p, i + 1) + 1, x.fetched - Len(x.pending))
  <2>1. Begin(p, i + 1) = Begin(p, i) + 2 /\ Begin(p, i) \in Nat
    BY <1>1, BeginFacts
  <2>2. 2 \in 0 .. Len(x.iq)
    BY <1>3
  <2>3. SubSeq(x.iq, 2 + 1, Len(x.iq)) = SubSeq(Wordings(c, q), (Begin(p, i) + 2) + 1, x.fetched - Len(x.pending))
    BY <2>2, Advance
  <2>4. 2 + 1 = 3 /\ (Begin(p, i) + 2) + 1 = Begin(p, i + 1) + 1
    BY <2>1
  <2> HIDE DEF p
  <2> QED
    BY <2>3, <2>4
<1>5. y = [x EXCEPT !.iq = SubSeq(x.iq, 3, Len(x.iq)), !.active = a]
  <2>1. x.active.entry = 0
    BY DEF Idle
  <2>2. Program(q)[x.iq[1]].count = n
    BY <1>2, <1>3 DEF Program, Prog
  <2> QED
    BY <1>3, <2>1, <2>2 DEF Activate
<1>6. /\ Shape(y) /\ y.fetched = x.fetched /\ y.pending = x.pending
      /\ y.tokens = x.tokens /\ y.out = x.out /\ y.active = a
      /\ y.iq = SubSeq(x.iq, 3, Len(x.iq))
  <2>1. PICK f, pp, w, aa, t, o : x = [fetched |-> f, pending |-> pp, iq |-> w, active |-> aa, tokens |-> t, out |-> o]
    BY DEF Shape
  <2> HIDE DEF a
  <2>2. y = [fetched |-> f, pending |-> pp, iq |-> SubSeq(x.iq, 3, Len(x.iq)), active |-> a,
             tokens |-> t, out |-> o]
    BY <1>5, <2>1
  <2>3. Shape(y)
    BY <2>2 DEF Shape
  <2> QED
    BY <2>1, <2>2, <2>3
<1>7. y.active # Idle
  BY <1>1, <1>6 DEF Idle
<1>8. Fetching(c, q, y, Begin(p, i + 1))
  <2>1. Begin(p, i + 1) = Begin(p, i) + 2 /\ Begin(p, i) \in Nat
    BY <1>1, BeginFacts
  <2>2. Len(x.iq) = (x.fetched - Len(x.pending)) - Begin(p, i) /\ x.fetched - Len(x.pending) \in Nat
    BY IqFacts DEF Fetching
  <2> DEFINE m == x.fetched - Len(x.pending)
  <2>3. Begin(p, i + 1) \in Nat /\ Begin(p, i + 1) <= m
    <3> HIDE DEF m, p
    <3> QED
      BY <1>3, <2>1, <2>2 DEF m, p
  <2>4. /\ x.pending \in {<<>>, <<0>>} /\ x.fetched \in Nat /\ x.fetched <= Len(Wordings(c, q)) /\ m \in Nat
    BY DEF Fetching
  <2> QED
    BY <1>4, <1>6, <2>3, <2>4 DEF Fetching
<1>9. Open(c, I, q, a, i + 1)
  <2>1. (i + 1) - 1 = i
    BY <1>1
  <2>2. \A m \in 1 .. n : <<k, m>> \in I <=> m <= n - n
    <3> TAKE m \in 1 .. n
    <3>1. <<k, m>> \in Items(c)
      BY <1>2, IsItem
    <3>2. <<k, m>> \notin I
      <4> SUFFICES ASSUME <<k, m>> \in I PROVE FALSE
        OBVIOUS
      <4>1. <<k, m>> \in T /\ A[<<k, m>>] # 0
        OBVIOUS
      <4>2. \A z \in Items(c) : z[1][1] = q => (z[1][2] >= i /\ z \in T => A[z] = 0)
        BY DEF Progress
      <4> QED
        BY <1>1, <3>1, <4>1, <4>2
    <3> QED
      BY <1>2, <3>2
  <2>3. n \in 0 .. n /\ 0 \in Nat
    BY <1>2
  <2> HIDE DEF n
  <2> QED
    BY <1>2, <2>1, <2>2, <2>3 DEF Open, n
<1>10. Progress(c, T, I, A, q, y, i + 1)
  <2>1. i + 1 \in 1 .. Len(p) + 1
    BY <1>1
  <2>2. ASSUME NEW z \in Items(c), z[1][1] = q
        PROVE  /\ z[1][2] < i + 1 /\ (y.active = Idle \/ z[1][2] # (i + 1) - 1) => z \in I
               /\ ~(z[1][2] >= i + 1 /\ z \in T)
    <3>1. z[1][2] \in Nat
      BY <2>2, SameQueue, ProgramType
    <3>2. /\ z[1][2] < i => z \in I
          /\ z[1][2] >= i /\ z \in T => z[1][2] = i
      BY <2>2 DEF Progress
    <3> QED
      BY <1>1, <1>7, <3>1, <3>2
  <2> HIDE DEF a
  <2> QED
    BY <1>6, <1>9, <2>1, <2>2 DEF Progress
<1> QED
  BY <1>6, <1>7, <1>8, <1>10

----------------------------------------------------------------------------
(* Tokens.                                                                  *)

LEMMA Removed ==
  ASSUME NEW S, NEW s \in Seq(S), NEW j \in 1 .. Len(s), NEW r, r = RemoveAt(s, j)
  PROVE  /\ r \in Seq(S) /\ Len(s) \in Nat /\ Len(r) = Len(s) - 1
         /\ \A n \in 1 .. Len(r) : r[n] = IF n < j THEN s[n] ELSE s[n + 1]
         /\ r \in Seq(ToSet(r))
<1> DEFINE a == SubSeq(s, 1, j - 1)
           b == SubSeq(s, j + 1, Len(s))
<1>1. Len(s) \in Nat /\ j \in Nat /\ j >= 1 /\ j <= Len(s)
  OBVIOUS
<1>2. \A n \in 1 .. Len(s) : s[n] \in S
  OBVIOUS
<1>3. /\ a \in Seq(S) /\ Len(a) = IF 1 <= j - 1 THEN (j - 1) - 1 + 1 ELSE 0
      /\ \A n \in 1 .. (j - 1) - 1 + 1 : a[n] = s[1 + n - 1]
  <2>1. \A n \in 1 .. j - 1 : s[n] \in S
    BY <1>1, <1>2
  <2> QED
    BY <1>1, <2>1, SubSeqProperties
<1>4. /\ b \in Seq(S) /\ Len(b) = IF j + 1 <= Len(s) THEN Len(s) - (j + 1) + 1 ELSE 0
      /\ \A n \in 1 .. Len(s) - (j + 1) + 1 : b[n] = s[(j + 1) + n - 1]
  <2>1. \A n \in j + 1 .. Len(s) : s[n] \in S
    BY <1>1, <1>2
  <2> QED
    BY <1>1, <2>1, SubSeqProperties
<1>5. r = a \o b
  BY DEF RemoveAt
<1> HIDE DEF a, b
<1>6. Len(a) = j - 1 /\ Len(b) = Len(s) - j
  BY <1>1, <1>3, <1>4
<1>7. /\ r \in Seq(S) /\ Len(r) = Len(a) + Len(b)
      /\ \A n \in 1 .. Len(a) + Len(b) : r[n] = IF n <= Len(a) THEN a[n] ELSE b[n - Len(a)]
  <2>1. a \in Seq(S) /\ b \in Seq(S)
    BY <1>3, <1>4
  <2> QED
    BY <1>5, <2>1, ConcatProperties
<1>8. Len(r) = Len(s) - 1
  BY <1>1, <1>6, <1>7
<1>9. ASSUME NEW n \in 1 .. Len(r) PROVE r[n] = IF n < j THEN s[n] ELSE s[n + 1]
  <2>1. CASE n < j
    <3>1. n <= Len(a) /\ n \in 1 .. (j - 1) - 1 + 1 /\ 1 + n - 1 = n
      BY <1>1, <1>6, <2>1
    <3>2. n \in 1 .. Len(a) + Len(b)
      BY <1>7
    <3>3. r[n] = a[n] /\ a[n] = s[n]
      BY <1>3, <1>7, <3>1, <3>2
    <3> QED
      BY <2>1, <3>3
  <2>2. CASE ~(n < j)
    <3>1. /\ ~(n <= Len(a)) /\ n - Len(a) \in 1 .. Len(s) - (j + 1) + 1
          /\ (j + 1) + (n - Len(a)) - 1 = n + 1
      BY <1>1, <1>6, <1>8, <2>2
    <3>2. n \in 1 .. Len(a) + Len(b)
      BY <1>7
    <3>3. r[n] = b[n - Len(a)]
      BY <1>7, <3>1, <3>2
    <3>4. b[n - Len(a)] = s[n + 1]
      BY <1>4, <3>1
    <3> QED
      BY <2>2, <3>3, <3>4
  <2> QED
    BY <2>1, <2>2
<1>10. r \in Seq(ToSet(r))
  <2>1. \A n \in 1 .. Len(r) : r[n] \in ToSet(r)
    <3>1. DOMAIN r = 1 .. Len(r)
      BY <1>7
    <3> QED
      BY <3>1 DEF ToSet
  <2> QED
    BY <1>7, <2>1
<1> QED
  BY <1>1, <1>7, <1>8, <1>9, <1>10

(* The oldest token of a tag.                                               *)
LEMMA LeastToken ==
  ASSUME NEW S, NEW s \in Seq(S), NEW x, x.tokens = s, NEW tag, TokensFor(x, tag) # {}
  PROVE  LET j == Least(TokensFor(x, tag))
         IN /\ j \in 1 .. Len(s) /\ s[j].tag = tag
            /\ \A m \in 1 .. Len(s) : s[m].tag = tag => j <= m
<1> DEFINE K == TokensFor(x, tag)
<1>1. K = {m \in 1 .. Len(s) : s[m].tag = tag}
  BY DEF TokensFor
<1>2. PICK m \in K : \A n \in K : m <= n
  <2>1. K \subseteq Nat
    BY <1>1
  <2> HIDE DEF K
  <2> QED
    BY <2>1, Minimum DEF K
<1> HIDE DEF K
<1>3. Least(K) \in K /\ \A n \in K : Least(K) <= n
  BY <1>2 DEF Least
<1> QED
  BY <1>1, <1>3 DEF K

(* A token is taken: the others still stand for what they stood for.        *)
LEMMA TokenTaken ==
  ASSUME NEW c, NEW T, NEW I, NEW J, NEW R, NEW A, NEW q, NEW s, Tokens(c, T, I, R, A, q, s),
         NEW j \in 1 .. Len(s), NEW r, r = RemoveAt(s, j), I \subseteq J,
         \A y \in T \ J : y[1][1] = q => TokenOf(c, A, y) # s[j],
         \A m \in 1 .. Len(s), y \in T \ I :
           m # j /\ y[1][1] = q /\ s[m] = TokenOf(c, A, y) => y \notin J
  PROVE  Tokens(c, T, J, R, A, q, r)
<1>1. s \in Seq(ToSet(s))
  BY DEF Tokens
<1>2. /\ Len(s) \in Nat /\ Len(r) = Len(s) - 1
      /\ \A n \in 1 .. Len(r) : r[n] = IF n < j THEN s[n] ELSE s[n + 1]
      /\ r \in Seq(ToSet(r))
  BY <1>1, Removed
<1> DEFINE from(n) == IF n < j THEN n ELSE n + 1
<1>3. \A n \in 1 .. Len(r) : from(n) \in 1 .. Len(s) /\ from(n) # j /\ r[n] = s[from(n)]
  BY <1>2
<1>4. \A m, n \in 1 .. Len(r) : m < n => from(m) < from(n)
  BY <1>2
<1>5. \A m \in 1 .. Len(s) : m # j => \E n \in 1 .. Len(r) : from(n) = m
  <2> TAKE m \in 1 .. Len(s)
  <2> HAVE m # j
  <2> DEFINE n == IF m < j THEN m ELSE m - 1
  <2>1. n \in 1 .. Len(r) /\ from(n) = m
    BY <1>2
  <2> QED
    BY <2>1
<1> HIDE DEF from
<1>6. ASSUME NEW n \in 1 .. Len(r)
      PROVE  (\E y \in T \ J : y[1][1] = q /\ r[n] = TokenOf(c, A, y)) \/ EventToken(c, R, q, r[n])
  <2>1. from(n) \in 1 .. Len(s) /\ from(n) # j /\ r[n] = s[from(n)]
    BY <1>3
  <2>2. (\E y \in T \ I : y[1][1] = q /\ r[n] = TokenOf(c, A, y)) \/ EventToken(c, R, q, r[n])
    BY <2>1 DEF Tokens
  <2> QED
    BY <2>1, <2>2
<1>7. ASSUME NEW y \in T \ J, y[1][1] = q PROVE \E n \in 1 .. Len(r) : r[n] = TokenOf(c, A, y)
  <2>1. y \in T \ I
    OBVIOUS
  <2>2. PICK m \in 1 .. Len(s) : s[m] = TokenOf(c, A, y)
    BY <1>7, <2>1 DEF Tokens
  <2>3. m # j
    BY <1>7, <2>2
  <2> QED
    BY <1>3, <1>5, <2>2, <2>3
<1>8. ASSUME NEW k \in PacketTable[c], k[1] = q, NEW m \in 1 .. Len(r), NEW n \in 1 .. Len(r),
             m < n, r[m].tag = Entry(c, k).tag, r[n].tag = Entry(c, k).tag
      PROVE  r[m].age > r[n].age
  <2>1. from(m) \in 1 .. Len(s) /\ from(n) \in 1 .. Len(s) /\ from(m) < from(n)
        /\ r[m] = s[from(m)] /\ r[n] = s[from(n)]
    BY <1>3, <1>4, <1>8
  <2> QED
    BY <1>8, <2>1 DEF Tokens
<1> QED
  BY <1>2, <1>6, <1>7, <1>8 DEF Tokens

(* No event has the tag of a packet of its bank.                            *)
LEMMA EventTag ==
  ASSUME Scheduled, NEW c \in BOOLEAN, NEW q \in Queues, NEW i \in DOMAIN Prog(c, q), q[1] = "native",
         Prog(c, q)[i].op = "wait", NEW k \in PacketTable[c], BankOf(k) = q[2]
  PROVE  Entry(c, k).tag # Prog(c, q)[i].event
<1>1. q[2] \in Banks
  BY DEF Queues
<1>2. Prog(c, q) = Programs[c]["native"][q[2]]
  BY DEF Prog
<1> QED
  BY <1>1, <1>2 DEF Scheduled, EventsApart

----------------------------------------------------------------------------
(* A packet in a cycle.                                                     *)

(* T: the vectors taken from DDR, the first of a packet before the second.  *)
AgesOK(c, T, A) ==
  /\ T \subseteq Items(c) /\ A \in [Items(c) -> Nat]
  /\ \A y \in Items(c) : y \notin T => A[y] = 0
  /\ \A y \in Items(c), z \in T : y[1] = z[1] /\ y[2] < z[2] => y \in T /\ A[y] > A[z]
  /\ \A y, z \in T : Lane(c, y) = Lane(c, z) /\ A[y] = A[z] => y = z

(* The vectors that were taken d cycles or more before they must be written.*)
Sent(c, T, A, d) == {y \in T : A[y] >= Lag(c, y) + d}

WriteFor(c, y) == [op |-> "write", row |-> Row(c, y), stream |-> Stream(c, y),
                   launch |-> Launch(c, y), sees |-> None]

DueOn(c, T, A, q) == {y \in T : y[1][1] = q /\ A[y] = Lag(c, y) + 1}

ActiveAs(a, i, l, d) == a = [entry |-> i, left |-> l, elapsed |-> d]

(* y is x, but its packet has l vectors left, or is over.                   *)
Worn(x, y, i, l) ==
  /\ Shape(y) /\ y.fetched = x.fetched /\ y.pending = x.pending /\ y.iq = x.iq
  /\ y.tokens = x.tokens /\ y.out = x.out
  /\ (y.active = Idle /\ l = 0) \/ \E f \in Nat : ActiveAs(y.active, i, l, f)

LEMMA Finished ==
  ASSUME Scheduled, NEW c \in BOOLEAN, barriers = c, NEW q \in Queues, NEW x, Shape(x),
         NEW i, NEW l \in Nat, NEW d \in Nat, ActiveAs(x.active, i, l, d), <<q, i>> \in PacketTable[c]
  PROVE  Worn(x, FinishReservationCycle(x, q), i, l)
<1> DEFINE k == <<q, i>>
           y == FinishReservationCycle(x, q)
           reserve == Entry(c, k).reserve
           f == Least({d + 1, reserve})
           a == IF l = 0 /\ f = reserve THEN Idle ELSE [entry |-> i, left |-> l, elapsed |-> f]
<1>0. x.active = [entry |-> i, left |-> l, elapsed |-> d]
  BY DEF ActiveAs
<1>00. x.active.entry = i /\ x.active.left = l /\ x.active.elapsed = d
  BY <1>0
<1>1. reserve \in Nat /\ Program(q)[i].reserve = reserve
  <2>1. k[1] = q /\ k[2] = i
    OBVIOUS
  <2>2. Entry(c, k) = Prog(c, q)[i] /\ reserve \in Nat
    BY <2>1, PacketFacts
  <2> QED
    BY <2>2 DEF Program, Prog
<1>2. f \in Nat
  <2> HIDE DEF reserve
  <2>1. {d + 1, reserve} \subseteq Nat /\ {d + 1, reserve} # {}
    BY <1>1
  <2>2. PICK m \in {d + 1, reserve} : \A n \in {d + 1, reserve} : m <= n
    BY <2>1, Minimum
  <2>3. Least({d + 1, reserve}) \in {d + 1, reserve}
    BY <2>2 DEF Least
  <2> QED
    BY <2>1, <2>3
<1>3. y = [x EXCEPT !.active = a]
  <2> HIDE DEF k, reserve
  <2>1. y = [x EXCEPT !.active = IF x.active.left = 0 /\ f = reserve THEN Idle ELSE [x.active EXCEPT !.elapsed = f]]
    <3>1. Program(q)[x.active.entry].reserve = reserve /\ x.active.elapsed = d
      BY <1>00, <1>1
    <3> QED
      BY <3>1 DEF FinishReservationCycle
  <2> HIDE DEF f, y
  <2>2. [x.active EXCEPT !.elapsed = f] = [entry |-> i, left |-> l, elapsed |-> f]
    BY <1>0
  <2> QED
    BY <2>1, <2>2, <1>00
<1>4. (a = Idle /\ l = 0) \/ \E g \in Nat : ActiveAs(a, i, l, g)
  <2> HIDE DEF f
  <2> QED
    BY <1>2 DEF ActiveAs
<1> HIDE DEF a, y
<1>5. PICK ff, pp, w, aa, t, o : x = [fetched |-> ff, pending |-> pp, iq |-> w, active |-> aa, tokens |-> t, out |-> o]
  BY DEF Shape
<1>6. y = [fetched |-> ff, pending |-> pp, iq |-> w, active |-> a, tokens |-> t, out |-> o]
  BY <1>3, <1>5
<1>7. Shape(y)
  BY <1>6 DEF Shape
<1>8. y.active = a /\ y.fetched = x.fetched /\ y.pending = x.pending /\ y.iq = x.iq
      /\ y.tokens = x.tokens /\ y.out = x.out
  BY <1>5, <1>6
<1>9. Worn(x, y, i, l)
  BY <1>4, <1>7, <1>8 DEF Worn
<1> QED
  BY <1>9 DEF y

(* Of a packet that is open, the vector that is due is the next, and it is   *)
(* due exactly when its token has the packet's delay.                       *)
NextDue(c, T, A, q, x, i) ==
  LET k == <<q, i - 1>>
      e == Entry(c, k)
  IN /\ Due(x, e) => \E y \in DueOn(c, T, A, q) :
                       /\ x.active.left > 0 => y[2] = (e.count - x.active.left) + 1
                       /\ x.tokens[Least(TokensFor(x, e.tag))] = TokenOf(c, A, y)
     /\ \A y \in DueOn(c, T, A, q) :
          /\ y[1] = k /\ x.active.left > 0 /\ Due(x, e)
          /\ \A z \in DueOn(c, T, A, q) : z = y

LEMMA OpenDue ==
  ASSUME Scheduled, NEW c \in BOOLEAN, NEW q \in Queues, NEW T, NEW A, AgesOK(c, T, A), NEW R,
         NEW x, NEW i, Progress(c, T, Sent(c, T, A, 2), A, q, x, i), x.active # Idle,
         Tokens(c, T, Sent(c, T, A, 2), R, A, q, x.tokens)
  PROVE  NextDue(c, T, A, q, x, i)
<1> DEFINE k == <<q, i - 1>>
           e == Entry(c, k)
           n == e.count
           I == Sent(c, T, A, 2)
           s == x.tokens
           K == TokensFor(x, e.tag)
           L == Least(K)
           left == x.active.left
<1>1. /\ k \in PacketTable[c] /\ left \in 0 .. n
      /\ \A m \in 1 .. n : <<k, m>> \in I <=> m <= n - left
  <2>1. Open(c, I, q, x.active, i)
    BY DEF Progress
  <2> QED
    BY <2>1 DEF Open
<1>2. n \in Nat \ {0} /\ e.delay \in Nat /\ BankOf(k) = q[2] /\ k[1] = q /\ k[2] = i - 1
  BY <1>1, PacketFacts DEF BankOf
<1>3. s \in Seq(ToSet(s))
  BY DEF Tokens
<1>4. \A y \in T : y \in I \/ A[y] < Lag(c, y) + 2
  <2> TAKE y \in T
  <2>1. y \in Items(c) /\ A[y] \in Nat /\ Lag(c, y) \in Nat
    BY ItemFacts DEF AgesOK
  <2> QED
    BY <2>1 DEF Sent
<1>5. ASSUME NEW y \in DueOn(c, T, A, q) PROVE y[1] = k /\ y \notin I /\ y \in T /\ y \in Items(c) /\ A[y] = e.delay + 1
  <2>1. y \in T /\ y[1][1] = q /\ A[y] = Lag(c, y) + 1 /\ y \in Items(c) /\ Lag(c, y) \in Nat
    BY ItemFacts DEF DueOn, AgesOK
  <2>2. y \notin I
    BY <2>1 DEF Sent
  <2>3. y[1] = <<q, y[1][2]>> /\ y[1][2] \in Nat
    BY <2>1, SameQueue, ProgramType
  <2>4. i \in Nat
    BY ProgramType DEF Progress
  <2>5. y[1][2] = i - 1
    BY <2>1, <2>2, <2>3, <2>4 DEF Progress
  <2> QED
    BY <2>1, <2>2, <2>3, <2>5 DEF Lag
<1>6. \A y, z \in DueOn(c, T, A, q) : y = z
  <2> TAKE y, z \in DueOn(c, T, A, q)
  <2>1. y \in T /\ z \in T /\ y[1] = z[1] /\ A[y] = A[z]
    BY <1>5
  <2> QED
    BY <2>1 DEF AgesOK, Lane
(* A token with the packet's tag stands for one of its vectors.             *)
<1>7. ASSUME NEW j \in 1 .. Len(s), s[j].tag = e.tag
      PROVE  \E y \in T \ I : y[1] = k /\ s[j] = TokenOf(c, A, y)
  <2>1. ~EventToken(c, R, q, s[j])
    <3> SUFFICES ASSUME EventToken(c, R, q, s[j]) PROVE FALSE
      OBVIOUS
    <3>1. PICK m \in DOMAIN Prog(c, q) : /\ Prog(c, q)[m].op = "wait"
                                         /\ s[j] = [tag |-> Prog(c, q)[m].event, age |-> s[j].age]
      BY DEF EventToken
    <3>2. q[1] = "native"
      BY DEF EventToken
    <3>3. s[j].tag = Prog(c, q)[m].event
      BY <3>1
    <3> HIDE DEF k, e, s
    <3> QED
      BY <1>1, <1>2, <1>7, <3>1, <3>2, <3>3, EventTag DEF e
  <2>2. PICK y \in T \ I : y[1][1] = q /\ s[j] = TokenOf(c, A, y)
    BY <2>1 DEF Tokens
  <2>3. y[1] \in PacketTable[c] /\ BankOf(y[1]) = q[2] /\ Entry(c, y[1]).tag = e.tag
    <3>1. y \in Items(c)
      BY DEF AgesOK
    <3> QED
      BY <1>7, <2>2, <3>1, ItemFacts DEF TokenOf, BankOf
  <2>4. y[1] = k
    BY <1>1, <1>2, <2>3, TagOnce
  <2> QED
    BY <2>2, <2>4
<1>8. K # {} => /\ L \in 1 .. Len(s) /\ s[L].tag = e.tag
                /\ \A m \in 1 .. Len(s) : s[m].tag = e.tag => L <= m
  BY <1>3, LeastToken
<1>9. Due(x, e) <=> K # {} /\ s[L].age >= e.delay + 1
  BY DEF Due
<1>10. ASSUME NEW y \in DueOn(c, T, A, q) PROVE left > 0 /\ Due(x, e)
  <2>1. y[1] = k /\ y \in T \ I /\ y \in Items(c) /\ A[y] = e.delay + 1
    BY <1>5
  <2>2. y = <<k, y[2]>> /\ y[2] \in 1 .. n
    BY <2>1, ItemFacts
  <2>3. left > 0
    BY <1>1, <1>2, <2>1, <2>2
  <2>4. PICK m \in 1 .. Len(s) : s[m] = TokenOf(c, A, y)
    BY <1>2, <2>1 DEF Tokens
  <2>5. s[m].tag = e.tag /\ s[m].age = e.delay + 1
    BY <2>1, <2>4 DEF TokenOf
  <2>6. m \in K
    BY <1>3, <2>5 DEF TokensFor
  <2>7. L \in 1 .. Len(s) /\ s[L].tag = e.tag /\ L <= m
    BY <1>8, <2>5, <2>6
  <2> HIDE DEF K, L
  <2>8. L # m => s[L].age > s[m].age
    <3> HAVE L # m
    <3>1. L < m
      BY <2>7
    <3> QED
      BY <1>1, <1>2, <2>5, <2>7, <3>1 DEF Tokens
  <2>9. s[L].age \in Nat
    <3>1. PICK z \in T \ I : s[L] = TokenOf(c, A, z)
      BY <1>7, <2>7
    <3>2. A[z] \in Nat
      BY DEF AgesOK
    <3> QED
      BY <3>1, <3>2 DEF TokenOf
  <2>10. s[L].age >= e.delay + 1
    <3>1. CASE L = m
      BY <1>2, <2>5, <3>1
    <3>2. CASE L # m
      BY <1>2, <2>5, <2>8, <2>9, <3>2
    <3> QED
      BY <3>1, <3>2
  <2> QED
    BY <1>9, <2>3, <2>6, <2>10
<1>11. ASSUME Due(x, e)
       PROVE  \E y \in DueOn(c, T, A, q) : (left > 0 => y[2] = (n - left) + 1) /\ s[L] = TokenOf(c, A, y)
  <2>1. L \in 1 .. Len(s) /\ s[L].tag = e.tag /\ s[L].age >= e.delay + 1
    BY <1>8, <1>9, <1>11
  <2> HIDE DEF K, L
  <2>2. PICK y \in T \ I : y[1] = k /\ s[L] = TokenOf(c, A, y)
    BY <1>7, <2>1
  <2>3. A[y] \in Nat /\ y \in Items(c) /\ y \in T /\ y \notin I /\ Lag(c, y) = e.delay
    BY <2>2 DEF AgesOK, Lag
  <2>4. A[y] = Lag(c, y) + 1
    <3>1. A[y] >= e.delay + 1
      BY <2>1, <2>2 DEF TokenOf
    <3> QED
      BY <1>2, <1>4, <2>3, <3>1
  <2>5. y \in DueOn(c, T, A, q)
    BY <1>2, <2>2, <2>3, <2>4 DEF DueOn
  <2>6. ASSUME left > 0 PROVE y[2] = (n - left) + 1
    <3> DEFINE w == <<k, (n - left) + 1>>
    <3>1. y = <<k, y[2]>> /\ y[2] \in 1 .. n
      BY <2>2, <2>3, ItemFacts
    <3>2. ~(y[2] <= n - left)
      BY <1>1, <2>3, <3>1
    <3>3. (n - left) + 1 \in 1 .. n
      BY <1>1, <1>2, <2>6
    <3>4. w \in Items(c) /\ w[1] = k /\ w[2] = (n - left) + 1
      BY <1>1, <3>3, IsItem
    <3>5. ~(w[2] < y[2])
      <4> SUFFICES ASSUME w[2] < y[2] PROVE FALSE
        OBVIOUS
      <4> HIDE DEF w
      <4>1. w \in T /\ A[w] > A[y]
        BY <2>2, <2>3, <3>4 DEF AgesOK
      <4>2. A[w] \in Nat /\ Lag(c, w) = e.delay
        BY <3>4 DEF AgesOK, Lag
      <4>3. A[w] >= Lag(c, w) + 2
        BY <1>2, <2>3, <2>4, <4>1, <4>2
      <4>4. w \in I
        BY <4>1, <4>3 DEF Sent
      <4>5. (n - left) + 1 <= n - left
        BY <1>1, <3>3, <4>4 DEF w
      <4> QED
        BY <1>1, <1>2, <4>5
    <3> HIDE DEF w
    <3> QED
      BY <1>1, <1>2, <3>1, <3>2, <3>4, <3>5
  <2> QED
    BY <2>2, <2>5, <2>6
<1> QED
  BY <1>5, <1>6, <1>10, <1>11 DEF NextDue

(* What a queue issues: the Write of the vector that is due, or nothing.    *)
WriteIssued(c, T, A, q, o) == \E y \in DueOn(c, T, A, q) : o = WriteFor(c, y) /\ \A z \in DueOn(c, T, A, q) : z = y
NoneDue(c, T, A, q) == DueOn(c, T, A, q) = {}

LEMMA SentSplit ==
  ASSUME Scheduled, NEW c \in BOOLEAN, NEW T, NEW A, AgesOK(c, T, A), NEW q, NEW y \in Items(c), y[1][1] = q
  PROVE  y \in Sent(c, T, A, 1) <=> y \in Sent(c, T, A, 2) \/ y \in DueOn(c, T, A, q)
<1>1. A[y] \in Nat /\ Lag(c, y) \in Nat
  BY ItemFacts DEF AgesOK
<1> QED
  BY <1>1 DEF Sent, DueOn

(* The packet that is open in the next cycle, or is not any more.           *)
LEMMA StillOpen ==
  ASSUME Scheduled, NEW c \in BOOLEAN, NEW q \in Queues, NEW T, NEW A, AgesOK(c, T, A),
         NEW x, NEW i, Progress(c, T, Sent(c, T, A, 2), A, q, x, i), x.active # Idle,
         NEW l \in Nat, l <= Entry(c, <<q, i - 1>>).count,
         \A m \in 1 .. Entry(c, <<q, i - 1>>).count :
            <<<<q, i - 1>>, m>> \in Sent(c, T, A, 1) <=> m <= Entry(c, <<q, i - 1>>).count - l,
         NEW y, \/ y.active = Idle /\ l = 0
                \/ \E f \in Nat : y.active = [entry |-> i - 1, left |-> l, elapsed |-> f]
  PROVE  Progress(c, T, Sent(c, T, A, 1), A, q, y, i)
<1> DEFINE k == <<q, i - 1>>
           n == Entry(c, k).count
           I == Sent(c, T, A, 2)
           J == Sent(c, T, A, 1)
<1>1. k \in PacketTable[c] /\ i \in 1 .. Len(Prog(c, q)) + 1 /\ n \in Nat
  <2>1. Open(c, I, q, x.active, i) /\ i \in 1 .. Len(Prog(c, q)) + 1
    BY DEF Progress
  <2> QED
    BY <2>1, PacketFacts DEF Open
<1>2. y.active = Idle \/ Open(c, J, q, y.active, i)
  <2> SUFFICES ASSUME NEW f \in Nat, y.active = [entry |-> i - 1, left |-> l, elapsed |-> f]
               PROVE  Open(c, J, q, y.active, i)
    OBVIOUS
  <2>1. l \in 0 .. n
    BY <1>1
  <2> HIDE DEF n
  <2> QED
    BY <1>1, <2>1 DEF Open, n
<1>3. ASSUME NEW z \in Items(c), z[1][1] = q
      PROVE  /\ z[1][2] < i /\ (y.active = Idle \/ z[1][2] # i - 1) => z \in J
             /\ ~(z[1][2] >= i /\ z \in T)
  <2>1. z \in I => z \in J
    BY <1>3, SentSplit
  <2>2. z = <<z[1], z[2]>> /\ z[1] = <<q, z[1][2]>> /\ z[2] \in 1 .. Entry(c, z[1]).count
    BY <1>3, SameQueue
  <2>3. /\ z[1][2] < i /\ z[1][2] # i - 1 => z \in I
        /\ ~(z[1][2] >= i /\ z \in T)
    BY <1>3 DEF Progress
  <2>4. y.active = Idle => l = 0
    <3> SUFFICES ASSUME NEW f \in Nat, y.active = [entry |-> i - 1, left |-> l, elapsed |-> f],
                        y.active = Idle PROVE FALSE
      OBVIOUS
    <3>1. i - 1 = 0
      <4>1. y.active.entry = i - 1
        OBVIOUS
      <4>2. Idle.entry = 0
        BY DEF Idle
      <4> QED
        BY <4>1, <4>2
    <3>2. k[2] \in DOMAIN Prog(c, q) /\ DOMAIN Prog(c, q) = 1 .. Len(Prog(c, q))
      BY <1>1, PacketFacts, ProgramType
    <3> QED
      BY <3>1, <3>2
  <2>5. y.active = Idle /\ z[1][2] = i - 1 => z \in J
    <3> SUFFICES ASSUME y.active = Idle, z[1][2] = i - 1 PROVE z \in J
      OBVIOUS
    <3>1. z[1] = k
      BY <2>2
    <3>2. z[2] \in 1 .. n /\ z[2] <= n - l /\ z = <<k, z[2]>>
      BY <1>1, <2>2, <2>4, <3>1
    <3> QED
      BY <3>2
  <2> QED
    BY <2>1, <2>3, <2>5
<1> QED
  BY <1>1, <1>2, <1>3 DEF Progress

(* tick_synchronized for a packet that is open.                             *)
SyncedAs(c, T, R, A, q, x, y, i) ==
  /\ Shape(y) /\ y.fetched = x.fetched /\ y.pending = x.pending /\ y.iq = x.iq
  /\ Progress(c, T, Sent(c, T, A, 1), A, q, y, i)
  /\ Tokens(c, T, Sent(c, T, A, 1), R, A, q, y.tokens)
  /\ WriteIssued(c, T, A, q, y.out) \/ (y.out = None /\ NoneDue(c, T, A, q))

LEMMA Synced ==
  ASSUME Scheduled, NEW c \in BOOLEAN, barriers = c, NEW q \in Queues, NEW T, NEW A, AgesOK(c, T, A), NEW R,
         NEW x, Shape(x), x.out = None, NEW i, Progress(c, T, Sent(c, T, A, 2), A, q, x, i), x.active # Idle,
         Tokens(c, T, Sent(c, T, A, 2), R, A, q, x.tokens),
         NEW y, y = TickPacket(x, q)
  PROVE  SyncedAs(c, T, R, A, q, x, y, i)
<1> DEFINE k == <<q, i - 1>>
           e == Entry(c, k)
           n == e.count
           I == Sent(c, T, A, 2)
           J == Sent(c, T, A, 1)
           s == x.tokens
           left == x.active.left
           d == x.active.elapsed
           L == Least(TokensFor(x, e.tag))
<1>1. /\ k \in PacketTable[c] /\ left \in 0 .. n /\ d \in Nat
      /\ x.active = [entry |-> i - 1, left |-> left, elapsed |-> d]
      /\ \A m \in 1 .. n : <<k, m>> \in I <=> m <= n - left
  <2>1. Open(c, I, q, x.active, i)
    BY DEF Progress
  <2> QED
    BY <2>1 DEF Open
<1>2. n \in Nat \ {0} /\ e.delay \in Nat /\ BankOf(k) = q[2] /\ k[1] = q /\ k[2] = i - 1
      /\ Program(q)[x.active.entry] = e
  <2>1. k[1] = q /\ k[2] = i - 1 /\ BankOf(k) = q[2] /\ x.active.entry = i - 1
    BY <1>1 DEF BankOf
  <2>2. n \in Nat \ {0} /\ e.delay \in Nat /\ e = Prog(c, k[1])[k[2]]
    BY <1>1, PacketFacts
  <2>3. Program(q)[i - 1] = Prog(c, q)[i - 1]
    BY DEF Program, Prog
  <2> HIDE DEF e, k
  <2> QED
    BY <2>1, <2>2, <2>3
<1>3. s \in Seq(ToSet(s))
  BY DEF Tokens
<1>4. /\ Due(x, e) => \E z \in DueOn(c, T, A, q) :
                              /\ left > 0 => z[2] = (n - left) + 1
                              /\ s[L] = TokenOf(c, A, z)
      /\ \A z \in DueOn(c, T, A, q) :
           /\ z[1] = k /\ left > 0 /\ Due(x, e)
           /\ \A w \in DueOn(c, T, A, q) : w = z
  <2>1. NextDue(c, T, A, q, x, i)
    BY OpenDue
  <2> QED
    BY <2>1 DEF NextDue
<1>5. \A w \in Items(c) : w[1][1] = q => (w \in J <=> w \in I \/ w \in DueOn(c, T, A, q))
  BY SentSplit
<1>6. I \subseteq J
  <2> SUFFICES ASSUME NEW w \in I PROVE w \in J
    OBVIOUS
  <2>1. w \in T /\ A[w] \in Nat /\ Lag(c, w) \in Nat /\ A[w] >= Lag(c, w) + 2
    BY ItemFacts DEF Sent, AgesOK
  <2> QED
    BY <2>1 DEF Sent
<1> HIDE DEF L
<1>7. CASE ~(left > 0 /\ Due(x, e))
  <2>1. y = FinishReservationCycle(x, q)
    BY <1>2, <1>7 DEF TickPacket
  <2>2. left \in Nat /\ d \in Nat /\ <<q, i - 1>> \in PacketTable[c] /\ ActiveAs(x.active, i - 1, left, d)
    BY <1>1 DEF ActiveAs
  <2>30. Worn(x, y, i - 1, left)
    <3> HIDE DEF left, d, k
    <3> QED
      BY <2>1, <2>2, Finished
  <2>3. /\ Shape(y) /\ y.fetched = x.fetched /\ y.pending = x.pending /\ y.iq = x.iq
        /\ y.tokens = x.tokens /\ y.out = x.out
        /\ \/ y.active = Idle /\ left = 0
           \/ \E f \in Nat : y.active = [entry |-> i - 1, left |-> left, elapsed |-> f]
    BY <2>30 DEF Worn, ActiveAs
  <2>4. DueOn(c, T, A, q) = {}
    BY <1>4, <1>7
  <2>5. \A m \in 1 .. n : <<k, m>> \in J <=> m <= n - left
    <3> TAKE m \in 1 .. n
    <3>1. <<k, m>> \in Items(c) /\ <<k, m>>[1][1] = q
      BY <1>1, IsItem
    <3> QED
      BY <1>1, <1>5, <2>4, <3>1
  <2>6. Progress(c, T, J, A, q, y, i)
    <3>1. left <= n
      BY <1>1
    <3> QED
      BY <1>2, <2>2, <2>3, <2>5, <3>1, StillOpen
  <2>7. Tokens(c, T, J, R, A, q, s)
    <3>1. \A w \in T : w[1][1] = q => (w \in I <=> w \in J)
      BY <1>5, <2>4 DEF AgesOK
    <3> HIDE DEF I, J, s
    <3> QED
      BY <3>1 DEF Tokens, I, s
  <2> QED
    BY <2>3, <2>4, <2>6, <2>7 DEF NoneDue, SyncedAs
<1>8. CASE left > 0 /\ Due(x, e)
  <2>1. PICK z \in DueOn(c, T, A, q) : z[2] = (n - left) + 1 /\ s[L] = TokenOf(c, A, z)
    BY <1>4, <1>8
  <2>2. z[1] = k /\ \A w \in DueOn(c, T, A, q) : w = z
    BY <1>4
  <2>3. z \in T /\ z[1][1] = q /\ A[z] = Lag(c, z) + 1 /\ z \in Items(c) /\ z \notin I /\ z \in J
    <3>1. z \in T /\ z[1][1] = q /\ A[z] = Lag(c, z) + 1 /\ z \in Items(c) /\ Lag(c, z) \in Nat
      BY ItemFacts DEF DueOn, AgesOK
    <3> QED
      BY <3>1 DEF Sent
  <2>4. L \in 1 .. Len(s)
    <3>1. TokensFor(x, e.tag) # {}
      BY <1>8 DEF Due
    <3> HIDE DEF e
    <3> QED
      BY <1>3, <3>1, LeastToken DEF L
  <2> DEFINE o == WriteOf(e, left)
             u == [fetched |-> x.fetched, pending |-> x.pending, iq |-> x.iq,
                   active |-> [entry |-> k[2], left |-> left - 1, elapsed |-> d],
                   tokens |-> RemoveAt(s, L), out |-> o]
  <2>5. o = WriteFor(c, z)
    <3>1. Row(c, z) = RowOf(e, (n - left) + 1) /\ Stream(c, z) = e.stream /\ Launch(c, z) = e.launch
      BY <2>1, <2>2 DEF Row, Stream, Launch
    <3> QED
      BY <3>1 DEF WriteOf, WriteFor
  <2> HIDE DEF o
  <2>6. y = FinishReservationCycle(u, q)
    <3>1. y = FinishReservationCycle([Erase(x, e.tag) EXCEPT !.out = o, !.active.left = @ - 1], q)
      BY <1>2, <1>8 DEF o, TickPacket
    <3>2. PICK ff, pp, ww, aa, tt, oo : x = [fetched |-> ff, pending |-> pp, iq |-> ww, active |-> aa, tokens |-> tt, out |-> oo]
      BY DEF Shape
    <3> DEFINE r0 == RemoveAt(s, L)
               ae == [entry |-> k[2], left |-> left - 1, elapsed |-> d]
    <3>3. PICK er : er = [fetched |-> ff, pending |-> pp, iq |-> ww, active |-> aa, tokens |-> r0, out |-> oo]
      OBVIOUS
    <3>30. Erase(x, e.tag) = er
      <4>1. Erase(x, e.tag) = [x EXCEPT !.tokens = r0]
        BY DEF Erase, L
      <4> HIDE DEF r0
      <4> QED
        BY <3>2, <3>3, <4>1
    <3>4. aa = [entry |-> k[2], left |-> left, elapsed |-> d]
      BY <1>1, <1>2, <3>2
    <3>5. [aa EXCEPT !.left = @ - 1] = ae
      <4> HIDE DEF left, d, k
      <4> QED
        BY <3>4
    <3>6. [er EXCEPT !.out = o, !.active.left = @ - 1]
            = [fetched |-> ff, pending |-> pp, iq |-> ww, active |-> [aa EXCEPT !.left = @ - 1], tokens |-> r0, out |-> o]
      <4> HIDE DEF r0, ae, left, d, k
      <4>1. PICK e1 : e1 = [er EXCEPT !.out = o]
        OBVIOUS
      <4>2. e1 = [fetched |-> ff, pending |-> pp, iq |-> ww, active |-> aa, tokens |-> r0, out |-> o]
        BY <3>3, <4>1
      <4>3. [er EXCEPT !.out = o, !.active.left = @ - 1] = [e1 EXCEPT !.active.left = @ - 1]
        BY <4>1
      <4>4. [e1 EXCEPT !.active.left = @ - 1] = [e1 EXCEPT !.active = [aa EXCEPT !.left = @ - 1]]
        BY <4>2
      <4>5. PICK al : al = [aa EXCEPT !.left = @ - 1]
        OBVIOUS
      <4>6. [e1 EXCEPT !.active = al]
              = [fetched |-> ff, pending |-> pp, iq |-> ww, active |-> al, tokens |-> r0, out |-> o]
        BY <4>2
      <4> QED
        BY <4>3, <4>4, <4>5, <4>6
    <3>7. u = [fetched |-> ff, pending |-> pp, iq |-> ww, active |-> ae, tokens |-> r0, out |-> o]
      <4> HIDE DEF r0, ae
      <4>1. x.fetched = ff /\ x.pending = pp /\ x.iq = ww
        BY <3>2
      <4>2. u = [fetched |-> x.fetched, pending |-> x.pending, iq |-> x.iq, active |-> ae, tokens |-> r0, out |-> o]
        BY DEF r0, ae
      <4> QED
        BY <4>1, <4>2
    <3> HIDE DEF r0, ae, u
    <3>8. [er EXCEPT !.out = o, !.active.left = @ - 1] = u
      BY <3>5, <3>6, <3>7
    <3> QED
      BY <3>1, <3>30, <3>8
  <2>7. Shape(u)
    BY DEF Shape
  <2>8. left - 1 \in Nat /\ n - (left - 1) = (n - left) + 1 /\ left - 1 <= n
    BY <1>1, <1>2, <1>8
  <2>9. /\ Shape(y) /\ y.fetched = x.fetched /\ y.pending = x.pending /\ y.iq = x.iq
        /\ y.tokens = RemoveAt(s, L) /\ y.out = o
        /\ \/ y.active = Idle /\ left - 1 = 0
           \/ \E f \in Nat : y.active = [entry |-> k[2], left |-> left - 1, elapsed |-> f]
    <3>1. u.fetched = x.fetched /\ u.pending = x.pending /\ u.iq = x.iq /\ u.tokens = RemoveAt(s, L) /\ u.out = o
          /\ u.active = [entry |-> k[2], left |-> left - 1, elapsed |-> d]
      OBVIOUS
    <3>2. k \in PacketTable[c] /\ k = <<q, k[2]>> /\ d \in Nat /\ left - 1 \in Nat
      BY <1>1, <1>2, <2>8
    <3>3. u.active.entry = k[2] /\ u.active.left = left - 1 /\ u.active.elapsed = d
      BY <3>1
    <3> HIDE DEF u, k, left, d, s
    <3>4. ActiveAs(u.active, k[2], left - 1, d) /\ <<q, k[2]>> \in PacketTable[c]
      BY <3>1, <3>2 DEF ActiveAs
    <3>5. Worn(u, y, k[2], left - 1)
      BY <2>6, <2>7, <3>2, <3>4, Finished
    <3> QED
      BY <3>1, <3>5 DEF Worn, ActiveAs
  <2>10. \A m \in 1 .. n : <<k, m>> \in J <=> m <= n - (left - 1)
    <3> TAKE m \in 1 .. n
    <3>1. <<k, m>> \in Items(c) /\ <<k, m>>[1][1] = q
      BY <1>1, IsItem
    <3>2. z = <<k, (n - left) + 1>>
      BY <2>1, <2>2, <2>3, ItemFacts
    <3>3. <<k, m>> \in DueOn(c, T, A, q) <=> m = (n - left) + 1
      BY <2>2, <3>2
    <3> HIDE DEF n, left, k
    <3> QED
      BY <1>1, <1>2, <1>5, <2>8, <3>1, <3>3
  <2>11. Progress(c, T, J, A, q, y, i)
    <3>1. \/ y.active = Idle /\ left - 1 = 0
          \/ \E f \in Nat : y.active = [entry |-> i - 1, left |-> left - 1, elapsed |-> f]
      BY <1>2, <2>9
    <3> HIDE DEF left
    <3> QED
      BY <2>8, <2>10, <3>1, StillOpen
  <2>12. Tokens(c, T, J, R, A, q, RemoveAt(s, L))
    <3>1. ASSUME NEW w \in T \ J, w[1][1] = q PROVE TokenOf(c, A, w) # s[L]
      <4> SUFFICES ASSUME TokenOf(c, A, w) = TokenOf(c, A, z) PROVE FALSE
        BY <2>1
      <4>1. w \in Items(c) /\ Bank(w) = Bank(z) /\ A[w] = A[z] /\ Entry(c, w[1]).tag = Entry(c, z[1]).tag
        BY <2>3, <3>1 DEF AgesOK, TokenOf, Bank, BankOf
      <4>2. w[1] = z[1]
        BY <2>3, <4>1, ItemFacts, TagOnce DEF Bank
      <4>3. w = z
        BY <2>3, <4>1, <4>2 DEF AgesOK, Lane
      <4> QED
        BY <2>3, <4>3
    <3>2. ASSUME NEW m \in 1 .. Len(s), NEW w \in T \ I, m # L, w[1][1] = q, s[m] = TokenOf(c, A, w)
          PROVE  w \notin J
      <4> SUFFICES ASSUME w = z PROVE FALSE
        <5>1. w \in Items(c)
          BY DEF AgesOK
        <5> QED
          BY <1>5, <2>2, <3>2, <5>1
      <4>1. s[m] = s[L] /\ s[L].tag = e.tag /\ s[L].age \in Nat
        <5>1. A[z] \in Nat
          BY <2>3 DEF AgesOK
        <5> QED
          BY <2>1, <2>2, <3>2, <5>1 DEF TokenOf
      <4>2. m < L \/ L < m
        BY <2>4, <3>2
      <4>3. \A f, g \in 1 .. Len(s) : f < g /\ s[f].tag = e.tag /\ s[g].tag = e.tag => s[f].age > s[g].age
        BY <1>1, <1>2 DEF Tokens
      <4> HIDE DEF s, e
      <4> QED
        BY <2>4, <4>1, <4>2, <4>3
    <3>3. Tokens(c, T, I, R, A, q, s)
      OBVIOUS
    <3> HIDE DEF I, J, s
    <3> QED
      BY <1>6, <2>4, <3>1, <3>2, <3>3, TokenTaken
  <2>13. WriteIssued(c, T, A, q, y.out)
    BY <2>2, <2>5, <2>9 DEF WriteIssued
  <2> QED
    BY <2>9, <2>11, <2>12, <2>13 DEF SyncedAs
<1> QED
  BY <1>7, <1>8

----------------------------------------------------------------------------
(* The dispatch of a queue.  Nothing is being fetched, and a packet whose   *)
(* first vector was taken is at the head with both words.                   *)

Waiting(T, q, i) == \E z \in T : z[1][1] = q /\ z[1][2] >= i

Standing(c, T, R, A, q, x, i) ==
  /\ Shape(x) /\ x.out = None /\ x.pending = <<>>
  /\ Fetching(c, q, x, Begin(Prog(c, q), i)) /\ Progress(c, T, Sent(c, T, A, 2), A, q, x, i)
  /\ Waits(c, R, q, i) /\ Tokens(c, T, Sent(c, T, A, 2), R, A, q, x.tokens)
  /\ Waiting(T, q, i) => Len(x.iq) >= 2

ReadIssued(c, T, R, A, q, o) ==
  /\ q[1] = "native"
  /\ \E i \in ReadsOf(c, q[2]) : LET r == Prog(c, q)[i]
       IN /\ o = [op |-> "read", row |-> r.row, stream |-> r.stream, launch |-> 0, sees |-> r.sees]
          /\ \E z \in Items(c) : /\ Bank(z) = q[2] /\ Row(c, z) = r.row /\ Vector(c, z) = r.sees
                                 /\ z \in Sent(c, T, A, 2) \/ z \in R
  /\ \A z \in Items(c) : z[1][1] = <<"transport", q[2]>> => z \in R

Outcome(c, T, R, A, q, o) ==
  \/ WriteIssued(c, T, A, q, o)
  \/ NoneDue(c, T, A, q) /\ (o = None \/ ReadIssued(c, T, R, A, q, o))

DispatchedAt(c, T, R, A, q, x, i) ==
  /\ Shape(x) /\ x.pending = <<>>
  /\ Fetching(c, q, x, Begin(Prog(c, q), i)) /\ Progress(c, T, Sent(c, T, A, 1), A, q, x, i)
  /\ Waits(c, R, q, i) /\ Tokens(c, T, Sent(c, T, A, 1), R, A, q, x.tokens)
  /\ ~Waiting(T, q, i)

Dispatched(c, T, R, A, q, x) == \E i \in Nat : DispatchedAt(c, T, R, A, q, x, i)

LEMMA SentMore ==
  ASSUME Scheduled, NEW c \in BOOLEAN, NEW T, NEW A, AgesOK(c, T, A)
  PROVE  Sent(c, T, A, 2) \subseteq Sent(c, T, A, 1)
<1> SUFFICES ASSUME NEW w \in Sent(c, T, A, 2) PROVE w \in Sent(c, T, A, 1)
  OBVIOUS
<1>1. w \in T /\ A[w] \in Nat /\ Lag(c, w) \in Nat /\ A[w] >= Lag(c, w) + 2
  BY ItemFacts DEF Sent, AgesOK
<1> QED
  BY <1>1 DEF Sent

(* Where no packet is open, no Write is due.                                *)
LEMMA IdleQueue ==
  ASSUME Scheduled, NEW c \in BOOLEAN, NEW T, NEW A, AgesOK(c, T, A), NEW q \in Queues,
         NEW x, NEW i, Progress(c, T, Sent(c, T, A, 2), A, q, x, i), x.active = Idle
  PROVE  /\ NoneDue(c, T, A, q)
         /\ \A w \in Items(c) : w[1][1] = q => (w \in Sent(c, T, A, 1) <=> w \in Sent(c, T, A, 2))
         /\ Progress(c, T, Sent(c, T, A, 1), A, q, x, i)
<1> DEFINE I == Sent(c, T, A, 2)
           J == Sent(c, T, A, 1)
<1>1. ASSUME NEW w \in T, w[1][1] = q, A[w] = Lag(c, w) + 1 PROVE FALSE
  <2>1. w \in Items(c) /\ Lag(c, w) \in Nat /\ A[w] \in Nat
    BY ItemFacts DEF AgesOK
  <2>2. w[1][2] \in Nat /\ i \in Nat
    BY <1>1, <2>1, SameQueue, ProgramType DEF Progress
  <2>3. w \notin I
    BY <1>1, <2>1 DEF Sent
  <2>4. w[1][2] >= i
    BY <1>1, <2>1, <2>2, <2>3 DEF Progress
  <2>5. A[w] = 0
    BY <1>1, <2>1, <2>4 DEF Progress
  <2> QED
    BY <1>1, <2>1, <2>5
<1>2. NoneDue(c, T, A, q)
  BY <1>1 DEF NoneDue, DueOn
<1>3. \A w \in Items(c) : w[1][1] = q => (w \in J <=> w \in I)
  BY <1>2, SentSplit DEF NoneDue
<1>4. Progress(c, T, J, A, q, x, i)
  <2> HIDE DEF I, J
  <2>1. Progress(c, T, I, A, q, x, i)
    BY DEF I
  <2> QED
    BY <1>3, <2>1 DEF Progress
<1> QED
  BY <1>2, <1>3, <1>4

LEMMA SameTokens ==
  ASSUME NEW c, NEW T, T \subseteq Items(c), NEW I, NEW J, NEW R, NEW A, NEW q, NEW s,
         \A w \in Items(c) : w[1][1] = q => (w \in J <=> w \in I), Tokens(c, T, I, R, A, q, s)
  PROVE  Tokens(c, T, J, R, A, q, s)
<1>1. \A w \in T : w[1][1] = q => (w \in T \ J <=> w \in T \ I)
  OBVIOUS
<1>2. ASSUME NEW j \in 1 .. Len(s)
      PROVE  (\E y \in T \ J : y[1][1] = q /\ s[j] = TokenOf(c, A, y)) \/ EventToken(c, R, q, s[j])
  BY <1>1 DEF Tokens
<1>3. ASSUME NEW y \in T \ J, y[1][1] = q PROVE \E j \in 1 .. Len(s) : s[j] = TokenOf(c, A, y)
  BY <1>1, <1>3 DEF Tokens
<1> QED
  BY <1>2, <1>3 DEF Tokens

(* A queue without a packet that has nothing to do.                         *)
LEMMA Rests ==
  ASSUME Scheduled, NEW c \in BOOLEAN, NEW T, NEW A, AgesOK(c, T, A), NEW q \in Queues, NEW R,
         NEW x, NEW i, Standing(c, T, R, A, q, x, i), x.active = Idle, ~Waiting(T, q, i)
  PROVE  DispatchedAt(c, T, R, A, q, x, i) /\ NoneDue(c, T, A, q)
<1>1. /\ NoneDue(c, T, A, q) /\ Progress(c, T, Sent(c, T, A, 1), A, q, x, i)
      /\ \A w \in Items(c) : w[1][1] = q => (w \in Sent(c, T, A, 1) <=> w \in Sent(c, T, A, 2))
  <2>1. Progress(c, T, Sent(c, T, A, 2), A, q, x, i)
    BY DEF Standing
  <2> QED
    BY <2>1, IdleQueue
<1>2. Tokens(c, T, Sent(c, T, A, 1), R, A, q, x.tokens)
  <2>1. T \subseteq Items(c) /\ Tokens(c, T, Sent(c, T, A, 2), R, A, q, x.tokens)
    BY DEF AgesOK, Standing
  <2> QED
    BY <1>1, <2>1, SameTokens
<1> QED
  BY <1>1, <1>2 DEF Standing, DispatchedAt

(* tick_synchronized.                                                       *)
LEMMA Ticked ==
  ASSUME Scheduled, NEW c \in BOOLEAN, barriers = c, NEW q \in Queues, NEW T, NEW A, AgesOK(c, T, A), NEW R,
         NEW x, NEW i \in Nat, Standing(c, T, R, A, q, x, i), x.active # Idle,
         NEW y, y = TickSynchronized(x, q)
  PROVE  Dispatched(c, T, R, A, q, y) /\ Outcome(c, T, R, A, q, y.out)
<1> DEFINE I == Sent(c, T, A, 2)
<1>1. /\ Shape(x) /\ x.out = None /\ x.pending = <<>> /\ Fetching(c, q, x, Begin(Prog(c, q), i))
      /\ Progress(c, T, I, A, q, x, i) /\ Waits(c, R, q, i) /\ Tokens(c, T, I, R, A, q, x.tokens)
  BY DEF Standing
<1>2. x.active.entry = i - 1 /\ x.active.entry # 0
  <2>1. Open(c, I, q, x.active, i)
    BY <1>1 DEF Progress
  <2>2. <<q, i - 1>> \in PacketTable[c] /\ x.active.entry = i - 1
    BY <2>1 DEF Open
  <2>3. i - 1 \in 1 .. Len(Prog(c, q))
    <3>1. <<q, i - 1>>[2] = i - 1 /\ <<q, i - 1>>[1] = q
      OBVIOUS
    <3> QED
      BY <2>2, <3>1, PacketFacts, ProgramType
  <2> QED
    BY <2>2, <2>3
<1>3. y = TickPacket(x, q)
  <2>1. Activate(x, q) = x
    BY <1>2 DEF Activate
  <2> QED
    BY <1>2, <2>1 DEF TickSynchronized
<1>4. /\ Shape(y) /\ y.fetched = x.fetched /\ y.pending = x.pending /\ y.iq = x.iq
      /\ Progress(c, T, Sent(c, T, A, 1), A, q, y, i)
      /\ Tokens(c, T, Sent(c, T, A, 1), R, A, q, y.tokens)
      /\ WriteIssued(c, T, A, q, y.out) \/ (y.out = None /\ NoneDue(c, T, A, q))
  <2>1. SyncedAs(c, T, R, A, q, x, y, i)
    BY <1>1, <1>3, Synced
  <2> QED
    BY <2>1 DEF SyncedAs
<1>5. Fetching(c, q, y, Begin(Prog(c, q), i))
  BY <1>1, <1>4 DEF Fetching
<1>6. ~Waiting(T, q, i)
  <2>1. T \subseteq Items(c)
    BY DEF AgesOK
  <2> QED
    BY <1>1, <2>1 DEF Progress, Waiting
<1> QED
  BY <1>1, <1>4, <1>5, <1>6 DEF Dispatched, DispatchedAt, Outcome

(* The packet at the head opens when both words are there.                  *)
LEMMA Opened ==
  ASSUME Scheduled, NEW c \in BOOLEAN, barriers = c, NEW q \in Queues, NEW T, NEW A, AgesOK(c, T, A), NEW R,
         NEW x, NEW i \in Nat, Standing(c, T, R, A, q, x, i), x.active = Idle, AtPacket(x, q),
         NEW y, y = TickSynchronized(x, q)
  PROVE  Dispatched(c, T, R, A, q, y) /\ Outcome(c, T, R, A, q, y.out)
<1> DEFINE I == Sent(c, T, A, 2)
<1>1. /\ Shape(x) /\ x.out = None /\ x.pending = <<>> /\ Fetching(c, q, x, Begin(Prog(c, q), i))
      /\ Progress(c, T, I, A, q, x, i) /\ Waits(c, R, q, i) /\ Tokens(c, T, I, R, A, q, x.tokens)
      /\ Waiting(T, q, i) => Len(x.iq) >= 2
  BY DEF Standing
<1>2. x.active.entry = 0
  BY DEF Idle
<1>3. i \in 1 .. Len(Prog(c, q)) /\ x.iq[1] = i /\ IsPacket(Prog(c, q)[i]) /\ Len(Prog(c, q)) \in Nat
  <2>1. x.iq # <<>> /\ IsPacket(Program(q)[x.iq[1]])
    BY <1>2 DEF AtPacket
  <2>2. i \in 1 .. Len(Prog(c, q)) + 1
    BY <1>1 DEF Progress
  <2>3. i \in 1 .. Len(Prog(c, q)) /\ x.iq[1] = i
    BY <1>1, <2>1, <2>2, AtHead
  <2>4. Program(q)[i] = Prog(c, q)[i]
    BY DEF Program, Prog
  <2> QED
    BY <2>1, <2>3, <2>4, ProgramType
<1>4. Len(x.iq) \in Nat
  BY <1>1, IqFacts
<1>5. CASE Len(x.iq) < 2
  <2>1. y = x
    BY <1>2, <1>5 DEF TickSynchronized, Activate
  <2>2. ~Waiting(T, q, i)
    BY <1>1, <1>4, <1>5
  <2>3. DispatchedAt(c, T, R, A, q, x, i) /\ NoneDue(c, T, A, q)
    BY <2>2, Rests
  <2> QED
    BY <1>1, <2>1, <2>3 DEF Dispatched, Outcome
<1>6. CASE Len(x.iq) >= 2
  <2> DEFINE z == Activate(x, q)
  <2>1. /\ Shape(z) /\ z.fetched = x.fetched /\ z.pending = x.pending
        /\ z.tokens = x.tokens /\ z.out = x.out /\ z.active # Idle
        /\ Fetching(c, q, z, Begin(Prog(c, q), i + 1))
        /\ Progress(c, T, I, A, q, z, i + 1)
    <3>1. I \subseteq T /\ T \subseteq Items(c) /\ \A w \in I : A[w] # 0
      <4>1. T \subseteq Items(c) /\ A \in [Items(c) -> Nat]
        BY DEF AgesOK
      <4>2. \A w \in I : w \in T /\ A[w] >= Lag(c, w) + 2 /\ A[w] \in Nat /\ Lag(c, w) \in Nat
        BY <4>1, ItemFacts DEF Sent
      <4> QED
        BY <4>1, <4>2
    <3>2. i <= Len(Prog(c, q))
      BY <1>3
    <3>3. z = Activate(x, q)
      OBVIOUS
    <3> HIDE DEF I, z
    <3> QED
      BY <1>1, <1>3, <1>6, <3>1, <3>2, <3>3, Activated
  <2>2. Waits(c, R, q, i + 1)
    <3>1. \A j \in 1 .. (i + 1) - 1 : j \in 1 .. i - 1 \/ j = i
      OBVIOUS
    <3>2. Prog(c, q)[i].op # "wait"
      BY <1>3 DEF IsPacket
    <3> QED
      BY <1>1, <3>1, <3>2 DEF Waits
  <2>3. ~Waiting(T, q, i + 1)
    <3>1. T \subseteq Items(c)
      BY DEF AgesOK
    <3> HIDE DEF z, I
    <3> QED
      BY <2>1, <3>1 DEF Progress, Waiting
  <2>4. Standing(c, T, R, A, q, z, i + 1)
    <3> HIDE DEF z
    <3> QED
      BY <1>1, <2>1, <2>2, <2>3 DEF Standing
  <2>5. z.active.entry # 0
    <3>1. Open(c, I, q, z.active, i + 1)
      <4> HIDE DEF z, I
      <4> QED
        BY <2>1 DEF Progress
    <3>2. z.active.entry = (i + 1) - 1
      <4> HIDE DEF z, I
      <4> QED
        BY <3>1 DEF Open
    <3> QED
      BY <1>3, <3>2
  <2>6. y = TickSynchronized(z, q)
    <3>1. Activate(z, q) = z
      <4> HIDE DEF z
      <4> QED
        BY <2>5 DEF Activate
    <3>2. y = TickSynchronized(x, q) /\ Activate(x, q) = z
      OBVIOUS
    <3> HIDE DEF z
    <3> QED
      BY <3>1, <3>2 DEF TickSynchronized
  <2> HIDE DEF z
  <2> QED
    BY <2>1, <2>4, <2>6, Ticked
<1> QED
  BY <1>4, <1>5, <1>6

----------------------------------------------------------------------------
(* WAIT_EVENTs and Reads.                                                   *)

LEMMA TailIs ==
  ASSUME NEW s \in Seq(Nat), s # <<>>
  PROVE  Tail(s) = SubSeq(s, 1 + 1, Len(s))
<1>1. Len(s) \in Nat /\ Len(s) >= 1
  BY EmptySeq
<1>2. Tail(s) \in Seq(Nat) /\ Len(Tail(s)) = Len(s) - 1 /\ \A j \in 1 .. Len(Tail(s)) : Tail(s)[j] = s[j + 1]
  BY <1>1
<1>3. /\ SubSeq(s, 1 + 1, Len(s)) \in Seq(Nat)
      /\ Len(SubSeq(s, 1 + 1, Len(s))) = IF 1 + 1 <= Len(s) THEN Len(s) - (1 + 1) + 1 ELSE 0
      /\ \A j \in 1 .. Len(s) - (1 + 1) + 1 : SubSeq(s, 1 + 1, Len(s))[j] = s[(1 + 1) + j - 1]
  <2>1. \A j \in 1 + 1 .. Len(s) : s[j] \in Nat
    BY <1>1
  <2> QED
    BY <1>1, <2>1, SubSeqProperties
<1> DEFINE a == Tail(s)
           b == SubSeq(s, 1 + 1, Len(s))
<1>4. Len(a) = Len(b)
  BY <1>1, <1>2, <1>3
<1>5. \A j \in 1 .. Len(a) : a[j] = b[j]
  <2> TAKE j \in 1 .. Len(a)
  <2>1. j \in 1 .. Len(s) - (1 + 1) + 1 /\ (1 + 1) + j - 1 = j + 1
    BY <1>1, <1>2
  <2> QED
    BY <1>2, <1>3, <2>1
<1> HIDE DEF a, b
<1>6. a = b
  BY <1>2, <1>3, <1>4, <1>5, SeqEqual DEF a, b
<1> QED
  BY <1>6 DEF a, b

(* An entry that is no packet leaves the IQ.                                *)
LEMMA Passed ==
  ASSUME Scheduled, NEW c \in BOOLEAN, NEW q \in Queues, NEW T, NEW A, AgesOK(c, T, A), NEW R,
         NEW x, NEW i \in Nat, Standing(c, T, R, A, q, x, i), x.active = Idle,
         x.iq # <<>>, ~IsPacket(Prog(c, q)[i]), NEW y, Shape(y),
         y.fetched = x.fetched, y.pending = x.pending, y.active = x.active, y.iq = Tail(x.iq)
  PROVE  /\ i \in 1 .. Len(Prog(c, q)) /\ x.iq[1] = i
         /\ Fetching(c, q, y, Begin(Prog(c, q), i + 1))
         /\ Progress(c, T, Sent(c, T, A, 2), A, q, y, i + 1)
         /\ ~Waiting(T, q, i) /\ ~Waiting(T, q, i + 1)
<1> DEFINE p == Prog(c, q)
           I == Sent(c, T, A, 2)
<1>1. /\ x.pending = <<>> /\ Fetching(c, q, x, Begin(p, i)) /\ Progress(c, T, I, A, q, x, i)
  BY DEF Standing
<1>2. i \in 1 .. Len(p) /\ x.iq[1] = i /\ Len(p) \in Nat /\ i # 0
  <2>1. i \in 1 .. Len(p) + 1
    BY <1>1 DEF Progress
  <2>2. i \in 1 .. Len(p) /\ x.iq[1] = i
    BY <1>1, <2>1, AtHead
  <2> QED
    BY <2>2, ProgramType
<1>3. Begin(p, i + 1) = Begin(p, i) + 1 /\ Begin(p, i) \in Nat
  BY <1>2, BeginFacts
<1>4. x.iq \in Seq(Nat) /\ Len(x.iq) \in Nat /\ Len(x.iq) = (x.fetched - Len(x.pending)) - Begin(p, i) /\ Len(x.iq) >= 1
  <2>1. x.iq \in Seq(Nat) /\ Len(x.iq) = (x.fetched - Len(x.pending)) - Begin(p, i) /\ Len(x.iq) \in Nat
        /\ (x.iq = <<>> <=> Len(x.iq) = 0)
    BY <1>1, IqFacts
  <2> QED
    BY <2>1
<1>5. y.iq = SubSeq(Wordings(c, q), Begin(p, i + 1) + 1, x.fetched - Len(x.pending))
  <2>1. 1 \in 0 .. Len(x.iq)
    BY <1>4
  <2>2. SubSeq(x.iq, 1 + 1, Len(x.iq))
          = SubSeq(Wordings(c, q), (Begin(p, i) + 1) + 1, x.fetched - Len(x.pending))
    BY <1>1, <2>1, Advance
  <2>3. y.iq = SubSeq(x.iq, 1 + 1, Len(x.iq))
    BY <1>4, TailIs
  <2> HIDE DEF p
  <2> QED
    BY <1>3, <2>2, <2>3
<1>6. Fetching(c, q, y, Begin(p, i + 1))
  <2> DEFINE m == x.fetched - Len(x.pending)
  <2>1. /\ x.pending \in {<<>>, <<0>>} /\ x.fetched \in Nat /\ x.fetched <= Len(Wordings(c, q)) /\ m \in Nat
    BY <1>1 DEF Fetching
  <2>2. Begin(p, i + 1) \in Nat /\ Begin(p, i + 1) <= m
    <3> HIDE DEF p, m
    <3> QED
      BY <1>3, <1>4, <2>1 DEF m
  <2>3. y.pending \in {<<>>, <<0>>} /\ y.fetched \in Nat /\ y.fetched <= Len(Wordings(c, q))
        /\ y.fetched - Len(y.pending) = m /\ m \in Nat
    BY <2>1
  <2> HIDE DEF p
  <2> QED
    BY <1>5, <2>2, <2>3 DEF Fetching
<1>7. ASSUME NEW z \in Items(c), z[1][1] = q
      PROVE  z[1][2] # i /\ z[1][2] \in Nat /\ (z[1][2] < i => z \in I) /\ ~(z[1][2] >= i /\ z \in T)
  <2>1. z[1][2] \in Nat /\ IsPacket(p[z[1][2]])
    BY <1>7, SameQueue
  <2>2. z[1][2] < i => z \in I
    BY <1>1, <1>7 DEF Progress
  <2>3. z[1][2] >= i /\ z \in T => z[1][2] = i
    BY <1>1, <1>7 DEF Progress
  <2> QED
    BY <2>1, <2>2, <2>3
<1>8. Progress(c, T, I, A, q, y, i + 1)
  <2>1. i + 1 \in 1 .. Len(p) + 1
    BY <1>2
  <2>2. ASSUME NEW z \in Items(c), z[1][1] = q
        PROVE  /\ z[1][2] < i + 1 => z \in I
               /\ ~(z[1][2] >= i + 1 /\ z \in T)
    BY <1>2, <1>7, <2>2
  <2> HIDE DEF I
  <2> QED
    BY <2>1, <2>2 DEF Progress
<1>9. ~Waiting(T, q, i) /\ ~Waiting(T, q, i + 1)
  <2>1. T \subseteq Items(c)
    BY DEF AgesOK
  <2>2. ~Waiting(T, q, i)
    BY <1>7, <2>1 DEF Waiting
  <2>3. ~Waiting(T, q, i + 1)
    <3> SUFFICES ASSUME NEW z \in T, z[1][1] = q, z[1][2] >= i + 1 PROVE FALSE
      BY DEF Waiting
    <3>1. z[1][2] \in Nat /\ ~(z[1][2] >= i)
      BY <1>7, <2>1
    <3> QED
      BY <3>1
  <2> QED
    BY <2>2, <2>3
<1> QED
  BY <1>2, <1>6, <1>8, <1>9

(* A WAIT_EVENT takes its token: its page is there.                         *)
LEMMA ReleasedOne ==
  ASSUME Scheduled, NEW c \in BOOLEAN, barriers = c, NEW q \in Queues, NEW T, NEW A, AgesOK(c, T, A), NEW R,
         NEW x, NEW i \in Nat, Standing(c, T, R, A, q, x, i), x.active = Idle
  PROVE  \E j \in Nat : Standing(c, T, R, A, q, ReleaseOne(x, q), j) /\ ReleaseOne(x, q).active = Idle
<1> DEFINE y == ReleaseOne(x, q)
           e == Program(q)[x.iq[1]]
           I == Sent(c, T, A, 2)
           s == x.tokens
           L == Least(TokensFor(x, e.event))
           w == [Erase(x, e.event) EXCEPT !.iq = Tail(x.iq)]
<1>1. CASE ~(x.iq # <<>> /\ e.op = "wait" /\ TokensFor(x, e.event) # {})
  <2>1. y = x
    BY <1>1 DEF ReleaseOne
  <2> QED
    BY <2>1
<1>2. CASE x.iq # <<>> /\ e.op = "wait" /\ TokensFor(x, e.event) # {}
  <2>0. /\ Shape(x) /\ x.out = None /\ x.pending = <<>> /\ Fetching(c, q, x, Begin(Prog(c, q), i))
        /\ Progress(c, T, I, A, q, x, i) /\ Waits(c, R, q, i) /\ Tokens(c, T, I, R, A, q, s)
    BY DEF Standing
  <2>1. PICK f, pp, iq0, aa, t, o : x = [fetched |-> f, pending |-> pp, iq |-> iq0, active |-> aa, tokens |-> t, out |-> o]
    BY <2>0 DEF Shape
  <2>2. y = w
    <3>1. Erase(x, e.event).iq = x.iq
      <4> DEFINE r0 == RemoveAt(s, L)
      <4>1. Erase(x, e.event) = [x EXCEPT !.tokens = r0]
        BY DEF Erase
      <4> HIDE DEF r0
      <4> QED
        BY <2>1, <4>1
    <3>2. y = [Erase(x, e.event) EXCEPT !.iq = Tail(@)]
      BY <1>2 DEF ReleaseOne
    <3>3. PICK er : er = Erase(x, e.event)
      OBVIOUS
    <3>4. [er EXCEPT !.iq = Tail(@)] = [er EXCEPT !.iq = Tail(x.iq)]
      BY <3>1, <3>3
    <3> QED
      BY <3>2, <3>3, <3>4
  <2>3. w = [fetched |-> f, pending |-> pp, iq |-> Tail(x.iq), active |-> aa, tokens |-> RemoveAt(s, L), out |-> o]
    <3> DEFINE r0 == RemoveAt(s, L)
               tl == Tail(x.iq)
    <3>1. Erase(x, e.event) = [x EXCEPT !.tokens = r0]
      BY DEF Erase
    <3>2. PICK er : er = Erase(x, e.event)
      OBVIOUS
    <3> HIDE DEF r0, tl
    <3>3. er = [fetched |-> f, pending |-> pp, iq |-> iq0, active |-> aa, tokens |-> r0, out |-> o]
      BY <2>1, <3>1, <3>2
    <3>4. [er EXCEPT !.iq = tl] = [fetched |-> f, pending |-> pp, iq |-> tl, active |-> aa, tokens |-> r0, out |-> o]
      BY <3>3
    <3> QED
      BY <3>2, <3>4 DEF r0, tl
  <2> HIDE DEF w
  <2>4. /\ Shape(y) /\ y.fetched = x.fetched /\ y.pending = x.pending /\ y.active = x.active
        /\ y.iq = Tail(x.iq) /\ y.tokens = RemoveAt(s, L) /\ y.out = x.out
    <3> DEFINE r0 == RemoveAt(s, L)
               tl == Tail(x.iq)
    <3>1. y = [fetched |-> f, pending |-> pp, iq |-> tl, active |-> aa, tokens |-> r0, out |-> o]
      BY <2>2, <2>3
    <3> HIDE DEF r0, tl, y
    <3> QED
      BY <2>1, <3>1 DEF Shape, r0, tl
  <2> HIDE DEF y
  <2>5. i \in 1 .. Len(Prog(c, q)) /\ x.iq[1] = i
    <3>1. i \in 1 .. Len(Prog(c, q)) + 1
      BY <2>0 DEF Progress
    <3> QED
      BY <1>2, <2>0, <3>1, AtHead
  <2>6. e = Prog(c, q)[i]
    BY <2>5 DEF Program, Prog
  <2>7. ~IsPacket(Prog(c, q)[i]) /\ q[1] = "native" /\ i \in DOMAIN Prog(c, q) /\ Prog(c, q)[i].op = "wait"
    BY <1>2, <2>5, <2>6, ProgramType DEF IsPacket
  <2>8. /\ Fetching(c, q, y, Begin(Prog(c, q), i + 1)) /\ Progress(c, T, I, A, q, y, i + 1)
        /\ ~Waiting(T, q, i + 1)
    <3> HIDE DEF I
    <3> QED
      BY <1>2, <2>4, <2>7, Passed DEF I
  <2>9. L \in 1 .. Len(s) /\ s[L].tag = Prog(c, q)[i].event
    <3>1. s \in Seq(ToSet(s))
      BY <2>0 DEF Tokens
    <3>2. TokensFor(x, Prog(c, q)[i].event) # {}
      BY <1>2, <2>6
    <3> HIDE DEF s
    <3>3. s = x.tokens
      BY DEF s
    <3>4. LET j == Least(TokensFor(x, Prog(c, q)[i].event))
          IN j \in 1 .. Len(s) /\ s[j].tag = Prog(c, q)[i].event
      BY <3>1, <3>2, <3>3, LeastToken
    <3> QED
      BY <2>6, <3>4
  <2> HIDE DEF L, e
  <2>10. \A z \in T : z[1][1] = q => TokenOf(c, A, z) # s[L]
    <3> SUFFICES ASSUME NEW z \in T, z[1][1] = q PROVE TokenOf(c, A, z).tag # s[L].tag
      OBVIOUS
    <3>1. z \in Items(c)
      BY DEF AgesOK
    <3>2. z[1] \in PacketTable[c] /\ BankOf(z[1]) = q[2]
      BY <3>1, SameQueue DEF Bank
    <3>3. Entry(c, z[1]).tag # Prog(c, q)[i].event
      BY <2>7, <3>2, EventTag
    <3> QED
      BY <2>9, <3>3 DEF TokenOf
  <2>11. AllIn(c, R, q[2], Prog(c, q)[i].launch)
    <3>1. EventToken(c, R, q, s[L])
      <4>1. (\E z \in T \ I : z[1][1] = q /\ s[L] = TokenOf(c, A, z)) \/ EventToken(c, R, q, s[L])
        BY <2>0, <2>9 DEF Tokens
      <4> QED
        BY <2>10, <4>1
    <3>2. PICK j \in DOMAIN Prog(c, q) : /\ Prog(c, q)[j].op = "wait" /\ Prog(c, q)[j].event = s[L].tag
                                         /\ AllIn(c, R, q[2], Prog(c, q)[j].launch)
      BY <3>1 DEF EventToken
    <3>3. Prog(c, q)[j].launch = Prog(c, q)[i].launch
      <4>1. q[2] \in Banks /\ Prog(c, q) = Programs[c]["native"][q[2]]
        BY <2>7 DEF Queues, Prog
      <4> QED
        BY <2>7, <2>9, <3>2, <4>1 DEF Scheduled, EventsApart
    <3> QED
      BY <3>2, <3>3
  <2>12. Waits(c, R, q, i + 1)
    <3>1. \A j \in 1 .. (i + 1) - 1 : j \in 1 .. i - 1 \/ j = i
      OBVIOUS
    <3> QED
      BY <2>0, <2>11, <3>1 DEF Waits
  <2>13. Tokens(c, T, I, R, A, q, y.tokens)
    <3>1. y.tokens = RemoveAt(s, L)
      BY <2>4
    <3>2. \A z \in T \ I : z[1][1] = q => TokenOf(c, A, z) # s[L]
      BY <2>10
    <3>3. \A m \in 1 .. Len(s), z \in T \ I :
            m # L /\ z[1][1] = q /\ s[m] = TokenOf(c, A, z) => z \notin I
      OBVIOUS
    <3> HIDE DEF I, s
    <3> QED
      BY <2>0, <2>9, <3>1, <3>2, <3>3, TokenTaken
  <2>14. Standing(c, T, R, A, q, y, i + 1)
    BY <2>0, <2>4, <2>8, <2>12, <2>13 DEF Standing
  <2> QED
    BY <2>4, <2>14 DEF y
<1> QED
  BY <1>1, <1>2

(* The WAIT_EVENTs released in a cycle, one after the other.                *)
IsRun(f, m, x, q) ==
  f = [n \in 0 .. m |-> IF n = 0 THEN x ELSE ReleaseOne(f[n - 1], q)]

LEMMA RunExists ==
  ASSUME NEW x, NEW q, NEW m \in Nat
  PROVE  \E f : IsRun(f, m, x, q)
<1> DEFINE bad == {n \in Nat : ~\E f : IsRun(f, n, x, q)}
<1>1. SUFFICES ASSUME bad # {} PROVE FALSE
  OBVIOUS
<1>2. PICK n \in bad : \A k \in bad : n <= k
  <2>1. bad \subseteq Nat
    OBVIOUS
  <2> HIDE DEF bad
  <2> QED
    BY <1>1, <2>1, Minimum
<1>3. n # 0
  <2> SUFFICES ASSUME n = 0 PROVE \E f : IsRun(f, n, x, q)
    BY <1>2
  <2> DEFINE f == [k \in 0 .. 0 |-> x]
  <2>1. f = [k \in 0 .. 0 |-> IF k = 0 THEN x ELSE ReleaseOne(f[k - 1], q)]
    <3>1. \A k \in 0 .. 0 : k = 0
      OBVIOUS
    <3> QED
      BY <3>1
  <2> QED
    BY <2>1 DEF IsRun
<1>4. n - 1 \in Nat /\ n - 1 \notin bad
  <2>1. n \in Nat
    BY <1>2
  <2>2. n - 1 \in Nat /\ ~(n <= n - 1)
    BY <1>3, <2>1
  <2> HIDE DEF bad
  <2> QED
    BY <1>2, <2>2
<1>5. PICK g : IsRun(g, n - 1, x, q)
  BY <1>4
<1> DEFINE f == [k \in 0 .. n |-> IF k = 0 THEN x ELSE ReleaseOne(g[k - 1], q)]
<1>6. g = [k \in 0 .. n - 1 |-> IF k = 0 THEN x ELSE ReleaseOne(g[k - 1], q)]
  BY <1>5 DEF IsRun
<1>7. ASSUME NEW k \in 0 .. n, k # 0 PROVE g[k - 1] = f[k - 1]
  <2>1. k - 1 \in 0 .. n - 1 /\ k - 1 \in 0 .. n
    BY <1>7
  <2>2. g[k - 1] = IF k - 1 = 0 THEN x ELSE ReleaseOne(g[(k - 1) - 1], q)
    BY <1>6, <2>1
  <2> QED
    BY <2>1, <2>2
<1>8. f = [k \in 0 .. n |-> IF k = 0 THEN x ELSE ReleaseOne(f[k - 1], q)]
  <2>1. \A k \in 0 .. n : (IF k = 0 THEN x ELSE ReleaseOne(g[k - 1], q)) = (IF k = 0 THEN x ELSE ReleaseOne(f[k - 1], q))
    BY <1>7
  <2> QED
    BY <2>1
<1>9. IsRun(f, n, x, q)
  BY <1>8 DEF IsRun
<1> QED
  BY <1>2, <1>9

LEMMA ReleasedAll ==
  ASSUME Scheduled, NEW c \in BOOLEAN, barriers = c, NEW q \in Queues, NEW T, NEW A, AgesOK(c, T, A), NEW R,
         NEW x, NEW i \in Nat, Standing(c, T, R, A, q, x, i), x.active = Idle
  PROVE  \E j \in Nat : Standing(c, T, R, A, q, Release(x, q), j) /\ Release(x, q).active = Idle
<1> DEFINE m == Len(x.iq)
<1>1. m \in Nat
  <2>1. Fetching(c, q, x, Begin(Prog(c, q), i))
    BY DEF Standing
  <2> QED
    BY <2>1, IqFacts
<1> HIDE DEF m
<1> DEFINE f == CHOOSE f : IsRun(f, m, x, q)
<1>2. IsRun(f, m, x, q)
  BY <1>1, RunExists
<1>3. Release(x, q) = f[m]
  BY DEF Release, IsRun, m
<1> HIDE DEF f
<1> DEFINE good(y) == \E j \in Nat : Standing(c, T, R, A, q, y, j) /\ y.active = Idle
           bad == {n \in Nat : n <= m /\ ~good(f[n])}
<1>4. f = [n \in 0 .. m |-> IF n = 0 THEN x ELSE ReleaseOne(f[n - 1], q)]
  BY <1>2 DEF IsRun
<1>5. good(f[0])
  <2>1. f[0] = x
    BY <1>1, <1>4
  <2> QED
    BY <2>1
<1>6. bad = {}
  <2> SUFFICES ASSUME bad # {} PROVE FALSE
    OBVIOUS
  <2>1. bad \subseteq Nat
    OBVIOUS
  <2>2. PICK n \in bad : \A k \in bad : n <= k
    <3> HIDE DEF bad
    <3> QED
      BY <2>1, Minimum
  <2> HIDE DEF good
  <2>3. n \in Nat /\ n <= m /\ ~good(f[n]) /\ n # 0
    BY <1>5, <2>2
  <2>4. n - 1 \in Nat /\ n - 1 <= m /\ ~(n <= n - 1) /\ n \in 0 .. m
    BY <1>1, <2>3
  <2>5. good(f[n - 1])
    BY <2>2, <2>4
  <2>6. f[n] = ReleaseOne(f[n - 1], q)
    BY <1>4, <2>3, <2>4
  <2>7. good(ReleaseOne(f[n - 1], q))
    BY <2>5, ReleasedOne DEF good
  <2> QED
    BY <2>3, <2>6, <2>7
<1>7. good(f[m])
  <2> HIDE DEF good
  <2> QED
    BY <1>1, <1>6
<1> QED
  BY <1>3, <1>7

(* A Read at the head: its page is there, and no Write of its bank is due.  *)
LEMMA ReadDispatched ==
  ASSUME Scheduled, NEW c \in BOOLEAN, barriers = c, NEW q \in Queues, NEW T, NEW A, AgesOK(c, T, A), NEW R,
         NEW x, NEW i \in Nat, Standing(c, T, R, A, q, x, i), x.active = Idle,
         x.iq # <<>>, ~IsPacket(Program(q)[x.iq[1]]), Program(q)[x.iq[1]].op # "wait",
         NEW y, y = IssueRead(x, q)
  PROVE  Dispatched(c, T, R, A, q, y) /\ Outcome(c, T, R, A, q, y.out)
<1> DEFINE I == Sent(c, T, A, 2)
           J == Sent(c, T, A, 1)
           s == x.tokens
           p == Prog(c, q)
           b == q[2]
<1>0. /\ Shape(x) /\ x.out = None /\ x.pending = <<>> /\ Fetching(c, q, x, Begin(p, i))
      /\ Progress(c, T, I, A, q, x, i) /\ Waits(c, R, q, i) /\ Tokens(c, T, I, R, A, q, s)
  BY DEF Standing
<1>1. i \in 1 .. Len(p) /\ x.iq[1] = i
  <2>1. i \in 1 .. Len(p) + 1
    BY <1>0 DEF Progress
  <2> QED
    BY <1>0, <2>1, AtHead
<1>2. Program(q)[x.iq[1]] = p[i]
  BY <1>1 DEF Program, Prog
<1>3. ~IsPacket(p[i]) /\ q[1] = "native" /\ i \in DOMAIN p /\ p[i].op = "read" /\ DOMAIN p = 1 .. Len(p)
  <2>1. p[i].op # "wait" /\ ~IsPacket(p[i])
    BY <1>2
  <2> QED
    BY <1>1, <2>1, ProgramType
<1>4. b \in Banks /\ p = Programs[c]["native"][b] /\ q = <<"native", b>>
  BY <1>3 DEF Queues, Prog
<1>5. i \in ReadsOf(c, b)
  BY <1>3, <1>4 DEF ReadsOf
<1> DEFINE o == [op |-> "read", row |-> p[i].row, stream |-> p[i].stream, launch |-> 0, sees |-> p[i].sees]
<1>6. /\ Shape(y) /\ y.fetched = x.fetched /\ y.pending = x.pending /\ y.active = x.active
      /\ y.iq = Tail(x.iq) /\ y.tokens = s /\ y.out = o
  <2>1. PICK f, pp, iq0, aa, t, o0 : x = [fetched |-> f, pending |-> pp, iq |-> iq0, active |-> aa, tokens |-> t, out |-> o0]
    BY <1>0 DEF Shape
  <2>2. y = [x EXCEPT !.iq = Tail(x.iq), !.out = o]
    <3> HIDE DEF p
    <3> QED
      BY <1>2 DEF IssueRead
  <2> DEFINE tl == Tail(x.iq)
  <2> HIDE DEF o, tl, p
  <2>3. y = [x EXCEPT !.iq = tl, !.out = o]
    BY <2>2 DEF tl
  <2>4. y = [fetched |-> f, pending |-> pp, iq |-> tl, active |-> aa, tokens |-> t, out |-> o]
    BY <2>1, <2>3
  <2>5. Shape(y)
    BY <2>4 DEF Shape
  <2> QED
    BY <2>1, <2>4, <2>5 DEF tl
<1>7. /\ Fetching(c, q, y, Begin(p, i + 1)) /\ Progress(c, T, I, A, q, y, i + 1)
      /\ ~Waiting(T, q, i) /\ ~Waiting(T, q, i + 1)
  <2> HIDE DEF I, o
  <2> QED
    BY <1>3, <1>6, Passed DEF I
<1>8. Waits(c, R, q, i + 1)
  <2>1. \A j \in 1 .. (i + 1) - 1 : j \in 1 .. i - 1 \/ j = i
    OBVIOUS
  <2> HIDE DEF p
  <2> QED
    BY <1>0, <1>3, <2>1 DEF Waits, p
<1>9. /\ NoneDue(c, T, A, q) /\ Progress(c, T, J, A, q, y, i + 1)
      /\ \A w \in Items(c) : w[1][1] = q => (w \in J <=> w \in I)
  <2> HIDE DEF I, J
  <2> QED
    BY <1>6, <1>7, IdleQueue DEF I, J
<1>10. Tokens(c, T, J, R, A, q, y.tokens)
  <2>1. T \subseteq Items(c)
    BY DEF AgesOK
  <2> HIDE DEF I, J
  <2> QED
    BY <1>0, <1>6, <1>9, <2>1, SameTokens
<1>11. Dispatched(c, T, R, A, q, y)
  <2>1. i + 1 \in Nat
    OBVIOUS
  <2> HIDE DEF I, o
  <2> QED
    BY <1>0, <1>6, <1>7, <1>8, <1>9, <1>10, <2>1 DEF Dispatched, DispatchedAt
<1>12. /\ \E k \in PacketTable[c] :
            LET e == Entry(c, k)
            IN /\ BankOf(k) = b
               /\ (k[1] = <<"native", b>> /\ k[2] < i) \/ Waited(c, b, i, e.launch)
               /\ \E n \in 1 .. e.count : p[i].row = RowOf(e, n) /\ p[i].sees = VectorsOf[<<b, e.tag>>][n]
       /\ \A k \in PacketTable[c] : k[1] = <<"transport", b>> => Waited(c, b, i, Entry(c, k).launch)
  <2>1. ReadsAwait(c)
    BY DEF Scheduled
  <2>2. LET r == Programs[c]["native"][b][i] IN
        /\ \E k \in PacketTable[c] :
             LET e == Entry(c, k)
             IN /\ BankOf(k) = b
                /\ (k[1] = <<"native", b>> /\ k[2] < i) \/ Waited(c, b, i, e.launch)
                /\ \E n \in 1 .. e.count : r.row = RowOf(e, n) /\ r.sees = VectorsOf[<<b, e.tag>>][n]
        /\ \A k \in PacketTable[c] : k[1] = <<"transport", b>> => Waited(c, b, i, Entry(c, k).launch)
    <3> HIDE DEF b
    <3> QED
      BY <1>4, <1>5, <2>1 DEF ReadsAwait
  <2> QED
    BY <1>4, <2>2
<1>13. ASSUME NEW launch, Waited(c, b, i, launch) PROVE AllIn(c, R, b, launch)
  <2>1. PICK j \in 1 .. i - 1 : p[j].op = "wait" /\ p[j].launch = launch
    BY <1>4, <1>13 DEF Waited
  <2> HIDE DEF p
  <2> QED
    BY <1>0, <1>3, <2>1 DEF Waits, p
<1>14. \E z \in Items(c) : /\ Bank(z) = b /\ Row(c, z) = p[i].row /\ Vector(c, z) = p[i].sees
                           /\ z \in I \/ z \in R
  <2>1. PICK k \in PacketTable[c] :
            LET e == Entry(c, k)
            IN /\ BankOf(k) = b
               /\ (k[1] = <<"native", b>> /\ k[2] < i) \/ Waited(c, b, i, e.launch)
               /\ \E n \in 1 .. e.count : p[i].row = RowOf(e, n) /\ p[i].sees = VectorsOf[<<b, e.tag>>][n]
    BY <1>12
  <2>2. PICK n \in 1 .. Entry(c, k).count : p[i].row = RowOf(Entry(c, k), n)
                                            /\ p[i].sees = VectorsOf[<<b, Entry(c, k).tag>>][n]
    BY <2>1
  <2> DEFINE z == <<k, n>>
  <2>3. z \in Items(c) /\ z[1] = k /\ z[2] = n
    BY IsItem
  <2>4. Bank(z) = b /\ Row(c, z) = p[i].row /\ Vector(c, z) = p[i].sees /\ Launch(c, z) = Entry(c, k).launch
    BY <2>1, <2>2, <2>3 DEF Bank, Row, Vector, TagOf, Launch
  <2> HIDE DEF z
  <2>5. CASE k[1] = <<"native", b>> /\ k[2] < i
    <3>1. z \in I
      BY <1>0, <1>4, <2>3, <2>5 DEF Progress
    <3> QED
      BY <2>3, <2>4, <3>1
  <2>6. CASE Waited(c, b, i, Entry(c, k).launch)
    <3>1. z \in R
      BY <1>13, <2>3, <2>4, <2>6 DEF AllIn
    <3> QED
      BY <2>3, <2>4, <3>1
  <2> QED
    BY <2>1, <2>5, <2>6
<1>15. \A z \in Items(c) : z[1][1] = <<"transport", b>> => z \in R
  <2> TAKE z \in Items(c)
  <2> HAVE z[1][1] = <<"transport", b>>
  <2>1. z[1] \in PacketTable[c] /\ Bank(z) = b
    BY ItemFacts DEF Bank, BankOf
  <2>2. AllIn(c, R, b, Entry(c, z[1]).launch)
    BY <1>12, <1>13, <2>1
  <2> QED
    BY <2>1, <2>2 DEF AllIn, Launch
<1>16. ReadIssued(c, T, R, A, q, y.out)
  <2> HIDE DEF I
  <2> QED
    BY <1>3, <1>5, <1>6, <1>14, <1>15 DEF ReadIssued, I
<1> QED
  BY <1>9, <1>11, <1>16 DEF Outcome

LEMMA ActiveEntry ==
  ASSUME Scheduled, NEW c \in BOOLEAN, NEW q \in Queues, NEW T, NEW I, NEW A, NEW x, NEW i,
         Progress(c, T, I, A, q, x, i), x.active # Idle
  PROVE  x.active.entry # 0 /\ x.active.entry = i - 1 /\ HasPackets(c, q)
<1>1. Open(c, I, q, x.active, i)
  BY DEF Progress
<1>2. <<q, i - 1>> \in PacketTable[c] /\ x.active.entry = i - 1
  BY <1>1 DEF Open
<1>3. <<q, i - 1>>[2] = i - 1 /\ <<q, i - 1>>[1] = q
  OBVIOUS
<1>4. i - 1 \in 1 .. Len(Prog(c, q))
  BY <1>2, <1>3, PacketFacts, ProgramType
<1> QED
  BY <1>2, <1>3, <1>4 DEF HasPackets

(* Only the packet at the head may have a vector that it has not opened for. *)
LEMMA NotWaiting ==
  ASSUME Scheduled, NEW c \in BOOLEAN, barriers = c, NEW q \in Queues, NEW T, NEW A, AgesOK(c, T, A), NEW R,
         NEW x, NEW i \in Nat, Standing(c, T, R, A, q, x, i), ~AtPacket(x, q)
  PROVE  x.active = Idle /\ ~Waiting(T, q, i)
<1>1. Fetching(c, q, x, Begin(Prog(c, q), i)) /\ Progress(c, T, Sent(c, T, A, 2), A, q, x, i)
  BY DEF Standing
<1>2. x.active = Idle
  BY <1>1, ActiveEntry DEF AtPacket
<1>3. SUFFICES ASSUME NEW z \in T, z[1][1] = q, z[1][2] >= i PROVE FALSE
  BY <1>2 DEF Waiting
<1>4. z \in Items(c)
  BY DEF AgesOK
<1>5. z[1][2] = i /\ x.iq # <<>>
  BY <1>1, <1>3, <1>4 DEF Progress
<1>6. IsPacket(Prog(c, q)[i])
  BY <1>3, <1>4, <1>5, SameQueue
<1>7. x.iq[1] = i
  <2>1. i \in 1 .. Len(Prog(c, q)) + 1
    BY <1>1 DEF Progress
  <2> QED
    BY <1>1, <1>5, <2>1, AtHead
<1>8. Program(q)[x.iq[1]] = Prog(c, q)[i]
  BY <1>7 DEF Program, Prog
<1> QED
  BY <1>5, <1>6, <1>8 DEF AtPacket

LEMMA TickedAny ==
  ASSUME Scheduled, NEW c \in BOOLEAN, barriers = c, NEW q \in Queues, NEW T, NEW A, AgesOK(c, T, A), NEW R,
         NEW x, NEW i \in Nat, Standing(c, T, R, A, q, x, i), AtPacket(x, q)
  PROVE  /\ Dispatched(c, T, R, A, q, TickSynchronized(x, q))
         /\ Outcome(c, T, R, A, q, TickSynchronized(x, q).out)
<1>1. CASE x.active = Idle
  BY <1>1, Opened
<1>2. CASE x.active # Idle
  BY <1>2, Ticked
<1> QED
  BY <1>1, <1>2

LEMMA RestsAny ==
  ASSUME Scheduled, NEW c \in BOOLEAN, barriers = c, NEW q \in Queues, NEW T, NEW A, AgesOK(c, T, A), NEW R,
         NEW x, NEW i \in Nat, Standing(c, T, R, A, q, x, i), ~AtPacket(x, q)
  PROVE  Dispatched(c, T, R, A, q, x) /\ Outcome(c, T, R, A, q, x.out)
<1>1. x.active = Idle /\ ~Waiting(T, q, i)
  BY NotWaiting
<1>2. DispatchedAt(c, T, R, A, q, x, i) /\ NoneDue(c, T, A, q)
  BY <1>1, Rests
<1>3. x.out = None
  BY DEF Standing
<1> QED
  BY <1>2, <1>3 DEF Dispatched, Outcome

LEMMA DispatchKeeps ==
  ASSUME Scheduled, NEW c \in BOOLEAN, barriers = c, NEW q \in Queues, NEW T, NEW A, AgesOK(c, T, A), NEW R,
         NEW x, NEW i \in Nat, Standing(c, T, R, A, q, x, i)
  PROVE  /\ Dispatched(c, T, R, A, q, DispatchReady(x, q))
         /\ Outcome(c, T, R, A, q, DispatchReady(x, q).out)
<1>1. PICK w : w = IF x.active.entry # 0 THEN x ELSE Release(x, q)
  OBVIOUS
<1>2. PICK j \in Nat : Standing(c, T, R, A, q, w, j)
  <2>1. CASE x.active = Idle
    <3>1. x.active.entry = 0
      BY <2>1 DEF Idle
    <3>2. \E j \in Nat : Standing(c, T, R, A, q, Release(x, q), j) /\ Release(x, q).active = Idle
      BY <2>1, ReleasedAll
    <3> QED
      BY <1>1, <3>1, <3>2
  <2>2. CASE x.active # Idle
    <3>1. Progress(c, T, Sent(c, T, A, 2), A, q, x, i)
      BY DEF Standing
    <3>2. x.active.entry # 0
      BY <2>2, <3>1, ActiveEntry
    <3> QED
      BY <1>1, <3>2
  <2> QED
    BY <2>1, <2>2
<1>3. PICK y : y = DispatchReady(x, q)
  OBVIOUS
<1>4. y = IF AtPacket(w, q) THEN TickSynchronized(w, q)
          ELSE IF w.iq = <<>> \/ Program(q)[w.iq[1]].op = "wait" THEN w ELSE IssueRead(w, q)
  BY <1>1, <1>3 DEF DispatchReady
<1>5. CASE AtPacket(w, q)
  BY <1>2, <1>3, <1>4, <1>5, TickedAny
<1>6. CASE ~AtPacket(w, q) /\ (w.iq = <<>> \/ Program(q)[w.iq[1]].op = "wait")
  BY <1>2, <1>3, <1>4, <1>6, RestsAny
<1>7. CASE ~AtPacket(w, q) /\ ~(w.iq = <<>> \/ Program(q)[w.iq[1]].op = "wait")
  <2>1. w.active = Idle
    BY <1>2, <1>7, NotWaiting
  <2>2. w.iq # <<>> /\ ~IsPacket(Program(q)[w.iq[1]]) /\ Program(q)[w.iq[1]].op # "wait" /\ y = IssueRead(w, q)
    BY <1>4, <1>7 DEF AtPacket
  <2>3. Dispatched(c, T, R, A, q, y) /\ Outcome(c, T, R, A, q, y.out)
    BY <1>2, <2>1, <2>2, ReadDispatched
  <2> QED
    BY <1>3, <2>3
<1> QED
  BY <1>5, <1>6, <1>7

----------------------------------------------------------------------------
(* A cycle passes.                                                          *)

Older(c, T, A) == [y \in Items(c) |-> IF y \in T THEN A[y] + 1 ELSE A[y]]

LEMMA OlderFacts ==
  ASSUME Scheduled, NEW c \in BOOLEAN, NEW T, NEW A, AgesOK(c, T, A)
  PROVE  /\ AgesOK(c, T, Older(c, T, A)) /\ \A y \in T : Older(c, T, A)[y] = A[y] + 1
         /\ Sent(c, T, Older(c, T, A), 2) = Sent(c, T, A, 1)
         /\ \A y \in T : Older(c, T, A)[y] >= 1
<1> DEFINE B == Older(c, T, A)
<1>1. T \subseteq Items(c) /\ A \in [Items(c) -> Nat]
  BY DEF AgesOK
<1>2. /\ B \in [Items(c) -> Nat] /\ \A y \in T : B[y] = A[y] + 1 /\ A[y] \in Nat
      /\ \A y \in Items(c) : y \notin T => B[y] = A[y]
  BY <1>1 DEF Older
<1>3. \A y \in Items(c) : Lag(c, y) \in Nat
  BY ItemFacts
<1> HIDE DEF B
<1>4. Sent(c, T, B, 2) = Sent(c, T, A, 1)
  BY <1>1, <1>2, <1>3 DEF Sent
<1>5. AgesOK(c, T, B)
  <2>1. \A y \in Items(c), z \in T : y[1] = z[1] /\ y[2] < z[2] => y \in T /\ B[y] > B[z]
    BY <1>1, <1>2 DEF AgesOK
  <2>2. \A y \in Items(c) : y \notin T => B[y] = 0
    BY <1>2 DEF AgesOK
  <2>3. \A y, z \in T : Lane(c, y) = Lane(c, z) /\ B[y] = B[z] => y = z
    BY <1>1, <1>2 DEF AgesOK
  <2> QED
    BY <1>1, <1>2, <2>1, <2>2, <2>3 DEF AgesOK
<1>6. \A y \in T : B[y] >= 1
  BY <1>2
<1> QED
  BY <1>2, <1>4, <1>5, <1>6 DEF B

(* commit_ready_fetch: the queue stands ready.                              *)
LEMMA Stands ==
  ASSUME Scheduled, NEW c \in BOOLEAN, barriers = c, NEW q \in Queues, NEW T, NEW A, AgesOK(c, T, A), NEW R,
         NEW x, Shape(x), x.out = None, QueueOK(c, T, Sent(c, T, A, 2), R, A, q, x),
         NEW y, y = CommitReadyFetch(x, q)
  PROVE  /\ \E i \in Nat : Standing(c, T, R, A, q, y, i)
         /\ y.fetched = Len(Wordings(c, q)) \/ y.iq # <<>>
<1> DEFINE I == Sent(c, T, A, 2)
<1>1. PICK i \in Nat : /\ Fetching(c, q, x, Begin(Prog(c, q), i)) /\ Supplied(c, q, x)
                       /\ Progress(c, T, I, A, q, x, i) /\ Waits(c, R, q, i)
                       /\ Tokens(c, T, I, R, A, q, x.tokens)
  BY DEF QueueOK
<1> HIDE DEF I
<1>2. /\ Shape(y) /\ y.fetched = x.fetched /\ y.pending = <<>> /\ y.active = x.active
      /\ y.tokens = x.tokens /\ y.out = x.out
      /\ Fetching(c, q, y, Begin(Prog(c, q), i))
      /\ x.iq # <<>> => y.iq # <<>>
      /\ y.fetched = Len(Wordings(c, q)) \/ y.iq # <<>>
      /\ x.iq # <<>> /\ HasPackets(c, q) =>
           y.fetched = Len(Wordings(c, q)) \/ Len(y.iq) >= 2
  BY <1>1, Committed
<1>3. Progress(c, T, I, A, q, y, i)
  BY <1>1, <1>2 DEF Progress
<1>4. ASSUME Waiting(T, q, i) PROVE Len(y.iq) >= 2
  <2>1. PICK z \in T : z[1][1] = q /\ z[1][2] >= i
    BY <1>4 DEF Waiting
  <2>2. z \in Items(c)
    BY DEF AgesOK
  <2>3. z[1][2] = i /\ x.iq # <<>>
    BY <1>1, <2>1, <2>2 DEF Progress
  <2>4. IsPacket(Prog(c, q)[i]) /\ i \in 1 .. Len(Prog(c, q)) /\ HasPackets(c, q)
    BY <2>1, <2>2, <2>3, SameQueue DEF HasPackets
  <2>5. i \in 1 .. Len(Prog(c, q)) + 1
    BY <1>1 DEF Progress
  <2> QED
    BY <1>2, <2>3, <2>4, <2>5, AtHead
<1>5. Standing(c, T, R, A, q, y, i)
  BY <1>1, <1>2, <1>3, <1>4 DEF Standing, I
<1> QED
  BY <1>2, <1>5

LEMMA FetchesAged ==
  ASSUME NEW y, Shape(y), y.pending = <<>>
  PROVE  /\ Shape(AgeFetches(y)) /\ AgeFetches(y).fetched = y.fetched /\ AgeFetches(y).pending = <<>>
         /\ AgeFetches(y).iq = y.iq /\ AgeFetches(y).active = y.active
         /\ AgeFetches(y).tokens = y.tokens /\ AgeFetches(y).out = y.out
<1>1. PICK f, p, w, a, t, o : y = [fetched |-> f, pending |-> p, iq |-> w, active |-> a, tokens |-> t, out |-> o]
  BY DEF Shape
<1>2. PICK z : z = [k \in DOMAIN p |-> IF p[k] > 0 THEN p[k] - 1 ELSE 0]
  OBVIOUS
<1>3. z = <<>>
  BY <1>1, <1>2
<1>4. AgeFetches(y) = [y EXCEPT !.pending = z]
  BY <1>1, <1>2 DEF AgeFetches
<1>5. [y EXCEPT !.pending = z] = [fetched |-> f, pending |-> z, iq |-> w, active |-> a, tokens |-> t, out |-> o]
  BY <1>1
<1>6. PICK r : r = AgeFetches(y)
  OBVIOUS
<1>7. r = [fetched |-> f, pending |-> z, iq |-> w, active |-> a, tokens |-> t, out |-> o]
  BY <1>4, <1>5, <1>6
<1>8. Shape(r)
  BY <1>7 DEF Shape
<1>9. r.fetched = f /\ r.pending = z /\ r.iq = w /\ r.active = a /\ r.tokens = t /\ r.out = o
  BY <1>7
<1>10. y.fetched = f /\ y.iq = w /\ y.active = a /\ y.tokens = t /\ y.out = o
  BY <1>1
<1> QED
  BY <1>3, <1>6, <1>8, <1>9, <1>10

(* The next fetch: the IQ is supplied again.                                *)
LEMMA FetchBegun ==
  ASSUME Scheduled, NEW c \in BOOLEAN, barriers = c, NEW q \in Queues, NEW y, Shape(y), y.pending = <<>>,
         NEW b, Fetching(c, q, y, b), NEW x, x = AgeFetches(BeginFetch(y, q))
  PROVE  /\ Shape(x) /\ Fetching(c, q, x, b) /\ Supplied(c, q, x)
         /\ x.iq = y.iq /\ x.active = y.active /\ x.tokens = y.tokens /\ x.out = y.out
<1> DEFINE W == Wordings(c, q)
<1>0. Len(W) \in Nat
  BY WordsFacts
<1>1. /\ Len(y.iq) = (y.fetched - Len(y.pending)) - b /\ Len(y.iq) \in Nat /\ b \in Nat /\ y.fetched \in Nat
      /\ (y.iq = <<>> <=> Len(y.iq) = 0)
  BY IqFacts
<1>2. Len(y.pending) = 0
  OBVIOUS
<1>3. /\ y.fetched <= Len(W) /\ y.fetched - 0 = y.fetched /\ b <= y.fetched
      /\ y.iq = SubSeq(W, b + 1, y.fetched)
  <2>1. /\ y.fetched <= Len(W) /\ b <= y.fetched - Len(y.pending)
        /\ y.iq = SubSeq(W, b + 1, y.fetched - Len(y.pending))
    BY DEF Fetching
  <2>2. y.fetched - Len(y.pending) = y.fetched
    BY <1>1, <1>2
  <2> HIDE DEF W
  <2> QED
    BY <1>1, <2>1, <2>2
<1>4. IqDepth \in Nat /\ IqDepth > 1 /\ FetchLatency = 1
  BY TransportAssumption DEF Scheduled, Timed
<1>5. Words(q) = W
  BY DEF Words, Wordings
<1>6. PICK ff, pp, ww, aa, t, o : y = [fetched |-> ff, pending |-> pp, iq |-> ww, active |-> aa, tokens |-> t, out |-> o]
  BY DEF Shape
<1> HIDE DEF W
<1>7. CASE ~(y.fetched < Len(W) /\ Len(y.iq) + Len(y.pending) < IqDepth)
  <2>1. BeginFetch(y, q) = y
    BY <1>5, <1>7 DEF BeginFetch
  <2>2. /\ Shape(x) /\ x.fetched = y.fetched /\ x.pending = <<>> /\ x.iq = y.iq
        /\ x.active = y.active /\ x.tokens = y.tokens /\ x.out = y.out
    BY <2>1, FetchesAged
  <2>3. Fetching(c, q, x, b)
    BY <2>2 DEF Fetching
  <2>4. x.fetched = Len(W) \/ (x.iq # <<>> /\ Len(x.iq) >= 2)
    <3>1. PICK n, m, l, d : n = y.fetched /\ m = Len(y.iq) /\ l = Len(W) /\ d = Len(y.pending)
      OBVIOUS
    <3>2. n \in Nat /\ m \in Nat /\ l \in Nat /\ d = 0 /\ n <= l /\ ~(n < l /\ m + d < IqDepth)
      BY <1>0, <1>1, <1>2, <1>3, <1>7, <3>1
    <3>3. n = l \/ m >= 2
      BY <1>4, <3>2
    <3>4. m >= 2 => y.iq # <<>>
      BY <1>1, <3>1
    <3> QED
      BY <2>2, <3>1, <3>3, <3>4
  <2> QED
    BY <2>2, <2>3, <2>4 DEF Supplied, W
<1>8. CASE y.fetched < Len(W) /\ Len(y.iq) + Len(y.pending) < IqDepth
  <2>1. BeginFetch(y, q) = [y EXCEPT !.fetched = @ + 1, !.pending = Append(@, 1)]
    BY <1>4, <1>5, <1>8 DEF BeginFetch
  <2>2. PICK z : z = [fetched |-> ff + 1, pending |-> <<1>>, iq |-> ww, active |-> aa, tokens |-> t, out |-> o]
    OBVIOUS
  <2>3. BeginFetch(y, q) = z
    <3>1. pp = <<>>
      BY <1>6
    <3>2. Append(pp, 1) = <<1>>
      BY <3>1
    <3>3. PICK r : r = Append(pp, 1)
      OBVIOUS
    <3>30. PICK f1 : f1 = ff + 1
      OBVIOUS
    <3>4. [y EXCEPT !.fetched = @ + 1, !.pending = Append(@, 1)] = [y EXCEPT !.fetched = f1, !.pending = r]
      BY <1>6, <3>3, <3>30
    <3>5. [y EXCEPT !.fetched = f1, !.pending = r]
            = [fetched |-> f1, pending |-> r, iq |-> ww, active |-> aa, tokens |-> t, out |-> o]
      <4>1. PICK y1 : y1 = [y EXCEPT !.fetched = f1]
        OBVIOUS
      <4>2. y1 = [fetched |-> f1, pending |-> pp, iq |-> ww, active |-> aa, tokens |-> t, out |-> o]
        BY <1>6, <4>1
      <4>3. [y1 EXCEPT !.pending = r] = [fetched |-> f1, pending |-> r, iq |-> ww, active |-> aa, tokens |-> t, out |-> o]
        BY <4>2
      <4> QED
        BY <4>1, <4>3
    <3> QED
      BY <2>1, <2>2, <3>2, <3>3, <3>30, <3>4, <3>5
  <2>4. PICK one : one = <<1>>
    OBVIOUS
  <2>5. PICK p2 : p2 = [k \in DOMAIN one |-> IF one[k] > 0 THEN one[k] - 1 ELSE 0]
    OBVIOUS
  <2>6. p2 = <<0>>
    <3>1. DOMAIN one = 1 .. 1 /\ one[1] = 1
      BY <2>4
    <3>2. DOMAIN p2 = 1 .. 1 /\ p2 = [k \in 1 .. 1 |-> 0]
      BY <2>5, <3>1
    <3>3. <<0>> = [k \in 1 .. 1 |-> 0]
      OBVIOUS
    <3> QED
      BY <3>2, <3>3
  <2>7. x = [fetched |-> ff + 1, pending |-> p2, iq |-> ww, active |-> aa, tokens |-> t, out |-> o]
    <3>1. x = [z EXCEPT !.pending = [k \in DOMAIN @ |-> IF @[k] > 0 THEN @[k] - 1 ELSE 0]]
      BY <2>3 DEF AgeFetches
    <3>2. z.pending = one
      BY <2>2, <2>4
    <3>3. x = [z EXCEPT !.pending = p2]
      BY <3>1, <3>2, <2>5
    <3> QED
      BY <2>2, <3>3
  <2>8. Shape(x)
    BY <2>7 DEF Shape
  <2>9. x.fetched = y.fetched + 1 /\ x.pending = <<0>> /\ x.iq = y.iq
        /\ x.active = y.active /\ x.tokens = y.tokens /\ x.out = y.out
    <3>1. x.fetched = ff + 1 /\ x.pending = p2 /\ x.iq = ww /\ x.active = aa /\ x.tokens = t /\ x.out = o
      BY <2>7
    <3>2. y.fetched = ff /\ y.iq = ww /\ y.active = aa /\ y.tokens = t /\ y.out = o
      BY <1>6
    <3> QED
      BY <2>6, <3>1, <3>2
  <2>10. x.fetched - Len(x.pending) = y.fetched /\ x.fetched \in Nat /\ x.fetched <= Len(W)
    <3>1. Len(x.pending) = 1
      BY <2>9
    <3> QED
      BY <1>0, <1>1, <1>8, <2>9, <3>1
  <2>11. Fetching(c, q, x, b)
    BY <1>1, <1>3, <2>9, <2>10 DEF Fetching, W
  <2>12. x.pending # <<>>
    BY <2>9
  <2> QED
    BY <2>8, <2>9, <2>11, <2>12 DEF Supplied
<1> QED
  BY <1>7, <1>8

LEMMA AgedTokens ==
  ASSUME Scheduled, NEW c \in BOOLEAN, NEW q \in Queues, NEW T, NEW A, AgesOK(c, T, A), NEW R,
         NEW s, Tokens(c, T, Sent(c, T, A, 1), R, A, q, s), NEW R2, R \subseteq R2,
         NEW r, r = [k \in DOMAIN s |-> AgedToken(s[k])]
  PROVE  Tokens(c, T, Sent(c, T, A, 1), R2, Older(c, T, A), q, r)
<1> DEFINE J == Sent(c, T, A, 1)
           B == Older(c, T, A)
<1>1. s \in Seq(ToSet(s)) /\ DOMAIN s = 1 .. Len(s) /\ Len(s) \in Nat
  <2>1. s \in Seq(ToSet(s))
    BY DEF Tokens
  <2> QED
    BY <2>1
<1>2. /\ DOMAIN r = 1 .. Len(s) /\ Len(r) = Len(s) /\ r \in Seq(ToSet(r))
      /\ \A k \in 1 .. Len(s) : r[k] = AgedToken(s[k])
  <2>1. r = [k \in 1 .. Len(s) |-> AgedToken(s[k])]
    BY <1>1
  <2>2. \A k \in 1 .. Len(s) : r[k] \in ToSet(r) /\ r[k] = AgedToken(s[k])
    BY <2>1 DEF ToSet
  <2>3. DOMAIN r = 1 .. Len(s)
    BY <2>1
  <2>4. r = [k \in 1 .. Len(s) |-> r[k]]
    BY <2>1, <2>3
  <2>5. r \in [1 .. Len(s) -> ToSet(r)]
    BY <2>2, <2>4
  <2>6. r \in Seq(ToSet(r)) /\ Len(r) = Len(s)
    BY <1>1, <2>5
  <2> QED
    BY <2>2, <2>3, <2>6
<1>3. MaxAge \in Nat
  BY TransportAssumption
<1>4. ASSUME NEW y \in T \ J, NEW t, t = TokenOf(c, A, y)
      PROVE  /\ AgedToken(t) = TokenOf(c, B, y)
             /\ t.tag = Entry(c, y[1]).tag /\ t.age = A[y] /\ A[y] \in Nat
             /\ AgedToken(t).tag = t.tag /\ AgedToken(t).age = t.age + 1
  <2>1. y \in Items(c) /\ A[y] \in Nat /\ Lag(c, y) \in Nat /\ Lag(c, y) < MaxAge
    BY ItemFacts DEF AgesOK
  <2>2. A[y] < MaxAge
    BY <1>3, <2>1 DEF Sent
  <2>3. B[y] = A[y] + 1
    BY OlderFacts
  <2>4. PICK g, n, m : g = Entry(c, y[1]).tag /\ n = A[y] /\ m = B[y]
    OBVIOUS
  <2>5. t = [tag |-> g, age |-> n]
    BY <1>4, <2>4 DEF TokenOf
  <2>6. AgedToken(t) = [tag |-> g, age |-> m]
    BY <2>1, <2>2, <2>3, <2>4, <2>5 DEF AgedToken
  <2> QED
    BY <2>1, <2>3, <2>4, <2>5, <2>6 DEF TokenOf
<1>5. ASSUME NEW t, EventToken(c, R, q, t)
      PROVE  /\ EventToken(c, R2, q, AgedToken(t)) /\ AgedToken(t).tag = t.tag
             /\ \A k \in PacketTable[c] : k[1] = q => t.tag # Entry(c, k).tag
  <2>1. PICK i \in DOMAIN Prog(c, q) :
           /\ Prog(c, q)[i].op = "wait" /\ t = [tag |-> Prog(c, q)[i].event, age |-> t.age]
           /\ AllIn(c, R, q[2], Prog(c, q)[i].launch)
    BY <1>5 DEF EventToken
  <2>2. q[1] = "native" /\ t.age \in Nat
    BY <1>5 DEF EventToken
  <2>3. PICK g, n : g = Prog(c, q)[i].event /\ n = t.age
    OBVIOUS
  <2>4. t = [tag |-> g, age |-> n]
    BY <2>1, <2>3
  <2>5. AgedToken(t) = [tag |-> g, age |-> IF n < MaxAge THEN n + 1 ELSE n]
    BY <2>4 DEF AgedToken
  <2>6. (IF n < MaxAge THEN n + 1 ELSE n) \in Nat
    BY <2>2, <2>3
  <2>7. AgedToken(t) = [tag |-> Prog(c, q)[i].event, age |-> AgedToken(t).age] /\ AgedToken(t).age \in Nat
    BY <2>3, <2>5, <2>6
  <2>8. AllIn(c, R2, q[2], Prog(c, q)[i].launch)
    BY <2>1 DEF AllIn
  <2>9. EventToken(c, R2, q, AgedToken(t))
    BY <2>1, <2>2, <2>7, <2>8 DEF EventToken
  <2>10. t.tag = g /\ AgedToken(t).tag = g
    BY <2>4, <2>5
  <2>11. \A k \in PacketTable[c] : k[1] = q => t.tag # Entry(c, k).tag
    <3> TAKE k \in PacketTable[c]
    <3> HAVE k[1] = q
    <3>1. BankOf(k) = q[2]
      BY DEF BankOf
    <3> QED
      BY <2>1, <2>2, <2>3, <2>10, <3>1, EventTag
  <2> QED
    BY <2>9, <2>10, <2>11
<1>6. \A j \in 1 .. Len(s) :
        (\E y \in T \ J : y[1][1] = q /\ s[j] = TokenOf(c, A, y)) \/ EventToken(c, R, q, s[j])
  BY DEF Tokens
<1>7. ASSUME NEW j \in 1 .. Len(r)
      PROVE  (\E y \in T \ J : y[1][1] = q /\ r[j] = TokenOf(c, B, y)) \/ EventToken(c, R2, q, r[j])
  <2>1. r[j] = AgedToken(s[j]) /\ j \in 1 .. Len(s)
    BY <1>2
  <2> HIDE DEF J, B
  <2> QED
    BY <1>4, <1>5, <1>6, <2>1
<1>8. ASSUME NEW y \in T \ J, y[1][1] = q PROVE \E j \in 1 .. Len(r) : r[j] = TokenOf(c, B, y)
  <2>1. PICK j \in 1 .. Len(s) : s[j] = TokenOf(c, A, y)
    BY <1>8 DEF Tokens
  <2> HIDE DEF J, B
  <2> QED
    BY <1>2, <1>4, <2>1
<1>9. ASSUME NEW k \in PacketTable[c], k[1] = q, NEW i \in 1 .. Len(r), NEW j \in 1 .. Len(r),
             i < j, r[i].tag = Entry(c, k).tag, r[j].tag = Entry(c, k).tag
      PROVE  r[i].age > r[j].age
  <2>1. i \in 1 .. Len(s) /\ j \in 1 .. Len(s) /\ r[i] = AgedToken(s[i]) /\ r[j] = AgedToken(s[j])
    BY <1>2
  <2>2. ASSUME NEW n \in 1 .. Len(s), AgedToken(s[n]).tag = Entry(c, k).tag
        PROVE  s[n].tag = Entry(c, k).tag /\ AgedToken(s[n]).age = s[n].age + 1 /\ s[n].age \in Nat
    <3>1. CASE EventToken(c, R, q, s[n])
      <4>1. AgedToken(s[n]).tag = s[n].tag /\ s[n].tag # Entry(c, k).tag
        BY <1>5, <1>9, <3>1
      <4> QED
        BY <2>2, <4>1
    <3>2. CASE \E y \in T \ J : y[1][1] = q /\ s[n] = TokenOf(c, A, y)
      <4>1. PICK y \in T \ J : s[n] = TokenOf(c, A, y)
        BY <3>2
      <4> HIDE DEF J, B
      <4> QED
        BY <1>4, <2>2, <4>1
    <3> QED
      BY <1>6, <3>1, <3>2
  <2>3. s[i].tag = Entry(c, k).tag /\ s[j].tag = Entry(c, k).tag /\ s[i].age \in Nat /\ s[j].age \in Nat
        /\ r[i].age = s[i].age + 1 /\ r[j].age = s[j].age + 1
    BY <1>9, <2>1, <2>2
  <2>4. s[i].age > s[j].age
    BY <1>9, <2>1, <2>3 DEF Tokens
  <2> QED
    BY <2>3, <2>4
<1> QED
  BY <1>2, <1>7, <1>8, <1>9 DEF Tokens

LEMMA AgedQueue ==
  ASSUME Scheduled, NEW c \in BOOLEAN, NEW q \in Queues, NEW T, NEW A, AgesOK(c, T, A), NEW R,
         NEW x, NEW i \in Nat, Shape(x), Fetching(c, q, x, Begin(Prog(c, q), i)), Supplied(c, q, x),
         Progress(c, T, Sent(c, T, A, 1), A, q, x, i), Waits(c, R, q, i),
         Tokens(c, T, Sent(c, T, A, 1), R, A, q, x.tokens), ~Waiting(T, q, i), NEW R2, R \subseteq R2
  PROVE  /\ QueueOK(c, T, Sent(c, T, A, 1), R2, Older(c, T, A), q, AgeTokens(x))
         /\ AgeTokens(x).out = x.out /\ Shape(AgeTokens(x))
<1> DEFINE J == Sent(c, T, A, 1)
           B == Older(c, T, A)
<1>1. PICK f, p, w, a, t, o : x = [fetched |-> f, pending |-> p, iq |-> w, active |-> a, tokens |-> t, out |-> o]
  BY DEF Shape
<1>2. PICK r : r = [k \in DOMAIN x.tokens |-> AgedToken(x.tokens[k])]
  OBVIOUS
<1>3. PICK z : z = AgeTokens(x)
  OBVIOUS
<1>4. z = [x EXCEPT !.tokens = r]
  BY <1>2, <1>3 DEF AgeTokens
<1>5. z = [fetched |-> f, pending |-> p, iq |-> w, active |-> a, tokens |-> r, out |-> o]
  BY <1>1, <1>4
<1>6. /\ z.fetched = x.fetched /\ z.pending = x.pending /\ z.iq = x.iq /\ z.active = x.active
      /\ z.tokens = r /\ z.out = x.out
  BY <1>1, <1>5
<1>7. Shape(z)
  BY <1>5 DEF Shape
<1>8. Tokens(c, T, J, R2, B, q, z.tokens)
  <2> HIDE DEF J, B
  <2> QED
    BY <1>2, <1>6, AgedTokens DEF J, B
<1>9. Fetching(c, q, z, Begin(Prog(c, q), i)) /\ Supplied(c, q, z)
  BY <1>6 DEF Fetching, Supplied
<1>10. Waits(c, R2, q, i)
  <2>1. ASSUME NEW l, AllIn(c, R, q[2], l) PROVE AllIn(c, R2, q[2], l)
    BY <2>1 DEF AllIn
  <2> QED
    BY <2>1 DEF Waits
<1>11. Progress(c, T, J, B, q, z, i)
  <2>1. ASSUME NEW y \in Items(c), y[1][1] = q PROVE ~(y[1][2] >= i /\ y \in T)
    BY <2>1 DEF Waiting
  <2> HIDE DEF J, B
  <2>2. Progress(c, T, J, A, q, x, i)
    BY DEF J
  <2> QED
    BY <1>6, <2>1, <2>2 DEF Progress
<1> HIDE DEF J, B
<1>12. QueueOK(c, T, J, R2, B, q, z)
  BY <1>8, <1>9, <1>10, <1>11 DEF QueueOK
<1> QED
  BY <1>3, <1>6, <1>7, <1>12 DEF J, B

QueueTickedAs(c, T, R, R2, A, q, y) ==
  /\ Shape(y) /\ QueueOK(c, T, Sent(c, T, A, 1), R2, Older(c, T, A), q, y)
  /\ Outcome(c, T, R, A, q, y.out)

LEMMA FetchAndAge ==
  ASSUME Scheduled, NEW c \in BOOLEAN, barriers = c, NEW q \in Queues, NEW T, NEW A, AgesOK(c, T, A), NEW R,
         NEW R2, R \subseteq R2, NEW y, Dispatched(c, T, R, A, q, y), Outcome(c, T, R, A, q, y.out)
  PROVE  QueueTickedAs(c, T, R, R2, A, q, AgeTokens(AgeFetches(BeginFetch(y, q))))
<1> DEFINE J == Sent(c, T, A, 1)
<1>1. PICK i \in Nat : DispatchedAt(c, T, R, A, q, y, i)
  BY DEF Dispatched
<1>2. /\ Shape(y) /\ y.pending = <<>> /\ Fetching(c, q, y, Begin(Prog(c, q), i))
      /\ Progress(c, T, J, A, q, y, i) /\ Waits(c, R, q, i) /\ Tokens(c, T, J, R, A, q, y.tokens)
      /\ ~Waiting(T, q, i)
  BY <1>1 DEF DispatchedAt
<1>3. PICK x : x = AgeFetches(BeginFetch(y, q))
  OBVIOUS
<1> HIDE DEF J
<1>4. /\ Shape(x) /\ Fetching(c, q, x, Begin(Prog(c, q), i)) /\ Supplied(c, q, x)
      /\ x.iq = y.iq /\ x.active = y.active /\ x.tokens = y.tokens /\ x.out = y.out
  BY <1>2, <1>3, FetchBegun
<1>5. Progress(c, T, J, A, q, x, i)
  BY <1>2, <1>4 DEF Progress
<1>6. /\ QueueOK(c, T, Sent(c, T, A, 1), R2, Older(c, T, A), q, AgeTokens(x))
      /\ AgeTokens(x).out = x.out /\ Shape(AgeTokens(x))
  BY <1>2, <1>4, <1>5, AgedQueue DEF J
<1> QED
  BY <1>3, <1>4, <1>6 DEF QueueTickedAs

(* A queue in a cycle: none runs dry, and a Write is issued when it is due.  *)
LEMMA QueueTicked ==
  ASSUME Scheduled, NEW c \in BOOLEAN, barriers = c, held \in BOOLEAN, NEW q \in Queues,
         NEW T, NEW A, AgesOK(c, T, A), NEW R, NEW R2, R \subseteq R2,
         QueueOK(c, T, Sent(c, T, A, 2), R, A, q, QueueAt(q))
  PROVE  QueueTickedAs(c, T, R, R2, A, q, TickQueue(q)) /\ ~UnderflowAt(q)
<1>1. PICK x : x = QueueAt(q)
  OBVIOUS
<1>2. Shape(x) /\ x.out = None
  <2>1. x = [fetched |-> fetched[q], pending |-> pending[q], iq |-> iq[q],
             active |-> active[q], tokens |-> tokens[q], out |-> None]
    BY <1>1 DEF QueueAt
  <2> QED
    BY <2>1 DEF Shape
<1>3. PICK y : y = CommitReadyFetch(x, q)
  OBVIOUS
<1>4. (\E i \in Nat : Standing(c, T, R, A, q, y, i)) /\ (y.fetched = Len(Wordings(c, q)) \/ y.iq # <<>>)
  BY <1>1, <1>2, <1>3, Stands
<1>5. PICK i \in Nat : Standing(c, T, R, A, q, y, i)
  BY <1>4
<1>6. y.pending = <<>> /\ Fetching(c, q, y, Begin(Prog(c, q), i)) /\ y.out = None /\ Shape(y)
      /\ Progress(c, T, Sent(c, T, A, 2), A, q, y, i) /\ Waits(c, R, q, i)
  BY <1>5 DEF Standing
<1>7. ~UnderflowAt(q)
  <2>1. Len(Wordings(c, q)) \in Nat /\ Words(q) = Wordings(c, q)
    BY WordsFacts DEF Words, Wordings
  <2>2. ~Underflows(y, q)
    BY <1>4, <1>6, <2>1 DEF Underflows
  <2> QED
    BY <1>1, <1>3, <2>2 DEF UnderflowAt
<1>8. CASE q[1] = "transport" \/ ~held
  <2>1. /\ Dispatched(c, T, R, A, q, DispatchReady(y, q))
        /\ Outcome(c, T, R, A, q, DispatchReady(y, q).out)
    BY <1>5, DispatchKeeps
  <2>2. TickQueue(q) = AgeTokens(AgeFetches(BeginFetch(DispatchReady(y, q), q)))
    BY <1>1, <1>3, <1>8 DEF TickQueue, Tick
  <2> QED
    BY <1>7, <2>1, <2>2, FetchAndAge
<1>9. CASE ~(q[1] = "transport" \/ ~held) /\ ~c
  <2>1. PICK z : z = IF AtPacket(y, q) THEN TickSynchronized(y, q) ELSE y
    OBVIOUS
  <2>2. Dispatched(c, T, R, A, q, z) /\ Outcome(c, T, R, A, q, z.out)
    <3>1. CASE AtPacket(y, q)
      BY <1>5, <2>1, <3>1, TickedAny
    <3>2. CASE ~AtPacket(y, q)
      BY <1>5, <2>1, <3>2, RestsAny
    <3> QED
      BY <3>1, <3>2
  <2>3. TickQueue(q) = AgeTokens(AgeFetches(BeginFetch(z, q)))
    BY <1>1, <1>3, <1>9, <2>1 DEF TickQueue, TickTransportOnly
  <2> QED
    BY <1>7, <2>2, <2>3, FetchAndAge
<1>10. CASE ~(q[1] = "transport" \/ ~held) /\ c
  <2>1. q[1] = "native" /\ q[2] \in Banks
    BY <1>10 DEF Queues, Stores
  <2>2. ~HasPackets(c, q)
    <3> SUFFICES ASSUME NEW k \in PacketTable[c], k[1] = q PROVE FALSE
      BY DEF HasPackets
    <3>1. k[2] \in DOMAIN Prog(c, q) /\ Prog(c, q)[k[2]].op = "sync"
      BY PacketFacts DEF IsPacket
    <3>2. c = TRUE
      BY <1>10
    <3> QED
      BY <2>1, <3>1, <3>2, TransportAssumption DEF Prog
  <2>3. y.active = Idle /\ ~Waiting(T, q, i)
    <3>1. y.active = Idle
      BY <1>6, <2>2, ActiveEntry
    <3>2. \A z \in T : z[1][1] # q
      <4> TAKE z \in T
      <4>1. z[1] \in PacketTable[c]
        BY ItemFacts DEF AgesOK
      <4> QED
        BY <2>2, <4>1 DEF HasPackets
    <3> QED
      BY <3>1, <3>2 DEF Waiting
  <2>4. DispatchedAt(c, T, R, A, q, y, i) /\ NoneDue(c, T, A, q)
    BY <1>5, <2>3, Rests
  <2>5. PICK x2 : x2 = AgeFetches(y)
    OBVIOUS
  <2>6. /\ Shape(x2) /\ x2.fetched = y.fetched /\ x2.pending = <<>> /\ x2.iq = y.iq
        /\ x2.active = y.active /\ x2.tokens = y.tokens /\ x2.out = y.out
    BY <1>6, <2>5, FetchesAged
  <2>7. /\ Fetching(c, q, x2, Begin(Prog(c, q), i)) /\ Supplied(c, q, x2)
        /\ Progress(c, T, Sent(c, T, A, 1), A, q, x2, i)
        /\ Tokens(c, T, Sent(c, T, A, 1), R, A, q, x2.tokens)
    <3>1. Fetching(c, q, x2, Begin(Prog(c, q), i))
      BY <1>6, <2>6 DEF Fetching
    <3>2. Supplied(c, q, x2)
      BY <1>4, <2>2, <2>6 DEF Supplied
    <3>3. Progress(c, T, Sent(c, T, A, 1), A, q, y, i) /\ Tokens(c, T, Sent(c, T, A, 1), R, A, q, y.tokens)
      BY <2>4 DEF DispatchedAt
    <3> QED
      BY <2>6, <3>1, <3>2, <3>3 DEF Progress
  <2>8. /\ QueueOK(c, T, Sent(c, T, A, 1), R2, Older(c, T, A), q, AgeTokens(x2))
        /\ AgeTokens(x2).out = x2.out /\ Shape(AgeTokens(x2))
    <3>1. Shape(x2) /\ Fetching(c, q, x2, Begin(Prog(c, q), i)) /\ Supplied(c, q, x2)
      BY <2>6, <2>7
    <3>2. Progress(c, T, Sent(c, T, A, 1), A, q, x2, i) /\ Tokens(c, T, Sent(c, T, A, 1), R, A, q, x2.tokens)
      BY <2>7
    <3>3. Waits(c, R, q, i) /\ ~Waiting(T, q, i)
      BY <1>6, <2>3
    <3> QED
      BY <3>1, <3>2, <3>3, AgedQueue
  <2>9. TickQueue(q) = AgeTokens(x2)
    BY <1>1, <1>3, <1>10, <2>5 DEF TickQueue, HoldComputeCycle
  <2> QED
    BY <1>6, <1>7, <2>4, <2>6, <2>8, <2>9 DEF QueueTickedAs, Outcome
<1> QED
  BY <1>8, <1>9, <1>10

----------------------------------------------------------------------------
(* Where the vectors are.  s, k, p: the cycle has gone by for A, but not yet *)
(* for the slots, the cells and the pipelines.                              *)

Written(c, T, A, s) == {z \in T \X (1 .. Tiles) : z[2] <= A[z[1]] - Lag(c, z[1]) - 1 - s}
Slotted(c, T, A, s) == {z \in T \X (1 .. Tiles) : /\ z[2] = A[z[1]] - Lag(c, z[1]) - s
                                                  /\ A[z[1]] >= Lag(c, z[1]) + 2}
Flying(c, T, A, k)  == {z \in T \X (1 .. Tiles) \X (0 .. Edge) : /\ z[3] = A[z[1]] - k - z[2]
                                                               /\ z[3] <= Lag(c, z[1])}
Piped(T, A, p)      == {z \in T \X (0 .. Tiles) : z[2] = A[z[1]] - p}
Stored(c, T, A)     == {x \in T : A[x] >= Lag(c, x) + 1 + Tiles}

LEMMA ItemNumbers ==
  ASSUME Scheduled, NEW c \in BOOLEAN, NEW T, NEW A, AgesOK(c, T, A)
  PROVE  /\ \A x \in T : x \in Items(c) /\ A[x] \in Nat /\ Lag(c, x) \in Nat /\ Lag(c, x) < Edge
         /\ Tiles \in Nat \ {0} /\ Edge \in Nat \ {0}
<1>1. Tiles \in Nat \ {0} /\ Edge \in Nat \ {0} /\ \A b \in Banks : Place[b] \in 0 .. Edge - 1
  BY TransportAssumption
<1>2. ASSUME NEW x \in T PROVE x \in Items(c) /\ A[x] \in Nat /\ Lag(c, x) \in Nat /\ Lag(c, x) < Edge
  <2>1. x \in Items(c) /\ A[x] \in Nat
    BY DEF AgesOK
  <2>2. Lag(c, x) \in Nat /\ Bank(x) \in Banks /\ Lag(c, x) = Edge - Place[Bank(x)] - 1
    BY <2>1, ItemFacts
  <2>3. Place[Bank(x)] \in 0 .. Edge - 1
    BY <1>1, <2>2
  <2> QED
    BY <1>1, <2>1, <2>2, <2>3
<1> QED
  BY <1>1, <1>2

LEMMA OlderSets ==
  ASSUME Scheduled, NEW c \in BOOLEAN, NEW T, NEW A, AgesOK(c, T, A)
  PROVE  LET B == Older(c, T, A)
         IN /\ Written(c, T, B, 1) = Written(c, T, A, 0)
            /\ Flying(c, T, B, 1) = Flying(c, T, A, 0)
            /\ Piped(T, B, 1) = Piped(T, A, 0)
            /\ Stored(c, T, A) \subseteq Stored(c, T, B)
            /\ Slotted(c, T, B, 1) = Slotted(c, T, A, 0)
                                     \cup {<<x, 1>> : x \in {y \in T : A[y] = Lag(c, y) + 1}}
<1> DEFINE B == Older(c, T, A)
<1>1. \A x \in T : A[x] \in Nat /\ Lag(c, x) \in Nat /\ B[x] = A[x] + 1
  BY ItemNumbers, OlderFacts
<1>2. Tiles \in Nat \ {0} /\ Edge \in Nat \ {0}
  BY ItemNumbers
<1> HIDE DEF B
<1>3. Written(c, T, B, 1) = Written(c, T, A, 0)
  <2>1. \A z \in T \X (1 .. Tiles) : z[2] <= B[z[1]] - Lag(c, z[1]) - 1 - 1 <=> z[2] <= A[z[1]] - Lag(c, z[1]) - 1 - 0
    BY <1>1, <1>2
  <2> QED
    BY <2>1 DEF Written
<1>4. Flying(c, T, B, 1) = Flying(c, T, A, 0)
  <2>1. \A z \in T \X (1 .. Tiles) \X (0 .. Edge) : z[3] = B[z[1]] - 1 - z[2] <=> z[3] = A[z[1]] - 0 - z[2]
    BY <1>1, <1>2
  <2> QED
    BY <2>1 DEF Flying
<1>5. Piped(T, B, 1) = Piped(T, A, 0)
  <2>1. \A z \in T \X (0 .. Tiles) : z[2] = B[z[1]] - 1 <=> z[2] = A[z[1]] - 0
    BY <1>1, <1>2
  <2> QED
    BY <2>1 DEF Piped
<1>6. Stored(c, T, A) \subseteq Stored(c, T, B)
  <2>1. \A x \in T : A[x] >= Lag(c, x) + 1 + Tiles => B[x] >= Lag(c, x) + 1 + Tiles
    BY <1>1, <1>2
  <2> QED
    BY <2>1 DEF Stored
<1>7. Slotted(c, T, B, 1) = Slotted(c, T, A, 0) \cup {<<x, 1>> : x \in {y \in T : A[y] = Lag(c, y) + 1}}
  <2> DEFINE N == {<<x, 1>> : x \in {y \in T : A[y] = Lag(c, y) + 1}}
  <2>1. ASSUME NEW x \in T, NEW t \in 1 .. Tiles
        PROVE  <<x, t>> \in Slotted(c, T, B, 1) <=> <<x, t>> \in Slotted(c, T, A, 0) \/ <<x, t>> \in N
    <3>1. <<x, t>> \in N <=> A[x] = Lag(c, x) + 1 /\ t = 1
      OBVIOUS
    <3>2. <<x, t>> \in Slotted(c, T, B, 1) <=> t = B[x] - Lag(c, x) - 1 /\ B[x] >= Lag(c, x) + 2
      BY DEF Slotted
    <3>3. <<x, t>> \in Slotted(c, T, A, 0) <=> t = A[x] - Lag(c, x) - 0 /\ A[x] >= Lag(c, x) + 2
      BY DEF Slotted
    <3> QED
      BY <1>1, <1>2, <3>1, <3>2, <3>3
  <2>2. Slotted(c, T, B, 1) \subseteq T \X (1 .. Tiles) /\ Slotted(c, T, A, 0) \subseteq T \X (1 .. Tiles)
    BY DEF Slotted
  <2>3. N \subseteq T \X (1 .. Tiles)
    BY <1>2
  <2> HIDE DEF N
  <2>4. \A z \in T \X (1 .. Tiles) : z \in Slotted(c, T, B, 1) <=> z \in Slotted(c, T, A, 0) \cup N
    BY <2>1
  <2>5. Slotted(c, T, B, 1) = Slotted(c, T, A, 0) \cup N
    BY <2>2, <2>3, <2>4
  <2> QED
    BY <2>5 DEF N
<1> QED
  BY <1>3, <1>4, <1>5, <1>6, <1>7 DEF B

(* The MEM slices have worked.                                              *)
LEMMA MemSets ==
  ASSUME Scheduled, NEW c \in BOOLEAN, NEW T, NEW A, AgesOK(c, T, A)
  PROVE  /\ Written(c, T, A, 0) = Written(c, T, A, 1) \cup Slotted(c, T, A, 1)
         /\ Written(c, T, A, 1) \cap Slotted(c, T, A, 1) = {}
         /\ \A x \in T, t \in 1 .. Tiles :
              <<x, t + 1>> \in Slotted(c, T, A, 0) <=> <<x, t>> \in Slotted(c, T, A, 1) /\ t < Tiles
         /\ \A x \in T : <<x, 1>> \notin Slotted(c, T, A, 0)
         /\ \A x \in T, t \in 1 .. Tiles : <<x, t>> \in Written(c, T, A, 1) /\ t < Tiles
                                             => <<x, t + 1>> \in Written(c, T, A, 0)
         /\ \A x \in T, t \in 1 .. Tiles :
              <<x, t>> \in Slotted(c, T, A, 1) <=> <<x, t, Lag(c, x)>> \in Flying(c, T, A, 1)
<1>1. \A x \in T : A[x] \in Nat /\ Lag(c, x) \in Nat /\ Lag(c, x) < Edge
  BY ItemNumbers
<1>2. Tiles \in Nat \ {0} /\ Edge \in Nat \ {0}
  BY ItemNumbers
<1>3. Written(c, T, A, 0) = Written(c, T, A, 1) \cup Slotted(c, T, A, 1)
  <2>1. \A z \in T \X (1 .. Tiles) :
          z[2] <= A[z[1]] - Lag(c, z[1]) - 1 - 0
            <=> \/ z[2] <= A[z[1]] - Lag(c, z[1]) - 1 - 1
                \/ z[2] = A[z[1]] - Lag(c, z[1]) - 1 /\ A[z[1]] >= Lag(c, z[1]) + 2
    BY <1>1, <1>2
  <2> QED
    BY <2>1 DEF Written, Slotted
<1>4. Written(c, T, A, 1) \cap Slotted(c, T, A, 1) = {}
  <2>1. \A z \in T \X (1 .. Tiles) :
          ~(/\ z[2] <= A[z[1]] - Lag(c, z[1]) - 1 - 1
            /\ z[2] = A[z[1]] - Lag(c, z[1]) - 1)
    BY <1>1, <1>2
  <2> QED
    BY <2>1 DEF Written, Slotted
<1>5. ASSUME NEW x \in T, NEW t \in 1 .. Tiles
      PROVE  /\ <<x, t + 1>> \in Slotted(c, T, A, 0) <=> <<x, t>> \in Slotted(c, T, A, 1) /\ t < Tiles
             /\ <<x, 1>> \notin Slotted(c, T, A, 0)
             /\ <<x, t>> \in Written(c, T, A, 1) /\ t < Tiles => <<x, t + 1>> \in Written(c, T, A, 0)
             /\ <<x, t>> \in Slotted(c, T, A, 1) <=> <<x, t, Lag(c, x)>> \in Flying(c, T, A, 1)
  <2>1. <<x, t + 1>> \in Slotted(c, T, A, 0) <=>
          t + 1 \in 1 .. Tiles /\ t + 1 = A[x] - Lag(c, x) - 0 /\ A[x] >= Lag(c, x) + 2
    BY DEF Slotted
  <2>2. <<x, t>> \in Slotted(c, T, A, 1) <=> t = A[x] - Lag(c, x) - 1 /\ A[x] >= Lag(c, x) + 2
    BY DEF Slotted
  <2>3. <<x, 1>> \in Slotted(c, T, A, 0) => 1 = A[x] - Lag(c, x) - 0 /\ A[x] >= Lag(c, x) + 2
    BY DEF Slotted
  <2>4. <<x, t>> \in Written(c, T, A, 1) <=> t <= A[x] - Lag(c, x) - 1 - 1
    BY DEF Written
  <2>5. <<x, t + 1>> \in Written(c, T, A, 0) <=> t + 1 \in 1 .. Tiles /\ t + 1 <= A[x] - Lag(c, x) - 1 - 0
    BY DEF Written
  <2>6. <<x, t, Lag(c, x)>> \in Flying(c, T, A, 1) <=> Lag(c, x) = A[x] - 1 - t
    BY <1>1, <1>2 DEF Flying
  <2> QED
    BY <1>1, <1>2, <2>1, <2>2, <2>3, <2>4, <2>5, <2>6
<1>6. 1 \in 1 .. Tiles
  BY <1>2
<1> QED
  BY <1>3, <1>4, <1>5, <1>6

(* The receiver has worked: the vectors N are new.                          *)
LEMMA TakenSets ==
  ASSUME Scheduled, NEW c \in BOOLEAN, NEW T, NEW A, AgesOK(c, T, A), \A x \in T : A[x] >= 1,
         NEW N, AgesOK(c, T \cup N, A), \A x \in N : A[x] = 0
  PROVE  /\ Written(c, T \cup N, A, 0) = Written(c, T, A, 0)
         /\ Slotted(c, T \cup N, A, 0) = Slotted(c, T, A, 0)
         /\ Flying(c, T \cup N, A, 1) = Flying(c, T, A, 1)
         /\ Stored(c, T \cup N, A) = Stored(c, T, A)
         /\ Sent(c, T \cup N, A, 2) = Sent(c, T, A, 2)
         /\ \A z : z \in Piped(T \cup N, A, 0) <=> \/ \E x \in N : z = <<x, 0>>
                                                  \/ \E x \in T, t \in 0 .. Tiles - 1 :
                                                       z = <<x, t + 1>> /\ <<x, t>> \in Piped(T, A, 1)
<1>1. \A x \in T \cup N : A[x] \in Nat /\ Lag(c, x) \in Nat /\ Lag(c, x) < Edge
  BY ItemNumbers
<1>2. Tiles \in Nat \ {0} /\ Edge \in Nat \ {0}
  BY ItemNumbers
<1>3. Written(c, T \cup N, A, 0) = Written(c, T, A, 0)
  <2>1. \A z \in N \X (1 .. Tiles) : ~(z[2] <= A[z[1]] - Lag(c, z[1]) - 1 - 0)
    BY <1>1, <1>2
  <2> QED
    BY <2>1 DEF Written
<1>4. Slotted(c, T \cup N, A, 0) = Slotted(c, T, A, 0)
  <2>1. \A z \in N \X (1 .. Tiles) : ~(A[z[1]] >= Lag(c, z[1]) + 2)
    BY <1>1, <1>2
  <2> QED
    BY <2>1 DEF Slotted
<1>5. Flying(c, T \cup N, A, 1) = Flying(c, T, A, 1)
  <2>1. \A z \in N \X (1 .. Tiles) \X (0 .. Edge) : ~(z[3] = A[z[1]] - 1 - z[2])
    BY <1>1, <1>2
  <2> QED
    BY <2>1 DEF Flying
<1>6. Stored(c, T \cup N, A) = Stored(c, T, A) /\ Sent(c, T \cup N, A, 2) = Sent(c, T, A, 2)
  <2>1. \A x \in N : ~(A[x] >= Lag(c, x) + 1 + Tiles) /\ ~(A[x] >= Lag(c, x) + 2)
    BY <1>1, <1>2
  <2> QED
    BY <2>1 DEF Stored, Sent
<1>7. ASSUME NEW z
      PROVE  z \in Piped(T \cup N, A, 0) <=> \/ \E x \in N : z = <<x, 0>>
                                             \/ \E x \in T, t \in 0 .. Tiles - 1 :
                                                  z = <<x, t + 1>> /\ <<x, t>> \in Piped(T, A, 1)
  <2>1. ASSUME z \in Piped(T \cup N, A, 0)
        PROVE  \/ \E x \in N : z = <<x, 0>>
               \/ \E x \in T, t \in 0 .. Tiles - 1 : z = <<x, t + 1>> /\ <<x, t>> \in Piped(T, A, 1)
    <3>1. PICK x \in T \cup N, t \in 0 .. Tiles : z = <<x, t>> /\ t = A[x] - 0
      BY <2>1 DEF Piped
    <3>2. CASE x \in N
      BY <3>1, <3>2
    <3>3. CASE x \in T
      <4>1. t - 1 \in 0 .. Tiles - 1 /\ (t - 1) + 1 = t /\ t - 1 \in 0 .. Tiles /\ t - 1 = A[x] - 1
        BY <1>1, <1>2, <3>1, <3>3
      <4>2. <<x, t - 1>> \in Piped(T, A, 1)
        BY <3>3, <4>1 DEF Piped
      <4> QED
        BY <3>1, <3>3, <4>1, <4>2
    <3> QED
      BY <3>2, <3>3
  <2>2. ASSUME NEW x \in N, z = <<x, 0>> PROVE z \in Piped(T \cup N, A, 0)
    <3>1. 0 \in 0 .. Tiles /\ 0 = A[x] - 0
      BY <1>2
    <3> QED
      BY <2>2, <3>1 DEF Piped
  <2>3. ASSUME NEW x \in T, NEW t \in 0 .. Tiles - 1, z = <<x, t + 1>>, <<x, t>> \in Piped(T, A, 1)
        PROVE  z \in Piped(T \cup N, A, 0)
    <3>1. t = A[x] - 1
      BY <2>3 DEF Piped
    <3>2. t + 1 \in 0 .. Tiles /\ t + 1 = A[x] - 0
      BY <1>1, <1>2, <3>1
    <3> QED
      BY <2>3, <3>2 DEF Piped
  <2> QED
    BY <2>1, <2>2, <2>3
<1> QED
  BY <1>3, <1>4, <1>5, <1>6, <1>7

(* The streams have moved.                                                  *)
LEMMA MovedSets ==
  ASSUME Scheduled, NEW c \in BOOLEAN, NEW T, NEW A, AgesOK(c, T, A), NEW z
  PROVE  z \in Flying(c, T, A, 0) <=>
           \/ \E x \in T, t \in 1 .. Tiles : z = <<x, t, 0>> /\ <<x, t>> \in Piped(T, A, 0)
           \/ \E x \in T, t \in 1 .. Tiles, j \in 0 .. Edge - 1 :
                z = <<x, t, j + 1>> /\ <<x, t, j>> \in Flying(c, T, A, 1) /\ j < Lag(c, x)
<1>1. \A x \in T : A[x] \in Nat /\ Lag(c, x) \in Nat /\ Lag(c, x) < Edge
  BY ItemNumbers
<1>2. Tiles \in Nat \ {0} /\ Edge \in Nat \ {0}
  BY ItemNumbers
<1>3. ASSUME z \in Flying(c, T, A, 0)
      PROVE  \/ \E x \in T, t \in 1 .. Tiles : z = <<x, t, 0>> /\ <<x, t>> \in Piped(T, A, 0)
             \/ \E x \in T, t \in 1 .. Tiles, j \in 0 .. Edge - 1 :
                  z = <<x, t, j + 1>> /\ <<x, t, j>> \in Flying(c, T, A, 1) /\ j < Lag(c, x)
  <2>1. PICK x \in T, t \in 1 .. Tiles, m \in 0 .. Edge : z = <<x, t, m>> /\ m = A[x] - 0 - t /\ m <= Lag(c, x)
    BY <1>3 DEF Flying
  <2>2. CASE m = 0
    <3>1. t \in 0 .. Tiles /\ t = A[x] - 0
      BY <1>1, <2>1, <2>2
    <3>2. <<x, t>> \in Piped(T, A, 0)
      BY <3>1 DEF Piped
    <3> QED
      BY <2>1, <2>2, <3>2
  <2>3. CASE m # 0
    <3>1. m - 1 \in 0 .. Edge - 1 /\ (m - 1) + 1 = m /\ m - 1 \in 0 .. Edge /\ m - 1 = A[x] - 1 - t
          /\ m - 1 <= Lag(c, x) /\ m - 1 < Lag(c, x)
      BY <1>1, <1>2, <2>1, <2>3
    <3>2. <<x, t, m - 1>> \in Flying(c, T, A, 1)
      BY <3>1 DEF Flying
    <3> QED
      BY <2>1, <3>1, <3>2
  <2> QED
    BY <2>2, <2>3
<1>4. ASSUME NEW x \in T, NEW t \in 1 .. Tiles, z = <<x, t, 0>>, <<x, t>> \in Piped(T, A, 0)
      PROVE  z \in Flying(c, T, A, 0)
  <2>1. t = A[x] - 0
    BY <1>4 DEF Piped
  <2>2. 0 \in 0 .. Edge /\ 0 = A[x] - 0 - t /\ 0 <= Lag(c, x)
    BY <1>1, <1>2, <2>1
  <2> QED
    BY <1>4, <2>2 DEF Flying
<1>5. ASSUME NEW x \in T, NEW t \in 1 .. Tiles, NEW j \in 0 .. Edge - 1,
             z = <<x, t, j + 1>>, <<x, t, j>> \in Flying(c, T, A, 1), j < Lag(c, x)
      PROVE  z \in Flying(c, T, A, 0)
  <2>1. j = A[x] - 1 - t
    BY <1>5 DEF Flying
  <2>2. j + 1 \in 0 .. Edge /\ j + 1 = A[x] - 0 - t /\ j + 1 <= Lag(c, x)
    BY <1>1, <1>2, <1>5, <2>1
  <2> QED
    BY <1>5, <2>2 DEF Flying
<1> QED
  BY <1>3, <1>4, <1>5

----------------------------------------------------------------------------
(* The stream registers.                                                    *)

CellOf(c, x, t, j) == [column |-> Edge - j, tile |-> t, stream |-> Stream(c, x), data |-> Vector(c, x),
                       transport |-> TRUE]
CellAt(c, z) == CellOf(c, z[1], z[2], z[3])

(* What a bank has read, on its way west.                                   *)
ReadCell(c, d, b) ==
  /\ d = [column |-> d.column, tile |-> d.tile, stream |-> d.stream, data |-> d.data, transport |-> FALSE]
  /\ d.column \in 0 .. Place[b]
  /\ \E i \in ReadsOf(c, b) : d.stream = Programs[c]["native"][b][i].stream

CellsOK(c, F, S) ==
  /\ \A z \in F : CellAt(c, z) \in S
  /\ \A d \in S : (\E z \in F : d = CellAt(c, z)) \/ \E b \in Banks : ReadCell(c, d, b)

ConsumedOK(c, F, S) == S = {CellAt(c, z) : z \in {y \in F : y[3] = Lag(c, y[1])}}

ReadsStaged(c, S) ==
  /\ \A d \in S : \E b \in Banks : ReadCell(c, d, b) /\ d.column = Place[b]
  /\ \A d, e \in S : SamePlace(d, e) => d = e

AllStaged(c, P, S) ==
  \E Q : ReadsStaged(c, Q) /\ S = Q \cup {CellOf(c, z[1], z[2], 0) : z \in {y \in P : y[2] >= 1}}

LEMMA FlyingFacts ==
  ASSUME Scheduled, NEW c \in BOOLEAN, NEW T, NEW A, AgesOK(c, T, A), NEW k \in 0 .. 1,
         NEW z \in Flying(c, T, A, k)
  PROVE  /\ z = <<z[1], z[2], z[3]>> /\ z[1] \in T /\ z[1] \in Items(c) /\ z[2] \in 1 .. Tiles
         /\ z[3] \in 0 .. Lag(c, z[1]) /\ z[3] \in 0 .. Edge /\ Lag(c, z[1]) \in Nat /\ Lag(c, z[1]) < Edge
         /\ z[3] = A[z[1]] - k - z[2] /\ A[z[1]] \in Nat
<1>1. z \in T \X (1 .. Tiles) \X (0 .. Edge) /\ z[3] = A[z[1]] - k - z[2] /\ z[3] <= Lag(c, z[1])
  BY DEF Flying
<1>2. z = <<z[1], z[2], z[3]>> /\ z[1] \in T /\ z[2] \in 1 .. Tiles /\ z[3] \in 0 .. Edge
  BY <1>1
<1>3. z[1] \in Items(c) /\ A[z[1]] \in Nat /\ Lag(c, z[1]) \in Nat /\ Lag(c, z[1]) < Edge
  BY <1>2, ItemNumbers
<1>4. Edge \in Nat
  BY ItemNumbers
<1> QED
  BY <1>1, <1>2, <1>3, <1>4

LEMMA SameCell ==
  ASSUME Scheduled, NEW c \in BOOLEAN, NEW T, NEW A, AgesOK(c, T, A), NEW k \in 0 .. 1,
         NEW z \in Flying(c, T, A, k), NEW w \in Flying(c, T, A, k),
         z[2] = w[2], z[3] = w[3], Stream(c, z[1]) = Stream(c, w[1])
  PROVE  z = w
<1>1. /\ z = <<z[1], z[2], z[3]>> /\ z[1] \in T /\ z[1] \in Items(c) /\ z[2] \in 1 .. Tiles
      /\ z[3] = A[z[1]] - k - z[2] /\ A[z[1]] \in Nat /\ z[3] \in 0 .. Edge
  BY FlyingFacts
<1>2. /\ w = <<w[1], w[2], w[3]>> /\ w[1] \in T /\ w[1] \in Items(c)
      /\ w[3] = A[w[1]] - k - w[2] /\ A[w[1]] \in Nat
  BY FlyingFacts
<1>3. A[z[1]] = A[w[1]]
  BY <1>1, <1>2
<1>4. Lane(c, z[1]) = Lane(c, w[1])
  BY <1>1, <1>2, StreamOnce
<1>5. z[1] = w[1]
  BY <1>1, <1>2, <1>3, <1>4 DEF AgesOK
<1> QED
  BY <1>1, <1>2, <1>5

LEMMA NoReadStream ==
  ASSUME Scheduled, NEW c \in BOOLEAN, NEW x \in Items(c), NEW b \in Banks, NEW i \in ReadsOf(c, b)
  PROVE  Stream(c, x) # Programs[c]["native"][b][i].stream
<1> DEFINE l == Lane(c, x)
           j == IndexOf(c, x[1])
<1>1. x[1] \in PacketTable[c]
  BY ItemFacts
<1>2. l \in Lanes /\ j \in 1 .. Len(Receives[l]) /\ Receives[l][j].stream = Stream(c, x)
  BY <1>1, LaneFacts DEF Lane, Stream
<1>3. Receives[l][j] \in ToSet(Receives[l])
  BY <1>2, ReceiveType DEF ToSet
<1> HIDE DEF l, j
<1>4. ReadsAwait(c)
  BY DEF Scheduled
<1>5. \A m \in Lanes : \A s \in ToSet(Receives[m]) : Programs[c]["native"][b][i].stream # s.stream
  BY <1>4 DEF ReadsAwait
<1> QED
  BY <1>2, <1>3, <1>5

LEMMA ReadBank ==
  ASSUME Scheduled, NEW c \in BOOLEAN, NEW d, NEW e, NEW a \in Banks, NEW b \in Banks,
         ReadCell(c, d, a), ReadCell(c, e, b), d.stream = e.stream
  PROVE  a = b
<1>1. PICK i \in ReadsOf(c, a) : d.stream = Programs[c]["native"][a][i].stream
  BY DEF ReadCell
<1>2. PICK j \in ReadsOf(c, b) : e.stream = Programs[c]["native"][b][j].stream
  BY DEF ReadCell
<1>3. ReadsAwait(c)
  BY DEF Scheduled
<1>4. \A f \in Banks \ {a} : \A n \in ReadsOf(c, f) :
        Programs[c]["native"][a][i].stream # Programs[c]["native"][f][n].stream
  BY <1>3 DEF ReadsAwait
<1> QED
  BY <1>1, <1>2, <1>4

(* commit_cycle: no two writes meet, and all that was not consumed moves on. *)
MovedOn(S, D) == {[d EXCEPT !.column = @ - 1] : d \in {e \in S \ D : e.column > 0}}

LEMMA StreamsMoved ==
  ASSUME Scheduled, NEW c \in BOOLEAN, NEW T, NEW A, AgesOK(c, T, A), NEW S, NEW D, NEW N,
         CellsOK(c, Flying(c, T, A, 1), S), ConsumedOK(c, Flying(c, T, A, 1), D),
         AllStaged(c, Piped(T, A, 0), N)
  PROVE  /\ CellsOK(c, Flying(c, T, A, 0), N \cup MovedOn(S, D))
         /\ ~\E d \in MovedOn(S, D), e \in N : SamePlace(d, e)
         /\ ~\E d, e \in N : d # e /\ SamePlace(d, e)
<1> DEFINE F == Flying(c, T, A, 1)
           G == Flying(c, T, A, 0)
           P == Piped(T, A, 0)
           M == MovedOn(S, D)
<1>0. Edge \in Nat \ {0} /\ Tiles \in Nat \ {0} /\ \A b \in Banks : Place[b] \in 0 .. Edge - 1
  BY TransportAssumption
<1>1. PICK Q : ReadsStaged(c, Q) /\ N = Q \cup {CellOf(c, z[1], z[2], 0) : z \in {y \in P : y[2] >= 1}}
  BY DEF AllStaged
<1>2. \A z : z \in G <=>
           \/ \E x \in T, t \in 1 .. Tiles : z = <<x, t, 0>> /\ <<x, t>> \in P
           \/ \E x \in T, t \in 1 .. Tiles, j \in 0 .. Edge - 1 :
                z = <<x, t, j + 1>> /\ <<x, t, j>> \in F /\ j < Lag(c, x)
  BY MovedSets
<1>3. \A z \in P : z = <<z[1], z[2]>> /\ z[1] \in T /\ z[2] \in 0 .. Tiles
  BY DEF Piped
<1> HIDE DEF F, G, P
(* What is staged: a vector from the receiver, or what a bank has read.     *)
<1>4. ASSUME NEW e \in N
      PROVE  \/ e \in Q
             \/ \E z \in G : z[3] = 0 /\ e = CellAt(c, z)
  <2>1. CASE e \in Q
    BY <2>1
  <2>2. CASE e \in {CellOf(c, z[1], z[2], 0) : z \in {y \in P : y[2] >= 1}}
    <3>1. PICK z \in P : z[2] >= 1 /\ e = CellOf(c, z[1], z[2], 0)
      BY <2>2
    <3>2. z = <<z[1], z[2]>> /\ z[1] \in T /\ z[2] \in 1 .. Tiles
      BY <1>0, <1>3, <3>1
    <3>3. <<z[1], z[2], 0>> \in G
      BY <1>2, <3>2
    <3>4. <<z[1], z[2], 0>>[1] = z[1] /\ <<z[1], z[2], 0>>[2] = z[2] /\ <<z[1], z[2], 0>>[3] = 0
      OBVIOUS
    <3> QED
      BY <3>1, <3>3, <3>4 DEF CellAt
  <2> QED
    BY <1>1, <2>1, <2>2
<1>5. ASSUME NEW z \in G, z[3] = 0 PROVE CellAt(c, z) \in N
  <2>1. PICK x \in T, t \in 1 .. Tiles : z = <<x, t, 0>> /\ <<x, t>> \in P
    <3>1. CASE \E x \in T, t \in 1 .. Tiles, j \in 0 .. Edge - 1 :
                 z = <<x, t, j + 1>> /\ <<x, t, j>> \in F /\ j < Lag(c, x)
      <4>1. PICK x \in T, t \in 1 .. Tiles, j \in 0 .. Edge - 1 : z = <<x, t, j + 1>>
        BY <3>1
      <4>2. z[3] = j + 1 /\ j + 1 # 0
        BY <1>0, <4>1
      <4> QED
        BY <1>5, <4>2
    <3>2. CASE \E x \in T, t \in 1 .. Tiles : z = <<x, t, 0>> /\ <<x, t>> \in P
      BY <3>2
    <3> QED
      BY <1>2, <3>1, <3>2
  <2>2. CellAt(c, z) = CellOf(c, x, t, 0) /\ <<x, t>>[1] = x /\ <<x, t>>[2] = t /\ t >= 1
    BY <2>1 DEF CellAt
  <2> QED
    BY <1>1, <2>1, <2>2
(* What passes: a vector that goes on, or what a bank has read.             *)
<1>6. ASSUME NEW d \in M
      PROVE  \/ \E z \in G : z[3] # 0 /\ d = CellAt(c, z)
             \/ \E b \in Banks : ReadCell(c, d, b) /\ d.column < Place[b]
  <2>1. PICK e \in S \ D : e.column > 0 /\ d = [e EXCEPT !.column = @ - 1]
    BY DEF MovedOn
  <2>2. CASE \E z \in F : e = CellAt(c, z)
    <3>1. PICK z \in F : e = CellAt(c, z)
      BY <2>2
    <3>2. /\ z = <<z[1], z[2], z[3]>> /\ z[1] \in T /\ z[2] \in 1 .. Tiles
          /\ z[3] \in 0 .. Lag(c, z[1]) /\ Lag(c, z[1]) \in Nat /\ Lag(c, z[1]) < Edge
      BY FlyingFacts DEF F
    <3>3. z[3] # Lag(c, z[1])
      BY <2>1, <3>1 DEF ConsumedOK, F
    <3>4. z[3] < Lag(c, z[1]) /\ z[3] \in 0 .. Edge - 1 /\ z[3] + 1 # 0 /\ (Edge - z[3]) - 1 = Edge - (z[3] + 1)
      BY <1>0, <3>2, <3>3
    <3>5. PICK w : w = <<z[1], z[2], z[3] + 1>>
      OBVIOUS
    <3>6. w \in G /\ w[1] = z[1] /\ w[2] = z[2] /\ w[3] = z[3] + 1
      <4>1. PICK x, t, j : x = z[1] /\ t = z[2] /\ j = z[3]
        OBVIOUS
      <4>2. x \in T /\ t \in 1 .. Tiles /\ j \in 0 .. Edge - 1 /\ j < Lag(c, x) /\ w = <<x, t, j + 1>> /\ z = <<x, t, j>>
        BY <3>2, <3>4, <3>5, <4>1
      <4>3. w \in G
        BY <1>2, <4>2
      <4> QED
        BY <4>1, <4>2, <4>3
    <3>7. PICK m, n, t, s, v : m = Edge - z[3] /\ n = Edge - (z[3] + 1) /\ t = z[2] /\ s = Stream(c, z[1]) /\ v = Vector(c, z[1])
      OBVIOUS
    <3>8. e = [column |-> m, tile |-> t, stream |-> s, data |-> v, transport |-> TRUE] /\ n = m - 1
      BY <3>1, <3>4, <3>7 DEF CellAt, CellOf
    <3>9. d = [column |-> n, tile |-> t, stream |-> s, data |-> v, transport |-> TRUE]
      BY <2>1, <3>8
    <3>10. d = CellAt(c, w)
      BY <3>6, <3>7, <3>9 DEF CellAt, CellOf
    <3> QED
      BY <3>4, <3>6, <3>10
  <2>3. CASE \E b \in Banks : ReadCell(c, e, b)
    <3>1. PICK b \in Banks : ReadCell(c, e, b)
      BY <2>3
    <3>2. PICK m, t, s, v : m = e.column /\ t = e.tile /\ s = e.stream /\ v = e.data
      OBVIOUS
    <3>3. /\ e = [column |-> m, tile |-> t, stream |-> s, data |-> v, transport |-> FALSE]
          /\ m \in 0 .. Place[b] /\ \E i \in ReadsOf(c, b) : s = Programs[c]["native"][b][i].stream
      BY <3>1, <3>2 DEF ReadCell
    <3>4. d = [column |-> m - 1, tile |-> t, stream |-> s, data |-> v, transport |-> FALSE]
      BY <2>1, <3>3
    <3>5. d.column = m - 1 /\ d.tile = t /\ d.stream = s /\ d.data = v
      BY <3>4
    <3>6. m - 1 \in 0 .. Place[b] /\ m - 1 < Place[b]
      BY <1>0, <2>1, <3>2, <3>3
    <3>7. ReadCell(c, d, b)
      BY <3>3, <3>4, <3>5, <3>6 DEF ReadCell
    <3> QED
      BY <3>5, <3>6, <3>7
  <2> QED
    BY <2>1, <2>2, <2>3 DEF CellsOK, F
<1>7. ASSUME NEW z \in G, z[3] # 0 PROVE CellAt(c, z) \in M
  <2>1. PICK x \in T, t \in 1 .. Tiles, j \in 0 .. Edge - 1 :
           z = <<x, t, j + 1>> /\ <<x, t, j>> \in F /\ j < Lag(c, x)
    <3>1. ASSUME NEW x, NEW t, z = <<x, t, 0>> PROVE FALSE
      BY <1>7, <3>1
    <3> QED
      BY <1>2, <3>1
  <2>2. PICK w : w = <<x, t, j>>
    OBVIOUS
  <2>3. w \in F /\ w[1] = x /\ w[2] = t /\ w[3] = j /\ z[1] = x /\ z[2] = t /\ z[3] = j + 1
    BY <2>1, <2>2
  <2>4. CellAt(c, w) \in S
    BY <2>3 DEF CellsOK, F
  <2>5. CellAt(c, w) \notin D
    <3> SUFFICES ASSUME CellAt(c, w) \in D PROVE FALSE
      OBVIOUS
    <3>1. PICK u \in F : u[3] = Lag(c, u[1]) /\ CellAt(c, w) = CellAt(c, u)
      BY DEF ConsumedOK, F
    <3>2. w[3] \in 0 .. Edge /\ u[3] \in 0 .. Edge
      BY <2>3, FlyingFacts DEF F
    <3>3. Edge - w[3] = Edge - u[3] /\ w[2] = u[2] /\ Stream(c, w[1]) = Stream(c, u[1])
      <4>1. /\ CellAt(c, w).column = Edge - w[3] /\ CellAt(c, w).tile = w[2] /\ CellAt(c, w).stream = Stream(c, w[1])
            /\ CellAt(c, u).column = Edge - u[3] /\ CellAt(c, u).tile = u[2] /\ CellAt(c, u).stream = Stream(c, u[1])
        BY DEF CellAt, CellOf
      <4> QED
        BY <3>1, <4>1
    <3>4. w[3] = u[3]
      BY <1>0, <3>2, <3>3
    <3>5. w = u
      BY <2>3, <3>3, <3>4, SameCell DEF F
    <3>6. Lag(c, x) \in Nat
      BY ItemNumbers
    <3> QED
      BY <2>1, <2>3, <3>1, <3>5, <3>6
  <2>6. PICK m, n, s, v : m = Edge - j /\ n = Edge - (j + 1) /\ s = Stream(c, x) /\ v = Vector(c, x)
    OBVIOUS
  <2>7. n = m - 1 /\ m > 0
    BY <1>0, <2>6
  <2>8. CellAt(c, w) = [column |-> m, tile |-> t, stream |-> s, data |-> v, transport |-> TRUE]
    BY <2>3, <2>6 DEF CellAt, CellOf
  <2>9. CellAt(c, z) = [column |-> n, tile |-> t, stream |-> s, data |-> v, transport |-> TRUE]
    BY <2>3, <2>6 DEF CellAt, CellOf
  <2>10. PICK f : f = CellAt(c, w)
    OBVIOUS
  <2>11. f.column > 0 /\ CellAt(c, z) = [f EXCEPT !.column = @ - 1]
    <3>1. f = [column |-> m, tile |-> t, stream |-> s, data |-> v, transport |-> TRUE]
      BY <2>8, <2>10
    <3>2. PICK g : g = [f EXCEPT !.column = @ - 1]
      OBVIOUS
    <3>3. g = [column |-> n, tile |-> t, stream |-> s, data |-> v, transport |-> TRUE]
      BY <2>7, <3>1, <3>2
    <3>4. f.column = m
      BY <3>1
    <3> QED
      BY <2>7, <2>9, <3>2, <3>3, <3>4
  <2> QED
    BY <2>4, <2>5, <2>10, <2>11 DEF MovedOn
<1> HIDE DEF M
<1>8. CellsOK(c, G, N \cup M)
  <2>1. ASSUME NEW z \in G PROVE CellAt(c, z) \in N \cup M
    BY <1>5, <1>7
  <2>2. ASSUME NEW d \in N \cup M
        PROVE  (\E z \in G : d = CellAt(c, z)) \/ \E b \in Banks : ReadCell(c, d, b)
    <3>1. CASE d \in N
      BY <1>1, <1>4, <3>1 DEF ReadsStaged
    <3>2. CASE d \in M
      BY <1>6, <3>2
    <3> QED
      BY <3>1, <3>2
  <2> QED
    BY <2>1, <2>2 DEF CellsOK
<1>9. ASSUME NEW z \in G
      PROVE  /\ CellAt(c, z).stream = Stream(c, z[1]) /\ CellAt(c, z).column = Edge - z[3]
             /\ CellAt(c, z).tile = z[2] /\ z[3] \in 0 .. Edge /\ z[1] \in Items(c)
  <2>1. z[3] \in 0 .. Edge /\ z[1] \in Items(c)
    BY FlyingFacts DEF G
  <2> QED
    BY <2>1 DEF CellAt, CellOf
<1>10. ASSUME NEW z \in G, NEW d, NEW b \in Banks, ReadCell(c, d, b) PROVE CellAt(c, z).stream # d.stream
  <2>1. PICK i \in ReadsOf(c, b) : d.stream = Programs[c]["native"][b][i].stream
    BY <1>10 DEF ReadCell
  <2> QED
    BY <1>9, <2>1, NoReadStream
<1>11. ASSUME NEW e \in Q
       PROVE  \E b \in Banks : ReadCell(c, e, b) /\ e.column = Place[b]
  BY <1>1 DEF ReadsStaged
<1>12. ASSUME NEW d \in M, NEW e \in N, SamePlace(d, e) PROVE FALSE
  <2>0. d.column = e.column /\ d.tile = e.tile /\ d.stream = e.stream
    BY <1>12 DEF SamePlace
  <2>1. CASE \E z \in G : z[3] # 0 /\ d = CellAt(c, z)
    <3>1. PICK z \in G : z[3] # 0 /\ d = CellAt(c, z)
      BY <2>1
    <3>2. CASE e \in Q
      BY <1>10, <1>11, <2>0, <3>1, <3>2
    <3>3. CASE \E w \in G : w[3] = 0 /\ e = CellAt(c, w)
      <4>1. PICK w \in G : w[3] = 0 /\ e = CellAt(c, w)
        BY <3>3
      <4>2. Edge - z[3] = Edge - 0 /\ z[3] \in 0 .. Edge
        BY <1>9, <2>0, <3>1, <4>1
      <4> QED
        BY <1>0, <3>1, <4>2
    <3> QED
      BY <1>4, <3>2, <3>3
  <2>2. CASE \E b \in Banks : ReadCell(c, d, b) /\ d.column < Place[b]
    <3>1. PICK b \in Banks : ReadCell(c, d, b) /\ d.column < Place[b]
      BY <2>2
    <3>2. CASE e \in Q
      <4>1. PICK a \in Banks : ReadCell(c, e, a) /\ e.column = Place[a]
        BY <1>11, <3>2
      <4>2. a = b
        BY <2>0, <3>1, <4>1, ReadBank
      <4>3. Place[b] \in Nat
        BY <1>0
      <4> QED
        BY <2>0, <3>1, <4>1, <4>2, <4>3
    <3>3. CASE \E w \in G : w[3] = 0 /\ e = CellAt(c, w)
      BY <1>10, <2>0, <3>1, <3>3
    <3> QED
      BY <1>4, <3>2, <3>3
  <2> QED
    BY <1>6, <2>1, <2>2
<1>13. ASSUME NEW d \in N, NEW e \in N, SamePlace(d, e) PROVE d = e
  <2>0. d.column = e.column /\ d.tile = e.tile /\ d.stream = e.stream
    BY <1>13 DEF SamePlace
  <2>1. CASE d \in Q /\ e \in Q
    BY <1>1, <1>13, <2>1 DEF ReadsStaged
  <2>2. CASE d \in Q /\ \E w \in G : w[3] = 0 /\ e = CellAt(c, w)
    BY <1>10, <1>11, <2>0, <2>2
  <2>3. CASE e \in Q /\ \E w \in G : w[3] = 0 /\ d = CellAt(c, w)
    BY <1>10, <1>11, <2>0, <2>3
  <2>4. CASE (\E z \in G : z[3] = 0 /\ d = CellAt(c, z)) /\ \E w \in G : w[3] = 0 /\ e = CellAt(c, w)
    <3>1. PICK z \in G, w \in G : z[3] = 0 /\ d = CellAt(c, z) /\ w[3] = 0 /\ e = CellAt(c, w)
      BY <2>4
    <3>2. z[2] = w[2] /\ Stream(c, z[1]) = Stream(c, w[1])
      BY <1>9, <2>0, <3>1
    <3>3. z = w
      BY <3>1, <3>2, SameCell DEF G
    <3> QED
      BY <3>1, <3>3
  <2> QED
    BY <1>4, <2>1, <2>2, <2>3, <2>4
<1> QED
  BY <1>8, <1>12, <1>13 DEF G, M

----------------------------------------------------------------------------
(* The MEM slices.                                                          *)

ReadAs(c, b, i) ==
  LET r == Programs[c]["native"][b][i]
  IN [op |-> "read", row |-> r.row, stream |-> r.stream, launch |-> 0, sees |-> r.sees]

SlotOf(c, x, t) == [bank |-> Bank(x), tile |-> t, instruction |-> WriteFor(c, x)]
SlotAt(c, z)    == SlotOf(c, z[1], z[2])

(* A Read, where the page it is for has been written on its tile.           *)
ReadSlotAt(c, W, d, b, t, i) ==
  /\ d = [bank |-> b, tile |-> t, instruction |-> ReadAs(c, b, i)]
  /\ \E x \in Items(c) : /\ Bank(x) = b /\ Row(c, x) = Programs[c]["native"][b][i].row
                         /\ Vector(c, x) = Programs[c]["native"][b][i].sees /\ <<x, t>> \in W

ReadSlot(c, W, s, d) ==
  \E b \in Banks, t \in (2 - s) .. Tiles : \E i \in ReadsOf(c, b) : ReadSlotAt(c, W, d, b, t, i)

ReadsApart(S) ==
  \A d, e \in S :
    d.instruction.op = "read" /\ e.instruction.op = "read" /\ d.bank = e.bank /\ d.tile = e.tile => d = e

SlotsOK(c, W, L, s, S) ==
  /\ \A z \in L : SlotAt(c, z) \in S
  /\ \A d \in S : (\E z \in L : d = SlotAt(c, z)) \/ ReadSlot(c, W, s, d)
  /\ ReadsApart(S)

LEMMA SlottedFacts ==
  ASSUME Scheduled, NEW c \in BOOLEAN, NEW T, NEW A, AgesOK(c, T, A), NEW s \in 0 .. 1,
         NEW z \in Slotted(c, T, A, s)
  PROVE  z = <<z[1], z[2]>> /\ z[1] \in T /\ z[1] \in Items(c) /\ z[2] \in 1 .. Tiles
BY ItemNumbers DEF Slotted

LEMMA SlotFields ==
  ASSUME NEW c, NEW x, NEW t
  PROVE  LET d == SlotOf(c, x, t)
         IN /\ d.bank = Bank(x) /\ d.tile = t /\ d.instruction.op = "write"
            /\ d.instruction.row = Row(c, x) /\ d.instruction.stream = Stream(c, x)
            /\ d.instruction.launch = Launch(c, x)
BY DEF SlotOf, WriteFor

LEMMA ReadFields ==
  ASSUME NEW c, NEW W, NEW d, NEW b, NEW t, NEW i, ReadSlotAt(c, W, d, b, t, i)
  PROVE  /\ d.bank = b /\ d.tile = t /\ d.instruction.op = "read" /\ d.instruction = ReadAs(c, b, i)
         /\ d.instruction.row = Programs[c]["native"][b][i].row
         /\ d.instruction.stream = Programs[c]["native"][b][i].stream
         /\ d.instruction.sees = Programs[c]["native"][b][i].sees
<1>1. d = [bank |-> b, tile |-> t, instruction |-> ReadAs(c, b, i)]
  BY DEF ReadSlotAt
<1>2. d.bank = b /\ d.tile = t /\ d.instruction = ReadAs(c, b, i)
  BY <1>1
<1> QED
  BY <1>2 DEF ReadAs

LEMMA SameSlot ==
  ASSUME Scheduled, NEW c \in BOOLEAN, NEW T, NEW A, AgesOK(c, T, A), NEW s \in 0 .. 1,
         NEW z \in Slotted(c, T, A, s), NEW w \in Slotted(c, T, A, s),
         Bank(z[1]) = Bank(w[1]), Row(c, z[1]) = Row(c, w[1]), z[2] = w[2]
  PROVE  z = w
<1>1. z[1] = w[1]
  BY SlottedFacts, RowOnce
<1> QED
  BY <1>1, SlottedFacts

(* The Writes are those of the vectors that are due.                        *)
LEMMA WritesAre ==
  ASSUME NEW c, NEW W, NEW L, NEW s, SlotsOK(c, W, L, s, slots)
  PROVE  /\ Writes = {SlotAt(c, z) : z \in L}
         /\ \A d \in Reads : ReadSlot(c, W, s, d)
<1>1. \A z \in L : SlotAt(c, z) \in slots /\ SlotAt(c, z).instruction.op = "write"
  BY SlotFields DEF SlotsOK, SlotAt
<1>2. \A d \in slots : (\E z \in L : d = SlotAt(c, z)) \/ ReadSlot(c, W, s, d)
  BY DEF SlotsOK
<1>3. \A d : ReadSlot(c, W, s, d) => d.instruction.op = "read"
  BY ReadFields DEF ReadSlot
<1> QED
  BY <1>1, <1>2, <1>3 DEF Writes, Reads

(* A Write meets its vector, and nothing else.                              *)
LEMMA SourceIs ==
  ASSUME Scheduled, NEW c \in BOOLEAN, NEW T, NEW A, AgesOK(c, T, A),
         CellsOK(c, Flying(c, T, A, 1), cells), NEW z \in Slotted(c, T, A, 1)
  PROVE  /\ <<z[1], z[2], Lag(c, z[1])>> \in Flying(c, T, A, 1)
         /\ Source(SlotAt(c, z)) = {CellAt(c, <<z[1], z[2], Lag(c, z[1])>>)}
<1> DEFINE F == Flying(c, T, A, 1)
           x == z[1]
           t == z[2]
           s == SlotAt(c, z)
<1>1. z = <<x, t>> /\ x \in T /\ x \in Items(c) /\ t \in 1 .. Tiles
  BY SlottedFacts
<1>2. PICK w : w = <<x, t, Lag(c, x)>>
  OBVIOUS
<1>3. w \in F
  BY <1>1, <1>2, MemSets
<1>4. w[1] = x /\ w[2] = t /\ w[3] = Lag(c, x)
  BY <1>2
<1>5. s.bank = Bank(x) /\ s.tile = t /\ s.instruction.stream = Stream(c, x)
  BY SlotFields DEF SlotAt
<1>6. Edge - Lag(c, x) = Place[Bank(x)] + 1 /\ Edge \in Nat /\ Lag(c, x) \in Nat
  <2>1. Lag(c, x) = Edge - Place[Bank(x)] - 1 /\ Bank(x) \in Banks /\ Lag(c, x) \in Nat
    BY <1>1, ItemFacts
  <2>2. Place[Bank(x)] \in 0 .. Edge - 1 /\ Edge \in Nat
    BY <2>1, TransportAssumption
  <2> QED
    BY <2>1, <2>2
<1>7. /\ CellAt(c, w) \in cells /\ CellAt(c, w).column = Place[Bank(x)] + 1
      /\ CellAt(c, w).tile = t /\ CellAt(c, w).stream = Stream(c, x)
  <2>1. CellAt(c, w) \in cells
    BY <1>3 DEF CellsOK
  <2>2. CellAt(c, w).column = Edge - Lag(c, x) /\ CellAt(c, w).tile = t /\ CellAt(c, w).stream = Stream(c, x)
    BY <1>4 DEF CellAt, CellOf
  <2> QED
    BY <1>6, <2>1, <2>2
<1> HIDE DEF F, s, x, t
<1>8. ASSUME NEW d \in cells, d.column = Place[Bank(x)] + 1, d.tile = t, d.stream = Stream(c, x)
      PROVE  d = CellAt(c, w)
  <2>1. CASE \E u \in F : d = CellAt(c, u)
    <3>1. PICK u \in F : d = CellAt(c, u)
      BY <2>1
    <3>2. d.column = Edge - u[3] /\ d.tile = u[2] /\ d.stream = Stream(c, u[1])
      BY <3>1 DEF CellAt, CellOf
    <3>3. u[3] \in 0 .. Edge
      BY FlyingFacts DEF F
    <3>4. u[3] = w[3]
      BY <1>4, <1>6, <1>8, <3>2, <3>3
    <3>6. u[2] = w[2] /\ Stream(c, u[1]) = Stream(c, w[1])
      BY <1>4, <1>8, <3>2
    <3>7. u \in Flying(c, T, A, 1) /\ w \in Flying(c, T, A, 1)
      BY <1>3 DEF F
    <3>5. u = w
      BY <3>4, <3>6, <3>7, SameCell
    <3> QED
      BY <3>1, <3>5
  <2>2. CASE \E b \in Banks : ReadCell(c, d, b)
    <3>1. PICK b \in Banks : ReadCell(c, d, b)
      BY <2>2
    <3>2. PICK i \in ReadsOf(c, b) : d.stream = Programs[c]["native"][b][i].stream
      BY <3>1 DEF ReadCell
    <3> QED
      BY <1>1, <1>8, <3>2, NoReadStream
  <2> QED
    BY <2>1, <2>2 DEF CellsOK, F
<1>9. Source(s) = {CellAt(c, w)}
  <2>1. Source(s) = {d \in cells : d.column = Place[Bank(x)] + 1 /\ d.tile = t /\ d.stream = Stream(c, x)}
    BY <1>5 DEF Source
  <2> QED
    BY <1>7, <1>8, <2>1
<1> QED
  BY <1>2, <1>3, <1>9 DEF F, s, x, t

LEMMA PayloadsMet ==
  ASSUME Scheduled, NEW c \in BOOLEAN, NEW T, NEW A, AgesOK(c, T, A), NEW W,
         CellsOK(c, Flying(c, T, A, 1), cells), SlotsOK(c, W, Slotted(c, T, A, 1), 1, slots)
  PROVE  /\ ~\E s \in Writes : Source(s) = {}
         /\ Good = Writes
         /\ \A z \in Slotted(c, T, A, 1) : Payload(SlotAt(c, z)) = Vector(c, z[1])
         /\ ConsumedOK(c, Flying(c, T, A, 1), UNION {Source(s) : s \in Writes})
<1> DEFINE L == Slotted(c, T, A, 1)
           F == Flying(c, T, A, 1)
           at(z) == <<z[1], z[2], Lag(c, z[1])>>
<1>1. Writes = {SlotAt(c, z) : z \in L}
  BY WritesAre
<1>2. \A z \in L : at(z) \in F /\ Source(SlotAt(c, z)) = {CellAt(c, at(z))}
  BY SourceIs
<1>3. \A z \in L : CellAt(c, at(z)).transport /\ CellAt(c, at(z)).data = Vector(c, z[1])
  BY DEF CellAt, CellOf
<1>4. \A u \in F : u[3] = Lag(c, u[1]) => \E z \in L : u = at(z)
  <2> TAKE u \in F
  <2> HAVE u[3] = Lag(c, u[1])
  <2>1. u = <<u[1], u[2], u[3]>> /\ u[1] \in T /\ u[2] \in 1 .. Tiles
    BY FlyingFacts
  <2>2. PICK z : z = <<u[1], u[2]>>
    OBVIOUS
  <2>3. z \in L
    BY <2>1, <2>2, MemSets
  <2>4. z[1] = u[1] /\ z[2] = u[2]
    BY <2>2
  <2> QED
    BY <2>1, <2>3, <2>4
<1>5. \A z \in L : at(z)[3] = Lag(c, at(z)[1])
  OBVIOUS
<1> HIDE DEF L, F, at
<1>6. UNION {Source(s) : s \in Writes} = {CellAt(c, y) : y \in {u \in F : u[3] = Lag(c, u[1])}}
  <2>1. ASSUME NEW d \in UNION {Source(s) : s \in Writes}
        PROVE  d \in {CellAt(c, y) : y \in {u \in F : u[3] = Lag(c, u[1])}}
    <3>1. PICK z \in L : d \in Source(SlotAt(c, z))
      BY <1>1
    <3> QED
      BY <1>2, <1>5, <3>1
  <2>2. ASSUME NEW u \in F, u[3] = Lag(c, u[1])
        PROVE  CellAt(c, u) \in UNION {Source(s) : s \in Writes}
    BY <1>1, <1>2, <1>4, <2>2
  <2> QED
    BY <2>1, <2>2
<1>7. ~\E s \in Writes : Source(s) = {}
  BY <1>1, <1>2
<1>8. Good = Writes
  BY <1>1, <1>2, <1>3 DEF Good
<1>9. \A z \in L : Payload(SlotAt(c, z)) = Vector(c, z[1])
  <2> TAKE z \in L
  <2>1. (CHOOSE d \in Source(SlotAt(c, z)) : TRUE) = CellAt(c, at(z))
    BY <1>2
  <2> QED
    BY <1>3, <2>1 DEF Payload
<1> QED
  BY <1>6, <1>7, <1>8, <1>9 DEF ConsumedOK, L, F

MemoryOK(c, W, m) ==
  /\ m \in [Banks -> [Rows \X (1 .. Tiles) -> {None} \cup {Vector(c, x) : x \in Items(c)}]]
  /\ \A x \in Items(c), t \in 1 .. Tiles :
       m[Bank(x)][<<Row(c, x), t>>] = IF <<x, t>> \in W THEN Vector(c, x) ELSE None

(* One Write at most for a row of a bank.                                   *)
LEMMA WriterIs ==
  ASSUME Scheduled, NEW c \in BOOLEAN, NEW T, NEW A, AgesOK(c, T, A), NEW W,
         CellsOK(c, Flying(c, T, A, 1), cells), SlotsOK(c, W, Slotted(c, T, A, 1), 1, slots)
  PROVE  /\ \A b \in Banks, p \in Rows \X (1 .. Tiles) :
              \/ Writer(b, p) = {}
              \/ \E z \in Slotted(c, T, A, 1) : Writer(b, p) = {SlotAt(c, z)}
         /\ \A x \in Items(c), t \in 1 .. Tiles :
              Writer(Bank(x), <<Row(c, x), t>>) = IF <<x, t>> \in Slotted(c, T, A, 1)
                                                  THEN {SlotAt(c, <<x, t>>)} ELSE {}
<1> DEFINE L == Slotted(c, T, A, 1)
<1>1. Good = {SlotAt(c, z) : z \in L}
  BY PayloadsMet, WritesAre
<1>2. \A z \in L : /\ SlotAt(c, z).bank = Bank(z[1]) /\ SlotAt(c, z).tile = z[2]
                   /\ SlotAt(c, z).instruction.row = Row(c, z[1])
  BY SlotFields DEF SlotAt
<1>3. \A z \in L : z = <<z[1], z[2]>> /\ z[1] \in Items(c) /\ z[2] \in 1 .. Tiles
  BY SlottedFacts
<1>4. \A z, w \in L : Bank(z[1]) = Bank(w[1]) /\ Row(c, z[1]) = Row(c, w[1]) /\ z[2] = w[2] => z = w
  BY SameSlot
<1> HIDE DEF L
<1>5. ASSUME NEW b \in Banks, NEW p \in Rows \X (1 .. Tiles)
      PROVE  Writer(b, p) = {} \/ \E z \in L : Writer(b, p) = {SlotAt(c, z)}
  <2>1. \A s : s \in Writer(b, p) <=> s \in Good /\ s.bank = b /\ <<s.instruction.row, s.tile>> = p
    BY DEF Writer
  <2>2. ASSUME NEW s \in Writer(b, p), NEW r \in Writer(b, p) PROVE s = r
    <3>1. PICK z \in L : s = SlotAt(c, z)
      BY <1>1, <2>1
    <3>2. PICK w \in L : r = SlotAt(c, w)
      BY <1>1, <2>1
    <3>3. s.bank = r.bank /\ s.instruction.row = r.instruction.row /\ s.tile = r.tile
      BY <2>1
    <3>4. z = w
      BY <1>2, <1>4, <3>1, <3>2, <3>3
    <3> QED
      BY <3>1, <3>2, <3>4
  <2>3. CASE Writer(b, p) # {}
    <3>1. PICK s : s \in Writer(b, p)
      BY <2>3
    <3>2. PICK z \in L : s = SlotAt(c, z)
      BY <1>1, <2>1, <3>1
    <3>3. Writer(b, p) = {s}
      BY <2>2, <3>1
    <3> QED
      BY <3>2, <3>3
  <2> QED
    BY <2>3
<1>6. ASSUME NEW x \in Items(c), NEW t \in 1 .. Tiles
      PROVE  Writer(Bank(x), <<Row(c, x), t>>) = IF <<x, t>> \in L THEN {SlotAt(c, <<x, t>>)} ELSE {}
  <2>1. \A s : s \in Writer(Bank(x), <<Row(c, x), t>>)
                 <=> s \in Good /\ s.bank = Bank(x) /\ s.instruction.row = Row(c, x) /\ s.tile = t
    BY DEF Writer
  <2>2. ASSUME NEW z \in L, Bank(z[1]) = Bank(x), Row(c, z[1]) = Row(c, x), z[2] = t
        PROVE  z = <<x, t>>
    <3>1. z[1] = x
      BY <1>3, <2>2, RowOnce
    <3> QED
      BY <1>3, <2>2, <3>1
  <2>3. \A s : s \in Writer(Bank(x), <<Row(c, x), t>>) <=> \E z \in L : s = SlotAt(c, z) /\ z = <<x, t>>
    <3>1. ASSUME NEW s \in Writer(Bank(x), <<Row(c, x), t>>)
          PROVE  \E z \in L : s = SlotAt(c, z) /\ z = <<x, t>>
      BY <1>1, <1>2, <2>1, <2>2
    <3>2. ASSUME NEW z \in L, z = <<x, t>> PROVE SlotAt(c, z) \in Writer(Bank(x), <<Row(c, x), t>>)
      <4>1. z[1] = x /\ z[2] = t
        BY <3>2
      <4> QED
        BY <1>1, <1>2, <2>1, <4>1
    <3> QED
      BY <3>1, <3>2
  <2> QED
    BY <2>3
<1> QED
  BY <1>5, <1>6 DEF L

LEMMA MemoryWritten ==
  ASSUME Scheduled, NEW c \in BOOLEAN, NEW T, NEW A, AgesOK(c, T, A),
         CellsOK(c, Flying(c, T, A, 1), cells),
         SlotsOK(c, Written(c, T, A, 1), Slotted(c, T, A, 1), 1, slots),
         MemoryOK(c, Written(c, T, A, 1), sram), EvaluateMem
  PROVE  MemoryOK(c, Written(c, T, A, 0), sram')
<1> DEFINE L == Slotted(c, T, A, 1)
           V == {None} \cup {Vector(c, x) : x \in Items(c)}
           D == Rows \X (1 .. Tiles)
<1>1. sram \in [Banks -> [D -> V]]
  BY DEF MemoryOK
<1>2. sram' = [b \in Banks |-> [p \in DOMAIN sram[b] |->
                IF Writer(b, p) = {} THEN sram[b][p] ELSE Payload(CHOOSE s \in Writer(b, p) : TRUE)]]
  BY DEF EvaluateMem
<1>3. \A b \in Banks, p \in D : Writer(b, p) = {} \/ \E z \in L : Writer(b, p) = {SlotAt(c, z)}
  BY WriterIs
<1>4. \A z \in L : Payload(SlotAt(c, z)) = Vector(c, z[1]) /\ z[1] \in Items(c)
  <2>1. \A z \in L : Payload(SlotAt(c, z)) = Vector(c, z[1])
    BY PayloadsMet
  <2>2. \A z \in L : z[1] \in Items(c)
    BY SlottedFacts
  <2> QED
    BY <2>1, <2>2
<1>5. \A x \in Items(c), t \in 1 .. Tiles :
        Writer(Bank(x), <<Row(c, x), t>>) = IF <<x, t>> \in L THEN {SlotAt(c, <<x, t>>)} ELSE {}
  BY WriterIs
<1>6. Written(c, T, A, 0) = Written(c, T, A, 1) \cup L
  BY MemSets
<1>7. \A x \in Items(c), t \in 1 .. Tiles : sram[Bank(x)][<<Row(c, x), t>>]
                                    = IF <<x, t>> \in Written(c, T, A, 1) THEN Vector(c, x) ELSE None
  BY DEF MemoryOK
<1>8. \A x \in Items(c) : Bank(x) \in Banks /\ Row(c, x) \in Rows
  BY ItemFacts
<1> HIDE DEF L, V, D
<1>9. \A b \in Banks : DOMAIN sram[b] = D
  BY <1>1
<1>10. \A b \in Banks, p \in D :
         sram'[b][p] = IF Writer(b, p) = {} THEN sram[b][p] ELSE Payload(CHOOSE s \in Writer(b, p) : TRUE)
  BY <1>2, <1>9
<1>11. sram' \in [Banks -> [D -> V]]
  <2>1. \A b \in Banks, p \in D : sram'[b][p] \in V
    <3> TAKE b \in Banks, p \in D
    <3>1. CASE Writer(b, p) = {}
      BY <1>1, <1>10, <3>1
    <3>2. CASE \E z \in L : Writer(b, p) = {SlotAt(c, z)}
      <4>1. PICK z \in L : Writer(b, p) = {SlotAt(c, z)}
        BY <3>2
      <4>2. sram'[b][p] = Payload(CHOOSE s \in Writer(b, p) : TRUE)
        BY <1>10, <4>1
      <4>3. (CHOOSE s \in Writer(b, p) : TRUE) = SlotAt(c, z)
        BY <4>1
      <4>4. sram'[b][p] = Vector(c, z[1]) /\ z[1] \in Items(c)
        BY <1>4, <4>2, <4>3
      <4> QED
        BY <4>4 DEF V
    <3> QED
      BY <1>3, <3>1, <3>2
  <2>2. sram' = [b \in Banks |-> [p \in D |-> sram'[b][p]]]
    BY <1>2, <1>9, <1>10
  <2> QED
    BY <2>1, <2>2
<1>12. ASSUME NEW x \in Items(c), NEW t \in 1 .. Tiles
       PROVE  sram'[Bank(x)][<<Row(c, x), t>>]
                = IF <<x, t>> \in Written(c, T, A, 0) THEN Vector(c, x) ELSE None
  <2>1. PICK b, p : b = Bank(x) /\ p = <<Row(c, x), t>>
    OBVIOUS
  <2>2. b \in Banks /\ p \in D
    BY <1>8, <2>1 DEF D
  <2>3. CASE <<x, t>> \in L
    <3>1. PICK z \in L : z = <<x, t>>
      BY <2>3
    <3>2. Writer(b, p) = {SlotAt(c, z)}
      BY <1>5, <2>1, <3>1
    <3>3. sram'[b][p] = Payload(CHOOSE s \in Writer(b, p) : TRUE)
      BY <1>10, <2>2, <3>2
    <3>4. (CHOOSE s \in Writer(b, p) : TRUE) = SlotAt(c, z)
      BY <3>2
    <3>5. sram'[b][p] = Vector(c, z[1]) /\ z[1] = x
      BY <1>4, <3>1, <3>3, <3>4
    <3> QED
      BY <1>6, <2>1, <2>3, <3>5
  <2>4. CASE <<x, t>> \notin L
    <3>1. Writer(b, p) = {}
      BY <1>5, <2>1, <2>4
    <3>2. sram'[b][p] = sram[b][p]
      BY <1>10, <2>2, <3>1
    <3> QED
      BY <1>6, <1>7, <2>1, <2>4, <3>2
  <2> QED
    BY <2>3, <2>4
<1> QED
  BY <1>11, <1>12 DEF MemoryOK, V, D

(* advance_instructions().                                                  *)
LEMMA SlotShape ==
  ASSUME NEW b, NEW t, NEW i, NEW d, d = [bank |-> b, tile |-> t, instruction |-> i]
  PROVE  /\ [d EXCEPT !.tile = @ + 1] = [bank |-> b, tile |-> t + 1, instruction |-> i]
         /\ d.bank = b /\ d.tile = t /\ d.instruction = i
BY Z3

Onward(S) == {[s EXCEPT !.tile = @ + 1] : s \in {r \in S : r.tile < Tiles}}

LEMMA ReadOnward ==
  ASSUME Scheduled, NEW c \in BOOLEAN, NEW T, NEW A, AgesOK(c, T, A),
         NEW d, d.tile < Tiles, ReadSlot(c, Written(c, T, A, 1), 1, d)
  PROVE  ReadSlot(c, Written(c, T, A, 0), 0, [d EXCEPT !.tile = @ + 1])
<1>1. PICK b \in Banks : \E t \in (2 - 1) .. Tiles : \E i \in ReadsOf(c, b) : ReadSlotAt(c, Written(c, T, A, 1), d, b, t, i)
  BY DEF ReadSlot
<1>2. PICK t \in (2 - 1) .. Tiles : \E i \in ReadsOf(c, b) : ReadSlotAt(c, Written(c, T, A, 1), d, b, t, i)
  BY <1>1
<1>3. PICK i \in ReadsOf(c, b) : ReadSlotAt(c, Written(c, T, A, 1), d, b, t, i)
  BY <1>2
<1>4. PICK x \in Items(c) : /\ Bank(x) = b /\ Row(c, x) = Programs[c]["native"][b][i].row
                            /\ Vector(c, x) = Programs[c]["native"][b][i].sees
                            /\ <<x, t>> \in Written(c, T, A, 1)
  BY <1>3 DEF ReadSlotAt
<1>5. x \in T
  BY <1>4 DEF Written
<1>6. PICK e : e = [d EXCEPT !.tile = @ + 1]
  OBVIOUS
<1>7. d = [bank |-> b, tile |-> t, instruction |-> ReadAs(c, b, i)]
  BY <1>3 DEF ReadSlotAt
<1>8. e = [bank |-> b, tile |-> t + 1, instruction |-> ReadAs(c, b, i)] /\ d.tile = t
  BY <1>6, <1>7, SlotShape
<1>9. Tiles \in Nat \ {0} /\ t \in 1 .. Tiles /\ t < Tiles
  BY <1>8, TransportAssumption
<1>10. <<x, t + 1>> \in Written(c, T, A, 0)
  BY <1>4, <1>5, <1>9, MemSets
<1>11. t + 1 \in (2 - 0) .. Tiles
  BY <1>9
<1>12. ReadSlotAt(c, Written(c, T, A, 0), e, b, t + 1, i)
  BY <1>4, <1>8, <1>10 DEF ReadSlotAt
<1>13. ReadSlot(c, Written(c, T, A, 0), 0, e)
  BY <1>11, <1>12 DEF ReadSlot
<1> QED
  BY <1>6, <1>13

LEMMA SlotsOnward ==
  ASSUME Scheduled, NEW c \in BOOLEAN, NEW T, NEW A, AgesOK(c, T, A), NEW S,
         SlotsOK(c, Written(c, T, A, 1), Slotted(c, T, A, 1), 1, S)
  PROVE  SlotsOK(c, Written(c, T, A, 0), Slotted(c, T, A, 0), 0, Onward(S))
<1> DEFINE L == Slotted(c, T, A, 1)
           M == Slotted(c, T, A, 0)
           next(d) == [d EXCEPT !.tile = @ + 1]
<1>1. Tiles \in Nat \ {0}
  BY TransportAssumption
<1>2. \A z \in M : z = <<z[1], z[2]>> /\ z[1] \in T /\ z[2] \in 1 .. Tiles
  BY SlottedFacts
<1>3. \A z \in L : z = <<z[1], z[2]>> /\ z[1] \in T /\ z[2] \in 1 .. Tiles
  BY SlottedFacts
<1>4. /\ \A x \in T, t \in 1 .. Tiles : <<x, t + 1>> \in M <=> <<x, t>> \in L /\ t < Tiles
      /\ \A x \in T : <<x, 1>> \notin M
  BY MemSets
<1>5. \A z \in L : SlotAt(c, z) \in S
  BY DEF SlotsOK
<1>6. \A d \in S : (\E z \in L : d = SlotAt(c, z)) \/ ReadSlot(c, Written(c, T, A, 1), 1, d)
  BY DEF SlotsOK
<1>7. ASSUME NEW x, NEW t
      PROVE  next(SlotOf(c, x, t)) = SlotOf(c, x, t + 1) /\ SlotOf(c, x, t).tile = t
  <2>1. SlotOf(c, x, t) = [bank |-> Bank(x), tile |-> t, instruction |-> WriteFor(c, x)]
    BY DEF SlotOf
  <2>2. next(SlotOf(c, x, t)) = [bank |-> Bank(x), tile |-> t + 1, instruction |-> WriteFor(c, x)]
    BY <2>1, SlotShape
  <2> QED
    BY <2>1, <2>2 DEF SlotOf
<1>8. \A d : d \in Onward(S) <=> \E s \in S : s.tile < Tiles /\ d = next(s)
  BY DEF Onward
<1>9. ASSUME NEW d \in S, d.tile < Tiles, ReadSlot(c, Written(c, T, A, 1), 1, d)
      PROVE  ReadSlot(c, Written(c, T, A, 0), 0, next(d))
  BY <1>9, ReadOnward
<1>10. ASSUME NEW d \in S
       PROVE  /\ d = [bank |-> d.bank, tile |-> d.tile, instruction |-> d.instruction]
              /\ d.tile \in 1 .. Tiles
  <2>1. CASE \E z \in L : d = SlotAt(c, z)
    BY <1>3, <2>1 DEF SlotAt, SlotOf
  <2>2. CASE ReadSlot(c, Written(c, T, A, 1), 1, d)
    <3>1. PICK b \in Banks, t \in (2 - 1) .. Tiles : \E i \in ReadsOf(c, b) : ReadSlotAt(c, Written(c, T, A, 1), d, b, t, i)
      BY <2>2 DEF ReadSlot
    <3>2. d = [bank |-> d.bank, tile |-> d.tile, instruction |-> d.instruction] /\ d.tile = t
      BY <3>1 DEF ReadSlotAt
    <3>3. t \in 1 .. Tiles
      BY <1>1, <3>1
    <3> QED
      BY <3>2, <3>3
  <2> QED
    BY <1>6, <2>1, <2>2
<1>11. \A d \in S : next(d).bank = d.bank /\ next(d).tile = d.tile + 1 /\ next(d).instruction = d.instruction
  <2> TAKE d \in S
  <2>1. d = [bank |-> d.bank, tile |-> d.tile, instruction |-> d.instruction]
    BY <1>10
  <2>2. next(d) = [bank |-> d.bank, tile |-> d.tile + 1, instruction |-> d.instruction]
    BY <2>1, SlotShape
  <2> QED
    BY <2>2
<1> HIDE DEF L, M, next
<1>12. ASSUME NEW z \in M PROVE SlotAt(c, z) \in Onward(S)
  <2>1. PICK x, t : z = <<x, t>> /\ x = z[1] /\ t = z[2] /\ x \in T /\ t \in 1 .. Tiles
    BY <1>2
  <2>2. t # 1
    BY <1>4, <2>1
  <2>3. PICK u : u = t - 1
    OBVIOUS
  <2>4. u \in 1 .. Tiles /\ u + 1 = t
    BY <1>1, <2>1, <2>2, <2>3
  <2>5. <<x, u>> \in L /\ u < Tiles
    BY <1>4, <2>1, <2>4
  <2>6. SlotAt(c, <<x, u>>) \in S /\ SlotAt(c, <<x, u>>) = SlotOf(c, x, u)
    BY <1>5, <2>5 DEF SlotAt
  <2>7. next(SlotOf(c, x, u)) = SlotOf(c, x, t) /\ SlotOf(c, x, u).tile < Tiles
    BY <1>7, <2>4, <2>5
  <2>8. SlotOf(c, x, t) = SlotAt(c, z)
    BY <2>1 DEF SlotAt
  <2> QED
    BY <1>8, <2>6, <2>7, <2>8
<1>13. ASSUME NEW d \in Onward(S)
       PROVE  (\E z \in M : d = SlotAt(c, z)) \/ ReadSlot(c, Written(c, T, A, 0), 0, d)
  <2>1. PICK s \in S : s.tile < Tiles /\ d = next(s)
    BY <1>8
  <2>2. CASE \E z \in L : s = SlotAt(c, z)
    <3>1. PICK z \in L : s = SlotAt(c, z)
      BY <2>2
    <3>2. PICK x, t : z = <<x, t>> /\ x = z[1] /\ t = z[2] /\ x \in T /\ t \in 1 .. Tiles
      BY <1>3
    <3>3. s = SlotOf(c, x, t)
      BY <3>1, <3>2 DEF SlotAt
    <3>4. d = SlotOf(c, x, t + 1) /\ t < Tiles
      BY <1>7, <2>1, <3>3
    <3>5. PICK w : w = <<x, t + 1>>
      OBVIOUS
    <3>6. w \in M
      BY <1>4, <3>2, <3>4, <3>5
    <3>7. SlotAt(c, w) = SlotOf(c, x, t + 1)
      BY <3>5 DEF SlotAt
    <3> QED
      BY <3>4, <3>6, <3>7
  <2>3. CASE ReadSlot(c, Written(c, T, A, 1), 1, s)
    BY <1>9, <2>1, <2>3
  <2> QED
    BY <1>6, <2>2, <2>3
<1>14. ReadsApart(Onward(S))
  <2>1. ASSUME NEW d \in Onward(S), NEW e \in Onward(S),
               d.instruction.op = "read", e.instruction.op = "read", d.bank = e.bank, d.tile = e.tile
        PROVE  d = e
    <3>1. PICK s \in S : d = next(s)
      BY <1>8
    <3>2. PICK r \in S : e = next(r)
      BY <1>8
    <3>3. s.bank = r.bank /\ s.tile = r.tile /\ s.instruction.op = "read" /\ r.instruction.op = "read"
      BY <1>1, <1>10, <1>11, <2>1, <3>1, <3>2
    <3>4. s = r
      BY <3>3 DEF SlotsOK, ReadsApart
    <3> QED
      BY <3>1, <3>2, <3>4
  <2> QED
    BY <2>1 DEF ReadsApart
<1> QED
  BY <1>12, <1>13, <1>14 DEF SlotsOK, L, M

(* execute_read().                                                          *)
ReadOut(s) == [column |-> Place[s.bank], tile |-> s.tile, stream |-> s.instruction.stream,
               data |-> sram[s.bank][<<s.instruction.row, s.tile>>], transport |-> FALSE]

LEMMA ReadsGoOut ==
  ASSUME Scheduled, NEW c \in BOOLEAN, NEW W, NEW L, NEW s, SlotsOK(c, W, L, s, slots)
  PROVE  ReadsStaged(c, {ReadOut(d) : d \in Reads})
<1>1. \A d \in Reads : ReadSlot(c, W, s, d)
  BY WritesAre
<1>2. \A d \in Reads : /\ ReadOut(d).column = Place[d.bank] /\ ReadOut(d).tile = d.tile
                       /\ ReadOut(d).stream = d.instruction.stream
  BY DEF ReadOut
<1>3. ASSUME NEW d \in Reads
      PROVE  d.bank \in Banks /\ ReadCell(c, ReadOut(d), d.bank)
  <2>1. PICK b \in Banks, t \in (2 - s) .. Tiles : \E i \in ReadsOf(c, b) : ReadSlotAt(c, W, d, b, t, i)
    BY <1>1 DEF ReadSlot
  <2>2. PICK i \in ReadsOf(c, b) : ReadSlotAt(c, W, d, b, t, i)
    BY <2>1
  <2>3. d.bank = b /\ d.instruction.stream = Programs[c]["native"][b][i].stream
    BY <2>2, ReadFields
  <2>4. Place[b] \in 0 .. Place[b]
    BY TransportAssumption
  <2>5. PICK e : e = ReadOut(d)
    OBVIOUS
  <2>6. e = [column |-> e.column, tile |-> e.tile, stream |-> e.stream, data |-> e.data, transport |-> FALSE]
    BY <2>5 DEF ReadOut
  <2>7. ReadCell(c, e, b)
    BY <1>2, <2>2, <2>3, <2>4, <2>5, <2>6 DEF ReadCell
  <2> QED
    BY <2>3, <2>5, <2>7
<1>4. ASSUME NEW d \in Reads, NEW e \in Reads, SamePlace(ReadOut(d), ReadOut(e)) PROVE d = e
  <2>1. ReadOut(d).tile = ReadOut(e).tile /\ ReadOut(d).stream = ReadOut(e).stream
    BY <1>4 DEF SamePlace
  <2>2. d.bank = e.bank
    BY <1>3, <2>1, ReadBank
  <2>3. d.tile = e.tile
    BY <1>2, <2>1
  <2> QED
    BY <2>2, <2>3 DEF SlotsOK, ReadsApart, Reads
<1> QED
  BY <1>2, <1>3, <1>4 DEF ReadsStaged

----------------------------------------------------------------------------
(* The scoreboard.                                                          *)

(* The segments of a packet, as vector and tile, that are in W.             *)
Segments(c, W, k) == {y \in (1 .. Entry(c, k).count) \X (1 .. Tiles) : <<<<k, y[1]>>, y[2]>> \in W}

CountsOK(c, W, n) ==
  /\ DOMAIN n = Launches \X Banks
  /\ \A k \in PacketTable[c] : n[<<Entry(c, k).launch, BankOf(k)>>] = Cardinality(Segments(c, W, k))

LEMMA SameCount ==
  ASSUME NEW S, NEW N, IsFiniteSet(S), NEW f \in [S -> N],
         \A x, y \in S : f[x] = f[y] => x = y, \A z \in N : \E x \in S : f[x] = z
  PROVE  IsFiniteSet(N) /\ Cardinality(N) = Cardinality(S)
<1>1. f \in Bijection(S, N)
  BY DEF Bijection, Injection, Surjection, IsInjective
<1> QED
  BY <1>1, FS_Bijection DEF ExistsBijection

LEMMA SegmentsFinite ==
  ASSUME Scheduled, NEW c \in BOOLEAN, NEW W, NEW k \in PacketTable[c]
  PROVE  IsFiniteSet(Segments(c, W, k)) /\ Cardinality(Segments(c, W, k)) \in Nat
<1>1. Entry(c, k).count \in Nat /\ Tiles \in Nat
  BY PacketFacts, TransportAssumption
<1>2. IsFiniteSet(1 .. Entry(c, k).count) /\ IsFiniteSet(1 .. Tiles)
  BY <1>1, FS_Interval
<1>3. IsFiniteSet((1 .. Entry(c, k).count) \X (1 .. Tiles))
  BY <1>2, FS_Product
<1>4. Segments(c, W, k) \subseteq (1 .. Entry(c, k).count) \X (1 .. Tiles)
  BY DEF Segments
<1> QED
  BY <1>3, <1>4, FS_Subset, FS_CardinalityType

LEMMA SegmentsAdd ==
  ASSUME Scheduled, NEW c \in BOOLEAN, NEW W, NEW L, W \cap L = {}, NEW k \in PacketTable[c]
  PROVE  Cardinality(Segments(c, W \cup L, k)) = Cardinality(Segments(c, W, k)) + Cardinality(Segments(c, L, k))
<1>1. /\ Segments(c, W \cup L, k) = Segments(c, W, k) \cup Segments(c, L, k)
      /\ Segments(c, W, k) \cap Segments(c, L, k) = {}
  BY DEF Segments
<1>2. /\ IsFiniteSet(Segments(c, W, k)) /\ Cardinality(Segments(c, W, k)) \in Nat
      /\ IsFiniteSet(Segments(c, L, k)) /\ Cardinality(Segments(c, L, k)) \in Nat
  BY SegmentsFinite
<1> HIDE DEF Segments
<1>3. Cardinality(Segments(c, W, k) \cup Segments(c, L, k))
        = Cardinality(Segments(c, W, k)) + Cardinality(Segments(c, L, k)) - Cardinality({})
  BY <1>1, <1>2, FS_Union
<1>4. Cardinality({}) = 0
  BY FS_EmptySet
<1>5. PICK m, n : m = Cardinality(Segments(c, W, k)) /\ n = Cardinality(Segments(c, L, k)) /\ m \in Nat /\ n \in Nat
  BY <1>2
<1>6. Cardinality(Segments(c, W \cup L, k)) = m + n - 0
  BY <1>1, <1>3, <1>4, <1>5
<1> QED
  BY <1>5, <1>6

(* The Writes that a packet has in a cycle are counted for its launch.      *)
WritesFor(l, b) == {s \in Good : <<s.instruction.launch, s.bank>> = <<l, b>>}

LEMMA WritesCounted ==
  ASSUME Scheduled, NEW c \in BOOLEAN, NEW T, NEW A, AgesOK(c, T, A), NEW W,
         CellsOK(c, Flying(c, T, A, 1), cells), SlotsOK(c, W, Slotted(c, T, A, 1), 1, slots),
         NEW k \in PacketTable[c]
  PROVE  Cardinality(WritesFor(Entry(c, k).launch, BankOf(k))) = Cardinality(Segments(c, Slotted(c, T, A, 1), k))
<1> DEFINE L == Slotted(c, T, A, 1)
           S == Segments(c, L, k)
           N == WritesFor(Entry(c, k).launch, BankOf(k))
           f == [y \in S |-> SlotOf(c, <<k, y[1]>>, y[2])]
<1>1. Good = {SlotAt(c, z) : z \in L}
  BY PayloadsMet, WritesAre
<1>2. \A z \in L : z = <<z[1], z[2]>> /\ z[1] \in Items(c) /\ z[2] \in 1 .. Tiles
  BY SlottedFacts
<1>3. \A y : y \in S <=> y \in (1 .. Entry(c, k).count) \X (1 .. Tiles) /\ <<<<k, y[1]>>, y[2]>> \in L
  BY DEF Segments
<1>4. \A s : s \in N <=> s \in Good /\ s.instruction.launch = Entry(c, k).launch /\ s.bank = BankOf(k)
  BY DEF WritesFor
<1>5. \A x, t : LET d == SlotOf(c, x, t)
                IN /\ d.bank = BankOf(x[1]) /\ d.tile = t /\ d.instruction.row = Row(c, x)
                   /\ d.instruction.launch = Entry(c, x[1]).launch
  BY SlotFields DEF Bank, Launch
<1>6. IsFiniteSet(S)
  BY SegmentsFinite
<1> HIDE DEF L, S, N
<1>7. ASSUME NEW y \in S PROVE f[y] \in N
  <2>1. PICK x, z : x = <<k, y[1]>> /\ z = <<x, y[2]>>
    OBVIOUS
  <2>2. z \in L /\ SlotAt(c, z) = SlotOf(c, x, y[2]) /\ x[1] = k
    BY <1>3, <2>1 DEF SlotAt
  <2>3. f[y] = SlotAt(c, z) /\ f[y] = SlotOf(c, x, y[2])
    BY <2>1, <2>2
  <2> QED
    BY <1>1, <1>4, <1>5, <2>2, <2>3
<1>8. ASSUME NEW y \in S, NEW w \in S, f[y] = f[w] PROVE y = w
  <2>1. PICK x, u : x = <<k, y[1]>> /\ u = <<k, w[1]>>
    OBVIOUS
  <2>2. f[y] = SlotOf(c, x, y[2]) /\ f[w] = SlotOf(c, u, w[2])
    BY <2>1
  <2>3. Row(c, x) = Row(c, u) /\ y[2] = w[2]
    BY <1>5, <1>8, <2>2
  <2>7. y = <<y[1], y[2]>> /\ y[1] \in 1 .. Entry(c, k).count
    <3>1. y \in (1 .. Entry(c, k).count) \X (1 .. Tiles)
      BY <1>3
    <3> QED
      BY <3>1
  <2>8. w = <<w[1], w[2]>> /\ w[1] \in 1 .. Entry(c, k).count
    <3>1. w \in (1 .. Entry(c, k).count) \X (1 .. Tiles)
      BY <1>3
    <3> QED
      BY <3>1
  <2>4. x \in Items(c) /\ u \in Items(c)
    BY <2>1, <2>7, <2>8, IsItem
  <2>5. Bank(x) = Bank(u)
    BY <2>1 DEF Bank
  <2>6. x = u
    BY <2>3, <2>4, <2>5, RowOnce
  <2> QED
    BY <2>1, <2>3, <2>6, <2>7, <2>8
<1>9. ASSUME NEW s \in N PROVE \E y \in S : f[y] = s
  <2>1. PICK z \in L : s = SlotAt(c, z)
    BY <1>1, <1>4
  <2>2. PICK x : x = z[1] /\ x \in Items(c) /\ z = <<x, z[2]>> /\ z[2] \in 1 .. Tiles
    BY <1>2
  <2>3. s = SlotOf(c, x, z[2])
    BY <2>1, <2>2 DEF SlotAt
  <2>4. Entry(c, x[1]).launch = Entry(c, k).launch /\ BankOf(x[1]) = BankOf(k)
    BY <1>4, <1>5, <2>3
  <2>5. x = <<x[1], x[2]>> /\ x[1] \in PacketTable[c] /\ x[2] \in 1 .. Entry(c, x[1]).count
    BY <2>2, ItemFacts
  <2>6. x[1] = k
    BY <2>4, <2>5, LaunchOnce
  <2>7. PICK y : y = <<x[2], z[2]>>
    OBVIOUS
  <2>8. y \in (1 .. Entry(c, k).count) \X (1 .. Tiles) /\ y[1] = x[2] /\ y[2] = z[2]
    BY <2>2, <2>5, <2>6, <2>7
  <2>9. <<k, y[1]>> = x
    BY <2>5, <2>6, <2>8
  <2>10. y \in S
    BY <1>3, <2>2, <2>8, <2>9
  <2>11. f[y] = SlotOf(c, <<k, y[1]>>, y[2])
    BY <2>10
  <2> QED
    BY <2>3, <2>8, <2>9, <2>10, <2>11
<1>10. f \in [S -> N]
  BY <1>7
<1> HIDE DEF f
<1>11. Cardinality(N) = Cardinality(S)
  BY <1>6, <1>8, <1>9, <1>10, SameCount
<1> QED
  BY <1>11 DEF N, S, L

LEMMA CountsKept ==
  ASSUME Scheduled, NEW c \in BOOLEAN, NEW T, NEW A, AgesOK(c, T, A),
         CellsOK(c, Flying(c, T, A, 1), cells),
         SlotsOK(c, Written(c, T, A, 1), Slotted(c, T, A, 1), 1, slots),
         CountsOK(c, Written(c, T, A, 1), committed), EvaluateMem
  PROVE  CountsOK(c, Written(c, T, A, 0), committed')
<1> DEFINE W == Written(c, T, A, 1)
           L == Slotted(c, T, A, 1)
<1>1. committed' = [x \in DOMAIN committed |-> committed[x]
                      + Cardinality({s \in Good : <<s.instruction.launch, s.bank>> = x})]
  BY DEF EvaluateMem
<1>2. Written(c, T, A, 0) = W \cup L /\ W \cap L = {}
  BY MemSets
<1>3. DOMAIN committed = Launches \X Banks
  BY DEF CountsOK
<1>4. ASSUME NEW k \in PacketTable[c]
      PROVE  committed'[<<Entry(c, k).launch, BankOf(k)>>] = Cardinality(Segments(c, Written(c, T, A, 0), k))
  <2>1. Entry(c, k).launch \in Launches /\ BankOf(k) \in Banks
    BY PacketFacts
  <2>2. <<Entry(c, k).launch, BankOf(k)>> \in DOMAIN committed
    BY <1>3, <2>1
  <2>3. committed'[<<Entry(c, k).launch, BankOf(k)>>]
          = committed[<<Entry(c, k).launch, BankOf(k)>>] + Cardinality(WritesFor(Entry(c, k).launch, BankOf(k)))
    BY <1>1, <2>2 DEF WritesFor
  <2>4. Cardinality(WritesFor(Entry(c, k).launch, BankOf(k))) = Cardinality(Segments(c, L, k))
    BY WritesCounted
  <2>5. committed[<<Entry(c, k).launch, BankOf(k)>>] = Cardinality(Segments(c, W, k))
    BY DEF CountsOK
  <2>6. Cardinality(Segments(c, W \cup L, k)) = Cardinality(Segments(c, W, k)) + Cardinality(Segments(c, L, k))
    BY <1>2, SegmentsAdd
  <2> QED
    BY <1>2, <2>3, <2>4, <2>5, <2>6
<1>5. DOMAIN committed' = Launches \X Banks
  BY <1>1, <1>3
<1> QED
  BY <1>4, <1>5 DEF CountsOK

----------------------------------------------------------------------------
(* dispatch(): what the queues issue to their banks.                        *)

LEMMA Issues ==
  ASSUME NEW c, NEW x, NEW b, NEW i
  PROVE  WriteFor(c, x) # None /\ ReadAs(c, b, i) # None
<1>1. DOMAIN None = {}
  BY DEF None
<1>2. "op" \in DOMAIN WriteFor(c, x)
  BY DEF WriteFor
<1>3. "op" \in DOMAIN ReadAs(c, b, i)
  BY DEF ReadAs
<1> QED
  BY <1>1, <1>2, <1>3

(* A Read whose page is in.                                                 *)
ReadReady(c, W, q, i) ==
  /\ q[1] = "native" /\ i \in ReadsOf(c, q[2])
  /\ \E x \in Items(c) : /\ Bank(x) = q[2] /\ Row(c, x) = Programs[c]["native"][q[2]][i].row
                         /\ Vector(c, x) = Programs[c]["native"][q[2]][i].sees /\ <<x, 1>> \in W

Issued(c, T, A, q, o) ==
  \/ WriteIssued(c, T, A, q, o)
  \/ /\ NoneDue(c, T, A, q)
     /\ o = None \/ \E i : ReadReady(c, Written(c, T, A, 0), q, i) /\ o = ReadAs(c, q[2], i)
     /\ o # None => \A z \in T : z[1][1] = <<"transport", q[2]>> => A[z] # Lag(c, z) + 1

LEMMA OutcomeIs ==
  ASSUME Scheduled, NEW c \in BOOLEAN, NEW T, NEW A, AgesOK(c, T, A), NEW q \in Queues, NEW o,
         Outcome(c, T, Stored(c, T, A), A, q, o)
  PROVE  Issued(c, T, A, q, o)
<1>1. CASE WriteIssued(c, T, A, q, o)
  BY <1>1 DEF Issued
<1>2. CASE NoneDue(c, T, A, q) /\ o = None
  BY <1>2 DEF Issued
<1>3. CASE NoneDue(c, T, A, q) /\ ReadIssued(c, T, Stored(c, T, A), A, q, o)
  <2>1. q[1] = "native" /\ q = <<"native", q[2]>>
    BY <1>3 DEF ReadIssued, Queues
  <2>2. PICK i \in ReadsOf(c, q[2]) : LET r == Prog(c, q)[i]
       IN /\ o = [op |-> "read", row |-> r.row, stream |-> r.stream, launch |-> 0, sees |-> r.sees]
          /\ \E z \in Items(c) : /\ Bank(z) = q[2] /\ Row(c, z) = r.row /\ Vector(c, z) = r.sees
                                 /\ z \in Sent(c, T, A, 2) \/ z \in Stored(c, T, A)
    BY <1>3 DEF ReadIssued
  <2>3. Prog(c, q)[i] = Programs[c]["native"][q[2]][i]
    BY <2>1 DEF Prog
  <2>4. o = ReadAs(c, q[2], i)
    BY <2>2, <2>3 DEF ReadAs
  <2>5. PICK z \in Items(c) : /\ Bank(z) = q[2] /\ Row(c, z) = Programs[c]["native"][q[2]][i].row
                              /\ Vector(c, z) = Programs[c]["native"][q[2]][i].sees
                              /\ z \in Sent(c, T, A, 2) \/ z \in Stored(c, T, A)
    BY <2>2, <2>3
  <2>6. z \in T /\ A[z] >= Lag(c, z) + 2
    <3>1. z \in T
      BY <2>5 DEF Sent, Stored
    <3>2. A[z] \in Nat /\ Lag(c, z) \in Nat /\ Tiles \in Nat \ {0}
      BY <3>1, ItemNumbers
    <3>3. A[z] >= Lag(c, z) + 2 \/ A[z] >= Lag(c, z) + 1 + Tiles
      BY <2>5 DEF Sent, Stored
    <3> QED
      BY <3>1, <3>2, <3>3
  <2>7. <<z, 1>> \in Written(c, T, A, 0)
    <3>1. A[z] \in Nat /\ Lag(c, z) \in Nat /\ Tiles \in Nat \ {0}
      BY <2>6, ItemNumbers
    <3>2. 1 \in 1 .. Tiles /\ 1 <= A[z] - Lag(c, z) - 1 - 0
      BY <2>6, <3>1
    <3> QED
      BY <2>6, <3>2 DEF Written
  <2>8. ReadReady(c, Written(c, T, A, 0), q, i)
    BY <2>1, <2>5, <2>7 DEF ReadReady
  <2>9. ASSUME NEW w \in T, w[1][1] = <<"transport", q[2]>> PROVE A[w] # Lag(c, w) + 1
    <3>1. A[w] \in Nat /\ Lag(c, w) \in Nat /\ Tiles \in Nat \ {0} /\ w \in Items(c)
      BY ItemNumbers
    <3>2. w \in Stored(c, T, A)
      BY <1>3, <2>9, <3>1 DEF ReadIssued
    <3>3. A[w] >= Lag(c, w) + 1 + Tiles
      BY <3>2 DEF Stored
    <3> QED
      BY <3>1, <3>3
  <2> QED
    BY <1>3, <2>4, <2>8, <2>9 DEF Issued
<1> QED
  BY <1>1, <1>2, <1>3 DEF Outcome

(* One of the queues of a bank issues at most.                              *)
LEMMA OnePort ==
  ASSUME Scheduled, NEW c \in BOOLEAN, NEW T, NEW A, AgesOK(c, T, A), NEW p \in Queues, NEW q \in Queues,
         p[2] = q[2], NEW d, NEW e, d # None, e # None, Issued(c, T, A, p, d), Issued(c, T, A, q, e)
  PROVE  p = q
<1>1. p = <<p[1], p[2]>> /\ q = <<q[1], q[2]>> /\ p[1] \in Stores /\ q[1] \in Stores
  BY DEF Queues
<1>2. ASSUME NEW f \in Queues, NEW o, o # None, Issued(c, T, A, f, o), f[1] = "transport"
      PROVE  \E y \in T : y[1][1] = f /\ A[y] = Lag(c, y) + 1
  <2>1. ~ \E i : ReadReady(c, Written(c, T, A, 0), f, i)
    BY <1>2 DEF ReadReady
  <2>2. WriteIssued(c, T, A, f, o)
    BY <1>2, <2>1 DEF Issued
  <2> QED
    BY <2>2 DEF WriteIssued, DueOn
<1>3. ASSUME NEW f \in Queues, NEW g \in Queues, f[2] = g[2], f[1] = "transport", g[1] = "native",
             NEW o, o # None, Issued(c, T, A, f, o), NEW r, r # None, Issued(c, T, A, g, r)
      PROVE  FALSE
  <2>1. PICK y \in T : y[1][1] = f /\ A[y] = Lag(c, y) + 1
    BY <1>2, <1>3
  <2>2. f = <<"transport", g[2]>> /\ y \in Items(c)
    BY <1>3, ItemNumbers DEF Queues
  <2>3. WriteIssued(c, T, A, g, r)
    BY <1>3, <2>1, <2>2 DEF Issued
  <2>4. PICK z \in T : z[1][1] = g
    BY <2>3 DEF WriteIssued, DueOn
  <2>5. z \in Items(c) /\ y[1] \in PacketTable[c] /\ z[1] \in PacketTable[c]
    BY <2>2, ItemNumbers, ItemFacts
  <2>6. BankOf(y[1]) = BankOf(z[1])
    BY <1>3, <2>1, <2>4 DEF BankOf
  <2> QED
    BY <1>3, <2>1, <2>4, <2>5, <2>6, StoreOnce
<1> QED
  BY <1>1, <1>3 DEF Stores

SlotFor(q, o) == [bank |-> q[2], tile |-> 1, instruction |-> o]

LEMMA SlotsIssued ==
  ASSUME Scheduled, NEW c \in BOOLEAN, NEW T, NEW A, AgesOK(c, T, A), NEW S,
         SlotsOK(c, Written(c, T, A, 0), Slotted(c, T, A, 0), 0, S),
         NEW o, \A q \in Queues : Issued(c, T, A, q, o[q])
  PROVE  /\ SlotsOK(c, Written(c, T, Older(c, T, A), 1), Slotted(c, T, Older(c, T, A), 1), 1,
                    S \cup {SlotFor(q, o[q]) : q \in {p \in Queues : o[p] # None}})
         /\ \A p, q \in Queues : o[p] # None /\ o[q] # None /\ p[2] = q[2] => p = q
<1> DEFINE B == Older(c, T, A)
           W == Written(c, T, A, 0)
           L == Slotted(c, T, A, 0)
           M == Slotted(c, T, B, 1)
           I == {SlotFor(q, o[q]) : q \in {p \in Queues : o[p] # None}}
<1>0. Tiles \in Nat \ {0}
  BY TransportAssumption
<1>1. Written(c, T, B, 1) = W /\ M = L \cup {<<x, 1>> : x \in {y \in T : A[y] = Lag(c, y) + 1}}
  BY OlderSets
<1>2. \A p, q \in Queues : o[p] # None /\ o[q] # None /\ p[2] = q[2] => p = q
  BY OnePort
<1>3. /\ \A z \in L : SlotAt(c, z) \in S
      /\ \A d \in S : (\E z \in L : d = SlotAt(c, z)) \/ ReadSlot(c, W, 0, d)
      /\ ReadsApart(S)
  BY DEF SlotsOK
<1>4. \A d : d \in I <=> \E q \in Queues : o[q] # None /\ d = SlotFor(q, o[q])
  OBVIOUS
<1> HIDE DEF B, W, L, M, I
<1>5. ASSUME NEW x \in T, A[x] = Lag(c, x) + 1 PROVE SlotOf(c, x, 1) \in I
  <2>1. x \in Items(c) /\ x[1][1] \in Queues /\ Bank(x) = x[1][1][2]
    BY ItemNumbers, ItemFacts, PacketFacts DEF Bank, BankOf
  <2>2. PICK q : q = x[1][1]
    OBVIOUS
  <2>3. x \in DueOn(c, T, A, q)
    BY <1>5, <2>2 DEF DueOn
  <2>4. WriteIssued(c, T, A, q, o[q])
    BY <2>1, <2>2, <2>3 DEF Issued, NoneDue
  <2>5. o[q] = WriteFor(c, x)
    BY <2>3, <2>4 DEF WriteIssued
  <2>6. SlotFor(q, o[q]) = SlotOf(c, x, 1)
    BY <2>1, <2>2, <2>5 DEF SlotFor, SlotOf
  <2> QED
    BY <1>4, <2>1, <2>2, <2>5, <2>6, Issues
<1>6. ASSUME NEW d \in S, ReadSlot(c, W, 0, d) PROVE ReadSlot(c, W, 1, d) /\ d.tile >= 2
  <2>1. PICK b \in Banks : \E t \in (2 - 0) .. Tiles : \E i \in ReadsOf(c, b) : ReadSlotAt(c, W, d, b, t, i)
    BY <1>6 DEF ReadSlot
  <2>2. PICK t \in (2 - 0) .. Tiles : \E i \in ReadsOf(c, b) : ReadSlotAt(c, W, d, b, t, i)
    BY <2>1
  <2>3. t \in (2 - 1) .. Tiles /\ t >= 2
    BY <1>0, <2>2
  <2>4. d.tile = t
    BY <2>2, ReadFields
  <2> QED
    BY <2>2, <2>3, <2>4 DEF ReadSlot
<1>7. ASSUME NEW d \in I
      PROVE  (\E z \in M : d = SlotAt(c, z)) \/ ReadSlot(c, W, 1, d)
  <2>1. PICK q \in Queues : o[q] # None /\ d = SlotFor(q, o[q])
    BY <1>4
  <2>2. CASE WriteIssued(c, T, A, q, o[q])
    <3>1. PICK y \in DueOn(c, T, A, q) : o[q] = WriteFor(c, y)
      BY <2>2 DEF WriteIssued
    <3>2. y \in T /\ y[1][1] = q /\ A[y] = Lag(c, y) + 1
      BY <3>1 DEF DueOn
    <3>3. PICK z : z = <<y, 1>>
      OBVIOUS
    <3>4. z \in M
      BY <1>1, <3>2, <3>3
    <3>5. d = SlotAt(c, z)
      BY <2>1, <3>1, <3>2, <3>3 DEF SlotFor, SlotAt, SlotOf, Bank, BankOf
    <3> QED
      BY <3>4, <3>5
  <2>3. CASE \E i : ReadReady(c, W, q, i) /\ o[q] = ReadAs(c, q[2], i)
    <3>1. PICK i : ReadReady(c, W, q, i) /\ o[q] = ReadAs(c, q[2], i)
      BY <2>3
    <3>2. i \in ReadsOf(c, q[2]) /\ q[2] \in Banks
      BY <2>1, <3>1 DEF ReadReady, Queues
    <3>3. d = [bank |-> q[2], tile |-> 1, instruction |-> ReadAs(c, q[2], i)]
      BY <2>1, <3>1 DEF SlotFor
    <3>4. ReadSlotAt(c, W, d, q[2], 1, i)
      BY <3>1, <3>3 DEF ReadReady, ReadSlotAt
    <3>5. 1 \in (2 - 1) .. Tiles
      BY <1>0
    <3> QED
      BY <3>2, <3>4, <3>5 DEF ReadSlot
  <2> QED
    BY <2>1, <2>2, <2>3 DEF Issued, W
<1>8. \A d \in I : d.tile = 1 /\ \E q \in Queues : o[q] # None /\ d = SlotFor(q, o[q]) /\ d.bank = q[2]
  BY <1>4 DEF SlotFor
<1>9. ASSUME NEW d \in S, d.instruction.op = "read" PROVE d.tile >= 2
  <2>1. ~ \E z \in L : d = SlotAt(c, z)
    BY <1>9, SlotFields DEF SlotAt
  <2> QED
    BY <1>3, <1>6, <2>1
<1>10. ASSUME NEW d \in S \cup I, NEW e \in S \cup I, d.instruction.op = "read", e.instruction.op = "read",
              d.bank = e.bank, d.tile = e.tile
       PROVE  d = e
  <2>1. CASE d \in S /\ e \in S
    BY <1>3, <1>10, <2>1 DEF ReadsApart
  <2>2. CASE d \in I /\ e \in I
    BY <1>2, <1>8, <1>10, <2>2
  <2>3. CASE d \in S /\ e \in I
    BY <1>8, <1>9, <1>10, <2>3
  <2>4. CASE d \in I /\ e \in S
    BY <1>8, <1>9, <1>10, <2>4
  <2> QED
    BY <2>1, <2>2, <2>3, <2>4
<1>11. \A z \in M : SlotAt(c, z) \in S \cup I
  <2> TAKE z \in M
  <2>1. CASE z \in L
    BY <1>3, <2>1
  <2>2. CASE \E x \in T : A[x] = Lag(c, x) + 1 /\ z = <<x, 1>>
    BY <1>5, <2>2 DEF SlotAt
  <2> QED
    BY <1>1, <2>1, <2>2
<1>12. \A d \in S \cup I : (\E z \in M : d = SlotAt(c, z)) \/ ReadSlot(c, W, 1, d)
  BY <1>1, <1>3, <1>6, <1>7
<1>13. ReadsApart(S \cup I)
  BY <1>10 DEF ReadsApart
<1>14. SlotsOK(c, W, M, 1, S \cup I)
  BY <1>11, <1>12, <1>13 DEF SlotsOK
<1> QED
  BY <1>1, <1>2, <1>14 DEF I, M, B

LEMMA QueueSame ==
  ASSUME NEW c, NEW T, NEW I, NEW R, NEW A, NEW q, NEW x, NEW y, QueueOK(c, T, I, R, A, q, x),
         y.fetched = x.fetched, y.pending = x.pending, y.iq = x.iq, y.active = x.active, y.tokens = x.tokens
  PROVE  QueueOK(c, T, I, R, A, q, y)
<1>1. PICK i \in Nat : /\ Fetching(c, q, x, Begin(Prog(c, q), i)) /\ Supplied(c, q, x)
                       /\ Progress(c, T, I, A, q, x, i) /\ Waits(c, R, q, i)
                       /\ Tokens(c, T, I, R, A, q, x.tokens)
  BY DEF QueueOK
<1>2. Fetching(c, q, y, Begin(Prog(c, q), i)) /\ Supplied(c, q, y) /\ Progress(c, T, I, A, q, y, i)
  BY <1>1 DEF Fetching, Supplied, Progress
<1> QED
  BY <1>1, <1>2 DEF QueueOK

LEMMA Dispatches ==
  ASSUME Scheduled, NEW c \in BOOLEAN, barriers = c, held \in BOOLEAN, NEW T, NEW A, AgesOK(c, T, A),
         \A q \in Queues : QueueOK(c, T, Sent(c, T, A, 2), Stored(c, T, A), A, q, QueueAt(q)),
         SlotsOK(c, Written(c, T, A, 0), Slotted(c, T, A, 0), 0, slots), Dispatch
  PROVE  LET B == Older(c, T, A)
         IN /\ fault' = fault /\ tokens' \in [Queues -> {tokens'[q] : q \in Queues}]
            /\ \A q \in Queues : QueueOK(c, T, Sent(c, T, B, 2), Stored(c, T, B), B, q, QueueAt(q)')
            /\ SlotsOK(c, Written(c, T, B, 1), Slotted(c, T, B, 1), 1, slots')
<1> DEFINE B == Older(c, T, A)
           after == [q \in Queues |-> TickQueue(q)]
           o == [q \in Queues |-> after[q].out]
<1>1. /\ fetched' = [q \in Queues |-> after[q].fetched] /\ pending' = [q \in Queues |-> after[q].pending]
      /\ iq' = [q \in Queues |-> after[q].iq] /\ active' = [q \in Queues |-> after[q].active]
      /\ tokens' = [q \in Queues |-> after[q].tokens]
      /\ slots' = slots \cup {[bank |-> q[2], tile |-> 1, instruction |-> after[q].out]
                              : q \in {p \in Queues : after[p].out # None}}
      /\ fault' = (IF \E q \in Queues : UnderflowAt(q) THEN "underflow"
                   ELSE IF \E p, q \in {r \in Queues : after[r].out # None} : p # q /\ p[2] = q[2]
                        THEN "contention" ELSE fault)
  BY DEF Dispatch
<1>2. ASSUME NEW q \in Queues
      PROVE  /\ QueueTickedAs(c, T, Stored(c, T, A), Stored(c, T, B), A, q, TickQueue(q)) /\ ~UnderflowAt(q)
  <2>1. Stored(c, T, A) \subseteq Stored(c, T, B)
    BY OlderSets
  <2>2. QueueOK(c, T, Sent(c, T, A, 2), Stored(c, T, A), A, q, QueueAt(q))
    OBVIOUS
  <2> HIDE DEF B
  <2> QED
    BY <2>1, <2>2, QueueTicked
<1>3. \A q \in Queues : after[q] = TickQueue(q) /\ o[q] = TickQueue(q).out
  OBVIOUS
<1>4. Sent(c, T, B, 2) = Sent(c, T, A, 1)
  BY OlderFacts
<1> HIDE DEF B, after, o
<1>5. ASSUME NEW q \in Queues PROVE Issued(c, T, A, q, o[q])
  <2>1. Outcome(c, T, Stored(c, T, A), A, q, TickQueue(q).out)
    BY <1>2 DEF QueueTickedAs
  <2> QED
    BY <1>3, <2>1, OutcomeIs
<1>6. /\ SlotsOK(c, Written(c, T, B, 1), Slotted(c, T, B, 1), 1,
                 slots \cup {SlotFor(q, o[q]) : q \in {p \in Queues : o[p] # None}})
      /\ \A p, q \in Queues : o[p] # None /\ o[q] # None /\ p[2] = q[2] => p = q
  BY <1>5, SlotsIssued DEF B
<1>7. \A q \in Queues : o[q] = after[q].out
  BY <1>3
<1>8. slots' = slots \cup {SlotFor(q, o[q]) : q \in {p \in Queues : o[p] # None}}
  <2>1. {[bank |-> q[2], tile |-> 1, instruction |-> after[q].out] : q \in {p \in Queues : after[p].out # None}}
          = {SlotFor(q, o[q]) : q \in {p \in Queues : o[p] # None}}
    BY <1>7 DEF SlotFor
  <2> QED
    BY <1>1, <2>1
<1>9. fault' = fault
  BY <1>1, <1>2, <1>6, <1>7
<1>10. ASSUME NEW q \in Queues
       PROVE  QueueOK(c, T, Sent(c, T, B, 2), Stored(c, T, B), B, q, QueueAt(q)')
  <2>1. PICK y : y = TickQueue(q)
    OBVIOUS
  <2>2. QueueOK(c, T, Sent(c, T, B, 2), Stored(c, T, B), B, q, y)
    BY <1>2, <1>4, <2>1 DEF QueueTickedAs, B
  <2>3. PICK x : x = QueueAt(q)'
    OBVIOUS
  <2>4. /\ fetched'[q] = y.fetched /\ pending'[q] = y.pending /\ iq'[q] = y.iq
        /\ active'[q] = y.active /\ tokens'[q] = y.tokens
    BY <1>1, <1>3, <2>1
  <2>5. x = [fetched |-> fetched'[q], pending |-> pending'[q], iq |-> iq'[q],
             active |-> active'[q], tokens |-> tokens'[q], out |-> None]
    BY <2>3 DEF QueueAt
  <2>6. /\ x.fetched = y.fetched /\ x.pending = y.pending /\ x.iq = y.iq
        /\ x.active = y.active /\ x.tokens = y.tokens
    BY <2>4, <2>5
  <2>7. QueueOK(c, T, Sent(c, T, B, 2), Stored(c, T, B), B, q, x)
    BY <2>2, <2>6, QueueSame
  <2> QED
    BY <2>3, <2>7
<1>11. tokens' \in [Queues -> {tokens'[q] : q \in Queues}]
  BY <1>1
<1> QED
  BY <1>6, <1>8, <1>9, <1>10, <1>11 DEF B

----------------------------------------------------------------------------
(* The receiver.                                                            *)

(* The vectors before a Receive.                                            *)
LEMMA VectorsBeforeNext ==
  ASSUME Scheduled, NEW l \in Lanes, NEW i \in 1 .. Len(Receives[l])
  PROVE  /\ VectorsBefore(l, i) \in Nat
         /\ VectorsBefore(l, i + 1) = VectorsBefore(l, i) + Receives[l][i].count
<1> DEFINE Of(j) == {j} \X (1 .. Receives[l][j].count)
           f == [j \in 1 .. i - 1 |-> Of(j)]
           S == {Of(j) : j \in 1 .. i - 1}
           U == UNION S
<1>1. i \in Nat \ {0} /\ Len(Receives[l]) \in Nat
  BY ReceiveType
<1>2. ASSUME NEW j \in 1 .. i PROVE IsFiniteSet(Of(j)) /\ Cardinality(Of(j)) = Receives[l][j].count
  <2>1. j \in 1 .. Len(Receives[l]) /\ j \in Int
    BY <1>1
  <2>2. Receives[l][j].count \in Nat \ {0}
    BY <2>1, ReceiveType
  <2>3. PICK n : n = Receives[l][j].count
    OBVIOUS
  <2>4. IsFiniteSet(1 .. n) /\ Cardinality(1 .. n) = n /\ n \in Nat
    <3>1. n \in Nat /\ n > 0
      BY <2>2, <2>3
    <3> QED
      BY <3>1, FS_Interval
  <2>5. IsFiniteSet({j}) /\ Cardinality({j}) = 1
    BY FS_Singleton
  <2>6. IsFiniteSet({j} \X (1 .. n)) /\ Cardinality({j} \X (1 .. n)) = 1 * n
    BY <2>4, <2>5, FS_Product
  <2> QED
    BY <2>3, <2>4, <2>6
<1>3. \A j \in 1 .. i : \A p \in Of(j) : p[1] = j
  OBVIOUS
<1>4. VectorsBefore(l, i) = Cardinality(U)
  BY DEF VectorsBefore
<1>5. VectorsBefore(l, i + 1) = Cardinality(UNION {Of(j) : j \in 1 .. (i + 1) - 1})
  BY DEF VectorsBefore
<1>6. f = [j \in 1 .. i - 1 |-> Of(j)] /\ \A j \in 1 .. i - 1 : f[j] = Of(j)
  OBVIOUS
<1> HIDE DEF Of, f
<1>7. IsFiniteSet(S)
  <2>1. f \in Surjection(1 .. i - 1, S)
    BY <1>6 DEF Surjection
  <2>2. IsFiniteSet(1 .. i - 1)
    BY <1>1, FS_Interval
  <2> HIDE DEF S
  <2> QED
    BY <2>1, <2>2, FS_Surjection
<1>8. IsFiniteSet(U)
  <2>1. \A s \in S : IsFiniteSet(s)
    BY <1>1, <1>2
  <2> HIDE DEF S
  <2> QED
    BY <1>7, <2>1, FS_UNION
<1>9. UNION {Of(j) : j \in 1 .. (i + 1) - 1} = U \cup Of(i)
  <2>1. \A j : j \in 1 .. (i + 1) - 1 <=> j \in 1 .. i - 1 \/ j = i
    BY <1>1
  <2> QED
    BY <2>1
<1>10. U \cap Of(i) = {}
  <2>1. ASSUME NEW p \in U, p \in Of(i) PROVE FALSE
    <3>1. PICK j \in 1 .. i - 1 : p \in Of(j)
      OBVIOUS
    <3>2. p[1] = j /\ p[1] = i
      BY <1>1, <1>3, <2>1, <3>1
    <3> QED
      BY <1>1, <3>1, <3>2
  <2> QED
    BY <2>1
<1>11. i \in 1 .. i
  BY <1>1
<1>12. IsFiniteSet(Of(i)) /\ Cardinality(Of(i)) = Receives[l][i].count
  BY <1>2, <1>11
<1> HIDE DEF U, S
<1>13. Cardinality(U) \in Nat
  BY <1>8, FS_CardinalityType
<1>14. Cardinality(U \cup Of(i)) = Cardinality(U) + Cardinality(Of(i)) - Cardinality({})
  BY <1>8, <1>10, <1>12, FS_Union
<1>15. Cardinality({}) = 0
  BY FS_EmptySet
<1>16. Receives[l][i].count \in Nat
  BY ReceiveType
<1>17. PICK m, n : m = Cardinality(U) /\ n = Receives[l][i].count /\ m \in Nat /\ n \in Nat
  BY <1>13, <1>16
<1>18. Cardinality(U \cup Of(i)) = m + n
  BY <1>12, <1>14, <1>15, <1>17
<1> QED
  BY <1>4, <1>5, <1>9, <1>17, <1>18

(* Where the lanes are: r the instruction, n the vectors of it.             *)
Came(c, x, r, n) ==
  \/ IndexOf(c, x[1]) < r[Lane(c, x)]
  \/ IndexOf(c, x[1]) = r[Lane(c, x)] /\ x[2] <= n[Lane(c, x)]

LaneAt(l, i, m, v) ==
  /\ i \in 1 .. Len(Receives[l]) + 1 /\ m \in Nat
  /\ i \in 1 .. Len(Receives[l]) => m < Receives[l][i].count
  /\ i = Len(Receives[l]) + 1 => m = 0
  /\ v = VectorsBefore(l, i) + m

LanesOK(c, T, r, n, p) ==
  /\ \A l \in Lanes : LaneAt(l, r[l], n[l], p[l])
  /\ \A x \in Items(c) : x \in T <=> Came(c, x, r, n)

(* The next vector of a lane.                                               *)
NextOf(c, l, x) ==
  /\ x \in Items(c) /\ Lane(c, x) = l /\ IndexOf(c, x[1]) = receive[l] /\ x[2] = received[l] + 1

LEMMA ItemLane ==
  ASSUME Scheduled, NEW c \in BOOLEAN, NEW x \in Items(c)
  PROVE  /\ Lane(c, x) \in Lanes /\ IndexOf(c, x[1]) \in 1 .. Len(Receives[Lane(c, x)])
         /\ Len(Receives[Lane(c, x)]) \in Nat
         /\ x[2] \in Nat \ {0} /\ x[2] <= Receives[Lane(c, x)][IndexOf(c, x[1])].count
         /\ Receives[Lane(c, x)][IndexOf(c, x[1])].count \in Nat
<1>1. x[1] \in PacketTable[c] /\ x[2] \in 1 .. Entry(c, x[1]).count /\ x[2] \in Nat \ {0}
  BY ItemFacts
<1>2. Entry(c, x[1]).count \in Nat
  BY <1>1, PacketFacts
<1>3. /\ Lane(c, x) \in Lanes /\ IndexOf(c, x[1]) \in 1 .. Len(Receives[Lane(c, x)])
      /\ Receives[Lane(c, x)][IndexOf(c, x[1])].count = Entry(c, x[1]).count
  BY <1>1, LaneFacts DEF Lane
<1>4. Len(Receives[Lane(c, x)]) \in Nat
  BY <1>3, ReceiveType
<1> QED
  BY <1>1, <1>2, <1>3, <1>4

LEMMA NextIs ==
  ASSUME Scheduled, NEW c \in BOOLEAN, NEW l \in Lanes, receive[l] \in 1 .. Len(Receives[l]),
         LaneAt(l, receive[l], received[l], popped[l])
  PROVE  \E x : /\ NextOf(c, l, x) /\ Bank(x) = Current(l).bank /\ Entry(c, x[1]).tag = Current(l).tag
                /\ Stream(c, x) = Current(l).stream /\ Vector(c, x) = <<l, popped[l] + 1>>
<1> DEFINE i == receive[l]
           n == received[l]
<1>1. PICK k \in PacketTable[c] : LaneOf(c, k) = l /\ IndexOf(c, k) = i
  BY ReceiveFacts
<1>2. /\ Current(l) = Receives[l][i] /\ Current(l).bank = BankOf(k) /\ Current(l).tag = Entry(c, k).tag
      /\ Current(l).count = Entry(c, k).count /\ Current(l).stream = Entry(c, k).stream
  BY <1>1, LaneFacts DEF Current
<1>3. n \in Nat /\ n < Receives[l][i].count /\ popped[l] = VectorsBefore(l, i) + n
  BY DEF LaneAt
<1>4. Receives[l][i].count \in Nat
  BY ReceiveType
<1>5. n + 1 \in 1 .. Entry(c, k).count
  BY <1>2, <1>3, <1>4
<1>6. PICK x : x = <<k, n + 1>>
  OBVIOUS
<1>7. x \in Items(c) /\ x[1] = k /\ x[2] = n + 1
  BY <1>5, <1>6, IsItem
<1>8. Lane(c, x) = l /\ IndexOf(c, x[1]) = i /\ Bank(x) = BankOf(k) /\ Stream(c, x) = Entry(c, k).stream
  BY <1>1, <1>7 DEF Lane, Bank, Stream
<1>9. Vector(c, x) = <<l, VectorsBefore(l, i) + x[2]>>
  BY <1>7, <1>8, VectorFacts
<1>10. VectorsBefore(l, i) \in Nat
  BY VectorsBeforeNext
<1>11. VectorsBefore(l, i) + x[2] = popped[l] + 1
  BY <1>3, <1>7, <1>10
<1> QED
  BY <1>2, <1>7, <1>8, <1>9, <1>11 DEF NextOf

LEMMA NextOnce ==
  ASSUME Scheduled, NEW c \in BOOLEAN, NEW l \in Lanes, NEW x, NEW y, NextOf(c, l, x), NextOf(c, l, y)
  PROVE  x = y
<1>1. x \in Items(c) /\ y \in Items(c) /\ Lane(c, x) = Lane(c, y) /\ IndexOf(c, x[1]) = IndexOf(c, y[1])
      /\ x[2] = y[2]
  BY DEF NextOf
<1>2. x[1] \in PacketTable[c] /\ y[1] \in PacketTable[c] /\ x = <<x[1], x[2]>> /\ y = <<y[1], y[2]>>
  BY <1>1, ItemFacts
<1>3. x[1] = y[1]
  BY <1>1, <1>2, PacketOfReceive DEF Lane
<1> QED
  BY <1>1, <1>2, <1>3

(* What the lanes take in a cycle.                                          *)
Taken(c) == {x \in Items(c) : Takes(Lane(c, x)) /\ NextOf(c, Lane(c, x), x)}

LEMMA TakenFacts ==
  ASSUME Scheduled, NEW c \in BOOLEAN, NEW T, LanesOK(c, T, receive, received, popped)
  PROVE  /\ Taken(c) \cap T = {}
         /\ \A x \in Taken(c) : /\ x \in Items(c) /\ Lane(c, x) \in Lanes /\ Takes(Lane(c, x))
                                /\ NextOf(c, Lane(c, x), x)
                                /\ Bank(x) = Current(Lane(c, x)).bank
                                /\ Entry(c, x[1]).tag = Current(Lane(c, x)).tag
                                /\ Stream(c, x) = Current(Lane(c, x)).stream
                                /\ Vector(c, x) = <<Lane(c, x), popped[Lane(c, x)] + 1>>
         /\ \A l \in Lanes : Takes(l) => \E x \in Taken(c) : Lane(c, x) = l
<1>1. \A l \in Lanes : LaneAt(l, receive[l], received[l], popped[l])
  BY DEF LanesOK
<1>2. ASSUME NEW l \in Lanes, Takes(l) PROVE receive[l] \in 1 .. Len(Receives[l])
  BY <1>2, ReceiveType DEF Takes
<1>3. ASSUME NEW x \in Taken(c)
      PROVE  /\ x \in Items(c) /\ Lane(c, x) \in Lanes /\ Takes(Lane(c, x)) /\ NextOf(c, Lane(c, x), x)
             /\ x \notin T
  <2>1. x \in Items(c) /\ Takes(Lane(c, x)) /\ NextOf(c, Lane(c, x), x)
    BY DEF Taken
  <2>2. Lane(c, x) \in Lanes
    BY <2>1, ItemLane
  <2>3. received[Lane(c, x)] \in Nat
    BY <1>1, <2>2 DEF LaneAt
  <2>4. receive[Lane(c, x)] \in Nat
    BY <1>2, <2>1, <2>2
  <2>5. ~Came(c, x, receive, received)
    BY <2>1, <2>3, <2>4 DEF Came, NextOf
  <2> QED
    BY <2>1, <2>2, <2>5 DEF LanesOK
<1>4. ASSUME NEW x \in Taken(c)
      PROVE  /\ Bank(x) = Current(Lane(c, x)).bank
             /\ Entry(c, x[1]).tag = Current(Lane(c, x)).tag
             /\ Stream(c, x) = Current(Lane(c, x)).stream
             /\ Vector(c, x) = <<Lane(c, x), popped[Lane(c, x)] + 1>>
  <2>1. PICK l \in Lanes : l = Lane(c, x) /\ Takes(l) /\ NextOf(c, l, x)
    BY <1>3
  <2>2. PICK y : /\ NextOf(c, l, y) /\ Bank(y) = Current(l).bank /\ Entry(c, y[1]).tag = Current(l).tag
                 /\ Stream(c, y) = Current(l).stream /\ Vector(c, y) = <<l, popped[l] + 1>>
    BY <1>1, <1>2, <2>1, NextIs
  <2>3. x = y
    BY <2>1, <2>2, NextOnce
  <2> QED
    BY <2>1, <2>2, <2>3
<1>5. ASSUME NEW l \in Lanes, Takes(l) PROVE \E x \in Taken(c) : Lane(c, x) = l
  <2>1. PICK y : NextOf(c, l, y)
    BY <1>1, <1>2, <1>5, NextIs
  <2>2. y \in Items(c) /\ Lane(c, y) = l
    BY <2>1 DEF NextOf
  <2> QED
    BY <1>5, <2>1, <2>2 DEF Taken
<1> QED
  BY <1>3, <1>4, <1>5

LEMMA LanesGoOn ==
  ASSUME Scheduled, NEW c \in BOOLEAN, NEW T, LanesOK(c, T, receive, received, popped), T \subseteq Items(c),
         EvaluateC2c
  PROVE  LanesOK(c, T \cup Taken(c), receive', received', popped')
<1> DEFINE K == {l \in Lanes : Takes(l)}
<1>1. /\ popped' = [l \in Lanes |-> IF l \in K THEN popped[l] + 1 ELSE popped[l]]
      /\ received' = [l \in Lanes |-> IF l \notin K THEN received[l]
                                      ELSE IF LastVector(l) THEN 0 ELSE received[l] + 1]
      /\ receive' = [l \in Lanes |-> IF l \in K /\ LastVector(l) THEN receive[l] + 1 ELSE receive[l]]
  BY DEF EvaluateC2c
<1>2. \A l \in Lanes : l \in K <=> Takes(l)
  OBVIOUS
<1> HIDE DEF K
<1>3. \A l \in Lanes : LaneAt(l, receive[l], received[l], popped[l]) /\ Len(Receives[l]) \in Nat
  BY ReceiveType DEF LanesOK
<1>4. ASSUME NEW l \in Lanes, Takes(l)
      PROVE  /\ receive[l] \in 1 .. Len(Receives[l]) /\ Current(l) = Receives[l][receive[l]]
             /\ Receives[l][receive[l]].count \in Nat /\ received[l] < Receives[l][receive[l]].count
             /\ received[l] \in Nat /\ popped[l] = VectorsBefore(l, receive[l]) + received[l]
             /\ VectorsBefore(l, receive[l]) \in Nat
             /\ VectorsBefore(l, receive[l] + 1) = VectorsBefore(l, receive[l]) + Receives[l][receive[l]].count
  <2>1. receive[l] \in 1 .. Len(Receives[l])
    BY <1>4, ReceiveType DEF Takes
  <2>2. Current(l) = Receives[l][receive[l]]
    BY DEF Current
  <2>3. Receives[l][receive[l]].count \in Nat
    BY <2>1, ReceiveType
  <2>4. received[l] < Receives[l][receive[l]].count /\ received[l] \in Nat
        /\ popped[l] = VectorsBefore(l, receive[l]) + received[l]
    BY <1>3, <2>1 DEF LaneAt
  <2> QED
    BY <2>1, <2>2, <2>3, <2>4, VectorsBeforeNext
<1>5. ASSUME NEW l \in Lanes PROVE LaneAt(l, receive'[l], received'[l], popped'[l])
  <2>1. CASE ~Takes(l)
    <3>1. receive'[l] = receive[l] /\ received'[l] = received[l] /\ popped'[l] = popped[l]
      BY <1>1, <1>2, <2>1
    <3> QED
      BY <1>3, <3>1
  <2>2. CASE Takes(l) /\ LastVector(l)
    <3>1. receive'[l] = receive[l] + 1 /\ received'[l] = 0 /\ popped'[l] = popped[l] + 1
      BY <1>1, <1>2, <2>2
    <3>2. received[l] + 1 = Receives[l][receive[l]].count
      BY <1>4, <2>2 DEF LastVector
    <3>3. popped[l] + 1 = VectorsBefore(l, receive[l] + 1) + 0
      BY <1>4, <2>2, <3>2
    <3>4. receive[l] + 1 \in 1 .. Len(Receives[l]) + 1
      BY <1>3, <1>4, <2>2
    <3>5. receive[l] + 1 \in 1 .. Len(Receives[l]) => 0 < Receives[l][receive[l] + 1].count
      BY ReceiveType
    <3> QED
      BY <3>1, <3>3, <3>4, <3>5 DEF LaneAt
  <2>3. CASE Takes(l) /\ ~LastVector(l)
    <3>1. receive'[l] = receive[l] /\ received'[l] = received[l] + 1 /\ popped'[l] = popped[l] + 1
      BY <1>1, <1>2, <2>3
    <3>2. received[l] + 1 # Receives[l][receive[l]].count
      BY <1>4, <2>3 DEF LastVector
    <3>3. received[l] + 1 < Receives[l][receive[l]].count /\ received[l] + 1 \in Nat
      BY <1>4, <2>3, <3>2
    <3>4. popped[l] + 1 = VectorsBefore(l, receive[l]) + (received[l] + 1)
      BY <1>4, <2>3
    <3>5. receive[l] \in 1 .. Len(Receives[l]) + 1 /\ receive[l] # Len(Receives[l]) + 1
      BY <1>3, <1>4, <2>3
    <3> QED
      BY <3>1, <3>3, <3>4, <3>5 DEF LaneAt
  <2> QED
    BY <2>1, <2>2, <2>3
<1>6. ASSUME NEW x \in Items(c)
      PROVE  x \in T \cup Taken(c) <=> Came(c, x, receive', received')
  <2>1. PICK l \in Lanes : l = Lane(c, x)
    BY ItemLane
  <2>2. PICK i : i = IndexOf(c, x[1])
    OBVIOUS
  <2>10. i \in 1 .. Len(Receives[l]) /\ i \in Nat
    BY <1>3, <2>1, <2>2, ItemLane
  <2>3. x[2] \in Nat \ {0} /\ x[2] <= Receives[l][i].count /\ Receives[l][i].count \in Nat
    BY <2>1, <2>2, ItemLane
  <2>4. x \in T <=> i < receive[l] \/ (i = receive[l] /\ x[2] <= received[l])
    BY <2>1, <2>2 DEF LanesOK, Came
  <2>5. x \in Taken(c) <=> Takes(l) /\ i = receive[l] /\ x[2] = received[l] + 1
    BY <2>1, <2>2 DEF Taken, NextOf
  <2>6. Came(c, x, receive', received') <=> i < receive'[l] \/ (i = receive'[l] /\ x[2] <= received'[l])
    BY <2>1, <2>2 DEF Came
  <2>7. CASE ~Takes(l)
    <3>1. receive'[l] = receive[l] /\ received'[l] = received[l]
      BY <1>1, <1>2, <2>7
    <3> QED
      BY <2>4, <2>5, <2>6, <2>7, <3>1
  <2>8. CASE Takes(l) /\ LastVector(l)
    <3>1. receive'[l] = receive[l] + 1 /\ received'[l] = 0
      BY <1>1, <1>2, <2>8
    <3>2. received[l] + 1 = Receives[l][receive[l]].count
      BY <1>4, <2>8 DEF LastVector
    <3>3. receive[l] \in Nat /\ received[l] \in Nat
      BY <1>3, <1>4, <2>8
    <3>4. i = receive[l] => x[2] <= received[l] + 1
      BY <2>3, <3>2
    <3>5. x \in T \cup Taken(c) <=> i <= receive[l]
      BY <2>3, <2>4, <2>5, <2>8, <2>10, <3>3, <3>4
    <3>6. Came(c, x, receive', received') <=> i <= receive[l]
      BY <2>3, <2>6, <2>10, <3>1, <3>3
    <3> QED
      BY <3>5, <3>6
  <2>9. CASE Takes(l) /\ ~LastVector(l)
    <3>1. receive'[l] = receive[l] /\ received'[l] = received[l] + 1
      BY <1>1, <1>2, <2>9
    <3>2. receive[l] \in Nat /\ received[l] \in Nat
      BY <1>3, <1>4, <2>9
    <3> QED
      BY <2>3, <2>4, <2>5, <2>6, <2>9, <2>10, <3>1, <3>2
  <2> QED
    BY <2>7, <2>8, <2>9
<1> QED
  BY <1>5, <1>6 DEF LanesOK

(* The vectors taken are the youngest.                                      *)
LEMMA AgesTaken ==
  ASSUME Scheduled, NEW c \in BOOLEAN, NEW T, NEW A, AgesOK(c, T, A), \A x \in T : A[x] >= 1,
         LanesOK(c, T, receive, received, popped)
  PROVE  AgesOK(c, T \cup Taken(c), A) /\ \A x \in Taken(c) : A[x] = 0
<1> DEFINE N == Taken(c)
<1>1. /\ T \subseteq Items(c) /\ A \in [Items(c) -> Nat]
      /\ \A y \in Items(c) : y \notin T => A[y] = 0
      /\ \A y \in Items(c), z \in T : y[1] = z[1] /\ y[2] < z[2] => y \in T /\ A[y] > A[z]
      /\ \A y, z \in T : Lane(c, y) = Lane(c, z) /\ A[y] = A[z] => y = z
  BY DEF AgesOK
<1>2. N \cap T = {} /\ N \subseteq Items(c)
  BY TakenFacts
<1>3. \A x \in N : A[x] = 0
  BY <1>1, <1>2
<1>4. ASSUME NEW y \in Items(c), NEW z \in N, y[1] = z[1], y[2] < z[2]
      PROVE  y \in T
  <2>1. z \in Items(c) /\ Lane(c, z) \in Lanes /\ NextOf(c, Lane(c, z), z)
    BY TakenFacts
  <2>2. Lane(c, y) = Lane(c, z)
    BY <1>4 DEF Lane
  <2>3. IndexOf(c, y[1]) = receive[Lane(c, y)] /\ z[2] = received[Lane(c, y)] + 1
    BY <1>4, <2>1, <2>2 DEF NextOf
  <2>4. received[Lane(c, y)] \in Nat /\ y[2] \in Nat
    BY <2>1, <2>2, ItemLane DEF LanesOK, LaneAt
  <2>5. Came(c, y, receive, received)
    BY <1>4, <2>3, <2>4 DEF Came
  <2> QED
    BY <2>5 DEF LanesOK
<1>5. ASSUME NEW y \in N, NEW z \in N, Lane(c, y) = Lane(c, z) PROVE y = z
  <2>1. Lane(c, y) \in Lanes /\ NextOf(c, Lane(c, y), y) /\ NextOf(c, Lane(c, y), z)
    BY <1>5, TakenFacts
  <2> QED
    BY <2>1, NextOnce
<1> HIDE DEF N
<1>6. \A y \in Items(c), z \in T \cup N : y[1] = z[1] /\ y[2] < z[2] => y \in T \cup N /\ A[y] > A[z]
  <2> TAKE y \in Items(c), z \in T \cup N
  <2> HAVE y[1] = z[1] /\ y[2] < z[2]
  <2>1. CASE z \in T
    BY <1>1, <2>1
  <2>2. CASE z \in N
    <3>1. y \in T /\ A[y] >= 1 /\ A[z] = 0 /\ A[y] \in Nat
      BY <1>1, <1>3, <1>4, <2>2
    <3> QED
      BY <3>1
  <2> QED
    BY <2>1, <2>2
<1>7. \A y, z \in T \cup N : Lane(c, y) = Lane(c, z) /\ A[y] = A[z] => y = z
  <2>1. \A y \in T, z \in N : A[y] # A[z]
    BY <1>3
  <2> QED
    BY <1>1, <1>5, <2>1
<1>8. T \cup N \subseteq Items(c) /\ \A y \in Items(c) : y \notin T \cup N => A[y] = 0
  BY <1>1, <1>2
<1>9. AgesOK(c, T \cup N, A)
  BY <1>1, <1>6, <1>7, <1>8 DEF AgesOK
<1> QED
  BY <1>3, <1>9 DEF N

(* The packet for which a queue accepts a vector.                           *)
LEMMA AcceptedIs ==
  ASSUME Scheduled, NEW c \in BOOLEAN, barriers = c, NEW q \in Queues, NEW T, NEW I, NEW A, NEW i \in Nat,
         Fetching(c, q, QueueAt(q), Begin(Prog(c, q), i)), Progress(c, T, I, A, q, QueueAt(q), i),
         NEW tag, Accepts(q, tag)
  PROVE  \E k \in PacketTable[c] :
           /\ k[1] = q /\ Entry(c, k).tag = tag
           /\ QueueAt(q).active # Idle => k[2] = i - 1
           /\ QueueAt(q).active = Idle => k[2] = i /\ QueueAt(q).iq # <<>>
<1>1. PICK x : x = QueueAt(q)
  OBVIOUS
<1>2. x.active = active[q] /\ x.iq = iq[q]
  <2>1. x = [fetched |-> fetched[q], pending |-> pending[q], iq |-> iq[q],
             active |-> active[q], tokens |-> tokens[q], out |-> None]
    BY <1>1 DEF QueueAt
  <2> QED
    BY <2>1
<1>3. Program(q) = Prog(c, q)
  BY DEF Program, Prog
<1>4. CASE x.active # Idle
  <2>1. x.active.entry # 0 /\ x.active.entry = i - 1
    BY <1>1, <1>4, ActiveEntry
  <2>2. Open(c, I, q, x.active, i)
    BY <1>1, <1>4 DEF Progress
  <2>3. PICK k : k = <<q, i - 1>>
    OBVIOUS
  <2>4. k \in PacketTable[c] /\ k[1] = q /\ k[2] = i - 1
    BY <2>2, <2>3 DEF Open
  <2>5. Entry(c, k) = Prog(c, q)[i - 1]
    BY <2>4, PacketFacts
  <2>6. Prog(c, q)[i - 1].tag = tag
    BY <1>2, <1>3, <2>1 DEF Accepts
  <2> QED
    BY <1>1, <1>4, <2>4, <2>5, <2>6
<1>5. CASE x.active = Idle
  <2>1. x.active.entry = 0
    BY <1>5 DEF Idle
  <2>2. x.iq # <<>> /\ IsPacket(Prog(c, q)[x.iq[1]]) /\ Prog(c, q)[x.iq[1]].tag = tag
    BY <1>2, <1>3, <2>1 DEF Accepts
  <2>3. i \in 1 .. Len(Prog(c, q)) + 1
    BY DEF Progress
  <2>4. i \in 1 .. Len(Prog(c, q)) /\ x.iq[1] = i
    BY <1>1, <2>2, <2>3, AtHead
  <2>5. i \in DOMAIN Prog(c, q)
    BY <2>4, ProgramType
  <2>6. PICK k : k = <<q, i>>
    OBVIOUS
  <2>7. k \in PacketTable[c] /\ k[1] = q /\ k[2] = i
    BY <2>2, <2>4, <2>5, <2>6, IsPacketOf
  <2>8. Entry(c, k) = Prog(c, q)[i]
    BY <2>7, PacketFacts
  <2> QED
    BY <1>1, <1>5, <2>2, <2>4, <2>7, <2>8
<1> QED
  BY <1>4, <1>5

QueuesOK(c, T, A) ==
  \A q \in Queues : QueueOK(c, T, Sent(c, T, A, 2), Stored(c, T, A), A, q, QueueAt(q))

(* A vector is told to the queue of its packet.                             *)
LEMMA ToldIs ==
  ASSUME Scheduled, NEW c \in BOOLEAN, barriers = c, NEW T, NEW A,
         LanesOK(c, T, receive, received, popped), QueuesOK(c, T, A), NEW x \in Taken(c)
  PROVE  /\ Told(Lane(c, x)) = x[1][1] /\ x[1][1] \in Queues
         /\ Accepts(x[1][1], Entry(c, x[1]).tag)
<1>1. PICK l \in Lanes : /\ l = Lane(c, x) /\ Takes(l) /\ x \in Items(c)
                         /\ Bank(x) = Current(l).bank /\ Entry(c, x[1]).tag = Current(l).tag
  BY TakenFacts
<1>2. x[1] \in PacketTable[c] /\ Bank(x) \in Banks
  BY <1>1, ItemFacts
<1>3. PICK p : p = Told(l)
  OBVIOUS
<1>4. p \in Queues /\ p[2] = Bank(x) /\ Accepts(p, Entry(c, x[1]).tag)
  <2>1. PICK s \in Stores : Accepts(<<s, Current(l).bank>>, Current(l).tag)
    BY <1>1 DEF Takes
  <2>2. CASE Accepts(<<"transport", Current(l).bank>>, Current(l).tag)
    <3>1. p = <<"transport", Bank(x)>>
      BY <1>1, <1>3, <2>2 DEF Told
    <3> QED
      BY <1>1, <1>2, <2>2, <3>1 DEF Queues, Stores
  <2>3. CASE ~Accepts(<<"transport", Current(l).bank>>, Current(l).tag)
    <3>1. s = "native"
      BY <2>1, <2>3 DEF Stores
    <3>2. p = <<"native", Bank(x)>>
      BY <1>1, <1>3, <2>3 DEF Told
    <3> QED
      BY <1>1, <1>2, <2>1, <3>1, <3>2 DEF Queues, Stores
  <2> QED
    BY <2>2, <2>3
<1>5. PICK i \in Nat : /\ Fetching(c, p, QueueAt(p), Begin(Prog(c, p), i))
                       /\ Progress(c, T, Sent(c, T, A, 2), A, p, QueueAt(p), i)
  BY <1>4 DEF QueuesOK, QueueOK
<1>6. PICK k \in PacketTable[c] : k[1] = p /\ Entry(c, k).tag = Entry(c, x[1]).tag
  BY <1>4, <1>5, AcceptedIs
<1>7. BankOf(k) = BankOf(x[1])
  BY <1>4, <1>6 DEF Bank, BankOf
<1>8. k = x[1]
  BY <1>2, <1>6, <1>7, TagOnce
<1> QED
  BY <1>1, <1>3, <1>4, <1>6, <1>8

LEMMA OneToSeq ==
  ASSUME NEW e
  PROVE  SetToSeq({e}) = <<e>> /\ SetToSeq({}) = <<>>
<1>1. Cardinality({e}) = 1 /\ Cardinality({}) = 0
  BY FS_Singleton, FS_EmptySet
<1>2. SetToSeq({e}) = <<e>>
  <2>1. SetToSeq({e}) = CHOOSE f \in [1 .. 1 -> {e}] : IsInjective(f)
    BY <1>1 DEF SetToSeq
  <2>2. <<e>> \in [1 .. 1 -> {e}] /\ IsInjective(<<e>>)
    BY DEF IsInjective
  <2>3. \A f \in [1 .. 1 -> {e}] : f = <<e>>
    OBVIOUS
  <2> QED
    BY <2>1, <2>2, <2>3
<1>3. SetToSeq({}) = <<>>
  <2>1. SetToSeq({}) = CHOOSE f \in [1 .. 0 -> {}] : IsInjective(f)
    BY <1>1 DEF SetToSeq
  <2>2. <<>> \in [1 .. 0 -> {}] /\ IsInjective(<<>>)
    BY DEF IsInjective
  <2>3. \A f \in [1 .. 0 -> {}] : f = <<>>
    OBVIOUS
  <2> QED
    BY <2>1, <2>2, <2>3
<1> QED
  BY <1>2, <1>3

(* A vector that is new to a queue: one at most.                            *)
LEMMA NewToken ==
  ASSUME Scheduled, NEW c \in BOOLEAN, NEW q \in Queues, NEW T, NEW A, AgesOK(c, T, A),
         \A y \in T : A[y] >= 1, NEW I, I \subseteq T, NEW R, NEW s, Tokens(c, T, I, R, A, q, s),
         NEW N, AgesOK(c, T \cup N, A), NEW x \in N, x[1][1] = q, A[x] = 0, \A y \in N : y[1][1] = q => y = x,
         N \cap T = {}
  PROVE  Tokens(c, T \cup N, I, R, A, q, Append(s, TokenOf(c, A, x)))
<1> DEFINE e == TokenOf(c, A, x)
           r == Append(s, e)
           U == T \cup N
<1>1. s \in Seq(ToSet(s)) /\ Len(s) \in Nat
  <2>1. s \in Seq(ToSet(s))
    BY DEF Tokens
  <2> QED
    BY <2>1
<1>2. /\ Len(r) = Len(s) + 1 /\ r[Len(s) + 1] = e /\ \A j \in 1 .. Len(s) : r[j] = s[j]
      /\ r \in Seq(ToSet(s) \cup {e})
  BY <1>1
<1>3. e.tag = Entry(c, x[1]).tag /\ e.age = 0
  BY DEF TokenOf
<1> HIDE DEF r, e
<1>4. r \in Seq(ToSet(r))
  <2>1. \A j \in 1 .. Len(r) : r[j] \in ToSet(r)
    BY <1>2 DEF ToSet
  <2> QED
    BY <1>2, <2>1
<1>5. \A j \in 1 .. Len(r) : j \in 1 .. Len(s) \/ j = Len(s) + 1
  BY <1>1, <1>2
<1>6. /\ \A j \in 1 .. Len(s) :
           (\E y \in T \ I : y[1][1] = q /\ s[j] = TokenOf(c, A, y)) \/ EventToken(c, R, q, s[j])
      /\ \A y \in T \ I : y[1][1] = q => \E j \in 1 .. Len(s) : s[j] = TokenOf(c, A, y)
      /\ \A k \in PacketTable[c] : k[1] = q =>
           \A i, j \in 1 .. Len(s) :
             i < j /\ s[i].tag = Entry(c, k).tag /\ s[j].tag = Entry(c, k).tag => s[i].age > s[j].age
  BY DEF Tokens
<1>7. x \in U \ I
  OBVIOUS
<1>8. \A j \in 1 .. Len(r) :
        (\E y \in U \ I : y[1][1] = q /\ r[j] = TokenOf(c, A, y)) \/ EventToken(c, R, q, r[j])
  <2> TAKE j \in 1 .. Len(r)
  <2>1. CASE j \in 1 .. Len(s)
    <3>1. r[j] = s[j]
      BY <1>2, <2>1
    <3> QED
      BY <1>6, <2>1, <3>1
  <2>2. CASE j = Len(s) + 1
    <3>1. r[j] = TokenOf(c, A, x)
      BY <1>2, <2>2 DEF e
    <3> QED
      BY <1>7, <3>1
  <2> QED
    BY <1>5, <2>1, <2>2
<1>9. \A y \in U \ I : y[1][1] = q => \E j \in 1 .. Len(r) : r[j] = TokenOf(c, A, y)
  <2> TAKE y \in U \ I
  <2> HAVE y[1][1] = q
  <2>1. CASE y \in T
    <3>1. PICK j \in 1 .. Len(s) : s[j] = TokenOf(c, A, y)
      BY <1>6, <2>1
    <3>2. j \in 1 .. Len(r) /\ r[j] = s[j]
      BY <1>1, <1>2
    <3> QED
      BY <3>1, <3>2
  <2>2. CASE y \in N
    <3>1. y = x /\ Len(s) + 1 \in 1 .. Len(r)
      BY <1>1, <1>2, <2>2
    <3> QED
      BY <1>2, <3>1 DEF e
  <2> QED
    BY <2>1, <2>2
<1>10. ASSUME NEW k \in PacketTable[c], k[1] = q, NEW i \in 1 .. Len(r), NEW j \in 1 .. Len(r),
              i < j, r[i].tag = Entry(c, k).tag, r[j].tag = Entry(c, k).tag
       PROVE  r[i].age > r[j].age
  <2>1. i \in 1 .. Len(s) /\ r[i] = s[i]
    BY <1>1, <1>2, <1>10
  <2>2. CASE j \in 1 .. Len(s)
    <3>1. r[j] = s[j]
      BY <1>2, <2>2
    <3>2. \A m, n \in 1 .. Len(s) :
             m < n /\ s[m].tag = Entry(c, k).tag /\ s[n].tag = Entry(c, k).tag => s[m].age > s[n].age
      BY <1>6, <1>10
    <3> QED
      BY <1>10, <2>1, <2>2, <3>1, <3>2
  <2>3. CASE j = Len(s) + 1
    <3>1. r[j].age = 0
      BY <1>2, <1>3, <2>3
    <3>2. ~EventToken(c, R, q, s[i])
      <4>1. SUFFICES ASSUME EventToken(c, R, q, s[i]) PROVE FALSE
        OBVIOUS
      <4>2. PICK m \in DOMAIN Prog(c, q) : /\ Prog(c, q)[m].op = "wait"
                                           /\ s[i] = [tag |-> Prog(c, q)[m].event, age |-> s[i].age]
        BY <4>1 DEF EventToken
      <4>3. s[i].tag = Prog(c, q)[m].event /\ q[1] = "native"
        BY <4>1, <4>2 DEF EventToken
      <4>4. BankOf(k) = q[2]
        BY <1>10 DEF BankOf
      <4>5. Entry(c, k).tag # Prog(c, q)[m].event
        BY <4>2, <4>3, <4>4, EventTag
      <4> QED
        BY <1>10, <2>1, <4>3, <4>5
    <3>3. PICK y \in T : s[i] = TokenOf(c, A, y)
      BY <1>6, <2>1, <3>2
    <3>4. s[i].age = A[y] /\ A[y] >= 1 /\ A[y] \in Nat
      BY <3>3, ItemNumbers DEF TokenOf
    <3> QED
      BY <2>1, <3>1, <3>4
  <2> QED
    BY <1>5, <2>2, <2>3
<1>11. Tokens(c, U, I, R, A, q, r)
  BY <1>4, <1>8, <1>9, <1>10 DEF Tokens
<1> QED
  BY <1>11 DEF U, r, e

LEMMA OldTokens ==
  ASSUME NEW c, NEW q, NEW T, NEW A, NEW I, NEW R, NEW s, Tokens(c, T, I, R, A, q, s),
         NEW N, \A y \in N : y[1][1] # q
  PROVE  Tokens(c, T \cup N, I, R, A, q, s)
<1>1. /\ s \in Seq(ToSet(s))
      /\ \A j \in 1 .. Len(s) :
           (\E y \in T \ I : y[1][1] = q /\ s[j] = TokenOf(c, A, y)) \/ EventToken(c, R, q, s[j])
      /\ \A y \in T \ I : y[1][1] = q => \E j \in 1 .. Len(s) : s[j] = TokenOf(c, A, y)
      /\ \A k \in PacketTable[c] : k[1] = q =>
           \A i, j \in 1 .. Len(s) :
             i < j /\ s[i].tag = Entry(c, k).tag /\ s[j].tag = Entry(c, k).tag => s[i].age > s[j].age
  BY DEF Tokens
<1>2. \A j \in 1 .. Len(s) :
        (\E y \in (T \cup N) \ I : y[1][1] = q /\ s[j] = TokenOf(c, A, y)) \/ EventToken(c, R, q, s[j])
  BY <1>1
<1>3. \A y \in (T \cup N) \ I : y[1][1] = q => \E j \in 1 .. Len(s) : s[j] = TokenOf(c, A, y)
  BY <1>1
<1> QED
  BY <1>1, <1>2, <1>3 DEF Tokens

TokensTold(q) == SetToSeq({[tag |-> Current(l).tag, age |-> 0] : l \in {k \in {m \in Lanes : Takes(m)} : Told(k) = q}})

LEMMA QueueTold ==
  ASSUME Scheduled, NEW c \in BOOLEAN, barriers = c, NEW T, NEW A, AgesOK(c, T, A),
         \A y \in T : A[y] >= 1, LanesOK(c, T, receive, received, popped), QueuesOK(c, T, A),
         NEW q \in Queues, NEW y, y.fetched = fetched[q], y.pending = pending[q], y.iq = iq[q],
         y.active = active[q], y.tokens = tokens[q] \o TokensTold(q)
  PROVE  QueueOK(c, T \cup Taken(c), Sent(c, T, A, 2), Stored(c, T, A), A, q, y)
<1> DEFINE N == Taken(c)
           I == Sent(c, T, A, 2)
           R == Stored(c, T, A)
           K == {[tag |-> Current(l).tag, age |-> 0] : l \in {k \in {m \in Lanes : Takes(m)} : Told(k) = q}}
<1>1. PICK x : x = QueueAt(q)
  OBVIOUS
<1>2. x.fetched = y.fetched /\ x.pending = y.pending /\ x.iq = y.iq /\ x.active = y.active /\ x.tokens = tokens[q]
  <2>1. x = [fetched |-> fetched[q], pending |-> pending[q], iq |-> iq[q],
             active |-> active[q], tokens |-> tokens[q], out |-> None]
    BY <1>1 DEF QueueAt
  <2> QED
    BY <2>1
<1>3. PICK i \in Nat : /\ Fetching(c, q, x, Begin(Prog(c, q), i)) /\ Supplied(c, q, x)
                       /\ Progress(c, T, I, A, q, x, i) /\ Waits(c, R, q, i) /\ Tokens(c, T, I, R, A, q, x.tokens)
  BY <1>1 DEF QueuesOK, QueueOK
<1>4. Fetching(c, q, y, Begin(Prog(c, q), i)) /\ Supplied(c, q, y)
  BY <1>2, <1>3 DEF Fetching, Supplied
<1>5. AgesOK(c, T \cup N, A) /\ \A z \in N : A[z] = 0
  BY AgesTaken
<1>6. /\ N \cap T = {}
      /\ \A z \in N : z \in Items(c) /\ Lane(c, z) \in Lanes /\ Takes(Lane(c, z)) /\ NextOf(c, Lane(c, z), z)
                      /\ Entry(c, z[1]).tag = Current(Lane(c, z)).tag
      /\ \A l \in Lanes : Takes(l) => \E z \in N : Lane(c, z) = l
  BY TakenFacts
<1>7. \A z \in N : Told(Lane(c, z)) = z[1][1] /\ Accepts(z[1][1], Entry(c, z[1]).tag)
  BY ToldIs
<1>8. K = {TokenOf(c, A, z) : z \in {w \in N : w[1][1] = q}}
  <2>1. ASSUME NEW z \in N, z[1][1] = q PROVE TokenOf(c, A, z) \in K
    <3>1. TokenOf(c, A, z) = [tag |-> Current(Lane(c, z)).tag, age |-> 0]
      BY <1>5, <1>6 DEF TokenOf
    <3> QED
      BY <1>6, <1>7, <2>1, <3>1
  <2>2. ASSUME NEW l \in Lanes, Takes(l), Told(l) = q
        PROVE  [tag |-> Current(l).tag, age |-> 0] \in {TokenOf(c, A, z) : z \in {w \in N : w[1][1] = q}}
    <3>1. PICK z \in N : Lane(c, z) = l
      BY <1>6, <2>2
    <3>2. TokenOf(c, A, z) = [tag |-> Current(l).tag, age |-> 0]
      BY <1>5, <1>6, <3>1 DEF TokenOf
    <3>3. z[1][1] = q
      BY <1>7, <2>2, <3>1
    <3> QED
      BY <3>1, <3>2, <3>3
  <2> QED
    BY <2>1, <2>2
<1>9. TokensTold(q) = SetToSeq(K)
  BY DEF TokensTold
<1> HIDE DEF N, I, R, K
<1>10. ASSUME NEW z \in N, z[1][1] = q
       PROVE  /\ z[1] \in PacketTable[c] /\ z[1] = <<q, z[1][2]>>
              /\ x.active # Idle => z[1][2] = i - 1
              /\ x.active = Idle => z[1][2] = i /\ x.iq # <<>>
  <2>1. PICK k \in PacketTable[c] : /\ k[1] = q /\ Entry(c, k).tag = Entry(c, z[1]).tag
                                    /\ x.active # Idle => k[2] = i - 1
                                    /\ x.active = Idle => k[2] = i /\ x.iq # <<>>
    BY <1>1, <1>3, <1>7, <1>10, AcceptedIs
  <2>2. z[1] \in PacketTable[c]
    BY <1>6, ItemFacts
  <2>3. BankOf(z[1]) = BankOf(k)
    BY <1>10, <2>1 DEF BankOf
  <2>4. z[1] = k
    BY <2>1, <2>2, <2>3, TagOnce
  <2>5. k = <<k[1], k[2]>>
    BY PacketFacts
  <2> QED
    BY <2>1, <2>2, <2>4, <2>5
<1>11. ASSUME NEW z \in N, NEW w \in N, z[1][1] = q, w[1][1] = q PROVE z = w
  <2>3. z[1] = <<q, z[1][2]>> /\ w[1] = <<q, w[1][2]>>
    BY <1>10, <1>11
  <2>4. z[1][2] = w[1][2]
    BY <1>10, <1>11
  <2>1. z[1] = w[1]
    BY <2>3, <2>4
  <2>2. Lane(c, z) = Lane(c, w)
    BY <2>1 DEF Lane
  <2> QED
    BY <1>6, <2>2, NextOnce
<1>12. Progress(c, T \cup N, I, A, q, y, i)
  <2>1. /\ i \in 1 .. Len(Prog(c, q)) + 1
        /\ y.active = Idle \/ Open(c, I, q, y.active, i)
        /\ \A w \in Items(c) : w[1][1] = q /\ w[1][2] < i /\ (y.active = Idle \/ w[1][2] # i - 1) => w \in I
        /\ \A w \in Items(c) : w[1][1] = q /\ w[1][2] >= i /\ w \in T
                                 => A[w] = 0 /\ w[1][2] = i /\ y.iq # <<>> /\ y.active = Idle
    BY <1>2, <1>3 DEF Progress
  <2>2. ASSUME NEW w \in Items(c), w[1][1] = q, w[1][2] >= i, w \in N
        PROVE  A[w] = 0 /\ w[1][2] = i /\ y.iq # <<>> /\ y.active = Idle
    <3>1. x.active = Idle
      BY <1>10, <2>2
    <3> QED
      BY <1>2, <1>5, <1>10, <2>2, <3>1
  <2> QED
    BY <2>1, <2>2 DEF Progress
<1>13. Tokens(c, T \cup N, I, R, A, q, y.tokens)
  <2>1. PICK s : s = tokens[q]
    OBVIOUS
  <2>2. Tokens(c, T, I, R, A, q, s) /\ y.tokens = s \o SetToSeq(K)
    BY <1>2, <1>3, <1>9, <2>1
  <2>3. s \in Seq(ToSet(s))
    BY <2>2 DEF Tokens
  <2>4. CASE \A z \in N : z[1][1] # q
    <3>1. K = {}
      BY <1>8, <2>4
    <3>2. SetToSeq(K) = <<>>
      BY <3>1, OneToSeq
    <3>3. y.tokens = s
      BY <2>2, <2>3, <3>2
    <3> QED
      BY <2>2, <2>4, <3>3, OldTokens
  <2>5. CASE \E z \in N : z[1][1] = q
    <3>1. PICK z \in N : z[1][1] = q
      BY <2>5
    <3>2. K = {TokenOf(c, A, z)}
      BY <1>8, <1>11, <3>1
    <3>3. SetToSeq(K) = <<TokenOf(c, A, z)>>
      BY <3>2, OneToSeq
    <3>4. y.tokens = Append(s, TokenOf(c, A, z))
      BY <2>2, <2>3, <3>3
    <3>5. A[z] = 0 /\ \A w \in N : w[1][1] = q => w = z
      BY <1>5, <1>11, <3>1
    <3>6. I \subseteq T
      BY DEF I, Sent
    <3> QED
      BY <1>5, <1>6, <2>2, <3>1, <3>4, <3>5, <3>6, NewToken
  <2> QED
    BY <2>4, <2>5
<1>14. QueueOK(c, T \cup N, I, R, A, q, y)
  BY <1>3, <1>4, <1>12, <1>13 DEF QueueOK
<1> QED
  BY <1>14 DEF N, I, R

(* The pipelines and what they write to the streams.                        *)
PipeOf(c, x, t) == [lane |-> Lane(c, x), tile |-> t, stream |-> Stream(c, x), data |-> Vector(c, x)]
PipeAt(c, z)    == PipeOf(c, z[1], z[2])
PipeOK(c, P, S) == S = {PipeAt(c, z) : z \in P}

LEMMA PipeShape ==
  ASSUME NEW c, NEW x, NEW t
  PROVE  LET p == PipeOf(c, x, t)
         IN /\ [p EXCEPT !.tile = @ + 1] = PipeOf(c, x, t + 1)
            /\ p.tile = t /\ p.stream = Stream(c, x) /\ p.data = Vector(c, x)
<1>1. PICK l, s, d : l = Lane(c, x) /\ s = Stream(c, x) /\ d = Vector(c, x)
  OBVIOUS
<1>2. PICK p : p = PipeOf(c, x, t)
  OBVIOUS
<1>3. p = [lane |-> l, tile |-> t, stream |-> s, data |-> d]
  BY <1>1, <1>2 DEF PipeOf
<1>4. [p EXCEPT !.tile = @ + 1] = [lane |-> l, tile |-> t + 1, stream |-> s, data |-> d]
  BY <1>3, Z3
<1> QED
  BY <1>1, <1>2, <1>3, <1>4 DEF PipeOf

(* The vectors in the pipelines that have gone on.                          *)
Advanced(S) == {[p EXCEPT !.tile = @ + 1] : p \in {r \in S : r.tile < Tiles}}

LEMMA AdvancedIs ==
  ASSUME Scheduled, NEW c \in BOOLEAN, NEW T, NEW A, AgesOK(c, T, A), NEW S, PipeOK(c, Piped(T, A, 1), S),
         NEW d
  PROVE  d \in Advanced(S) <=>
           \E x \in T, t \in 0 .. Tiles - 1 : d = PipeOf(c, x, t + 1) /\ <<x, t>> \in Piped(T, A, 1)
<1>0. Tiles \in Nat \ {0}
  BY TransportAssumption
<1>1. \A p : p \in S <=> \E z \in Piped(T, A, 1) : p = PipeAt(c, z)
  BY DEF PipeOK
<1>2. \A z \in Piped(T, A, 1) : z = <<z[1], z[2]>> /\ z[1] \in T /\ z[2] \in 0 .. Tiles
  BY DEF Piped
<1>3. \A p : p \in S <=> \E x \in T, t \in 0 .. Tiles : p = PipeOf(c, x, t) /\ <<x, t>> \in Piped(T, A, 1)
  <2>1. ASSUME NEW p \in S
        PROVE  \E x \in T, t \in 0 .. Tiles : p = PipeOf(c, x, t) /\ <<x, t>> \in Piped(T, A, 1)
    <3>1. PICK z \in Piped(T, A, 1) : p = PipeAt(c, z)
      BY <1>1
    <3> QED
      BY <1>2, <3>1 DEF PipeAt
  <2>2. ASSUME NEW x \in T, NEW t \in 0 .. Tiles, <<x, t>> \in Piped(T, A, 1)
        PROVE  PipeOf(c, x, t) \in S
    <3>1. PICK z : z = <<x, t>>
      OBVIOUS
    <3>2. PipeAt(c, z) = PipeOf(c, x, t)
      BY <3>1 DEF PipeAt
    <3> QED
      BY <1>1, <2>2, <3>1, <3>2
  <2> QED
    BY <2>1, <2>2
<1>4. ASSUME d \in Advanced(S)
      PROVE  \E x \in T, t \in 0 .. Tiles - 1 : d = PipeOf(c, x, t + 1) /\ <<x, t>> \in Piped(T, A, 1)
  <2>1. PICK p \in S : p.tile < Tiles /\ d = [p EXCEPT !.tile = @ + 1]
    BY <1>4 DEF Advanced
  <2>2. PICK x \in T, t \in 0 .. Tiles : p = PipeOf(c, x, t) /\ <<x, t>> \in Piped(T, A, 1)
    BY <1>3
  <2>3. d = PipeOf(c, x, t + 1) /\ p.tile = t
    BY <2>1, <2>2, PipeShape
  <2>4. t \in 0 .. Tiles - 1
    BY <1>0, <2>1, <2>2, <2>3
  <2> QED
    BY <2>2, <2>3, <2>4
<1>5. ASSUME NEW x \in T, NEW t \in 0 .. Tiles - 1, d = PipeOf(c, x, t + 1), <<x, t>> \in Piped(T, A, 1)
      PROVE  d \in Advanced(S)
  <2>1. PICK p : p = PipeOf(c, x, t)
    OBVIOUS
  <2>2. t \in 0 .. Tiles /\ t < Tiles
    BY <1>0
  <2>3. p \in S
    BY <1>3, <1>5, <2>1, <2>2
  <2>4. p.tile = t /\ [p EXCEPT !.tile = @ + 1] = PipeOf(c, x, t + 1)
    BY <2>1, PipeShape
  <2> QED
    BY <1>5, <2>2, <2>3, <2>4 DEF Advanced
<1> QED
  BY <1>4, <1>5

LEMMA PipesGoOn ==
  ASSUME Scheduled, NEW c \in BOOLEAN, NEW T, NEW A, AgesOK(c, T, A), \A y \in T : A[y] >= 1,
         LanesOK(c, T, receive, received, popped), PipeOK(c, Piped(T, A, 1), pipe),
         ReadsStaged(c, staged), EvaluateC2c
  PROVE  /\ PipeOK(c, Piped(T \cup Taken(c), A, 0), pipe')
         /\ AllStaged(c, Piped(T \cup Taken(c), A, 0), staged')
<1> DEFINE N == Taken(c)
           P == Piped(T \cup N, A, 0)
           M == Advanced(pipe)
           G == {[lane |-> l, tile |-> 0, stream |-> Current(l).stream, data |-> <<l, popped[l] + 1>>]
                 : l \in {m \in Lanes : Takes(m)}}
           C == {[column |-> Edge, tile |-> p.tile, stream |-> p.stream, data |-> p.data, transport |-> TRUE]
                 : p \in M}
<1>0. Tiles \in Nat \ {0} /\ Edge \in Nat
  BY TransportAssumption
<1>1. pipe' = M \cup G /\ staged' = staged \cup C
  BY DEF EvaluateC2c, Advanced
<1>2. \A d : d \in M <=>
           \E x \in T, t \in 0 .. Tiles - 1 : d = PipeOf(c, x, t + 1) /\ <<x, t>> \in Piped(T, A, 1)
  BY AdvancedIs
<1>3. AgesOK(c, T \cup N, A) /\ \A x \in N : A[x] = 0
  BY AgesTaken
<1>4. \A z : z \in P <=> \/ \E x \in N : z = <<x, 0>>
                         \/ \E x \in T, t \in 0 .. Tiles - 1 :
                              z = <<x, t + 1>> /\ <<x, t>> \in Piped(T, A, 1)
  <2>1. PICK K : K = N
    OBVIOUS
  <2>2. AgesOK(c, T \cup K, A) /\ \A x \in K : A[x] = 0
    BY <1>3, <2>1
  <2> HIDE DEF N
  <2>3. \A z : z \in Piped(T \cup K, A, 0)
                <=> \/ \E x \in K : z = <<x, 0>>
                    \/ \E x \in T, t \in 0 .. Tiles - 1 :
                         z = <<x, t + 1>> /\ <<x, t>> \in Piped(T, A, 1)
    BY <2>2, TakenSets
  <2> QED
    BY <2>1, <2>3
<1>5. /\ \A x \in N : /\ Lane(c, x) \in Lanes /\ Takes(Lane(c, x)) /\ Stream(c, x) = Current(Lane(c, x)).stream
                      /\ Vector(c, x) = <<Lane(c, x), popped[Lane(c, x)] + 1>>
      /\ \A l \in Lanes : Takes(l) => \E x \in N : Lane(c, x) = l
  BY TakenFacts
<1>6. \A d : d \in G <=> \E l \in Lanes : /\ Takes(l)
                                          /\ d = [lane |-> l, tile |-> 0, stream |-> Current(l).stream,
                                                  data |-> <<l, popped[l] + 1>>]
  OBVIOUS
<1>7. \A d : d \in C <=> \E p \in M : d = [column |-> Edge, tile |-> p.tile, stream |-> p.stream,
                                           data |-> p.data, transport |-> TRUE]
  OBVIOUS
<1> HIDE DEF N, P, M, G, C
<1>8. \A d : d \in G <=> \E x \in N : d = PipeOf(c, x, 0)
  <2>1. ASSUME NEW x \in N PROVE PipeOf(c, x, 0) \in G
    BY <1>5, <1>6 DEF PipeOf
  <2>2. ASSUME NEW d \in G PROVE \E x \in N : d = PipeOf(c, x, 0)
    <3>1. PICK l \in Lanes : /\ Takes(l)
                             /\ d = [lane |-> l, tile |-> 0, stream |-> Current(l).stream,
                                     data |-> <<l, popped[l] + 1>>]
      BY <1>6
    <3>2. PICK x \in N : Lane(c, x) = l
      BY <1>5, <3>1
    <3>3. d = PipeOf(c, x, 0)
      BY <1>5, <3>1, <3>2 DEF PipeOf
    <3> QED
      BY <3>3
  <2> QED
    BY <2>1, <2>2
<1>9. PipeOK(c, P, pipe')
  <2>1. ASSUME NEW z \in P PROVE PipeAt(c, z) \in M \cup G
    <3>1. CASE \E x \in N : z = <<x, 0>>
      <4>1. PICK x \in N : z = <<x, 0>>
        BY <3>1
      <4>2. PipeAt(c, z) = PipeOf(c, x, 0)
        BY <4>1 DEF PipeAt
      <4> QED
        BY <1>8, <4>2
    <3>2. CASE \E x \in T, t \in 0 .. Tiles - 1 : z = <<x, t + 1>> /\ <<x, t>> \in Piped(T, A, 1)
      <4>1. PICK x \in T, t \in 0 .. Tiles - 1 : z = <<x, t + 1>> /\ <<x, t>> \in Piped(T, A, 1)
        BY <3>2
      <4>2. PipeAt(c, z) = PipeOf(c, x, t + 1)
        BY <4>1 DEF PipeAt
      <4> QED
        BY <1>2, <4>1, <4>2
    <3> QED
      BY <1>4, <3>1, <3>2
  <2>2. ASSUME NEW d \in M \cup G PROVE \E z \in P : d = PipeAt(c, z)
    <3>1. CASE d \in G
      <4>1. PICK x \in N : d = PipeOf(c, x, 0)
        BY <1>8, <3>1
      <4>2. PICK z : z = <<x, 0>>
        OBVIOUS
      <4>3. z \in P /\ PipeAt(c, z) = d
        BY <1>4, <4>1, <4>2 DEF PipeAt
      <4> QED
        BY <4>3
    <3>2. CASE d \in M
      <4>1. PICK x \in T, t \in 0 .. Tiles - 1 : d = PipeOf(c, x, t + 1) /\ <<x, t>> \in Piped(T, A, 1)
        BY <1>2, <3>2
      <4>2. PICK z : z = <<x, t + 1>>
        OBVIOUS
      <4>3. z \in P
        BY <1>4, <4>1, <4>2
      <4>4. PipeAt(c, z) = d
        BY <4>1, <4>2 DEF PipeAt
      <4> QED
        BY <4>3, <4>4
    <3> QED
      BY <3>1, <3>2
  <2>3. M \cup G = {PipeAt(c, z) : z \in P}
    BY <2>1, <2>2
  <2> QED
    BY <1>1, <2>3 DEF PipeOK
<1>10. C = {CellOf(c, z[1], z[2], 0) : z \in {y \in P : y[2] >= 1}}
  <2>1. ASSUME NEW x, NEW t, NEW p, p = PipeOf(c, x, t)
        PROVE  [column |-> Edge, tile |-> p.tile, stream |-> p.stream, data |-> p.data, transport |-> TRUE]
                 = CellOf(c, x, t, 0)
    <3>1. p.tile = t /\ p.stream = Stream(c, x) /\ p.data = Vector(c, x)
      BY <2>1 DEF PipeOf
    <3>2. Edge - 0 = Edge
      BY <1>0
    <3> QED
      BY <3>1, <3>2 DEF CellOf
  <2>2. ASSUME NEW d \in C PROVE \E z \in P : z[2] >= 1 /\ d = CellOf(c, z[1], z[2], 0)
    <3>1. PICK p \in M : d = [column |-> Edge, tile |-> p.tile, stream |-> p.stream,
                              data |-> p.data, transport |-> TRUE]
      BY <1>7
    <3>2. PICK x \in T, t \in 0 .. Tiles - 1 : p = PipeOf(c, x, t + 1) /\ <<x, t>> \in Piped(T, A, 1)
      BY <1>2
    <3>3. d = CellOf(c, x, t + 1, 0)
      BY <2>1, <3>1, <3>2
    <3>4. PICK z : z = <<x, t + 1>>
      OBVIOUS
    <3>5. z \in P
      BY <1>4, <3>2, <3>4
    <3>6. z[1] = x /\ z[2] = t + 1 /\ t + 1 >= 1
      BY <1>0, <3>4
    <3> QED
      BY <3>3, <3>5, <3>6
  <2>3. ASSUME NEW z \in P, z[2] >= 1 PROVE CellOf(c, z[1], z[2], 0) \in C
    <3>1. ~ \E x \in N : z = <<x, 0>>
      BY <2>3
    <3>2. PICK x \in T, t \in 0 .. Tiles - 1 : z = <<x, t + 1>> /\ <<x, t>> \in Piped(T, A, 1)
      BY <1>4, <3>1
    <3>3. PICK p : p = PipeOf(c, x, t + 1)
      OBVIOUS
    <3>4. p \in M
      BY <1>2, <3>2, <3>3
    <3>5. z[1] = x /\ z[2] = t + 1
      BY <3>2
    <3>6. [column |-> Edge, tile |-> p.tile, stream |-> p.stream, data |-> p.data, transport |-> TRUE]
            = CellOf(c, z[1], z[2], 0)
      BY <2>1, <3>3, <3>5
    <3> QED
      BY <1>7, <3>4, <3>6
  <2> QED
    BY <2>2, <2>3
<1>11. AllStaged(c, P, staged')
  BY <1>1, <1>10 DEF AllStaged
<1> QED
  BY <1>9, <1>11 DEF P, N

----------------------------------------------------------------------------
(* The runtime.                                                             *)

LEMMA CompleteIsStored ==
  ASSUME Scheduled, NEW c \in BOOLEAN, barriers = c, NEW T, NEW A, AgesOK(c, T, A),
         CountsOK(c, Written(c, T, A, 0), committed), NEW b \in Banks, NEW l, Complete(l)
  PROVE  AllIn(c, Stored(c, T, A), b, l)
<1> SUFFICES ASSUME NEW y \in Items(c), Bank(y) = b, Launch(c, y) = l PROVE y \in Stored(c, T, A)
  BY DEF AllIn
<1> DEFINE k == y[1]
           W == Written(c, T, A, 0)
           n == Entry(c, k).count
<1>1. k \in PacketTable[c] /\ y = <<k, y[2]>> /\ y[2] \in 1 .. n
  BY ItemFacts
<1>2. Entry(c, k).launch = l /\ BankOf(k) = b /\ n \in Nat /\ Tiles \in Nat \ {0}
  BY <1>1, PacketFacts, TransportAssumption DEF Launch, Bank
<1> HIDE DEF k, n, W
<1>3. SegmentsExpected(l, b) = n * Tiles
  <2> DEFINE K == {j \in Packets : PacketOf(j).launch = l /\ BankOf(j) = b}
  <2>1. K = {k}
    <3>1. k \in K
      BY <1>1, <1>2 DEF Packets, PacketOf
    <3>2. ASSUME NEW j \in K PROVE j = k
      <4>1. j \in PacketTable[c] /\ Entry(c, j).launch = l /\ BankOf(j) = b
        BY DEF Packets, PacketOf
      <4> QED
        BY <1>1, <1>2, <4>1, LaunchOnce
    <3> QED
      BY <3>1, <3>2
  <2>2. PacketOf(k) = Entry(c, k)
    BY DEF PacketOf
  <2>3. SegmentsExpected(l, b) = IF K = {} THEN 0 ELSE PacketOf(CHOOSE j \in K : TRUE).count * Tiles
    BY DEF SegmentsExpected
  <2> HIDE DEF K
  <2>4. (CHOOSE j \in K : TRUE) = k
    BY <2>1
  <2> QED
    BY <2>1, <2>2, <2>3, <2>4 DEF n
<1>4. Cardinality(Segments(c, W, k)) = n * Tiles
  <2>1. committed[<<l, b>>] = n * Tiles
    BY <1>3 DEF Complete
  <2>2. committed[<<l, b>>] = Cardinality(Segments(c, W, k))
    BY <1>1, <1>2 DEF CountsOK, W
  <2> QED
    BY <2>1, <2>2
<1>5. IsFiniteSet((1 .. n) \X (1 .. Tiles)) /\ Cardinality((1 .. n) \X (1 .. Tiles)) = n * Tiles
  <2>1. IsFiniteSet(1 .. n) /\ IsFiniteSet(1 .. Tiles) /\ Cardinality(1 .. n) = n /\ Cardinality(1 .. Tiles) = Tiles
    BY <1>2, FS_Interval
  <2> QED
    BY <2>1, FS_Product
<1>6. Segments(c, W, k) \subseteq (1 .. n) \X (1 .. Tiles)
  BY DEF Segments, n
<1>7. Segments(c, W, k) = (1 .. n) \X (1 .. Tiles)
  BY <1>4, <1>5, <1>6, FS_Subset
<1>8. PICK p : p = <<y[2], Tiles>>
  OBVIOUS
<1>9. p \in Segments(c, W, k) /\ p[1] = y[2] /\ p[2] = Tiles
  <2>1. Tiles \in 1 .. Tiles
    BY <1>2
  <2> QED
    BY <1>1, <1>7, <1>8, <2>1
<1>10. <<<<k, p[1]>>, p[2]>> \in W
  BY <1>9 DEF Segments
<1>11. <<y, Tiles>> \in W
  BY <1>1, <1>9, <1>10
<1>12. y \in T /\ Tiles <= A[y] - Lag(c, y) - 1 - 0
  BY <1>11 DEF Written, W
<1>13. A[y] \in Nat /\ Lag(c, y) \in Nat
  BY <1>12, ItemNumbers
<1> QED
  BY <1>2, <1>12, <1>13 DEF Stored

LEMMA EventAdded ==
  ASSUME Scheduled, NEW c \in BOOLEAN, NEW q \in Queues, NEW T, NEW A, NEW I, NEW R, NEW s,
         Tokens(c, T, I, R, A, q, s), q[1] = "native", NEW i \in DOMAIN Prog(c, q),
         Prog(c, q)[i].op = "wait", AllIn(c, R, q[2], Prog(c, q)[i].launch)
  PROVE  Tokens(c, T, I, R, A, q, Append(s, [tag |-> Prog(c, q)[i].event, age |-> 0]))
<1> DEFINE e == [tag |-> Prog(c, q)[i].event, age |-> 0]
           r == Append(s, e)
<1>1. s \in Seq(ToSet(s)) /\ Len(s) \in Nat
  <2>1. s \in Seq(ToSet(s))
    BY DEF Tokens
  <2> QED
    BY <2>1
<1>2. /\ Len(r) = Len(s) + 1 /\ r[Len(s) + 1] = e /\ \A j \in 1 .. Len(s) : r[j] = s[j]
      /\ r \in Seq(ToSet(s) \cup {e})
  BY <1>1
<1>3. e.tag = Prog(c, q)[i].event /\ EventToken(c, R, q, e)
  <2>1. PICK t : t = e
    OBVIOUS
  <2>2. t.age = 0 /\ t.tag = Prog(c, q)[i].event /\ t = [tag |-> Prog(c, q)[i].event, age |-> t.age]
    BY <2>1
  <2>3. EventToken(c, R, q, t)
    BY <2>2 DEF EventToken
  <2> QED
    BY <2>1, <2>2, <2>3
<1> HIDE DEF r, e
<1>4. r \in Seq(ToSet(r))
  <2>1. \A j \in 1 .. Len(r) : r[j] \in ToSet(r)
    BY <1>2 DEF ToSet
  <2> QED
    BY <1>2, <2>1
<1>5. \A j \in 1 .. Len(r) : j \in 1 .. Len(s) \/ j = Len(s) + 1
  BY <1>1, <1>2
<1>6. /\ \A j \in 1 .. Len(s) :
           (\E y \in T \ I : y[1][1] = q /\ s[j] = TokenOf(c, A, y)) \/ EventToken(c, R, q, s[j])
      /\ \A y \in T \ I : y[1][1] = q => \E j \in 1 .. Len(s) : s[j] = TokenOf(c, A, y)
      /\ \A k \in PacketTable[c] : k[1] = q =>
           \A m, n \in 1 .. Len(s) :
             m < n /\ s[m].tag = Entry(c, k).tag /\ s[n].tag = Entry(c, k).tag => s[m].age > s[n].age
  BY DEF Tokens
<1>7. \A j \in 1 .. Len(r) :
        (\E y \in T \ I : y[1][1] = q /\ r[j] = TokenOf(c, A, y)) \/ EventToken(c, R, q, r[j])
  <2> TAKE j \in 1 .. Len(r)
  <2>1. CASE j \in 1 .. Len(s)
    <3>1. r[j] = s[j]
      BY <1>2, <2>1
    <3> QED
      BY <1>6, <2>1, <3>1
  <2>2. CASE j = Len(s) + 1
    BY <1>2, <1>3, <2>2
  <2> QED
    BY <1>5, <2>1, <2>2
<1>8. \A y \in T \ I : y[1][1] = q => \E j \in 1 .. Len(r) : r[j] = TokenOf(c, A, y)
  <2> TAKE y \in T \ I
  <2> HAVE y[1][1] = q
  <2>1. PICK j \in 1 .. Len(s) : s[j] = TokenOf(c, A, y)
    BY <1>6
  <2>2. j \in 1 .. Len(r) /\ r[j] = s[j]
    BY <1>1, <1>2
  <2> QED
    BY <2>1, <2>2
<1>9. ASSUME NEW k \in PacketTable[c], k[1] = q, NEW m \in 1 .. Len(r), NEW n \in 1 .. Len(r),
             m < n, r[m].tag = Entry(c, k).tag, r[n].tag = Entry(c, k).tag
      PROVE  r[m].age > r[n].age
  <2>1. Entry(c, k).tag # e.tag
    BY <1>3, <1>9, EventTag DEF BankOf
  <2>2. n \in 1 .. Len(s) /\ m \in 1 .. Len(s)
    BY <1>2, <1>5, <1>9, <2>1
  <2>3. r[m] = s[m] /\ r[n] = s[n]
    BY <1>2, <2>2
  <2>4. \A a, b \in 1 .. Len(s) :
          a < b /\ s[a].tag = Entry(c, k).tag /\ s[b].tag = Entry(c, k).tag => s[a].age > s[b].age
    BY <1>6, <1>9
  <2> QED
    BY <1>9, <2>2, <2>3, <2>4
<1>10. Tokens(c, T, I, R, A, q, r)
  BY <1>4, <1>7, <1>8, <1>9 DEF Tokens
<1> QED
  BY <1>10 DEF r, e

----------------------------------------------------------------------------
(* The invariant.  T are the vectors taken from DDR and A how many cycles   *)
(* ago: a vector of age a is at the tile t of its pipeline if a = t, in the *)
(* register j columns from the edge if a = t + j, and written on the tile   *)
(* if a is the delay of its packet + t + 1 or more; counted from Dispatch,  *)
(* which begins a cycle for the vectors.                                    *)

Core(c, T, A) ==
  /\ barriers = c /\ held \in BOOLEAN /\ fault = "none" /\ AgesOK(c, T, A)
  /\ LanesOK(c, T, receive, received, popped) /\ DOMAIN tokens = Queues /\ QueuesOK(c, T, A)

Banked(c, T, A, s) ==
  /\ SlotsOK(c, Written(c, T, A, s), Slotted(c, T, A, s), s, slots)
  /\ MemoryOK(c, Written(c, T, A, s), sram) /\ CountsOK(c, Written(c, T, A, s), committed)

Streamed(c, T, A, k, p) == CellsOK(c, Flying(c, T, A, k), cells) /\ PipeOK(c, Piped(T, A, p), pipe)

Aged(T, A) == \A y \in T : A[y] >= 1

AtRuntime(c, T, A) ==
  stage \in {"runtime", "dispatch"} /\ Core(c, T, A) /\ Banked(c, T, A, 0) /\ Streamed(c, T, A, 0, 0)

AtMem(c, T, A) ==
  stage = "mem" /\ Core(c, T, A) /\ Aged(T, A) /\ Banked(c, T, A, 1) /\ Streamed(c, T, A, 1, 1)

AtC2c(c, T, A) ==
  /\ stage = "c2c" /\ Core(c, T, A) /\ Aged(T, A) /\ Banked(c, T, A, 0) /\ Streamed(c, T, A, 1, 1)
  /\ ReadsStaged(c, staged) /\ ConsumedOK(c, Flying(c, T, A, 1), consumed)

AtCommit(c, T, A) ==
  /\ stage = "commit" /\ Core(c, T, A) /\ Banked(c, T, A, 0) /\ Streamed(c, T, A, 1, 0)
  /\ AllStaged(c, Piped(T, A, 0), staged) /\ ConsumedOK(c, Flying(c, T, A, 1), consumed)

Holds(c, T, A) == AtRuntime(c, T, A) \/ AtMem(c, T, A) \/ AtC2c(c, T, A) \/ AtCommit(c, T, A)

PageInv == \E c \in BOOLEAN : \E T, A : Holds(c, T, A)

LEMMA NothingWritten ==
  ASSUME NEW c, NEW A, NEW s
  PROVE  /\ Written(c, {}, A, s) = {} /\ Slotted(c, {}, A, s) = {} /\ Flying(c, {}, A, s) = {}
         /\ Piped({}, A, s) = {}
BY DEF Written, Slotted, Flying, Piped

LEMMA QueuePrimed ==
  ASSUME Scheduled, NEW c \in BOOLEAN, NEW A, NEW q \in Queues, NEW x,
         x.fetched = Least({IqDepth, Len(Wordings(c, q))}),
         x.iq = SubSeq(Wordings(c, q), 1, x.fetched), x.pending = <<>>, x.active = Idle, x.tokens = <<>>
  PROVE  QueueOK(c, {}, Sent(c, {}, A, 2), Stored(c, {}, A), A, q, x)
<1> DEFINE W == Wordings(c, q)
           p == Prog(c, q)
<1>1. W \in Seq(Nat) /\ Len(W) \in Nat /\ Len(p) \in Nat
  BY WordsFacts, ProgramType
<1>2. IqDepth \in Nat /\ IqDepth > 1
  BY TransportAssumption
<1>3. Begin(p, 1) = 0
  BY <1>1, BeginFacts
<1> HIDE DEF W, p
<1>4. x.fetched \in {IqDepth, Len(W)} /\ x.fetched <= IqDepth /\ x.fetched <= Len(W)
  <2> DEFINE S == {IqDepth, Len(W)}
  <2>1. S \subseteq Nat /\ S # {}
    BY <1>1, <1>2
  <2>2. x.fetched = CHOOSE n \in S : \A m \in S : n <= m
    BY DEF Least, W
  <2> HIDE DEF S
  <2>3. \E n \in S : \A m \in S : n <= m
    BY <2>1, Minimum
  <2>4. x.fetched \in S /\ \A m \in S : x.fetched <= m
    BY <2>2, <2>3
  <2> QED
    BY <2>4 DEF S
<1>5. x.fetched \in Nat
  BY <1>1, <1>2, <1>4
<1>6. Fetching(c, q, x, Begin(p, 1))
  <2>1. Len(x.pending) = 0
    OBVIOUS
  <2>2. x.fetched - Len(x.pending) = x.fetched /\ 0 + 1 = 1
    BY <1>5, <2>1
  <2>3. x.iq = SubSeq(W, 1, x.fetched)
    BY DEF W
  <2>4. x.iq = SubSeq(W, 0 + 1, x.fetched - Len(x.pending))
    BY <2>2, <2>3, Zenon
  <2>5. /\ x.pending \in {<<>>, <<0>>} /\ x.fetched - Len(x.pending) \in Nat /\ 0 \in Nat
        /\ 0 <= x.fetched - Len(x.pending)
    BY <1>5, <2>2
  <2>6. /\ Begin(p, 1) \in Nat /\ Begin(p, 1) <= x.fetched - Len(x.pending)
        /\ x.iq = SubSeq(W, Begin(p, 1) + 1, x.fetched - Len(x.pending))
    BY <1>3, <2>4, <2>5, Zenon
  <2> QED
    BY <1>4, <1>5, <2>5, <2>6, Zenon DEF Fetching, W
<1>7. Supplied(c, q, x)
  <2>1. CASE x.fetched = Len(W)
    BY <2>1 DEF Supplied, W
  <2>2. CASE x.fetched = IqDepth
    <3>1. x.iq = SubSeq(W, 1, x.fetched) /\ x.fetched <= Len(W)
      BY <1>4 DEF W
    <3>2. Len(x.iq) = x.fetched
      BY <1>1, <1>5, <3>1
    <3>3. Len(x.iq) >= 2
      BY <1>2, <2>2, <3>2
    <3>4. Len(<<>>) = 0
      OBVIOUS
    <3>5. Len(x.iq) # 0
      BY <1>2, <2>2, <3>2
    <3>6. x.iq # <<>>
      BY <3>4, <3>5, Zenon
    <3> QED
      BY <3>3, <3>6 DEF Supplied
  <2> QED
    BY <1>4, <2>1, <2>2
<1>8. Progress(c, {}, Sent(c, {}, A, 2), A, q, x, 1)
  <2>1. \A y \in Items(c) : y[1][1] = q => ~(y[1][2] < 1)
    <3> TAKE y \in Items(c)
    <3> HAVE y[1][1] = q
    <3>1. y[1][2] \in 1 .. Len(p)
      BY SameQueue DEF p
    <3> QED
      BY <1>1, <3>1
  <2>2. 1 \in 1 .. Len(p) + 1
    BY <1>1
  <2> QED
    BY <2>1, <2>2 DEF Progress, p
<1>9. Waits(c, Stored(c, {}, A), q, 1)
  BY DEF Waits
<1>10. Tokens(c, {}, Sent(c, {}, A, 2), Stored(c, {}, A), A, q, x.tokens)
  <2>1. PICK s : s = x.tokens
    OBVIOUS
  <2>2. s = <<>> /\ Len(s) = 0 /\ s \in Seq(ToSet(s))
    BY <2>1
  <2>3. Tokens(c, {}, Sent(c, {}, A, 2), Stored(c, {}, A), A, q, s)
    BY <2>2 DEF Tokens
  <2> QED
    BY <2>1, <2>3
<1> QED
  BY <1>6, <1>7, <1>8, <1>9, <1>10 DEF QueueOK, p

LEMMA LanesBegin ==
  ASSUME Scheduled, NEW c \in BOOLEAN, NEW r, NEW n, NEW v, r = [l \in Lanes |-> 1], n = [l \in Lanes |-> 0],
         v = [l \in Lanes |-> 0]
  PROVE  LanesOK(c, {}, r, n, v)
<1>1. ASSUME NEW l \in Lanes PROVE LaneAt(l, r[l], n[l], v[l])
  <2>1. Len(Receives[l]) \in Nat
    BY ReceiveType
  <2>2. VectorsBefore(l, 1) = 0
    <3>1. UNION {{j} \X (1 .. Receives[l][j].count) : j \in 1 .. 1 - 1} = {}
      OBVIOUS
    <3> QED
      BY <3>1, FS_EmptySet DEF VectorsBefore
  <2>3. 1 \in 1 .. Len(Receives[l]) => 0 < Receives[l][1].count
    BY ReceiveType
  <2> QED
    BY <2>1, <2>2, <2>3 DEF LaneAt
<1>2. ASSUME NEW x \in Items(c) PROVE ~Came(c, x, r, n)
  <2>1. PICK l \in Lanes : l = Lane(c, x)
    BY ItemLane
  <2>2. r[l] = 1 /\ n[l] = 0
    OBVIOUS
  <2>3. ~(IndexOf(c, x[1]) < 1) /\ ~(x[2] <= 0)
    BY ItemLane
  <2> QED
    BY <2>1, <2>2, <2>3 DEF Came
<1> QED
  BY <1>1, <1>2 DEF LanesOK

LEMMA PageInit ==
  ASSUME Scheduled, Init
  PROVE  PageInv
<1>1. PICK c \in BOOLEAN : c = barriers
  BY DEF Init
<1>2. PICK A : A = [x \in Items(c) |-> 0]
  OBVIOUS
<1>3. /\ held = FALSE /\ fault = "none" /\ stage = "runtime"
      /\ fetched = [q \in Queues |-> Least({IqDepth, Len(Words(q))})]
      /\ iq = [q \in Queues |-> SubSeq(Words(q), 1, fetched[q])]
      /\ pending = [q \in Queues |-> <<>>] /\ active = [q \in Queues |-> Idle]
      /\ tokens = [q \in Queues |-> <<>>] /\ slots = {}
      /\ sram = [b \in Banks |-> [x \in Rows \X (1 .. Tiles) |-> None]]
      /\ committed = [x \in Launches \X Banks |-> 0] /\ popped = [l \in Lanes |-> 0]
      /\ receive = [l \in Lanes |-> 1] /\ received = [l \in Lanes |-> 0]
      /\ pipe = {} /\ cells = {}
  BY DEF Init
<1>4. AgesOK(c, {}, A)
  BY <1>2 DEF AgesOK
<1>5. LanesOK(c, {}, receive, received, popped)
  BY <1>3, LanesBegin
<1>6. QueuesOK(c, {}, A)
  <2>1. ASSUME NEW q \in Queues
        PROVE  QueueOK(c, {}, Sent(c, {}, A, 2), Stored(c, {}, A), A, q, QueueAt(q))
    <3>1. PICK x : x = QueueAt(q)
      OBVIOUS
    <3>2. x = [fetched |-> fetched[q], pending |-> pending[q], iq |-> iq[q],
               active |-> active[q], tokens |-> tokens[q], out |-> None]
      BY <3>1 DEF QueueAt
    <3>3. x.fetched = fetched[q] /\ x.pending = <<>> /\ x.iq = iq[q] /\ x.active = Idle /\ x.tokens = <<>>
      BY <1>3, <3>2
    <3>4. Words(q) = Wordings(c, q)
      BY <1>1 DEF Words, Wordings
    <3>5. x.fetched = Least({IqDepth, Len(Wordings(c, q))}) /\ x.iq = SubSeq(Wordings(c, q), 1, x.fetched)
      BY <1>3, <3>3, <3>4
    <3>6. QueueOK(c, {}, Sent(c, {}, A, 2), Stored(c, {}, A), A, q, x)
      BY <3>3, <3>5, QueuePrimed
    <3> QED
      BY <3>1, <3>6
  <2> QED
    BY <2>1 DEF QueuesOK
<1>7. Core(c, {}, A)
  BY <1>1, <1>3, <1>4, <1>5, <1>6 DEF Core
<1>8. Banked(c, {}, A, 0)
  <2>1. SlotsOK(c, {}, {}, 0, slots)
    BY <1>3 DEF SlotsOK, ReadsApart
  <2>2. MemoryOK(c, {}, sram)
    <3>1. \A x \in Items(c) : Bank(x) \in Banks /\ Row(c, x) \in Rows
      BY ItemFacts
    <3> QED
      BY <1>3, <3>1 DEF MemoryOK
  <2>3. CountsOK(c, {}, committed)
    <3>1. \A k \in PacketTable[c] : Segments(c, {}, k) = {}
      BY DEF Segments
    <3>2. \A k \in PacketTable[c] : Entry(c, k).launch \in Launches /\ BankOf(k) \in Banks
      BY PacketFacts
    <3>3. Cardinality({}) = 0
      BY FS_EmptySet
    <3> QED
      BY <1>3, <3>1, <3>2, <3>3 DEF CountsOK
  <2> QED
    BY <2>1, <2>2, <2>3, NothingWritten DEF Banked
<1>9. Streamed(c, {}, A, 0, 0)
  <2>1. CellsOK(c, {}, cells) /\ PipeOK(c, {}, pipe)
    BY <1>3 DEF CellsOK, PipeOK
  <2> QED
    BY <2>1, NothingWritten DEF Streamed
<1>10. AtRuntime(c, {}, A)
  BY <1>3, <1>7, <1>8, <1>9 DEF AtRuntime
<1> QED
  BY <1>10 DEF PageInv, Holds

LEMMA QueuesKept ==
  ASSUME NEW c, NEW T, NEW A, QueuesOK(c, T, A), UNCHANGED <<fetched, pending, iq, active, tokens>>
  PROVE  QueuesOK(c, T, A)'
<1>1. \A q : QueueAt(q)' = QueueAt(q)
  BY DEF QueueAt
<1> QED
  BY <1>1 DEF QueuesOK

LEMMA BeginCycleKeeps ==
  ASSUME Scheduled, PageInv, NEW h \in BOOLEAN, NEW X, BeginCycle(h, X)
  PROVE  PageInv'
<1>1. PICK c \in BOOLEAN : \E T, A : Holds(c, T, A)
  BY DEF PageInv
<1>2. PICK T, A : Holds(c, T, A)
  BY <1>1
<1>3. /\ stage = "runtime" /\ held' = h /\ stage' = "dispatch"
      /\ UNCHANGED <<barriers, fetched, pending, iq, active, tokens, slots, sram, committed,
                     popped, receive, received, pipe, cells, fault>>
  BY DEF BeginCycle, Running, queueVars, memVars, laneVars, streamVars
<1>4. Core(c, T, A) /\ Banked(c, T, A, 0) /\ Streamed(c, T, A, 0, 0)
  BY <1>2, <1>3 DEF Holds, AtRuntime, AtMem, AtC2c, AtCommit
<1>5. QueuesOK(c, T, A)'
  BY <1>3, <1>4, QueuesKept DEF Core
<1>6. Core(c, T, A)'
  BY <1>3, <1>4, <1>5 DEF Core
<1>7. Banked(c, T, A, 0)' /\ Streamed(c, T, A, 0, 0)'
  BY <1>3, <1>4 DEF Banked, Streamed
<1>8. AtRuntime(c, T, A)'
  BY <1>3, <1>6, <1>7 DEF AtRuntime
<1> QED
  BY <1>8 DEF PageInv, Holds

LEMMA DispatchKeepsInv ==
  ASSUME Scheduled, PageInv, Dispatch
  PROVE  PageInv'
<1>1. PICK c \in BOOLEAN : \E T, A : Holds(c, T, A)
  BY DEF PageInv
<1>2. PICK T, A : Holds(c, T, A)
  BY <1>1
<1>3. /\ stage = "dispatch" /\ stage' = "mem" /\ DOMAIN tokens' = Queues
      /\ UNCHANGED <<barriers, held, sram, committed, popped, receive, received, pipe, cells>>
  BY DEF Dispatch, Running, laneVars, streamVars
<1>4. Core(c, T, A) /\ Banked(c, T, A, 0) /\ Streamed(c, T, A, 0, 0)
  BY <1>2, <1>3 DEF Holds, AtRuntime, AtMem, AtC2c, AtCommit
<1>5. /\ barriers = c /\ held \in BOOLEAN /\ AgesOK(c, T, A) /\ fault = "none"
      /\ LanesOK(c, T, receive, received, popped) /\ QueuesOK(c, T, A)
  BY <1>4 DEF Core
<1>6. /\ SlotsOK(c, Written(c, T, A, 0), Slotted(c, T, A, 0), 0, slots)
      /\ MemoryOK(c, Written(c, T, A, 0), sram) /\ CountsOK(c, Written(c, T, A, 0), committed)
      /\ CellsOK(c, Flying(c, T, A, 0), cells) /\ PipeOK(c, Piped(T, A, 0), pipe)
  BY <1>4 DEF Banked, Streamed
<1>7. PICK B : B = Older(c, T, A)
  OBVIOUS
<1>8. /\ fault' = fault
      /\ \A q \in Queues : QueueOK(c, T, Sent(c, T, B, 2), Stored(c, T, B), B, q, QueueAt(q)')
      /\ SlotsOK(c, Written(c, T, B, 1), Slotted(c, T, B, 1), 1, slots')
  BY <1>5, <1>6, <1>7, Dispatches DEF QueuesOK
<1>9. /\ Written(c, T, B, 1) = Written(c, T, A, 0) /\ Flying(c, T, B, 1) = Flying(c, T, A, 0)
      /\ Piped(T, B, 1) = Piped(T, A, 0)
  BY <1>5, <1>7, OlderSets
<1>10. AgesOK(c, T, B) /\ Aged(T, B)
  BY <1>5, <1>7, OlderFacts DEF Aged
<1>11. QueuesOK(c, T, B)'
  BY <1>8 DEF QueuesOK
<1>12. Core(c, T, B)'
  BY <1>3, <1>5, <1>8, <1>10, <1>11 DEF Core
<1>13. Banked(c, T, B, 1)'
  BY <1>3, <1>6, <1>8, <1>9 DEF Banked
<1>14. Streamed(c, T, B, 1, 1)'
  BY <1>3, <1>6, <1>9 DEF Streamed
<1>15. AtMem(c, T, B)'
  BY <1>3, <1>10, <1>12, <1>13, <1>14 DEF AtMem
<1> QED
  BY <1>15 DEF PageInv, Holds

LEMMA EvaluateMemKeeps ==
  ASSUME Scheduled, PageInv, EvaluateMem
  PROVE  PageInv'
<1>1. PICK c \in BOOLEAN : \E T, A : Holds(c, T, A)
  BY DEF PageInv
<1>2. PICK T, A : Holds(c, T, A)
  BY <1>1
<1>3. /\ stage = "mem" /\ stage' = "c2c"
      /\ UNCHANGED <<barriers, held, fetched, pending, iq, active, tokens, popped, receive, received, pipe, cells>>
      /\ slots' = Onward(slots) /\ staged' = {ReadOut(d) : d \in Reads}
      /\ consumed' = UNION {Source(s) : s \in Writes}
      /\ fault' = (IF \E s \in Writes : Source(s) = {} THEN "no payload"
                   ELSE IF Good # Writes THEN "computation data" ELSE fault)
  BY DEF EvaluateMem, Running, queueVars, laneVars, Onward, ReadOut
<1>4. Core(c, T, A) /\ Aged(T, A) /\ Banked(c, T, A, 1) /\ Streamed(c, T, A, 1, 1)
  BY <1>2, <1>3 DEF Holds, AtRuntime, AtMem, AtC2c, AtCommit
<1>5. /\ barriers = c /\ held \in BOOLEAN /\ AgesOK(c, T, A) /\ fault = "none"
      /\ LanesOK(c, T, receive, received, popped) /\ QueuesOK(c, T, A) /\ DOMAIN tokens = Queues
  BY <1>4 DEF Core
<1>6. /\ SlotsOK(c, Written(c, T, A, 1), Slotted(c, T, A, 1), 1, slots)
      /\ MemoryOK(c, Written(c, T, A, 1), sram) /\ CountsOK(c, Written(c, T, A, 1), committed)
      /\ CellsOK(c, Flying(c, T, A, 1), cells) /\ PipeOK(c, Piped(T, A, 1), pipe)
  BY <1>4 DEF Banked, Streamed
<1>7. /\ ~\E s \in Writes : Source(s) = {}
      /\ Good = Writes
      /\ ConsumedOK(c, Flying(c, T, A, 1), UNION {Source(s) : s \in Writes})
  BY <1>5, <1>6, PayloadsMet
<1>8. MemoryOK(c, Written(c, T, A, 0), sram') /\ CountsOK(c, Written(c, T, A, 0), committed')
  BY <1>5, <1>6, MemoryWritten, CountsKept
<1>9. SlotsOK(c, Written(c, T, A, 0), Slotted(c, T, A, 0), 0, slots')
  BY <1>3, <1>5, <1>6, SlotsOnward
<1>10. ReadsStaged(c, staged')
  BY <1>3, <1>6, ReadsGoOut
<1>11. QueuesOK(c, T, A)'
  BY <1>3, <1>5, QueuesKept
<1>12. fault' = "none"
  BY <1>3, <1>5, <1>7
<1>13. Core(c, T, A)'
  BY <1>3, <1>5, <1>11, <1>12 DEF Core
<1>14. Banked(c, T, A, 0)' /\ Streamed(c, T, A, 1, 1)'
  BY <1>3, <1>6, <1>8, <1>9 DEF Banked, Streamed
<1>15. AtC2c(c, T, A)'
  BY <1>3, <1>4, <1>7, <1>10, <1>13, <1>14 DEF AtC2c, Aged
<1> QED
  BY <1>15 DEF PageInv, Holds

LEMMA EvaluateC2cKeeps ==
  ASSUME Scheduled, PageInv, EvaluateC2c
  PROVE  PageInv'
<1>1. PICK c \in BOOLEAN : \E T, A : Holds(c, T, A)
  BY DEF PageInv
<1>2. PICK T, A : Holds(c, T, A)
  BY <1>1
<1>3. /\ stage = "c2c" /\ stage' = "commit"
      /\ UNCHANGED <<barriers, held, fetched, pending, iq, active, slots, sram, committed, cells, consumed, fault>>
      /\ tokens' = [q \in Queues |-> tokens[q] \o TokensTold(q)]
  BY DEF EvaluateC2c, Running, queueVars, memVars, TokensTold
<1>4. /\ Core(c, T, A) /\ Aged(T, A) /\ Banked(c, T, A, 0) /\ Streamed(c, T, A, 1, 1)
      /\ ReadsStaged(c, staged) /\ ConsumedOK(c, Flying(c, T, A, 1), consumed)
  BY <1>2, <1>3 DEF Holds, AtRuntime, AtMem, AtC2c, AtCommit
<1>5. /\ barriers = c /\ held \in BOOLEAN /\ AgesOK(c, T, A) /\ fault = "none" /\ T \subseteq Items(c)
      /\ LanesOK(c, T, receive, received, popped) /\ QueuesOK(c, T, A) /\ \A y \in T : A[y] >= 1
  BY <1>4 DEF Core, Aged, AgesOK
<1>6. /\ SlotsOK(c, Written(c, T, A, 0), Slotted(c, T, A, 0), 0, slots)
      /\ MemoryOK(c, Written(c, T, A, 0), sram) /\ CountsOK(c, Written(c, T, A, 0), committed)
      /\ CellsOK(c, Flying(c, T, A, 1), cells) /\ PipeOK(c, Piped(T, A, 1), pipe)
  BY <1>4 DEF Banked, Streamed
<1>7. PICK U : U = T \cup Taken(c)
  OBVIOUS
<1>8. AgesOK(c, U, A) /\ \A x \in Taken(c) : A[x] = 0
  BY <1>5, <1>7, AgesTaken
<1>9. /\ Written(c, U, A, 0) = Written(c, T, A, 0) /\ Slotted(c, U, A, 0) = Slotted(c, T, A, 0)
      /\ Flying(c, U, A, 1) = Flying(c, T, A, 1) /\ Stored(c, U, A) = Stored(c, T, A)
      /\ Sent(c, U, A, 2) = Sent(c, T, A, 2)
  <2>1. AgesOK(c, T \cup Taken(c), A)
    BY <1>7, <1>8
  <2>3. AgesOK(c, T, A) /\ \A x \in T : A[x] >= 1
    BY <1>5
  <2>2. /\ Written(c, T \cup Taken(c), A, 0) = Written(c, T, A, 0)
        /\ Slotted(c, T \cup Taken(c), A, 0) = Slotted(c, T, A, 0)
        /\ Flying(c, T \cup Taken(c), A, 1) = Flying(c, T, A, 1)
        /\ Stored(c, T \cup Taken(c), A) = Stored(c, T, A)
        /\ Sent(c, T \cup Taken(c), A, 2) = Sent(c, T, A, 2)
    <3>1. PICK N : N = Taken(c)
      OBVIOUS
    <3>2. AgesOK(c, T \cup N, A) /\ \A y \in N : A[y] = 0
      BY <1>8, <2>1, <3>1
    <3>3. /\ Written(c, T \cup N, A, 0) = Written(c, T, A, 0)
          /\ Slotted(c, T \cup N, A, 0) = Slotted(c, T, A, 0)
          /\ Flying(c, T \cup N, A, 1) = Flying(c, T, A, 1)
          /\ Stored(c, T \cup N, A) = Stored(c, T, A)
          /\ Sent(c, T \cup N, A, 2) = Sent(c, T, A, 2)
      BY <2>3, <3>2, TakenSets
    <3> QED
      BY <3>1, <3>3
  <2> QED
    BY <1>7, <2>2
<1>10. LanesOK(c, U, receive', received', popped')
  BY <1>5, <1>7, LanesGoOn
<1>11. PipeOK(c, Piped(U, A, 0), pipe') /\ AllStaged(c, Piped(U, A, 0), staged')
  BY <1>4, <1>5, <1>6, <1>7, PipesGoOn
<1>12. ASSUME NEW q \in Queues
       PROVE  QueueOK(c, U, Sent(c, U, A, 2), Stored(c, U, A), A, q, QueueAt(q)')
  <2>1. PICK y : y = QueueAt(q)'
    OBVIOUS
  <2>2. y = [fetched |-> fetched'[q], pending |-> pending'[q], iq |-> iq'[q],
             active |-> active'[q], tokens |-> tokens'[q], out |-> None]
    BY <2>1 DEF QueueAt
  <2>3. tokens'[q] = tokens[q] \o TokensTold(q)
    BY <1>3
  <2>4. /\ y.fetched = fetched[q] /\ y.pending = pending[q] /\ y.iq = iq[q] /\ y.active = active[q]
        /\ y.tokens = tokens[q] \o TokensTold(q)
    BY <1>3, <2>2, <2>3
  <2>5. QueueOK(c, T \cup Taken(c), Sent(c, T, A, 2), Stored(c, T, A), A, q, y)
    BY <1>5, <2>4, QueueTold
  <2> QED
    BY <1>7, <1>9, <2>1, <2>5
<1>13. QueuesOK(c, U, A)'
  BY <1>12 DEF QueuesOK
<1>14. DOMAIN tokens' = Queues
  BY <1>3
<1>15. Core(c, U, A)'
  BY <1>3, <1>5, <1>8, <1>10, <1>13, <1>14 DEF Core
<1>16. Banked(c, U, A, 0)' /\ Streamed(c, U, A, 1, 0)'
  BY <1>3, <1>6, <1>9, <1>11 DEF Banked, Streamed
<1>17. AtCommit(c, U, A)'
  BY <1>3, <1>4, <1>9, <1>11, <1>15, <1>16 DEF AtCommit
<1> QED
  BY <1>17 DEF PageInv, Holds

LEMMA CommitKeeps ==
  ASSUME Scheduled, PageInv, Commit
  PROVE  PageInv'
<1>1. PICK c \in BOOLEAN : \E T, A : Holds(c, T, A)
  BY DEF PageInv
<1>2. PICK T, A : Holds(c, T, A)
  BY <1>1
<1>3. /\ stage = "commit" /\ stage' = "runtime"
      /\ UNCHANGED <<barriers, held, fetched, pending, iq, active, tokens, slots, sram, committed,
                     popped, receive, received, pipe>>
      /\ cells' = staged \cup MovedOn(cells, consumed)
      /\ fault' = (IF \/ \E d \in MovedOn(cells, consumed), e \in staged : SamePlace(d, e)
                      \/ \E d, e \in staged : d # e /\ SamePlace(d, e)
                   THEN "collision" ELSE fault)
  BY DEF Commit, Running, queueVars, memVars, laneVars, MovedOn
<1>4. /\ Core(c, T, A) /\ Banked(c, T, A, 0) /\ Streamed(c, T, A, 1, 0)
      /\ AllStaged(c, Piped(T, A, 0), staged) /\ ConsumedOK(c, Flying(c, T, A, 1), consumed)
  BY <1>2, <1>3 DEF Holds, AtRuntime, AtMem, AtC2c, AtCommit
<1>5. /\ barriers = c /\ held \in BOOLEAN /\ AgesOK(c, T, A) /\ fault = "none"
      /\ LanesOK(c, T, receive, received, popped) /\ QueuesOK(c, T, A) /\ DOMAIN tokens = Queues
  BY <1>4 DEF Core
<1>6. CellsOK(c, Flying(c, T, A, 1), cells) /\ PipeOK(c, Piped(T, A, 0), pipe)
  BY <1>4 DEF Streamed
<1>7. /\ CellsOK(c, Flying(c, T, A, 0), staged \cup MovedOn(cells, consumed))
      /\ ~\E d \in MovedOn(cells, consumed), e \in staged : SamePlace(d, e)
      /\ ~\E d, e \in staged : d # e /\ SamePlace(d, e)
  BY <1>4, <1>5, <1>6, StreamsMoved
<1>8. fault' = "none"
  BY <1>3, <1>5, <1>7
<1>9. QueuesOK(c, T, A)'
  BY <1>3, <1>5, QueuesKept
<1>10. Core(c, T, A)'
  BY <1>3, <1>5, <1>8, <1>9 DEF Core
<1>11. Banked(c, T, A, 0)' /\ Streamed(c, T, A, 0, 0)'
  BY <1>3, <1>4, <1>6, <1>7 DEF Banked, Streamed
<1>12. AtRuntime(c, T, A)'
  BY <1>3, <1>10, <1>11 DEF AtRuntime
<1> QED
  BY <1>12 DEF PageInv, Holds

LEMMA NotifyKeeps ==
  ASSUME Scheduled, PageInv, NEW b \in Banks, NEW l, Notify(b, l)
  PROVE  PageInv'
<1>1. PICK c \in BOOLEAN : \E T, A : Holds(c, T, A)
  BY DEF PageInv
<1>2. PICK T, A : Holds(c, T, A)
  BY <1>1
<1> DEFINE p == <<"native", b>>
<1>3. /\ stage = "runtime" /\ Complete(l) /\ stage' = stage
      /\ UNCHANGED <<barriers, held, fetched, pending, iq, active, slots, sram, committed,
                     popped, receive, received, pipe, cells, fault>>
  BY DEF Notify, Running, queueVars, memVars, laneVars, streamVars
<1>4. PICK i \in DOMAIN Program(p) :
        /\ Program(p)[i].op = "wait" /\ Program(p)[i].launch = l
        /\ tokens' = [tokens EXCEPT ![p] = Append(@, [tag |-> Program(p)[i].event, age |-> 0])]
  BY DEF Notify
<1>5. Core(c, T, A) /\ Banked(c, T, A, 0) /\ Streamed(c, T, A, 0, 0)
  BY <1>2, <1>3 DEF Holds, AtRuntime, AtMem, AtC2c, AtCommit
<1>6. /\ barriers = c /\ held \in BOOLEAN /\ AgesOK(c, T, A) /\ fault = "none"
      /\ LanesOK(c, T, receive, received, popped) /\ QueuesOK(c, T, A) /\ DOMAIN tokens = Queues
  BY <1>5 DEF Core
<1>7. p \in Queues /\ p[1] = "native" /\ p[2] = b
  BY DEF Queues, Stores
<1> HIDE DEF p
<1>8. Program(p) = Prog(c, p)
  BY <1>6 DEF Program, Prog
<1>9. AllIn(c, Stored(c, T, A), b, l)
  BY <1>3, <1>5, <1>6, CompleteIsStored DEF Banked
<1>10. ASSUME NEW q \in Queues
       PROVE  QueueOK(c, T, Sent(c, T, A, 2), Stored(c, T, A), A, q, QueueAt(q)')
  <2>1. PICK x, y : x = QueueAt(q) /\ y = QueueAt(q)'
    OBVIOUS
  <2>2. /\ x = [fetched |-> fetched[q], pending |-> pending[q], iq |-> iq[q],
                active |-> active[q], tokens |-> tokens[q], out |-> None]
        /\ y = [fetched |-> fetched'[q], pending |-> pending'[q], iq |-> iq'[q],
                active |-> active'[q], tokens |-> tokens'[q], out |-> None]
    BY <2>1 DEF QueueAt
  <2>3. /\ y.fetched = x.fetched /\ y.pending = x.pending /\ y.iq = x.iq /\ y.active = x.active
        /\ y.tokens = tokens'[q] /\ x.tokens = tokens[q]
    BY <1>3, <2>2
  <2>4. QueueOK(c, T, Sent(c, T, A, 2), Stored(c, T, A), A, q, x)
    BY <1>6, <2>1 DEF QueuesOK
  <2>5. CASE q # p
    <3>1. tokens'[q] = tokens[q]
      BY <1>4, <1>6, <2>5
    <3> QED
      BY <2>1, <2>3, <2>4, <3>1, QueueSame
  <2>6. CASE q = p
    <3>1. tokens'[q] = Append(tokens[q], [tag |-> Prog(c, q)[i].event, age |-> 0])
      BY <1>4, <1>6, <1>8, <2>6
    <3>2. PICK j \in Nat : /\ Fetching(c, q, x, Begin(Prog(c, q), j)) /\ Supplied(c, q, x)
                           /\ Progress(c, T, Sent(c, T, A, 2), A, q, x, j) /\ Waits(c, Stored(c, T, A), q, j)
                           /\ Tokens(c, T, Sent(c, T, A, 2), Stored(c, T, A), A, q, x.tokens)
      BY <2>4 DEF QueueOK
    <3>3. Fetching(c, q, y, Begin(Prog(c, q), j)) /\ Supplied(c, q, y)
          /\ Progress(c, T, Sent(c, T, A, 2), A, q, y, j)
      BY <2>3, <3>2 DEF Fetching, Supplied, Progress
    <3>4. i \in DOMAIN Prog(c, q) /\ Prog(c, q)[i].op = "wait" /\ q[1] = "native"
          /\ AllIn(c, Stored(c, T, A), q[2], Prog(c, q)[i].launch)
      BY <1>4, <1>7, <1>8, <1>9, <2>6
    <3>5. PICK s : s = tokens[q]
      OBVIOUS
    <3>6. Tokens(c, T, Sent(c, T, A, 2), Stored(c, T, A), A, q, s)
      BY <2>3, <3>2, <3>5
    <3>7. Tokens(c, T, Sent(c, T, A, 2), Stored(c, T, A), A, q,
                 Append(s, [tag |-> Prog(c, q)[i].event, age |-> 0]))
      BY <3>4, <3>6, EventAdded
    <3>8. Tokens(c, T, Sent(c, T, A, 2), Stored(c, T, A), A, q, y.tokens)
      BY <2>3, <3>1, <3>5, <3>7
    <3> QED
      BY <2>1, <3>2, <3>3, <3>8 DEF QueueOK
  <2> QED
    BY <2>5, <2>6
<1>11. QueuesOK(c, T, A)'
  BY <1>10 DEF QueuesOK
<1>12. DOMAIN tokens' = Queues
  BY <1>4, <1>6
<1>13. Core(c, T, A)'
  BY <1>3, <1>6, <1>11, <1>12 DEF Core
<1>14. Banked(c, T, A, 0)' /\ Streamed(c, T, A, 0, 0)'
  BY <1>3, <1>5 DEF Banked, Streamed
<1>15. AtRuntime(c, T, A)'
  BY <1>3, <1>13, <1>14 DEF AtRuntime
<1> QED
  BY <1>15 DEF PageInv, Holds

LEMMA PageStutters ==
  ASSUME PageInv, UNCHANGED vars
  PROVE  PageInv'
<1>1. PICK c \in BOOLEAN : \E T, A : Holds(c, T, A)
  BY DEF PageInv
<1>2. PICK T, A : Holds(c, T, A)
  BY <1>1
<1>3. UNCHANGED <<barriers, held, fetched, pending, iq, active, tokens, slots, sram, committed, arrived,
                  popped, receive, received, pipe, cells, staged, consumed, notified, stage, fault>>
  BY DEF vars, queueVars, memVars, laneVars, streamVars
<1>4. QueuesOK(c, T, A) => QueuesOK(c, T, A)'
  BY <1>3, QueuesKept
<1>5. Core(c, T, A) => Core(c, T, A)'
  BY <1>3, <1>4 DEF Core
<1>6. /\ Banked(c, T, A, 0) => Banked(c, T, A, 0)'
      /\ Banked(c, T, A, 1) => Banked(c, T, A, 1)'
      /\ Streamed(c, T, A, 0, 0) => Streamed(c, T, A, 0, 0)'
      /\ Streamed(c, T, A, 1, 1) => Streamed(c, T, A, 1, 1)'
      /\ Streamed(c, T, A, 1, 0) => Streamed(c, T, A, 1, 0)'
  BY <1>3 DEF Banked, Streamed
<1>7. Holds(c, T, A)'
  BY <1>2, <1>3, <1>5, <1>6 DEF Holds, AtRuntime, AtMem, AtC2c, AtCommit
<1> QED
  BY <1>7 DEF PageInv

LEMMA PageStep ==
  ASSUME Scheduled, PageInv, [Next]_vars
  PROVE  PageInv'
<1>1. CASE Cycle
  <2>1. CASE \E h \in BOOLEAN, X \in SUBSET Lanes : BeginCycle(h, X)
    BY <2>1, BeginCycleKeeps
  <2>2. CASE Dispatch
    BY <2>2, DispatchKeepsInv
  <2>3. CASE EvaluateMem
    BY <2>3, EvaluateMemKeeps
  <2>4. CASE EvaluateC2c
    BY <2>4, EvaluateC2cKeeps
  <2>5. CASE Commit
    BY <2>5, CommitKeeps
  <2> QED
    BY <1>1, <2>1, <2>2, <2>3, <2>4, <2>5 DEF Cycle
<1>2. CASE \E b \in Banks, l \in Launches : Notify(b, l)
  BY <1>2, NotifyKeeps
<1>3. CASE UNCHANGED vars
  BY <1>3, PageStutters
<1> QED
  BY <1>1, <1>2, <1>3 DEF Next

(* For every schedule that observes Scheduled, every vector taken is where  *)
(* its age says, in the pipelines, the stream registers and SRAM, and every *)
(* queue has the tokens and the progress that go with it: tick_transport_    *)
(* only(), hold_compute_cycle() and the full tick keep all the timing.      *)
THEOREM PageInvariance == ASSUME Scheduled PROVE Spec => []PageInv
<1>1. Init => PageInv
  BY PageInit
<1>2. PageInv /\ [Next]_vars => PageInv'
  BY PageStep
<1> QED
  BY <1>1, <1>2, PTL DEF Spec

(* Whenever vectors arrive and whenever the chip is held, for every array,   *)
(* schedule and number of lanes: no Write of a page finds its register      *)
(* empty or with other data, no queue runs dry, no bank is contended and no *)
(* two units write one stream register (execute_write, issue(), commit_cycle). *)
THEOREM PayloadsMeetWrites == ASSUME Scheduled PROVE Spec => []PayloadMeetsWrite
<1>1. PageInv => PayloadMeetsWrite
  BY DEF PageInv, Holds, AtRuntime, AtMem, AtC2c, AtCommit, Core, PayloadMeetsWrite
<1> QED
  BY <1>1, PageInvariance, PTL

LEMMA ScoreboardAgrees ==
  ASSUME Scheduled, PageInv
  PROVE  ScoreboardExact
<1>1. PICK c \in BOOLEAN : \E T, A : Holds(c, T, A)
  BY DEF PageInv
<1>2. PICK T, A : Holds(c, T, A)
  BY <1>1
<1>3. PICK s \in 0 .. 1 : Core(c, T, A) /\ Banked(c, T, A, s)
  BY <1>2 DEF Holds, AtRuntime, AtMem, AtC2c, AtCommit
<1>4. barriers = c /\ AgesOK(c, T, A)
  BY <1>3 DEF Core
<1>5. PICK W : W = Written(c, T, A, s)
  OBVIOUS
<1>6. MemoryOK(c, W, sram) /\ CountsOK(c, W, committed)
  BY <1>3, <1>5 DEF Banked
<1>7. ASSUME NEW x \in Items(c) PROVE Vector(c, x) # None
  <2>1. Vector(c, x) = <<Lane(c, x), VectorsBefore(Lane(c, x), IndexOf(c, x[1])) + x[2]>>
    BY VectorFacts
  <2> QED
    BY <2>1 DEF None
<1>8. ASSUME NEW k \in Packets
      PROVE  committed[<<PacketOf(k).launch, BankOf(k)>>] =
               Cardinality({v \in (1 .. PacketOf(k).count) \X (1 .. Tiles) :
                 sram[BankOf(k)][<<RowOf(PacketOf(k), v[1]), v[2]>>] = VectorsOf[<<BankOf(k), PacketOf(k).tag>>][v[1]]})
  <2>1. k \in PacketTable[c] /\ PacketOf(k) = Entry(c, k)
    BY <1>4 DEF Packets, PacketOf
  <2>2. committed[<<Entry(c, k).launch, BankOf(k)>>] = Cardinality(Segments(c, W, k))
    BY <1>6, <2>1 DEF CountsOK
  <2>3. ASSUME NEW v \in (1 .. Entry(c, k).count) \X (1 .. Tiles)
        PROVE  sram[BankOf(k)][<<RowOf(Entry(c, k), v[1]), v[2]>>] = VectorsOf[<<BankOf(k), Entry(c, k).tag>>][v[1]]
                 <=> <<<<k, v[1]>>, v[2]>> \in W
    <3>1. PICK x : x = <<k, v[1]>>
      OBVIOUS
    <3>2. x \in Items(c) /\ x[1] = k /\ x[2] = v[1] /\ v[2] \in 1 .. Tiles
      BY <2>1, <3>1, IsItem
    <3>3. Bank(x) = BankOf(k) /\ Row(c, x) = RowOf(Entry(c, k), v[1])
          /\ Vector(c, x) = VectorsOf[<<BankOf(k), Entry(c, k).tag>>][v[1]]
      BY <3>2 DEF Bank, Row, Vector, TagOf
    <3>4. sram[Bank(x)][<<Row(c, x), v[2]>>] = IF <<x, v[2]>> \in W THEN Vector(c, x) ELSE None
      BY <1>6, <3>2 DEF MemoryOK
    <3>5. Vector(c, x) # None
      BY <1>7, <3>2
    <3> QED
      BY <3>1, <3>3, <3>4, <3>5
  <2>4. {v \in (1 .. Entry(c, k).count) \X (1 .. Tiles) :
           sram[BankOf(k)][<<RowOf(Entry(c, k), v[1]), v[2]>>] = VectorsOf[<<BankOf(k), Entry(c, k).tag>>][v[1]]}
          = Segments(c, W, k)
    BY <2>3 DEF Segments
  <2> QED
    BY <2>1, <2>2, <2>4
<1> QED
  BY <1>8 DEF ScoreboardExact

(* The commit scoreboard of mem_array.hpp counts for each page exactly the  *)
(* segments of its vectors that are in their rows, so a page is complete    *)
(* when, and only when, it is there whole.                                  *)
THEOREM ScoreboardCorrect == ASSUME Scheduled PROVE Spec => []ScoreboardExact
<1>1. PageInv => ScoreboardExact
  BY ScoreboardAgrees
<1> QED
  BY <1>1, PageInvariance, PTL

LEMMA ReadsAgree ==
  ASSUME Scheduled, PageInv
  PROVE  ReadsSeePages
<1>1. PICK c \in BOOLEAN : \E T, A : Holds(c, T, A)
  BY DEF PageInv
<1>2. PICK T, A : Holds(c, T, A)
  BY <1>1
<1>3. SUFFICES ASSUME stage = "mem", NEW d \in Reads
               PROVE  sram[d.bank][<<d.instruction.row, d.tile>>] = d.instruction.sees
  BY DEF ReadsSeePages
<1>4. Core(c, T, A) /\ Banked(c, T, A, 1)
  BY <1>2, <1>3 DEF Holds, AtRuntime, AtMem, AtC2c, AtCommit
<1>5. PICK W, L : W = Written(c, T, A, 1) /\ L = Slotted(c, T, A, 1)
  OBVIOUS
<1>6. SlotsOK(c, W, L, 1, slots) /\ MemoryOK(c, W, sram)
  BY <1>4, <1>5 DEF Banked
<1>7. ReadSlot(c, W, 1, d)
  BY <1>3, <1>6, WritesAre
<1>8. PICK b \in Banks, t \in (2 - 1) .. Tiles : \E i \in ReadsOf(c, b) : ReadSlotAt(c, W, d, b, t, i)
  BY <1>7 DEF ReadSlot
<1>9. PICK i \in ReadsOf(c, b) : ReadSlotAt(c, W, d, b, t, i)
  BY <1>8
<1>10. PICK x \in Items(c) : /\ Bank(x) = b /\ Row(c, x) = Programs[c]["native"][b][i].row
                             /\ Vector(c, x) = Programs[c]["native"][b][i].sees /\ <<x, t>> \in W
  BY <1>9 DEF ReadSlotAt
<1>11. t \in 1 .. Tiles
  BY TransportAssumption, <1>8
<1>12. sram[Bank(x)][<<Row(c, x), t>>] = Vector(c, x)
  BY <1>6, <1>10, <1>11 DEF MemoryOK
<1>13. d.bank = b /\ d.tile = t /\ d.instruction.row = Programs[c]["native"][b][i].row
       /\ d.instruction.sees = Programs[c]["native"][b][i].sees
  BY <1>9, ReadFields
<1> QED
  BY <1>10, <1>12, <1>13

(* A Read that is scheduled behind its page, by the packet in its queue or  *)
(* by a WAIT_EVENT that the runtime releases on a complete page, finds the  *)
(* page's vector on each tile (execute_read).                               *)
THEOREM ReadsCorrect == ASSUME Scheduled PROVE Spec => []ReadsSeePages
<1>1. PageInv => ReadsSeePages
  BY ReadsAgree
<1> QED
  BY <1>1, PageInvariance, PTL
=============================================================================
