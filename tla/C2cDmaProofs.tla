---------------------------- MODULE C2cDmaProofs ----------------------------
(***************************************************************************)
(* Proofs about C2cDma, for every program, any number of streams, and any  *)
(* depth of the FIFOs and of the DDR's request queue: first that the       *)
(* notifications of its completions balance, then that every vector a load *)
(* hands to RX and every vector a store writes is the one the program      *)
(* says, and every FIFO and the request queue stay within their depth;     *)
(* and, in the last part, what DDR holds and what loads return.            *)
(*                                                                         *)
(* For the data path, Slots[s][op] lists the vectors of a stream in        *)
(* program order.  Before is the position of a vector in it, DInv the      *)
(* invariant; every action keeps it.  What the four ways a tick may end    *)
(* have in common is Tick.                                                 *)
(***************************************************************************)
EXTENDS C2cDma, SequenceTheorems, FiniteSetTheorems, TLAPS

NotesType ==
  /\ pc \in 0 .. Len(Program) /\ first \in 0 .. pc /\ first < Len(Program)
  /\ tokens \in Nat /\ tags \in [Tags -> Nat]
  /\ queue \in [Streams -> Seq(Transfers)] /\ active \in [Streams -> Transfers \cup {0}]
  /\ completions \in Seq(Transfers) /\ announced \in Seq(Tags)

(* A command the engine has yet to complete: issued to this stream by the   *)
(* program that is loaded.                                                  *)
Open(s, c) == Program[c].stream = s /\ first < c /\ c <= pc /\ c \notin Completed

(* The commands of a stream are open and different, and nothing completes   *)
(* before it is issued.                                                     *)
EachOnce ==
  /\ \A s \in Streams : active[s] # 0 => Open(s, active[s])
  /\ \A s \in Streams : \A k \in 1 .. Len(queue[s]) :
       Open(s, queue[s][k]) /\ active[s] < queue[s][k]
  /\ \A s \in Streams : \A j, k \in 1 .. Len(queue[s]) : j < k => queue[s][j] < queue[s][k]
  /\ \A c \in Completed : c <= pc

IInv == NotesType /\ EachOnce /\ CompletionsNotified
----------------------------------------------------------------------------
(* The program and the sets that are counted.                               *)

LEMMA Minimum ==
  ASSUME NEW T, T \subseteq Nat, T # {}
  PROVE  \E x \in T : \A y \in T : x <= y
<1>1. IsWellFoundedOn(OpToRel(<, Nat), Nat)
  BY NatLessThanWellFounded
<1>2. PICK x \in T : \A y \in T : ~ (<<y, x>> \in OpToRel(<, Nat))
  BY <1>1, WFMin
<1>3. \A y \in T : ~(y < x)
  BY <1>2 DEF OpToRel
<1> QED
  BY <1>3

LEMMA ProgramFacts ==
  /\ Len(Program) \in Nat \ {0} /\ Commands = 1 .. Len(Program) /\ Transfers \subseteq Commands
  /\ \A c \in Commands : Program[c] \in Command /\ Program[c].tag \in Tags
                         /\ Program[c].stream \in Streams
<1>1. Program \in Seq(Command) /\ Program # <<>>
  BY DmaAssumption
<1>2. Len(Program) \in Nat \ {0} /\ Commands = 1 .. Len(Program)
  BY <1>1 DEF Commands
<1>3. \A c \in Commands : Program[c] \in Command
  BY <1>1, <1>2, ElementOfSeq
<1> QED
  BY <1>2, <1>3 DEF Command, Transfers, Tags

LEMMA Finite ==
  ASSUME NotesType
  PROVE  /\ Completed \subseteq Transfers /\ Own \subseteq 1 .. Len(Program)
         /\ IsFiniteSet(Own) /\ Cardinality(Own) \in Nat
         /\ \A t : IsFiniteSet(Tagged(Own, t)) /\ Cardinality(Tagged(Own, t)) \in Nat
         /\ \A o : IsFiniteSet(Spent(o)) /\ Cardinality(Spent(o)) \in Nat
         /\ \A o, t : /\ IsFiniteSet(Tagged(Spent(o), t))
                      /\ Cardinality(Tagged(Spent(o), t)) \in Nat
         /\ \A t : /\ IsFiniteSet({k \in 1 .. Len(announced) : announced[k] = t})
                   /\ Cardinality({k \in 1 .. Len(announced) : announced[k] = t}) \in Nat
<1>1. \A S, T : IsFiniteSet(S) /\ T \subseteq S => IsFiniteSet(T) /\ Cardinality(T) \in Nat
  BY FS_Subset, FS_CardinalityType
<1>2. Completed \subseteq Transfers
  <2>1. completions \in Seq(Transfers)
    BY DEF NotesType
  <2>2. DOMAIN completions = 1 .. Len(completions)
    BY <2>1
  <2> QED
    BY <2>1, <2>2, ElementOfSeq DEF Completed
<1>3. Own \subseteq 1 .. Len(Program) /\ IsFiniteSet(1 .. Len(Program))
  <2>1. Own \subseteq Completed
    BY DEF Own
  <2>2. IsFiniteSet(1 .. Len(Program))
    BY ProgramFacts, FS_Interval
  <2> QED
    BY <1>2, <2>1, <2>2, ProgramFacts
<1>4. pc \in Nat /\ IsFiniteSet(1 .. pc)
  <2>1. pc \in Nat
    BY ProgramFacts DEF NotesType
  <2> QED
    BY <2>1, FS_Interval
<1>5. \A o : Spent(o) \subseteq 1 .. pc
  BY DEF Spent, Passed
<1>6. \A t, C : Tagged(C, t) \subseteq C
  BY DEF Tagged
<1>7. IsFiniteSet(1 .. Len(announced))
  <2>1. Len(announced) \in Nat
    BY DEF NotesType
  <2> QED
    BY <2>1, FS_Interval
<1>8. \A t : {k \in 1 .. Len(announced) : announced[k] = t} \subseteq 1 .. Len(announced)
  OBVIOUS
<1>9. IsFiniteSet(Own) /\ Cardinality(Own) \in Nat
  BY <1>1, <1>3
<1>10. \A o : IsFiniteSet(Spent(o)) /\ Cardinality(Spent(o)) \in Nat
  BY <1>1, <1>4, <1>5
<1>11. \A t : IsFiniteSet(Tagged(Own, t)) /\ Cardinality(Tagged(Own, t)) \in Nat
  BY <1>1, <1>6, <1>9
<1>12. \A o, t : IsFiniteSet(Tagged(Spent(o), t)) /\ Cardinality(Tagged(Spent(o), t)) \in Nat
  BY <1>1, <1>6, <1>10
<1>13. \A t : /\ IsFiniteSet({k \in 1 .. Len(announced) : announced[k] = t})
              /\ Cardinality({k \in 1 .. Len(announced) : announced[k] = t}) \in Nat
  BY <1>1, <1>7, <1>8
<1> QED
  BY <1>2, <1>3, <1>9, <1>10, <1>11, <1>12, <1>13

(* One more element.                                                        *)
LEMMA OneMore ==
  ASSUME NEW S, NEW x, IsFiniteSet(S), x \notin S
  PROVE  Cardinality(S \cup {x}) = Cardinality(S) + 1
  BY FS_AddElement

(* How often a tag is waiting to be announced.                              *)
Waiting(notes, t) == {k \in 1 .. Len(notes) : notes[k] = t}

LEMMA WaitingAppend ==
  ASSUME NEW notes \in Seq(Tags), NEW u \in Tags, NEW t \in Tags
  PROVE  Cardinality(Waiting(Append(notes, u), t))
           = Cardinality(Waiting(notes, t)) + (IF u = t THEN 1 ELSE 0)
<1> DEFINE n == Len(notes)
           more == Append(notes, u)
<1>1. n \in Nat /\ Len(more) = n + 1 /\ more[n + 1] = u
      /\ \A k \in 1 .. n : more[k] = notes[k]
  OBVIOUS
<1>2. IsFiniteSet(Waiting(notes, t)) /\ Cardinality(Waiting(notes, t)) \in Nat
  <2>1. IsFiniteSet(1 .. n) /\ Waiting(notes, t) \subseteq 1 .. n
    BY <1>1, FS_Interval DEF Waiting
  <2> QED
    BY <2>1, FS_Subset, FS_CardinalityType
<1> HIDE DEF n, more
<1>3. \A k : k \in 1 .. (n + 1) <=> k \in 1 .. n \/ k = n + 1
  BY <1>1
<1>4. n = Len(notes) /\ more = Append(notes, u)
  BY DEF n, more
<1>5. CASE u = t
  <2>1. Waiting(more, t) = Waiting(notes, t) \cup {n + 1}
    BY <1>1, <1>3, <1>4, <1>5 DEF Waiting
  <2>2. n + 1 \notin Waiting(notes, t)
    BY <1>1, <1>4 DEF Waiting
  <2> QED
    BY <1>2, <1>4, <1>5, <2>1, <2>2, OneMore
<1>6. CASE u # t
  <2>1. Waiting(more, t) = Waiting(notes, t)
    BY <1>1, <1>3, <1>4, <1>6 DEF Waiting
  <2> QED
    BY <1>2, <1>4, <1>6, <2>1
<1> QED
  BY <1>5, <1>6

LEMMA WaitingTail ==
  ASSUME NEW notes \in Seq(Tags), notes # <<>>, NEW t \in Tags
  PROVE  Cardinality(Waiting(notes, t))
           = Cardinality(Waiting(Tail(notes), t)) + (IF Head(notes) = t THEN 1 ELSE 0)
<1> DEFINE n == Len(notes)
           rest == Tail(notes)
           R == Waiting(rest, t)
           later == Waiting(notes, t) \ {1}
<1>1. n \in Nat \ {0} /\ Len(rest) = n - 1 /\ Head(notes) = notes[1]
      /\ \A k \in 1 .. (n - 1) : rest[k] = notes[k + 1]
  <2>1. n \in Nat \ {0} /\ Head(notes) = notes[1]
    OBVIOUS
  <2> QED
    BY <2>1, HeadTailProperties
<1>2. IsFiniteSet(R) /\ Cardinality(R) \in Nat /\ IsFiniteSet(Waiting(notes, t))
  <2>1. IsFiniteSet(1 .. (n - 1)) /\ IsFiniteSet(1 .. n)
    BY <1>1, FS_Interval
  <2>2. R \subseteq 1 .. (n - 1) /\ Waiting(notes, t) \subseteq 1 .. n
    BY <1>1 DEF Waiting
  <2> HIDE DEF n, R
  <2> QED
    BY <2>1, <2>2, FS_Subset, FS_CardinalityType
<1>3. Cardinality(later) = Cardinality(R)
  <2> DEFINE f == [k \in R |-> k + 1]
  <2>1. \A k \in R : k \in 1 .. (n - 1) /\ rest[k] = t
    BY <1>1 DEF Waiting
  <2>2. \A k \in later : k \in 2 .. n /\ notes[k] = t
    BY <1>1 DEF Waiting
  <2>3. \A k \in R : k + 1 \in later
    <3> SUFFICES ASSUME NEW k \in R PROVE k + 1 \in 1 .. n /\ notes[k + 1] = t /\ k + 1 # 1
      BY DEF Waiting
    <3> QED
      BY <1>1, <2>1
  <2>4. \A k \in later : k - 1 \in R /\ (k - 1) + 1 = k
    <3> SUFFICES ASSUME NEW k \in later PROVE k - 1 \in R /\ (k - 1) + 1 = k
      OBVIOUS
    <3>1. k \in 2 .. n /\ notes[k] = t
      BY <2>2
    <3>2. k - 1 \in 1 .. (n - 1) /\ (k - 1) + 1 = k
      BY <1>1, <3>1
    <3>3. rest[k - 1] = t
      BY <1>1, <3>1, <3>2
    <3> QED
      BY <1>1, <3>2, <3>3 DEF Waiting
  <2>5. R \subseteq Int
    BY <2>1
  <2> HIDE DEF R, later, n
  <2>6. f \in Bijection(R, later)
    <3>1. f \in [R -> later]
      BY <2>3
    <3>2. \A a, b \in R : f[a] = f[b] => a = b
      BY <2>5
    <3>3. \A k \in later : \E a \in R : f[a] = k
      BY <2>4
    <3> QED
      BY <3>1, <3>2, <3>3 DEF Bijection, Injection, Surjection, IsInjective
  <2> HIDE DEF f
  <2>7. ExistsBijection(R, later)
    BY <2>6 DEF ExistsBijection
  <2> QED
    BY <1>2, <2>7, FS_Bijection
<1>4. 1 \in Waiting(notes, t) <=> Head(notes) = t
  BY <1>1 DEF Waiting
<1>5. CASE Head(notes) = t
  <2>1. Waiting(notes, t) = later \cup {1} /\ 1 \notin later
    BY <1>4, <1>5
  <2>2. IsFiniteSet(later)
    BY <1>2, FS_Subset
  <2> HIDE DEF later
  <2> QED
    BY <1>2, <1>3, <1>5, <2>1, <2>2, OneMore
<1>6. CASE Head(notes) # t
  <2>1. Waiting(notes, t) = later
    BY <1>4, <1>6
  <2>2. Cardinality(Waiting(notes, t)) = Cardinality(R)
    BY <1>3, <2>1
  <2> HIDE DEF R
  <2>3. Cardinality(R) = Cardinality(R) + 0
    BY <1>2
  <2> QED
    BY <1>6, <2>2, <2>3 DEF R
<1> QED
  BY <1>5, <1>6
----------------------------------------------------------------------------
(* The queue, the engine and the announcements.                             *)

counted == <<pc, first, tokens, tags, queue, active, completions, announced>>

LEMMA FrameInv ==
  ASSUME IInv, UNCHANGED counted
  PROVE  IInv'
<1>1. NotesType'
  BY DEF IInv, NotesType, counted
<1>2. Completed' = Completed
  BY DEF Completed, counted
<1>3. EachOnce'
  BY <1>2 DEF IInv, EachOnce, Open, counted
<1>4. Own' = Own /\ \A o : Spent(o)' = Spent(o)
  BY <1>2 DEF Own, Spent, Passed, counted
<1>5. \A C, t : Tagged(C, t)' = Tagged(C, t)
  BY DEF Tagged
<1>6. CompletionsNotified'
  BY <1>4, <1>5 DEF IInv, CompletionsNotified, counted
<1> QED
  BY <1>1, <1>3, <1>6 DEF IInv

LEMMA InitInv == Init => IInv
<1> SUFFICES ASSUME Init PROVE IInv
  OBVIOUS
<1>1. /\ pc = 0 /\ first = 0 /\ tokens = 0 /\ tags = [t \in Tags |-> 0]
      /\ queue = [s \in Streams |-> <<>>] /\ active = [s \in Streams |-> 0]
      /\ completions = <<>> /\ announced = <<>>
  BY DEF Init
<1>2. <<>> \in Seq(Transfers) /\ <<>> \in Seq(Tags)
  OBVIOUS
<1>3. NotesType
  BY <1>1, <1>2, ProgramFacts DEF NotesType
<1>4. Completed = {} /\ Own = {} /\ \A o : Spent(o) = {}
  <2>1. Completed = {}
    BY <1>1 DEF Completed
  <2>2. \A o : Passed(o) = {}
    BY <1>1 DEF Passed
  <2> QED
    BY <2>1, <2>2 DEF Own, Spent
<1>5. \A s \in Streams : Len(queue[s]) = 0 /\ active[s] = 0
  BY <1>1
<1>6. EachOnce
  <2>1. \A s \in Streams : 1 .. Len(queue[s]) = {}
    BY <1>5
  <2> QED
    BY <1>4, <1>5, <2>1 DEF EachOnce
<1>7. CompletionsNotified
  <2>1. Len(announced) = 0 /\ \A t : {k \in 1 .. Len(announced) : announced[k] = t} = {}
    BY <1>1
  <2>2. \A t : Tagged({}, t) = {}
    BY DEF Tagged
  <2>3. Cardinality({}) = 0
    BY FS_EmptySet
  <2>4. tokens + Cardinality(Spent("sync")) + Len(announced) = Cardinality(Own)
    <3>1. Cardinality(Spent("sync")) = 0 /\ Cardinality(Own) = 0
      BY <1>4, <2>3
    <3> QED
      BY <1>1, <2>1, <3>1
  <2>5. \A t \in Tags : tags[t] + Cardinality(Tagged(Spent("wait"), t))
          + Cardinality({k \in 1 .. Len(announced) : announced[k] = t}) = Cardinality(Tagged(Own, t))
    <3> SUFFICES ASSUME NEW t \in Tags
                 PROVE  tags[t] + Cardinality(Tagged(Spent("wait"), t))
                          + Cardinality({k \in 1 .. Len(announced) : announced[k] = t})
                        = Cardinality(Tagged(Own, t))
      OBVIOUS
    <3>1. Cardinality(Tagged(Spent("wait"), t)) = 0 /\ Cardinality(Tagged(Own, t)) = 0
      BY <1>4, <2>2, <2>3
    <3>2. Cardinality({k \in 1 .. Len(announced) : announced[k] = t}) = 0
      BY <2>1, <2>3
    <3> QED
      BY <1>1, <3>1, <3>2
  <2> QED
    BY <2>4, <2>5 DEF CompletionsNotified
<1> QED
  BY <1>3, <1>6, <1>7 DEF IInv

(* The end of the program is a command behind those passed.                 *)
LEMMA EndFacts ==
  ASSUME NotesType
  PROVE  /\ EndOfProgram \in 1 .. Len(Program) /\ EndOfProgram \in Ends \cup {Len(Program)}
         /\ EndOfProgram > first /\ \A d \in Ends : d > first => d >= EndOfProgram
<1> DEFINE later == {d \in Ends : d > first}
<1>1. first \in Nat /\ first < Len(Program) /\ Ends \subseteq 1 .. Len(Program) /\ Len(Program) \in Nat \ {0}
  <2>1. first \in Nat /\ first < Len(Program)
    BY ProgramFacts DEF NotesType
  <2> QED
    BY <2>1, ProgramFacts, DmaAssumption
<1>2. \E e \in Ends \cup {Len(Program)} : e > first /\ \A d \in Ends : d > first => d >= e
  <2>1. CASE later = {}
    BY <1>1, <2>1
  <2>2. CASE later # {}
    <3>1. later \subseteq Nat
      <4>1. 1 .. Len(Program) \subseteq Nat
        BY <1>1
      <4> QED
        BY <1>1, <4>1
    <3>2. PICK e \in later : \A d \in later : e <= d
      <4> HIDE DEF later
      <4> QED
        BY <2>2, <3>1, Minimum
    <3>3. \A d \in Ends : d > first => d >= e
      BY <1>1, <3>1, <3>2
    <3> QED
      BY <3>2, <3>3
  <2> QED
    BY <2>1, <2>2
<1>3. /\ EndOfProgram \in Ends \cup {Len(Program)}
      /\ EndOfProgram > first /\ \A d \in Ends : d > first => d >= EndOfProgram
  BY <1>2 DEF EndOfProgram
<1> QED
  BY <1>1, <1>3

(* Passing a command.                                                       *)
LEMMA PassFacts ==
  ASSUME IInv, pc < EndOfProgram, Pass, UNCHANGED first
  PROVE  /\ pc + 1 \in Commands /\ pc \in Nat /\ pc' = pc + 1 /\ first' = first /\ first < pc + 1
         /\ pc' \in 0 .. Len(Program) /\ first' \in 0 .. pc' /\ first' < Len(Program)
         /\ pc + 1 \notin Completed
         /\ \A o : pc + 1 \notin Spent(o)
         /\ \A o : Spent(o)' = IF Program[pc + 1].op = o THEN Spent(o) \cup {pc + 1} ELSE Spent(o)
<1>1. EndOfProgram \in 1 .. Len(Program)
  BY EndFacts DEF IInv
<1>2. pc \in 0 .. Len(Program) /\ first \in 0 .. pc /\ first < Len(Program) /\ pc' = pc + 1
      /\ Len(Program) \in Nat /\ Commands = 1 .. Len(Program)
  BY ProgramFacts DEF IInv, NotesType, Pass
<1>3. pc + 1 \in Commands /\ pc \in Nat /\ first < pc + 1
  BY <1>1, <1>2
<1>4. pc' \in 0 .. Len(Program) /\ first' \in 0 .. pc' /\ first' < Len(Program)
  BY <1>2, <1>3
<1>5. pc + 1 \notin Completed
  <2>1. \A c \in Completed : c <= pc
    BY DEF IInv, EachOnce
  <2> QED
    BY <1>3, <2>1
<1>6. \A o : pc + 1 \notin Spent(o)
  BY <1>3 DEF Spent, Passed
<1>7. 1 .. (pc + 1) = (1 .. pc) \cup {pc + 1}
  BY <1>3
<1>8. ASSUME NEW o
      PROVE  Spent(o)' = IF Program[pc + 1].op = o THEN Spent(o) \cup {pc + 1} ELSE Spent(o)
  <2>1. Spent(o)' = {c \in (1 .. pc) \cup {pc + 1} : Program[c].op = o /\ c > first}
    BY <1>2, <1>7 DEF Spent, Passed
  <2>2. Spent(o) = {c \in 1 .. pc : Program[c].op = o /\ c > first}
    BY DEF Spent, Passed
  <2> QED
    BY <1>3, <2>1, <2>2
<1> QED
  BY <1>2, <1>3, <1>4, <1>5, <1>6, <1>8

(* Passing a command that is not a transfer opens nothing and closes        *)
(* nothing.                                                                 *)
LEMMA PassKeeps ==
  ASSUME IInv, pc < EndOfProgram, Pass, UNCHANGED <<first, queue, active, completions>>
  PROVE  EachOnce' /\ Own' = Own
<1>1. pc \in Nat /\ pc' = pc + 1
  BY PassFacts
<1>2. Completed' = Completed /\ Own' = Own
  BY DEF Completed, Own
<1>3. /\ Completed \subseteq Nat
      /\ \A s \in Streams : active[s] \in Nat
      /\ \A s \in Streams : \A k \in 1 .. Len(queue[s]) : queue[s][k] \in Nat
  <2>1. Transfers \subseteq Nat
    <3>1. 1 .. Len(Program) \subseteq Nat
      BY ProgramFacts
    <3> QED
      BY <3>1, ProgramFacts
  <2>2. ASSUME NEW s \in Streams, NEW k \in 1 .. Len(queue[s]) PROVE queue[s][k] \in Nat
    <3>1. queue[s] \in Seq(Transfers)
      BY DEF IInv, NotesType
    <3> QED
      BY <2>1, <3>1, ElementOfSeq
  <2>3. \A s \in Streams : active[s] \in Transfers \cup {0}
    BY DEF IInv, NotesType
  <2>4. Completed \subseteq Transfers
    BY Finite DEF IInv
  <2>5. Completed \subseteq Nat
    BY <2>1, <2>4
  <2>6. ASSUME NEW s \in Streams PROVE active[s] \in Nat
    <3>1. CASE active[s] = 0
      BY <3>1
    <3>2. CASE active[s] \in Transfers
      BY <2>1, <3>2
    <3> QED
      BY <2>3, <3>1, <3>2
  <2> QED
    BY <2>2, <2>5, <2>6
<1>4. \A n \in Nat : n <= pc => n <= pc + 1
  BY <1>1
<1>6. \A s \in Streams : active[s] # 0 => Open(s, active[s])
  BY DEF IInv, EachOnce
<1>7. \A s \in Streams : \A k \in 1 .. Len(queue[s]) :
        Open(s, queue[s][k]) /\ active[s] < queue[s][k]
  BY DEF IInv, EachOnce
<1>8. \A s \in Streams : \A j, k \in 1 .. Len(queue[s]) : j < k => queue[s][j] < queue[s][k]
  BY DEF IInv, EachOnce
<1>9. \A c \in Completed : c <= pc + 1
  BY <1>1, <1>3, <1>4 DEF IInv, EachOnce
<1>10. \A s \in Streams : active'[s] # 0 => /\ Program[active'[s]].stream = s
                                           /\ first' < active'[s] /\ active'[s] <= pc'
                                           /\ active'[s] \notin Completed'
  BY <1>1, <1>2, <1>3, <1>4, <1>6 DEF Open
<1>11. \A s \in Streams : \A k \in 1 .. Len(queue'[s]) :
         /\ Program[queue'[s][k]].stream = s
         /\ first' < queue'[s][k] /\ queue'[s][k] <= pc' /\ queue'[s][k] \notin Completed'
         /\ active'[s] < queue'[s][k]
  BY <1>1, <1>2, <1>3, <1>4, <1>7 DEF Open
<1> QED
  BY <1>1, <1>2, <1>8, <1>9, <1>10, <1>11 DEF EachOnce, Open

LEMMA ReleaseSyncInv ==
  ASSUME IInv, ReleaseSync
  PROVE  IInv'
<1>1. /\ pc < EndOfProgram /\ Program[pc + 1].op = "sync" /\ tokens > 0 /\ Pass
      /\ tokens' = tokens - 1
      /\ UNCHANGED <<first, tags, queue, active, completions, announced>>
  BY DEF ReleaseSync, At, engineVars, noteVars
<1>2. EachOnce' /\ Own' = Own
  BY <1>1, PassKeeps
<1>3. NotesType'
  <2>1. tokens' \in Nat
    BY <1>1 DEF IInv, NotesType
  <2>2. pc' \in 0 .. Len(Program) /\ first' \in 0 .. pc' /\ first' < Len(Program)
    BY <1>1, PassFacts
  <2> QED
    BY <1>1, <2>1, <2>2 DEF IInv, NotesType
<1>4. Spent("sync")' = Spent("sync") \cup {pc + 1} /\ pc + 1 \notin Spent("sync")
      /\ Spent("wait")' = Spent("wait")
  BY <1>1, PassFacts
<1>5. Cardinality(Spent("sync")') = Cardinality(Spent("sync")) + 1
  BY <1>4, Finite, OneMore DEF IInv
<1>6. tokens' + Cardinality(Spent("sync")') + Len(announced') = Cardinality(Own')
  <2>1. tokens + Cardinality(Spent("sync")) + Len(announced) = Cardinality(Own)
    BY DEF IInv, CompletionsNotified
  <2>2. tokens \in Nat /\ Cardinality(Spent("sync")) \in Nat /\ Len(announced) \in Nat
    BY Finite DEF IInv, NotesType
  <2>3. Len(announced') = Len(announced) /\ Cardinality(Own') = Cardinality(Own)
    BY <1>1, <1>2
  <2> DEFINE a == Cardinality(Spent("sync"))
             b == Cardinality(Spent("sync")')
             l == Len(announced)
  <2>4. a \in Nat /\ l \in Nat /\ tokens \in Nat /\ b = a + 1 /\ tokens' = tokens - 1
    BY <1>1, <1>5, <2>2
  <2> HIDE DEF a, b, l
  <2>5. tokens' + b + l = tokens + a + l
    BY <2>4
  <2> QED
    BY <2>1, <2>3, <2>5 DEF a, b, l
<1>7. ASSUME NEW t \in Tags
      PROVE  tags'[t] + Cardinality(Tagged(Spent("wait"), t)')
               + Cardinality({k \in 1 .. Len(announced') : announced'[k] = t})
             = Cardinality(Tagged(Own, t)')
  <2>1. Tagged(Spent("wait"), t)' = Tagged(Spent("wait"), t) /\ Tagged(Own, t)' = Tagged(Own, t)
    BY <1>2, <1>4 DEF Tagged
  <2> QED
    BY <1>1, <2>1 DEF IInv, CompletionsNotified
<1>8. CompletionsNotified'
  BY <1>6, <1>7 DEF CompletionsNotified
<1> QED
  BY <1>2, <1>3, <1>8 DEF IInv

LEMMA ReleaseWaitInv ==
  ASSUME IInv, ReleaseWait
  PROVE  IInv'
<1> DEFINE u == Program[pc + 1].tag
<1>1. /\ pc < EndOfProgram /\ Program[pc + 1].op = "wait" /\ tags[u] > 0 /\ Pass
      /\ tags' = [tags EXCEPT ![u] = @ - 1]
      /\ UNCHANGED <<first, tokens, queue, active, completions, announced>>
  BY DEF ReleaseWait, At, engineVars, noteVars
<1>2. EachOnce' /\ Own' = Own
  BY <1>1, PassKeeps
<1>3. u \in Tags /\ tags \in [Tags -> Nat]
  BY <1>1, PassFacts, ProgramFacts DEF IInv, NotesType
<1> HIDE DEF u
<1>4. NotesType'
  <2>1. tags' \in [Tags -> Nat]
    <3>1. tags[u] - 1 \in Nat
      BY <1>1, <1>3
    <3> QED
      BY <1>1, <1>3, <3>1
  <2>2. pc' \in 0 .. Len(Program) /\ first' \in 0 .. pc' /\ first' < Len(Program)
    BY <1>1, PassFacts
  <2> QED
    BY <1>1, <2>1, <2>2 DEF IInv, NotesType
<1>5. Spent("wait")' = Spent("wait") \cup {pc + 1} /\ pc + 1 \notin Spent("wait")
      /\ Spent("sync")' = Spent("sync")
  BY <1>1, PassFacts
<1>6. tokens' + Cardinality(Spent("sync")') + Len(announced') = Cardinality(Own')
  BY <1>1, <1>2, <1>5 DEF IInv, CompletionsNotified
<1>7. ASSUME NEW t \in Tags
      PROVE  tags'[t] + Cardinality(Tagged(Spent("wait"), t)')
               + Cardinality({k \in 1 .. Len(announced') : announced'[k] = t})
             = Cardinality(Tagged(Own, t)')
  <2> DEFINE W == Tagged(Spent("wait"), t)
             n == Cardinality({k \in 1 .. Len(announced) : announced[k] = t})
  <2>1. tags[t] + Cardinality(W) + n = Cardinality(Tagged(Own, t))
    BY DEF IInv, CompletionsNotified
  <2>2. tags[t] \in Nat /\ Cardinality(W) \in Nat /\ n \in Nat /\ IsFiniteSet(W)
    BY Finite DEF IInv, NotesType
  <2>3. Tagged(Own, t)' = Tagged(Own, t)
    BY <1>2 DEF Tagged
  <2>4. Cardinality({k \in 1 .. Len(announced') : announced'[k] = t}) = n
    BY <1>1
  <2>5. CASE t = u
    <3>1. Tagged(Spent("wait"), t)' = W \cup {pc + 1} /\ pc + 1 \notin W
      BY <1>5, <2>5 DEF Tagged, u
    <3> HIDE DEF W, n
    <3>2. Cardinality(W \cup {pc + 1}) = Cardinality(W) + 1
      BY <2>2, <3>1, OneMore
    <3>3. tags'[t] = tags[t] - 1
      BY <1>1, <1>3, <2>5
    <3> DEFINE a == Cardinality(W)
               b == Cardinality(W \cup {pc + 1})
    <3>4. a \in Nat /\ b = a + 1 /\ tags[t] \in Nat /\ n \in Nat
      BY <2>2, <3>2
    <3> HIDE DEF a, b
    <3>5. tags'[t] + b + n = tags[t] + a + n
      BY <3>3, <3>4
    <3> QED
      BY <2>1, <2>3, <2>4, <3>1, <3>5 DEF a, b
  <2>6. CASE t # u
    <3>1. Tagged(Spent("wait"), t)' = W
      BY <1>5, <2>6 DEF Tagged, u
    <3>2. tags'[t] = tags[t]
      BY <1>1, <1>3, <2>6
    <3> HIDE DEF W, n
    <3> QED
      BY <2>1, <2>3, <2>4, <3>1, <3>2
  <2> QED
    BY <2>5, <2>6
<1>8. CompletionsNotified'
  BY <1>6, <1>7 DEF CompletionsNotified
<1> QED
  BY <1>2, <1>4, <1>8 DEF IInv

(* Commands are numbers, so that 0 stands for none.                         *)
LEMMA CommandNumbers ==
  ASSUME NotesType
  PROVE  /\ Transfers \subseteq Nat \ {0} /\ Completed \subseteq Nat
         /\ \A s \in Streams : active[s] \in Nat /\ queue[s] \in Seq(Transfers)
                               /\ Len(queue[s]) \in Nat
         /\ \A s \in Streams : \A k \in 1 .. Len(queue[s]) : queue[s][k] \in Transfers
<1>1. Transfers \subseteq Nat \ {0}
  <2>1. 1 .. Len(Program) \subseteq Nat \ {0}
    BY ProgramFacts
  <2> QED
    BY <2>1, ProgramFacts
<1>2. Completed \subseteq Transfers
  BY Finite
<1>3. ASSUME NEW s \in Streams PROVE active[s] \in Nat
  <2>1. CASE active[s] = 0
    BY <2>1
  <2>2. CASE active[s] \in Transfers
    BY <1>1, <2>2
  <2>3. active[s] \in Transfers \cup {0}
    BY DEF NotesType
  <2> QED
    BY <2>1, <2>2, <2>3
<1>4. \A s \in Streams : queue[s] \in Seq(Transfers)
  BY DEF NotesType
<1>5. \A s \in Streams : Len(queue[s]) \in Nat
  BY <1>4, LenProperties
<1>6. \A s \in Streams : \A k \in 1 .. Len(queue[s]) : queue[s][k] \in Transfers
  BY <1>4, ElementOfSeq
<1>7. Completed \subseteq Nat
  BY <1>1, <1>2
<1> QED
  BY <1>1, <1>3, <1>4, <1>5, <1>6, <1>7

LEMMA AppendFacts ==
  ASSUME NEW T, NEW q \in Seq(T), NEW x \in T
  PROVE  /\ Append(q, x) \in Seq(T) /\ Len(q) \in Nat /\ Len(Append(q, x)) = Len(q) + 1
         /\ Append(q, x)[Len(q) + 1] = x /\ \A i \in 1 .. Len(q) : Append(q, x)[i] = q[i]
         /\ \A k \in 1 .. Len(Append(q, x)) : k \in 1 .. Len(q) \/ k = Len(q) + 1
  OBVIOUS

LEMMA IssueInv ==
  ASSUME IInv, Issue
  PROVE  IInv'
<1> DEFINE c == pc + 1
           s == Program[pc + 1].stream
<1>1. /\ pc < EndOfProgram /\ Program[c].op \in {"load", "store"} /\ Pass
      /\ queue' = [queue EXCEPT ![s] = Append(@, c)]
      /\ UNCHANGED <<first, tokens, tags, active, completions, announced>>
  BY DEF Issue, At, noteVars
<1>2. /\ c \in Commands /\ pc \in Nat /\ pc' = c /\ first' = first /\ first < c
      /\ pc' \in 0 .. Len(Program) /\ first' \in 0 .. pc' /\ first' < Len(Program)
      /\ c \notin Completed
      /\ Spent("sync")' = Spent("sync") /\ Spent("wait")' = Spent("wait")
  BY <1>1, PassFacts
<1>3. c \in Transfers /\ c \in Nat /\ s \in Streams /\ Program[c].stream = s
  BY <1>1, <1>2, ProgramFacts DEF Transfers
<1> HIDE DEF s
<1>4. c = pc + 1
  OBVIOUS
<1> HIDE DEF c
<1>5. NotesType /\ EachOnce /\ CompletionsNotified
  BY DEF IInv
<1>6. /\ \A p \in Streams \ {s} : queue'[p] = queue[p]
      /\ queue'[s] = Append(queue[s], c) /\ queue' \in [Streams -> Seq(Transfers)]
  <2>1. queue \in [Streams -> Seq(Transfers)] /\ Append(queue[s], c) \in Seq(Transfers)
    BY <1>3, <1>5 DEF NotesType
  <2> QED
    BY <1>1, <1>3, <2>1
<1>7. NotesType'
  BY <1>1, <1>2, <1>5, <1>6 DEF NotesType
<1>8. Completed' = Completed /\ Own' = Own
  BY <1>1 DEF Completed, Own
<1>9. /\ Completed \subseteq Nat
      /\ \A p \in Streams : active[p] \in Nat /\ queue[p] \in Seq(Transfers)
                            /\ Len(queue[p]) \in Nat
      /\ \A p \in Streams : \A k \in 1 .. Len(queue[p]) : queue[p][k] \in Nat
  BY <1>5, CommandNumbers
<1>10. \A n \in Nat : n <= pc => n <= pc' /\ n < c
  BY <1>2, <1>4
<1>11. ASSUME NEW p \in Streams, active'[p] # 0
       PROVE  Program[active'[p]].stream = p /\ first' < active'[p] /\ active'[p] <= pc'
              /\ active'[p] \notin Completed'
  <2>1. Open(p, active[p]) /\ active'[p] = active[p]
    BY <1>1, <1>5, <1>11 DEF EachOnce
  <2> QED
    BY <1>2, <1>8, <1>9, <1>10, <2>1 DEF Open
<1>12. ASSUME NEW p \in Streams, NEW k \in 1 .. Len(queue'[p])
       PROVE  /\ Program[queue'[p][k]].stream = p /\ first' < queue'[p][k] /\ queue'[p][k] <= pc'
              /\ queue'[p][k] \notin Completed' /\ active'[p] < queue'[p][k]
  <2>1. CASE queue'[p][k] = c /\ p = s
    <3>1. active[p] < c
      <4>1. active[p] # 0 => Open(p, active[p])
        BY <1>5 DEF EachOnce
      <4> QED
        BY <1>2, <1>4, <1>9, <1>10, <4>1 DEF Open
    <3>2. c <= pc'
      BY <1>2, <1>3
    <3> QED
      BY <1>1, <1>2, <1>3, <1>8, <2>1, <3>1, <3>2
  <2>2. CASE k \in 1 .. Len(queue[p]) /\ queue'[p][k] = queue[p][k]
    <3>1. Open(p, queue[p][k]) /\ active[p] < queue[p][k] /\ queue[p][k] \in Nat
      BY <1>5, <1>9, <2>2 DEF EachOnce
    <3> DEFINE q == queue[p][k]
    <3>2. q <= pc' /\ Program[q].stream = p /\ first < q /\ q \notin Completed
      BY <1>10, <3>1 DEF Open
    <3>3. queue'[p][k] = q /\ active[p] < q /\ active'[p] = active[p]
      BY <1>1, <2>2, <3>1
    <3> HIDE DEF q
    <3> QED
      BY <1>2, <1>8, <3>2, <3>3
  <2>3. CASE p = s
    <3>1. Len(queue'[p]) = Len(queue[p]) + 1 /\ queue'[p][Len(queue[p]) + 1] = c
          /\ \A j \in 1 .. Len(queue[p]) : queue'[p][j] = queue[p][j]
      <4>1. queue'[p] = Append(queue[p], c) /\ queue[p] \in Seq(Transfers) /\ c \in Transfers
        BY <1>3, <1>6, <1>9, <2>3
      <4> QED
        BY <4>1, AppendFacts
    <3>2. k \in 1 .. Len(queue[p]) \/ k = Len(queue[p]) + 1
      BY <1>9, <3>1
    <3> QED
      BY <2>1, <2>2, <2>3, <3>1, <3>2
  <2>4. CASE p # s
    <3>1. queue'[p] = queue[p]
      BY <1>6, <2>4
    <3> QED
      BY <2>2, <3>1
  <2> QED
    BY <2>3, <2>4
<1>13. ASSUME NEW p \in Streams, NEW j \in 1 .. Len(queue'[p]), NEW k \in 1 .. Len(queue'[p]), j < k
       PROVE  queue'[p][j] < queue'[p][k]
  <2>1. \A a, b \in 1 .. Len(queue[p]) : a < b => queue[p][a] < queue[p][b]
    BY <1>5 DEF EachOnce
  <2>2. CASE p # s
    <3>1. queue'[p] = queue[p]
      BY <1>6, <2>2
    <3> QED
      BY <1>13, <2>1, <3>1
  <2>3. CASE p = s
    <3>1. Len(queue'[p]) = Len(queue[p]) + 1 /\ queue'[p][Len(queue[p]) + 1] = c
          /\ \A i \in 1 .. Len(queue[p]) : queue'[p][i] = queue[p][i]
      <4>1. queue'[p] = Append(queue[p], c) /\ queue[p] \in Seq(Transfers) /\ c \in Transfers
        BY <1>3, <1>6, <1>9, <2>3
      <4> QED
        BY <4>1, AppendFacts
    <3>2. j \in 1 .. Len(queue[p]) /\ (k \in 1 .. Len(queue[p]) \/ k = Len(queue[p]) + 1)
      BY <1>9, <1>13, <3>1
    <3>3. queue[p][j] \in Nat /\ queue[p][j] <= pc
      BY <1>5, <1>9, <3>2 DEF EachOnce, Open
    <3>4. queue[p][j] < c
      BY <1>10, <3>3
    <3>5. CASE k = Len(queue[p]) + 1
      BY <3>1, <3>2, <3>4, <3>5
    <3>6. CASE k \in 1 .. Len(queue[p])
      BY <1>13, <2>1, <3>1, <3>2, <3>6
    <3> QED
      BY <3>2, <3>5, <3>6
  <2> QED
    BY <2>2, <2>3
<1>14. \A d \in Completed' : d <= pc'
  BY <1>5, <1>8, <1>9, <1>10 DEF EachOnce
<1>15. EachOnce'
  BY <1>11, <1>12, <1>13, <1>14 DEF EachOnce, Open
<1>16. CompletionsNotified'
  <2>1. \A t : Tagged(Spent("wait"), t)' = Tagged(Spent("wait"), t) /\ Tagged(Own, t)' = Tagged(Own, t)
    BY <1>2, <1>8 DEF Tagged
  <2> QED
    BY <1>1, <1>2, <1>5, <1>8, <2>1 DEF CompletionsNotified
<1> QED
  BY <1>7, <1>15, <1>16 DEF IInv

(* end_cycle_phase() turns one announcement into a token and a tag.         *)
LEMMA AnnounceInv ==
  ASSUME IInv, Announce
  PROVE  IInv'
<1>1. UNCHANGED <<pc, first, queue, active, completions>>
  BY DEF Announce, engineVars
<1>2. CASE announced = <<>>
  <2>1. UNCHANGED counted
    BY <1>1, <1>2 DEF Announce, counted
  <2> QED
    BY <2>1, FrameInv
<1>3. CASE announced # <<>>
  <2> DEFINE u == Head(announced)
  <2>1. announced' = Tail(announced) /\ tokens' = tokens + 1 /\ tags' = [tags EXCEPT ![u] = @ + 1]
    BY <1>3 DEF Announce
  <2>2. announced \in Seq(Tags) /\ tokens \in Nat /\ tags \in [Tags -> Nat]
    BY DEF IInv, NotesType
  <2>3. u \in Tags /\ Tail(announced) \in Seq(Tags) /\ Len(announced') = Len(announced) - 1
        /\ Len(announced) \in Nat
    BY <1>3, <2>1, <2>2, HeadTailProperties
  <2>4. NotesType'
    BY <1>1, <2>1, <2>2, <2>3 DEF IInv, NotesType
  <2>5. Completed' = Completed /\ Own' = Own /\ \A o : Spent(o)' = Spent(o)
    BY <1>1 DEF Completed, Own, Spent, Passed
  <2>6. EachOnce'
    BY <1>1, <2>5 DEF IInv, EachOnce, Open
  <2>7. tokens' + Cardinality(Spent("sync")') + Len(announced') = Cardinality(Own')
    <3>1. tokens + Cardinality(Spent("sync")) + Len(announced) = Cardinality(Own)
      BY DEF IInv, CompletionsNotified
    <3>2. Cardinality(Spent("sync")) \in Nat
      BY Finite DEF IInv
    <3> DEFINE a == Cardinality(Spent("sync"))
               l == Len(announced)
               m == Len(announced')
    <3>3. a \in Nat /\ l \in Nat /\ m = l - 1 /\ tokens \in Nat /\ tokens' = tokens + 1
      BY <2>1, <2>2, <2>3, <3>2
    <3> HIDE DEF a, l, m
    <3>4. tokens' + a + m = tokens + a + l
      BY <3>3
    <3> QED
      BY <2>5, <3>1, <3>4 DEF a, l, m
  <2>8. ASSUME NEW t \in Tags
        PROVE  tags'[t] + Cardinality(Tagged(Spent("wait"), t)')
                 + Cardinality({k \in 1 .. Len(announced') : announced'[k] = t})
               = Cardinality(Tagged(Own, t)')
    <3> DEFINE w == Cardinality(Tagged(Spent("wait"), t))
               n == Cardinality(Waiting(announced, t))
               m == Cardinality(Waiting(Tail(announced), t))
    <3>1. tags[t] + w + n = Cardinality(Tagged(Own, t))
      BY DEF IInv, CompletionsNotified, Waiting
    <3>2. w \in Nat /\ n \in Nat /\ tags[t] \in Nat
      BY <2>2, Finite DEF IInv, Waiting
    <3>3. n = m + (IF u = t THEN 1 ELSE 0)
      BY <1>3, <2>2, WaitingTail
    <3>4. Tagged(Own, t)' = Tagged(Own, t) /\ Tagged(Spent("wait"), t)' = Tagged(Spent("wait"), t)
      BY <2>5 DEF Tagged
    <3>5. Cardinality({k \in 1 .. Len(announced') : announced'[k] = t}) = m
      BY <2>1 DEF Waiting
    <3>6. tags'[t] = tags[t] + (IF u = t THEN 1 ELSE 0)
      BY <2>1, <2>2, <2>3
    <3>7. m \in Nat
      <4>1. IsFiniteSet(1 .. Len(announced')) /\ Waiting(Tail(announced), t) \subseteq 1 .. Len(announced')
        BY <2>1, <2>3, FS_Interval DEF Waiting
      <4> QED
        BY <4>1, FS_Subset, FS_CardinalityType
    <3> HIDE DEF w, n, m, u
    <3>8. tags'[t] + w + m = tags[t] + w + n
      BY <3>2, <3>3, <3>6, <3>7
    <3> QED
      BY <3>1, <3>4, <3>5, <3>8 DEF w
  <2>9. CompletionsNotified'
    BY <2>7, <2>8 DEF CompletionsNotified
  <2> QED
    BY <2>4, <2>6, <2>9 DEF IInv
<1> QED
  BY <1>2, <1>3

(* reset_program(): nothing of the old program is open or counted.          *)
LEMMA ResetProgramInv ==
  ASSUME IInv, ResetProgram
  PROVE  IInv'
<1>1. /\ pc < Len(Program) /\ first' = pc /\ tokens' = 0 /\ tags' = [t \in Tags |-> 0]
      /\ announced' = <<>> /\ UNCHANGED <<pc, queue, active, completions>>
      /\ \A s \in Streams : queue[s] = <<>> /\ active[s] = 0
  BY DEF ResetProgram, CanLoadProgram, engineVars
<1>2. pc \in 0 .. Len(Program) /\ pc \in Nat /\ Len(Program) \in Nat
  BY ProgramFacts DEF IInv, NotesType
<1>3. NotesType'
  <2>1. first' \in 0 .. pc' /\ first' < Len(Program) /\ <<>> \in Seq(Tags)
    BY <1>1, <1>2
  <2>2. announced' \in Seq(Tags) /\ tags' \in [Tags -> Nat] /\ tokens' \in Nat
    BY <1>1, <2>1
  <2> QED
    BY <1>1, <2>1, <2>2 DEF IInv, NotesType
<1>4. Completed' = Completed /\ Completed \subseteq Nat /\ \A c \in Completed : c <= pc
  BY <1>1, CommandNumbers DEF IInv, EachOnce, Completed
<1>5. EachOnce'
  <2>1. \A s \in Streams : 1 .. Len(queue'[s]) = {} /\ active'[s] = 0
    BY <1>1
  <2> QED
    BY <1>1, <1>4, <2>1 DEF EachOnce
<1>6. Own' = {} /\ \A o : Spent(o)' = {}
  <2>1. \A c \in Completed : ~(c > pc)
    BY <1>2, <1>4
  <2>2. \A c \in 1 .. pc : ~(c > pc)
    BY <1>2
  <2>3. Own' = {c \in Completed : c > pc}
    BY <1>1, <1>4 DEF Own
  <2>4. \A o : Spent(o)' = {c \in Passed(o) : c > pc}
    BY <1>1 DEF Spent, Passed
  <2>5. \A o : Passed(o) \subseteq 1 .. pc
    BY DEF Passed
  <2> QED
    BY <2>1, <2>2, <2>3, <2>4, <2>5
<1>7. CompletionsNotified'
  <2>1. Len(announced') = 0 /\ \A t : {k \in 1 .. Len(announced') : announced'[k] = t} = {}
    BY <1>1
  <2>2. \A o, t : Tagged(Spent(o), t)' = {} /\ Tagged(Own, t)' = {}
    BY <1>6 DEF Tagged
  <2>3. Cardinality({}) = 0
    BY FS_EmptySet
  <2>4. tokens' + Cardinality(Spent("sync")') + Len(announced') = Cardinality(Own')
    <3>1. Cardinality(Spent("sync")') = 0 /\ Cardinality(Own') = 0
      BY <1>6, <2>3
    <3> QED
      BY <1>1, <2>1, <3>1
  <2>5. ASSUME NEW t \in Tags
        PROVE  tags'[t] + Cardinality(Tagged(Spent("wait"), t)')
                 + Cardinality({k \in 1 .. Len(announced') : announced'[k] = t})
               = Cardinality(Tagged(Own, t)')
    <3>1. Cardinality(Tagged(Spent("wait"), t)') = 0 /\ Cardinality(Tagged(Own, t)') = 0
      BY <2>2, <2>3
    <3>2. Cardinality({k \in 1 .. Len(announced') : announced'[k] = t}) = 0
      BY <2>1, <2>3
    <3>3. tags'[t] = 0
      BY <1>1
    <3> QED
      BY <3>1, <3>2, <3>3
  <2> QED
    BY <2>4, <2>5 DEF CompletionsNotified
<1> QED
  BY <1>3, <1>5, <1>7 DEF IInv

(* What is left of a queue whose head is started.                           *)
LEMMA TailFacts ==
  ASSUME NEW T, NEW q \in Seq(T), q # <<>>
  PROVE  /\ Len(q) \in Nat \ {0} /\ Head(q) = q[1] /\ q[1] \in T
         /\ Tail(q) \in Seq(T) /\ Len(Tail(q)) = Len(q) - 1
         /\ \A k \in 1 .. Len(Tail(q)) : /\ k + 1 \in 1 .. Len(q) /\ 1 < k + 1
                                         /\ Tail(q)[k] = q[k + 1]
<1>1. Len(q) \in Nat \ {0} /\ Head(q) = q[1] /\ q[1] \in T
  OBVIOUS
<1>2. Tail(q) \in Seq(T) /\ Len(Tail(q)) = Len(q) - 1
  BY <1>1, HeadTailProperties
<1>3. \A k \in 1 .. Len(Tail(q)) : k \in 1 .. (Len(q) - 1) /\ k + 1 \in 1 .. Len(q) /\ 1 < k + 1
  BY <1>1, <1>2
<1>4. \A k \in 1 .. (Len(q) - 1) : Tail(q)[k] = q[k + 1]
  BY <1>1, HeadTailProperties
<1> QED
  BY <1>1, <1>2, <1>3, <1>4

(* A stream works on command c, which leaves the queue if it was there.     *)
WorksOn(s, c) ==
  /\ c = Starting(s) /\ c # 0
  /\ queue' = [queue EXCEPT ![s] = IF c # active[s] THEN Tail(@) ELSE @]

(* It is open, and comes before the commands that stay in the queue.        *)
Ahead(s, c) ==
  /\ c \in Transfers /\ Open(s, c)
  /\ queue' \in [Streams -> Seq(Transfers)]
  /\ \A p \in Streams \ {s} : queue'[p] = queue[p]
  /\ \A k \in 1 .. Len(queue'[s]) :
       Open(s, queue'[s][k]) /\ c < queue'[s][k] /\ queue'[s][k] \in Transfers
  /\ \A j, k \in 1 .. Len(queue'[s]) : j < k => queue'[s][j] < queue'[s][k]

LEMMA StartFacts ==
  ASSUME IInv, NEW s \in Streams, NEW c, WorksOn(s, c)
  PROVE  Ahead(s, c)
<1>0. c = Starting(s) /\ c # 0
      /\ queue' = [queue EXCEPT ![s] = IF c # active[s] THEN Tail(@) ELSE @]
  BY DEF WorksOn
<1>1. NotesType /\ EachOnce
  BY DEF IInv
<1>2. queue \in [Streams -> Seq(Transfers)] /\ active[s] \in Transfers \cup {0}
      /\ queue[s] \in Seq(Transfers)
  BY <1>1 DEF NotesType
<1>3. Transfers \subseteq Nat \ {0} /\ Len(queue[s]) \in Nat
      /\ \A k \in 1 .. Len(queue[s]) : queue[s][k] \in Transfers
  BY <1>1, CommandNumbers
<1>4. /\ \A k \in 1 .. Len(queue[s]) : Open(s, queue[s][k]) /\ active[s] < queue[s][k]
      /\ \A j, k \in 1 .. Len(queue[s]) : j < k => queue[s][j] < queue[s][k]
      /\ active[s] # 0 => Open(s, active[s])
  BY <1>1 DEF EachOnce
<1>5. \A p \in Streams \ {s} : queue'[p] = queue[p]
  BY <1>0, <1>2
<1>6. CASE active[s] = 0 /\ queue[s] # <<>>
  <2> DEFINE q == queue[s]
  <2>1. c = Head(q)
    BY <1>0, <1>6 DEF Starting
  <2>2. queue'[s] = Tail(q)
    BY <1>0, <1>2, <1>6, <2>1
  <2>3. /\ Len(q) \in Nat \ {0} /\ Head(q) = q[1] /\ q[1] \in Transfers
        /\ Tail(q) \in Seq(Transfers) /\ Len(Tail(q)) = Len(q) - 1
        /\ \A k \in 1 .. Len(Tail(q)) : k + 1 \in 1 .. Len(q) /\ 1 < k + 1 /\ Tail(q)[k] = q[k + 1]
    BY <1>2, <1>6, TailFacts
  <2>4. /\ \A k \in 1 .. Len(q) : Open(s, q[k]) /\ q[k] \in Transfers
        /\ \A j, k \in 1 .. Len(q) : j < k => q[j] < q[k]
    BY <1>3, <1>4
  <2> HIDE DEF q
  <2>5. 1 \in 1 .. Len(q)
    BY <2>3
  <2>6. c \in Transfers /\ Open(s, c)
    BY <2>1, <2>3, <2>4, <2>5
  <2>7. queue' \in [Streams -> Seq(Transfers)]
    <3>1. queue' = [queue EXCEPT ![s] = Tail(q)]
      BY <1>0, <1>2, <2>2
    <3> QED
      BY <1>2, <2>3, <3>1
  <2>8. ASSUME NEW k \in 1 .. Len(Tail(q))
        PROVE  Open(s, Tail(q)[k]) /\ c < Tail(q)[k] /\ Tail(q)[k] \in Transfers
    BY <2>1, <2>3, <2>4, <2>5
  <2>9. ASSUME NEW j \in 1 .. Len(Tail(q)), NEW k \in 1 .. Len(Tail(q)), j < k
        PROVE  Tail(q)[j] < Tail(q)[k]
    <3>1. j + 1 < k + 1
      BY <2>9
    <3> QED
      BY <2>3, <2>4, <3>1
  <2> QED
    BY <1>5, <2>2, <2>6, <2>7, <2>8, <2>9 DEF Ahead
<1>7. CASE ~(active[s] = 0 /\ queue[s] # <<>>)
  <2>1. c = active[s]
    BY <1>0, <1>7 DEF Starting
  <2>2. queue' = queue
    BY <1>0, <1>2, <2>1
  <2>3. c \in Transfers /\ Open(s, c)
    BY <1>0, <1>2, <1>4, <2>1
  <2> QED
    BY <1>2, <1>3, <1>4, <2>1, <2>2, <2>3 DEF Ahead
<1> QED
  BY <1>6, <1>7

(* A stream goes on with a command.                                         *)
LEMMA WorkingInv ==
  ASSUME IInv, NEW s \in Streams, NEW c, WorksOn(s, c),
         active' = [active EXCEPT ![s] = c],
         UNCHANGED <<icuVars, noteVars>>
  PROVE  IInv'
<1>1. UNCHANGED <<pc, first, tokens, tags, completions, announced>>
  BY DEF icuVars, noteVars
<1>2. /\ c \in Transfers /\ Open(s, c)
      /\ queue' \in [Streams -> Seq(Transfers)]
      /\ \A p \in Streams \ {s} : queue'[p] = queue[p]
      /\ \A k \in 1 .. Len(queue'[s]) : Open(s, queue'[s][k]) /\ c < queue'[s][k]
      /\ \A j, k \in 1 .. Len(queue'[s]) : j < k => queue'[s][j] < queue'[s][k]
  BY StartFacts DEF Ahead
<1>3. active \in [Streams -> Transfers \cup {0}] /\ EachOnce
  BY DEF IInv, NotesType
<1>4. /\ active'[s] = c /\ active' \in [Streams -> Transfers \cup {0}]
      /\ \A p \in Streams \ {s} : active'[p] = active[p]
  BY <1>2, <1>3
<1>5. NotesType'
  BY <1>1, <1>2, <1>4 DEF IInv, NotesType
<1>6. Completed' = Completed /\ Own' = Own /\ \A o : Spent(o)' = Spent(o)
  BY <1>1 DEF Completed, Own, Spent, Passed
<1>7. EachOnce'
  <2>1. ASSUME NEW p \in Streams, active'[p] # 0
        PROVE  Open(p, active'[p])
    <3>1. CASE p = s
      BY <1>2, <1>4, <3>1
    <3>2. CASE p # s
      BY <1>3, <1>4, <2>1, <3>2 DEF EachOnce
    <3> QED
      BY <3>1, <3>2
  <2>2. ASSUME NEW p \in Streams, NEW k \in 1 .. Len(queue'[p])
        PROVE  Open(p, queue'[p][k]) /\ active'[p] < queue'[p][k]
    <3>1. CASE p = s
      BY <1>2, <1>4, <3>1
    <3>2. CASE p # s
      BY <1>2, <1>3, <1>4, <3>2 DEF EachOnce
    <3> QED
      BY <3>1, <3>2
  <2>3. ASSUME NEW p \in Streams, NEW j \in 1 .. Len(queue'[p]), NEW k \in 1 .. Len(queue'[p]), j < k
        PROVE  queue'[p][j] < queue'[p][k]
    <3>1. CASE p = s
      BY <1>2, <2>3, <3>1
    <3>2. CASE p # s
      BY <1>2, <1>3, <2>3, <3>2 DEF EachOnce
    <3> QED
      BY <3>1, <3>2
  <2>4. \A d \in Completed : d <= pc
    BY <1>3 DEF EachOnce
  <2>5. \A p, d : (Program[d].stream = p /\ first' < d /\ d <= pc' /\ d \notin Completed') <=> Open(p, d)
    BY <1>1, <1>6 DEF Open
  <2> QED
    BY <1>1, <1>6, <2>1, <2>2, <2>3, <2>4, <2>5 DEF EachOnce, Open
<1>8. CompletionsNotified'
  <2>1. \A C, t : Tagged(C, t)' = Tagged(C, t)
    BY DEF Tagged
  <2> QED
    BY <1>1, <1>6, <2>1 DEF IInv, CompletionsNotified
<1> QED
  BY <1>5, <1>7, <1>8 DEF IInv

(* A command completes: it is recorded, and its tag announced.              *)
LEMMA CompleteInv ==
  ASSUME IInv, NEW s \in Streams, NEW c, WorksOn(s, c),
         active' = [active EXCEPT ![s] = 0],
         completions' = Append(completions, c),
         announced' = Append(announced, Program[c].tag),
         UNCHANGED icuVars
  PROVE  IInv'
<1> DEFINE u == Program[c].tag
<1>1. UNCHANGED <<pc, first, tokens, tags>>
  BY DEF icuVars
<1>2. /\ c \in Transfers /\ Open(s, c)
      /\ queue' \in [Streams -> Seq(Transfers)]
      /\ \A p \in Streams \ {s} : queue'[p] = queue[p]
      /\ \A k \in 1 .. Len(queue'[s]) :
           Open(s, queue'[s][k]) /\ c < queue'[s][k] /\ queue'[s][k] \in Transfers
      /\ \A j, k \in 1 .. Len(queue'[s]) : j < k => queue'[s][j] < queue'[s][k]
  BY StartFacts DEF Ahead
<1>3. /\ active \in [Streams -> Transfers \cup {0}] /\ EachOnce /\ NotesType
      /\ completions \in Seq(Transfers) /\ announced \in Seq(Tags)
      /\ tags \in [Tags -> Nat] /\ tokens \in Nat
  BY DEF IInv, NotesType
<1>4. /\ active'[s] = 0 /\ active' \in [Streams -> Transfers \cup {0}]
      /\ \A p \in Streams \ {s} : active'[p] = active[p]
  BY <1>3
<1>5. /\ Program[c].stream = s /\ first < c /\ c <= pc /\ c \notin Completed
      /\ u \in Tags /\ Transfers \subseteq Nat \ {0}
  BY <1>2, <1>3, ProgramFacts, CommandNumbers DEF Open
<1> HIDE DEF u
<1>6. NotesType'
  <2>1. completions' \in Seq(Transfers)
    BY <1>2, <1>3
  <2>2. announced' \in Seq(Tags)
    BY <1>3, <1>5 DEF u
  <2> QED
    BY <1>1, <1>2, <1>3, <1>4, <2>1, <2>2 DEF NotesType
<1>7. Completed' = Completed \cup {c}
  <2>1. /\ Append(completions, c) \in Seq(Transfers) /\ Len(completions) \in Nat
        /\ Len(Append(completions, c)) = Len(completions) + 1
        /\ Append(completions, c)[Len(completions) + 1] = c
        /\ \A i \in 1 .. Len(completions) : Append(completions, c)[i] = completions[i]
        /\ \A k \in 1 .. Len(Append(completions, c)) :
             k \in 1 .. Len(completions) \/ k = Len(completions) + 1
    BY <1>2, <1>3, AppendFacts
  <2>2. DOMAIN completions = 1 .. Len(completions)
        /\ DOMAIN completions' = 1 .. (Len(completions) + 1)
    BY <1>3, <2>1
  <2>3. completions' = Append(completions, c)
    OBVIOUS
  <2>4. Completed = {completions[k] : k \in 1 .. Len(completions)}
        /\ Completed' = {completions'[k] : k \in 1 .. (Len(completions) + 1)}
    BY <2>2 DEF Completed
  <2> DEFINE n == Len(completions)
             after == completions'
  <2>5. 1 .. (n + 1) = (1 .. n) \cup {n + 1} /\ after[n + 1] = c
        /\ \A i \in 1 .. n : after[i] = completions[i]
    BY <2>1, <2>3
  <2>6. Completed = {completions[k] : k \in 1 .. n} /\ Completed' = {after[k] : k \in 1 .. (n + 1)}
    BY <2>4
  <2> HIDE DEF n, after
  <2> QED
    BY <2>5, <2>6
<1>8. Own' = Own \cup {c} /\ c \notin Own
  <2>1. \A d \in {c} : d > first
    BY <1>2, <1>3, <1>5, ProgramFacts DEF NotesType
  <2>2. Own' = {d \in Completed \cup {c} : d > first}
    BY <1>1, <1>7 DEF Own
  <2> QED
    BY <1>5, <2>1, <2>2 DEF Own
<1>9. \A o : Spent(o)' = Spent(o)
  BY <1>1 DEF Spent, Passed
<1>10. EachOnce'
  <2>1. \A p, d : Open(p, d) /\ d # c =>
          Program[d].stream = p /\ first' < d /\ d <= pc' /\ d \notin Completed'
    BY <1>1, <1>7 DEF Open
  <2>2. \A p \in Streams \ {s} : \A d : Open(p, d) => d # c
    BY <1>5 DEF Open
  <2>3. ASSUME NEW p \in Streams, active'[p] # 0
        PROVE  Open(p, active'[p]) /\ active'[p] # c
    <3>1. p # s
      BY <1>4, <2>3
    <3>2. Open(p, active'[p])
      BY <1>3, <1>4, <2>3, <3>1 DEF EachOnce
    <3> QED
      BY <2>2, <3>1, <3>2
  <2>4. ASSUME NEW p \in Streams, NEW k \in 1 .. Len(queue'[p])
        PROVE  Open(p, queue'[p][k]) /\ queue'[p][k] # c /\ active'[p] < queue'[p][k]
    <3>1. CASE p = s
      <4> DEFINE q == queue'[p][k]
      <4>1. Open(p, q) /\ c < q /\ q \in Transfers
        BY <1>2, <3>1
      <4>2. q \in Nat \ {0} /\ c \in Nat
        BY <1>2, <1>5, <4>1
      <4>3. active'[p] = 0
        BY <1>4, <3>1
      <4> HIDE DEF q
      <4>4. q # c /\ 0 < q
        BY <4>1, <4>2
      <4> QED
        BY <4>1, <4>3, <4>4 DEF q
    <3>2. CASE p # s
      <4>1. queue'[p] = queue[p] /\ active'[p] = active[p]
        BY <1>2, <1>4, <3>2
      <4>2. Open(p, queue'[p][k]) /\ active'[p] < queue'[p][k]
        BY <1>3, <4>1 DEF EachOnce
      <4> QED
        BY <2>2, <3>2, <4>2
    <3> QED
      BY <3>1, <3>2
  <2>5. ASSUME NEW p \in Streams, NEW j \in 1 .. Len(queue'[p]), NEW k \in 1 .. Len(queue'[p]), j < k
        PROVE  queue'[p][j] < queue'[p][k]
    <3>1. CASE p = s
      BY <1>2, <2>5, <3>1
    <3>2. CASE p # s
      BY <1>2, <1>3, <2>5, <3>2 DEF EachOnce
    <3> QED
      BY <3>1, <3>2
  <2>6. \A d \in Completed' : d <= pc'
    BY <1>1, <1>3, <1>5, <1>7 DEF EachOnce
  <2>7. ASSUME NEW p \in Streams, active'[p] # 0
        PROVE  /\ Program[active'[p]].stream = p /\ first' < active'[p] /\ active'[p] <= pc'
               /\ active'[p] \notin Completed'
    BY <2>1, <2>3, <2>7
  <2>8. ASSUME NEW p \in Streams, NEW k \in 1 .. Len(queue'[p])
        PROVE  /\ Program[queue'[p][k]].stream = p /\ first' < queue'[p][k] /\ queue'[p][k] <= pc'
               /\ queue'[p][k] \notin Completed' /\ active'[p] < queue'[p][k]
    BY <2>1, <2>4
  <2> QED
    BY <2>5, <2>6, <2>7, <2>8 DEF EachOnce, Open
<1>11. IsFiniteSet(Own) /\ Cardinality(Own) \in Nat /\ Cardinality(Spent("sync")) \in Nat
  BY <1>3, Finite
<1>12. tokens' + Cardinality(Spent("sync")') + Len(announced') = Cardinality(Own')
  <2>1. tokens + Cardinality(Spent("sync")) + Len(announced) = Cardinality(Own)
    BY DEF IInv, CompletionsNotified
  <2>2. Cardinality(Own') = Cardinality(Own) + 1
    BY <1>8, <1>11, OneMore
  <2> DEFINE a == Cardinality(Spent("sync"))
             l == Len(announced)
             m == Len(announced')
             o == Cardinality(Own)
  <2>3. a \in Nat /\ l \in Nat /\ m = l + 1 /\ tokens \in Nat /\ tokens' = tokens /\ o \in Nat
    BY <1>1, <1>3, <1>5, <1>11 DEF u
  <2>4. tokens + a + l = o
    BY <2>1
  <2> HIDE DEF a, l, m, o
  <2>5. tokens' + a + m = o + 1
    BY <2>3, <2>4
  <2> QED
    BY <1>9, <2>2, <2>5 DEF a, m, o
<1>13. ASSUME NEW t \in Tags
       PROVE  tags'[t] + Cardinality(Tagged(Spent("wait"), t)')
                + Cardinality({k \in 1 .. Len(announced') : announced'[k] = t})
              = Cardinality(Tagged(Own, t)')
  <2> DEFINE w == Cardinality(Tagged(Spent("wait"), t))
             n == Cardinality(Waiting(announced, t))
             m == Cardinality(Waiting(Append(announced, u), t))
             o == Cardinality(Tagged(Own, t))
             p == Cardinality(Tagged(Own, t)')
  <2>1. tags[t] + w + n = o
    BY DEF IInv, CompletionsNotified, Waiting
  <2>2. w \in Nat /\ n \in Nat /\ o \in Nat /\ tags[t] \in Nat /\ IsFiniteSet(Tagged(Own, t))
    BY <1>3, Finite DEF Waiting
  <2>3. m = n + (IF u = t THEN 1 ELSE 0)
    BY <1>3, <1>5, WaitingAppend
  <2>4. Tagged(Spent("wait"), t)' = Tagged(Spent("wait"), t)
    BY <1>9 DEF Tagged
  <2>5. Cardinality({k \in 1 .. Len(announced') : announced'[k] = t}) = m
    BY DEF Waiting, u
  <2>6. p = o + (IF u = t THEN 1 ELSE 0)
    <3>1. CASE u = t
      <4>1. Tagged(Own, t)' = Tagged(Own, t) \cup {c} /\ c \notin Tagged(Own, t)
        BY <1>8, <3>1 DEF Tagged, u
      <4>2. Cardinality(Tagged(Own, t) \cup {c}) = Cardinality(Tagged(Own, t)) + 1
        BY <2>2, <4>1, OneMore
      <4> QED
        BY <3>1, <4>1, <4>2
    <3>2. CASE u # t
      <4>1. Tagged(Own, t)' = Tagged(Own, t)
        BY <1>8, <3>2 DEF Tagged, u
      <4>2. p = o
        BY <4>1
      <4> HIDE DEF p, o
      <4> QED
        BY <2>2, <3>2, <4>2
    <3> QED
      BY <3>1, <3>2
  <2>7. tags'[t] = tags[t]
    BY <1>1
  <2> HIDE DEF w, n, m, o, p
  <2>8. tags'[t] + w + m = p
    BY <2>1, <2>2, <2>3, <2>6, <2>7
  <2> QED
    BY <2>4, <2>5, <2>8 DEF w, p
<1>14. CompletionsNotified'
  BY <1>12, <1>13 DEF CompletionsNotified
<1> QED
  BY <1>6, <1>10, <1>14 DEF IInv

(* finish_transfer_if_complete(), at the end of tick_load() and             *)
(* tick_store().                                                            *)
LEMMA EngineInv ==
  ASSUME IInv, NEW s \in Streams, NEW r, NEW d, Starting(s) # 0,
         Finish(s, Starting(s), r, d), EndTick(s, Starting(s)), UNCHANGED icuVars
  PROVE  IInv'
<1>1. PICK c : c = Starting(s)
  OBVIOUS
<1>2. WorksOn(s, c)
  BY <1>1 DEF WorksOn, EndTick
<1>3. CASE Completes(c, r, d)
  <2>1. /\ active' = [active EXCEPT ![s] = 0]
        /\ completions' = Append(completions, c)
        /\ announced' = Append(announced, Program[c].tag)
    BY <1>1, <1>3 DEF Finish
  <2> QED
    BY <1>2, <2>1, CompleteInv
<1>4. CASE ~Completes(c, r, d)
  <2>1. active' = [active EXCEPT ![s] = c] /\ UNCHANGED noteVars
    BY <1>1, <1>4 DEF Finish
  <2>2. UNCHANGED <<icuVars, noteVars>>
    BY <2>1
  <2> QED
    BY <1>2, <2>1, <2>2, WorkingInv
<1> QED
  BY <1>3, <1>4

LEMMA IdleTickInv ==
  ASSUME IInv, NEW s \in Streams, IdleTick(s)
  PROVE  IInv'
<1>1. active[s] = 0
  <2>1. queue[s] \in Seq(Transfers) /\ Transfers \subseteq Nat \ {0}
    BY CommandNumbers DEF IInv, NotesType
  <2>2. queue[s] # <<>> => Head(queue[s]) # 0
    BY <2>1
  <2> QED
    BY <2>2 DEF IdleTick, Starting
<1>2. queue' = queue
  <2>1. queue \in [Streams -> Seq(Transfers)]
    BY DEF IInv, NotesType
  <2> QED
    BY <1>1, <2>1 DEF IdleTick, EndTick
<1>3. UNCHANGED counted
  BY <1>2 DEF IdleTick, icuVars, noteVars, counted
<1> QED
  BY <1>3, FrameInv

LEMMA TickLoadInv ==
  ASSUME IInv, NEW s \in Streams, TickLoad(s)
  PROVE  IInv'
<1>1. \E r, d : Finish(s, Starting(s), r, d)
  BY DEF TickLoad
<1>2. Starting(s) # 0 /\ EndTick(s, Starting(s)) /\ UNCHANGED icuVars
  BY DEF TickLoad
<1> QED
  BY <1>1, <1>2, EngineInv

LEMMA TickStoreInv ==
  ASSUME IInv, NEW s \in Streams, TickStore(s)
  PROVE  IInv'
<1>1. Starting(s) # 0 /\ UNCHANGED icuVars
  BY DEF TickStore
<1>2. \/ UNCHANGED <<engineVars, noteVars>>
      \/ EndTick(s, Starting(s)) /\ \E r, d : Finish(s, Starting(s), r, d)
  BY DEF TickStore
<1>3. CASE UNCHANGED <<engineVars, noteVars>>
  <2>1. UNCHANGED counted
    BY <1>1, <1>3 DEF icuVars, engineVars, noteVars, counted
  <2> QED
    BY <2>1, FrameInv
<1>4. CASE EndTick(s, Starting(s)) /\ \E r, d : Finish(s, Starting(s), r, d)
  BY <1>1, <1>4, EngineInv
<1> QED
  BY <1>2, <1>3, <1>4

(* The slices and the DDR touch neither commands nor notifications.         *)
LEMMA OthersInv ==
  ASSUME IInv, NoDispatch \/ Slices \/ DdrTick
  PROVE  IInv'
<1>1. UNCHANGED <<icuVars, engineVars, noteVars>>
  BY DEF NoDispatch, Slices, DdrTick
<1>2. UNCHANGED counted
  BY <1>1 DEF icuVars, engineVars, noteVars, counted
<1> QED
  BY <1>2, FrameInv
----------------------------------------------------------------------------
LEMMA NextInv == IInv /\ [Next]_vars => IInv'
<1> SUFFICES ASSUME IInv, [Next]_vars PROVE IInv'
  OBVIOUS
<1>1. CASE Issue
  BY <1>1, IssueInv
<1>2. CASE ReleaseSync
  BY <1>2, ReleaseSyncInv
<1>3. CASE ReleaseWait
  BY <1>3, ReleaseWaitInv
<1>4. CASE NoDispatch \/ Slices \/ DdrTick
  BY <1>4, OthersInv
<1>5. CASE ResetProgram
  BY <1>5, ResetProgramInv
<1>6. ASSUME NEW s \in Streams, IdleTick(s) \/ TickLoad(s) \/ TickStore(s)
      PROVE  IInv'
  BY <1>6, IdleTickInv, TickLoadInv, TickStoreInv
<1>7. CASE Announce
  BY <1>7, AnnounceInv
<1>8. CASE UNCHANGED vars
  <2>1. UNCHANGED counted
    BY <1>8 DEF vars, icuVars, engineVars, noteVars, counted
  <2> QED
    BY <2>1, FrameInv
<1> QED
  BY <1>1, <1>2, <1>3, <1>4, <1>5, <1>6, <1>7, <1>8 DEF Next

(* In every reachable state the commands a stream holds were issued to it   *)
(* by the program that is loaded, each once and in program order, none of   *)
(* them has completed, nothing completes before it is issued, and the       *)
(* notifications balance.                                                   *)
THEOREM Invariance == Spec => []IInv
<1>1. Init => IInv
  BY InitInv
<1>2. IInv /\ [Next]_vars => IInv'
  BY NextInv
<1> QED
  BY <1>1, <1>2, PTL DEF Spec

(* Every completion of the loaded program becomes exactly one token and one *)
(* tag of its ICU queue, also when several streams complete in one cycle    *)
(* and across a switch of programs: SYNC and WAIT_EVENT are never released  *)
(* by a completion that did not happen, that was spent before, or that an   *)
(* earlier program owed.                                                    *)
THEOREM NotificationsExact == Spec => []CompletionsNotified
<1>1. IInv => CompletionsNotified
  BY DEF IInv
<1> QED
  BY <1>1, Invariance, PTL

(* The engine never works on a command twice, on two streams, or on one the *)
(* ICU queue has not issued.                                                *)
THEOREM CommandsOnce == Spec => []EachOnce
<1>1. IInv => EachOnce
  BY DEF IInv
<1> QED
  BY <1>1, Invariance, PTL
----------------------------------------------------------------------------
(* Vectors of one kind that a stream moves in the commands before c.        *)
Chosen(s, op, c) == Program[c].op = op /\ Program[c].stream = s
Before(s, op, c) == Cardinality({v \in Vectors : v[1] < c /\ Chosen(s, op, v[1])})

(* The first command of a stream that is not over.                          *)
Front(s) ==
  IF active[s] # 0 THEN active[s] ELSE IF queue[s] # <<>> THEN Head(queue[s]) ELSE pc + 1

(* How many vectors a stream has moved, n of them for the command under way.*)
Position(s, op, n) ==
  Before(s, op, Front(s)) + (IF active[s] # 0 /\ Program[active[s]].op = op THEN n ELSE 0)

Item    == [cmd : Transfers, index : Nat, data : Vectors \cup {Initial}]
Request == [id : Vectors, op : {"load", "store"}, data : Vectors \cup {Initial}]

DataType ==
  /\ next \in [Streams -> Nat] /\ done \in [Streams -> Nat] /\ sent \in [Streams -> Nat]
  /\ pending \in [Streams -> Seq(Vectors)] /\ outbound \in [Streams -> Seq(Vectors)]
  /\ inbound \in [Streams -> Seq(Item)] /\ received \in [Streams -> Seq(Item)]
  /\ requests \cup answers \subseteq Request
  /\ IsFiniteSet(requests) /\ Cardinality(requests) <= RequestDepth
  /\ memory \in [Rows -> Vectors \cup {Initial}]
  /\ stage \in {"dispatch", "slices", "dma", "announce", "ddr"}
  /\ turn \in 0 .. NumStreams /\ fault \in {"none", "outside"}

(* No command is lost: those issued are held by their stream or over, and   *)
(* those that are over come before those held.                              *)
Held(s, c) == c = active[s] \/ \E k \in 1 .. Len(queue[s]) : queue[s][k] = c
InLine ==
  /\ \A c \in Transfers : c <= pc => c \in Completed \/ Held(Program[c].stream, c)
  /\ \A c \in Completed : c < Front(Program[c].stream)

(* What is outstanding are the vectors of the command under way from the    *)
(* last one that was answered to the last one requested.                    *)
Underway ==
  \A s \in Streams :
    /\ active[s] = 0 => next[s] = 0
    /\ active[s] # 0 => next[s] <= Count(active[s])
    /\ next[s] = done[s] + Len(pending[s])
    /\ \A k \in 1 .. Len(pending[s]) : pending[s][k] = <<active[s], done[s] + k>>

(* DDR holds or has answered each of them, once.                            *)
Requested ==
  /\ \A r \in requests \cup answers : r.op = Program[r.id[1]].op
  /\ \A p, q \in requests : p.id = q.id => p = q
  /\ \A p \in requests, q \in answers : p.id # q.id
  /\ \A s \in Streams : Outstanding(s) = Seqs!ToSet(pending[s])

(* Every FIFO is within its depth, and room is reserved for every read.     *)
Fits ==
  \A s \in Streams :
    /\ Len(inbound[s]) <= FifoDepth /\ Len(outbound[s]) <= FifoDepth
    /\ Len(pending[s]) <= FifoDepth
    /\ (active[s] # 0 /\ Program[active[s]].op = "load") =>
         Len(pending[s]) + Len(inbound[s]) <= FifoDepth

(* RX is given the vectors of the loads, in order.                          *)
Delivered ==
  \A s \in Streams :
    /\ Len(received[s]) + Len(inbound[s]) = Position(s, "load", done[s])
    /\ \A k \in 1 .. Len(Taken(s)) :
         <<Taken(s)[k].cmd, Taken(s)[k].index>> = Slots[s]["load"][k]

(* And a store is given its own vectors, in order.                          *)
Supplied ==
  /\ \A s \in Streams :
       /\ sent[s] <= Len(Slots[s]["store"])
       /\ sent[s] = Position(s, "store", next[s]) + Len(outbound[s])
       /\ \A k \in 1 .. Len(outbound[s]) :
            outbound[s][k] = Slots[s]["store"][Position(s, "store", next[s]) + k]
  /\ \A r \in requests \cup answers : r.op = "store" => r.data = r.id

DInv == DataType /\ InLine /\ Underway /\ Requested /\ Fits /\ Delivered /\ Supplied
----------------------------------------------------------------------------
(* Vectors, and how many of them come before a command.                     *)

LEMMA VectorFacts ==
  /\ \A c \in Transfers : Count(c) \in Nat \ {0} /\ \A i \in 1 .. Count(c) : <<c, i>> \in Vectors
  /\ \A v \in Vectors : /\ v[1] \in Transfers /\ v[2] \in 1 .. Count(v[1])
                        /\ v = <<v[1], v[2]>> /\ v[1] \in Nat \ {0} /\ v[2] \in Nat \ {0}
  /\ IsFiniteSet(Vectors)
<1>1. ASSUME NEW c \in Transfers PROVE Count(c) \in Nat \ {0}
  <2>1. Program[c] \in Command /\ Count(c) > 0
    BY ProgramFacts, DmaAssumption
  <2>2. Program[c].rows \in Seq(Nat)
    BY <2>1 DEF Command
  <2> QED
    BY <2>1, <2>2 DEF Count
<1>2. ASSUME NEW c \in Transfers, NEW i \in 1 .. Count(c) PROVE <<c, i>> \in Vectors
  BY DEF Vectors
<1>3. ASSUME NEW v \in Vectors
      PROVE  /\ v[1] \in Transfers /\ v[2] \in 1 .. Count(v[1])
             /\ v = <<v[1], v[2]>> /\ v[1] \in Nat \ {0} /\ v[2] \in Nat \ {0}
  <2>1. PICK c \in Transfers : v \in {c} \X (1 .. Count(c))
    BY DEF Vectors
  <2>2. v = <<v[1], v[2]>> /\ v[1] = c /\ v[2] \in 1 .. Count(c)
    BY <2>1
  <2>3. c \in Nat \ {0} /\ Count(c) \in Nat
    BY <1>1, ProgramFacts
  <2> QED
    BY <2>2, <2>3
<1>4. IsFiniteSet(Vectors)
  <2> DEFINE S == {{c} \X (1 .. Count(c)) : c \in Transfers}
             f == [c \in Transfers |-> {c} \X (1 .. Count(c))]
  <2>1. IsFiniteSet(Transfers)
    <3>1. IsFiniteSet(1 .. Len(Program))
      BY ProgramFacts, FS_Interval
    <3>2. Transfers \in SUBSET (1 .. Len(Program))
      BY ProgramFacts
    <3> QED
      BY <3>1, <3>2, FS_Subset
  <2>2. f \in Surjection(Transfers, S)
    BY DEF Surjection
  <2>3. IsFiniteSet(S)
    <3> HIDE DEF f, S
    <3> QED
      BY <2>1, <2>2, FS_Surjection
  <2>4. \A T \in S : IsFiniteSet(T)
    <3> SUFFICES ASSUME NEW c \in Transfers PROVE IsFiniteSet({c} \X (1 .. Count(c)))
      OBVIOUS
    <3>1. IsFiniteSet({c})
      BY FS_Singleton
    <3>2. IsFiniteSet(1 .. Count(c))
      BY <1>1, FS_Interval
    <3> QED
      BY <3>1, <3>2, FS_Product
  <2>5. Vectors = UNION S
    BY DEF Vectors
  <2> HIDE DEF S
  <2> QED
    BY <2>3, <2>4, <2>5, FS_UNION
<1> QED
  BY <1>1, <1>2, <1>3, <1>4

Earliest(s, op, c) == {v \in Vectors : v[1] < c /\ Chosen(s, op, v[1])}

(* Before counts a finite set, from nothing, and grows with the command.    *)
LEMMA BeforeFacts ==
  ASSUME NEW s, NEW op
  PROVE  /\ \A c : IsFiniteSet(Earliest(s, op, c)) /\ Before(s, op, c) = Cardinality(Earliest(s, op, c))
                   /\ Before(s, op, c) \in Nat
         /\ Before(s, op, 1) = 0
         /\ \A a, b \in Nat : a <= b => Before(s, op, a) <= Before(s, op, b)
<1>1. ASSUME NEW c
      PROVE  /\ IsFiniteSet(Earliest(s, op, c)) /\ Before(s, op, c) = Cardinality(Earliest(s, op, c))
             /\ Before(s, op, c) \in Nat
  <2>1. Earliest(s, op, c) \in SUBSET Vectors
    BY DEF Earliest
  <2>2. IsFiniteSet(Earliest(s, op, c))
    BY <2>1, VectorFacts, FS_Subset
  <2> QED
    BY <2>2, FS_CardinalityType DEF Before, Earliest
<1>2. Before(s, op, 1) = 0
  <2>1. Earliest(s, op, 1) = {}
    BY VectorFacts DEF Earliest
  <2> QED
    BY <1>1, <2>1, FS_EmptySet
<1>3. ASSUME NEW a \in Nat, NEW b \in Nat, a <= b PROVE Before(s, op, a) <= Before(s, op, b)
  <2>1. Earliest(s, op, a) \in SUBSET Earliest(s, op, b)
    BY <1>3, VectorFacts DEF Earliest
  <2> QED
    BY <1>1, <2>1, FS_Subset
<1> QED
  BY <1>1, <1>2, <1>3

(* A command of the stream adds its vectors to the count, others nothing.   *)
LEMMA BeforeNext ==
  ASSUME NEW s, NEW op \in {"load", "store"}, NEW c \in Commands
  PROVE  Before(s, op, c + 1) = Before(s, op, c) + (IF Chosen(s, op, c) THEN Count(c) ELSE 0)
<1>0. c \in Nat \ {0}
  BY ProgramFacts
<1>1. \A v \in Vectors : v[1] < c + 1 <=> v[1] < c \/ v[1] = c
  BY <1>0, VectorFacts
<1>2. CASE Chosen(s, op, c)
  <2> DEFINE A == Earliest(s, op, c)
             N == {c} \X (1 .. Count(c))
             n == Count(c)
  <2>1. c \in Transfers /\ n \in Nat
    BY <1>2, VectorFacts DEF Chosen, Transfers
  <2>2. Earliest(s, op, c + 1) = A \cup N
    <3>1. \A v \in N : v \in Vectors /\ v[1] = c
      BY <2>1, VectorFacts
    <3>2. \A v \in Vectors : v[1] = c => v \in N
      BY VectorFacts
    <3> QED
      BY <1>1, <1>2, <3>1, <3>2 DEF Earliest
  <2>3. A \cap N = {}
    BY <1>0 DEF Earliest
  <2>4. IsFiniteSet(N) /\ Cardinality(N) = n
    <3>1. IsFiniteSet({c}) /\ Cardinality({c}) = 1
      BY FS_Singleton
    <3>2. IsFiniteSet(1 .. n) /\ Cardinality(1 .. n) = n
      <4>1. IsFiniteSet(1 .. n) /\ Cardinality(1 .. n) = IF 1 > n THEN 0 ELSE n - 1 + 1
        BY <2>1, FS_Interval
      <4> HIDE DEF n
      <4> QED
        BY <2>1, <4>1
    <3>3. IsFiniteSet(N) /\ Cardinality(N) = 1 * n
      BY <3>1, <3>2, FS_Product
    <3> HIDE DEF n
    <3> QED
      BY <2>1, <3>3
  <2>5. IsFiniteSet(A) /\ Cardinality(A) = Before(s, op, c) /\ Before(s, op, c) \in Nat
        /\ Before(s, op, c + 1) = Cardinality(Earliest(s, op, c + 1))
    BY BeforeFacts
  <2> HIDE DEF A, N, n
  <2>6. Cardinality(A \cup N) = Cardinality(A) + n - 0
    BY <2>3, <2>4, <2>5, FS_Union, FS_EmptySet
  <2>7. Cardinality(A \cup N) = Before(s, op, c) + n
    BY <2>1, <2>5, <2>6
  <2> QED
    BY <1>2, <2>2, <2>5, <2>7 DEF n
<1>3. CASE ~Chosen(s, op, c)
  <2>1. Earliest(s, op, c + 1) = Earliest(s, op, c)
    BY <1>1, <1>3 DEF Earliest
  <2> QED
    BY <1>3, <2>1, BeforeFacts
<1> QED
  BY <1>2, <1>3

(* Commands of other streams, or of another kind, do not count.             *)
LEMMA BeforeSame ==
  ASSUME NEW s, NEW op, NEW a \in Nat, NEW b \in Nat, a <= b,
         \A c \in Transfers : a <= c /\ c < b => ~Chosen(s, op, c)
  PROVE  Before(s, op, a) = Before(s, op, b)
<1>1. Earliest(s, op, a) = Earliest(s, op, b)
  <2>1. \A v \in Vectors : v[1] \in Transfers /\ v[1] \in Nat
    BY VectorFacts
  <2>2. \A v \in Vectors : v[1] < b /\ Chosen(s, op, v[1]) => v[1] < a
    BY <2>1
  <2>3. \A v \in Vectors : v[1] < a => v[1] < b
    BY <2>1
  <2> QED
    BY <2>2, <2>3 DEF Earliest
<1> QED
  BY <1>1, BeforeFacts

(* The vectors of one kind of a stream have different positions.            *)
LEMMA OnePosition ==
  ASSUME NEW s, NEW op \in {"load", "store"}, NEW v \in Vectors, NEW w \in Vectors,
         Chosen(s, op, v[1]), Chosen(s, op, w[1]),
         Before(s, op, v[1]) + v[2] = Before(s, op, w[1]) + w[2]
  PROVE  v = w
<1>1. ASSUME NEW x \in Vectors, NEW y \in Vectors, Chosen(s, op, x[1]), x[1] < y[1]
      PROVE  Before(s, op, x[1]) + x[2] < Before(s, op, y[1]) + y[2]
  <2> DEFINE a == Before(s, op, x[1])
             b == Before(s, op, y[1])
             d == Before(s, op, x[1] + 1)
  <2>1. x[1] \in Commands /\ x[2] \in 1 .. Count(x[1]) /\ Count(x[1]) \in Nat
        /\ y[1] \in Nat /\ y[2] \in Nat \ {0} /\ x[1] \in Nat
    BY VectorFacts, ProgramFacts
  <2>2. d = a + Count(x[1])
    BY <1>1, <2>1, BeforeNext
  <2>3. x[1] + 1 <= y[1] /\ x[1] + 1 \in Nat
    BY <1>1, <2>1
  <2>4. d <= b
    BY <2>1, <2>3, BeforeFacts
  <2>5. a \in Nat /\ b \in Nat
    BY BeforeFacts
  <2> HIDE DEF a, b, d
  <2>6. a + x[2] < b + y[2]
    BY <2>1, <2>2, <2>4, <2>5
  <2> QED
    BY <2>6 DEF a, b
<1>2. Before(s, op, v[1]) \in Nat /\ Before(s, op, w[1]) \in Nat
  BY BeforeFacts
<1>3. v[1] \in Nat /\ w[1] \in Nat /\ v[2] \in Nat /\ w[2] \in Nat
      /\ v = <<v[1], v[2]>> /\ w = <<w[1], w[2]>>
  BY VectorFacts
<1>4. ~(v[1] < w[1]) /\ ~(w[1] < v[1])
  <2> DEFINE a == Before(s, op, v[1])
             b == Before(s, op, w[1])
  <2>1. v[1] < w[1] => a + v[2] < b + w[2]
    BY <1>1
  <2>2. w[1] < v[1] => b + w[2] < a + v[2]
    BY <1>1
  <2>3. a \in Nat /\ b \in Nat /\ a + v[2] = b + w[2]
    BY <1>2
  <2> HIDE DEF a, b
  <2> QED
    BY <1>3, <2>1, <2>2, <2>3
<1>5. v[1] = w[1]
  BY <1>3, <1>4
<1>6. v[2] = w[2]
  <2> DEFINE a == Before(s, op, v[1])
  <2>1. a + v[2] = a + w[2] /\ a \in Nat
    BY <1>2, <1>5
  <2> HIDE DEF a
  <2> QED
    BY <1>3, <2>1
<1> QED
  BY <1>3, <1>5, <1>6

----------------------------------------------------------------------------
(* The vectors of a stream in program order: FlattenSeq, which is recursive,*)
(* in closed form.                                                          *)

SlotAt(s, op, k) == CHOOSE v \in Vectors : Chosen(s, op, v[1]) /\ Before(s, op, v[1]) + v[2] = k
Upto(s, op, n) == [k \in 1 .. Before(s, op, n + 1) |-> SlotAt(s, op, k)]
Piece(s, op, c) == IF Chosen(s, op, c) THEN [i \in 1 .. Count(c) |-> <<c, i>>] ELSE <<>>

(* The vectors of a command are found at its own positions.                 *)
LEMMA SlotAtFacts ==
  ASSUME NEW s, NEW op \in {"load", "store"}, NEW c \in Commands, Chosen(s, op, c),
         NEW i \in 1 .. Count(c)
  PROVE  SlotAt(s, op, Before(s, op, c) + i) = <<c, i>>
<1>1. c \in Transfers
  BY DEF Chosen, Transfers
<1>2. <<c, i>> \in Vectors
  BY <1>1, VectorFacts
<1> DEFINE k == Before(s, op, c) + i
           v == <<c, i>>
<1>3. v \in Vectors /\ Chosen(s, op, v[1]) /\ Before(s, op, v[1]) + v[2] = k
  BY <1>2
<1> HIDE DEF k, v
<1>4. SlotAt(s, op, k) \in Vectors /\ Chosen(s, op, SlotAt(s, op, k)[1])
      /\ Before(s, op, SlotAt(s, op, k)[1]) + SlotAt(s, op, k)[2] = k
  BY <1>3 DEF SlotAt
<1>5. SlotAt(s, op, k) = v
  BY <1>3, <1>4, OnePosition
<1> QED
  BY <1>5 DEF k, v

(* There is a vector at every position up to the count.                     *)
LEMMA SlotAtExists ==
  ASSUME NEW s, NEW op \in {"load", "store"}, NEW n \in 0 .. Len(Program),
         NEW k \in 1 .. Before(s, op, n + 1)
  PROVE  SlotAt(s, op, k) \in Vectors
<1> DEFINE T == {m \in 0 .. Len(Program) : k <= Before(s, op, m + 1)}
<1>0. Len(Program) \in Nat /\ Commands = 1 .. Len(Program)
  BY ProgramFacts
<1>1. n \in T /\ k \in Nat \ {0}
  BY <1>0, BeforeFacts
<1>2. T \subseteq Nat
  BY <1>0
<1>3. PICK m \in T : \A y \in T : m <= y
  <2> HIDE DEF T
  <2> QED
    BY <1>1, <1>2, Minimum
<1>4. m \in 0 .. Len(Program) /\ k <= Before(s, op, m + 1)
  BY <1>3
<1>5. m # 0
  BY <1>1, <1>4, BeforeFacts
<1>6. m \in Commands /\ m - 1 \in 0 .. Len(Program) /\ m - 1 + 1 = m
  BY <1>0, <1>4, <1>5
<1>7. ~(k <= Before(s, op, m))
  <2>1. m - 1 \notin T
    BY <1>3, <1>6
  <2>2. (m - 1) + 1 = m
    BY <1>6
  <2> QED
    BY <1>6, <2>1, <2>2
<1> DEFINE b == Before(s, op, m)
           d == Before(s, op, m + 1)
<1>8. d = b + (IF Chosen(s, op, m) THEN Count(m) ELSE 0) /\ b \in Nat /\ d \in Nat
  BY <1>6, BeforeNext, BeforeFacts
<1>9. k <= d /\ ~(k <= b)
  BY <1>4, <1>7
<1> HIDE DEF b, d
<1>10. Chosen(s, op, m)
  BY <1>8, <1>9
<1>11. m \in Transfers /\ Count(m) \in Nat
  BY <1>6, <1>10, VectorFacts DEF Chosen, Transfers
<1>12. k - b \in 1 .. Count(m) /\ b + (k - b) = k
  BY <1>1, <1>8, <1>9, <1>10, <1>11
<1>13. PICK i \in 1 .. Count(m) : b + i = k
  BY <1>12
<1>14. SlotAt(s, op, b + i) = <<m, i>>
  BY <1>6, <1>10, SlotAtFacts DEF b
<1> QED
  BY <1>11, <1>13, <1>14, VectorFacts

(* The vectors of the first n commands, as a sequence.                      *)
LEMMA UptoFacts ==
  ASSUME NEW s, NEW op \in {"load", "store"}, NEW n \in 0 .. Len(Program)
  PROVE  /\ Upto(s, op, n) \in Seq(Vectors) /\ Len(Upto(s, op, n)) = Before(s, op, n + 1)
         /\ n = 0 => Upto(s, op, n) = <<>>
<1> DEFINE b == Before(s, op, n + 1)
<1>1. b \in Nat
  BY BeforeFacts
<1>2. \A k \in 1 .. b : SlotAt(s, op, k) \in Vectors
  BY SlotAtExists
<1>3. Upto(s, op, n) = [k \in 1 .. b |-> SlotAt(s, op, k)]
  BY DEF Upto
<1>4. n = 0 => b = 0
  BY BeforeFacts
<1> HIDE DEF b
<1>5. Upto(s, op, n) \in Seq(Vectors) /\ Len(Upto(s, op, n)) = b
  BY <1>1, <1>2, <1>3
<1>6. n = 0 => Upto(s, op, n) = <<>>
  BY <1>4, <1>5
<1> QED
  BY <1>5, <1>6 DEF b

(* The vectors of one command, as FlattenSeq appends them.                  *)
LEMMA PieceFacts ==
  ASSUME NEW s, NEW op \in {"load", "store"}, NEW c \in Commands
  PROVE  /\ Piece(s, op, c) \in Seq(Vectors)
         /\ Len(Piece(s, op, c)) = IF Chosen(s, op, c) THEN Count(c) ELSE 0
         /\ \A i \in 1 .. Len(Piece(s, op, c)) : Chosen(s, op, c) /\ i \in 1 .. Count(c)
                                                 /\ Piece(s, op, c)[i] = <<c, i>>
<1>1. CASE Chosen(s, op, c)
  <2>1. c \in Transfers
    BY <1>1 DEF Chosen, Transfers
  <2>2. Count(c) \in Nat /\ \A i \in 1 .. Count(c) : <<c, i>> \in Vectors
    BY <2>1, VectorFacts
  <2>3. Piece(s, op, c) = [i \in 1 .. Count(c) |-> <<c, i>>]
    BY <1>1 DEF Piece
  <2> QED
    BY <1>1, <2>2, <2>3
<1>2. CASE ~Chosen(s, op, c)
  BY <1>2 DEF Piece
<1> QED
  BY <1>1, <1>2

(* One command more appends its vectors.                                    *)
LEMMA UptoNext ==
  ASSUME NEW s, NEW op \in {"load", "store"}, NEW c \in Commands
  PROVE  Upto(s, op, c) = Upto(s, op, c - 1) \o Piece(s, op, c)
<1> DEFINE a == Before(s, op, c)
           b == Before(s, op, c + 1)
           U == Upto(s, op, c)
           V == Upto(s, op, c - 1)
           W == Piece(s, op, c)
           X == V \o W
<1>1. c \in Nat \ {0} /\ c - 1 \in 0 .. Len(Program) /\ c \in 0 .. Len(Program) /\ (c - 1) + 1 = c
  BY ProgramFacts
<1>2. U \in Seq(Vectors) /\ Len(U) = b /\ a \in Nat /\ b \in Nat
  BY <1>1, UptoFacts, BeforeFacts
<1>3. V \in Seq(Vectors) /\ Len(V) = a
  <2>1. V \in Seq(Vectors) /\ Len(V) = Before(s, op, (c - 1) + 1)
    BY <1>1, UptoFacts
  <2> QED
    BY <1>1, <2>1
<1>4. W \in Seq(Vectors) /\ b = a + Len(W)
  <2>1. W \in Seq(Vectors) /\ Len(W) = IF Chosen(s, op, c) THEN Count(c) ELSE 0
    BY PieceFacts
  <2>2. b = a + (IF Chosen(s, op, c) THEN Count(c) ELSE 0)
    BY BeforeNext
  <2> HIDE DEF W, a, b
  <2> QED
    BY <2>1, <2>2
<1>5. \A k \in 1 .. b : U[k] = SlotAt(s, op, k)
  BY DEF Upto
<1>6. \A k \in 1 .. a : V[k] = SlotAt(s, op, k)
  BY <1>1 DEF Upto
<1>7. ASSUME NEW i \in 1 .. Len(W) PROVE W[i] = SlotAt(s, op, a + i)
  <2>1. Chosen(s, op, c) /\ i \in 1 .. Count(c) /\ W[i] = <<c, i>>
    BY PieceFacts
  <2>2. SlotAt(s, op, Before(s, op, c) + i) = <<c, i>>
    BY <2>1, SlotAtFacts
  <2> QED
    BY <2>1, <2>2
<1>8. Len(W) \in Nat
  BY <1>4
<1> HIDE DEF U, V, W, a, b
<1>9. X \in Seq(Vectors) /\ Len(X) = b /\ \A k \in 1 .. b : X[k] = IF k <= a THEN V[k] ELSE W[k - a]
  BY <1>3, <1>4, ConcatProperties
<1> HIDE DEF X
<1>10. ASSUME NEW k \in 1 .. b PROVE X[k] = U[k]
  <2>1. CASE k <= a
    BY <1>2, <1>5, <1>6, <1>9, <2>1
  <2>2. CASE ~(k <= a)
    <3>1. k - a \in 1 .. Len(W) /\ a + (k - a) = k
      BY <1>2, <1>4, <1>8, <2>2
    <3>2. PICK i \in 1 .. Len(W) : i = k - a
      BY <3>1
    <3>3. W[i] = SlotAt(s, op, a + i) /\ a + i = k
      BY <1>7, <3>1, <3>2
    <3> QED
      BY <1>5, <1>9, <2>2, <3>2, <3>3
  <2> QED
    BY <2>1, <2>2
<1>11. X = U
  BY <1>2, <1>9, <1>10
<1> QED
  BY <1>11 DEF X, U, V, W

(* FlattenSeq is that sequence: unrolled once per command.                  *)
LEMMA SlotsClosed ==
  ASSUME NEW s \in Streams, NEW op \in {"load", "store"}
  PROVE  Slots[s][op] = Upto(s, op, Len(Program))
<1> DEFINE L == Len(Program)
           P == [c \in Commands |-> IF Program[c].op = op /\ Program[c].stream = s
                                    THEN [i \in 1 .. Count(c) |-> <<c, i>>] ELSE <<>>]
           ok(g) == g = [i \in 1 .. L |-> IF i = 1 THEN P[i] ELSE g[i - 1] \o P[i]]
           f == [i \in 1 .. L |-> Upto(s, op, i)]
<1>1. L \in Nat \ {0} /\ Commands = 1 .. L
  BY ProgramFacts
<1>2. \A c \in 1 .. L : P[c] = Piece(s, op, c)
  BY <1>1 DEF Piece, Chosen
<1>3. P = [c \in 1 .. L |-> Piece(s, op, c)] /\ \A c \in 1 .. L : Piece(s, op, c) \in Seq(Vectors)
  BY <1>1, PieceFacts DEF Piece, Chosen
<1>4. Len(P) = L
  <2> HIDE DEF P, L
  <2> QED
    BY <1>1, <1>3
<1>5. Slots[s][op] = Seqs!FlattenSeq(P)
  BY DEF Slots
<1>6. Seqs!FlattenSeq(P) = (CHOOSE g : ok(g))[L]
  <2> HIDE DEF P
  <2> QED
    BY <1>1, <1>4 DEF Seqs!FlattenSeq
<1>7. ASSUME NEW c \in 1 .. L PROVE Upto(s, op, c) = IF c = 1 THEN P[c] ELSE f[c - 1] \o P[c]
  <2>1. Upto(s, op, c) = Upto(s, op, c - 1) \o Piece(s, op, c)
    BY <1>1, UptoNext
  <2>2. CASE c = 1
    <3>1. c - 1 = 0 /\ 0 \in 0 .. Len(Program)
      BY <1>1, <2>2
    <3>2. Upto(s, op, 0) = <<>>
      BY <3>1, UptoFacts
    <3>3. <<>> \o Piece(s, op, c) = Piece(s, op, c)
      BY <1>1, PieceFacts, ConcatEmptySeq
    <3> HIDE DEF P
    <3> QED
      BY <1>2, <2>1, <2>2, <3>1, <3>2, <3>3
  <2>3. CASE c # 1
    <3>1. c - 1 \in 1 .. L
      BY <1>1, <2>3
    <3> HIDE DEF P
    <3> QED
      BY <1>2, <2>1, <2>3, <3>1
  <2> QED
    BY <2>2, <2>3
<1>8. ok(f)
  BY <1>7
<1>9. PICK g : ok(g) /\ g = CHOOSE h : ok(h)
  <2> HIDE DEF ok, f
  <2> QED
    BY <1>8
<1>10. \A c \in 1 .. L : g[c] = IF c = 1 THEN P[c] ELSE g[c - 1] \o P[c]
  <2> HIDE DEF P, L
  <2> QED
    BY <1>9
<1>11. \A c \in 1 .. L : f[c] = IF c = 1 THEN P[c] ELSE f[c - 1] \o P[c]
  <2>1. \A c \in 1 .. L : f[c] = Upto(s, op, c)
    OBVIOUS
  <2> HIDE DEF P, L, f
  <2> QED
    BY <1>7, <2>1
<1>12. \A c \in 1 .. L : g[c] = f[c]
  <2> DEFINE T == {c \in 1 .. L : g[c] # f[c]}
  <2> HIDE DEF f, P, L, ok
  <2>1. SUFFICES ASSUME T # {} PROVE FALSE
    OBVIOUS
  <2>2. T \subseteq Nat
    BY <1>1
  <2>3. PICK c \in T : \A y \in T : c <= y
    <3> HIDE DEF T
    <3> QED
      BY <2>1, <2>2, Minimum
  <2>4. c \in 1 .. L /\ g[c] # f[c]
    BY <2>3
  <2>5. c # 1
    BY <1>10, <1>11, <2>4
  <2>6. c - 1 \in 1 .. L /\ ~(c <= c - 1)
    BY <1>1, <2>4, <2>5
  <2>7. g[c - 1] = f[c - 1]
    BY <2>3, <2>6
  <2> QED
    BY <1>10, <1>11, <2>4, <2>5, <2>7
<1>13. g[L] = f[L] /\ f[L] = Upto(s, op, L)
  BY <1>1, <1>12
<1> HIDE DEF ok
<1> QED
  BY <1>5, <1>6, <1>9, <1>13

(* A vector's place among those of its stream.                              *)
LEMMA SlotsFacts ==
  ASSUME NEW s \in Streams, NEW op \in {"load", "store"}
  PROVE  /\ Slots[s][op] \in Seq(Vectors)
         /\ Len(Slots[s][op]) = Before(s, op, Len(Program) + 1) /\ Len(Slots[s][op]) \in Nat
         /\ \A c \in Commands : Chosen(s, op, c) =>
              \A i \in 1 .. Count(c) : /\ Before(s, op, c) + i \in 1 .. Len(Slots[s][op])
                                       /\ Slots[s][op][Before(s, op, c) + i] = <<c, i>>
<1> DEFINE L == Len(Program)
           b == Before(s, op, L + 1)
<1>1. L \in Nat \ {0} /\ Commands = 1 .. L
  BY ProgramFacts
<1>2. Slots[s][op] \in Seq(Vectors) /\ Len(Slots[s][op]) = b /\ b \in Nat
  BY <1>1, SlotsClosed, UptoFacts, BeforeFacts
<1>3. \A k \in 1 .. b : Slots[s][op][k] = SlotAt(s, op, k)
  <2>1. Slots[s][op] = Upto(s, op, L)
    BY SlotsClosed
  <2>2. \A k \in 1 .. b : Upto(s, op, L)[k] = SlotAt(s, op, k)
    BY DEF Upto
  <2> QED
    BY <2>1, <2>2
<1>4. ASSUME NEW c \in Commands, Chosen(s, op, c), NEW i \in 1 .. Count(c)
      PROVE  /\ Before(s, op, c) + i \in 1 .. b
             /\ Slots[s][op][Before(s, op, c) + i] = <<c, i>>
  <2> DEFINE a == Before(s, op, c)
             d == Before(s, op, c + 1)
             k == a + i
  <2>1. c \in Transfers /\ Count(c) \in Nat
    BY <1>4, VectorFacts DEF Chosen, Transfers
  <2>2. d = a + Count(c) /\ a \in Nat
    BY <1>4, BeforeNext, BeforeFacts
  <2>3. d <= b
    <3>1. c + 1 \in Nat /\ L + 1 \in Nat /\ c + 1 <= L + 1
      BY <1>1
    <3> QED
      BY <3>1, BeforeFacts
  <2>4. SlotAt(s, op, a + i) = <<c, i>>
    BY <1>4, SlotAtFacts
  <2> HIDE DEF a, d, b
  <2>5. k \in 1 .. b
    BY <1>2, <2>1, <2>2, <2>3
  <2>6. Slots[s][op][k] = <<c, i>>
    BY <1>3, <2>4, <2>5
  <2> QED
    BY <2>5, <2>6 DEF a
<1> QED
  BY <1>2, <1>4

----------------------------------------------------------------------------
(* The ICU queue passes a command, and issues it if it is a transfer.       *)

Issued ==
  IF pc + 1 \in Transfers
  THEN queue' = [queue EXCEPT ![Program[pc + 1].stream] = Append(@, pc + 1)]
  ELSE queue' = queue

engineData == <<next, done, pending, fifoVars, ddrVars>>

(* The first command of a stream is held by it or the next of the queue.    *)
LEMMA FrontFacts ==
  ASSUME IInv, NEW s \in Streams
  PROVE  /\ active[s] # 0 => Front(s) = active[s]
         /\ active[s] = 0 /\ queue[s] # <<>> => Front(s) = Head(queue[s]) /\ Front(s) = queue[s][1]
                                               /\ 1 \in 1 .. Len(queue[s])
         /\ active[s] = 0 /\ queue[s] = <<>> => Front(s) = pc + 1
         /\ Front(s) \in 1 .. (pc + 1) /\ pc \in Nat /\ Front(s) \in Nat \ {0}
         /\ \A k \in 1 .. Len(queue[s]) : Front(s) <= queue[s][k]
<1>1. NotesType /\ EachOnce
  BY DEF IInv
<1>2. /\ active[s] \in Nat /\ queue[s] \in Seq(Transfers) /\ Len(queue[s]) \in Nat /\ pc \in Nat
      /\ \A k \in 1 .. Len(queue[s]) : queue[s][k] \in Nat \ {0}
  <2>1. pc \in Nat
    BY <1>1, ProgramFacts DEF NotesType
  <2> QED
    BY <1>1, <2>1, CommandNumbers
<1>3. /\ active[s] # 0 => active[s] <= pc
      /\ \A k \in 1 .. Len(queue[s]) : queue[s][k] <= pc /\ active[s] < queue[s][k]
      /\ \A j, k \in 1 .. Len(queue[s]) : j < k => queue[s][j] < queue[s][k]
  BY <1>1 DEF EachOnce, Open
<1>4. CASE active[s] # 0
  <2>1. Front(s) = active[s]
    BY <1>4 DEF Front
  <2>2. \A k \in 1 .. Len(queue[s]) : active[s] <= queue[s][k]
    BY <1>2, <1>3
  <2> QED
    BY <1>2, <1>3, <1>4, <2>1, <2>2
<1>5. CASE active[s] = 0 /\ queue[s] # <<>>
  <2>1. Front(s) = queue[s][1] /\ Head(queue[s]) = queue[s][1] /\ 1 \in 1 .. Len(queue[s])
    BY <1>2, <1>5, TailFacts DEF Front
  <2>2. \A k \in 1 .. Len(queue[s]) : k = 1 \/ 1 < k
    BY <1>2
  <2>3. \A k \in 1 .. Len(queue[s]) : queue[s][1] <= queue[s][k]
    BY <1>2, <1>3, <2>1, <2>2
  <2>4. queue[s][1] \in Nat \ {0} /\ queue[s][1] <= pc
    BY <1>2, <1>3, <2>1
  <2> QED
    BY <1>2, <1>5, <2>1, <2>3, <2>4
<1>6. CASE active[s] = 0 /\ queue[s] = <<>>
  <2>1. Front(s) = pc + 1 /\ Len(queue[s]) = 0
    BY <1>6 DEF Front
  <2> QED
    BY <1>2, <1>6, <2>1
<1> QED
  BY <1>4, <1>5, <1>6

(* When the queue passes a command, no stream moves a vector.               *)
LEMMA PassFront ==
  ASSUME IInv, IInv', pc' = pc + 1, pc + 1 \in Commands, Issued, active' = active,
         NEW s \in Streams, NEW op \in {"load", "store"}
  PROVE  /\ Before(s, op, Front(s)') = Before(s, op, Front(s)) /\ Front(s) <= Front(s)'
         /\ Front(s)' \in Nat
         /\ \A k \in 1 .. Len(queue[s]) : k \in 1 .. Len(queue'[s]) /\ queue'[s][k] = queue[s][k]
<1> DEFINE c == pc + 1
<1>1. /\ queue \in [Streams -> Seq(Transfers)] /\ queue[s] \in Seq(Transfers) /\ pc \in Nat
      /\ c \in Nat
  BY FrontFacts DEF IInv, NotesType
<1>2. \/ queue'[s] = queue[s] /\ ~(c \in Transfers /\ Program[c].stream = s)
      \/ c \in Transfers /\ Program[c].stream = s /\ queue'[s] = Append(queue[s], c)
  BY <1>1, ProgramFacts DEF Issued
<1>3. CASE active[s] # 0 \/ queue[s] # <<>>
  <2>1. Front(s)' = Front(s)
    <3>1. CASE active[s] # 0
      BY <3>1 DEF Front
    <3>2. CASE active[s] = 0 /\ queue'[s] = queue[s]
      BY <1>3, <3>2 DEF Front
    <3>3. CASE active[s] = 0 /\ c \in Transfers /\ queue'[s] = Append(queue[s], c)
      <4>1. queue'[s] # <<>> /\ Head(queue'[s]) = Head(queue[s])
        BY <1>1, <1>3, <3>3, AppendProperties, HeadTailAppend
      <4> QED
        BY <1>3, <3>3, <4>1 DEF Front
    <3> QED
      BY <1>2, <3>1, <3>2, <3>3
  <2>2. Front(s) \in Nat
    BY FrontFacts
  <2>3. \A k \in 1 .. Len(queue[s]) : k \in 1 .. Len(queue'[s]) /\ queue'[s][k] = queue[s][k]
    <3>1. CASE queue'[s] = queue[s]
      BY <3>1
    <3>2. CASE c \in Transfers /\ queue'[s] = Append(queue[s], c)
      <4> HIDE DEF c
      <4> QED
        BY <1>1, <3>2
    <3> QED
      BY <1>2, <3>1, <3>2
  <2> QED
    BY <2>1, <2>2, <2>3
<1>4. CASE active[s] = 0 /\ queue[s] = <<>>
  <2>1. Front(s) = c /\ Len(queue[s]) = 0
    BY <1>4 DEF Front
  <2>2. CASE queue'[s] = Append(queue[s], c) /\ c \in Transfers
    <3>1. queue'[s] # <<>> /\ Head(queue'[s]) = c
      BY <1>1, <1>4, <2>2, AppendProperties, HeadTailAppend
    <3>2. Front(s)' = c
      BY <1>4, <3>1 DEF Front
    <3> QED
      BY <1>1, <2>1, <3>2
  <2>3. CASE queue'[s] = queue[s] /\ ~(c \in Transfers /\ Program[c].stream = s)
    <3>1. Front(s)' = c + 1
      BY <1>4, <2>3 DEF Front
    <3>2. ~Chosen(s, op, c)
      BY <2>3 DEF Chosen, Transfers
    <3>3. Before(s, op, c + 1) = Before(s, op, c) + 0
      BY <3>2, BeforeNext
    <3>4. Before(s, op, c) \in Nat
      BY BeforeFacts
    <3> HIDE DEF c
    <3> QED
      BY <1>1, <2>1, <3>1, <3>3, <3>4
  <2> QED
    BY <1>2, <2>2, <2>3
<1> QED
  BY <1>3, <1>4

(* Issue, SYNC and WAIT_EVENT keep the invariant.                           *)
LEMMA PassData ==
  ASSUME IInv, IInv', DInv, pc' = pc + 1, pc + 1 \in Commands, Issued,
         UNCHANGED <<active, completions, engineData, turn, fault>>,
         stage' \in {"dispatch", "slices"}
  PROVE  DInv'
<1>1. UNCHANGED <<active, completions, next, done, pending, inbound, outbound, sent, received,
                  requests, answers, memory, turn, fault>>
  BY DEF engineData, fifoVars, ddrVars
<1>2. DataType'
  BY <1>1 DEF DInv, DataType
<1>3. Completed' = Completed
  BY <1>1 DEF Completed
<1>4. pc \in Nat /\ \A s \in Streams : Front(s) \in Nat /\ Front(s)' \in Nat
  <2>1. \A s \in Streams : Front(s)' \in Nat
    BY <1>1, PassFront
  <2> QED
    BY <2>1, FrontFacts DEF IInv, NotesType
<1>5. InLine'
  <2>1. ASSUME NEW c \in Transfers, c <= pc' PROVE c \in Completed \/ Held(Program[c].stream, c)'
    <3>1. CASE c <= pc
      <4> DEFINE s == Program[c].stream
      <4>1. c \in Completed \/ Held(s, c)
        BY <3>1 DEF DInv, InLine
      <4>2. s \in Streams
        BY ProgramFacts
      <4> HIDE DEF s
      <4>3. Held(s, c) => Held(s, c)'
        BY <1>1, <4>2, PassFront DEF Held
      <4> QED
        BY <4>1, <4>3 DEF s
    <3>2. CASE ~(c <= pc)
      <4>1. c = pc + 1
        BY <1>4, <2>1, <3>2, ProgramFacts
      <4> DEFINE s == Program[c].stream
      <4>2. s \in Streams /\ queue \in [Streams -> Seq(Transfers)]
        BY ProgramFacts DEF IInv, NotesType
      <4>3. queue'[s] = Append(queue[s], c) /\ queue[s] \in Seq(Transfers)
        BY <4>1, <4>2 DEF Issued
      <4> HIDE DEF s
      <4>4. queue'[s][Len(queue[s]) + 1] = c /\ Len(queue[s]) + 1 \in 1 .. Len(queue'[s])
        BY <4>3
      <4> QED
        BY <4>4 DEF Held, s
    <3> QED
      BY <3>1, <3>2
  <2>2. ASSUME NEW c \in Completed PROVE c < Front(Program[c].stream)'
    <3> DEFINE s == Program[c].stream
    <3>1. c < Front(s)
      BY DEF DInv, InLine
    <3>2. s \in Streams /\ c \in Nat
      BY CommandNumbers, ProgramFacts, Finite DEF IInv
    <3> HIDE DEF s
    <3>3. Front(s) <= Front(s)'
      BY <1>1, <3>2, PassFront
    <3>4. c < Front(s)'
      BY <1>4, <3>1, <3>2, <3>3
    <3> QED
      BY <3>4 DEF s
  <2> QED
    BY <1>3, <2>1, <2>2 DEF InLine
<1>6. ASSUME NEW s \in Streams, NEW op \in {"load", "store"}, NEW n
      PROVE  Position(s, op, n)' = Position(s, op, n)
  <2>1. Before(s, op, Front(s)') = Before(s, op, Front(s))
    BY <1>1, PassFront
  <2>2. Before(s, op, Front(s))' = Before(s, op, Front(s)')
    BY DEF Before, Chosen
  <2> QED
    BY <1>1, <2>1, <2>2 DEF Position
<1>7. Underway' /\ Fits'
  BY <1>1 DEF DInv, Underway, Fits
<1>8. Requested'
  BY <1>1 DEF DInv, Requested, Outstanding
<1>9. Delivered'
  <2>1. \A s : Taken(s)' = Taken(s)
    BY <1>1 DEF Taken
  <2>2. \A s \in Streams : Position(s, "load", done[s])' = Position(s, "load", done[s])
    BY <1>1, <1>6 DEF Position
  <2> QED
    BY <1>1, <2>1, <2>2 DEF DInv, Delivered
<1>10. Supplied'
  <2>1. \A s \in Streams : Position(s, "store", next[s])' = Position(s, "store", next[s])
    BY <1>1, <1>6 DEF Position
  <2> QED
    BY <1>1, <2>1 DEF DInv, Supplied
<1> QED
  BY <1>2, <1>5, <1>7, <1>8, <1>9, <1>10 DEF DInv

----------------------------------------------------------------------------
(* Steps that move no data.                                                 *)

(* A step that leaves the data path alone keeps the invariant.              *)
LEMMA FrameData ==
  ASSUME DInv, UNCHANGED <<pc, active, queue, completions, engineData>>,
         stage' \in {"dispatch", "slices", "dma", "announce", "ddr"},
         turn' \in 0 .. NumStreams, fault' \in {"none", "outside"}
  PROVE  DInv'
<1>1. UNCHANGED <<pc, active, queue, completions, next, done, pending, inbound, outbound, sent, received,
                  requests, answers, memory>>
  BY DEF engineData, fifoVars, ddrVars
<1>2. DataType'
  BY <1>1 DEF DInv, DataType
<1>3. Completed' = Completed /\ \A s : Front(s)' = Front(s)
  BY <1>1 DEF Completed, Front
<1>4. InLine'
  BY <1>1, <1>3 DEF DInv, InLine, Held
<1>5. Underway' /\ Fits'
  BY <1>1 DEF DInv, Underway, Fits
<1>6. Requested'
  BY <1>1 DEF DInv, Requested, Outstanding
<1>7. \A s, op, n : Position(s, op, n)' = Position(s, op, n)
  BY <1>1, <1>3 DEF Position, Before, Chosen
<1>8. Delivered'
  <2>1. \A s : Taken(s)' = Taken(s)
    BY <1>1 DEF Taken
  <2>2. \A s \in Streams : Position(s, "load", done[s])' = Position(s, "load", done[s])
    BY <1>1, <1>3 DEF Position, Before, Chosen
  <2> QED
    BY <1>1, <2>1, <2>2 DEF DInv, Delivered
<1>9. Supplied'
  <2>1. \A s \in Streams : Position(s, "store", next[s])' = Position(s, "store", next[s])
    BY <1>1, <1>3 DEF Position, Before, Chosen
  <2> QED
    BY <1>1, <2>1 DEF DInv, Supplied
<1> QED
  BY <1>2, <1>4, <1>5, <1>6, <1>8, <1>9 DEF DInv
----------------------------------------------------------------------------
(* The slices.                                                              *)

(* TX is not asked for more vectors than there are.                         *)
LEMMA StoresUpToBounded ==
  ASSUME NEW s \in Streams, NEW e \in Ends \cup {Len(Program)}
  PROVE  StoresUpTo[s][e] \in Nat /\ StoresUpTo[s][e] <= Len(Slots[s]["store"])
<1> DEFINE q == Slots[s]["store"]
           n == Len(q)
           V == Seqs!ToSet(q)
           f == [k \in 1 .. n |-> q[k]]
           U == {v \in V : v[1] <= e}
<1>1. n \in Nat /\ DOMAIN q = 1 .. n
  BY SlotsFacts
<1>2. f \in Surjection(1 .. n, V)
  <2>1. V = {q[k] : k \in 1 .. n}
    BY <1>1 DEF Seqs!ToSet
  <2> HIDE DEF q, n, V
  <2> QED
    BY <2>1 DEF Surjection
<1>3. IsFiniteSet(1 .. n) /\ Cardinality(1 .. n) = n
  <2> HIDE DEF n
  <2>1. IsFiniteSet(1 .. n) /\ Cardinality(1 .. n) = IF 1 > n THEN 0 ELSE n - 1 + 1
    BY <1>1, FS_Interval
  <2> QED
    BY <1>1, <2>1
<1>4. StoresUpTo[s][e] = Cardinality(U)
  BY DEF StoresUpTo
<1> HIDE DEF f, V, q, n
<1>5. IsFiniteSet(V) /\ Cardinality(V) <= n
  BY <1>2, <1>3, FS_Surjection
<1>6. U \in SUBSET V
  OBVIOUS
<1> HIDE DEF U
<1>7. IsFiniteSet(U) /\ Cardinality(U) <= Cardinality(V) /\ Cardinality(U) \in Nat /\ Cardinality(V) \in Nat
  BY <1>5, <1>6, FS_Subset, FS_CardinalityType
<1> QED
  BY <1>1, <1>4, <1>5, <1>7 DEF n, q

(* A vector that goes from one FIFO to the next keeps its place.            *)
LEMMA MovedHead ==
  ASSUME NEW S, NEW q \in Seq(S), NEW r \in Seq(S), r # <<>>
  PROVE  /\ Append(q, Head(r)) \o Tail(r) = q \o r
         /\ Append(q, Head(r)) \in Seq(S) /\ Tail(r) \in Seq(S)
         /\ Len(Append(q, Head(r))) + Len(Tail(r)) = Len(q) + Len(r)
         /\ Len(Tail(r)) < Len(r)
<1> DEFINE a == Append(q, Head(r))
           b == Tail(r)
<1>1. /\ Len(r) \in Nat \ {0} /\ Head(r) = r[1] /\ r[1] \in S
      /\ b \in Seq(S) /\ Len(b) = Len(r) - 1
      /\ \A k \in 1 .. Len(b) : b[k] = r[k + 1]
  BY TailFacts
<1>2. /\ a \in Seq(S) /\ Len(q) \in Nat /\ Len(a) = Len(q) + 1
      /\ a[Len(q) + 1] = r[1] /\ \A i \in 1 .. Len(q) : a[i] = q[i]
  BY <1>1, AppendFacts
<1> HIDE DEF a, b
<1>3. /\ a \o b \in Seq(S) /\ Len(a \o b) = Len(a) + Len(b)
      /\ \A i \in 1 .. Len(a) + Len(b) : (a \o b)[i] = IF i <= Len(a) THEN a[i] ELSE b[i - Len(a)]
  BY <1>1, <1>2, ConcatProperties
<1>4. /\ q \o r \in Seq(S) /\ Len(q \o r) = Len(q) + Len(r)
      /\ \A i \in 1 .. Len(q) + Len(r) : (q \o r)[i] = IF i <= Len(q) THEN q[i] ELSE r[i - Len(q)]
  BY <1>1, <1>2, ConcatProperties
<1> DEFINE x == a \o b
           y == q \o r
           m == Len(q)
           n == Len(r)
<1>5. Len(x) = m + n /\ Len(y) = m + n /\ m \in Nat /\ n \in Nat \ {0} /\ Len(a) = m + 1 /\ Len(b) = n - 1
  BY <1>1, <1>2, <1>3, <1>4
<1> HIDE DEF x, y, m, n
<1>6. ASSUME NEW i \in 1 .. (m + n) PROVE x[i] = y[i]
  <2>1. x[i] = IF i <= m + 1 THEN a[i] ELSE b[i - (m + 1)]
    BY <1>3, <1>5 DEF x
  <2>2. y[i] = IF i <= m THEN q[i] ELSE r[i - m]
    BY <1>4, <1>5 DEF y, m, n
  <2>3. CASE i <= m
    <3>1. i \in 1 .. m /\ i <= m + 1
      BY <1>5, <2>3
    <3> QED
      BY <1>2, <2>1, <2>2, <2>3, <3>1 DEF m
  <2>4. CASE i = m + 1
    <3>1. ~(i <= m) /\ i - m = 1 /\ i <= m + 1
      BY <1>5, <2>4
    <3> QED
      BY <1>2, <2>1, <2>2, <2>4, <3>1 DEF m
  <2>5. CASE i > m + 1
    <3>1. i - (m + 1) \in 1 .. Len(b) /\ (i - (m + 1)) + 1 = i - m /\ ~(i <= m) /\ ~(i <= m + 1)
      BY <1>5, <2>5
    <3> QED
      BY <1>1, <2>1, <2>2, <3>1
  <2> QED
    BY <1>5, <2>3, <2>4, <2>5
<1>7. x = y
  <2>1. x \in Seq(S) /\ y \in Seq(S)
    BY <1>3, <1>4 DEF x, y
  <2> QED
    BY <1>5, <1>6, <2>1
<1> QED
  BY <1>1, <1>2, <1>5, <1>7 DEF x, y, a, b, m, n

(* The slices only move vectors from one FIFO to the next.                  *)
LEMMA SlicesTaken ==
  ASSUME DataType, Slices
  PROVE  \A s \in Streams :
           /\ Taken(s)' = Taken(s) /\ inbound'[s] \in Seq(Item) /\ received'[s] \in Seq(Item)
           /\ Len(received'[s]) + Len(inbound'[s]) = Len(received[s]) + Len(inbound[s])
           /\ Len(inbound'[s]) <= Len(inbound[s]) /\ Len(inbound'[s]) \in Nat /\ Len(inbound[s]) \in Nat
<1>1. PICK rx \in SUBSET {s \in Streams : inbound[s] # <<>>} :
       /\ inbound' = [s \in Streams |-> IF s \in rx THEN Tail(inbound[s]) ELSE inbound[s]]
       /\ received' = [s \in Streams |->
            IF s \in rx THEN Append(received[s], Head(inbound[s])) ELSE received[s]]
  BY DEF Slices
<1>2. ASSUME NEW s \in Streams
      PROVE  /\ Taken(s)' = Taken(s) /\ inbound'[s] \in Seq(Item) /\ received'[s] \in Seq(Item)
             /\ Len(received'[s]) + Len(inbound'[s]) = Len(received[s]) + Len(inbound[s])
             /\ Len(inbound'[s]) <= Len(inbound[s]) /\ Len(inbound'[s]) \in Nat /\ Len(inbound[s]) \in Nat
  <2>1. inbound[s] \in Seq(Item) /\ received[s] \in Seq(Item)
    BY DEF DataType
  <2>2. CASE s \in rx
    <3>1. inbound'[s] = Tail(inbound[s]) /\ received'[s] = Append(received[s], Head(inbound[s]))
          /\ inbound[s] # <<>>
      BY <1>1, <2>2
    <3> DEFINE a == received[s]
               b == inbound[s]
    <3>2. a \in Seq(Item) /\ b \in Seq(Item) /\ b # <<>>
      BY <2>1, <3>1
    <3> HIDE DEF a, b
    <3>3. /\ Append(a, Head(b)) \o Tail(b) = a \o b
          /\ Append(a, Head(b)) \in Seq(Item) /\ Tail(b) \in Seq(Item)
          /\ Len(Append(a, Head(b))) + Len(Tail(b)) = Len(a) + Len(b)
          /\ Len(Tail(b)) < Len(b) /\ Len(b) \in Nat /\ Len(Tail(b)) \in Nat
      BY <3>2, MovedHead
    <3>4. Len(Tail(b)) <= Len(b)
      BY <3>3
    <3> QED
      BY <3>1, <3>3, <3>4 DEF Taken, a, b
  <2>3. CASE s \notin rx
    <3>1. inbound'[s] = inbound[s] /\ received'[s] = received[s] /\ Len(inbound[s]) \in Nat
      BY <1>1, <2>1, <2>3
    <3> QED
      BY <2>1, <3>1 DEF Taken
  <2> QED
    BY <2>2, <2>3
<1> QED
  BY <1>2

(* The slices keep the invariant: TX supplies the next vectors of the       *)
(* stores.                                                                  *)
LEMMA SlicesData ==
  ASSUME IInv, DInv, Slices
  PROVE  DInv'
<1>1. /\ UNCHANGED <<pc, active, queue, completions, next, done, pending, requests, answers, memory, fault>>
      /\ stage' = "dma" /\ turn' = 0
  BY DEF Slices, icuVars, engineVars, noteVars, ddrVars
<1>2. PICK tx \in [Streams -> 0 .. 2], rx \in SUBSET {s \in Streams : inbound[s] # <<>>} :
       /\ \A s \in Streams : tx[s] <= Room(s) /\ sent[s] + tx[s] <= StoresUpTo[s][EndOfProgram]
       /\ outbound' = [s \in Streams |->
            outbound[s] \o SubSeq(Slots[s]["store"], sent[s] + 1, sent[s] + tx[s])]
       /\ sent' = [s \in Streams |-> sent[s] + tx[s]]
       /\ inbound' = [s \in Streams |-> IF s \in rx THEN Tail(inbound[s]) ELSE inbound[s]]
       /\ received' = [s \in Streams |->
            IF s \in rx THEN Append(received[s], Head(inbound[s])) ELSE received[s]]
  BY DEF Slices
<1>3. DataType /\ InLine /\ Underway /\ Requested /\ Fits /\ Delivered /\ Supplied
  BY DEF DInv
<1>4. NumStreams \in Nat /\ FifoDepth \in Nat
  BY DmaAssumption
<1>5. ASSUME NEW s \in Streams
      PROVE  /\ Taken(s)' = Taken(s) /\ inbound'[s] \in Seq(Item) /\ received'[s] \in Seq(Item)
             /\ Len(received'[s]) + Len(inbound'[s]) = Len(received[s]) + Len(inbound[s])
             /\ Len(inbound'[s]) <= Len(inbound[s]) /\ Len(inbound'[s]) \in Nat /\ Len(inbound[s]) \in Nat
  BY <1>3, SlicesTaken
<1>6. ASSUME NEW s \in Streams
      PROVE  /\ outbound'[s] \in Seq(Vectors) /\ sent'[s] \in Nat /\ tx[s] \in Nat
             /\ Len(outbound[s]) \in Nat /\ sent[s] \in Nat
             /\ Len(outbound'[s]) = Len(outbound[s]) + tx[s] /\ sent'[s] = sent[s] + tx[s]
             /\ sent'[s] <= Len(Slots[s]["store"]) /\ Len(outbound'[s]) <= FifoDepth
             /\ \A k \in 1 .. Len(outbound[s]) : outbound'[s][k] = outbound[s][k]
             /\ \A k \in 1 .. Len(outbound[s]) + tx[s] : ~(k <= Len(outbound[s])) =>
                  outbound'[s][k] = Slots[s]["store"][sent[s] + (k - Len(outbound[s]))]
  <2> DEFINE q == Slots[s]["store"]
             o == outbound[s]
             a == sent[s]
             t == tx[s]
             p == SubSeq(q, a + 1, a + t)
             u == StoresUpTo[s][EndOfProgram]
  <2>1. q \in Seq(Vectors) /\ Len(q) \in Nat
    BY SlotsFacts
  <2>2. o \in Seq(Vectors) /\ a \in Nat /\ t \in Nat
    <3>1. tx[s] \in 0 .. 2
      BY <1>2
    <3>2. \A i \in 0 .. 2 : i \in Nat
      OBVIOUS
    <3> QED
      BY <1>3, <3>1, <3>2 DEF DataType
  <2>3. u \in Nat /\ u <= Len(q)
    BY EndFacts, StoresUpToBounded DEF IInv
  <2>4. a + t <= u /\ t <= FifoDepth - Len(o)
    BY <1>2 DEF Room
  <2>5. outbound'[s] = o \o p /\ sent'[s] = a + t
    BY <1>2
  <2> HIDE DEF q, o, a, t, u
  <2>6. p \in Seq(Vectors) /\ Len(p) = t /\ \A k \in 1 .. t : p[k] = q[a + k]
    <3>1. \A i \in a + 1 .. a + t : q[i] \in Vectors
      <4>1. \A i \in a + 1 .. a + t : i \in 1 .. Len(q)
        BY <2>1, <2>2, <2>3, <2>4
      <4> QED
        BY <2>1, <4>1, ElementOfSeq
    <3>2. /\ p \in Seq(Vectors)
          /\ Len(p) = IF a + 1 <= a + t THEN (a + t) - (a + 1) + 1 ELSE 0
          /\ \A i \in 1 .. (a + t) - (a + 1) + 1 : p[i] = q[(a + 1) + i - 1]
      BY <2>2, <3>1, SubSeqProperties
    <3>3. (a + t) - (a + 1) + 1 = t /\ \A i \in 1 .. t : (a + 1) + i - 1 = a + i
      BY <2>2
    <3> HIDE DEF p
    <3> QED
      BY <2>2, <3>2, <3>3
  <2> HIDE DEF p
  <2>7. /\ o \o p \in Seq(Vectors) /\ Len(o \o p) = Len(o) + Len(p)
        /\ \A i \in 1 .. Len(o) + Len(p) : (o \o p)[i] = IF i <= Len(o) THEN o[i] ELSE p[i - Len(o)]
    BY <2>2, <2>6, ConcatProperties
  <2>8. Len(o) \in Nat
    BY <2>2
  <2>9. \A k \in 1 .. Len(o) : (o \o p)[k] = o[k]
    BY <2>2, <2>6, <2>7, <2>8
  <2>10. ASSUME NEW k \in 1 .. Len(o) + t, ~(k <= Len(o)) PROVE (o \o p)[k] = q[a + (k - Len(o))]
    <3>1. k - Len(o) \in 1 .. t
      BY <2>2, <2>8, <2>10
    <3> QED
      BY <2>6, <2>7, <2>10, <3>1
  <2>11. Len(o) + t <= FifoDepth /\ a + t <= Len(q) /\ a + t \in Nat
    BY <1>4, <2>1, <2>2, <2>3, <2>4, <2>8
  <2>12. /\ outbound'[s] \in Seq(Vectors) /\ sent'[s] \in Nat /\ t \in Nat
         /\ Len(o) \in Nat /\ a \in Nat
         /\ Len(outbound'[s]) = Len(o) + t /\ sent'[s] = a + t
         /\ sent'[s] <= Len(q) /\ Len(outbound'[s]) <= FifoDepth
         /\ \A k \in 1 .. Len(o) : outbound'[s][k] = o[k]
         /\ \A k \in 1 .. Len(o) + t : ~(k <= Len(o)) => outbound'[s][k] = q[a + (k - Len(o))]
    BY <2>2, <2>5, <2>6, <2>7, <2>8, <2>9, <2>10, <2>11
  <2> QED
    BY <2>12 DEF q, o, a, t
<1>7. DataType'
  <2>1. outbound' \in [Streams -> Seq(Vectors)] /\ sent' \in [Streams -> Nat]
    BY <1>2, <1>6
  <2>2. inbound' \in [Streams -> Seq(Item)] /\ received' \in [Streams -> Seq(Item)]
    BY <1>2, <1>5
  <2>3. turn' \in 0 .. NumStreams
    BY <1>1, <1>4
  <2> QED
    BY <1>1, <1>3, <2>1, <2>2, <2>3 DEF DataType
<1>8. Completed' = Completed /\ \A s : Front(s)' = Front(s)
  BY <1>1 DEF Completed, Front
<1>9. InLine'
  BY <1>1, <1>3, <1>8 DEF InLine, Held
<1>10. Underway'
  BY <1>1, <1>3 DEF Underway
<1>11. Requested'
  BY <1>1, <1>3 DEF Requested, Outstanding
<1>12. Fits'
  <2>1. ASSUME NEW s \in Streams PROVE Len(inbound'[s]) <= FifoDepth
    <3> DEFINE y == Len(inbound[s])
               z == Len(inbound'[s])
    <3>1. y <= FifoDepth /\ y \in Nat /\ z \in Nat /\ z <= y
      BY <1>3, <1>5 DEF Fits
    <3> HIDE DEF y, z
    <3>2. z <= FifoDepth
      BY <1>4, <3>1
    <3> QED
      BY <3>2 DEF z
  <2>2. ASSUME NEW s \in Streams, active'[s] # 0, Program[active'[s]].op = "load"
        PROVE  Len(pending'[s]) + Len(inbound'[s]) <= FifoDepth
    <3>1. Len(pending[s]) + Len(inbound[s]) <= FifoDepth
      BY <1>1, <1>3, <2>2 DEF Fits
    <3>2. Len(pending[s]) \in Nat
      BY <1>3 DEF DataType
    <3> DEFINE x == Len(pending[s])
               y == Len(inbound[s])
               z == Len(inbound'[s])
    <3>3. x + y <= FifoDepth /\ x \in Nat /\ y \in Nat /\ z \in Nat /\ z <= y
      BY <1>5, <3>1, <3>2
    <3> HIDE DEF x, y, z
    <3>4. x + z <= FifoDepth
      BY <1>4, <3>3
    <3> QED
      BY <1>1, <3>4 DEF x, z
  <2>3. \A s \in Streams : Len(pending'[s]) <= FifoDepth
    BY <1>1, <1>3 DEF Fits
  <2>4. \A s \in Streams : Len(outbound'[s]) <= FifoDepth
    BY <1>6
  <2> QED
    BY <2>1, <2>2, <2>3, <2>4 DEF Fits
<1>13. Delivered'
  <2>1. \A s \in Streams : Position(s, "load", done[s])' = Position(s, "load", done[s])
    BY <1>1, <1>8 DEF Position, Before, Chosen
  <2> QED
    BY <1>3, <1>5, <2>1 DEF Delivered
<1>14. Supplied'
  <2>1. \A s \in Streams : Position(s, "store", next[s])' = Position(s, "store", next[s])
    BY <1>1, <1>8 DEF Position, Before, Chosen
  <2>2. ASSUME NEW s \in Streams
        PROVE  /\ sent'[s] = Position(s, "store", next[s])' + Len(outbound'[s])
               /\ \A k \in 1 .. Len(outbound'[s]) :
                    outbound'[s][k] = Slots[s]["store"][Position(s, "store", next[s])' + k]
    <3> DEFINE p == Position(s, "store", next[s])
               n == Len(outbound[s])
               t == tx[s]
    <3>1. p \in Nat
      <4>1. next[s] \in Nat /\ Before(s, "store", Front(s)) \in Nat
        BY <1>3, BeforeFacts DEF DataType
      <4> QED
        BY <4>1 DEF Position
    <3>2. sent[s] = p + n /\ \A k \in 1 .. n : outbound[s][k] = Slots[s]["store"][p + k]
      BY <1>3 DEF Supplied
    <3>3. /\ n \in Nat /\ t \in Nat /\ Len(outbound'[s]) = n + t /\ sent'[s] = sent[s] + t
          /\ \A k \in 1 .. n : outbound'[s][k] = outbound[s][k]
          /\ \A k \in 1 .. n + t : ~(k <= n) => outbound'[s][k] = Slots[s]["store"][sent[s] + (k - n)]
      BY <1>6
    <3>4. Position(s, "store", next[s])' = p
      BY <2>1
    <3> HIDE DEF p, n, t
    <3>5. sent'[s] = p + Len(outbound'[s])
      BY <3>1, <3>2, <3>3
    <3>6. ASSUME NEW k \in 1 .. (n + t) PROVE outbound'[s][k] = Slots[s]["store"][p + k]
      <4>1. CASE k <= n
        <5>1. k \in 1 .. n
          BY <3>3, <4>1
        <5> QED
          BY <3>2, <3>3, <5>1
      <4>2. CASE ~(k <= n)
        <5>1. sent[s] + (k - n) = p + k
          BY <3>1, <3>2, <3>3
        <5>2. outbound'[s][k] = Slots[s]["store"][sent[s] + (k - n)]
          BY <3>3, <4>2
        <5> QED
          BY <5>1, <5>2
      <4> QED
        BY <4>1, <4>2
    <3> QED
      BY <3>3, <3>4, <3>5, <3>6
  <2>3. \A s \in Streams : sent'[s] <= Len(Slots[s]["store"])
    BY <1>6
  <2>4. \A r \in requests' \cup answers' : r.op = "store" => r.data = r.id
    BY <1>1, <1>3 DEF Supplied
  <2> QED
    BY <2>2, <2>3, <2>4 DEF Supplied
<1> QED
  BY <1>7, <1>9, <1>10, <1>11, <1>12, <1>13, <1>14 DEF DInv

----------------------------------------------------------------------------
(* DDR.                                                                     *)

(* Every vector has a row.                                                  *)
LEMMA RowFacts == \A v \in Vectors : Row(v) \in Rows
<1> SUFFICES ASSUME NEW v \in Vectors PROVE Row(v) \in Rows
  OBVIOUS
<1>1. v[1] \in Transfers /\ v[2] \in 1 .. Count(v[1])
  BY VectorFacts
<1> QED
  BY <1>1 DEF Row, Rows

(* What DDR answers to a request.                                           *)
Reply(r) == [r EXCEPT !.data = IF r.op = "load" THEN memory[Row(r.id)] ELSE @]

(* What DDR answers to a request.                                           *)
LEMMA ReplyFacts ==
  ASSUME DataType, NEW r \in Request
  PROVE  /\ Reply(r) \in Request /\ Reply(r).id = r.id /\ Reply(r).op = r.op
         /\ r.op = "load" => Reply(r).data = memory[Row(r.id)]
         /\ r.op = "store" => Reply(r).data = r.data
<1>1. memory[Row(r.id)] \in Vectors \cup {Initial}
  <2>1. Row(r.id) \in Rows
    BY RowFacts DEF Request
  <2> QED
    BY <2>1 DEF DataType
<1> DEFINE d == IF r.op = "load" THEN memory[Row(r.id)] ELSE r.data
<1>2. d \in Vectors \cup {Initial} /\ r = [id |-> r.id, op |-> r.op, data |-> r.data]
      /\ r.id \in Vectors /\ r.op \in {"load", "store"}
  BY <1>1 DEF Request
<1>3. Reply(r) = [r EXCEPT !.data = d]
  BY DEF Reply
<1>4. d = IF r.op = "load" THEN memory[Row(r.id)] ELSE r.data
  OBVIOUS
<1> HIDE DEF d
<1>5. Reply(r) = [id |-> r.id, op |-> r.op, data |-> d]
  BY <1>2, <1>3
<1> QED
  BY <1>2, <1>4, <1>5 DEF Request

(* A DDR tick moves requests to the answers, and keeps the invariant.       *)
LEMMA DdrTickData ==
  ASSUME DInv, DdrTick
  PROVE  DInv'
<1>1. UNCHANGED <<pc, active, queue, completions, next, done, pending, inbound, outbound, sent, received,
                  turn, fault>> /\ stage' = "dispatch"
  BY DEF DdrTick, icuVars, engineVars, fifoVars, noteVars
<1>2. PICK finished \in SUBSET requests :
        /\ requests' = requests \ finished
        /\ answers' = answers \cup {Reply(r) : r \in finished}
        /\ memory' = [a \in Rows |->
             LET w == {r \in finished : r.op = "store" /\ Row(r.id) = a}
             IN IF w = {} THEN memory[a] ELSE (CHOOSE r \in w : TRUE).data]
  BY DEF DdrTick, Reply
<1>3. DataType /\ InLine /\ Underway /\ Requested /\ Fits /\ Delivered /\ Supplied
  BY DEF DInv
<1>4. /\ \A r \in requests \cup answers : r \in Request
      /\ \A r \in finished : r \in requests /\ r \in Request
      /\ \A r \in finished : /\ Reply(r) \in Request /\ Reply(r).id = r.id /\ Reply(r).op = r.op
                             /\ r.op = "store" => Reply(r).data = r.data
  <2>1. \A r \in requests \cup answers : r \in Request
    BY <1>3 DEF DataType
  <2>2. \A r \in finished : r \in requests /\ r \in Request
    BY <2>1
  <2> QED
    BY <1>3, <2>1, <2>2, ReplyFacts
<1>5. DataType'
  <2>1. memory' \in [Rows -> Vectors \cup {Initial}]
    <3> SUFFICES ASSUME NEW a \in Rows PROVE memory'[a] \in Vectors \cup {Initial}
      BY <1>2
    <3> DEFINE w == {r \in finished : r.op = "store" /\ Row(r.id) = a}
    <3>1. memory'[a] = IF w = {} THEN memory[a] ELSE (CHOOSE r \in w : TRUE).data
      BY <1>2
    <3>2. \A r \in w : r.data \in Vectors \cup {Initial}
      BY <1>4 DEF Request
    <3>3. memory[a] \in Vectors \cup {Initial}
      BY <1>3 DEF DataType
    <3> HIDE DEF w
    <3> QED
      BY <3>1, <3>2, <3>3
  <2>2. IsFiniteSet(requests') /\ Cardinality(requests') <= RequestDepth
    <3>1. requests' \in SUBSET requests /\ IsFiniteSet(requests) /\ Cardinality(requests) <= RequestDepth
      BY <1>2, <1>3 DEF DataType
    <3>2. IsFiniteSet(requests') /\ Cardinality(requests') <= Cardinality(requests)
      BY <3>1, FS_Subset
    <3>3. Cardinality(requests') \in Nat /\ Cardinality(requests) \in Nat /\ RequestDepth \in Nat
      BY <3>1, <3>2, FS_CardinalityType, DmaAssumption
    <3> QED
      BY <3>1, <3>2, <3>3
  <2>3. requests' \cup answers' \subseteq Request
    BY <1>2, <1>4
  <2> QED
    BY <1>1, <1>3, <2>1, <2>2, <2>3 DEF DataType
<1>6. Completed' = Completed /\ \A s : Front(s)' = Front(s)
  BY <1>1 DEF Completed, Front
<1>7. InLine' /\ Underway' /\ Fits'
  BY <1>1, <1>3, <1>6 DEF InLine, Held, Underway, Fits
<1>8. Requested'
  <2>1. /\ \A r \in requests \cup answers : r.op = Program[r.id[1]].op
        /\ \A p, q \in requests : p.id = q.id => p = q
        /\ \A p \in requests, q \in answers : p.id # q.id
        /\ \A s \in Streams : Outstanding(s) = Seqs!ToSet(pending[s])
    BY <1>3 DEF Requested
  <2>2. \A q \in answers' : q \in answers \/ \E r \in finished : q = Reply(r)
    BY <1>2
  <2>3. \A q \in answers' : q \in answers \/ \E r \in finished : q.id = r.id /\ q.op = r.op
    BY <1>4, <2>2
  <2>4. \A r \in requests' \cup answers' : r.op = Program[r.id[1]].op
    BY <1>2, <1>4, <2>1, <2>3
  <2>5. \A p, q \in requests' : p.id = q.id => p = q
    BY <1>2, <2>1
  <2>6. \A p \in requests', q \in answers' : p.id # q.id
    BY <1>2, <1>4, <2>1, <2>3
  <2>7. ASSUME NEW s \in Streams PROVE Outstanding(s)' = Outstanding(s)
    <3>1. \A x : (\E r \in requests' \cup answers' : x = r.id) <=> (\E r \in requests \cup answers : x = r.id)
      <4>1. ASSUME NEW r \in requests \cup answers PROVE \E q \in requests' \cup answers' : r.id = q.id
        <5>1. CASE r \in finished
          BY <1>2, <1>4, <5>1
        <5>2. CASE r \notin finished
          BY <1>2, <5>2
        <5> QED
          BY <5>1, <5>2
      <4>2. ASSUME NEW q \in requests' \cup answers' PROVE \E r \in requests \cup answers : q.id = r.id
        BY <1>2, <1>4, <2>3
      <4> QED
        BY <4>1, <4>2
    <3>2. Outstanding(s) = {x \in Vectors : /\ \E r \in requests \cup answers : x = r.id
                                            /\ Program[x[1]].stream = s}
      BY <1>4 DEF Outstanding, Request
    <3>3. \A r \in requests' \cup answers' : r.id \in Vectors
      BY <1>5 DEF DataType, Request
    <3>4. Outstanding(s)' = {x \in Vectors : /\ \E r \in requests' \cup answers' : x = r.id
                                             /\ Program[x[1]].stream = s}
      BY <3>3 DEF Outstanding
    <3> QED
      BY <3>1, <3>2, <3>4
  <2> QED
    BY <1>1, <2>1, <2>4, <2>5, <2>6, <2>7 DEF Requested
<1>9. Delivered'
  <2>1. \A s \in Streams : Position(s, "load", done[s])' = Position(s, "load", done[s])
    BY <1>1, <1>6 DEF Position, Before, Chosen
  <2>2. \A s : Taken(s)' = Taken(s)
    BY <1>1 DEF Taken
  <2> QED
    BY <1>1, <1>3, <2>1, <2>2 DEF Delivered
<1>10. Supplied'
  <2>1. \A s \in Streams : Position(s, "store", next[s])' = Position(s, "store", next[s])
    BY <1>1, <1>6 DEF Position, Before, Chosen
  <2>2. \A r \in requests \cup answers : r.op = "store" => r.data = r.id
    BY <1>3 DEF Supplied
  <2>3. ASSUME NEW q \in requests' \cup answers', q.op = "store" PROVE q.data = q.id
    <3>1. CASE q \in requests \cup answers
      BY <2>2, <2>3, <3>1
    <3>2. CASE \E r \in finished : q = Reply(r)
      <4>1. PICK r \in finished : q = Reply(r)
        BY <3>2
      <4> QED
        BY <1>4, <2>2, <2>3, <4>1
    <3> QED
      BY <1>2, <3>1, <3>2
  <2> QED
    BY <1>1, <1>3, <2>1, <2>3 DEF Supplied
<1> QED
  BY <1>5, <1>7, <1>8, <1>9, <1>10 DEF DInv

----------------------------------------------------------------------------
(* The engine: what tick_load() and tick_store() have in common.            *)

(* The pending requests a tick retires are answered.                        *)
LEMMA AnsweredFacts ==
  ASSUME DataType, NEW s \in Streams
  PROVE  /\ Answered(s) \in 0 .. Len(pending[s])
         /\ \A k \in 1 .. Answered(s) : \E r \in answers : r.id = pending[s][k]
<1> DEFINE p == pending[s]
           L == Len(p)
           has(k) == \E r \in answers : r.id = p[k]
           T == {k \in 0 .. L : k = L \/ ~has(k + 1)}
           good(n) == /\ \A k \in 1 .. n : \E r \in answers : r.id = p[k]
                      /\ n < L => \A r \in answers : r.id # p[n + 1]
<1>1. L \in Nat
  BY DEF DataType
<1> HIDE DEF p, L
<1>2. L \in T /\ T \subseteq Nat
  BY <1>1
<1>3. PICK n \in T : \A y \in T : n <= y
  <2> HIDE DEF T
  <2> QED
    BY <1>2, Minimum
<1>4. n \in 0 .. L
  BY <1>3
<1>5. ASSUME NEW k \in 1 .. n PROVE has(k)
  <2>1. k - 1 \in 0 .. L /\ ~(n <= k - 1) /\ k - 1 # L /\ (k - 1) + 1 = k
    BY <1>1, <1>4
  <2>2. k - 1 \notin T
    BY <1>3, <2>1
  <2> QED
    BY <2>1, <2>2
<1>6. good(n)
  BY <1>1, <1>3, <1>4, <1>5
<1>7. Answered(s) = CHOOSE i \in 0 .. L : good(i)
  BY DEF Answered, p, L
<1> HIDE DEF good
<1>8. Answered(s) \in 0 .. L /\ good(Answered(s))
  BY <1>4, <1>6, <1>7
<1> QED
  BY <1>8 DEF good, p, L

(* The engine works on the first command that is not over; it was where it  *)
(* left off, or begins.                                                     *)
LEMMA BeginTick ==
  ASSUME IInv, DInv, NEW s \in Streams, NEW c, c = Starting(s), c # 0
  PROVE  /\ c \in Transfers /\ Program[c].stream = s /\ c <= pc /\ c \in Nat \ {0} /\ c \in Commands
         /\ Front(s) = c /\ c \notin Completed
         /\ active[s] = c \/ (active[s] = 0 /\ pending[s] = <<>> /\ done[s] = 0 /\ next[s] = 0
                              /\ queue[s] # <<>> /\ c = Head(queue[s]))
         /\ pending[s] \in Seq(Vectors) /\ Len(pending[s]) \in Nat /\ next[s] \in Nat /\ done[s] \in Nat
         /\ next[s] = done[s] + Len(pending[s]) /\ next[s] <= Count(c)
         /\ \A k \in 1 .. Len(pending[s]) : pending[s][k] = <<c, done[s] + k>>
         /\ \A op : /\ Position(s, op, next[s])
                         = Before(s, op, c) + (IF Program[c].op = op THEN next[s] ELSE 0)
                    /\ Position(s, op, done[s])
                         = Before(s, op, c) + (IF Program[c].op = op THEN done[s] ELSE 0)
<1>1. NotesType /\ EachOnce /\ DataType /\ Underway
  BY DEF IInv, DInv
<1>2. /\ pending[s] \in Seq(Vectors) /\ Len(pending[s]) \in Nat /\ next[s] \in Nat /\ done[s] \in Nat
      /\ active[s] \in Nat /\ queue[s] \in Seq(Transfers)
  <2>1. pending[s] \in Seq(Vectors) /\ next[s] \in Nat /\ done[s] \in Nat
    BY <1>1 DEF DataType
  <2> QED
    BY <1>1, <2>1, CommandNumbers
<1>3. /\ active[s] = 0 => next[s] = 0
      /\ active[s] # 0 => next[s] <= Count(active[s])
      /\ next[s] = done[s] + Len(pending[s])
      /\ \A k \in 1 .. Len(pending[s]) : pending[s][k] = <<active[s], done[s] + k>>
  BY <1>1 DEF Underway
<1>4. CASE active[s] # 0
  <2>1. c = active[s] /\ Front(s) = c
    BY <1>4 DEF Starting, Front
  <2>2. Open(s, c)
    BY <1>1, <1>4, <2>1 DEF EachOnce
  <2>3. c \in Transfers
    BY <1>1, <1>4, <2>1 DEF NotesType
  <2>4. c \in Nat \ {0} /\ c \in Commands
    BY <1>1, <2>3, CommandNumbers, ProgramFacts
  <2>5. \A op, n : Position(s, op, n) = Before(s, op, c) + (IF Program[c].op = op THEN n ELSE 0)
    BY <1>4, <2>1 DEF Position
  <2> QED
    BY <1>2, <1>3, <1>4, <2>1, <2>2, <2>3, <2>4, <2>5 DEF Open
<1>5. CASE active[s] = 0
  <2>1. queue[s] # <<>> /\ c = Head(queue[s]) /\ Front(s) = c
    BY <1>5 DEF Starting, Front
  <2>2. 1 \in 1 .. Len(queue[s]) /\ c = queue[s][1]
    BY <1>2, <2>1, TailFacts
  <2>3. Open(s, c) /\ c \in Transfers
    BY <1>1, <2>2, CommandNumbers DEF EachOnce
  <2>4. c \in Nat \ {0} /\ c \in Commands /\ Count(c) \in Nat
    BY <1>1, <2>3, CommandNumbers, ProgramFacts, VectorFacts
  <2>5. done[s] = 0 /\ next[s] = 0 /\ Len(pending[s]) = 0
    BY <1>2, <1>3, <1>5
  <2>6. pending[s] = <<>> /\ \A k \in 1 .. Len(pending[s]) : pending[s][k] = <<c, done[s] + k>>
    BY <1>2, <2>5
  <2>7. \A op, n : Position(s, op, n) = Before(s, op, c) + 0
    BY <1>5, <2>1 DEF Position
  <2>8. \A op : IF Program[c].op = op THEN next[s] = 0 ELSE 0 = 0
    BY <2>5
  <2>9. \A op : /\ Position(s, op, next[s])
                     = Before(s, op, c) + (IF Program[c].op = op THEN next[s] ELSE 0)
                /\ Position(s, op, done[s])
                     = Before(s, op, c) + (IF Program[c].op = op THEN done[s] ELSE 0)
    BY <2>5, <2>7
  <2>10. next[s] <= Count(c)
    BY <2>4, <2>5
  <2> QED
    BY <1>2, <1>3, <1>5, <2>1, <2>3, <2>4, <2>5, <2>6, <2>9, <2>10 DEF Open
<1> QED
  BY <1>4, <1>5

(* n answers are taken, and m requests are made with data dat.              *)
Tick(s, c, n, m, dat) ==
  /\ c = Starting(s) /\ c # 0
  /\ n \in 0 .. Len(pending[s]) /\ \A k \in 1 .. n : \E r \in answers : r.id = pending[s][k]
  /\ m \in Nat /\ (m > 0 => m <= Credit) /\ next[s] + m <= Count(c)
  /\ \A k \in 1 .. m : dat[k] \in Vectors \cup {Initial}
  /\ answers' = {r \in answers : \A k \in 1 .. n : r.id # pending[s][k]}
  /\ pending' = [pending EXCEPT ![s] = SubSeq(pending[s], n + 1, Len(pending[s]))
                                         \o [k \in 1 .. m |-> <<c, next[s] + k>>]]
  /\ requests' = requests \cup
       {[id |-> <<c, next[s] + k>>, op |-> Program[c].op, data |-> dat[k]] : k \in 1 .. m}
  /\ Finish(s, c, next[s] + m, done[s] + n) /\ EndTick(s, c)
  /\ UNCHANGED icuVars

(* The pending requests after a tick: retired in front, asked for at the    *)
(* end.                                                                     *)
LEMMA TickPending ==
  ASSUME IInv, DInv, NEW s \in Streams, NEW c, NEW n, NEW m, NEW dat, Tick(s, c, n, m, dat)
  PROVE  /\ pending' \in [Streams -> Seq(Vectors)] /\ Len(pending'[s]) = (Len(pending[s]) - n) + m
         /\ \A k \in 1 .. Len(pending'[s]) : pending'[s][k] = <<c, (done[s] + n) + k>>
         /\ \A p \in Streams \ {s} : pending'[p] = pending[p]
         /\ n \in Nat /\ m \in Nat /\ n <= Len(pending[s]) /\ Len(pending'[s]) \in Nat
         /\ done[s] + n \in Nat /\ next[s] + m \in Nat
         /\ next[s] + m = (done[s] + n) + Len(pending'[s])
<1> DEFINE p == pending[s]
           L == Len(p)
           left == SubSeq(p, n + 1, L)
           new == [k \in 1 .. m |-> <<c, next[s] + k>>]
           a == next[s]
           d == done[s]
           q == left \o new
<1>1. /\ p \in Seq(Vectors) /\ L \in Nat /\ a \in Nat /\ d \in Nat /\ a = d + L /\ c \in Transfers
      /\ \A k \in 1 .. L : p[k] = <<c, d + k>>
  BY BeginTick DEF Tick
<1>2. n \in 0 .. L /\ m \in Nat /\ a + m <= Count(c)
  BY DEF Tick
<1>3. pending \in [Streams -> Seq(Vectors)] /\ pending' = [pending EXCEPT ![s] = q]
  BY DEF Tick, DInv, DataType
<1>4. new = [k \in 1 .. m |-> <<c, a + k>>]
  OBVIOUS
<1> HIDE DEF p, L, left, new, a, d
<1>5. /\ left \in Seq(Vectors) /\ Len(left) = L - n
      /\ \A k \in 1 .. L - n : left[k] = p[n + k]
  <2>1. \A i \in n + 1 .. L : p[i] \in Vectors
    <3>1. \A i \in n + 1 .. L : i \in 1 .. L
      BY <1>1, <1>2
    <3> QED
      BY <1>1, <3>1, ElementOfSeq DEF L
  <2> DEFINE f == n + 1
             w == SubSeq(p, f, L)
  <2>2. f \in Int /\ L \in Int /\ n \in Nat /\ \A i \in f .. L : p[i] \in Vectors
    BY <1>1, <1>2, <2>1
  <2>3. left = w /\ f = n + 1
    BY DEF left
  <2> HIDE DEF f
  <2>4. /\ w \in Seq(Vectors) /\ Len(w) = IF f <= L THEN L - f + 1 ELSE 0
        /\ \A i \in 1 .. L - f + 1 : w[i] = p[f + i - 1]
    BY <2>2, SubSeqProperties
  <2> HIDE DEF w
  <2>5. L - f + 1 = L - n /\ \A i \in 1 .. L - n : f + i - 1 = n + i
    BY <1>1, <2>2, <2>3
  <2>6. Len(w) = L - n
    BY <1>1, <1>2, <2>2, <2>3, <2>4
  <2>7. \A i \in 1 .. L - n : w[i] = p[n + i]
    BY <2>4, <2>5
  <2> QED
    BY <2>3, <2>4, <2>6, <2>7
<1>6. new \in Seq(Vectors) /\ Len(new) = m
  <2>1. \A k \in 1 .. m : a + k \in 1 .. Count(c)
    BY <1>1, <1>2, VectorFacts
  <2>2. \A k \in 1 .. m : <<c, a + k>> \in Vectors
    BY <1>1, <2>1, VectorFacts
  <2> QED
    BY <1>2, <1>4, <2>2
<1>7. /\ q \in Seq(Vectors) /\ Len(q) = (L - n) + m
      /\ \A i \in 1 .. (L - n) + m : q[i] = IF i <= L - n THEN left[i] ELSE new[i - (L - n)]
  <2>1. /\ q \in Seq(Vectors) /\ Len(q) = Len(left) + Len(new)
        /\ \A i \in 1 .. Len(left) + Len(new) : q[i] = IF i <= Len(left) THEN left[i] ELSE new[i - Len(left)]
    BY <1>5, <1>6, ConcatProperties
  <2> HIDE DEF q
  <2> QED
    BY <1>5, <1>6, <2>1
<1>8. ASSUME NEW k \in 1 .. (L - n) + m PROVE q[k] = <<c, (d + n) + k>>
  <2>1. CASE k <= L - n
    <3>1. k \in 1 .. L - n /\ n + k \in 1 .. L /\ d + (n + k) = (d + n) + k
      BY <1>1, <1>2, <2>1
    <3>2. PICK j \in 1 .. L : j = n + k
      BY <3>1
    <3>3. q[k] = p[j]
      BY <1>5, <1>7, <2>1, <3>1, <3>2
    <3> QED
      BY <1>1, <3>1, <3>2, <3>3
  <2>2. CASE ~(k <= L - n)
    <3>1. k - (L - n) \in 1 .. m /\ a + (k - (L - n)) = (d + n) + k
      BY <1>1, <1>2, <2>2
    <3>2. PICK j \in 1 .. m : j = k - (L - n)
      BY <3>1
    <3>3. q[k] = new[j]
      BY <1>7, <2>2, <3>2
    <3> QED
      BY <1>4, <3>1, <3>2, <3>3
  <2> QED
    BY <2>1, <2>2
<1>9. pending'[s] = q /\ pending' \in [Streams -> Seq(Vectors)]
      /\ \A x \in Streams \ {s} : pending'[x] = pending[x]
  <2> HIDE DEF q
  <2> QED
    BY <1>3, <1>7
<1> HIDE DEF q
<1>10. /\ n \in Nat /\ n <= L /\ Len(q) \in Nat /\ d + n \in Nat /\ a + m \in Nat
       /\ a + m = (d + n) + Len(q)
  BY <1>1, <1>2, <1>7
<1>11. /\ Len(pending'[s]) = (L - n) + m
       /\ \A k \in 1 .. Len(pending'[s]) : pending'[s][k] = <<c, (d + n) + k>>
  BY <1>7, <1>8, <1>9
<1> QED
  BY <1>2, <1>9, <1>10, <1>11 DEF L, p, a, d

(* How the command stands after the tick.                                   *)
LEMMA TickStands ==
  ASSUME IInv, DInv, NEW s \in Streams, NEW c, NEW n, NEW m, NEW dat, Tick(s, c, n, m, dat)
  PROVE  /\ \A p \in Streams \ {s} : active'[p] = active[p] /\ next'[p] = next[p] /\ done'[p] = done[p]
         /\ next' \in [Streams -> Nat] /\ done' \in [Streams -> Nat]
         /\ \/ /\ active'[s] = c /\ next'[s] = next[s] + m /\ done'[s] = done[s] + n
               /\ Completed' = Completed
            \/ /\ active'[s] = 0 /\ next'[s] = 0 /\ done'[s] = 0 /\ Len(pending'[s]) = 0
               /\ next[s] + m = Count(c) /\ done[s] + n = Count(c)
               /\ Completed' = Completed \cup {c}
<1>1. /\ active \in [Streams -> Transfers \cup {0}] /\ next \in [Streams -> Nat] /\ done \in [Streams -> Nat]
      /\ completions \in Seq(Transfers) /\ c \in Transfers
  BY BeginTick DEF IInv, NotesType, DInv, DataType, Tick
<1>2. /\ done[s] + n \in Nat /\ next[s] + m \in Nat /\ Len(pending'[s]) \in Nat
      /\ next[s] + m = (done[s] + n) + Len(pending'[s])
  BY TickPending
<1>3. Count(c) \in Nat /\ next[s] + m <= Count(c) /\ Finish(s, c, next[s] + m, done[s] + n)
  BY <1>1, VectorFacts DEF Tick
<1> DEFINE r == next[s] + m
           d == done[s] + n
           l == Len(pending'[s])
<1>4. r \in Nat /\ d \in Nat /\ l \in Nat /\ r = d + l /\ r <= Count(c) /\ Finish(s, c, r, d)
  BY <1>2, <1>3
<1>5. CASE d = Count(c)
  <2> HIDE DEF r, d, l
  <2>1. l = 0 /\ r = Count(c)
    BY <1>3, <1>4, <1>5
  <2>2. /\ active' = [active EXCEPT ![s] = 0]
        /\ next' = [next EXCEPT ![s] = 0] /\ done' = [done EXCEPT ![s] = 0]
        /\ completions' = Append(completions, c)
    BY <1>4, <1>5 DEF Finish, Completes
  <2>3. /\ active'[s] = 0 /\ next'[s] = 0 /\ done'[s] = 0
        /\ next' \in [Streams -> Nat] /\ done' \in [Streams -> Nat]
        /\ \A p \in Streams \ {s} : active'[p] = active[p] /\ next'[p] = next[p] /\ done'[p] = done[p]
    BY <1>1, <2>2
  <2>4. Completed' = Completed \cup {c}
    <3>1. /\ Append(completions, c) \in Seq(Transfers) /\ Len(completions) \in Nat
          /\ Len(Append(completions, c)) = Len(completions) + 1
          /\ Append(completions, c)[Len(completions) + 1] = c
          /\ \A i \in 1 .. Len(completions) : Append(completions, c)[i] = completions[i]
      BY <1>1, AppendFacts
    <3> DEFINE x == Append(completions, c)
               k == Len(completions)
    <3>2. DOMAIN completions = 1 .. k /\ DOMAIN x = 1 .. (k + 1) /\ 1 .. (k + 1) = (1 .. k) \cup {k + 1}
      BY <1>1, <3>1
    <3>3. x[k + 1] = c /\ \A i \in 1 .. k : x[i] = completions[i]
      BY <3>1
    <3>4. Completed' = {x[i] : i \in DOMAIN x} /\ Completed = {completions[i] : i \in DOMAIN completions}
      BY <2>2 DEF Completed
    <3> HIDE DEF x, k
    <3> QED
      BY <3>2, <3>3, <3>4
  <2> QED
    BY <1>5, <2>1, <2>3, <2>4 DEF r, d, l
<1>6. CASE d # Count(c)
  <2> HIDE DEF r, d, l
  <2>1. /\ active' = [active EXCEPT ![s] = c]
        /\ next' = [next EXCEPT ![s] = r] /\ done' = [done EXCEPT ![s] = d]
        /\ completions' = completions
    BY <1>4, <1>6 DEF Finish, Completes, noteVars
  <2>2. /\ active'[s] = c /\ next'[s] = r /\ done'[s] = d
        /\ next' \in [Streams -> Nat] /\ done' \in [Streams -> Nat]
        /\ \A p \in Streams \ {s} : active'[p] = active[p] /\ next'[p] = next[p] /\ done'[p] = done[p]
    BY <1>1, <1>4, <2>1
  <2>3. Completed' = Completed
    BY <2>1 DEF Completed
  <2> QED
    BY <2>2, <2>3 DEF r, d
<1> QED
  BY <1>5, <1>6

(* What a tick leaves in the queue.                                         *)
LEMMA TickQueue ==
  ASSUME IInv, DInv, NEW s \in Streams, NEW c, NEW n, NEW m, NEW dat, Tick(s, c, n, m, dat)
  PROVE  /\ \A p \in Streams \ {s} : queue'[p] = queue[p]
         /\ queue'[s] \in Seq(Transfers) /\ Len(queue'[s]) \in Nat
         /\ \A k \in 1 .. Len(queue'[s]) : queue'[s][k] \in Nat /\ c < queue'[s][k] /\ queue'[s][k] <= pc
         /\ \A j, k \in 1 .. Len(queue'[s]) : j < k => queue'[s][j] < queue'[s][k]
         /\ \A d : Held(s, d) => d = c \/ d = 0 \/ \E k \in 1 .. Len(queue'[s]) : queue'[s][k] = d
         /\ \A d : c = d \/ (\E k \in 1 .. Len(queue'[s]) : queue'[s][k] = d) => Held(s, d)
         /\ pc' = pc
<1>1. /\ c \in Transfers
      /\ active[s] = c \/ (active[s] = 0 /\ queue[s] # <<>> /\ c = Head(queue[s]))
      /\ c # 0
  BY BeginTick DEF Tick
<1>2. WorksOn(s, c) /\ pc' = pc
  BY DEF Tick, EndTick, WorksOn, icuVars
<1>3. Ahead(s, c)
  BY <1>2, StartFacts
<1>4. /\ \A p \in Streams \ {s} : queue'[p] = queue[p]
      /\ queue'[s] \in Seq(Transfers) /\ Len(queue'[s]) \in Nat
      /\ \A k \in 1 .. Len(queue'[s]) : queue'[s][k] \in Nat /\ c < queue'[s][k] /\ queue'[s][k] <= pc
      /\ \A j, k \in 1 .. Len(queue'[s]) : j < k => queue'[s][j] < queue'[s][k]
  <2>1. queue' \in [Streams -> Seq(Transfers)]
    BY <1>3 DEF Ahead
  <2>2. queue'[s] \in Seq(Transfers)
    BY <2>1
  <2>3. \A k \in 1 .. Len(queue'[s]) : queue'[s][k] \in Transfers
    BY <2>2, ElementOfSeq
  <2>4. Transfers \subseteq Nat
    BY CommandNumbers DEF IInv
  <2>5. \A k \in 1 .. Len(queue'[s]) : c < queue'[s][k] /\ queue'[s][k] <= pc
    BY <1>3 DEF Ahead, Open
  <2> QED
    BY <1>3, <2>2, <2>3, <2>4, <2>5 DEF Ahead
<1>5. queue \in [Streams -> Seq(Transfers)] /\ queue[s] \in Seq(Transfers)
  BY DEF IInv, NotesType
<1>6. CASE active[s] = c
  <2>1. queue'[s] = queue[s]
    BY <1>2, <1>5, <1>6 DEF WorksOn
  <2> QED
    BY <1>2, <1>4, <1>6, <2>1 DEF Held
<1>7. CASE active[s] # c /\ active[s] = 0 /\ queue[s] # <<>> /\ c = Head(queue[s])
  <2> DEFINE q == queue[s]
             t == Tail(q)
  <2>1. queue'[s] = t
    BY <1>2, <1>5, <1>7 DEF WorksOn
  <2>2. /\ Len(q) \in Nat \ {0} /\ c = q[1] /\ Len(t) = Len(q) - 1
        /\ \A k \in 1 .. Len(t) : k + 1 \in 1 .. Len(q) /\ t[k] = q[k + 1]
    BY <1>5, <1>7, TailFacts
  <2> HIDE DEF t, q
  <2>3. ASSUME NEW k \in 1 .. Len(q) PROVE q[k] = c \/ \E j \in 1 .. Len(t) : t[j] = q[k]
    <3>1. CASE k = 1
      BY <2>2, <3>1
    <3>2. CASE k # 1
      <4>1. k - 1 \in 1 .. Len(t) /\ (k - 1) + 1 = k
        BY <2>2, <3>2
      <4>2. t[k - 1] = q[(k - 1) + 1]
        BY <2>2, <4>1
      <4> QED
        BY <4>1, <4>2
    <3> QED
      BY <3>1, <3>2
  <2>4. \A d : Held(s, d) => d = c \/ d = 0 \/ \E k \in 1 .. Len(t) : t[k] = d
    BY <1>7, <2>3 DEF Held, q
  <2>5. 1 \in 1 .. Len(q)
    BY <2>2
  <2>6. \A d : c = d \/ (\E k \in 1 .. Len(t) : t[k] = d) => Held(s, d)
    BY <2>2, <2>5 DEF Held, q
  <2> QED
    BY <1>2, <1>4, <2>1, <2>4, <2>6
<1> QED
  BY <1>1, <1>6, <1>7

(* The first command of the stream after a tick.                            *)
LEMMA TickFront ==
  ASSUME IInv, DInv, NEW s \in Streams, NEW c, NEW n, NEW m, NEW dat, Tick(s, c, n, m, dat)
  PROVE  /\ \A p \in Streams \ {s} : Front(p)' = Front(p)
         /\ active'[s] = c => Front(s)' = c
         /\ active'[s] = 0 => /\ Front(s)' \in Nat /\ c < Front(s)' /\ Front(s)' <= pc + 1
                              /\ \A k \in 1 .. Len(queue'[s]) : Front(s)' <= queue'[s][k]
<1>1. /\ \A p \in Streams \ {s} : queue'[p] = queue[p]
      /\ queue'[s] \in Seq(Transfers) /\ Len(queue'[s]) \in Nat
      /\ \A k \in 1 .. Len(queue'[s]) : queue'[s][k] \in Nat /\ c < queue'[s][k] /\ queue'[s][k] <= pc
      /\ \A j, k \in 1 .. Len(queue'[s]) : j < k => queue'[s][j] < queue'[s][k]
      /\ pc' = pc
  BY TickQueue
<1>2. \A p \in Streams \ {s} : active'[p] = active[p]
  BY TickStands
<1>3. c \in Nat \ {0} /\ pc \in Nat /\ c <= pc
  BY BeginTick, FrontFacts DEF Tick
<1>4. \A p \in Streams \ {s} : Front(p)' = Front(p)
  BY <1>1, <1>2 DEF Front
<1>5. active'[s] = c => Front(s)' = c
  BY <1>3 DEF Front
<1>6. CASE active'[s] = 0 /\ queue'[s] # <<>>
  <2>1. Front(s)' = queue'[s][1] /\ 1 \in 1 .. Len(queue'[s])
    BY <1>1, <1>6, TailFacts DEF Front
  <2>2. \A k \in 1 .. Len(queue'[s]) : k = 1 \/ 1 < k
    BY <1>1
  <2>3. \A k \in 1 .. Len(queue'[s]) : queue'[s][1] <= queue'[s][k]
    BY <1>1, <2>1, <2>2
  <2>4. queue'[s][1] \in Nat /\ c < queue'[s][1] /\ queue'[s][1] <= pc + 1
    BY <1>1, <1>3, <2>1
  <2> QED
    BY <1>4, <1>5, <2>1, <2>3, <2>4
<1>7. CASE active'[s] = 0 /\ queue'[s] = <<>>
  <2>1. Front(s)' = pc + 1 /\ 1 .. Len(queue'[s]) = {}
    BY <1>1, <1>7 DEF Front
  <2> QED
    BY <1>3, <1>4, <1>5, <2>1
<1>8. CASE active'[s] # 0
  BY <1>4, <1>5, <1>8
<1> QED
  BY <1>6, <1>7, <1>8

(* A tick loses no command and completes none out of turn.                  *)
LEMMA TickInLine ==
  ASSUME IInv, DInv, NEW s \in Streams, NEW c, NEW n, NEW m, NEW dat, Tick(s, c, n, m, dat)
  PROVE  InLine'
<1>1. /\ c \in Transfers /\ Program[c].stream = s /\ Front(s) = c /\ c \in Nat \ {0}
  BY BeginTick DEF Tick
<1>2. InLine
  BY DEF DInv
<1>3. /\ \A p \in Streams \ {s} : active'[p] = active[p] /\ queue'[p] = queue[p] /\ Front(p)' = Front(p)
      /\ active'[s] = c => Front(s)' = c
      /\ active'[s] = 0 => Front(s)' \in Nat /\ c < Front(s)'
      /\ \/ active'[s] = c /\ Completed' = Completed
         \/ active'[s] = 0 /\ Completed' = Completed \cup {c}
      /\ \A d : Held(s, d) => d = c \/ d = 0 \/ \E k \in 1 .. Len(queue'[s]) : queue'[s][k] = d
      /\ pc' = pc
  BY TickStands, TickFront, TickQueue
<1>4. Completed \subseteq Nat /\ Transfers \subseteq Nat \ {0}
  BY CommandNumbers DEF IInv
<1>5. ASSUME NEW d \in Transfers, d <= pc' PROVE d \in Completed' \/ Held(Program[d].stream, d)'
  <2>1. d \in Completed \/ Held(Program[d].stream, d)
    BY <1>2, <1>3, <1>5 DEF InLine
  <2>2. CASE d \in Completed
    BY <1>3, <2>2
  <2>3. CASE Held(Program[d].stream, d) /\ Program[d].stream # s
    <3>1. Program[d].stream \in Streams \ {s}
      BY <2>3, ProgramFacts
    <3> QED
      BY <1>3, <2>3, <3>1 DEF Held
  <2>4. CASE Held(Program[d].stream, d) /\ Program[d].stream = s
    <3>1. d = c \/ \E k \in 1 .. Len(queue'[s]) : queue'[s][k] = d
      BY <1>3, <1>4, <2>4
    <3> QED
      BY <1>3, <2>4, <3>1 DEF Held
  <2> QED
    BY <2>1, <2>2, <2>3, <2>4
<1>6. ASSUME NEW d \in Completed' PROVE d < Front(Program[d].stream)'
  <2>1. CASE d \in Completed
    <3>1. d < Front(Program[d].stream)
      BY <1>2, <2>1 DEF InLine
    <3>2. CASE Program[d].stream # s
      <4>1. Program[d].stream \in Streams \ {s}
        BY <2>1, <3>2, ProgramFacts, Finite DEF IInv
      <4> QED
        BY <1>3, <3>1, <4>1
    <3>3. CASE Program[d].stream = s
      <4>1. d < c /\ d \in Nat
        BY <1>1, <1>4, <2>1, <3>1, <3>3
      <4>2. d < Front(s)'
        BY <1>1, <1>3, <4>1
      <4> QED
        BY <3>3, <4>2
    <3> QED
      BY <3>2, <3>3
  <2>2. CASE d = c /\ active'[s] = 0
    BY <1>1, <1>3, <2>2
  <2>3. d \in Completed \/ (d = c /\ active'[s] = 0)
    BY <1>3
  <2> QED
    BY <2>1, <2>2, <2>3
<1> QED
  BY <1>5, <1>6 DEF InLine

(* Between a command that is over and the next of its stream there is none. *)
LEMMA TickPosition ==
  ASSUME IInv, DInv, NEW s \in Streams, NEW c, NEW n, NEW m, NEW dat, Tick(s, c, n, m, dat),
         NEW op \in {"load", "store"}
  PROVE  /\ \A p \in Streams \ {s} : /\ Position(p, op, next[p])' = Position(p, op, next[p])
                                     /\ Position(p, op, done[p])' = Position(p, op, done[p])
         /\ Position(s, op, next[s])'
              = Before(s, op, c) + (IF Program[c].op = op THEN next[s] + m ELSE 0)
         /\ Position(s, op, done[s])'
              = Before(s, op, c) + (IF Program[c].op = op THEN done[s] + n ELSE 0)
<1>1. /\ c \in Transfers /\ Program[c].stream = s /\ Front(s) = c /\ c \in Nat \ {0} /\ c \in Commands
  BY BeginTick DEF Tick
<1>2. /\ \A p \in Streams \ {s} : /\ active'[p] = active[p] /\ Front(p)' = Front(p)
                                  /\ next'[p] = next[p] /\ done'[p] = done[p]
      /\ active'[s] = c => Front(s)' = c
      /\ active'[s] = 0 => /\ Front(s)' \in Nat /\ c < Front(s)' /\ Front(s)' <= pc + 1
                           /\ \A k \in 1 .. Len(queue'[s]) : Front(s)' <= queue'[s][k]
      /\ \/ active'[s] = c /\ next'[s] = next[s] + m /\ done'[s] = done[s] + n
         \/ /\ active'[s] = 0 /\ next'[s] = 0 /\ done'[s] = 0
            /\ next[s] + m = Count(c) /\ done[s] + n = Count(c)
  BY TickStands, TickFront
<1>3. \A p \in Streams \ {s} : /\ Position(p, op, next[p])' = Position(p, op, next[p])
                               /\ Position(p, op, done[p])' = Position(p, op, done[p])
  BY <1>2 DEF Position, Before, Chosen
<1>4. \A a : Before(s, op, a)' = Before(s, op, a)
  BY DEF Before, Chosen
<1>5. CASE active'[s] = c /\ next'[s] = next[s] + m /\ done'[s] = done[s] + n
  <2>1. Front(s)' = c /\ active'[s] # 0
    BY <1>1, <1>2, <1>5
  <2>2. /\ Position(s, op, next[s])' = Before(s, op, c) + (IF Program[c].op = op THEN next'[s] ELSE 0)
        /\ Position(s, op, done[s])' = Before(s, op, c) + (IF Program[c].op = op THEN done'[s] ELSE 0)
    BY <1>5, <2>1 DEF Position, Before, Chosen
  <2> QED
    BY <1>3, <1>5, <2>2
<1>6. CASE /\ active'[s] = 0 /\ next'[s] = 0 /\ done'[s] = 0
           /\ next[s] + m = Count(c) /\ done[s] + n = Count(c)
  <2> DEFINE f == Front(s)'
  <2>1. f \in Nat /\ c < f /\ f <= pc + 1 /\ c + 1 \in Nat /\ c + 1 <= f /\ pc \in Nat
        /\ \A k \in 1 .. Len(queue'[s]) : f <= queue'[s][k]
    BY <1>1, <1>2, <1>6, FrontFacts
  <2>2. Position(s, op, next[s])' = Before(s, op, f) + 0 /\ Position(s, op, done[s])' = Before(s, op, f) + 0
    BY <1>6 DEF Position, Before, Chosen
  <2> HIDE DEF f
  <2>3. ASSUME NEW d \in Transfers, c + 1 <= d, d < f PROVE ~Chosen(s, op, d)
    <3>1. SUFFICES ASSUME Program[d].stream = s PROVE FALSE
      BY DEF Chosen
    <3>2. d \in Nat \ {0} /\ d <= pc /\ ~(d <= c) /\ d # c
      BY <1>1, <2>1, <2>3, CommandNumbers DEF IInv
    <3>3. d \in Completed \/ Held(s, d)
      BY <3>1, <3>2 DEF DInv, InLine
    <3>4. d \notin Completed
      <4>1. d \in Completed => d < c
        BY <1>1, <3>1 DEF DInv, InLine
      <4> QED
        BY <1>1, <3>2, <4>1
    <3>5. PICK k \in 1 .. Len(queue'[s]) : queue'[s][k] = d
      BY <3>2, <3>3, <3>4, TickQueue
    <3>6. f <= d
      BY <2>1, <3>5
    <3> QED
      BY <2>1, <2>3, <3>2, <3>6
  <2>4. Before(s, op, c + 1) = Before(s, op, f)
    BY <2>1, <2>3, BeforeSame
  <2>5. Before(s, op, c + 1) = Before(s, op, c) + (IF Chosen(s, op, c) THEN Count(c) ELSE 0)
    BY <1>1, BeforeNext
  <2>6. Chosen(s, op, c) <=> Program[c].op = op
    BY <1>1 DEF Chosen
  <2>7. Before(s, op, f) \in Nat /\ Count(c) \in Nat
    BY <1>1, BeforeFacts, VectorFacts
  <2> QED
    BY <1>3, <1>6, <2>2, <2>4, <2>5, <2>6, <2>7
<1> QED
  BY <1>2, <1>3, <1>5, <1>6

(* A tick keeps the pending requests consecutive.                           *)
LEMMA TickUnderway ==
  ASSUME IInv, DInv, NEW s \in Streams, NEW c, NEW n, NEW m, NEW dat, Tick(s, c, n, m, dat)
  PROVE  Underway'
<1>1. c \in Transfers /\ c # 0 /\ next[s] + m <= Count(c) /\ Count(c) \in Nat
  BY BeginTick, VectorFacts DEF Tick
<1>2. /\ Len(pending'[s]) \in Nat
      /\ \A k \in 1 .. Len(pending'[s]) : pending'[s][k] = <<c, (done[s] + n) + k>>
      /\ \A p \in Streams \ {s} : pending'[p] = pending[p]
      /\ next[s] + m = (done[s] + n) + Len(pending'[s])
  BY TickPending
<1>3. /\ \A p \in Streams \ {s} : active'[p] = active[p] /\ next'[p] = next[p] /\ done'[p] = done[p]
      /\ \/ active'[s] = c /\ next'[s] = next[s] + m /\ done'[s] = done[s] + n
         \/ active'[s] = 0 /\ next'[s] = 0 /\ done'[s] = 0 /\ Len(pending'[s]) = 0
  BY TickStands
<1>4. ASSUME NEW p \in Streams \ {s}
      PROVE  /\ active'[p] = 0 => next'[p] = 0
             /\ active'[p] # 0 => next'[p] <= Count(active'[p])
             /\ next'[p] = done'[p] + Len(pending'[p])
             /\ \A k \in 1 .. Len(pending'[p]) : pending'[p][k] = <<active'[p], done'[p] + k>>
  BY <1>2, <1>3 DEF DInv, Underway
<1>5. /\ active'[s] = 0 => next'[s] = 0
      /\ active'[s] # 0 => next'[s] <= Count(active'[s])
      /\ next'[s] = done'[s] + Len(pending'[s])
      /\ \A k \in 1 .. Len(pending'[s]) : pending'[s][k] = <<active'[s], done'[s] + k>>
  <2>1. CASE active'[s] = c /\ next'[s] = next[s] + m /\ done'[s] = done[s] + n
    BY <1>1, <1>2, <2>1
  <2>2. CASE active'[s] = 0 /\ next'[s] = 0 /\ done'[s] = 0 /\ Len(pending'[s]) = 0
    BY <2>2
  <2> QED
    BY <1>3, <2>1, <2>2
<1>6. ASSUME NEW p \in Streams
      PROVE  /\ active'[p] = 0 => next'[p] = 0
             /\ active'[p] # 0 => next'[p] <= Count(active'[p])
             /\ next'[p] = done'[p] + Len(pending'[p])
             /\ \A k \in 1 .. Len(pending'[p]) : pending'[p][k] = <<active'[p], done'[p] + k>>
  BY <1>4, <1>5
<1> QED
  BY <1>6 DEF Underway, Count

(* The requests a tick makes.                                               *)
Fresh(s, c, m, dat) ==
  {[id |-> <<c, next[s] + k>>, op |-> Program[c].op, data |-> dat[k]] : k \in 1 .. m}

(* The requests a tick adds: one for each new vector.                       *)
LEMMA FreshFacts ==
  ASSUME IInv, DInv, NEW s \in Streams, NEW c, NEW n, NEW m, NEW dat, Tick(s, c, n, m, dat)
  PROVE  /\ Fresh(s, c, m, dat) \subseteq Request /\ IsFiniteSet(Fresh(s, c, m, dat))
         /\ Cardinality(Fresh(s, c, m, dat)) <= m
         /\ \A r \in Fresh(s, c, m, dat) :
              /\ r.op = Program[c].op /\ r.id[1] = c
              /\ \E k \in 1 .. m : r.id = <<c, next[s] + k>> /\ r.data = dat[k]
         /\ \A q, r \in Fresh(s, c, m, dat) : q.id = r.id => q = r
         /\ \A k \in 1 .. m : \E r \in Fresh(s, c, m, dat) : r.id = <<c, next[s] + k>>
<1> DEFINE F == Fresh(s, c, m, dat)
           a == next[s]
           f == [k \in 1 .. m |-> [id |-> <<c, a + k>>, op |-> Program[c].op, data |-> dat[k]]]
<1>1. c \in Transfers /\ a \in Nat /\ Program[c].op \in {"load", "store"} /\ Count(c) \in Nat
  BY BeginTick, VectorFacts DEF Tick, Transfers
<1>2. m \in Nat /\ a + m <= Count(c) /\ \A k \in 1 .. m : dat[k] \in Vectors \cup {Initial}
  BY DEF Tick
<1>3. F = {f[k] : k \in 1 .. m}
  BY DEF Fresh
<1>4. f \in Surjection(1 .. m, F)
  <2>1. DOMAIN f = 1 .. m
    OBVIOUS
  <2>2. f = [k \in 1 .. m |-> f[k]]
    OBVIOUS
  <2> HIDE DEF f, F
  <2> QED
    BY <1>3, <2>1, <2>2 DEF Surjection
<1>5. \A k \in 1 .. m : <<c, a + k>> \in Vectors
  <2> HIDE DEF a
  <2>1. \A k \in 1 .. m : a + k \in 1 .. Count(c)
    BY <1>1, <1>2
  <2> QED
    BY <1>1, <2>1, VectorFacts
<1>6. \A k \in 1 .. m : /\ f[k] \in Request /\ f[k].op = Program[c].op /\ f[k].id = <<c, a + k>>
                        /\ f[k].data = dat[k]
  <2>1. \A k \in 1 .. m : f[k] = [id |-> <<c, a + k>>, op |-> Program[c].op, data |-> dat[k]]
    OBVIOUS
  <2> HIDE DEF f, a
  <2> SUFFICES ASSUME NEW k \in 1 .. m
               PROVE  /\ f[k] \in Request /\ f[k].op = Program[c].op /\ f[k].id = <<c, a + k>>
                      /\ f[k].data = dat[k]
    OBVIOUS
  <2> DEFINE v == <<c, a + k>>
  <2>2. v \in Vectors /\ dat[k] \in Vectors \cup {Initial}
    BY <1>2, <1>5
  <2>3. f[k] = [id |-> v, op |-> Program[c].op, data |-> dat[k]]
    BY <2>1
  <2> HIDE DEF v
  <2>4. /\ f[k] \in Request /\ f[k].op = Program[c].op /\ f[k].id = v
        /\ f[k].data = dat[k]
    BY <1>1, <2>2, <2>3 DEF Request
  <2> QED
    BY <2>4 DEF v
<1> HIDE DEF f, F, a
<1>7. IsFiniteSet(1 .. m) /\ Cardinality(1 .. m) = m
  <2>1. IsFiniteSet(1 .. m) /\ Cardinality(1 .. m) = IF 1 > m THEN 0 ELSE m - 1 + 1
    BY <1>2, FS_Interval
  <2> QED
    BY <1>2, <2>1
<1>8. IsFiniteSet(F) /\ Cardinality(F) <= m
  BY <1>4, <1>7, FS_Surjection
<1>9. F \subseteq Request
  BY <1>3, <1>6
<1>10. \A r \in F : /\ r.op = Program[c].op /\ r.id[1] = c
                    /\ \E k \in 1 .. m : r.id = <<c, a + k>> /\ r.data = dat[k]
  BY <1>3, <1>6
<1>11. ASSUME NEW q \in F, NEW r \in F, q.id = r.id PROVE q = r
  <2>1. PICK i \in 1 .. m : q = f[i]
    BY <1>3
  <2>2. PICK j \in 1 .. m : r = f[j]
    BY <1>3
  <2>3. a + i = a + j
    BY <1>6, <1>11, <2>1, <2>2
  <2>4. i = j
    BY <1>1, <1>2, <2>3
  <2> QED
    BY <2>1, <2>2, <2>4
<1>12. \A k \in 1 .. m : \E r \in F : r.id = <<c, a + k>>
  BY <1>3, <1>6
<1> QED
  BY <1>8, <1>9, <1>10, <1>11, <1>12 DEF F, a

(* They are within the credit.                                              *)
LEMMA TickRequests ==
  ASSUME IInv, DInv, NEW s \in Streams, NEW c, NEW n, NEW m, NEW dat, Tick(s, c, n, m, dat)
  PROVE  /\ requests' \cup answers' \subseteq Request
         /\ IsFiniteSet(requests') /\ Cardinality(requests') <= RequestDepth
<1> DEFINE F == Fresh(s, c, m, dat)
           x == Cardinality(requests)
           y == Cardinality(F)
           z == Cardinality(requests')
<1>1. F \subseteq Request /\ IsFiniteSet(F) /\ y <= m
  BY FreshFacts
<1>2. /\ requests' = requests \cup F /\ answers' \subseteq answers /\ m \in Nat
      /\ m > 0 => m <= RequestDepth - x
  BY DEF Tick, Fresh, Credit
<1>3. requests \cup answers \subseteq Request /\ IsFiniteSet(requests) /\ x <= RequestDepth
  BY DEF DInv, DataType
<1>4. x \in Nat /\ y \in Nat /\ RequestDepth \in Nat
  BY <1>1, <1>3, FS_CardinalityType, DmaAssumption
<1>5. IsFiniteSet(requests') /\ z = x + y - Cardinality(requests \cap F)
  <2> HIDE DEF F
  <2> QED
    BY <1>1, <1>2, <1>3, FS_Union
<1>6. Cardinality(requests \cap F) \in Nat
  <2>1. requests \cap F \in SUBSET requests
    OBVIOUS
  <2> HIDE DEF F
  <2> QED
    BY <1>3, <2>1, FS_Subset, FS_CardinalityType
<1> DEFINE w == Cardinality(requests \cap F)
<1> HIDE DEF x, y, z, w
<1>7. z <= RequestDepth
  <2>1. z = x + y - w /\ w \in Nat
    BY <1>5, <1>6 DEF w
  <2> QED
    BY <1>1, <1>2, <1>3, <1>4, <2>1
<1> HIDE DEF F
<1> QED
  BY <1>1, <1>2, <1>3, <1>5, <1>7 DEF z

(* Engine and DDR still agree on what is outstanding after a tick.          *)
LEMMA TickRequested ==
  ASSUME IInv, DInv, NEW s \in Streams, NEW c, NEW n, NEW m, NEW dat, Tick(s, c, n, m, dat)
  PROVE  Requested'
<1> DEFINE F == Fresh(s, c, m, dat)
           d == done[s]
           a == next[s]
           L == Len(pending[s])
           M == Len(pending'[s])
<1>1. /\ c \in Transfers /\ Program[c].stream = s /\ d \in Nat /\ a \in Nat /\ L \in Nat
      /\ a = d + L /\ \A k \in 1 .. L : pending[s][k] = <<c, d + k>>
  BY BeginTick DEF Tick
<1>2. /\ F \subseteq Request
      /\ \A r \in F : r.op = Program[c].op /\ r.id[1] = c /\ \E k \in 1 .. m : r.id = <<c, a + k>>
      /\ \A q, r \in F : q.id = r.id => q = r
      /\ \A k \in 1 .. m : \E r \in F : r.id = <<c, a + k>>
  BY FreshFacts
<1>3. /\ requests' = requests \cup F
      /\ answers' = {r \in answers : \A k \in 1 .. n : r.id # pending[s][k]}
      /\ \A k \in 1 .. n : \E r \in answers : r.id = pending[s][k]
  BY DEF Tick, Fresh
<1>4. /\ \A r \in requests \cup answers : r.op = Program[r.id[1]].op
      /\ \A p, q \in requests : p.id = q.id => p = q
      /\ \A p \in requests, q \in answers : p.id # q.id
      /\ \A x \in Streams : Outstanding(x) = Seqs!ToSet(pending[x])
  BY DEF DInv, Requested
<1>5. /\ n \in Nat /\ m \in Nat /\ n <= L /\ M \in Nat /\ M = (L - n) + m
      /\ \A k \in 1 .. M : pending'[s][k] = <<c, (d + n) + k>>
      /\ \A x \in Streams \ {s} : pending'[x] = pending[x]
      /\ pending' \in [Streams -> Seq(Vectors)]
  BY TickPending
<1>6. requests \cup answers \subseteq Request /\ pending \in [Streams -> Seq(Vectors)]
  BY DEF DInv, DataType
<1>7. requests' \cup answers' \subseteq Request
  BY TickRequests
<1> HIDE DEF F, d, a, L, M
(* The ids of this stream are those pending.                                *)
<1>8. ASSUME NEW r \in requests \cup answers, Program[r.id[1]].stream = s
      PROVE  \E k \in 1 .. L : r.id = <<c, d + k>>
  <2>1. r.id \in Outstanding(s)
    BY <1>8 DEF Outstanding
  <2>2. r.id \in Seqs!ToSet(pending[s]) /\ DOMAIN pending[s] = 1 .. L
    BY <1>4, <1>6, <2>1 DEF L
  <2>3. PICK k \in 1 .. L : r.id = pending[s][k]
    BY <2>2 DEF Seqs!ToSet
  <2> QED
    BY <1>1, <2>3
<1>9. \A k \in 1 .. L : \E r \in requests \cup answers : r.id = <<c, d + k>>
  <2> SUFFICES ASSUME NEW k \in 1 .. L PROVE \E r \in requests \cup answers : r.id = <<c, d + k>>
    OBVIOUS
  <2>1. pending[s][k] \in Seqs!ToSet(pending[s])
    <3>1. DOMAIN pending[s] = 1 .. L
      BY <1>6 DEF L
    <3> QED
      BY <3>1 DEF Seqs!ToSet
  <2>2. pending[s][k] \in Outstanding(s)
    BY <1>4, <2>1
  <2> QED
    BY <1>1, <2>2 DEF Outstanding
<1>10. \A r \in F, q \in requests \cup answers : r.id # q.id
  <2> SUFFICES ASSUME NEW r \in F, NEW q \in requests \cup answers, r.id = q.id PROVE FALSE
    OBVIOUS
  <2>1. PICK j \in 1 .. m : r.id = <<c, a + j>>
    BY <1>2
  <2>2. Program[q.id[1]].stream = s
    BY <1>1, <1>2
  <2>3. PICK k \in 1 .. L : q.id = <<c, d + k>>
    BY <1>8, <2>2
  <2> DEFINE x == a + j
             y == d + k
  <2>4. <<c, x>> = <<c, y>>
    BY <2>1, <2>3
  <2> HIDE DEF x, y
  <2>5. x = y
    BY <2>4
  <2>6. a + j = d + k
    BY <2>5 DEF x, y
  <2> QED
    BY <1>1, <1>5, <2>6
<1>11. \A r \in requests' \cup answers' : r.op = Program[r.id[1]].op
  BY <1>2, <1>3, <1>4
<1>12. \A p, q \in requests' : p.id = q.id => p = q
  BY <1>2, <1>3, <1>4, <1>10
<1>13. \A p \in requests', q \in answers' : p.id # q.id
  BY <1>3, <1>4, <1>10
<1>14. ASSUME NEW x \in Streams \ {s} PROVE Outstanding(x)' = Seqs!ToSet(pending'[x])
  <2>1. \A r \in F : Program[r.id[1]].stream = s
    BY <1>1, <1>2
  <2>2. \A k \in 1 .. n : Program[pending[s][k][1]].stream = s
    <3>1. \A k \in 1 .. n : k \in 1 .. L
      BY <1>1, <1>5
    <3> QED
      BY <1>1, <3>1
  <2>3. \A r \in requests \cup answers : Program[r.id[1]].stream = x => r \in requests' \cup answers'
    BY <1>3, <2>2
  <2>4. \A r \in requests' \cup answers' : Program[r.id[1]].stream = x => r \in requests \cup answers
    BY <1>3, <2>1
  <2>5. {q \in requests' \cup answers' : Program[q.id[1]].stream = x}
          = {q \in requests \cup answers : Program[q.id[1]].stream = x}
    BY <2>3, <2>4
  <2>6. Outstanding(x)' = Outstanding(x)
    BY <2>5 DEF Outstanding
  <2> QED
    BY <1>4, <1>5, <2>6
<1>15. Outstanding(s)' = Seqs!ToSet(pending'[s])
  <2>1. ASSUME NEW r \in requests' \cup answers', Program[r.id[1]].stream = s
        PROVE  \E k \in 1 .. M : r.id = <<c, (d + n) + k>>
    <3>1. CASE r \in F
      <4>1. PICK j \in 1 .. m : r.id = <<c, a + j>>
        BY <1>2, <3>1
      <4>2. (L - n) + j \in 1 .. M /\ (d + n) + ((L - n) + j) = a + j
        BY <1>1, <1>5
      <4> QED
        BY <4>1, <4>2
    <3>2. CASE r \in requests \cup answers
      <4>1. PICK k \in 1 .. L : r.id = <<c, d + k>>
        BY <1>8, <2>1, <3>2
      <4>2. ~(k <= n)
        <5>1. SUFFICES ASSUME k \in 1 .. n PROVE FALSE
          BY <1>1, <1>5
        <5>2. r.id = pending[s][k]
          BY <1>1, <4>1
        <5>3. PICK q \in answers : q.id = r.id
          BY <1>3, <5>1, <5>2
        <5>4. r \notin answers'
          BY <1>3, <5>1, <5>2
        <5>5. r \notin requests
          BY <1>4, <5>3
        <5>6. r \notin F
          BY <1>10, <3>2
        <5> QED
          BY <1>3, <2>1, <5>4, <5>5, <5>6
      <4>3. k - n \in 1 .. M /\ (d + n) + (k - n) = d + k
        BY <1>1, <1>5, <4>2
      <4> QED
        BY <4>1, <4>3
    <3> QED
      BY <1>3, <3>1, <3>2
  <2>2. ASSUME NEW k \in 1 .. M
        PROVE  \E r \in requests' \cup answers' : r.id = <<c, (d + n) + k>>
    <3>1. CASE k <= L - n
      <4>1. n + k \in 1 .. L /\ d + (n + k) = (d + n) + k
        BY <1>1, <1>5, <3>1
      <4>2. PICK i \in 1 .. L : i = n + k
        BY <4>1
      <4>3. PICK r \in requests \cup answers : r.id = <<c, d + i>>
        BY <1>9
      <4>4. r \in requests' \cup answers'
        <5>1. ASSUME NEW j \in 1 .. n PROVE r.id # pending[s][j]
          <6>1. j \in 1 .. L
            BY <1>1, <1>5
          <6>2. n < i /\ i \in Nat
            BY <1>1, <1>5, <4>2
          <6>3. d + j # d + i
            BY <1>1, <1>5, <6>2
          <6>4. pending[s][j] = <<c, d + j>>
            BY <1>1, <6>1
          <6> QED
            BY <4>3, <6>3, <6>4
        <5> QED
          BY <1>3, <5>1
      <4> QED
        BY <4>1, <4>2, <4>3, <4>4
    <3>2. CASE ~(k <= L - n)
      <4>1. k - (L - n) \in 1 .. m /\ a + (k - (L - n)) = (d + n) + k
        BY <1>1, <1>5, <3>2
      <4>2. PICK j \in 1 .. m : a + j = (d + n) + k
        BY <4>1
      <4> QED
        BY <1>2, <1>3, <4>2
    <3> QED
      BY <3>1, <3>2
  <2>3. \A x : x \in Outstanding(s)' <=>
          \E r \in requests' \cup answers' : Program[r.id[1]].stream = s /\ x = r.id
    BY DEF Outstanding
  <2>4. \A x : x \in Seqs!ToSet(pending'[s]) <=> \E k \in 1 .. M : x = <<c, (d + n) + k>>
    <3>1. DOMAIN pending'[s] = 1 .. M
      BY <1>5 DEF M
    <3> QED
      BY <1>5, <3>1 DEF Seqs!ToSet
  <2>5. ASSUME NEW x, x \in Outstanding(s)' PROVE x \in Seqs!ToSet(pending'[s])
    <3>1. PICK r \in requests' \cup answers' : Program[r.id[1]].stream = s /\ x = r.id
      BY <2>3, <2>5
    <3>2. \E k \in 1 .. M : x = <<c, (d + n) + k>>
      BY <2>1, <3>1
    <3> QED
      BY <2>4, <3>2
  <2>6. ASSUME NEW x, x \in Seqs!ToSet(pending'[s]) PROVE x \in Outstanding(s)'
    <3>1. PICK k \in 1 .. M : x = <<c, (d + n) + k>>
      BY <2>4, <2>6
    <3>2. PICK r \in requests' \cup answers' : r.id = <<c, (d + n) + k>>
      BY <2>2
    <3>3. Program[r.id[1]].stream = s
      BY <1>1, <3>2
    <3> QED
      BY <2>3, <3>1, <3>2, <3>3
  <2> QED
    BY <2>5, <2>6
<1>16. \A x \in Streams : Outstanding(x)' = Seqs!ToSet(pending'[x])
  BY <1>14, <1>15
<1> QED
  BY <1>11, <1>12, <1>13, <1>16 DEF Requested

(* A tick of an idle stream keeps the invariant.                            *)
LEMMA IdleTickData ==
  ASSUME IInv, DInv, NEW s \in Streams, IdleTick(s)
  PROVE  DInv'
<1>1. NumStreams \in Nat \ {0} /\ s \in 0 .. NumStreams - 1
  BY DmaAssumption DEF Streams
<1>2. active[s] = 0
  <2>1. queue[s] \in Seq(Transfers) /\ Transfers \subseteq Nat \ {0}
    BY CommandNumbers DEF IInv
  <2>2. queue[s] # <<>> => Head(queue[s]) # 0
    BY <2>1
  <2> QED
    BY <2>2 DEF IdleTick, Starting
<1>3. queue' = queue
  <2>1. queue \in [Streams -> Seq(Transfers)]
    BY DEF IInv, NotesType
  <2> QED
    BY <1>2, <2>1 DEF IdleTick, EndTick
<1>4. /\ UNCHANGED <<pc, active, queue, completions, engineData, fault>>
      /\ turn' = s + 1 /\ stage' \in {"announce", "dma"}
  BY <1>3 DEF IdleTick, EndTick, icuVars, noteVars, engineData
<1>5. turn' \in 0 .. NumStreams
  BY <1>1, <1>4
<1>6. fault' \in {"none", "outside"}
  BY <1>4 DEF DInv, DataType
<1> QED
  BY <1>4, <1>5, <1>6, FrameData

(* What remains of the types after a tick.                                  *)
LEMMA TickType ==
  ASSUME IInv, DInv, NEW s \in Streams, NEW c, NEW n, NEW m, NEW dat, Tick(s, c, n, m, dat),
         inbound' \in [Streams -> Seq(Item)], outbound' \in [Streams -> Seq(Vectors)],
         UNCHANGED <<sent, received, memory, fault>>
  PROVE  DataType'
<1>1. NumStreams \in Nat \ {0} /\ s \in 0 .. NumStreams - 1
  BY DmaAssumption DEF Streams
<1>2. turn' = s + 1 /\ stage' \in {"announce", "dma"}
  BY DEF Tick, EndTick
<1>3. turn' \in 0 .. NumStreams
  BY <1>1, <1>2
<1>4. next' \in [Streams -> Nat] /\ done' \in [Streams -> Nat] /\ pending' \in [Streams -> Seq(Vectors)]
  BY TickStands, TickPending
<1>5. requests' \cup answers' \subseteq Request
      /\ IsFiniteSet(requests') /\ Cardinality(requests') <= RequestDepth
  BY TickRequests
<1> QED
  BY <1>2, <1>3, <1>4, <1>5 DEF DInv, DataType

(* tick_load() is a Tick that asks for one vector at most, with room        *)
(* reserved.                                                                *)
LEMMA LoadIsTick ==
  ASSUME IInv, DInv, NEW s \in Streams, TickLoad(s)
  PROVE  LET c == Starting(s)
             n == Least(Answered(s), FifoDepth - Len(inbound[s]))
         IN \E m \in {0, 1} :
              /\ Tick(s, c, n, m, [k \in {1} |-> Initial])
              /\ Program[c].op = "load" /\ n + Len(inbound[s]) <= FifoDepth
              /\ m = 1 => (Len(pending[s]) - n) + Len(inbound[s]) + n < FifoDepth
              /\ inbound' = [inbound EXCEPT ![s] = @ \o
                   [k \in 1 .. n |-> [cmd |-> c, index |-> pending[s][k][2],
                                      data |-> Answer(pending[s][k]).data]]]
              /\ UNCHANGED <<outbound, sent, received, memory, fault>>
<1> DEFINE c == Starting(s)
           n == Least(Answered(s), FifoDepth - Len(inbound[s]))
           left == SubSeq(pending[s], n + 1, Len(pending[s]))
           id == <<c, next[s] + 1>>
           ask == /\ next[s] < Count(c)
                  /\ ReadCredit(s, Len(left), n)
                  /\ Credit > 0
           dat == [k \in {1} |-> Initial]
           new(m) == [k \in 1 .. m |-> <<c, next[s] + k>>]
           fresh(m) == {[id |-> <<c, next[s] + k>>, op |-> Program[c].op, data |-> dat[k]] : k \in 1 .. m}
<1>1. /\ c # 0 /\ Program[c].op = "load"
      /\ inbound' = [inbound EXCEPT ![s] = @ \o
                   [k \in 1 .. n |-> [cmd |-> c, index |-> pending[s][k][2],
                                      data |-> Answer(pending[s][k]).data]]]
      /\ answers' = {r \in answers : \A k \in 1 .. n : r.id # pending[s][k]}
      /\ pending' = [pending EXCEPT ![s] = IF ask THEN Append(left, id) ELSE left]
      /\ requests' = (IF ask THEN requests \cup {[id |-> id, op |-> "load", data |-> Initial]}
                      ELSE requests)
      /\ Finish(s, c, IF ask THEN next[s] + 1 ELSE next[s], done[s] + n)
      /\ EndTick(s, c)
      /\ UNCHANGED <<icuVars, outbound, sent, received, memory, fault>>
  BY DEF TickLoad
<1>2. /\ pending[s] \in Seq(Vectors) /\ Len(pending[s]) \in Nat /\ next[s] \in Nat /\ done[s] \in Nat
      /\ next[s] <= Count(c) /\ c \in Transfers /\ Count(c) \in Nat
  BY <1>1, BeginTick, VectorFacts
<1>3. FifoDepth \in Nat /\ RequestDepth \in Nat /\ Len(inbound[s]) \in Nat /\ Len(inbound[s]) <= FifoDepth
  BY DmaAssumption DEF DInv, DataType, Fits
<1>4. /\ Answered(s) \in 0 .. Len(pending[s])
      /\ \A k \in 1 .. Answered(s) : \E r \in answers : r.id = pending[s][k]
  BY AnsweredFacts DEF DInv
<1>5. /\ n \in 0 .. Len(pending[s]) /\ n <= Answered(s) /\ n + Len(inbound[s]) <= FifoDepth
  BY <1>2, <1>3, <1>4 DEF Least
<1>6. \A k \in 1 .. n : \E r \in answers : r.id = pending[s][k]
  <2> HIDE DEF n
  <2>1. \A k \in 1 .. n : k \in 1 .. Answered(s)
    BY <1>2, <1>4, <1>5
  <2> QED
    BY <1>4, <2>1
<1>7. left \in Seq(Vectors) /\ Len(left) = Len(pending[s]) - n
  <2> DEFINE L == Len(pending[s])
             f == n + 1
  <2>1. f \in Int /\ L \in Int /\ \A i \in f .. L : i \in 1 .. L
    <3>1. L \in Nat /\ n \in 0 .. L
      BY <1>2, <1>5
    <3> HIDE DEF n, L
    <3> QED
      BY <3>1
  <2>2. \A i \in f .. L : pending[s][i] \in Vectors
    BY <1>2, <2>1, ElementOfSeq
  <2>3. left = SubSeq(pending[s], f, L) /\ f = n + 1
    OBVIOUS
  <2> HIDE DEF left, f
  <2>4. left \in Seq(Vectors) /\ Len(left) = IF f <= L THEN L - f + 1 ELSE 0
    BY <2>1, <2>2, <2>3, SubSeqProperties
  <2>5. L \in Nat /\ n \in 0 .. L
    BY <1>2, <1>5
  <2> HIDE DEF L, n
  <2>6. Len(left) = L - n
    BY <2>3, <2>4, <2>5
  <2> QED
    BY <2>4, <2>6 DEF L
<1>8. c = Starting(s)
  OBVIOUS
<1>9. /\ \A k \in 1 .. 0 : dat[k] \in Vectors \cup {Initial}
      /\ \A k \in 1 .. 1 : dat[k] \in Vectors \cup {Initial}
  <2>1. 1 .. 1 = {1} /\ 1 .. 0 = {}
    OBVIOUS
  <2> QED
    BY <2>1
<1> HIDE DEF c, n, left
<1>10. CASE ask
  <2>1. /\ next[s] + 1 <= Count(c) /\ 1 <= Credit
        /\ (Len(pending[s]) - n) + Len(inbound[s]) + n < FifoDepth
    <3>1. next[s] + 1 <= Count(c)
      BY <1>2, <1>10
    <3>2. 1 <= Credit
      <4>1. Cardinality(requests) \in Nat
        BY FS_CardinalityType DEF DInv, DataType
      <4> QED
        BY <1>3, <1>10, <4>1 DEF Credit
    <3>3. Len(left) + Len(inbound[s]) + n < FifoDepth
      BY <1>10 DEF ReadCredit
    <3> QED
      BY <1>7, <3>1, <3>2, <3>3
  <2>2. 1 .. 1 = {1} /\ dat[1] = Initial
    OBVIOUS
  <2>3. fresh(1) = {[id |-> id, op |-> "load", data |-> Initial]}
    BY <1>1, <2>2
  <2>4. new(1) = <<id>>
    OBVIOUS
  <2>5. Append(left, id) = left \o new(1)
    <3>1. id \in Vectors
      <4>1. next[s] + 1 \in 1 .. Count(c)
        BY <1>2, <2>1
      <4> QED
        BY <1>2, <4>1, VectorFacts
    <3> HIDE DEF id, new
    <3> QED
      BY <1>7, <2>4, <3>1, AppendIsConcat
  <2>6. /\ pending' = [pending EXCEPT ![s] = left \o new(1)]
        /\ requests' = requests \cup fresh(1)
        /\ Finish(s, c, next[s] + 1, done[s] + n)
    <3> HIDE DEF new, fresh, id, dat
    <3>1. /\ pending' = [pending EXCEPT ![s] = Append(left, id)]
          /\ requests' = requests \cup {[id |-> id, op |-> "load", data |-> Initial]}
          /\ Finish(s, c, next[s] + 1, done[s] + n)
      BY <1>1, <1>10
    <3> QED
      BY <2>3, <2>5, <3>1
  <2>7. Tick(s, c, n, 1, dat)
    <3> HIDE DEF ask, dat, id
    <3> QED
      BY <1>1, <1>5, <1>6, <1>8, <1>9, <2>1, <2>6 DEF Tick, left
  <2> QED
    BY <1>1, <1>5, <2>1, <2>7 DEF c, n
<1>11. CASE ~ask
  <2>1. next[s] + 0 = next[s] /\ next[s] + 0 <= Count(c) /\ 1 .. 0 = {}
    BY <1>2
  <2>2. fresh(0) = {} /\ new(0) = <<>>
    BY <2>1
  <2>3. left = left \o new(0)
    BY <1>7, <2>2, ConcatEmptySeq
  <2>4. /\ pending' = [pending EXCEPT ![s] = left \o new(0)]
        /\ requests' = requests \cup fresh(0)
        /\ Finish(s, c, next[s] + 0, done[s] + n)
    <3> HIDE DEF new, fresh, id, dat
    <3>1. /\ pending' = [pending EXCEPT ![s] = left]
          /\ requests' = requests
          /\ Finish(s, c, next[s], done[s] + n)
      BY <1>1, <1>11
    <3> QED
      BY <2>1, <2>2, <2>3, <3>1
  <2>5. Tick(s, c, n, 0, dat)
    <3> HIDE DEF ask, dat, id, new, fresh
    <3>1. PICK z : z = 0
      OBVIOUS
    <3>2. /\ z \in Nat /\ ~(z > 0) /\ next[s] + z <= Count(c)
          /\ \A k \in 1 .. z : dat[k] \in Vectors \cup {Initial}
      BY <1>2, <1>9, <2>1, <3>1
    <3>3. /\ pending' = [pending EXCEPT ![s] = left \o new(z)]
          /\ requests' = requests \cup fresh(z)
          /\ Finish(s, c, next[s] + z, done[s] + n)
      BY <2>4, <3>1
    <3> HIDE <3>1
    <3>4. Tick(s, c, n, z, dat)
      BY <1>1, <1>5, <1>6, <1>8, <3>2, <3>3 DEF Tick, left, new, fresh
    <3> QED
      BY <3>1, <3>4
  <2>6. 0 # 1
    OBVIOUS
  <2> QED
    BY <1>1, <1>5, <2>5, <2>6 DEF c, n
<1> QED
  BY <1>10, <1>11

(* The vectors a load hands over.                                           *)
Arriving(s, c, n) ==
  [k \in 1 .. n |-> [cmd |-> c, index |-> pending[s][k][2], data |-> Answer(pending[s][k]).data]]

(* The vectors a load hands over are the next of its command.               *)
LEMMA ArrivingFacts ==
  ASSUME IInv, DInv, NEW s \in Streams, NEW c, NEW n, NEW m, NEW dat, Tick(s, c, n, m, dat)
  PROVE  /\ Arriving(s, c, n) \in Seq(Item) /\ Len(Arriving(s, c, n)) = n
         /\ \A k \in 1 .. n : Arriving(s, c, n)[k].cmd = c /\ Arriving(s, c, n)[k].index = done[s] + k
<1>1. /\ n \in 0 .. Len(pending[s]) /\ c = Starting(s) /\ c # 0
      /\ \A k \in 1 .. n : \E r \in answers : r.id = pending[s][k]
  BY DEF Tick
<1>2. /\ c \in Transfers /\ pending[s] \in Seq(Vectors) /\ Len(pending[s]) \in Nat /\ done[s] \in Nat
      /\ \A k \in 1 .. Len(pending[s]) : pending[s][k] = <<c, done[s] + k>>
  BY <1>1, BeginTick
<1>3. n \in Nat /\ \A k \in 1 .. n : k \in 1 .. Len(pending[s]) /\ k \in Nat
  <2> DEFINE L == Len(pending[s])
  <2>1. L \in Nat /\ n \in 0 .. L
    BY <1>1, <1>2
  <2> HIDE DEF L
  <2>2. n \in Nat /\ \A k \in 1 .. n : k \in 1 .. L /\ k \in Nat
    BY <2>1
  <2> QED
    BY <2>2 DEF L
<1>4. ASSUME NEW k \in 1 .. n
      PROVE  /\ [cmd |-> c, index |-> pending[s][k][2], data |-> Answer(pending[s][k]).data] \in Item
             /\ pending[s][k][2] = done[s] + k
  <2>1. pending[s][k] = <<c, done[s] + k>> /\ done[s] + k \in Nat
    BY <1>2, <1>3
  <2>2. pending[s][k][2] = done[s] + k
    BY <2>1
  <2>3. Answer(pending[s][k]) \in answers
    BY <1>1 DEF Answer
  <2>4. Answer(pending[s][k]).data \in Vectors \cup {Initial}
    BY <2>3 DEF DInv, DataType, Request
  <2> QED
    BY <1>2, <2>1, <2>2, <2>4 DEF Item
<1>5. /\ Arriving(s, c, n) \in [1 .. n -> Item]
      /\ \A k \in 1 .. n : Arriving(s, c, n)[k]
           = [cmd |-> c, index |-> pending[s][k][2], data |-> Answer(pending[s][k]).data]
  BY <1>4 DEF Arriving
<1>6. \A k \in 1 .. n : Arriving(s, c, n)[k].cmd = c /\ Arriving(s, c, n)[k].index = done[s] + k
  BY <1>4, <1>5
<1> HIDE DEF Arriving
<1> QED
  BY <1>3, <1>5, <1>6, LenProperties, SeqDef

(* So RX finds them in program order.                                       *)
LEMMA ArrivedInOrder ==
  ASSUME IInv, DInv, NEW s \in Streams, NEW c, NEW n, NEW m, NEW dat, Tick(s, c, n, m, dat),
         Program[c].op = "load",
         inbound' = [inbound EXCEPT ![s] = @ \o Arriving(s, c, n)], UNCHANGED received
  PROVE  /\ inbound' \in [Streams -> Seq(Item)] /\ Len(inbound'[s]) = Len(inbound[s]) + n
         /\ \A p \in Streams \ {s} : inbound'[p] = inbound[p]
         /\ Delivered'
<1> DEFINE A == Len(inbound[s])
           R == Len(received[s])
           D == done[s]
           B == Before(s, "load", c)
<1>1. /\ inbound \in [Streams -> Seq(Item)] /\ received \in [Streams -> Seq(Item)]
      /\ inbound[s] \in Seq(Item) /\ received[s] \in Seq(Item) /\ A \in Nat /\ R \in Nat
  BY DEF DInv, DataType
<1>2. /\ c \in Commands /\ Program[c].stream = s /\ D \in Nat
      /\ Position(s, "load", done[s]) = B + D
      /\ next[s] <= Count(c) /\ next[s] = D + Len(pending[s]) /\ Len(pending[s]) \in Nat
      /\ Count(c) \in Nat
  <2>1. c = Starting(s) /\ c # 0
    BY DEF Tick
  <2> QED
    BY <2>1, BeginTick, VectorFacts
<1>3. /\ Arriving(s, c, n) \in Seq(Item) /\ Len(Arriving(s, c, n)) = n /\ n \in Nat
      /\ \A k \in 1 .. n : Arriving(s, c, n)[k].cmd = c /\ Arriving(s, c, n)[k].index = D + k
      /\ n <= Len(pending[s])
  BY ArrivingFacts, TickPending
<1>4. B \in Nat /\ R + A = B + D
      /\ \A k \in 1 .. Len(Taken(s)) :
           <<Taken(s)[k].cmd, Taken(s)[k].index>> = Slots[s]["load"][k]
  BY <1>2, BeforeFacts DEF DInv, Delivered
<1>5. /\ inbound'[s] = inbound[s] \o Arriving(s, c, n)
      /\ \A p \in Streams \ {s} : inbound'[p] = inbound[p]
  BY <1>1
<1> HIDE DEF Arriving
<1>6. inbound'[s] \in Seq(Item) /\ Len(inbound'[s]) = A + n
  <2> DEFINE q == inbound[s]
             g == Arriving(s, c, n)
  <2>1. q \in Seq(Item) /\ g \in Seq(Item) /\ Len(g) = n /\ inbound'[s] = q \o g
    BY <1>1, <1>3, <1>5
  <2> HIDE DEF q, g
  <2>2. q \o g \in Seq(Item) /\ Len(q \o g) = Len(q) + Len(g)
    BY <2>1, ConcatProperties
  <2> QED
    BY <2>1, <2>2 DEF q
<1>7. inbound' \in [Streams -> Seq(Item)]
  BY <1>1, <1>6
<1>8. Taken(s)' = Taken(s) \o Arriving(s, c, n)
  <2>1. received[s] \o (inbound[s] \o Arriving(s, c, n)) = (received[s] \o inbound[s]) \o Arriving(s, c, n)
    BY <1>1, <1>3, ConcatAssociative
  <2> QED
    BY <1>5, <2>1 DEF Taken
<1>9. Taken(s) \in Seq(Item) /\ Len(Taken(s)) = R + A
  <2>1. /\ received[s] \o inbound[s] \in Seq(Item)
        /\ Len(received[s] \o inbound[s]) = Len(received[s]) + Len(inbound[s])
    BY <1>1, ConcatProperties
  <2> QED
    BY <2>1 DEF Taken
<1>10. /\ Len(Taken(s)') = (R + A) + n
       /\ \A k \in 1 .. (R + A) + n :
            Taken(s)'[k] = IF k <= R + A THEN Taken(s)[k] ELSE Arriving(s, c, n)[k - (R + A)]
  <2> DEFINE T == Taken(s)
             G == Arriving(s, c, n)
             N == R + A
  <2>1. T \in Seq(Item) /\ G \in Seq(Item) /\ Len(T) = N /\ Len(G) = n
    BY <1>3, <1>9
  <2> HIDE DEF T, G, N
  <2>2. /\ Len(T \o G) = Len(T) + Len(G)
        /\ \A k \in 1 .. Len(T) + Len(G) : (T \o G)[k] = IF k <= Len(T) THEN T[k] ELSE G[k - Len(T)]
    BY <2>1, ConcatProperties
  <2>3. /\ Len(T \o G) = N + n
        /\ \A k \in 1 .. N + n : (T \o G)[k] = IF k <= N THEN T[k] ELSE G[k - N]
    BY <2>1, <2>2
  <2> QED
    BY <1>8, <2>3 DEF T, G, N
<1>11. ASSUME NEW k \in 1 .. Len(Taken(s)')
       PROVE  <<Taken(s)'[k].cmd, Taken(s)'[k].index>> = Slots[s]["load"][k]
  <2> DEFINE N == R + A
  <2>1. N \in Nat /\ k \in 1 .. N + n /\ N = B + D
    BY <1>1, <1>3, <1>4, <1>10
  <2>2. CASE k <= N
    <3>1. k \in 1 .. N
      <4> HIDE DEF N
      <4> QED
        BY <1>3, <2>1, <2>2
    <3>2. Taken(s)'[k] = Taken(s)[k] /\ k \in 1 .. Len(Taken(s))
      BY <1>9, <1>10, <2>2, <3>1
    <3> QED
      BY <1>4, <3>2
  <2>3. CASE k > N
    <3> DEFINE j == k - N
               L == Len(pending[s])
    <3>1. /\ j \in 1 .. n /\ D + j \in 1 .. Count(c) /\ B + (D + j) = k /\ ~(k <= N)
      <4> DEFINE C == Count(c)
      <4>1. /\ L \in Nat /\ next[s] = D + L /\ n <= L /\ next[s] <= C /\ C \in Nat
            /\ B \in Nat /\ D \in Nat /\ n \in Nat /\ k > N
        BY <1>2, <1>3, <1>4, <2>3
      <4> HIDE DEF N, L, B, D, C, j
      <4>2. k - N \in 1 .. n
        BY <2>1, <4>1
      <4>3. D + (k - N) \in 1 .. C
        BY <2>1, <4>1, <4>2
      <4>4. B + (D + (k - N)) = k /\ ~(k <= N)
        BY <2>1, <4>1
      <4> QED
        BY <4>2, <4>3, <4>4 DEF j, C
    <3>2. Taken(s)'[k] = Arriving(s, c, n)[j]
      BY <1>10, <2>1, <3>1
    <3> HIDE DEF j, N
    <3>3. Taken(s)'[k].cmd = c /\ Taken(s)'[k].index = D + j
      BY <1>3, <3>1, <3>2
    <3>4. Chosen(s, "load", c)
      BY <1>2 DEF Chosen
    <3>5. Slots[s]["load"][B + (D + j)] = <<c, D + j>>
      BY <1>2, <3>1, <3>4, SlotsFacts
    <3> QED
      BY <3>1, <3>3, <3>5
  <2>4. k <= N \/ k > N
    <3> HIDE DEF N
    <3> QED
      BY <1>3, <2>1
  <2> QED
    BY <2>2, <2>3, <2>4
<1>12. ASSUME NEW p \in Streams \ {s}
       PROVE  /\ Len(received'[p]) + Len(inbound'[p]) = Position(p, "load", done[p])'
              /\ Taken(p)' = Taken(p)
  <2>1. Position(p, "load", done[p])' = Position(p, "load", done[p])
    BY TickPosition
  <2>2. Len(received[p]) + Len(inbound[p]) = Position(p, "load", done[p])
    BY DEF DInv, Delivered
  <2>3. inbound'[p] = inbound[p] /\ received' = received
    BY <1>5
  <2> QED
    BY <2>1, <2>2, <2>3 DEF Taken
<1>13. Len(received'[s]) + Len(inbound'[s]) = Position(s, "load", done[s])'
  <2>1. Position(s, "load", done[s])' = B + (D + n)
    BY TickPosition
  <2>2. R + (A + n) = B + (D + n)
    <3> HIDE DEF R, A, B, D
    <3> QED
      BY <1>1, <1>2, <1>3, <1>4
  <2> QED
    BY <1>6, <2>1, <2>2
<1>14. Delivered'
  <2>1. ASSUME NEW p \in Streams
        PROVE  /\ Len(received'[p]) + Len(inbound'[p]) = Position(p, "load", done[p])'
               /\ \A k \in 1 .. Len(Taken(p)') :
                    <<Taken(p)'[k].cmd, Taken(p)'[k].index>> = Slots[p]["load"][k]
    <3>1. CASE p = s
      BY <1>11, <1>13, <3>1
    <3>2. CASE p # s
      BY <1>12, <3>2 DEF DInv, Delivered
    <3> QED
      BY <3>1, <3>2
  <2> QED
    BY <2>1 DEF Delivered
<1> QED
  BY <1>5, <1>6, <1>7, <1>14

(* Writes carry their own vectors.                                          *)
LEMMA TickWrites ==
  ASSUME IInv, DInv, NEW s \in Streams, NEW c, NEW n, NEW m, NEW dat, Tick(s, c, n, m, dat),
         Program[c].op = "store" => \A k \in 1 .. m : dat[k] = <<c, next[s] + k>>
  PROVE  \A r \in requests' \cup answers' : r.op = "store" => r.data = r.id
<1>1. /\ requests' = requests \cup Fresh(s, c, m, dat) /\ answers' \subseteq answers
  BY DEF Tick, Fresh
<1>2. \A r \in Fresh(s, c, m, dat) :
        r.op = Program[c].op /\ \E k \in 1 .. m : r.id = <<c, next[s] + k>> /\ r.data = dat[k]
  BY FreshFacts
<1>3. \A r \in requests \cup answers : r.op = "store" => r.data = r.id
  BY DEF DInv, Supplied
<1> QED
  BY <1>1, <1>2, <1>3

(* tick_load() keeps the invariant.                                         *)
LEMMA TickLoadData ==
  ASSUME IInv, DInv, NEW s \in Streams, TickLoad(s)
  PROVE  DInv'
<1> DEFINE c == Starting(s)
           n == Least(Answered(s), FifoDepth - Len(inbound[s]))
           dat == [k \in {1} |-> Initial]
<1>1. PICK m \in {0, 1} :
        /\ Tick(s, c, n, m, dat) /\ Program[c].op = "load"
        /\ n + Len(inbound[s]) <= FifoDepth
        /\ m = 1 => (Len(pending[s]) - n) + Len(inbound[s]) + n < FifoDepth
        /\ inbound' = [inbound EXCEPT ![s] = @ \o
             [k \in 1 .. n |-> [cmd |-> c, index |-> pending[s][k][2],
                                data |-> Answer(pending[s][k]).data]]]
        /\ UNCHANGED <<outbound, sent, received, memory, fault>>
  BY LoadIsTick
<1> HIDE DEF c, n, dat
<1>2. inbound' = [inbound EXCEPT ![s] = @ \o Arriving(s, c, n)]
  BY <1>1 DEF Arriving
<1>3. /\ inbound' \in [Streams -> Seq(Item)] /\ Len(inbound'[s]) = Len(inbound[s]) + n
      /\ \A p \in Streams \ {s} : inbound'[p] = inbound[p]
      /\ Delivered'
  BY <1>1, <1>2, ArrivedInOrder
<1>4. outbound \in [Streams -> Seq(Vectors)] /\ outbound' = outbound
  BY <1>1 DEF DInv, DataType
<1>5. DataType'
  BY <1>1, <1>3, <1>4, TickType
<1>6. InLine' /\ Underway' /\ Requested'
  BY <1>1, TickInLine, TickUnderway, TickRequested
<1>7. c = Starting(s) /\ c # 0
  BY <1>1 DEF Tick
<1>8. Fits'
  <2>1. ASSUME NEW p \in Streams \ {s}
        PROVE  active'[p] = active[p] /\ pending'[p] = pending[p] /\ inbound'[p] = inbound[p]
    BY <1>1, <1>3, TickStands, TickPending
  <2>2. /\ Len(pending'[s]) = (Len(pending[s]) - n) + m /\ n \in Nat
        /\ Len(pending[s]) \in Nat /\ Len(inbound[s]) \in Nat /\ FifoDepth \in Nat
    <3>1. /\ Len(pending'[s]) = (Len(pending[s]) - n) + m /\ n \in Nat
      BY <1>1, TickPending
    <3>2. Len(pending[s]) \in Nat
      BY <1>7, BeginTick
    <3>3. Len(inbound[s]) \in Nat /\ FifoDepth \in Nat
      BY DmaAssumption DEF DInv, DataType
    <3> QED
      BY <3>1, <3>2, <3>3
  <2>3. /\ Len(inbound[s]) <= FifoDepth
        /\ Len(pending[s]) + Len(inbound[s]) <= FifoDepth
    <3>1. active[s] = c \/ pending[s] = <<>>
      BY <1>7, BeginTick
    <3>2. CASE active[s] = c
      BY <1>1, <1>7, <3>2 DEF DInv, Fits
    <3>3. CASE pending[s] = <<>>
      <4>1. Len(pending[s]) = 0 /\ Len(inbound[s]) <= FifoDepth
        BY <3>3 DEF DInv, Fits
      <4> QED
        BY <2>2, <4>1
    <3> QED
      BY <3>1, <3>2, <3>3 DEF DInv, Fits
  <2>4. /\ Len(inbound'[s]) <= FifoDepth
        /\ Len(pending'[s]) <= FifoDepth /\ Len(pending'[s]) + Len(inbound'[s]) <= FifoDepth
    <3> DEFINE P == Len(pending[s])
               A == Len(inbound[s])
               P1 == Len(pending'[s])
               A1 == Len(inbound'[s])
    <3>1. /\ P1 = (P - n) + m /\ n \in Nat /\ P \in Nat /\ A \in Nat /\ A1 = A + n /\ FifoDepth \in Nat
          /\ A <= FifoDepth /\ P + A <= FifoDepth /\ n + A <= FifoDepth
          /\ m = 1 => (P - n) + A + n < FifoDepth
      BY <1>1, <1>3, <2>2, <2>3
    <3> HIDE DEF P, A, P1, A1
    <3>2. A1 <= FifoDepth /\ P1 <= FifoDepth /\ P1 + A1 <= FifoDepth
      BY <1>1, <3>1
    <3> QED
      BY <3>2 DEF A1, P1
  <2> QED
    BY <1>4, <2>1, <2>4 DEF DInv, Fits
<1>9. Supplied'
  <2>1. Position(s, "store", next[s])' = Position(s, "store", next[s])
    <3>1. Program[c].op # "store"
      BY <1>1
    <3>2. Position(s, "store", next[s])' = Before(s, "store", c) + 0
      BY <1>1, <3>1, TickPosition
    <3>3. Position(s, "store", next[s]) = Before(s, "store", c) + 0
      BY <1>7, <3>1, BeginTick
    <3> QED
      BY <3>2, <3>3
  <2>2. \A p \in Streams : Position(p, "store", next[p])' = Position(p, "store", next[p])
    BY <1>1, <2>1, TickPosition
  <2>3. \A r \in requests' \cup answers' : r.op = "store" => r.data = r.id
    BY <1>1, TickWrites
  <2>4. sent' = sent
    BY <1>1
  <2> QED
    BY <1>4, <2>2, <2>3, <2>4 DEF DInv, Supplied
<1> QED
  BY <1>3, <1>5, <1>6, <1>8, <1>9 DEF DInv

(* What is left of a queue when its first elements are taken.               *)
LEMMA RestFacts ==
  ASSUME NEW S, NEW q \in Seq(S), NEW n \in 0 .. Len(q)
  PROVE  /\ SubSeq(q, n + 1, Len(q)) \in Seq(S)
         /\ Len(SubSeq(q, n + 1, Len(q))) = Len(q) - n
         /\ \A k \in 1 .. Len(q) - n : SubSeq(q, n + 1, Len(q))[k] = q[n + k]
<1> DEFINE L == Len(q)
           f == n + 1
           r == SubSeq(q, f, L)
<1>1. L \in Nat /\ n \in 0 .. L
  OBVIOUS
<1>2. f \in Int /\ L \in Int /\ \A i \in f .. L : i \in 1 .. L
  <2> HIDE DEF L
  <2> QED
    BY <1>1
<1>3. \A i \in f .. L : q[i] \in S
  BY <1>2, ElementOfSeq
<1> HIDE DEF f
<1>4. /\ r \in Seq(S) /\ Len(r) = IF f <= L THEN L - f + 1 ELSE 0
      /\ \A i \in 1 .. L - f + 1 : r[i] = q[f + i - 1]
  BY <1>2, <1>3, SubSeqProperties
<1> HIDE DEF r, L
<1>5. Len(r) = L - n /\ L - f + 1 = L - n
  BY <1>1, <1>4 DEF f
<1>6. ASSUME NEW k \in 1 .. L - n PROVE r[k] = q[n + k]
  <2>1. r[k] = q[f + k - 1]
    BY <1>4, <1>5
  <2>2. f + k - 1 = n + k
    BY <1>1 DEF f
  <2> QED
    BY <2>1, <2>2
<1> QED
  BY <1>4, <1>5, <1>6 DEF r, f, L

(* tick_store() is a Tick, or throws before it changes anything.            *)
LEMMA StoreIsTick ==
  ASSUME IInv, DInv, NEW s \in Streams, TickStore(s)
  PROVE  \/ /\ fault' = "outside"
            /\ UNCHANGED <<icuVars, engineVars, fifoVars, noteVars, ddrVars, stage, turn>>
         \/ \E m \in 0 .. Len(outbound[s]) :
              /\ Tick(s, Starting(s), Answered(s), m, outbound[s])
              /\ Program[Starting(s)].op = "store"
              /\ (Len(pending[s]) - Answered(s)) + m <= FifoDepth
              /\ outbound' = [outbound EXCEPT ![s] = SubSeq(@, m + 1, Len(@))]
              /\ UNCHANGED <<inbound, sent, received, memory, fault>>
<1> DEFINE c == Starting(s)
           n == Answered(s)
           left == SubSeq(pending[s], n + 1, Len(pending[s]))
           over == Completes(c, next[s], done[s] + n)
           m == IF over THEN 0
                ELSE Least(Len(outbound[s]), Least(FifoDepth - Len(left), Credit))
<1>1. /\ c # 0 /\ Program[c].op = "store"
      /\ IF next[s] + m > Count(c)
         THEN /\ fault' = "outside"
              /\ UNCHANGED <<engineVars, outbound, noteVars, ddrVars, stage, turn>>
         ELSE /\ outbound' = [outbound EXCEPT ![s] = SubSeq(@, m + 1, Len(@))]
              /\ answers' = {r \in answers : \A k \in 1 .. n : r.id # pending[s][k]}
              /\ pending' = [pending EXCEPT ![s] = left \o [k \in 1 .. m |-> <<c, next[s] + k>>]]
              /\ requests' = requests \cup
                   {[id |-> <<c, next[s] + k>>, op |-> "store", data |-> outbound[s][k]] : k \in 1 .. m}
              /\ Finish(s, c, next[s] + m, done[s] + n)
              /\ EndTick(s, c)
              /\ UNCHANGED <<memory, fault>>
      /\ UNCHANGED <<icuVars, inbound, sent, received>>
  BY DEF TickStore
<1>2. /\ pending[s] \in Seq(Vectors) /\ Len(pending[s]) \in Nat /\ next[s] \in Nat /\ done[s] \in Nat
      /\ c \in Transfers /\ Count(c) \in Nat
  BY <1>1, BeginTick, VectorFacts
<1>3. /\ FifoDepth \in Nat /\ RequestDepth \in Nat /\ outbound[s] \in Seq(Vectors)
      /\ Len(outbound[s]) \in Nat /\ Len(pending[s]) <= FifoDepth
  BY DmaAssumption DEF DInv, DataType, Fits
<1>4. /\ n \in 0 .. Len(pending[s])
      /\ \A k \in 1 .. n : \E r \in answers : r.id = pending[s][k]
  BY AnsweredFacts DEF DInv
<1>5. Len(left) = Len(pending[s]) - n
  BY <1>2, <1>4, RestFacts
<1>6. Credit \in Nat
  <2>1. Cardinality(requests) \in Nat /\ Cardinality(requests) <= RequestDepth
    BY FS_CardinalityType DEF DInv, DataType
  <2> QED
    BY <1>3, <2>1 DEF Credit
<1>7. /\ m \in Nat /\ m <= Len(outbound[s]) /\ m <= Credit
      /\ (Len(pending[s]) - n) + m <= FifoDepth
  <2> DEFINE P == Len(pending[s])
             l == Len(left)
             O == Len(outbound[s])
  <2>1. /\ P \in Nat /\ n \in 0 .. P /\ l = P - n /\ O \in Nat /\ P <= FifoDepth /\ FifoDepth \in Nat
        /\ m = IF over THEN 0 ELSE Least(O, Least(FifoDepth - l, Credit))
    BY <1>2, <1>3, <1>4, <1>5
  <2> HIDE DEF P, l, O, over, m, n
  <2>2. m \in Nat /\ m <= O /\ m <= Credit /\ (P - n) + m <= FifoDepth
    BY <1>6, <2>1 DEF Least
  <2> QED
    BY <2>2 DEF P, O
<1>8. \A k \in 1 .. m : outbound[s][k] \in Vectors \cup {Initial}
  <2> DEFINE O == Len(outbound[s])
  <2>1. m \in Nat /\ O \in Nat /\ m <= O
    BY <1>3, <1>7
  <2> HIDE DEF O, m
  <2>2. \A k \in 1 .. m : k \in 1 .. O
    BY <2>1
  <2> QED
    BY <1>3, <2>2, ElementOfSeq DEF O
<1>9. c = Starting(s) /\ n = Answered(s)
  OBVIOUS
<1> HIDE DEF c, n, m
<1>10. CASE next[s] + m > Count(c)
  BY <1>1, <1>10 DEF fifoVars
<1>11. CASE ~(next[s] + m > Count(c))
  <2>1. next[s] + m <= Count(c)
    BY <1>2, <1>7, <1>11
  <2>2. /\ outbound' = [outbound EXCEPT ![s] = SubSeq(@, m + 1, Len(@))]
        /\ answers' = {r \in answers : \A k \in 1 .. n : r.id # pending[s][k]}
        /\ pending' = [pending EXCEPT ![s] = left \o [k \in 1 .. m |-> <<c, next[s] + k>>]]
        /\ requests' = requests \cup
             {[id |-> <<c, next[s] + k>>, op |-> "store", data |-> outbound[s][k]] : k \in 1 .. m}
        /\ Finish(s, c, next[s] + m, done[s] + n)
        /\ EndTick(s, c)
        /\ UNCHANGED <<memory, fault>>
    BY <1>1, <1>11
  <2>3. requests' = requests \cup
          {[id |-> <<c, next[s] + k>>, op |-> Program[c].op, data |-> outbound[s][k]] : k \in 1 .. m}
    BY <1>1, <2>2
  <2>4. Tick(s, c, n, m, outbound[s])
    <3>1. icuVars' = icuVars
      BY <1>1
    <3>2. m \in Nat /\ (m > 0 => m <= Credit)
      BY <1>7
    <3> QED
      BY <1>1, <1>4, <1>8, <1>9, <2>1, <2>2, <2>3, <3>1, <3>2 DEF Tick, left
  <2>5. m \in 0 .. Len(outbound[s])
    BY <1>3, <1>7
  <2> QED
    BY <1>1, <1>7, <1>9, <2>2, <2>4, <2>5
<1> QED
  BY <1>10, <1>11

(* tick_store() keeps the invariant.                                        *)
LEMMA TickStoreData ==
  ASSUME IInv, DInv, NEW s \in Streams, TickStore(s)
  PROVE  DInv'
<1>1. CASE /\ fault' = "outside"
           /\ UNCHANGED <<icuVars, engineVars, fifoVars, noteVars, ddrVars, stage, turn>>
  <2>1. /\ UNCHANGED <<pc, active, queue, completions, engineData>>
        /\ stage' \in {"dispatch", "slices", "dma", "announce", "ddr"}
        /\ turn' \in 0 .. NumStreams /\ fault' \in {"none", "outside"}
    BY <1>1 DEF DInv, DataType, icuVars, engineVars, noteVars, engineData
  <2> QED
    BY <2>1, FrameData
<1>2. ASSUME NEW m \in 0 .. Len(outbound[s]),
             Tick(s, Starting(s), Answered(s), m, outbound[s]),
             Program[Starting(s)].op = "store",
             (Len(pending[s]) - Answered(s)) + m <= FifoDepth,
             outbound' = [outbound EXCEPT ![s] = SubSeq(@, m + 1, Len(@))],
             UNCHANGED <<inbound, sent, received, memory, fault>>
      PROVE  DInv'
  <2> DEFINE c == Starting(s)
             n == Answered(s)
             q == outbound[s]
             O == Len(q)
             B == Before(s, "store", c)
             N == next[s]
  <2>1. /\ c = Starting(s) /\ c # 0 /\ Tick(s, c, n, m, q) /\ Program[c].op = "store"
        /\ (Len(pending[s]) - n) + m <= FifoDepth
    BY <1>2 DEF Tick
  <2> HIDE DEF c, n
  <2>2. /\ outbound \in [Streams -> Seq(Vectors)] /\ q \in Seq(Vectors) /\ O \in Nat /\ m \in 0 .. O
        /\ inbound \in [Streams -> Seq(Item)] /\ sent \in [Streams -> Nat]
    BY <1>2 DEF DInv, DataType
  <2>3. /\ c \in Commands /\ Program[c].stream = s /\ N \in Nat /\ Count(c) \in Nat
        /\ Position(s, "store", next[s]) = B + N
        /\ Position(s, "load", done[s]) = Before(s, "load", c) + 0
    <3>1. "store" # "load"
      OBVIOUS
    <3> QED
      BY <2>1, <3>1, BeginTick, VectorFacts
  <2>4. /\ Position(s, "store", next[s])' = B + (N + m)
        /\ Position(s, "load", done[s])' = Before(s, "load", c) + 0
    <3>1. "store" # "load"
      OBVIOUS
    <3> QED
      BY <2>1, <3>1, TickPosition
  <2>5. /\ outbound'[s] = SubSeq(q, m + 1, Len(q))
        /\ \A p \in Streams \ {s} : outbound'[p] = outbound[p]
    BY <1>2, <2>2
  <2>6. /\ outbound'[s] \in Seq(Vectors) /\ Len(outbound'[s]) = O - m
        /\ \A k \in 1 .. O - m : outbound'[s][k] = q[m + k]
    <3> HIDE DEF q
    <3> QED
      BY <2>2, <2>5, RestFacts
  <2>7. outbound' \in [Streams -> Seq(Vectors)]
    BY <1>2, <2>2, <2>6
  <2>8. DataType'
    <3>1. inbound' \in [Streams -> Seq(Item)]
      BY <1>2, <2>2
    <3> QED
      BY <1>2, <2>1, <2>7, <3>1, TickType
  <2>9. InLine' /\ Underway' /\ Requested'
    BY <2>1, TickInLine, TickUnderway, TickRequested
  <2>10. /\ B \in Nat /\ sent[s] = (B + N) + O
         /\ \A k \in 1 .. O : q[k] = Slots[s]["store"][(B + N) + k]
    BY <2>3, BeforeFacts DEF DInv, Supplied
  <2>11. \A k \in 1 .. m : q[k] = <<c, next[s] + k>>
    <3>1. N + m <= Count(c)
      BY <2>1 DEF Tick
    <3> SUFFICES ASSUME NEW k \in 1 .. m
                 PROVE  q[k] = <<c, N + k>>
      OBVIOUS
    <3>2. k \in 1 .. O /\ N + k \in 1 .. Count(c) /\ (B + N) + k = B + (N + k)
      <4> HIDE DEF q, O, N, B
      <4> QED
        BY <2>2, <2>3, <2>10, <3>1
    <3>3. q[k] = Slots[s]["store"][B + (N + k)]
      BY <2>10, <3>2
    <3>4. Chosen(s, "store", c)
      BY <2>1, <2>3 DEF Chosen
    <3>5. Slots[s]["store"][B + (N + k)] = <<c, N + k>>
      <4> HIDE DEF N
      <4> QED
        BY <2>3, <3>2, <3>4, SlotsFacts
    <3> QED
      BY <3>3, <3>5
  <2>12. Delivered'
    <3>1. \A p \in Streams : Position(p, "load", done[p])' = Position(p, "load", done[p])
      BY <2>1, <2>3, <2>4, TickPosition
    <3>2. inbound' = inbound /\ received' = received
      BY <1>2
    <3> QED
      BY <3>1, <3>2 DEF DInv, Delivered, Taken
  <2>13. Fits'
    <3>1. ASSUME NEW p \in Streams \ {s}
          PROVE  active'[p] = active[p] /\ pending'[p] = pending[p] /\ outbound'[p] = outbound[p]
      BY <2>1, <2>5, TickStands, TickPending
    <3>2. Len(pending'[s]) <= FifoDepth
      BY <2>1, TickPending
    <3>3. Len(outbound'[s]) <= FifoDepth
      <4>1. O <= FifoDepth /\ FifoDepth \in Nat
        BY DmaAssumption DEF DInv, Fits
      <4> HIDE DEF O
      <4> QED
        BY <2>2, <2>6, <4>1
    <3>4. active'[s] # 0 => active'[s] = c
      BY <2>1, TickStands
    <3>5. inbound' = inbound /\ "store" # "load"
      BY <1>2
    <3> QED
      BY <2>1, <3>1, <3>2, <3>3, <3>4, <3>5 DEF DInv, Fits
  <2>14. Supplied'
    <3>1. sent' = sent
      BY <1>2
    <3>2. \A p \in Streams \ {s} :
            /\ Position(p, "store", next[p])' = Position(p, "store", next[p])
            /\ outbound'[p] = outbound[p]
      BY <2>1, <2>5, TickPosition
    <3>3. \A r \in requests' \cup answers' : r.op = "store" => r.data = r.id
      BY <2>1, <2>11, TickWrites
    <3>4. sent[s] = Position(s, "store", next[s])' + Len(outbound'[s])
      <4> HIDE DEF O, N, B
      <4>1. (B + N) + O = (B + (N + m)) + (O - m)
        BY <2>2, <2>3, <2>10
      <4> QED
        BY <2>4, <2>6, <2>10, <4>1
    <3>5. ASSUME NEW k \in 1 .. Len(outbound'[s])
          PROVE  outbound'[s][k] = Slots[s]["store"][Position(s, "store", next[s])' + k]
      <4>1. k \in 1 .. O - m
        BY <2>6
      <4>2. outbound'[s][k] = q[m + k]
        BY <2>6, <4>1
      <4>3. m + k \in 1 .. O /\ (B + N) + (m + k) = (B + (N + m)) + k
        <5> HIDE DEF q, O, N, B
        <5> QED
          BY <2>2, <2>3, <2>10, <4>1
      <4>4. q[m + k] = Slots[s]["store"][(B + N) + (m + k)]
        BY <2>10, <4>3
      <4> QED
        BY <2>4, <4>2, <4>3, <4>4
    <3> QED
      BY <3>1, <3>2, <3>3, <3>4, <3>5 DEF DInv, Supplied
  <2> QED
    BY <2>8, <2>9, <2>12, <2>13, <2>14 DEF DInv
<1> QED
  BY <1>1, <1>2, StoreIsTick

(* The invariant holds before the first cycle.                              *)
LEMMA DataInit == Init => DInv
<1> SUFFICES ASSUME Init PROVE DInv
  OBVIOUS
<1>1. NumStreams \in Nat \ {0} /\ FifoDepth \in Nat /\ RequestDepth \in Nat
  BY DmaAssumption
<1>2. DataType
  <2>1. IsFiniteSet({}) /\ Cardinality({}) = 0
    BY FS_EmptySet
  <2> QED
    BY <1>1, <2>1 DEF Init, DataType
<1>3. InLine
  <2>1. Completed = {}
    BY DEF Init, Completed
  <2>2. \A c \in Transfers : ~(c <= pc)
    <3>1. pc = 0 /\ NotesType
      BY InitInv DEF IInv, Init
    <3>2. Transfers \subseteq Nat \ {0}
      BY <3>1, CommandNumbers
    <3> QED
      BY <3>1, <3>2
  <2> QED
    BY <2>1, <2>2 DEF InLine
<1>4. \A s \in Streams : /\ pending[s] = <<>> /\ inbound[s] = <<>> /\ outbound[s] = <<>>
                         /\ received[s] = <<>> /\ active[s] = 0 /\ queue[s] = <<>>
                         /\ next[s] = 0 /\ done[s] = 0 /\ sent[s] = 0
  BY DEF Init
<1>5. Underway
  BY <1>4 DEF Underway
<1>6. Requested
  <2>1. \A s \in Streams : Outstanding(s) = {}
    BY DEF Init, Outstanding
  <2>2. \A s \in Streams : Seqs!ToSet(pending[s]) = {}
    BY <1>4 DEF Seqs!ToSet
  <2> QED
    BY <2>1, <2>2 DEF Init, Requested
<1>7. Fits
  <2>1. Len(<<>>) = 0 /\ 0 <= FifoDepth /\ 0 + 0 = 0
    BY <1>1
  <2> QED
    BY <1>4, <2>1 DEF Fits
<1>8. \A s \in Streams : \A op, n : Position(s, op, n) = 0
  <2>1. \A s \in Streams : Front(s) = 1
    BY <1>4 DEF Init, Front
  <2>2. \A s, op : Before(s, op, 1) = 0
    BY BeforeFacts
  <2> QED
    BY <1>4, <2>1, <2>2 DEF Position
<1>9. Delivered
  <2>1. \A s \in Streams : Taken(s) = <<>>
    <3>1. <<>> \o <<>> = <<>>
      OBVIOUS
    <3> QED
      BY <1>4, <3>1 DEF Taken
  <2>2. /\ \A s \in Streams : Len(Taken(s)) = 0 /\ Len(received[s]) = 0 /\ Len(inbound[s]) = 0
        /\ 0 + 0 = 0 /\ 1 .. 0 = {}
    BY <1>4, <2>1
  <2> QED
    BY <1>8, <2>2 DEF Delivered
<1>10. Supplied
  <2>1. \A s \in Streams : Len(Slots[s]["store"]) \in Nat
    BY SlotsFacts
  <2>2. \A s \in Streams : 0 <= Len(Slots[s]["store"])
    BY <2>1
  <2> QED
    BY <1>4, <1>8, <2>2 DEF Init, Supplied
<1> QED
  BY <1>2, <1>3, <1>5, <1>6, <1>7, <1>9, <1>10 DEF DInv

(* The actions of the ICU queue.                                            *)
LEMMA DispatchData ==
  ASSUME IInv, IInv', DInv, Issue \/ ReleaseSync \/ ReleaseWait
  PROVE  DInv'
<1>1. /\ pc < EndOfProgram /\ Pass /\ UNCHANGED first
      /\ Program[pc + 1].op \in {"load", "store", "sync", "wait"}
  BY DEF Issue, ReleaseSync, ReleaseWait, At
<1>2. pc + 1 \in Commands /\ pc' = pc + 1
  BY <1>1, PassFacts
<1>3. /\ UNCHANGED <<active, completions, engineData, turn, fault>>
      /\ stage' \in {"dispatch", "slices"}
  BY DEF Issue, ReleaseSync, ReleaseWait, At, Dispatching, engineVars, noteVars, engineData
<1>4. Issued
  <2>1. CASE Issue
    <3>1. Program[pc + 1].op \in {"load", "store"}
      BY <2>1 DEF Issue, At
    <3>2. pc + 1 \in Transfers
      BY <1>2, <3>1 DEF Transfers
    <3> QED
      BY <2>1, <3>2 DEF Issue, Issued
  <2>2. CASE ReleaseSync \/ ReleaseWait
    <3>1. Program[pc + 1].op \in {"sync", "wait"} /\ queue' = queue
      BY <2>2 DEF ReleaseSync, ReleaseWait, At, engineVars
    <3>2. pc + 1 \notin Transfers
      BY <3>1 DEF Transfers
    <3> QED
      BY <3>1, <3>2 DEF Issued
  <2> QED
    BY <2>1, <2>2
<1> QED
  BY <1>2, <1>3, <1>4, PassData

(* Every step keeps it.                                                     *)
LEMMA DataNext ==
  IInv /\ DInv /\ [Next]_vars => DInv'
<1> SUFFICES ASSUME IInv, DInv, [Next]_vars PROVE DInv'
  OBVIOUS
<1>1. CASE Issue \/ ReleaseSync \/ ReleaseWait
  BY <1>1, NextInv, DispatchData
<1>2. CASE NoDispatch \/ ResetProgram \/ Announce \/ UNCHANGED vars
  <2>1. UNCHANGED <<pc, active, queue, completions, engineData, turn, fault>>
    BY <1>2 DEF NoDispatch, ResetProgram, Announce, vars, icuVars, engineVars, noteVars, engineData
  <2>2. stage' = stage \/ stage' \in {"slices", "ddr"}
    BY <1>2 DEF NoDispatch, ResetProgram, Announce, vars
  <2>3. /\ stage' \in {"dispatch", "slices", "dma", "announce", "ddr"}
        /\ turn' \in 0 .. NumStreams /\ fault' \in {"none", "outside"}
    BY <2>1, <2>2 DEF DInv, DataType
  <2> QED
    BY <2>1, <2>3, FrameData
<1>3. CASE Slices
  BY <1>3, SlicesData
<1>4. ASSUME NEW s \in Streams, IdleTick(s) \/ TickLoad(s) \/ TickStore(s)
      PROVE  DInv'
  BY <1>4, IdleTickData, TickLoadData, TickStoreData
<1>5. CASE DdrTick
  BY <1>5, DdrTickData
<1> QED
  BY <1>1, <1>2, <1>3, <1>4, <1>5 DEF Next

(* In every reachable state the commands and vectors of a stream are in     *)
(* line: what the engine has pending is what DDR holds or has answered,     *)
(* once and consecutively; what RX was given and what TX has handed over    *)
(* are the vectors of the transfers up to there; and every read has room    *)
(* reserved.                                                                *)
THEOREM DataInvariance == Spec => [](IInv /\ DInv)
<1>1. Init => IInv /\ DInv
  BY InitInv, DataInit
<1>2. (IInv /\ DInv) /\ [Next]_vars => (IInv /\ DInv)'
  BY NextInv, DataNext
<1> QED
  BY <1>1, <1>2, PTL DEF Spec

(* No FIFO, request queue or index of the engine ever leaves its range, in  *)
(* particular no FIFO exceeds fifo_depth_vectors_ and the DDR queue         *)
(* request_queue_depth, whatever the program.                               *)
THEOREM TypeCorrect == Spec => []TypeOK
<1>1. IInv /\ DInv => TypeOK
  <2> SUFFICES ASSUME IInv, DInv PROVE TypeOK
    OBVIOUS
  <2>1. \A s \in Streams : DOMAIN received[s] = 1 .. Len(received[s])
    BY DEF DInv, DataType
  <2>2. \A r \in requests \cup answers : r.id \in Vectors /\ r.op \in {"load", "store"}
    BY DEF DInv, DataType, Request
  <2> QED
    BY <2>1, <2>2 DEF IInv, DInv, DataType, Fits, NotesType, TypeOK, Item
<1> QED
  BY <1>1, DataInvariance, PTL

(* A stream has moved no more vectors than its transfers have.              *)
LEMMA PositionBounded ==
  ASSUME IInv, DInv, NEW s \in Streams
  PROVE  Position(s, "load", done[s]) <= Before(s, "load", Len(Program) + 1)
<1> DEFINE B(k) == Before(s, "load", k)
           f == Front(s)
<1>1. pc \in 0 .. Len(Program) /\ Len(Program) \in Nat /\ f \in 1 .. (pc + 1) /\ f \in Nat
  BY FrontFacts, ProgramFacts DEF IInv, NotesType
<1>2. f <= Len(Program) + 1 /\ Len(Program) + 1 \in Nat
  <2> HIDE DEF f
  <2> QED
    BY <1>1
<1>3. B(f) <= B(Len(Program) + 1) /\ \A k : B(k) \in Nat
  BY <1>1, <1>2, BeforeFacts
<1>4. CASE active[s] # 0 /\ Program[active[s]].op = "load"
  <2>1. Starting(s) = active[s] /\ f = active[s]
    BY <1>4 DEF Starting, Front
  <2>2. /\ f \in Commands /\ Program[f].stream = s /\ done[s] \in Nat /\ Len(pending[s]) \in Nat
        /\ next[s] = done[s] + Len(pending[s]) /\ next[s] <= Count(f) /\ f \in Transfers
    BY <1>4, <2>1, BeginTick
  <2>3. Count(f) \in Nat /\ Chosen(s, "load", f)
    BY <1>4, <2>1, <2>2, VectorFacts DEF Chosen
  <2>4. B(f + 1) = B(f) + Count(f)
    BY <2>2, <2>3, BeforeNext
  <2>5. f + 1 <= Len(Program) + 1 /\ f + 1 \in Nat
    <3>1. f \in 1 .. Len(Program)
      BY <2>2, ProgramFacts
    <3> HIDE DEF f
    <3> QED
      BY <1>1, <3>1
  <2>6. B(f + 1) <= B(Len(Program) + 1)
    BY <1>2, <2>5, BeforeFacts
  <2>7. done[s] <= Count(f)
    <3> DEFINE P == Len(pending[s])
               C == Count(f)
    <3>1. P \in Nat /\ next[s] = done[s] + P /\ next[s] <= C /\ C \in Nat
      BY <2>2, <2>3
    <3> HIDE DEF P, C
    <3>2. done[s] <= C
      BY <2>2, <3>1
    <3> QED
      BY <3>2 DEF C
  <2>8. Position(s, "load", done[s]) = B(f) + done[s]
    BY <1>4 DEF Position
  <2> DEFINE x == B(f)
             y == B(Len(Program) + 1)
             z == Count(f)
  <2>9. x \in Nat /\ y \in Nat /\ z \in Nat /\ x + z <= y /\ done[s] <= z /\ done[s] \in Nat
        /\ Position(s, "load", done[s]) = x + done[s]
    BY <1>3, <2>2, <2>3, <2>4, <2>6, <2>7, <2>8
  <2> HIDE DEF x, y, z
  <2>10. Position(s, "load", done[s]) <= y
    BY <2>9
  <2> QED
    BY <2>10 DEF y
<1>5. CASE ~(active[s] # 0 /\ Program[active[s]].op = "load")
  <2>1. Position(s, "load", done[s]) = B(f) + 0
    BY <1>5 DEF Position
  <2> DEFINE x == B(f)
             y == B(Len(Program) + 1)
  <2>2. x \in Nat /\ x <= y /\ Position(s, "load", done[s]) = x + 0
    BY <1>3, <2>1
  <2> HIDE DEF x, y
  <2>3. Position(s, "load", done[s]) <= y
    BY <2>2
  <2> QED
    BY <2>3 DEF y
<1> QED
  BY <1>4, <1>5

(* A sequence that agrees with a longer one is a prefix of it.              *)
LEMMA PrefixFacts ==
  ASSUME NEW S, NEW q \in Seq(S), NEW r \in Seq(S), Len(q) <= Len(r),
         \A k \in 1 .. Len(q) : q[k] = r[k]
  PROVE  Seqs!IsPrefix(q, r)
<1> DEFINE n == Len(q)
           R == Len(r)
<1>1. n \in Nat /\ R \in Nat /\ n <= R /\ n \in Int /\ R \in Int
  OBVIOUS
<1> HIDE DEF n, R
<1>2. \A k \in 1 .. n : k \in 1 .. R
  BY <1>1
<1>3. \A k \in 1 .. n : q[k] \in S /\ r[k] \in S /\ q[k] = r[k]
  BY <1>2, ElementOfSeq DEF n, R
<1>4. /\ Len(SubSeq(q, 1, n)) = IF 1 <= n THEN n - 1 + 1 ELSE 0
      /\ \A i \in 1 .. n - 1 + 1 : SubSeq(q, 1, n)[i] = q[1 + i - 1]
      /\ SubSeq(q, 1, n) \in Seq(S)
  BY <1>1, <1>3, SubSeqProperties
<1>5. /\ Len(SubSeq(r, 1, n)) = IF 1 <= n THEN n - 1 + 1 ELSE 0
      /\ \A i \in 1 .. n - 1 + 1 : SubSeq(r, 1, n)[i] = r[1 + i - 1]
      /\ SubSeq(r, 1, n) \in Seq(S)
  BY <1>1, <1>3, SubSeqProperties
<1>6. n - 1 + 1 = n /\ (IF 1 <= n THEN n - 1 + 1 ELSE 0) = n /\ \A i \in 1 .. n : 1 + i - 1 = i
  BY <1>1
<1>7. \A i \in 1 .. n : SubSeq(q, 1, n)[i] = SubSeq(r, 1, n)[i]
  <2> SUFFICES ASSUME NEW i \in 1 .. n PROVE SubSeq(q, 1, n)[i] = SubSeq(r, 1, n)[i]
    OBVIOUS
  <2>1. SubSeq(q, 1, n)[i] = q[i] /\ SubSeq(r, 1, n)[i] = r[i]
    BY <1>4, <1>5, <1>6
  <2> QED
    BY <1>3, <2>1
<1>8. SubSeq(q, 1, n) = SubSeq(r, 1, n)
  BY <1>4, <1>5, <1>6, <1>7, SeqEqual
<1> QED
  BY <1>1, <1>8 DEF Seqs!IsPrefix, n, R

(* Though DDR answers out of order, RX sees each vector of each load once,  *)
(* in program order, the engine and DDR agree on what is outstanding, and   *)
(* no read is requested without room for its vector.                        *)
THEOREM LoadsArriveInOrder == Spec => []LoadsInOrder
<1>1. IInv /\ DInv => LoadsInOrder
  <2> SUFFICES ASSUME IInv, DInv, NEW s \in Streams
               PROVE  /\ Seqs!IsPrefix([k \in 1 .. Len(Taken(s)) |-> <<Taken(s)[k].cmd, Taken(s)[k].index>>],
                                       Slots[s]["load"])
                      /\ Outstanding(s) = Seqs!ToSet(pending[s])
                      /\ (active[s] # 0 /\ Program[active[s]].op = "load") =>
                           Len(pending[s]) + Len(inbound[s]) <= FifoDepth
    BY DEF LoadsInOrder
  <2>1. /\ Outstanding(s) = Seqs!ToSet(pending[s])
        /\ (active[s] # 0 /\ Program[active[s]].op = "load") =>
             Len(pending[s]) + Len(inbound[s]) <= FifoDepth
    BY DEF DInv, Requested, Fits
  <2> DEFINE T == Len(Taken(s))
             ids == [k \in 1 .. T |-> <<Taken(s)[k].cmd, Taken(s)[k].index>>]
             S == Slots[s]["load"]
  <2>2. received[s] \in Seq(Item) /\ inbound[s] \in Seq(Item)
    BY DEF DInv, DataType
  <2>3. T = Len(received[s]) + Len(inbound[s]) /\ T \in Nat
    <3>1. /\ received[s] \o inbound[s] \in Seq(Item)
          /\ Len(received[s] \o inbound[s]) = Len(received[s]) + Len(inbound[s])
      BY <2>2, ConcatProperties
    <3>2. Taken(s) \in Seq(Item) /\ Len(Taken(s)) = Len(received[s]) + Len(inbound[s])
      BY <3>1 DEF Taken
    <3>3. Len(received[s]) + Len(inbound[s]) \in Nat
      <4> DEFINE x == Len(received[s])
                 y == Len(inbound[s])
      <4>1. x \in Nat /\ y \in Nat
        BY <2>2, LenProperties
      <4> HIDE DEF x, y
      <4>2. x + y \in Nat
        BY <4>1
      <4> QED
        BY <4>2 DEF x, y
    <3> QED
      BY <3>2, <3>3
  <2>4. T = Position(s, "load", done[s])
    BY <2>3 DEF DInv, Delivered
  <2>5. T <= Len(S) /\ S \in Seq(Vectors) /\ Len(S) \in Nat
    <3>1. S \in Seq(Vectors) /\ Len(S) \in Nat /\ Len(S) = Before(s, "load", Len(Program) + 1)
      BY SlotsFacts
    <3>2. Position(s, "load", done[s]) <= Before(s, "load", Len(Program) + 1)
      BY PositionBounded
    <3> QED
      BY <2>4, <3>1, <3>2
  <2>6. \A k \in 1 .. T : ids[k] = S[k]
    BY DEF DInv, Delivered
  <2>7. Seqs!IsPrefix(ids, S)
    <3> HIDE DEF S
    <3>1. \A k \in 1 .. T : ids[k] \in Vectors
      <4>1. \A k \in 1 .. T : k \in 1 .. Len(S)
        <5> DEFINE L == Len(S)
        <5>1. T \in Nat /\ L \in Nat /\ T <= L
          BY <2>3, <2>5
        <5> HIDE DEF T, L
        <5>2. \A k \in 1 .. T : k \in 1 .. L
          BY <5>1
        <5> QED
          BY <5>2 DEF L
      <4> QED
        BY <2>5, <2>6, <4>1, ElementOfSeq
    <3>2. DOMAIN ids = 1 .. T
      OBVIOUS
    <3>3. ids = [k \in 1 .. T |-> ids[k]]
      OBVIOUS
    <3> HIDE DEF ids, T
    <3>4. ids \in [1 .. T -> Vectors]
      BY <3>1, <3>2, <3>3
    <3>5. ids \in Seq(Vectors) /\ Len(ids) = T
      <4>1. T \in Nat
        BY <2>3
      <4>2. ids \in Seq(Vectors)
        BY <3>4, <4>1
      <4>3. DOMAIN ids = 1 .. T
        BY <3>4
      <4> QED
        BY <4>1, <4>2, <4>3
    <3> QED
      BY <2>5, <2>6, <3>5, PrefixFacts
  <2> QED
    BY <2>1, <2>7
<1> QED
  BY <1>1, DataInvariance, PTL
-----------------------------------------------------------------------------
(***************************************************************************)
(* What C2cDma leaves in DDR and hands to RX, for every program in which   *)
(* transfers that conflict are ordered by a WAIT_EVENT (ConflictsOrdered). *)
(*                                                                         *)
(* A WAIT_EVENT that is released has seen the transfers it waits for       *)
(* complete: its tag counts the completions of the loaded program that no  *)
(* earlier WAIT_EVENT has spent.  So a transfer is under way only when     *)
(* every earlier one it conflicts with is over, and before any later one   *)
(* begins; MemoryHolds says what DDR then holds, row by row.               *)
(***************************************************************************)

(* The program that is loaded begins behind the end of the one before, with *)
(* everything before it over.                                               *)
Switched ==
  /\ first = 0 \/ first \in Ends
  /\ \A e \in Ends : e > first => pc <= e
  /\ \A c \in Transfers : c <= first => c \in Completed

(* A WAIT_EVENT that was passed has seen what it waits for complete.        *)
Waited == \A w \in 1 .. pc, c \in Transfers : WaitsFor(w, c) => c \in Completed

(* Vectors of stores that DDR has written, and what it holds then.          *)
Landed(v) ==
  /\ Program[v[1]].op = "store"
  /\ \/ v[1] \in Completed
     \/ /\ active[Program[v[1]].stream] = v[1] /\ v[2] <= next[Program[v[1]].stream]
        /\ \A r \in requests : r.id # v
MemoryHolds ==
  \A a \in Rows :
    /\ memory[a] \in Vectors => Landed(memory[a]) /\ Row(memory[a]) = a
    /\ \A v \in Vectors : Landed(v) /\ Row(v) = a =>
         memory[a] \in Vectors /\ v[1] <= memory[a][1]

(* A load of vector v that returns d has read the last store before it.     *)
ReadRight(d, v) == d = LastStored(v[1], Row(v))
AnswersRight == \A r \in answers : r.op = "load" => ReadRight(r.data, r.id)

MInv == Switched /\ Waited /\ MemoryHolds /\ AnswersRight /\ LoadsSeeStores
----------------------------------------------------------------------------
(* Commands are numbers from 1 on.                                          *)
LEMMA EndNumbers == Ends \subseteq Nat \ {0} /\ Commands \subseteq Nat \ {0} /\ Transfers \subseteq Nat \ {0}
<1>1. 1 .. Len(Program) \subseteq Nat \ {0}
  BY ProgramFacts
<1> QED
  BY <1>1, ProgramFacts, DmaAssumption

(* Commands of the program that is loaded, up to the next one.              *)
LEMMA OneProgram ==
  ASSUME IInv, Switched, NEW d \in Nat \ {0}, NEW w \in Nat, d < w,
         w <= pc \/ (w = pc + 1 /\ pc < EndOfProgram)
  PROVE  /\ d > first => SameProgram(d, w)
         /\ w > first /\ SameProgram(d, w) => d > first
<1>1. first \in Nat /\ pc \in Nat /\ Ends \subseteq Nat
  BY EndNumbers, ProgramFacts DEF IInv, NotesType
<1>2. ASSUME d > first, NEW e \in Ends, d <= e, e < w PROVE FALSE
  <2>1. e \in Nat /\ e > first /\ pc <= e
    BY <1>1, <1>2 DEF Switched
  <2>2. w = pc + 1 /\ pc < EndOfProgram /\ e = pc
    BY <1>1, <1>2, <2>1
  <2>3. e >= EndOfProgram /\ EndOfProgram \in Nat
    BY <2>1, EndFacts, ProgramFacts DEF IInv
  <2> QED
    BY <1>1, <2>2, <2>3
<1>3. ASSUME w > first, SameProgram(d, w), ~(d > first) PROVE FALSE
  <2>1. d <= first /\ first # 0
    BY <1>1, <1>3
  <2>2. first \in Ends
    BY <2>1 DEF Switched
  <2> QED
    BY <1>3, <2>1, <2>2 DEF SameProgram
<1> QED
  BY <1>2, <1>3 DEF SameProgram

(* A transfer that conflicts with an issued one before it is over.          *)
LEMMA EarlierOver ==
  ASSUME ConflictsOrdered, IInv, Switched, Waited, NEW c \in Transfers, NEW d \in Transfers,
         Conflict(c, d), d <= pc
  PROVE  c \in Completed
<1>1. /\ c \in Nat \ {0} /\ d \in Nat \ {0} /\ c < d /\ pc \in Nat /\ first \in Nat
  BY EndNumbers, ProgramFacts DEF IInv, NotesType, Conflict
<1>2. CASE c <= first
  BY <1>2 DEF Switched
<1>3. CASE ~(c <= first)
  <2>1. SameProgram(c, d)
    BY <1>1, <1>3, OneProgram
  <2>2. PICK w \in Commands : w < d /\ WaitsFor(w, c)
    BY <2>1 DEF ConflictsOrdered
  <2>3. w \in 1 .. pc
    <3>1. w \in Nat \ {0}
      BY EndNumbers
    <3> QED
      BY <1>1, <2>2, <3>1
  <2> QED
    BY <2>2, <2>3 DEF Waited
<1> QED
  BY <1>2, <1>3

(* A WAIT_EVENT that is released has seen every transfer it waits for.      *)
LEMMA WaitReleased ==
  ASSUME IInv, Switched, pc < EndOfProgram, pc + 1 \in Commands, tags[Program[pc + 1].tag] > 0,
         NEW c \in Transfers, WaitsFor(pc + 1, c)
  PROVE  c \in Completed
<1> DEFINE w == pc + 1
           t == Program[w].tag
           D == {d \in Transfers : SameProgram(d, w) /\ Program[d].tag = t}
           W == {d \in Commands : /\ d = w \/ SameProgram(d, w)
                                  /\ Program[d].op = "wait" /\ Program[d].tag = t}
           S == Tagged(Spent("wait"), t)
           O == Tagged(Own, t)
           A == {k \in 1 .. Len(announced) : announced[k] = t}
<1>1. pc \in Nat /\ first \in Nat /\ w \in Nat /\ first < w /\ pc < w
  BY ProgramFacts DEF IInv, NotesType
<1>2. Program[c].tag = t /\ SameProgram(c, w) /\ Cardinality(D) <= Cardinality(W)
  BY DEF WaitsFor
<1>3. ASSUME NEW d \in Nat \ {0}
      PROVE  SameProgram(d, w) <=> first < d /\ d <= pc
  <2>1. d < w <=> d <= pc
    BY <1>1
  <2>2. SameProgram(d, w) => d < w
    BY DEF SameProgram
  <2> QED
    BY <1>1, <2>1, <2>2, OneProgram
<1>4. W \subseteq S \cup {w}
  <2> SUFFICES ASSUME NEW d \in W, d # w PROVE d \in S
    OBVIOUS
  <2>1. d \in Nat \ {0} /\ SameProgram(d, w) /\ Program[d].op = "wait" /\ Program[d].tag = t
    BY EndNumbers
  <2>2. first < d /\ d <= pc
    BY <1>3, <2>1
  <2>3. d \in 1 .. pc /\ d > first
    BY <1>1, <2>1, <2>2
  <2> QED
    BY <2>1, <2>3 DEF Tagged, Spent, Passed
<1>5. O \subseteq D
  <2> SUFFICES ASSUME NEW d \in O PROVE d \in D
    OBVIOUS
  <2>1. d \in Completed /\ d > first /\ Program[d].tag = t
    BY DEF Tagged, Own
  <2>2. d \in Transfers /\ d \in Nat \ {0} /\ d <= pc
    BY <2>1, Finite, EndNumbers DEF IInv, EachOnce
  <2>3. first < d
    BY <1>1, <2>1, <2>2
  <2>4. SameProgram(d, w)
    BY <1>3, <2>2, <2>3
  <2> QED
    BY <2>1, <2>2, <2>4
<1>6. IsFiniteSet(S) /\ Cardinality(S) \in Nat /\ IsFiniteSet(O) /\ Cardinality(O) \in Nat
      /\ Cardinality(A) \in Nat /\ tags[t] \in Nat \ {0}
  <2>1. t \in Tags
    BY ProgramFacts
  <2>2. tags[t] \in Nat
    BY <2>1 DEF IInv, NotesType
  <2>3. tags[t] > 0
    OBVIOUS
  <2>4. tags[t] \in Nat \ {0}
    <3> HIDE DEF t
    <3> QED
      BY <2>2, <2>3
  <2> QED
    BY <2>4, Finite DEF IInv
<1>7. IsFiniteSet(D)
  <2>1. IsFiniteSet(Transfers)
    <3>1. IsFiniteSet(1 .. Len(Program))
      BY ProgramFacts, FS_Interval
    <3> QED
      BY <3>1, ProgramFacts, FS_Subset
  <2>2. D \subseteq Transfers
    OBVIOUS
  <2> HIDE DEF D
  <2> QED
    BY <2>1, <2>2, FS_Subset
<1>8. tags[t] + Cardinality(S) + Cardinality(A) = Cardinality(O)
  <2>1. t \in Tags
    BY ProgramFacts
  <2> QED
    BY <2>1 DEF IInv, CompletionsNotified
<1> HIDE DEF S, O, D, W, A, t, w
<1>9. Cardinality(W) <= Cardinality(S) + 1 /\ Cardinality(W) \in Nat
  <2>1. /\ IsFiniteSet(S \cup {w})
        /\ Cardinality(S \cup {w}) = IF w \in S THEN Cardinality(S) ELSE Cardinality(S) + 1
    BY <1>6, FS_AddElement
  <2>2. IsFiniteSet(W) /\ Cardinality(W) <= Cardinality(S \cup {w})
    BY <1>4, <2>1, FS_Subset
  <2>3. Cardinality(W) \in Nat
    BY <2>2, FS_CardinalityType
  <2> DEFINE x == Cardinality(W)
             y == Cardinality(S)
             z == Cardinality(S \cup {w})
  <2>4. x \in Nat /\ y \in Nat /\ x <= z /\ (z = y \/ z = y + 1)
    BY <1>6, <2>1, <2>2, <2>3
  <2> HIDE DEF x, y, z
  <2>5. x <= y + 1
    BY <2>4
  <2> QED
    BY <2>3, <2>5 DEF x, y
<1>10. D = O
  <2>1. Cardinality(O) <= Cardinality(D) /\ (Cardinality(D) = Cardinality(O) => D = O)
    BY <1>5, <1>7, FS_Subset
  <2>2. Cardinality(D) \in Nat
    BY <1>7, FS_CardinalityType
  <2> DEFINE x == Cardinality(W)
             y == Cardinality(S)
             z == Cardinality(A)
             d == Cardinality(D)
             o == Cardinality(O)
             g == tags[t]
  <2>3. /\ x \in Nat /\ y \in Nat /\ z \in Nat /\ d \in Nat /\ o \in Nat /\ g \in Nat \ {0}
        /\ g + y + z = o /\ x <= y + 1 /\ d <= x /\ o <= d
    BY <1>2, <1>6, <1>8, <1>9, <2>1, <2>2
  <2> HIDE DEF x, y, z, d, o, g
  <2>4. d = o
    BY <2>3
  <2> QED
    BY <2>1, <2>4 DEF d, o
<1>11. c \in D
  BY <1>2 DEF D
<1> QED
  BY <1>10, <1>11 DEF O, Tagged, Own

(* Completions and the order they come in: a step that passes no command.   *)
LEMMA OrderStands ==
  ASSUME Switched, Waited, UNCHANGED <<pc, first>>, Completed \subseteq Completed'
  PROVE  Switched' /\ Waited'
  BY DEF Switched, Waited

(* Issue, SYNC and WAIT_EVENT.                                              *)
LEMMA PassOrder ==
  ASSUME IInv, Switched, Waited, Issue \/ ReleaseSync \/ ReleaseWait
  PROVE  Switched' /\ Waited'
<1>1. /\ pc < EndOfProgram /\ Pass /\ UNCHANGED <<first, completions>>
  BY DEF Issue, ReleaseSync, ReleaseWait, At, engineVars, noteVars
<1>2. /\ pc + 1 \in Commands /\ pc' = pc + 1 /\ pc \in Nat /\ first \in Nat /\ first' = first
      /\ EndOfProgram \in Nat
  BY <1>1, PassFacts, EndFacts, ProgramFacts DEF IInv, NotesType
<1>3. Completed' = Completed
  BY <1>1 DEF Completed
<1>4. Switched'
  <2>1. ASSUME NEW e \in Ends, e > first PROVE pc' <= e
    <3>1. e >= EndOfProgram /\ e \in Nat
      BY <2>1, EndFacts, EndNumbers DEF IInv
    <3> QED
      BY <1>1, <1>2, <3>1
  <2> QED
    BY <1>2, <1>3, <2>1 DEF Switched
<1>5. ASSUME NEW w \in 1 .. pc', NEW c \in Transfers, WaitsFor(w, c)
      PROVE  c \in Completed
  <2>1. CASE w = pc + 1
    <3>1. Program[w].op = "wait"
      BY <1>5 DEF WaitsFor
    <3>2. ReleaseWait
      BY <2>1, <3>1 DEF Issue, ReleaseSync, At
    <3>3. tags[Program[pc + 1].tag] > 0
      BY <3>2 DEF ReleaseWait
    <3>4. WaitsFor(pc + 1, c)
      BY <1>5, <2>1
    <3> QED
      BY <1>1, <1>2, <3>3, <3>4, WaitReleased
  <2>2. CASE w # pc + 1
    <3>1. w \in 1 .. pc
      BY <1>2, <2>2
    <3> QED
      BY <1>5, <3>1 DEF Waited
  <2> QED
    BY <2>1, <2>2
<1>6. Waited'
  BY <1>3, <1>5 DEF Waited
<1> QED
  BY <1>4, <1>6

(* A switch of programs: everything issued is over, for the engine is       *)
(* drained.                                                                 *)
LEMMA ResetOrder ==
  ASSUME IInv, DInv, Switched, Waited, ResetProgram
  PROVE  Switched' /\ Waited'
<1>1. /\ pc = EndOfProgram /\ pc < Len(Program) /\ first' = pc /\ UNCHANGED <<pc, completions>>
      /\ \A s \in Streams : queue[s] = <<>> /\ active[s] = 0
  BY DEF ResetProgram, CanLoadProgram
<1>2. Completed' = Completed
  BY <1>1 DEF Completed
<1>3. pc \in Ends
  BY <1>1, EndFacts, ProgramFacts DEF IInv
<1>4. ASSUME NEW c \in Transfers, c <= pc PROVE c \in Completed
  <2>1. Program[c].stream \in Streams /\ c # 0
    BY ProgramFacts, EndNumbers
  <2>2. ~Held(Program[c].stream, c)
    <3>1. 1 .. Len(<<>>) = {}
      OBVIOUS
    <3> QED
      BY <1>1, <2>1, <3>1 DEF Held
  <2> QED
    BY <1>4, <2>2 DEF DInv, InLine
<1>5. \A e \in Ends : e > pc => pc <= e
  BY <1>3, EndNumbers
<1>6. Switched'
  BY <1>1, <1>2, <1>3, <1>4, <1>5 DEF Switched
<1>7. Waited'
  BY <1>1, <1>2 DEF Waited
<1> QED
  BY <1>6, <1>7

(* A vector is written before and after a tick, or neither.                 *)
LEMMA TickLanded ==
  ASSUME IInv, DInv, NEW s \in Streams, NEW c, NEW n, NEW m, NEW dat, Tick(s, c, n, m, dat),
         NEW v \in Vectors
  PROVE  Landed(v)' <=> Landed(v)
<1>1. /\ v[1] \in Transfers /\ v[2] \in Nat \ {0} /\ v = <<v[1], v[2]>> /\ v[2] \in 1 .. Count(v[1])
      /\ Count(v[1]) \in Nat \ {0} /\ Program[v[1]].stream \in Streams /\ v[1] # 0
  BY VectorFacts, ProgramFacts, EndNumbers
<1>2. /\ c = Starting(s) /\ c # 0
      /\ requests' = requests \cup Fresh(s, c, m, dat)
      /\ n \in 0 .. Len(pending[s]) /\ \A k \in 1 .. n : \E r \in answers : r.id = pending[s][k]
  BY DEF Tick, Fresh
<1>3. /\ Program[c].stream = s /\ c \notin Completed /\ c \in Transfers
      /\ active[s] = c \/ (active[s] = 0 /\ next[s] = 0)
      /\ next[s] \in Nat /\ next[s] = done[s] + Len(pending[s]) /\ next[s] <= Count(c)
      /\ Count(c) \in Nat \ {0} /\ Len(pending[s]) \in Nat
  BY <1>2, BeginTick, VectorFacts
<1>4. \A r \in Fresh(s, c, m, dat) :
        r.id[1] = c /\ \E k \in 1 .. m : r.id = <<c, next[s] + k>>
  BY FreshFacts
<1>5. \A k \in 1 .. m : \E r \in Fresh(s, c, m, dat) : r.id = <<c, next[s] + k>>
  BY FreshFacts
<1>6. m \in Nat /\ n \in Nat /\ Len(pending'[s]) = (Len(pending[s]) - n) + m /\ n <= Len(pending[s])
  BY TickPending
<1>7. CASE v[1] # c
  <2>1. v[1] \in Completed' <=> v[1] \in Completed
    BY <1>7, TickStands
  <2>2. (\A r \in requests' : r.id # v) <=> (\A r \in requests : r.id # v)
    BY <1>2, <1>4, <1>7
  <2>3. CASE Program[v[1]].stream # s
    <3>1. /\ active'[Program[v[1]].stream] = active[Program[v[1]].stream]
          /\ next'[Program[v[1]].stream] = next[Program[v[1]].stream]
      BY <1>1, <2>3, TickStands
    <3> QED
      BY <2>1, <2>2, <3>1 DEF Landed
  <2>4. CASE Program[v[1]].stream = s
    <3>1. active'[s] # v[1] /\ active[s] # v[1]
      BY <1>1, <1>3, <1>7, TickStands
    <3> QED
      BY <2>1, <2>4, <3>1 DEF Landed
  <2> QED
    BY <2>3, <2>4
<1>8. CASE v[1] = c
  <2>1. Landed(v) <=> /\ Program[c].op = "store" /\ active[s] = c /\ v[2] <= next[s]
                      /\ \A r \in requests : r.id # v
    BY <1>3, <1>8 DEF Landed
  <2>2. CASE /\ active'[s] = c /\ next'[s] = next[s] + m /\ Completed' = Completed
    <3>1. Landed(v)' <=> /\ Program[c].op = "store" /\ v[2] <= next[s] + m
                         /\ \A r \in requests' : r.id # v
      BY <1>3, <1>8, <2>2 DEF Landed
    <3>2. ASSUME Landed(v) PROVE Landed(v)'
      <4>1. \A k \in 1 .. m : v # <<c, next[s] + k>>
        <5> SUFFICES ASSUME NEW k \in 1 .. m, v = <<c, next[s] + k>> PROVE FALSE
          OBVIOUS
        <5>1. v[2] = next[s] + k
          OBVIOUS
        <5>2. v[2] <= next[s]
          BY <2>1, <3>2
        <5> QED
          BY <1>3, <1>6, <5>1, <5>2
      <4>2. \A r \in requests' : r.id # v
        BY <1>2, <1>4, <2>1, <3>2, <4>1
      <4>3. v[2] <= next[s] + m
        <5>1. v[2] <= next[s]
          BY <2>1, <3>2
        <5> QED
          BY <1>1, <1>3, <1>6, <5>1
      <4> QED
        BY <2>1, <3>1, <3>2, <4>2, <4>3
    <3>3. ASSUME Landed(v)' PROVE Landed(v)
      <4>1. v[2] <= next[s]
        <5> SUFFICES ASSUME ~(v[2] <= next[s]) PROVE FALSE
          OBVIOUS
        <5> DEFINE k == v[2] - next[s]
        <5>1. k \in 1 .. m /\ next[s] + k = v[2]
          <6>1. v[2] <= next[s] + m
            BY <3>1, <3>3
          <6> QED
            BY <1>1, <1>3, <1>6, <6>1
        <5> HIDE DEF k
        <5>2. PICK r \in Fresh(s, c, m, dat) : r.id = <<c, next[s] + k>>
          BY <1>5, <5>1
        <5>3. r.id = v /\ r \in requests'
          BY <1>1, <1>2, <1>8, <5>1, <5>2
        <5> QED
          BY <3>1, <3>3, <5>3
      <4>2. active[s] = c
        <5> SUFFICES ASSUME next[s] = 0 PROVE FALSE
          BY <1>3
        <5> QED
          BY <1>1, <4>1
      <4>3. \A r \in requests : r.id # v
        BY <1>2, <3>1, <3>3
      <4> QED
        BY <2>1, <3>1, <3>3, <4>1, <4>2, <4>3
    <3> QED
      BY <3>2, <3>3
  <2>3. CASE /\ active'[s] = 0 /\ next[s] + m = Count(c) /\ Len(pending'[s]) = 0
             /\ Completed' = Completed \cup {c}
    <3>1. Landed(v)' <=> Program[c].op = "store"
      BY <1>8, <2>3 DEF Landed
    <3>2. m = 0 /\ n = Len(pending[s]) /\ next[s] = Count(c)
      <4> DEFINE P == Len(pending[s])
                 C == Count(c)
      <4>1. /\ P \in Nat /\ C \in Nat /\ 0 = (P - n) + m /\ n <= P /\ n \in Nat /\ m \in Nat
            /\ next[s] + m = C /\ next[s] \in Nat
        BY <1>3, <1>6, <2>3
      <4> HIDE DEF P, C
      <4>2. m = 0 /\ n = P /\ next[s] = C
        BY <4>1
      <4> QED
        BY <4>2 DEF P, C
    <3>3. active[s] = c
      BY <1>3, <3>2
    <3>4. v[2] <= next[s]
      BY <1>1, <1>8, <3>2
    <3>5. \A r \in requests : r.id # v
      <4> SUFFICES ASSUME NEW r \in requests, r.id = v PROVE FALSE
        OBVIOUS
      <4>1. v \in Outstanding(s)
        BY <1>3, <1>8 DEF Outstanding
      <4>2. v \in Seqs!ToSet(pending[s])
        BY <4>1 DEF DInv, Requested
      <4>3. PICK k \in 1 .. Len(pending[s]) : pending[s][k] = v
        BY <4>2 DEF Seqs!ToSet, DInv, DataType
      <4>4. PICK q \in answers : q.id = v
        BY <1>2, <3>2, <4>3
      <4> QED
        BY <4>4 DEF DInv, Requested
    <3> QED
      BY <2>1, <3>1, <3>3, <3>4, <3>5
  <2> QED
    BY <2>2, <2>3, TickStands
<1> QED
  BY <1>7, <1>8

(* The memory stands when no vector is written or forgotten.                *)
LEMMA MemoryStands ==
  ASSUME MemoryHolds, memory' = memory, \A v \in Vectors : Landed(v)' <=> Landed(v)
  PROVE  MemoryHolds'
  BY DEF MemoryHolds

(* A step of neither engine nor DDR writes nothing.                         *)
LEMMA LandedStands ==
  ASSUME UNCHANGED <<completions, active, next, requests>>, NEW v
  PROVE  Landed(v)' <=> Landed(v)
  BY DEF Landed, Completed

(* A request is of the command its stream has under way.                    *)
LEMMA RequestFacts ==
  ASSUME IInv, DInv, NEW r \in requests \cup answers
  PROVE  LET v == r.id
             s == Program[v[1]].stream
         IN /\ v \in Vectors /\ v[1] \in Transfers /\ s \in Streams /\ r.op = Program[v[1]].op
            /\ active[s] = v[1] /\ v[2] <= next[s] /\ v[1] <= pc /\ v[1] \notin Completed
            /\ Front(s) = v[1]
<1> DEFINE v == r.id
           s == Program[v[1]].stream
<1>1. v \in Vectors
  BY DEF DInv, DataType, Request
<1>2. v[1] \in Transfers /\ s \in Streams /\ r.op = Program[v[1]].op /\ v = <<v[1], v[2]>>
  BY <1>1, VectorFacts, ProgramFacts DEF DInv, Requested
<1>3. v \in Outstanding(s)
  BY DEF Outstanding
<1> HIDE DEF v, s
<1>4. v \in Seqs!ToSet(pending[s])
  BY <1>2, <1>3 DEF DInv, Requested
<1>5. PICK k \in 1 .. Len(pending[s]) : pending[s][k] = v
  <2>1. pending[s] \in Seq(Vectors)
    BY <1>2 DEF DInv, DataType
  <2>2. DOMAIN pending[s] = 1 .. Len(pending[s])
    BY <2>1
  <2> QED
    BY <1>4, <2>2 DEF Seqs!ToSet
<1>6. v = <<active[s], done[s] + k>> /\ next[s] = done[s] + Len(pending[s])
  BY <1>2, <1>5 DEF DInv, Underway
<1>7. active[s] = v[1] /\ v[2] = done[s] + k
  BY <1>6
<1>8. v[2] <= next[s]
  <2> DEFINE P == Len(pending[s])
  <2>1. P \in Nat /\ k \in 1 .. P /\ done[s] \in Nat /\ next[s] = done[s] + P
    BY <1>2, <1>5, <1>6 DEF DInv, DataType
  <2> HIDE DEF P
  <2> QED
    BY <1>7, <2>1
<1>9. v[1] # 0
  BY <1>2, EndNumbers
<1>10. v[1] <= pc /\ v[1] \notin Completed
  BY <1>2, <1>7, <1>9 DEF IInv, EachOnce, Open
<1>11. Front(s) = v[1]
  BY <1>7, <1>9 DEF Front
<1> QED
  BY <1>1, <1>2, <1>7, <1>8, <1>10, <1>11 DEF v, s

(* Vectors of different commands with a row in common, one of them stored.  *)
LEMMA SharedRow ==
  ASSUME NEW u \in Vectors, NEW v \in Vectors, Row(u) = Row(v), u[1] < v[1],
         Program[u[1]].stream # Program[v[1]].stream,
         Program[u[1]].op = "store" \/ Program[v[1]].op = "store"
  PROVE  Conflict(u[1], v[1])
<1>1. u[2] \in 1 .. Count(u[1]) /\ v[2] \in 1 .. Count(v[1])
  BY VectorFacts
<1>2. Row(u) \in RowsOf(u[1]) /\ Row(v) \in RowsOf(v[1])
  BY <1>1 DEF Row, RowsOf
<1> QED
  BY <1>2 DEF Conflict

(* A store has one vector for a row.                                        *)
LEMMA OneVector ==
  ASSUME ConflictsOrdered, NEW u \in Vectors, NEW v \in Vectors, Row(u) = Row(v), u[1] = v[1],
         Program[u[1]].op = "store"
  PROVE  u = v
<1>1. /\ u[2] \in 1 .. Count(u[1]) /\ v[2] \in 1 .. Count(u[1]) /\ u[1] \in Transfers
      /\ u = <<u[1], u[2]>> /\ v = <<v[1], v[2]>>
  BY VectorFacts
<1>2. u[2] = v[2]
  BY <1>1 DEF ConflictsOrdered, Row
<1> QED
  BY <1>1, <1>2

(* While a transfer is under way, no store of a later command has touched   *)
(* its rows.                                                                *)
LEMMA NothingLater ==
  ASSUME ConflictsOrdered, IInv, DInv, Switched, Waited, NEW r \in requests, NEW u \in Vectors,
         Landed(u) \/ (\E q \in requests : q.op = "store" /\ q.id = u), Row(u) = Row(r.id)
  PROVE  u[1] <= r.id[1]
<1> DEFINE v == r.id
           c == v[1]
           s == Program[c].stream
           d == u[1]
<1>1. /\ v \in Vectors /\ c \in Transfers /\ s \in Streams /\ active[s] = c /\ c <= pc
      /\ c \notin Completed /\ Front(s) = c
  BY RequestFacts
<1>2. d \in Transfers /\ d \in Nat /\ c \in Nat /\ pc \in Nat /\ Program[d].stream \in Streams /\ d # 0
  BY <1>1, VectorFacts, EndNumbers, ProgramFacts DEF IInv, NotesType
<1>3. Program[d].op = "store" /\ d <= pc /\ (d \in Completed \/ active[Program[d].stream] = d)
  <2>1. CASE Landed(u)
    BY <1>2, <2>1 DEF Landed, IInv, EachOnce, Open
  <2>2. CASE \E q \in requests : q.op = "store" /\ q.id = u
    <3>1. PICK q \in requests : q.op = "store" /\ q.id = u
      BY <2>2
    <3> QED
      BY <3>1, RequestFacts
  <2> QED
    BY <2>1, <2>2
<1> HIDE DEF c, d, s
<1>4. SUFFICES ASSUME c < d PROVE FALSE
  BY <1>2 DEF c, d
<1>5. CASE Program[d].stream = s
  <2>1. d \notin Completed
    BY <1>1, <1>2, <1>4, <1>5 DEF DInv, InLine
  <2> QED
    BY <1>1, <1>2, <1>3, <1>4, <1>5, <2>1
<1>6. CASE Program[d].stream # s
  <2>1. Conflict(c, d)
    BY <1>1, <1>3, <1>4, <1>6, SharedRow DEF c, d, s
  <2> QED
    BY <1>1, <1>2, <1>3, <2>1, EarlierOver
<1> QED
  BY <1>5, <1>6

(* And every store of an earlier command on its rows has been written.      *)
LEMMA EarlierLanded ==
  ASSUME ConflictsOrdered, IInv, DInv, Switched, Waited, NEW r \in requests,
         NEW u \in Earlier(r.id[1], Row(r.id))
  PROVE  Landed(u) /\ u[1] \in Completed
<1> DEFINE v == r.id
           c == v[1]
           s == Program[c].stream
           d == u[1]
<1>1. /\ v \in Vectors /\ c \in Transfers /\ s \in Streams /\ active[s] = c /\ c <= pc
      /\ c \notin Completed
  BY RequestFacts
<1>2. u \in Vectors /\ d < c /\ Program[d].op = "store" /\ Row(u) = Row(v)
  BY DEF Earlier
<1>3. d \in Transfers /\ d \in Nat /\ c \in Nat /\ pc \in Nat /\ d <= pc
  BY <1>1, <1>2, VectorFacts, EndNumbers, ProgramFacts DEF IInv, NotesType
<1> HIDE DEF c, d, s
<1>4. d \in Completed
  <2>1. CASE Program[d].stream = s
    <3>1. d \in Completed \/ Held(s, d)
      BY <1>3, <2>1 DEF DInv, InLine
    <3>2. ASSUME Held(s, d) PROVE FALSE
      <4>1. PICK k \in 1 .. Len(queue[s]) : queue[s][k] = d
        BY <1>1, <1>2, <1>3, <3>2 DEF Held
      <4>2. active[s] < queue[s][k]
        BY <1>1 DEF IInv, EachOnce
      <4> QED
        BY <1>1, <1>2, <1>3, <4>1, <4>2
    <3> QED
      BY <3>1, <3>2
  <2>2. CASE Program[d].stream # s
    <3>1. Conflict(d, c)
      BY <1>1, <1>2, <2>2, SharedRow DEF c, d, s
    <3> QED
      BY <1>1, <1>3, <3>1, EarlierOver
  <2> QED
    BY <2>1, <2>2
<1> QED
  BY <1>2, <1>4 DEF Landed, d

(* DDR reads what the last store before the load wrote.                     *)
LEMMA ReadsLastStored ==
  ASSUME ConflictsOrdered, IInv, DInv, Switched, Waited, MemoryHolds,
         NEW r \in requests, r.op = "load"
  PROVE  ReadRight(memory[Row(r.id)], r.id)
<1> DEFINE v == r.id
           c == v[1]
           a == Row(v)
           E == Earlier(c, a)
           l == LastStored(c, a)
<1>1. /\ v \in Vectors /\ c \in Transfers /\ Program[c].op = "load" /\ a \in Rows
  BY RequestFacts, RowFacts
<1>2. c \in Nat /\ \A u \in Vectors : u[1] \in Nat
  BY <1>1, VectorFacts, EndNumbers
<1>3. \A u \in E : Landed(u) /\ u \in Vectors /\ Row(u) = a /\ Program[u[1]].op = "store"
  BY EarlierLanded DEF Earlier
<1>4. CASE memory[a] \in Vectors
  <2> DEFINE x == memory[a]
  <2>1. Landed(x) /\ Row(x) = a /\ Program[x[1]].op = "store"
    BY <1>1, <1>4 DEF MemoryHolds, Landed
  <2>2. x[1] <= c
    BY <1>4, <2>1, NothingLater
  <2>3. x[1] < c
    <3>1. x[1] # c
      BY <1>1, <2>1
    <3>2. x[1] \in Nat
      BY <1>2, <1>4
    <3> HIDE DEF x, c
    <3> QED
      BY <1>2, <2>2, <3>1, <3>2
  <2>4. x \in E
    BY <1>4, <2>1, <2>3 DEF Earlier
  <2>5. \A u \in E : u[1] <= x[1]
    BY <1>1, <1>3 DEF MemoryHolds
  <2>6. l \in E /\ \A u \in E : u[1] <= l[1]
    BY <2>4, <2>5 DEF LastStored
  <2>7. l[1] = x[1]
    <3>1. l[1] <= x[1] /\ x[1] <= l[1]
      BY <2>4, <2>5, <2>6
    <3>2. l[1] \in Nat /\ x[1] \in Nat
      BY <1>2, <1>3, <1>4, <2>6
    <3> HIDE DEF l, x
    <3> QED
      BY <3>1, <3>2
  <2>8. l = x
    BY <1>3, <1>4, <2>1, <2>6, <2>7, OneVector
  <2> QED
    BY <2>8 DEF ReadRight
<1>5. CASE memory[a] \notin Vectors
  <2>1. memory[a] = Initial
    BY <1>1, <1>5 DEF DInv, DataType
  <2>2. E = {}
    BY <1>1, <1>3, <1>5 DEF MemoryHolds
  <2> QED
    BY <2>1, <2>2 DEF ReadRight, LastStored
<1> QED
  BY <1>4, <1>5

(* What a DDR tick writes.                                                  *)
LEMMA DdrTickMemory ==
  ASSUME ConflictsOrdered, IInv, DInv, MInv, DdrTick
  PROVE  MInv'
<1>1. /\ UNCHANGED <<pc, first, active, completions, next, inbound, received>>
  BY DEF DdrTick, icuVars, engineVars, fifoVars, noteVars
<1>2. PICK finished \in SUBSET requests :
        /\ requests' = requests \ finished
        /\ answers' = answers \cup {Reply(r) : r \in finished}
        /\ memory' = [a \in Rows |->
             LET w == {r \in finished : r.op = "store" /\ Row(r.id) = a}
             IN IF w = {} THEN memory[a] ELSE (CHOOSE r \in w : TRUE).data]
  BY DEF DdrTick, Reply
<1>3. Switched /\ Waited /\ MemoryHolds /\ AnswersRight /\ LoadsSeeStores
  BY DEF MInv
<1>4. Completed' = Completed
  BY <1>1 DEF Completed
<1>5. Switched' /\ Waited'
  BY <1>1, <1>3, <1>4, OrderStands
<1>6. ASSUME NEW v \in Vectors, Landed(v) PROVE Landed(v)'
  BY <1>1, <1>2, <1>4, <1>6 DEF Landed
<1>7. ASSUME NEW r \in finished, r.op = "store" PROVE Landed(r.id)' /\ r.id \in Vectors /\ r.data = r.id
  <2>1. /\ Program[r.id[1]].op = "store" /\ r.id \in Vectors
        /\ active[Program[r.id[1]].stream] = r.id[1] /\ r.id[2] <= next[Program[r.id[1]].stream]
    BY <1>7, RequestFacts
  <2>2. \A p \in requests' : p.id # r.id
    BY <1>2 DEF DInv, Requested
  <2>3. r.data = r.id
    BY <1>7 DEF DInv, Supplied
  <2> QED
    BY <1>1, <2>1, <2>2, <2>3 DEF Landed
<1>8. ASSUME NEW v \in Vectors, Landed(v)'
      PROVE  Landed(v) \/ \E r \in finished : r.op = "store" /\ r.id = v
  <2>1. CASE v[1] \in Completed
    BY <1>8, <2>1 DEF Landed
  <2>2. CASE v[1] \notin Completed
    <3>1. /\ Program[v[1]].op = "store"
          /\ active[Program[v[1]].stream] = v[1] /\ v[2] <= next[Program[v[1]].stream]
          /\ \A r \in requests' : r.id # v
      BY <1>1, <1>4, <1>8, <2>2 DEF Landed
    <3>2. CASE \E r \in requests : r.id = v
      <4>1. PICK r \in requests : r.id = v
        BY <3>2
      <4>2. r \in finished
        BY <1>2, <3>1, <4>1
      <4>3. r.op = "store"
        BY <3>1, <4>1 DEF DInv, Requested
      <4> QED
        BY <4>1, <4>2, <4>3
    <3>3. CASE \A r \in requests : r.id # v
      BY <3>1, <3>3 DEF Landed
    <3> QED
      BY <3>2, <3>3
  <2> QED
    BY <2>1, <2>2
<1>9. ASSUME NEW a \in Rows
      PROVE  /\ \A x \in Vectors : memory'[a] = x => Landed(x)' /\ Row(x) = a
             /\ \A v \in Vectors : Landed(v)' /\ Row(v) = a =>
                  memory'[a] \in Vectors /\ v[1] <= memory'[a][1]
  <2> DEFINE w == {r \in finished : r.op = "store" /\ Row(r.id) = a}
  <2>1. memory'[a] = IF w = {} THEN memory[a] ELSE (CHOOSE r \in w : TRUE).data
    BY <1>2
  <2>2. CASE w = {}
    <3>1. memory'[a] = memory[a]
      BY <2>1, <2>2
    <3>2. ASSUME NEW x \in Vectors, memory[a] = x PROVE Landed(x)' /\ Row(x) = a
      <4>1. Landed(x) /\ Row(x) = a
        BY <1>3, <3>2 DEF MemoryHolds
      <4> QED
        BY <1>6, <4>1
    <3>3. ASSUME NEW v \in Vectors, Landed(v)', Row(v) = a
          PROVE  memory[a] \in Vectors /\ v[1] <= memory[a][1]
      <4>1. Landed(v)
        BY <1>8, <2>2, <3>3
      <4> QED
        BY <1>3, <3>3, <4>1 DEF MemoryHolds
    <3> QED
      BY <3>1, <3>2, <3>3
  <2>3. CASE w # {}
    <3>1. PICK r \in w : memory'[a] = r.data
      BY <2>1, <2>3
    <3>2. r \in finished /\ r \in requests /\ r.op = "store" /\ Row(r.id) = a
      OBVIOUS
    <3>3. memory'[a] = r.id /\ r.id \in Vectors /\ Landed(r.id)'
      BY <1>7, <3>1, <3>2
    <3>4. ASSUME NEW v \in Vectors, Landed(v)', Row(v) = a PROVE v[1] <= r.id[1]
      <4>1. Landed(v) \/ \E q \in requests : q.op = "store" /\ q.id = v
        BY <1>8, <3>4
      <4> QED
        BY <1>3, <3>2, <3>4, <4>1, NothingLater
    <3> QED
      BY <3>2, <3>3, <3>4
  <2> QED
    BY <2>2, <2>3
<1>10. MemoryHolds'
  <2> SUFFICES ASSUME NEW a \in Rows
               PROVE  /\ memory'[a] \in Vectors => Landed(memory[a])' /\ Row(memory'[a]) = a
                      /\ \A v \in Vectors : Landed(v)' /\ Row(v) = a =>
                           memory'[a] \in Vectors /\ v[1] <= memory'[a][1]
    BY DEF MemoryHolds
  <2>1. ASSUME NEW x \in Vectors, memory'[a] = x PROVE Landed(memory[a])' /\ Row(memory'[a]) = a
    <3>1. Landed(x)' /\ Row(x) = a
      BY <1>9, <2>1
    <3> QED
      BY <2>1, <3>1 DEF Landed
  <2> QED
    BY <1>9, <2>1
<1>11. AnswersRight'
  <2> SUFFICES ASSUME NEW r \in answers', r.op = "load" PROVE ReadRight(r.data, r.id)
    BY DEF AnswersRight, ReadRight
  <2>1. CASE r \in answers
    BY <1>3, <2>1 DEF AnswersRight
  <2>2. CASE r \notin answers
    <3>1. PICK p \in finished : r = Reply(p)
      BY <1>2, <2>2
    <3>2. p \in requests /\ p \in Request
      BY DEF DInv, DataType
    <3>3. p.op = "load" /\ r.id = p.id /\ r.data = memory[Row(p.id)]
      BY <3>1, <3>2, ReplyFacts DEF DInv
    <3> QED
      BY <1>3, <3>2, <3>3, ReadsLastStored
  <2> QED
    BY <2>1, <2>2
<1>12. LoadsSeeStores'
  BY <1>1, <1>3 DEF LoadsSeeStores, Taken
<1> QED
  BY <1>5, <1>10, <1>11, <1>12 DEF MInv

(* A tick of a load appends what it hands over to what RX was given.        *)
LEMMA TakenGrows ==
  ASSUME IInv, DInv, NEW s \in Streams, NEW c, NEW n, NEW m, NEW dat, Tick(s, c, n, m, dat),
         inbound' = [inbound EXCEPT ![s] = @ \o Arriving(s, c, n)], UNCHANGED received
  PROVE  /\ Taken(s)' = Taken(s) \o Arriving(s, c, n) /\ Taken(s) \in Seq(Item)
         /\ \A p \in Streams \ {s} : Taken(p)' = Taken(p)
<1>1. /\ inbound \in [Streams -> Seq(Item)] /\ inbound[s] \in Seq(Item) /\ received[s] \in Seq(Item)
  BY DEF DInv, DataType
<1>2. Arriving(s, c, n) \in Seq(Item)
  BY ArrivingFacts
<1>3. /\ inbound'[s] = inbound[s] \o Arriving(s, c, n)
      /\ \A p \in Streams \ {s} : inbound'[p] = inbound[p]
  BY <1>1
<1> DEFINE a == received[s]
           b == inbound[s]
           g == Arriving(s, c, n)
<1>4. a \in Seq(Item) /\ b \in Seq(Item) /\ g \in Seq(Item)
  BY <1>1, <1>2
<1> HIDE DEF a, b, g
<1>5. a \o (b \o g) = (a \o b) \o g /\ a \o b \in Seq(Item)
  BY <1>4, ConcatAssociative, ConcatProperties
<1>6. Taken(s)' = Taken(s) \o Arriving(s, c, n) /\ Taken(s) \in Seq(Item)
  BY <1>3, <1>5 DEF Taken, a, b, g
<1> QED
  BY <1>3, <1>6 DEF Taken

(* A vector that RX is given is what the last store before its load wrote.  *)
Seen(t) == t.data = LastStored(t.cmd, Row(<<t.cmd, t.index>>))

(* The vectors a load hands over are what the last stores wrote.            *)
LEMMA ArrivingSeen ==
  ASSUME IInv, DInv, AnswersRight, NEW s \in Streams, NEW c, NEW n, NEW m, NEW dat,
         Tick(s, c, n, m, dat), Program[c].op = "load", NEW k \in 1 .. n
  PROVE  Seen(Arriving(s, c, n)[k])
<1>1. /\ n \in 0 .. Len(pending[s]) /\ c = Starting(s) /\ c # 0
      /\ \A j \in 1 .. n : \E r \in answers : r.id = pending[s][j]
  BY DEF Tick
<1>2. /\ c \in Transfers /\ Len(pending[s]) \in Nat
      /\ \A j \in 1 .. Len(pending[s]) : pending[s][j] = <<c, done[s] + j>>
  BY <1>1, BeginTick
<1>3. k \in 1 .. Len(pending[s])
  <2> DEFINE L == Len(pending[s])
  <2>1. L \in Nat /\ n \in 0 .. L
    BY <1>1, <1>2
  <2> HIDE DEF L
  <2>2. k \in 1 .. L
    BY <2>1
  <2> QED
    BY <2>2 DEF L
<1>4. pending[s][k] = <<c, done[s] + k>>
  BY <1>2, <1>3
<1>5. Answer(pending[s][k]) \in answers /\ Answer(pending[s][k]).id = pending[s][k]
  BY <1>1 DEF Answer
<1>6. Answer(pending[s][k]).op = "load"
  BY <1>4, <1>5 DEF DInv, Requested
<1>7. Answer(pending[s][k]).data = LastStored(c, Row(<<c, done[s] + k>>))
  BY <1>4, <1>5, <1>6 DEF AnswersRight, ReadRight
<1>8. /\ Arriving(s, c, n)[k].cmd = c /\ Arriving(s, c, n)[k].index = done[s] + k
  BY ArrivingFacts
<1>9. Arriving(s, c, n)[k].data = Answer(pending[s][k]).data
  BY DEF Arriving
<1> QED
  BY <1>7, <1>8, <1>9 DEF Seen

(* A tick moves no vector between the engine and the memory.                *)
LEMMA TickMemory ==
  ASSUME IInv, DInv, MInv, NEW s \in Streams, NEW c, NEW n, NEW m, NEW dat, Tick(s, c, n, m, dat),
         memory' = memory
  PROVE  Switched' /\ Waited' /\ MemoryHolds' /\ AnswersRight'
<1>1. pc' = pc /\ first' = first /\ answers' \subseteq answers
  BY DEF Tick, icuVars
<1>2. Completed \subseteq Completed'
  BY TickStands
<1>3. Switched' /\ Waited'
  BY <1>1, <1>2, OrderStands DEF MInv
<1>4. MemoryHolds'
  BY TickLanded, MemoryStands DEF MInv
<1>5. AnswersRight'
  BY <1>1 DEF MInv, AnswersRight, ReadRight
<1> QED
  BY <1>3, <1>4, <1>5

(* What RX was given stands.                                                *)
LEMMA SeenStands ==
  ASSUME LoadsSeeStores, \A s \in Streams : Taken(s)' = Taken(s)
  PROVE  LoadsSeeStores'
  BY DEF LoadsSeeStores

(* tick_load() hands over what DDR answered.                                *)
LEMMA TickLoadMemory ==
  ASSUME IInv, DInv, MInv, NEW s \in Streams, TickLoad(s)
  PROVE  MInv'
<1> DEFINE c == Starting(s)
           n == Least(Answered(s), FifoDepth - Len(inbound[s]))
           dat == [k \in {1} |-> Initial]
<1>1. PICK m \in {0, 1} :
        /\ Tick(s, c, n, m, dat) /\ Program[c].op = "load"
        /\ inbound' = [inbound EXCEPT ![s] = @ \o
             [k \in 1 .. n |-> [cmd |-> c, index |-> pending[s][k][2],
                                data |-> Answer(pending[s][k]).data]]]
        /\ UNCHANGED <<outbound, sent, received, memory, fault>>
  BY LoadIsTick
<1> HIDE DEF c, n, dat
<1>2. inbound' = [inbound EXCEPT ![s] = @ \o Arriving(s, c, n)]
  BY <1>1 DEF Arriving
<1> DEFINE T == Taken(s)
           G == Arriving(s, c, n)
<1>3. /\ Taken(s)' = T \o G /\ T \in Seq(Item) /\ \A p \in Streams \ {s} : Taken(p)' = Taken(p)
  BY <1>1, <1>2, TakenGrows
<1>4. G \in Seq(Item) /\ Len(G) = n /\ n \in Nat
  BY <1>1, ArrivingFacts, TickPending
<1>5. \A k \in 1 .. n : Seen(G[k])
  BY <1>1, ArrivingSeen DEF MInv
<1>6. \A k \in 1 .. Len(T) : Seen(T[k])
  BY DEF MInv, LoadsSeeStores, Seen
<1> HIDE DEF T, G
<1>7. \A k \in 1 .. Len(T \o G) : Seen((T \o G)[k])
  <2>1. /\ Len(T \o G) = Len(T) + Len(G)
        /\ \A k \in 1 .. Len(T) + Len(G) : (T \o G)[k] = IF k <= Len(T) THEN T[k] ELSE G[k - Len(T)]
    BY <1>3, <1>4, ConcatProperties
  <2>2. Len(T) \in Nat
    BY <1>3
  <2> SUFFICES ASSUME NEW k \in 1 .. Len(T) + n PROVE Seen((T \o G)[k])
    BY <1>4, <2>1
  <2>3. CASE k <= Len(T)
    <3>1. k \in 1 .. Len(T) /\ (T \o G)[k] = T[k]
      BY <1>4, <2>1, <2>2, <2>3
    <3> QED
      BY <1>6, <3>1
  <2>4. CASE ~(k <= Len(T))
    <3>1. k - Len(T) \in 1 .. n /\ (T \o G)[k] = G[k - Len(T)]
      BY <1>4, <2>1, <2>2, <2>4
    <3> QED
      BY <1>5, <3>1
  <2> QED
    BY <2>3, <2>4
<1>8. LoadsSeeStores'
  <2>1. ASSUME NEW p \in Streams PROVE \A k \in 1 .. Len(Taken(p)') : Seen(Taken(p)'[k])
    <3>1. CASE p = s
      BY <1>3, <1>7, <3>1
    <3>2. CASE p # s
      <4>1. Taken(p)' = Taken(p)
        BY <1>3, <3>2
      <4> QED
        BY <4>1 DEF MInv, LoadsSeeStores, Seen
    <3> QED
      BY <3>1, <3>2
  <2> QED
    BY <2>1 DEF LoadsSeeStores, Seen
<1>9. memory' = memory
  BY <1>1
<1> QED
  BY <1>1, <1>8, <1>9, TickMemory DEF MInv

(* A step that leaves commands, requests and memory alone.                  *)
LEMMA FrameMemory ==
  ASSUME MInv, UNCHANGED <<pc, first, completions, active, next, requests, answers, memory>>,
         \A s \in Streams : Taken(s)' = Taken(s)
  PROVE  MInv'
<1>1. Completed' = Completed
  BY DEF Completed
<1>2. Switched' /\ Waited'
  BY <1>1, OrderStands DEF MInv
<1>3. MemoryHolds'
  BY LandedStands, MemoryStands DEF MInv
<1>4. AnswersRight'
  BY DEF MInv, AnswersRight, ReadRight
<1>5. LoadsSeeStores'
  BY SeenStands DEF MInv
<1> QED
  BY <1>2, <1>3, <1>4, <1>5 DEF MInv

(* tick_store() keeps the invariant.                                        *)
LEMMA TickStoreMemory ==
  ASSUME IInv, DInv, MInv, NEW s \in Streams, TickStore(s)
  PROVE  MInv'
<1>1. CASE UNCHANGED <<icuVars, engineVars, fifoVars, noteVars, ddrVars>>
  BY <1>1, FrameMemory DEF icuVars, engineVars, fifoVars, noteVars, ddrVars, Taken
<1>2. ASSUME NEW m \in 0 .. Len(outbound[s]),
             Tick(s, Starting(s), Answered(s), m, outbound[s]),
             UNCHANGED <<inbound, received, memory>>
      PROVE  MInv'
  <2>1. \A p \in Streams : Taken(p)' = Taken(p)
    BY <1>2 DEF Taken
  <2>2. LoadsSeeStores'
    BY <2>1, SeenStands DEF MInv
  <2> QED
    BY <1>2, <2>2, TickMemory DEF MInv
<1> QED
  BY <1>1, <1>2, StoreIsTick

(* The ICU queue keeps it.                                                  *)
LEMMA DispatchMemory ==
  ASSUME IInv, DInv, MInv, Issue \/ ReleaseSync \/ ReleaseWait \/ ResetProgram
  PROVE  MInv'
<1>1. UNCHANGED <<completions, active, next, requests, answers, memory, inbound, received>>
  BY DEF Issue, ReleaseSync, ReleaseWait, ResetProgram, engineVars, fifoVars, noteVars, ddrVars
<1>2. Switched' /\ Waited'
  BY PassOrder, ResetOrder DEF MInv
<1>3. MemoryHolds'
  BY <1>1, LandedStands, MemoryStands DEF MInv
<1>4. AnswersRight'
  BY <1>1 DEF MInv, AnswersRight, ReadRight
<1>5. LoadsSeeStores'
  BY <1>1, SeenStands DEF MInv, Taken
<1> QED
  BY <1>2, <1>3, <1>4, <1>5 DEF MInv

(* It holds before the first cycle.                                         *)
LEMMA MemoryInit == Init => MInv
<1> SUFFICES ASSUME Init PROVE MInv
  OBVIOUS
<1>1. pc = 0 /\ first = 0 /\ answers = {} /\ completions = <<>> /\ Completed = {}
  BY DEF Init, Completed
<1>2. Switched
  <2>1. \A c \in Transfers : ~(c <= 0)
    BY EndNumbers
  <2>2. \A e \in Ends : 0 <= e
    BY EndNumbers
  <2> QED
    BY <1>1, <2>1, <2>2 DEF Switched
<1>3. Waited
  BY <1>1 DEF Waited
<1>4. \A v \in Vectors : ~Landed(v)
  <2> SUFFICES ASSUME NEW v \in Vectors, Landed(v) PROVE FALSE
    OBVIOUS
  <2>1. v[1] # 0 /\ Program[v[1]].stream \in Streams
    BY VectorFacts, EndNumbers, ProgramFacts
  <2>2. active[Program[v[1]].stream] = 0
    BY <2>1 DEF Init
  <2> QED
    BY <1>1, <2>1, <2>2 DEF Landed
<1>5. Initial \notin Vectors
  <2>1. \A v \in Vectors : v[1] # 0
    BY VectorFacts, EndNumbers
  <2> QED
    BY <2>1 DEF Initial
<1>6. MemoryHolds
  BY <1>4, <1>5 DEF Init, MemoryHolds
<1>7. AnswersRight
  BY <1>1 DEF AnswersRight
<1>8. LoadsSeeStores
  <2>1. ASSUME NEW s \in Streams PROVE Taken(s) = <<>>
    <3>1. received[s] = <<>> /\ inbound[s] = <<>>
      BY DEF Init
    <3>2. <<>> \o <<>> = <<>>
      OBVIOUS
    <3> QED
      BY <3>1, <3>2 DEF Taken
  <2>2. 1 .. Len(<<>>) = {}
    OBVIOUS
  <2> QED
    BY <2>1, <2>2 DEF LoadsSeeStores
<1> QED
  BY <1>2, <1>3, <1>6, <1>7, <1>8 DEF MInv

(* Every step keeps it.                                                     *)
LEMMA MemoryNext ==
  ConflictsOrdered /\ IInv /\ DInv /\ MInv /\ [Next]_vars => MInv'
<1> SUFFICES ASSUME ConflictsOrdered, IInv, DInv, MInv, [Next]_vars PROVE MInv'
  OBVIOUS
<1>1. CASE Issue \/ ReleaseSync \/ ReleaseWait \/ ResetProgram
  BY <1>1, DispatchMemory
<1>2. CASE NoDispatch \/ Announce \/ UNCHANGED vars \/ \E s \in Streams : IdleTick(s)
  <2>1. UNCHANGED <<pc, first, completions, active, next, requests, answers, memory, fifoVars>>
    BY <1>2 DEF NoDispatch, Announce, IdleTick, vars, icuVars, engineVars, noteVars, ddrVars
  <2> QED
    BY <2>1, FrameMemory DEF fifoVars, Taken
<1>3. CASE Slices
  <2>1. UNCHANGED <<pc, first, completions, active, next, requests, answers, memory>>
    BY <1>3 DEF Slices, icuVars, engineVars, noteVars, ddrVars
  <2>2. \A s \in Streams : Taken(s)' = Taken(s)
    BY <1>3, SlicesTaken DEF DInv
  <2> QED
    BY <2>1, <2>2, FrameMemory
<1>4. ASSUME NEW s \in Streams, TickLoad(s) \/ TickStore(s)
      PROVE  MInv'
  BY <1>4, TickLoadMemory, TickStoreMemory
<1>5. CASE DdrTick
  BY <1>5, DdrTickMemory
<1> QED
  BY <1>1, <1>2, <1>3, <1>4, <1>5 DEF Next

(* When the program orders the transfers that conflict, DDR holds for every *)
(* row the vector of the last store that has written it, in program order,  *)
(* and every answer DDR has given a load is what the last store before the  *)
(* load wrote.                                                              *)
THEOREM MemoryInvariance == ConflictsOrdered => (Spec => [](IInv /\ DInv /\ MInv))
<1> SUFFICES ASSUME ConflictsOrdered PROVE Spec => [](IInv /\ DInv /\ MInv)
  OBVIOUS
<1>1. Init => IInv /\ DInv /\ MInv
  BY InitInv, DataInit, MemoryInit
<1>2. (IInv /\ DInv /\ MInv) /\ [Next]_vars => (IInv /\ DInv /\ MInv)'
  BY NextInv, DataNext, MemoryNext
<1> QED
  BY <1>1, <1>2, PTL DEF Spec

(* A load returns what the last store before it in the program wrote,       *)
(* though DDR completes its requests out of order: on its own stream by the *)
(* order of the queue, on another one by the notification its WAIT_EVENT    *)
(* spends, across a switch of programs by the drained engine.               *)
THEOREM LoadsReadStores == ConflictsOrdered => (Spec => []LoadsSeeStores)
<1>1. IInv /\ DInv /\ MInv => LoadsSeeStores
  BY DEF MInv
<1> QED
  BY <1>1, MemoryInvariance, PTL

(* When a store completes, each of its rows holds its vector or that of a   *)
(* later store: a completion is never announced before its last write has   *)
(* landed, and no earlier write overtakes it.                               *)
THEOREM StoresReachMemory == ConflictsOrdered => (Spec => []StoresLanded)
<1> SUFFICES ASSUME ConflictsOrdered PROVE Spec => []StoresLanded
  OBVIOUS
<1>1. IInv /\ DInv /\ MInv => StoresLanded
  <2> SUFFICES ASSUME IInv, MInv, NEW k \in 1 .. Len(completions),
                      Program[completions[k]].op = "store",
                      NEW i \in 1 .. Count(completions[k])
               PROVE  \/ memory[Row(<<completions[k], i>>)] = <<completions[k], i>>
                      \/ memory[Row(<<completions[k], i>>)][1] > completions[k]
    BY DEF StoresLanded
  <2> DEFINE c == completions[k]
             v == <<c, i>>
             a == Row(v)
             x == memory[a]
  <2>1. completions \in Seq(Transfers) /\ DOMAIN completions = 1 .. Len(completions)
    BY DEF IInv, NotesType
  <2>2. c \in Transfers /\ c \in Completed
    BY <2>1, ElementOfSeq DEF Completed
  <2>3. v \in Vectors /\ a \in Rows
    BY <2>2, VectorFacts, RowFacts
  <2>4. Landed(v)
    BY <2>2 DEF Landed
  <2>5. x \in Vectors /\ c <= x[1] /\ Landed(x) /\ Row(x) = a
    BY <2>3, <2>4 DEF MInv, MemoryHolds
  <2>6. x[1] \in Nat /\ c \in Nat
    BY <2>2, <2>5, VectorFacts, EndNumbers
  <2>7. CASE x[1] = c
    <3>1. x = v
      BY <2>3, <2>5, <2>7, OneVector
    <3> QED
      BY <3>1
  <2>8. CASE x[1] # c
    <3>1. x[1] > c
      <4> HIDE DEF x, c
      <4> QED
        BY <2>5, <2>6, <2>8
    <3> QED
      BY <3>1
  <2> QED
    BY <2>7, <2>8
<1> QED
  BY <1>1, MemoryInvariance, PTL
=============================================================================
