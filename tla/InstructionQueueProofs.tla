----------------------- MODULE InstructionQueueProofs -----------------------
(* Proofs about the native queue of IcuQueues, for every set of commands    *)
(* the encoders accept, every depth of memory and IQ, every fetch latency   *)
(* and any number of holds and notifications.                               *)
EXTENDS IcuQueues, InstructionQueuePoints
-----------------------------------------------------------------------------
(* A program: its commands C, its words M, its starts S and its issues W.   *)
Written ==
  {c \in Commands : c.k # "legacy" /\ (c.k = "nop" => c.count # 0)}
    \cup {c.loop : c \in {d \in Commands : d.k = "legacy"}}
    \cup {Nop(n) : n \in Nat \ {0}}

(* What is written is what the encoders accept, of a length the IQ can      *)
(* hold.                                                                    *)
LEMMA WrittenSound ==
  ASSUME NEW c \in Written
  PROVE  /\ Sound(c) /\ c.k # "legacy" /\ c.k \in Native
         /\ c.k = "nop" => c.count \in Nat \ {0}
         /\ Words(c) \in Nat \ {0} /\ Words(c) <= IqDepth
         /\ c.k \notin {"loop", "writeread"} => Words(c) = 1
         /\ Span(c) = Extent(c) /\ Span(c) \in Nat
<1>1. Sound(c) /\ c.k # "legacy" /\ (c.k = "nop" => c.count # 0)
  <2>1. CASE c \in Commands /\ c.k # "legacy" /\ (c.k = "nop" => c.count # 0)
    BY <2>1, InstructionQueueAssumption
  <2>2. ASSUME NEW d \in Commands, d.k = "legacy", c = d.loop
        PROVE  Sound(c) /\ c.k = "loop"
    BY <2>2, InstructionQueueAssumption
  <2>3. ASSUME NEW n \in Nat \ {0}, c = Nop(n)
        PROVE  Sound(c) /\ c.k = "nop" /\ c.count = n
    BY <2>3 DEF Sound, Nop
  <2> QED
    BY <2>1, <2>2, <2>3 DEF Written
<1>2. c.k \in Native
  BY <1>1, Kinds
<1>3. c.k = "nop" => c.count \in Nat \ {0}
  BY <1>1 DEF Sound
<1>4. IqDepth \in Nat \ {0}
  BY InstructionQueueAssumption
<1>5. c.k \in {"loop", "writeread"} => c.words \in 1 .. IqDepth
  BY <1>1 DEF Sound
<1>6. Words(c) \in Nat \ {0} /\ Words(c) <= IqDepth
  BY <1>4, <1>5 DEF Words
<1> QED
  BY <1>1, <1>2, <1>3, <1>6, Spans DEF Words

(* A word of the memory and an issue of the program.                        *)
Word == [cmd : Nat, part : Nat]
Planned == [at : Nat, value : Instr]

(* Where a program ends, and what it issues last.                           *)
EndOf(C, S) == IF C = <<>> THEN 0 ELSE S[Len(S)] + Span(C[Len(C)])
LastOf(W) == IF W = <<>> THEN None ELSE W[Len(W)].value

(* v is issued last before t.                                               *)
Prior(W, t, v) ==
  \/ v = None /\ \A i \in DOMAIN W : t <= W[i].at
  \/ \E i \in DOMAIN W : /\ W[i].at < t /\ v = W[i].value
                         /\ \A j \in DOMAIN W : i < j => t <= W[j].at

(* Command n is unrolled where it begins.                                   *)
Unrolled(c, s, W, v) ==
  /\ \A k \in 1 .. Len(Points(c, v)) : \E i \in DOMAIN W :
       W[i] = [at |-> s + Points(c, v)[k].off, value |-> Points(c, v)[k].value]
  /\ \A i \in DOMAIN W : s <= W[i].at /\ W[i].at < s + Span(c) =>
       \E k \in 1 .. Len(Points(c, v)) : W[i].at = s + Points(c, v)[k].off

(* Commands begin one after the other.                                      *)
Commanded(C, S) ==
  /\ C \in Seq(Written) /\ S \in Seq(Nat) /\ Len(S) = Len(C) /\ EndOf(C, S) \in Nat
  /\ C # <<>> => S[1] = 0
  /\ \A n \in 1 .. Len(C) : S[n] + Span(C[n]) = IF n = Len(C) THEN EndOf(C, S) ELSE S[n + 1]
  /\ \A n \in 1 .. Len(C) : S[n] + Span(C[n]) <= EndOf(C, S)

(* The words of the commands lie one after the other.                       *)
Laid(C, M) ==
  /\ M \in Seq(Word)
  /\ C # <<>> => M # <<>> /\ M[1] = [cmd |-> 1, part |-> 1]
  /\ C = <<>> => M = <<>>
  /\ \A w \in 1 .. Len(M) : M[w].cmd \in 1 .. Len(C)
  /\ \A w \in 1 .. Len(M) : M[w].part = 1 =>
       LET e == w + Words(C[M[w].cmd])
       IN  IF e = Len(M) + 1 THEN M[w].cmd = Len(C)
           ELSE e \in 1 .. Len(M) /\ M[e] = [cmd |-> M[w].cmd + 1, part |-> 1]

(* The issues are in the order of their times, and every command has its    *)
(* own.                                                                     *)
Scheduled(C, S, W) ==
  /\ W \in Seq(Planned)
  /\ \A i, j \in 1 .. Len(W) : i < j => W[i].at < W[j].at
  /\ \A i \in 1 .. Len(W) : W[i].at < EndOf(C, S)
  /\ \A n \in 1 .. Len(C), v \in Instr : Prior(W, S[n], v) => Unrolled(C[n], S[n], W, v)

(* A sequence with one more element.                                        *)
LEMMA OneMore ==
  ASSUME NEW T, NEW s \in Seq(T), NEW e \in T
  PROVE  /\ s \o <<e>> \in Seq(T) /\ Len(s \o <<e>>) = Len(s) + 1 /\ Len(s) \in Nat
         /\ \A i \in 1 .. Len(s) : (s \o <<e>>)[i] = s[i]
         /\ (s \o <<e>>)[Len(s) + 1] = e
         /\ s \o <<e>> # <<>>
         /\ s \o <<e>> = Append(s, e)
<1>1. <<e>> \in Seq(T) /\ Len(<<e>>) = 1 /\ Len(s) \in Nat
  BY LenProperties
<1>2. s \o <<e>> \in Seq(T) /\ Len(s \o <<e>>) = Len(s) + 1
      /\ \A i \in 1 .. Len(s) + 1 : (s \o <<e>>)[i] = IF i <= Len(s) THEN s[i] ELSE <<e>>[i - Len(s)]
  BY <1>1, ConcatProperties
<1>3. \A i \in 1 .. Len(s) : (s \o <<e>>)[i] = s[i]
  BY <1>1, <1>2
<1>4. (s \o <<e>>)[Len(s) + 1] = e
  <2>1. Len(s) + 1 \in 1 .. Len(s) + 1 /\ ~(Len(s) + 1 <= Len(s)) /\ Len(s) + 1 - Len(s) = 1
    BY <1>1
  <2> QED
    BY <1>2, <2>1
<1>5. s \o <<e>> # <<>>
  BY <1>1, <1>2, EmptySeq
<1>6. s \o <<e>> = Append(s, e)
  BY AppendIsConcat
<1> QED
  BY <1>1, <1>2, <1>3, <1>4, <1>5, <1>6

(* A command that is appended begins where the program ended.               *)
LEMMA MoreCommands ==
  ASSUME NEW C, NEW S, Commanded(C, S), NEW c \in Written
  PROVE  /\ Commanded(C \o <<c>>, S \o <<EndOf(C, S)>>)
         /\ EndOf(C \o <<c>>, S \o <<EndOf(C, S)>>) = EndOf(C, S) + Span(c)
<1> DEFINE E == EndOf(C, S)
           C1 == C \o <<c>>
           S1 == S \o <<E>>
<1>1. C \in Seq(Written) /\ S \in Seq(Nat) /\ Len(S) = Len(C) /\ E \in Nat /\ Len(C) \in Nat
  BY LenProperties DEF Commanded
<1>2. Span(c) \in Nat /\ \A n \in 1 .. Len(C) : S[n] \in Nat /\ C[n] \in Written /\ Span(C[n]) \in Nat
  BY <1>1, WrittenSound, ElementOfSeq
<1>3. /\ C1 \in Seq(Written) /\ Len(C1) = Len(C) + 1 /\ C1[Len(C) + 1] = c /\ C1 # <<>>
      /\ \A i \in 1 .. Len(C) : C1[i] = C[i]
  BY <1>1, OneMore
<1>4. /\ S1 \in Seq(Nat) /\ Len(S1) = Len(C) + 1 /\ S1[Len(C) + 1] = E
      /\ \A i \in 1 .. Len(C) : S1[i] = S[i]
  <2> HIDE DEF E
  <2> QED
    BY <1>1, OneMore
<1>5. /\ C # <<>> => S[1] = 0 /\ Len(C) # 0
      /\ C = <<>> => E = 0 /\ Len(C) = 0
      /\ \A n \in 1 .. Len(C) : S[n] + Span(C[n]) = IF n = Len(C) THEN E ELSE S[n + 1]
      /\ \A n \in 1 .. Len(C) : S[n] + Span(C[n]) <= E
  <2>1. C # <<>> => Len(C) # 0
    BY <1>1, EmptySeq
  <2> QED
    BY <2>1 DEF Commanded, EndOf
<1>6. EndOf(C1, S1) = E + Span(c)
  BY <1>3, <1>4 DEF EndOf
<1> HIDE DEF E, C1, S1
<1>7. C1 # <<>> => S1[1] = 0
  BY <1>1, <1>4, <1>5
<1>8. ASSUME NEW n \in 1 .. Len(C1)
      PROVE  /\ S1[n] + Span(C1[n]) = IF n = Len(C1) THEN E + Span(c) ELSE S1[n + 1]
             /\ S1[n] + Span(C1[n]) <= E + Span(c)
  <2>1. CASE n = Len(C) + 1
    BY <1>1, <1>2, <1>3, <1>4, <2>1
  <2>2. CASE n \in 1 .. Len(C)
    <3>1. S1[n] = S[n] /\ C1[n] = C[n] /\ n # Len(C1)
      BY <1>1, <1>3, <1>4, <2>2
    <3>2. S[n] + Span(C[n]) = IF n = Len(C) THEN E ELSE S[n + 1]
      BY <1>5, <2>2
    <3>3. S1[n + 1] = IF n = Len(C) THEN E ELSE S[n + 1]
      <4>1. CASE n = Len(C)
        BY <1>4, <4>1
      <4>2. CASE n # Len(C)
        <5>1. n + 1 \in 1 .. Len(C)
          BY <1>1, <2>2, <4>2
        <5> QED
          BY <1>4, <4>2, <5>1
      <4> QED
        BY <4>1, <4>2
    <3>4. S[n] + Span(C[n]) <= E /\ S[n] \in Nat /\ Span(C[n]) \in Nat
      BY <1>2, <1>5, <2>2
    <3> QED
      BY <1>1, <1>2, <3>1, <3>2, <3>3, <3>4
  <2> QED
    BY <1>1, <1>3, <2>1, <2>2
<1>9. E + Span(c) \in Nat
  BY <1>1, <1>2
<1>10. Commanded(C1, S1)
  BY <1>3, <1>4, <1>6, <1>7, <1>8, <1>9 DEF Commanded
<1> QED
  BY <1>6, <1>10 DEF E, C1, S1

(* The words of a command that is appended follow the words before them.    *)
LEMMA MoreWordsLaid ==
  ASSUME NEW C \in Seq(Written), NEW M, Laid(C, M), NEW c \in Written
  PROVE  LET B == [p \in 1 .. Words(c) |-> [cmd |-> Len(C) + 1, part |-> p]]
         IN  /\ Laid(C \o <<c>>, M \o B)
             /\ B \in Seq(Word) /\ Len(B) = Words(c) /\ Len(M \o B) = Len(M) + Words(c)
<1> DEFINE B == [p \in 1 .. Words(c) |-> [cmd |-> Len(C) + 1, part |-> p]]
           C1 == C \o <<c>>
           M1 == M \o B
           L == Len(M)
           K == Words(c)
<1>1. M \in Seq(Word) /\ L \in Nat /\ Len(C) \in Nat /\ K \in Nat \ {0}
  BY LenProperties, WrittenSound DEF Laid
<1>2. B \in Seq(Word) /\ Len(B) = K
  <2>1. B \in [1 .. K -> Word]
    BY <1>1 DEF Word
  <2> HIDE DEF B
  <2>2. B \in Seq(Word)
    BY <1>1, <2>1, SeqDef
  <2> QED
    BY <1>1, <2>1, <2>2, LenProperties
<1>3. \A p \in 1 .. K : B[p] = [cmd |-> Len(C) + 1, part |-> p]
  OBVIOUS
<1>4. /\ C1 \in Seq(Written) /\ Len(C1) = Len(C) + 1 /\ C1[Len(C) + 1] = c /\ C1 # <<>>
      /\ \A i \in 1 .. Len(C) : C1[i] = C[i]
  BY OneMore
<1> HIDE DEF B
<1>5. /\ M1 \in Seq(Word) /\ Len(M1) = L + K
      /\ \A i \in 1 .. L + K : M1[i] = IF i <= L THEN M[i] ELSE B[i - L]
  BY <1>1, <1>2, ConcatProperties
<1>6. /\ C # <<>> => L # 0 /\ M[1] = [cmd |-> 1, part |-> 1]
      /\ C = <<>> => L = 0 /\ Len(C) = 0
  BY <1>1, EmptySeq DEF Laid
<1>7. /\ \A w \in 1 .. L : M[w].cmd \in 1 .. Len(C)
      /\ \A w \in 1 .. L : M[w].part = 1 =>
           IF w + Words(C[M[w].cmd]) = L + 1 THEN M[w].cmd = Len(C)
           ELSE /\ w + Words(C[M[w].cmd]) \in 1 .. L
                /\ M[w + Words(C[M[w].cmd])] = [cmd |-> M[w].cmd + 1, part |-> 1]
  BY DEF Laid
<1> HIDE DEF C1, M1, L, K
<1>8. \A i \in 1 .. L : M1[i] = M[i]
  BY <1>1, <1>5
<1>9. \A p \in 1 .. K : M1[L + p] = [cmd |-> Len(C) + 1, part |-> p]
  <2> TAKE p \in 1 .. K
  <2>1. L + p \in 1 .. L + K /\ ~(L + p <= L) /\ (L + p) - L = p
    BY <1>1
  <2> QED
    BY <1>3, <1>5, <2>1 DEF K
<1>10. M1[1] = [cmd |-> 1, part |-> 1] /\ M1 # <<>>
  <2>1. M1 # <<>>
    BY <1>1, <1>5, EmptySeq
  <2>2. CASE C = <<>>
    <3>1. L = 0 /\ Len(C) = 0 /\ 1 \in 1 .. K
      BY <1>1, <1>6, <2>2
    <3>2. M1[L + 1] = [cmd |-> Len(C) + 1, part |-> 1]
      BY <1>9, <3>1
    <3>3. L + 1 = 1 /\ Len(C) + 1 = 1
      BY <3>1
    <3> QED
      BY <2>1, <3>2, <3>3
  <2>3. CASE C # <<>>
    <3>1. 1 \in 1 .. L
      BY <1>1, <1>6, <2>3
    <3> QED
      BY <1>6, <1>8, <2>1, <2>3, <3>1
  <2> QED
    BY <2>1, <2>2, <2>3
<1>11. ASSUME NEW w \in 1 .. L + K PROVE M1[w].cmd \in 1 .. Len(C) + 1
  <2>1. CASE w \in 1 .. L
    <3>1. M[w].cmd \in 1 .. Len(C)
      BY <1>7, <2>1
    <3> QED
      BY <1>1, <1>8, <2>1, <3>1
  <2>2. CASE w \notin 1 .. L
    <3>1. w - L \in 1 .. K /\ w = L + (w - L)
      BY <1>1, <2>2
    <3>2. M1[w] = [cmd |-> Len(C) + 1, part |-> w - L]
      BY <1>9, <3>1
    <3>3. Len(C) + 1 \in 1 .. Len(C) + 1
      BY <1>1
    <3> QED
      BY <3>2, <3>3
  <2> QED
    BY <2>1, <2>2
<1>12. ASSUME NEW w \in 1 .. L + K, M1[w].part = 1
       PROVE  IF w + Words(C1[M1[w].cmd]) = L + K + 1 THEN M1[w].cmd = Len(C) + 1
              ELSE /\ w + Words(C1[M1[w].cmd]) \in 1 .. L + K
                   /\ M1[w + Words(C1[M1[w].cmd])] = [cmd |-> M1[w].cmd + 1, part |-> 1]
  <2>1. CASE w \in 1 .. L
    <3>1. M1[w] = M[w] /\ M[w].cmd \in 1 .. Len(C) /\ C1[M[w].cmd] = C[M[w].cmd]
      BY <1>4, <1>7, <1>8, <2>1
    <3> DEFINE e == w + Words(C[M[w].cmd])
    <3>2. IF e = L + 1 THEN M[w].cmd = Len(C)
          ELSE e \in 1 .. L /\ M[e] = [cmd |-> M[w].cmd + 1, part |-> 1]
      BY <1>7, <1>12, <2>1, <3>1
    <3>3. M1[L + 1] = [cmd |-> Len(C) + 1, part |-> 1]
      BY <1>1, <1>9
    <3>4. e = w + Words(C1[M1[w].cmd])
      BY <3>1
    <3> HIDE DEF e
    <3>5. e # L + K + 1 /\ e \in 1 .. L + K
      BY <1>1, <3>2
    <3>6. M1[e] = [cmd |-> M[w].cmd + 1, part |-> 1]
      BY <1>1, <1>8, <3>2, <3>3
    <3> QED
      BY <3>1, <3>4, <3>5, <3>6
  <2>2. CASE w \notin 1 .. L
    <3>1. w - L \in 1 .. K /\ w = L + (w - L)
      BY <1>1, <2>2
    <3>2. M1[w] = [cmd |-> Len(C) + 1, part |-> w - L]
      BY <1>9, <3>1
    <3>3. w = L + 1 /\ C1[M1[w].cmd] = c
      BY <1>1, <1>4, <1>12, <3>1, <3>2
    <3>4. w + Words(C1[M1[w].cmd]) = L + K + 1
      BY <1>1, <3>3 DEF K
    <3> QED
      BY <3>2, <3>4
  <2> QED
    BY <2>1, <2>2
<1>13. Laid(C1, M1)
  BY <1>4, <1>5, <1>10, <1>11, <1>12 DEF Laid
<1> QED
  BY <1>2, <1>5, <1>13 DEF B, C1, M1, L, K

(* The instruction a program issues last is one, or None.                   *)
LEMMA LastType ==
  ASSUME NEW W \in Seq(Planned)
  PROVE  LastOf(W) \in Instr /\ None \in Instr
<1>1. None \in Instr
  BY DEF None, Instr
<1>2. CASE W # <<>>
  <2>1. Len(W) \in 1 .. Len(W)
    BY <1>2, EmptySeq
  <2>2. W[Len(W)] \in Planned
    BY <2>1, ElementOfSeq
  <2> QED
    BY <1>1, <1>2, <2>2 DEF LastOf, Planned
<1> QED
  BY <1>1, <1>2 DEF LastOf

(* At the end of a program, the instruction issued last is that of its last *)
(* issue.                                                                   *)
LEMMA PriorLast ==
  ASSUME NEW W \in Seq(Planned), NEW t \in Int, \A i \in 1 .. Len(W) : W[i].at < t, NEW v, Prior(W, t, v)
  PROVE  v = LastOf(W)
<1>1. Len(W) \in Nat /\ DOMAIN W = 1 .. Len(W) /\ \A i \in 1 .. Len(W) : W[i].at \in Nat
  <2>1. \A i \in 1 .. Len(W) : W[i] \in Planned
    BY ElementOfSeq
  <2>2. \A i \in 1 .. Len(W) : W[i].at \in Nat
    BY <2>1 DEF Planned
  <2> QED
    BY <2>2, LenProperties
<1>2. CASE v = None /\ \A i \in DOMAIN W : t <= W[i].at
  <2>1. 1 .. Len(W) = {}
    BY <1>1, <1>2
  <2>2. W = <<>>
    BY <1>1, <2>1, EmptySeq
  <2> QED
    BY <1>2, <2>2 DEF LastOf
<1>3. ASSUME NEW i \in DOMAIN W, W[i].at < t, v = W[i].value, \A j \in DOMAIN W : i < j => t <= W[j].at
      PROVE  v = LastOf(W)
  <2>1. Len(W) \in 1 .. Len(W) /\ W # <<>>
    BY <1>1, <1>3, EmptySeq
  <2>2. i = Len(W)
    BY <1>1, <1>3, <2>1
  <2> QED
    BY <1>3, <2>1, <2>2 DEF LastOf
<1> QED
  BY <1>2, <1>3 DEF Prior

(* The program with one more command is the old schedule with the issues of *)
(* the command behind it, and every command keeps its place in it.          *)
LEMMA MoreIssues ==
  ASSUME NEW C, NEW S, NEW W, Commanded(C, S), Scheduled(C, S, W), NEW c \in Written
  PROVE  LET P == Points(c, LastOf(W))
             moved == [p \in DOMAIN P |-> [at |-> EndOf(C, S) + P[p].off, value |-> P[p].value]]
         IN  Scheduled(C \o <<c>>, S \o <<EndOf(C, S)>>, W \o moved)
<1> DEFINE E == EndOf(C, S)
           P == Points(c, LastOf(W))
           moved == [p \in DOMAIN P |-> [at |-> E + P[p].off, value |-> P[p].value]]
           C1 == C \o <<c>>
           S1 == S \o <<E>>
           W1 == W \o moved
           L == Len(W)
           K == Len(P)
<1>1. /\ C \in Seq(Written) /\ S \in Seq(Nat) /\ Len(S) = Len(C) /\ E \in Nat /\ Len(C) \in Nat
      /\ W \in Seq(Planned) /\ L \in Nat /\ DOMAIN W = 1 .. L
      /\ LastOf(W) \in Instr
  BY LenProperties, LastType DEF Commanded, Scheduled
<1>2. /\ \A i \in 1 .. L : W[i] \in Planned /\ W[i].at \in Nat /\ W[i].at < E
      /\ \A i, j \in 1 .. L : i < j => W[i].at < W[j].at
  <2>1. \A i \in 1 .. L : W[i] \in Planned
    BY <1>1, ElementOfSeq
  <2>2. \A i \in 1 .. L : W[i].at \in Nat
    BY <2>1 DEF Planned
  <2>3. /\ \A i \in 1 .. L : W[i].at < E
        /\ \A i, j \in 1 .. L : i < j => W[i].at < W[j].at
    BY DEF Scheduled
  <2> QED
    BY <2>1, <2>2, <2>3
<1>3. Sound(c) /\ c.k # "legacy" /\ Span(c) \in Nat
  BY WrittenSound
<1>4. /\ P \in Seq(Point) /\ K \in Nat /\ DOMAIN P = 1 .. K
      /\ \A k \in 1 .. K : P[k].off \in Nat /\ P[k].value \in Instr /\ P[k].off < Span(c)
      /\ \A k, l \in 1 .. K : k < l => P[k].off < P[l].off
  <2>1. /\ P \in Seq(Point)
        /\ \A k \in 1 .. K : P[k].off < Span(c)
        /\ \A k, l \in 1 .. K : k < l => P[k].off < P[l].off
    BY <1>1, <1>3, PointSeq
  <2> HIDE DEF P
  <2>2. \A k \in 1 .. K : P[k] \in Point
    BY <2>1, ElementOfSeq
  <2>3. K \in Nat /\ DOMAIN P = 1 .. K
    BY <2>1, LenProperties
  <2>4. \A k \in 1 .. K : P[k].off \in Nat /\ P[k].value \in Instr
    BY <2>2 DEF Point
  <2> QED
    BY <2>1, <2>3, <2>4
<1> HIDE DEF E, P
<1>5. moved \in Seq(Planned) /\ Len(moved) = K
  <2>1. moved \in [1 .. K -> Planned]
    BY <1>1, <1>4 DEF Planned
  <2> HIDE DEF moved
  <2>2. moved \in Seq(Planned)
    BY <1>4, <2>1, SeqDef
  <2> QED
    BY <1>4, <2>1, <2>2, LenProperties
<1>6. \A k \in 1 .. K : moved[k] = [at |-> E + P[k].off, value |-> P[k].value]
  BY <1>4
<1> HIDE DEF moved, L, K
<1>7. /\ W1 \in Seq(Planned) /\ Len(W1) = L + K
      /\ \A i \in 1 .. L + K : W1[i] = IF i <= L THEN W[i] ELSE moved[i - L]
  BY <1>1, <1>5, ConcatProperties DEF L
<1>8. /\ C1 \in Seq(Written) /\ Len(C1) = Len(C) + 1 /\ C1[Len(C) + 1] = c
      /\ \A i \in 1 .. Len(C) : C1[i] = C[i]
  BY <1>1, OneMore
<1>9. /\ S1 \in Seq(Nat) /\ Len(S1) = Len(C) + 1 /\ S1[Len(C) + 1] = E
      /\ \A i \in 1 .. Len(C) : S1[i] = S[i]
  <2>1. /\ S1 \in Seq(Nat) /\ Len(S1) = Len(S) + 1 /\ S1[Len(S) + 1] = E
        /\ \A i \in 1 .. Len(S) : S1[i] = S[i]
    <3>1. S \in Seq(Nat) /\ E \in Nat
      BY <1>1
    <3> QED
      BY <3>1, OneMore
  <2> HIDE DEF S1
  <2> QED
    BY <1>1, <2>1
<1>10. EndOf(C1, S1) = E + Span(c)
  BY MoreCommands DEF E
<1> HIDE DEF C1, S1, W1
<1>11. DOMAIN W1 = 1 .. L + K
  BY <1>7, LenProperties
<1>12. \A i \in 1 .. L : W1[i] = W[i] /\ i \in 1 .. L + K
  BY <1>1, <1>4, <1>7
<1>13. \A k \in 1 .. K : W1[L + k] = [at |-> E + P[k].off, value |-> P[k].value] /\ L + k \in 1 .. L + K
  <2> TAKE k \in 1 .. K
  <2>1. L + k \in 1 .. L + K /\ ~(L + k <= L) /\ (L + k) - L = k
    BY <1>1, <1>4
  <2> QED
    BY <1>6, <1>7, <2>1
<1>21. \A i \in 1 .. L + K, k \in 1 .. K : i = L + k => W1[i].at = E + P[k].off
  <2> TAKE i \in 1 .. L + K, k \in 1 .. K
  <2> HAVE i = L + k
  <2>1. W1[L + k] = [at |-> E + P[k].off, value |-> P[k].value]
    BY <1>13
  <2>2. W1[L + k].at = E + P[k].off
    BY <2>1
  <2> QED
    BY <2>2
<1>14. \A i \in 1 .. L + K : i \notin 1 .. L => \E k \in 1 .. K : i = L + k
  <2> TAKE i \in 1 .. L + K
  <2> HAVE i \notin 1 .. L
  <2>1. i - L \in 1 .. K /\ i = L + (i - L)
    BY <1>1, <1>4
  <2> QED
    BY <2>1
<1>15. \A i \in 1 .. L + K : W1[i].at \in Nat /\ W1[i].at < E + Span(c) /\ (i \notin 1 .. L => E <= W1[i].at)
  <2> TAKE i \in 1 .. L + K
  <2>1. CASE i \in 1 .. L
    <3>1. W[i].at \in Nat /\ W[i].at < E /\ W1[i] = W[i]
      BY <1>2, <1>12, <2>1
    <3> QED
      BY <1>1, <1>3, <2>1, <3>1
  <2>2. CASE i \notin 1 .. L
    <3>1. PICK k \in 1 .. K : i = L + k
      BY <1>14, <2>2
    <3>2. W1[i].at = E + P[k].off
      BY <1>21, <3>1
    <3>3. P[k].off \in Nat /\ P[k].off < Span(c)
      BY <1>4, <3>1
    <3> QED
      BY <1>1, <1>3, <3>2, <3>3
  <2> QED
    BY <2>1, <2>2
<1>16. ASSUME NEW i \in 1 .. L + K, NEW j \in 1 .. L + K, i < j PROVE W1[i].at < W1[j].at
  <2>1. CASE i \in 1 .. L /\ j \in 1 .. L
    BY <1>2, <1>12, <1>16, <2>1
  <2>2. CASE i \in 1 .. L /\ j \notin 1 .. L
    <3>1. W1[i].at < E /\ E <= W1[j].at /\ W1[i].at \in Nat /\ W1[j].at \in Nat
      BY <1>2, <1>12, <1>15, <2>2
    <3> QED
      BY <1>1, <3>1
  <2>3. CASE i \notin 1 .. L
    <3>1. PICK k \in 1 .. K : i = L + k
      BY <1>14, <2>3
    <3>2. j \notin 1 .. L
      BY <1>1, <1>16, <2>3
    <3>3. PICK l \in 1 .. K : j = L + l
      BY <1>14, <3>2
    <3>4. k < l
      BY <1>1, <1>4, <1>16, <3>1, <3>3
    <3>5. P[k].off < P[l].off /\ P[k].off \in Nat /\ P[l].off \in Nat
      BY <1>4, <3>4
    <3>6. W1[i].at = E + P[k].off /\ W1[j].at = E + P[l].off
      BY <1>21, <3>1, <3>3
    <3> QED
      BY <1>1, <3>5, <3>6
  <2> QED
    BY <2>1, <2>2, <2>3
<1>17. ASSUME NEW n \in 1 .. Len(C), NEW v \in Instr, Prior(W1, S1[n], v)
       PROVE  Unrolled(C1[n], S1[n], W1, v)
  <2> DEFINE s == S[n]
             Q == Points(C[n], v)
  <2>1. s \in Nat /\ s + Span(C[n]) <= E /\ Span(C[n]) \in Nat /\ S1[n] = s /\ C1[n] = C[n] /\ s <= E
    <3>1. s \in Nat /\ C[n] \in Written
      BY <1>1, ElementOfSeq
    <3>2. Span(C[n]) \in Nat
      BY <3>1, WrittenSound
    <3>3. s + Span(C[n]) <= E
      BY DEF Commanded, E
    <3> HIDE DEF s
    <3> QED
      BY <1>1, <1>8, <1>9, <3>1, <3>2, <3>3 DEF s
  <2>2. Prior(W, s, v)
    <3>1. CASE v = None /\ \A i \in DOMAIN W1 : s <= W1[i].at
      <4>1. \A i \in DOMAIN W : s <= W[i].at
        BY <1>1, <1>11, <1>12, <3>1
      <4> QED
        BY <3>1, <4>1 DEF Prior
    <3>2. ASSUME NEW i \in DOMAIN W1, W1[i].at < s, v = W1[i].value,
                 \A j \in DOMAIN W1 : i < j => s <= W1[j].at
          PROVE  Prior(W, s, v)
      <4>1. i \in 1 .. L
        BY <1>1, <1>11, <1>15, <2>1, <3>2
      <4>2. W1[i] = W[i]
        BY <1>12, <4>1
      <4>3. \A j \in DOMAIN W : i < j => s <= W[j].at
        BY <1>1, <1>11, <1>12, <3>2
      <4> QED
        BY <1>1, <3>2, <4>1, <4>2, <4>3 DEF Prior
    <3> QED
      BY <1>17, <2>1, <3>1, <3>2 DEF Prior
  <2>3. Unrolled(C[n], s, W, v)
    BY <2>2 DEF Scheduled
  <2>4. \A k \in 1 .. Len(Q) : \E i \in DOMAIN W1 : W1[i] = [at |-> s + Q[k].off, value |-> Q[k].value]
    <3> TAKE k \in 1 .. Len(Q)
    <3>1. PICK i \in DOMAIN W : W[i] = [at |-> s + Q[k].off, value |-> Q[k].value]
      BY <2>3 DEF Unrolled
    <3> QED
      BY <1>1, <1>11, <1>12, <3>1
  <2>5. ASSUME NEW i \in DOMAIN W1, s <= W1[i].at, W1[i].at < s + Span(C[n])
        PROVE  \E k \in 1 .. Len(Q) : W1[i].at = s + Q[k].off
    <3>1. i \in 1 .. L
      <4>1. W1[i].at \in Nat
        BY <1>11, <1>15
      <4> QED
        BY <1>1, <1>11, <1>15, <2>1, <2>5, <4>1
    <3>2. W1[i] = W[i]
      BY <1>12, <3>1
    <3> QED
      BY <1>1, <2>3, <2>5, <3>1, <3>2 DEF Unrolled
  <2> QED
    BY <2>1, <2>4, <2>5 DEF Unrolled
<1>18. ASSUME NEW v \in Instr, Prior(W1, E, v)
       PROVE  Unrolled(c, E, W1, v)
  <2>1. Prior(W, E, v)
    <3>1. CASE v = None /\ \A i \in DOMAIN W1 : E <= W1[i].at
      <4>1. \A i \in DOMAIN W : E <= W[i].at
        BY <1>1, <1>11, <1>12, <3>1
      <4> QED
        BY <3>1, <4>1 DEF Prior
    <3>2. ASSUME NEW i \in DOMAIN W1, W1[i].at < E, v = W1[i].value,
                 \A j \in DOMAIN W1 : i < j => E <= W1[j].at
          PROVE  Prior(W, E, v)
      <4>1. i \in 1 .. L
        BY <1>1, <1>11, <1>15, <3>2
      <4>2. W1[i] = W[i]
        BY <1>12, <4>1
      <4>3. \A j \in DOMAIN W : i < j => E <= W[j].at
        BY <1>1, <1>11, <1>12, <3>2
      <4> QED
        BY <1>1, <3>2, <4>1, <4>2, <4>3 DEF Prior
    <3> QED
      BY <1>18, <3>1, <3>2 DEF Prior
  <2>2. v = LastOf(W)
    <3>1. E \in Int
      BY <1>1
    <3> QED
      BY <1>1, <1>2, <2>1, <3>1, PriorLast DEF L
  <2>3. Points(c, v) = P
    BY <2>2 DEF P
  <2>4. \A k \in 1 .. K : \E i \in DOMAIN W1 : W1[i] = [at |-> E + P[k].off, value |-> P[k].value]
    BY <1>11, <1>13
  <2>5. ASSUME NEW i \in DOMAIN W1, E <= W1[i].at
        PROVE  \E k \in 1 .. K : W1[i].at = E + P[k].off
    <3>1. i \notin 1 .. L
      <4>1. i \in 1 .. L => W1[i].at < E /\ W1[i].at \in Nat
        BY <1>2, <1>12
      <4> QED
        BY <1>1, <2>5, <4>1
    <3>2. PICK k \in 1 .. K : i = L + k
      BY <1>11, <1>14, <3>1
    <3>3. W1[i].at = E + P[k].off
      BY <1>11, <1>21, <3>2
    <3> QED
      BY <3>3
  <2> QED
    BY <2>3, <2>4, <2>5 DEF Unrolled, K
<1>19. ASSUME NEW n \in 1 .. Len(C1), NEW v \in Instr, Prior(W1, S1[n], v)
       PROVE  Unrolled(C1[n], S1[n], W1, v)
  <2>1. CASE n \in 1 .. Len(C)
    BY <1>17, <1>19, <2>1
  <2>2. CASE n = Len(C) + 1
    BY <1>8, <1>9, <1>18, <1>19, <2>2
  <2> QED
    BY <1>1, <1>8, <2>1, <2>2
<1>20. Scheduled(C1, S1, W1)
  <2>1. \A i \in 1 .. Len(W1) : W1[i].at < EndOf(C1, S1)
    BY <1>7, <1>10, <1>15
  <2>2. \A i, j \in 1 .. Len(W1) : i < j => W1[i].at < W1[j].at
    BY <1>7, <1>16
  <2> QED
    BY <1>7, <1>19, <2>1, <2>2 DEF Scheduled
<1> QED
  BY <1>20 DEF C1, S1, W1, E, P, moved

-----------------------------------------------------------------------------
(* The invariant of a program: commands, words and schedule agree.          *)
ProgramInv ==
  /\ Commanded(code, starts)
  /\ Laid(code, imem)
  /\ Scheduled(code, starts, want)

(* The operators of the module are those of this one.                       *)
LEMMA SameEnd ==
  ProgramEnd = EndOf(code, starts) /\ LastWanted = LastOf(want)
BY DEF ProgramEnd, EndOf, LastWanted, LastOf

(* Two elements in a row.                                                   *)
LEMMA Pair ==
  ASSUME NEW T, NEW a \in T, NEW b \in T
  PROVE  <<a>> \in Seq(T) /\ <<b>> \in Seq(T) /\ <<a>> \o <<b>> = <<a, b>>
<1>1. <<a>> \in Seq(T) /\ <<b>> \in Seq(T) /\ Len(<<a>>) = 1 /\ Len(<<b>>) = 1 /\ <<a, b>> \in Seq(T) /\ Len(<<a, b>>) = 2
  OBVIOUS
<1>2. /\ <<a>> \o <<b>> \in Seq(T) /\ Len(<<a>> \o <<b>>) = 2
      /\ \A i \in 1 .. 2 : (<<a>> \o <<b>>)[i] = IF i <= 1 THEN <<a>>[i] ELSE <<b>>[i - 1]
  BY <1>1, ConcatProperties
<1>3. \A i \in 1 .. 2 : (<<a>> \o <<b>>)[i] = <<a, b>>[i]
  BY <1>2
<1> QED
  BY <1>1, <1>2, <1>3, SeqEqual

(* Writing a command keeps the program well-formed and ends it one span     *)
(* later.                                                                   *)
LEMMA WriteOne ==
  ASSUME ProgramInv, NEW c \in Written, Write(c, 0)
  PROVE  /\ ProgramInv'
         /\ EndOf(code', starts') = EndOf(code, starts) + Span(c)
         /\ starts'[Len(starts')] = EndOf(code, starts)
<1> DEFINE E == EndOf(code, starts)
           P == Points(c, LastOf(want))
           B == [p \in 1 .. Words(c) |-> [cmd |-> Len(code) + 1, part |-> p]]
           moved == [p \in DOMAIN P |-> [at |-> E + P[p].off, value |-> P[p].value]]
<1>1. /\ code \in Seq(Written) /\ Commanded(code, starts) /\ Laid(code, imem) /\ Scheduled(code, starts, want)
      /\ imem \in Seq(Word) /\ starts \in Seq(Nat) /\ E \in Nat
  BY DEF ProgramInv, Commanded, Laid
<1>2. code' = code \o <<c>>
  BY DEF Write
<1>3. starts' = starts \o <<E>>
  <2>1. starts' = starts \o <<ProgramEnd + 0>>
    BY DEF Write
  <2>2. ProgramEnd + 0 = E
    BY <1>1, SameEnd
  <2> QED
    BY <2>1, <2>2
<1>4. imem' = imem \o B
  <2>1. imem' = (imem \o <<>>) \o [p \in 1 .. Words(c) |-> [cmd |-> Len(code) + Len(<<c>>), part |-> p]]
    BY DEF Write
  <2>2. Len(<<c>>) = 1 /\ imem \o <<>> = imem
    BY <1>1, ConcatEmptySeq
  <2> QED
    BY <2>1, <2>2
<1>5. want' = want \o moved
  <2>1. want' = want \o [p \in DOMAIN Points(c, LastWanted) |->
                  [at |-> ProgramEnd + 0 + Points(c, LastWanted)[p].off, value |-> Points(c, LastWanted)[p].value]]
    BY DEF Write
  <2>2. ProgramEnd + 0 = E /\ LastWanted = LastOf(want)
    BY <1>1, SameEnd
  <2> QED
    BY <2>1, <2>2
<1>6. Commanded(code', starts') /\ EndOf(code', starts') = E + Span(c)
  BY <1>1, <1>2, <1>3, MoreCommands
<1>7. Laid(code', imem')
  BY <1>1, <1>2, <1>4, MoreWordsLaid
<1>8. Scheduled(code', starts', want')
  BY <1>1, <1>2, <1>3, <1>5, MoreIssues
<1>9. starts'[Len(starts')] = E
  <2>1. Len(starts \o <<E>>) = Len(starts) + 1 /\ (starts \o <<E>>)[Len(starts) + 1] = E
    <3> HIDE DEF E
    <3> QED
      BY <1>1, OneMore
  <2> QED
    BY <1>3, <2>1
<1> QED
  BY <1>6, <1>7, <1>8, <1>9 DEF ProgramInv

(* A NOP and a loop behind it are written like one after the other.         *)
LEMMA WriteTwo ==
  ASSUME ProgramInv, NEW c \in Written, NEW lead \in Nat \ {0}, Write(c, lead)
  PROVE  /\ ProgramInv'
         /\ EndOf(code', starts') = EndOf(code, starts) + lead + Span(c)
         /\ starts'[Len(starts')] = EndOf(code, starts) + lead
<1> DEFINE E == EndOf(code, starts)
           N == Nop(lead)
           C1 == code \o <<N>>
           S1 == starts \o <<E>>
           M1 == imem \o <<[cmd |-> Len(code) + 1, part |-> 1]>>
           P == Points(c, LastOf(want))
           B == [p \in 1 .. Words(c) |-> [cmd |-> Len(C1) + 1, part |-> p]]
           moved == [p \in DOMAIN P |-> [at |-> E + lead + P[p].off, value |-> P[p].value]]
<1>1. /\ code \in Seq(Written) /\ Commanded(code, starts) /\ Laid(code, imem) /\ Scheduled(code, starts, want)
      /\ imem \in Seq(Word) /\ starts \in Seq(Nat) /\ E \in Nat /\ want \in Seq(Planned) /\ Len(code) \in Nat
  BY LenProperties DEF ProgramInv, Commanded, Laid, Scheduled
<1>2. N \in Written /\ Words(N) = 1 /\ Span(N) = lead /\ Points(N, LastOf(want)) = <<>>
  BY DEF Written, Nop, Words, Span, Points
<1>3. /\ C1 \in Seq(Written) /\ Len(C1) = Len(code) + 1
      /\ code \o <<N, c>> = C1 \o <<c>>
  <2>1. C1 \in Seq(Written) /\ Len(C1) = Len(code) + 1
    BY <1>1, <1>2, OneMore
  <2>2. <<N>> \in Seq(Written) /\ <<c>> \in Seq(Written) /\ <<N>> \o <<c>> = <<N, c>>
    BY <1>2, Pair
  <2>3. (code \o <<N>>) \o <<c>> = code \o (<<N>> \o <<c>>)
    BY <1>1, <2>2, ConcatAssociative
  <2> QED
    BY <2>1, <2>2, <2>3
<1>4. code' = C1 \o <<c>>
  BY <1>3 DEF Write
<1>5. Commanded(C1, S1) /\ EndOf(C1, S1) = E + lead
  BY <1>1, <1>2, MoreCommands
<1>6. Laid(C1, M1)
  <2> DEFINE X == [p \in 1 .. Words(N) |-> [cmd |-> Len(code) + 1, part |-> p]]
  <2>1. Laid(C1, imem \o X) /\ X \in Seq(Word) /\ Len(X) = 1
    BY <1>1, <1>2, MoreWordsLaid
  <2>2. X[1] = [cmd |-> Len(code) + 1, part |-> 1]
    BY <1>2
  <2>3. <<[cmd |-> Len(code) + 1, part |-> 1]>> \in Seq(Word) /\ Len(<<[cmd |-> Len(code) + 1, part |-> 1]>>) = 1
    BY <1>1 DEF Word
  <2> HIDE DEF X
  <2>4. X = <<[cmd |-> Len(code) + 1, part |-> 1]>>
    BY <2>1, <2>2, <2>3, SeqEqual
  <2> QED
    BY <2>1, <2>4
<1>7. Scheduled(C1, S1, want)
  <2> DEFINE Q == Points(N, LastOf(want))
             X == [p \in DOMAIN Q |-> [at |-> E + Q[p].off, value |-> Q[p].value]]
  <2>1. Scheduled(C1, S1, want \o X)
    BY <1>1, <1>2, MoreIssues
  <2>2. X = <<>>
    BY <1>2
  <2>3. want \o X = want
    BY <1>1, <2>2, ConcatEmptySeq
  <2> QED
    BY <2>1, <2>3
<1>8. starts' = S1 \o <<E + lead>>
  <2>1. starts' = starts \o <<E, E + lead>>
    BY SameEnd DEF Write
  <2>2. <<E>> \in Seq(Nat) /\ <<E + lead>> \in Seq(Nat) /\ <<E>> \o <<E + lead>> = <<E, E + lead>>
    <3> HIDE DEF E
    <3>1. E + lead \in Nat
      BY <1>1
    <3> QED
      BY <1>1, <3>1, Pair
  <2>3. (starts \o <<E>>) \o <<E + lead>> = starts \o (<<E>> \o <<E + lead>>)
    <3> HIDE DEF E
    <3> QED
      BY <1>1, <2>2, ConcatAssociative
  <2> QED
    BY <2>1, <2>2, <2>3
<1>9. imem' = M1 \o B
  <2>1. imem' = M1 \o [p \in 1 .. Words(c) |-> [cmd |-> Len(code) + Len(<<N, c>>), part |-> p]]
    BY DEF Write
  <2>2. Len(code) + Len(<<N, c>>) = Len(C1) + 1
    <3>1. Len(<<N, c>>) = 2
      OBVIOUS
    <3> HIDE DEF N, C1
    <3> QED
      BY <1>1, <1>3, <3>1
  <2> QED
    BY <2>1, <2>2
<1>10. want' = want \o moved
  <2>1. want' = want \o [p \in DOMAIN Points(c, LastWanted) |->
                  [at |-> ProgramEnd + lead + Points(c, LastWanted)[p].off, value |-> Points(c, LastWanted)[p].value]]
    BY DEF Write
  <2> QED
    BY <2>1, SameEnd
<1>11. Commanded(code', starts') /\ EndOf(code', starts') = E + lead + Span(c)
  <2> HIDE DEF C1, S1, E
  <2> QED
    BY <1>4, <1>5, <1>8, MoreCommands
<1>12. Laid(code', imem')
  <2> HIDE DEF C1, M1
  <2> QED
    BY <1>3, <1>4, <1>6, <1>9, MoreWordsLaid
<1>13. Scheduled(code', starts', want')
  <2> HIDE DEF C1, S1, E
  <2> QED
    BY <1>4, <1>5, <1>7, <1>8, <1>10, MoreIssues
<1>14. starts'[Len(starts')] = E + lead
  <2>1. S1 \in Seq(Nat) /\ E + lead \in Nat
    BY <1>1, <1>5 DEF Commanded
  <2> HIDE DEF S1, E
  <2>2. Len(S1 \o <<E + lead>>) = Len(S1) + 1 /\ (S1 \o <<E + lead>>)[Len(S1) + 1] = E + lead
    BY <2>1, OneMore
  <2> QED
    BY <1>8, <2>2
<1> QED
  BY <1>11, <1>12, <1>13, <1>14 DEF ProgramInv

(* The invariant of lowered starts: what the cursor is ahead of the         *)
(* program, or behind it, is the distance of all starts of the epoch.       *)
LoweredStart == [start : Nat, at : Nat, epoch : Nat]

LegacyInv ==
  /\ epoch \in Nat /\ cursor \in [known : BOOLEAN, at : Nat]
  /\ legacy \in Seq(LoweredStart)
  /\ \A i \in DOMAIN legacy : legacy[i].epoch <= epoch
  /\ epoch = 0 => cursor.known /\ cursor.at = EndOf(code, starts)
  /\ cursor.known => \A i \in DOMAIN legacy : legacy[i].epoch = epoch =>
       legacy[i].at - legacy[i].start = EndOf(code, starts) - cursor.at
  /\ ~cursor.known => \A i \in DOMAIN legacy : legacy[i].epoch # epoch
  /\ LegacyStartsKept

(* The compatibility cursor moves by the span of a command, and is lost     *)
(* with an event.                                                           *)
LEMMA CursorStep ==
  ASSUME NEW c \in Written, cursor \in [known : BOOLEAN, at : Nat]
  PROVE  /\ ~cursor.known => CursorAfter(c) = cursor
         /\ cursor.known /\ c.k \in {"sync", "wait"} => CursorAfter(c) = [known |-> FALSE, at |-> cursor.at]
         /\ cursor.known /\ c.k \notin {"sync", "wait"} =>
              CursorAfter(c) = [known |-> TRUE, at |-> cursor.at + Span(c)]
<1>1. c.k \in Native /\ Span(c) = Extent(c) /\ Span(c) \in Nat
  BY WrittenSound
<1>2. cursor = [known |-> cursor.known, at |-> cursor.at] /\ cursor.at \in Nat /\ cursor.known \in BOOLEAN
  OBVIOUS
<1>3. \A m : [cursor EXCEPT !.at = m] = [known |-> cursor.known, at |-> m]
  BY <1>2
<1>4. ~cursor.known => CursorAfter(c) = cursor
  BY DEF CursorAfter
<1>5. ASSUME cursor.known, c.k \in {"sync", "wait"}
      PROVE  CursorAfter(c) = [known |-> FALSE, at |-> cursor.at]
  BY <1>2, <1>5 DEF CursorAfter
<1>6. ASSUME cursor.known, c.k \notin {"sync", "wait"}
      PROVE  CursorAfter(c) = [cursor EXCEPT !.at = cursor.at + Span(c)]
  <2>1. CASE c.k = "insn"
    BY <1>1, <1>6, <2>1 DEF CursorAfter, Extent
  <2>2. CASE c.k = "loop"
    BY <1>1, <1>6, <2>2 DEF CursorAfter, Extent
  <2>3. CASE c.k = "writeread"
    <3> DEFINE m == last_issue_cycle(c)
    <3>1. CursorAfter(c) = [cursor EXCEPT !.at = cursor.at + m + 1]
      BY <1>6, <2>3 DEF CursorAfter
    <3>2. m \in Nat
      BY <2>3, SweepSpread, WrittenSound DEF Spread
    <3>3. Span(c) = m + 1
      BY <1>1, <2>3 DEF Extent
    <3> HIDE DEF m
    <3>4. cursor.at + m + 1 = cursor.at + Span(c)
      BY <1>2, <3>2, <3>3
    <3> QED
      BY <3>1, <3>4
  <2>4. CASE c.k \in {"nop", "repeat", "repeat2d", "notify"}
    <3>1. CursorAfter(c) = [cursor EXCEPT !.at = cursor.at + control_cycles(c)]
      BY <1>6, <2>4 DEF CursorAfter
    <3>2. control_cycles(c) = Span(c)
      BY <1>1, <2>4 DEF control_cycles, Extent
    <3> QED
      BY <3>1, <3>2
  <2> QED
    BY <1>1, <1>6, <2>1, <2>2, <2>3, <2>4 DEF Native
<1> QED
  BY <1>2, <1>3, <1>4, <1>5, <1>6

(* Appending a command keeps the distances of the lowered starts.           *)
LEMMA LegacyCommand ==
  ASSUME ProgramInv, LegacyInv, NEW c \in Written, Write(c, 0), cursor' = CursorAfter(c), UNCHANGED legacy
  PROVE  LegacyInv'
<1> DEFINE E == EndOf(code, starts)
<1>1. /\ epoch \in Nat /\ cursor \in [known : BOOLEAN, at : Nat] /\ cursor.at \in Nat /\ cursor.known \in BOOLEAN
      /\ legacy \in Seq(LoweredStart) /\ legacy' = legacy
      /\ Span(c) \in Nat /\ E \in Nat
      /\ epoch' = IF c.k \in {"sync", "wait"} THEN epoch + 1 ELSE epoch
  BY WrittenSound DEF LegacyInv, Write, ProgramInv, Commanded
<1>2. EndOf(code', starts') = E + Span(c)
  BY WriteOne
<1>3. \A i \in DOMAIN legacy : legacy[i].epoch \in Nat /\ legacy[i].at \in Nat /\ legacy[i].start \in Nat
  <2>1. \A i \in DOMAIN legacy : legacy[i] \in LoweredStart
    BY <1>1, ElementOfSeq, LenProperties
  <2> QED
    BY <2>1 DEF LoweredStart
<1>4. /\ \A i \in DOMAIN legacy : legacy[i].epoch <= epoch
      /\ epoch = 0 => cursor.known /\ cursor.at = E
      /\ cursor.known => \A i \in DOMAIN legacy : legacy[i].epoch = epoch =>
           legacy[i].at - legacy[i].start = E - cursor.at
      /\ ~cursor.known => \A i \in DOMAIN legacy : legacy[i].epoch # epoch
  BY DEF LegacyInv
<1>5. LegacyStartsKept'
  BY <1>1 DEF LegacyInv, LegacyStartsKept
<1> HIDE DEF E
<1>6. CASE c.k \in {"sync", "wait"}
  <2>1. epoch' = epoch + 1 /\ cursor' \in [known : BOOLEAN, at : Nat] /\ ~cursor'.known
    <3>1. ~cursor.known => cursor' = cursor
      BY <1>1, CursorStep
    <3>2. cursor.known => cursor' = [known |-> FALSE, at |-> cursor.at]
      BY <1>1, <1>6, CursorStep
    <3>3. epoch' = epoch + 1
      BY <1>1, <1>6
    <3>4. CASE cursor.known
      <4>1. cursor' = [known |-> FALSE, at |-> cursor.at]
        BY <3>2, <3>4
      <4> QED
        BY <1>1, <3>3, <4>1
    <3> QED
      BY <1>1, <3>1, <3>3, <3>4
  <2>2. \A i \in DOMAIN legacy : legacy[i].epoch <= epoch' /\ legacy[i].epoch # epoch'
    BY <1>1, <1>3, <1>4, <2>1
  <2>3. epoch' \in Nat /\ epoch' # 0
    BY <1>1, <2>1
  <2> QED
    BY <1>1, <1>5, <2>1, <2>2, <2>3 DEF LegacyInv
<1>7. CASE c.k \notin {"sync", "wait"} /\ ~cursor.known
  <2>1. epoch' = epoch /\ cursor' = cursor
    BY <1>1, <1>7, CursorStep
  <2> QED
    BY <1>1, <1>4, <1>5, <1>7, <2>1 DEF LegacyInv
<1>8. CASE c.k \notin {"sync", "wait"} /\ cursor.known
  <2>1. epoch' = epoch /\ cursor' = [known |-> TRUE, at |-> cursor.at + Span(c)]
    BY <1>1, <1>8, CursorStep
  <2>2. cursor' \in [known : BOOLEAN, at : Nat] /\ cursor'.known /\ cursor'.at = cursor.at + Span(c)
    BY <1>1, <2>1
  <2>3. epoch = 0 => cursor'.at = E + Span(c)
    BY <1>4, <2>2
  <2>4. ASSUME NEW i \in DOMAIN legacy, legacy[i].epoch = epoch
        PROVE  legacy[i].at - legacy[i].start = E + Span(c) - cursor'.at
    <3>1. legacy[i].at - legacy[i].start = E - cursor.at
      BY <1>4, <1>8, <2>4
    <3> DEFINE d == legacy[i].at - legacy[i].start
               o == cursor'.at
    <3>2. d = E - cursor.at /\ o = cursor.at + Span(c)
      BY <2>2, <3>1
    <3> HIDE DEF d, o
    <3>3. d = E + Span(c) - o
      BY <1>1, <3>2
    <3> QED
      BY <3>3 DEF d, o
  <2> QED
    BY <1>1, <1>2, <1>4, <1>5, <2>1, <2>2, <2>3, <2>4 DEF LegacyInv
<1> QED
  BY <1>1, <1>6, <1>7, <1>8

(* Lowering an absolute start keeps the distances, whether a NOP is put in  *)
(* front of the loop or the loop begins an event's time anew.               *)
LEMMA LegacyLoop ==
  ASSUME ProgramInv, LegacyInv, NEW c \in Commands, c.k = "legacy", NEW lead \in Nat,
         Write(c.loop, lead),
         legacy' = Append(legacy, [start |-> c.start, at |-> starts'[Len(starts')], epoch |-> epoch]),
         cursor.known => lead = c.start - cursor.at,
         ~cursor.known => lead = 0,
         cursor' = [known |-> TRUE, at |-> c.start + loop_duration(c.loop)]
  PROVE  ProgramInv' /\ LegacyInv'
<1> DEFINE E == EndOf(code, starts)
           D == Span(c.loop)
           new == [start |-> c.start, at |-> E + lead, epoch |-> epoch]
           L == Len(legacy)
<1>1. /\ c.loop \in Written /\ c.loop.k = "loop" /\ D = loop_duration(c.loop) /\ D \in Nat /\ c.start \in Nat
  <2>1. c.loop \in Written
    BY DEF Written
  <2>2. c.loop.k = "loop" /\ Sound(c)
    BY InstructionQueueAssumption
  <2>3. c.start \in Nat
    BY <2>2 DEF Sound
  <2>4. D = Extent(c.loop) /\ D \in Nat
    BY <2>1, WrittenSound
  <2> QED
    BY <2>1, <2>2, <2>3, <2>4 DEF Extent
<1>2. /\ epoch \in Nat /\ cursor \in [known : BOOLEAN, at : Nat] /\ cursor.at \in Nat
      /\ legacy \in Seq(LoweredStart) /\ E \in Nat
      /\ epoch' = epoch
  <2>1. epoch' = epoch
    BY <1>1 DEF Write
  <2> QED
    BY <2>1 DEF LegacyInv, ProgramInv, Commanded
<1>3. /\ ProgramInv' /\ EndOf(code', starts') = E + lead + D /\ starts'[Len(starts')] = E + lead
  <2>1. CASE lead = 0
    <3>1. ProgramInv' /\ EndOf(code', starts') = E + D /\ starts'[Len(starts')] = E
      BY <1>1, <2>1, WriteOne
    <3>2. E + D = E + lead + D /\ E = E + lead
      BY <1>1, <1>2, <2>1
    <3> QED
      BY <3>1, <3>2
  <2>2. CASE lead # 0
    BY <1>1, <2>2, WriteTwo
  <2> QED
    BY <2>1, <2>2
<1>4. legacy' = Append(legacy, new)
  BY <1>3
<1>5. /\ \A i \in DOMAIN legacy : legacy[i].epoch <= epoch
      /\ epoch = 0 => cursor.known /\ cursor.at = E
      /\ cursor.known => \A i \in DOMAIN legacy : legacy[i].epoch = epoch =>
           legacy[i].at - legacy[i].start = E - cursor.at
      /\ ~cursor.known => \A i \in DOMAIN legacy : legacy[i].epoch # epoch
      /\ \A i, j \in DOMAIN legacy :
           /\ legacy[i].epoch = 0 => legacy[i].at = legacy[i].start
           /\ legacy[i].epoch = legacy[j].epoch =>
                legacy[i].at - legacy[j].at = legacy[i].start - legacy[j].start
  BY DEF LegacyInv, LegacyStartsKept
<1>6. /\ cursor' \in [known : BOOLEAN, at : Nat] /\ cursor'.known /\ cursor'.at = c.start + D
      /\ cursor'.at \in Nat
  BY <1>1
<1> HIDE DEF E, D
<1>7. new \in LoweredStart
  BY <1>1, <1>2 DEF LoweredStart
<1>8. new.start = c.start /\ new.at = E + lead /\ new.epoch = epoch
  OBVIOUS
<1> HIDE DEF new
<1>9. L \in Nat /\ DOMAIN legacy = 1 .. L
  BY <1>2, LenProperties
<1>10. /\ legacy' \in Seq(LoweredStart) /\ DOMAIN legacy' = 1 .. L + 1
       /\ \A i \in 1 .. L : legacy'[i] = legacy[i]
       /\ legacy'[L + 1] = new
  <2>1. legacy' = legacy \o <<new>>
    BY <1>2, <1>4, <1>7, OneMore
  <2>2. /\ legacy' \in Seq(LoweredStart) /\ Len(legacy') = L + 1
        /\ \A i \in 1 .. L : legacy'[i] = legacy[i]
        /\ legacy'[L + 1] = new
    BY <1>2, <1>7, <2>1, OneMore
  <2> QED
    BY <2>2, LenProperties
<1> HIDE DEF L
<1>11. \A i \in 1 .. L : legacy[i].epoch \in Nat /\ legacy[i].at \in Nat /\ legacy[i].start \in Nat
  <2>1. \A i \in 1 .. L : legacy[i] \in LoweredStart
    BY <1>2, ElementOfSeq DEF L
  <2> QED
    BY <2>1 DEF LoweredStart
<1>12. \A i \in 1 .. L + 1 : i \in 1 .. L \/ i = L + 1
  BY <1>9
<1>13. epoch' = 0 => cursor'.at = EndOf(code', starts')
  <2> SUFFICES ASSUME epoch = 0 PROVE c.start + D = E + lead + D
    BY <1>2, <1>3, <1>6
  <2>1. lead = c.start - cursor.at /\ cursor.at = E
    BY <1>5
  <2> QED
    BY <1>1, <1>2, <2>1
<1>14. new.at - new.start = E + lead + D - (c.start + D)
  BY <1>1, <1>2, <1>8
<1>15. ASSUME NEW i \in 1 .. L, legacy[i].epoch = epoch
       PROVE  legacy[i].at - legacy[i].start = new.at - new.start
  <2>1. cursor.known
    BY <1>5, <1>9, <1>15
  <2>2. legacy[i].at - legacy[i].start = E - cursor.at
    BY <1>5, <1>9, <1>15, <2>1
  <2>3. new.at - new.start = E - cursor.at
    BY <1>1, <1>2, <1>8, <2>1
  <2> QED
    BY <2>2, <2>3
<1>16. \A i \in 1 .. L + 1 : legacy'[i].epoch <= epoch
  BY <1>2, <1>5, <1>8, <1>9, <1>10, <1>12
<1>17. ASSUME NEW i \in 1 .. L + 1, legacy'[i].epoch = epoch
       PROVE  legacy'[i].at - legacy'[i].start = E + lead + D - (c.start + D)
  <2>1. CASE i \in 1 .. L
    BY <1>10, <1>14, <1>15, <1>17, <2>1
  <2>2. CASE i = L + 1
    BY <1>10, <1>14, <2>2
  <2> QED
    BY <1>12, <2>1, <2>2
<1>18. ASSUME NEW i \in 1 .. L + 1, legacy'[i].epoch = 0 PROVE legacy'[i].at = legacy'[i].start
  <2>1. CASE i \in 1 .. L
    BY <1>5, <1>9, <1>10, <1>18, <2>1
  <2>2. CASE i = L + 1
    <3>1. epoch = 0
      BY <1>8, <1>10, <1>18, <2>2
    <3>2. lead = c.start - cursor.at /\ cursor.at = E
      BY <1>5, <3>1
    <3>3. new.at = new.start
      BY <1>1, <1>2, <1>8, <3>2
    <3> QED
      BY <1>10, <2>2, <3>3
  <2> QED
    BY <1>12, <2>1, <2>2
<1>19. ASSUME NEW i \in 1 .. L + 1, NEW j \in 1 .. L + 1, legacy'[i].epoch = legacy'[j].epoch
       PROVE  legacy'[i].at - legacy'[j].at = legacy'[i].start - legacy'[j].start
  <2>1. \A k \in 1 .. L + 1 : legacy'[k].at \in Nat /\ legacy'[k].start \in Nat
    <3>1. new.at \in Nat /\ new.start \in Nat
      BY <1>1, <1>2, <1>8
    <3> QED
      BY <1>10, <1>11, <1>12, <3>1
  <2>2. CASE i \in 1 .. L /\ j \in 1 .. L
    <3>1. legacy'[i] = legacy[i] /\ legacy'[j] = legacy[j] /\ i \in DOMAIN legacy /\ j \in DOMAIN legacy
      BY <1>9, <1>10, <2>2
    <3>2. legacy[i].epoch = legacy[j].epoch
      BY <1>19, <3>1
    <3>3. legacy[i].at - legacy[j].at = legacy[i].start - legacy[j].start
      BY <1>5, <3>1, <3>2
    <3> QED
      BY <3>1, <3>3
  <2>3. CASE legacy'[i].epoch = epoch
    <3>1. /\ legacy'[i].at - legacy'[i].start = E + lead + D - (c.start + D)
          /\ legacy'[j].at - legacy'[j].start = E + lead + D - (c.start + D)
      BY <1>17, <1>19, <2>3
    <3>2. \A a, b, s, t \in Nat : a - s = b - t => a - b = s - t
      OBVIOUS
    <3>3. legacy'[i].at - legacy'[i].start = legacy'[j].at - legacy'[j].start
      BY <3>1
    <3> DEFINE a == legacy'[i].at
               b == legacy'[j].at
               s == legacy'[i].start
               t == legacy'[j].start
    <3>4. a \in Nat /\ b \in Nat /\ s \in Nat /\ t \in Nat /\ a - s = b - t
      BY <2>1, <3>3
    <3> HIDE DEF a, b, s, t
    <3>5. a - b = s - t
      BY <3>2, <3>4
    <3> QED
      BY <3>5 DEF a, b, s, t
  <2>4. i = L + 1 \/ j = L + 1 => legacy'[i].epoch = epoch
    BY <1>8, <1>10, <1>19
  <2> QED
    BY <1>12, <2>2, <2>3, <2>4
<1>20. LegacyStartsKept'
  <2>1. \A i, j \in DOMAIN legacy' :
          /\ legacy'[i].epoch = 0 => legacy'[i].at = legacy'[i].start
          /\ legacy'[i].epoch = legacy'[j].epoch =>
               legacy'[i].at - legacy'[j].at = legacy'[i].start - legacy'[j].start
    <3> TAKE i, j \in DOMAIN legacy'
    <3>1. i \in 1 .. L + 1 /\ j \in 1 .. L + 1
      BY <1>10
    <3>2. legacy'[i].epoch = 0 => legacy'[i].at = legacy'[i].start
      BY <1>18, <3>1
    <3>3. legacy'[i].epoch = legacy'[j].epoch =>
               legacy'[i].at - legacy'[j].at = legacy'[i].start - legacy'[j].start
      BY <1>19, <3>1
    <3> QED
      BY <3>2, <3>3
  <2> QED
    BY <2>1 DEF LegacyStartsKept
<1>21. LegacyInv'
  <2>1. epoch' \in Nat /\ cursor' \in [known : BOOLEAN, at : Nat] /\ legacy' \in Seq(LoweredStart)
    BY <1>2, <1>6, <1>10
  <2>2. \A i \in DOMAIN legacy' : legacy'[i].epoch <= epoch'
    BY <1>2, <1>10, <1>16
  <2>3. epoch' = 0 => cursor'.known /\ cursor'.at = EndOf(code', starts')
    BY <1>6, <1>13
  <2> DEFINE F == EndOf(code', starts')
             o == cursor'.at
  <2>4. F - o = E + lead + D - (c.start + D)
    <3>1. F = E + lead + D /\ o = c.start + D
      BY <1>3, <1>6
    <3> HIDE DEF F, o
    <3> QED
      BY <1>1, <1>2, <3>1
  <2>5. \A i \in DOMAIN legacy' : legacy'[i].epoch = epoch' =>
          legacy'[i].at - legacy'[i].start = F - o
    <3> TAKE i \in DOMAIN legacy'
    <3> HAVE legacy'[i].epoch = epoch'
    <3>1. i \in 1 .. L + 1 /\ legacy'[i].epoch = epoch
      BY <1>2, <1>10
    <3>2. legacy'[i].at - legacy'[i].start = E + lead + D - (c.start + D)
      BY <1>17, <3>1
    <3> QED
      BY <2>4, <3>2
  <2> QED
    BY <1>6, <1>20, <2>1, <2>2, <2>3, <2>5 DEF LegacyInv
<1> QED
  BY <1>3, <1>21

-----------------------------------------------------------------------------
(* A step that changes nothing of the program keeps what is true of it.     *)
LEMMA SameProgram ==
  ASSUME ProgramInv, LegacyInv, UNCHANGED programVars
  PROVE  ProgramInv' /\ LegacyInv'
<1>1. /\ code' = code /\ imem' = imem /\ cursor' = cursor /\ want' = want /\ starts' = starts
      /\ legacy' = legacy /\ epoch' = epoch
  BY DEF programVars
<1>2. ProgramInv'
  BY <1>1 DEF ProgramInv
<1>3. LegacyStartsKept'
  BY <1>1 DEF LegacyInv, LegacyStartsKept
<1>4. LegacyInv'
  BY <1>1, <1>3 DEF LegacyInv
<1> QED
  BY <1>2, <1>4

(* Every append, refused ones included, keeps the program well-formed and   *)
(* the distances of its absolute starts.                                    *)
LEMMA AppendKeeps ==
  ASSUME ProgramInv, LegacyInv, NEW c \in Commands, AppendProgram(c)
  PROVE  ProgramInv' /\ LegacyInv'
<1>1. cursor \in [known : BOOLEAN, at : Nat] /\ cursor.at \in Nat /\ cursor.known \in BOOLEAN
  BY DEF LegacyInv
<1>2. CASE AppendCommand(c)
  <2>1. c.k # "legacy" /\ (c.k = "nop" => c.count # 0)
    BY <1>2 DEF AppendCommand
  <2>2. c \in Written
    BY <2>1 DEF Written
  <2>3. CASE Refuse
    BY <2>3, SameProgram DEF Refuse
  <2>4. CASE Write(c, 0) /\ cursor' = CursorAfter(c) /\ UNCHANGED legacy
    BY <2>2, <2>4, WriteOne, LegacyCommand
  <2> QED
    BY <1>2, <2>3, <2>4 DEF AppendCommand
<1>3. CASE AppendLegacy(c)
  <2> DEFINE lead == c.start - cursor.at
             noted == legacy' = Append(legacy, [start |-> c.start, at |-> starts'[Len(starts')], epoch |-> epoch])
  <2>1. c.k = "legacy"
    BY <1>3 DEF AppendLegacy
  <2>2. c.start \in Nat /\ lead \in Int /\ Sound(c) /\ c.loop.k = "loop" /\ c.loop \in Written
    <3>1. Sound(c) /\ c.loop.k = "loop"
      BY <2>1, InstructionQueueAssumption
    <3>2. c.start \in Nat
      BY <2>1, <3>1 DEF Sound
    <3> QED
      BY <1>1, <2>1, <3>1, <3>2 DEF Written
  <2>3. CASE /\ ~cursor.known /\ Write(c.loop, 0) /\ noted
             /\ cursor' = [known |-> TRUE, at |-> c.start + loop_duration(c.loop)]
    <3>1. 0 \in Nat
      OBVIOUS
    <3> QED
      BY <2>1, <2>3, <3>1, LegacyLoop
  <2>4. CASE /\ ~cursor.known /\ cursor' = [known |-> TRUE, at |-> c.start]
             /\ UNCHANGED <<code, imem, want, starts, legacy, epoch>>
    <3>1. ProgramInv'
      BY <2>4 DEF ProgramInv
    <3>2. cursor' \in [known : BOOLEAN, at : Nat]
      BY <2>2, <2>4
    <3>3. LegacyStartsKept'
      BY <2>4 DEF LegacyInv, LegacyStartsKept
    <3>4. LegacyInv'
      BY <2>4, <3>2, <3>3 DEF LegacyInv
    <3> QED
      BY <3>1, <3>4
  <2>5. CASE Refuse
    BY <2>5, SameProgram DEF Refuse
  <2>6. CASE lead > 0 /\ Write(Nop(lead), 0) /\ cursor' = CursorAfter(Nop(lead)) /\ UNCHANGED legacy
    <3>1. Nop(lead) \in Written
      BY <2>2, <2>6 DEF Written
    <3> QED
      BY <2>6, <3>1, WriteOne, LegacyCommand
  <2>7. CASE /\ cursor.known /\ lead >= 0 /\ Write(c.loop, lead) /\ noted
             /\ cursor' = [cursor EXCEPT !.at = c.start + loop_duration(c.loop)]
    <3>1. lead \in Nat
      BY <2>2, <2>7
    <3>2. cursor' = [known |-> TRUE, at |-> c.start + loop_duration(c.loop)]
      BY <1>1, <2>7
    <3>3. lead = c.start - cursor.at
      OBVIOUS
    <3> HIDE DEF lead
    <3> QED
      BY <2>1, <2>7, <3>1, <3>2, <3>3, LegacyLoop
  <2> QED
    BY <1>3, <2>3, <2>4, <2>5, <2>6, <2>7 DEF AppendLegacy
<1> QED
  BY <1>2, <1>3 DEF AppendProgram

(* The empty program.                                                       *)
LEMMA ProgramStart ==
  ASSUME NativeInit
  PROVE  ProgramInv /\ LegacyInv
<1>1. /\ code = <<>> /\ imem = <<>> /\ cursor = [known |-> TRUE, at |-> 0]
      /\ want = <<>> /\ starts = <<>> /\ legacy = <<>> /\ epoch = 0
  BY DEF NativeInit
<1>2. EndOf(code, starts) = 0
  BY <1>1 DEF EndOf
<1>3. Commanded(code, starts)
  BY <1>1, <1>2, EmptySeq DEF Commanded
<1>4. Laid(code, imem)
  BY <1>1, EmptySeq DEF Laid
<1>5. Scheduled(code, starts, want)
  BY <1>1, EmptySeq DEF Scheduled
<1>6. LegacyInv
  <2>1. DOMAIN legacy = {} /\ legacy \in Seq(LoweredStart)
    BY <1>1, EmptySeq
  <2> QED
    BY <1>1, <1>2, <2>1 DEF LegacyInv, LegacyStartsKept
<1> QED
  BY <1>3, <1>4, <1>5, <1>6 DEF ProgramInv

(* Nothing but an append changes the program.                               *)
LEMMA ProgramSteps ==
  ASSUME Next
  PROVE  UNCHANGED programVars \/ \E c \in Commands : AppendProgram(c)
<1>1. CASE LoadProgram
  BY <1>1 DEF LoadProgram
<1>2. CASE Configure
  BY <1>2 DEF Configure, NativeConfigure, nativeVars
<1>3. CASE Prime
  BY <1>3 DEF Prime, NativePrime, nativeVars
<1>4. CASE Start
  BY <1>4 DEF Start, NativeStart, Launch
<1>5. CASE Tick
  BY <1>5 DEF Tick, NativeTick, nativeVars
<1>6. CASE Hold
  BY <1>6 DEF Hold, NativeHold
<1>7. CASE Notify
  BY <1>7 DEF Notify, NativeNotify
<1> QED
  BY <1>1, <1>2, <1>3, <1>4, <1>5, <1>6, <1>7 DEF Next

(* push_macro and push_mem_stream_nd keep what an old compiler meant: the   *)
(* absolute starts of one event keep their distances, and those before the  *)
(* first event are program times, whatever is appended between them and     *)
(* whichever appends are refused.                                           *)
THEOREM LegacyCorrect == Spec => []LegacyStartsKept
<1>1. Init => ProgramInv /\ LegacyInv
  BY ProgramStart DEF Init
<1>2. ASSUME ProgramInv, LegacyInv, [Next]_vars
      PROVE  ProgramInv' /\ LegacyInv'
  <2>1. CASE UNCHANGED vars
    BY <1>2, <2>1, SameProgram DEF vars, nativeVars
  <2>2. CASE Next
    BY <1>2, <2>2, ProgramSteps, SameProgram, AppendKeeps
  <2> QED
    BY <1>2, <2>1, <2>2
<1>3. ProgramInv /\ LegacyInv => LegacyStartsKept
  BY DEF LegacyInv
<1> QED
  BY <1>1, <1>2, <1>3, PTL DEF Spec

-----------------------------------------------------------------------------
(* The frontend: the words after Head are in the IQ or on their way.        *)
Head1 == fetchPc - Len(pending) - Len(iq)
Fetch == [pc : Nat, left : Nat]

FrontInv ==
  /\ fetchPc \in 1 .. Len(imem) + 1
  /\ iq \in Seq(Nat) /\ pending \in Seq(Fetch) /\ Head1 \in Nat \ {0}
  /\ \A w \in 1 .. Len(iq) : iq[w] = Head1 + w - 1
  /\ \A f \in 1 .. Len(pending) : pending[f].pc = Head1 + Len(iq) + f - 1

(* commit_ready_fetch: the words in the IQ and those on their way follow    *)
(* each other in the memory.                                                *)
LEMMA ReadyIs ==
  ASSUME FrontInv, imem \in Seq(Word)
  PROVE  /\ Ready \in 0 .. Len(pending) /\ Len(pending) \in Nat /\ Len(iq) \in Nat
         /\ IqNow \in Seq(Nat) /\ Len(IqNow) = Len(iq) + Ready
         /\ \A w \in 1 .. Len(IqNow) : IqNow[w] = Head1 + w - 1 /\ IqNow[w] \in 1 .. Len(imem)
         /\ Waiting \in Seq(Fetch) /\ Len(Waiting) = Len(pending) - Ready
         /\ \A f \in 1 .. Len(Waiting) : Waiting[f].pc = Head1 + Len(IqNow) + f - 1
         /\ Head1 + Len(IqNow) + Len(Waiting) = fetchPc
<1> DEFINE N == Len(pending)
           Q == Len(iq)
           P(n) == /\ \A f \in 1 .. n : pending[f].left = 0
                   /\ n < N => pending[n + 1].left # 0
           T == {n \in 0 .. N : n = N \/ pending[n + 1].left # 0}
           H == Head1
           R == Ready
<1>1. /\ fetchPc \in Nat /\ fetchPc <= Len(imem) + 1 /\ N \in Nat /\ Q \in Nat /\ H \in Nat \ {0}
      /\ H = fetchPc - N - Q /\ Len(imem) \in Nat
      /\ iq \in Seq(Nat) /\ pending \in Seq(Fetch)
  BY LenProperties DEF FrontInv, Head1
<1>2. \E n \in 0 .. N : P(n)
  <2>1. N \in T /\ T \subseteq Nat
    BY <1>1
  <2>2. PICK n \in T : \A m \in T : n <= m
    BY <2>1, Minimum
  <2>3. \A f \in 1 .. n : pending[f].left = 0
    <3> SUFFICES ASSUME NEW f \in 1 .. n, pending[f].left # 0 PROVE FALSE
      OBVIOUS
    <3>1. f - 1 \in 0 .. N /\ f - 1 + 1 = f
      BY <1>1
    <3>2. f - 1 \in T
      BY <3>1
    <3>3. n \in Nat /\ n <= f - 1
      BY <2>1, <2>2, <3>2
    <3> QED
      BY <3>3
  <2>4. n < N => pending[n + 1].left # 0
    BY <1>1
  <2> QED
    BY <2>3, <2>4
<1>3. R = CHOOSE n \in 0 .. N : P(n)
  BY DEF Ready
<1> HIDE DEF P
<1>4. R \in 0 .. N
  BY <1>2, <1>3
<1> DEFINE more == [f \in 1 .. R |-> pending[f].pc]
           rest == SubSeq(pending, R + 1, N)
<1>5. \A f \in 1 .. N : pending[f] \in Fetch /\ pending[f].pc \in Nat /\ pending[f].pc = H + Q + f - 1
  <2>1. \A f \in 1 .. N : pending[f] \in Fetch
    BY <1>1, ElementOfSeq
  <2> QED
    BY <2>1 DEF FrontInv, Fetch
<1>6. IqNow = iq \o more /\ Waiting = rest
  BY DEF IqNow, Waiting
<1> HIDE DEF R
<1>7. more \in Seq(Nat) /\ Len(more) = R /\ \A f \in 1 .. R : more[f] = H + Q + f - 1
  <2>1. \A f \in 1 .. R : more[f] = H + Q + f - 1 /\ f \in 1 .. N
    BY <1>1, <1>4, <1>5
  <2>2. more \in [1 .. R -> Nat]
    BY <1>4, <1>5, <2>1
  <2> HIDE DEF more
  <2>3. more \in Seq(Nat)
    BY <1>4, <2>2, SeqDef
  <2> QED
    BY <1>4, <2>1, <2>2, <2>3, LenProperties
<1> HIDE DEF more, H
<1>8. /\ IqNow \in Seq(Nat) /\ Len(IqNow) = Q + R
      /\ \A w \in 1 .. Q + R : IqNow[w] = IF w <= Q THEN iq[w] ELSE more[w - Q]
  BY <1>1, <1>6, <1>7, ConcatProperties
<1>9. \A w \in 1 .. Q : iq[w] = H + w - 1
  BY DEF FrontInv, H
<1>10. ASSUME NEW w \in 1 .. Q + R PROVE IqNow[w] = H + w - 1 /\ IqNow[w] \in 1 .. Len(imem)
  <2>1. IqNow[w] = H + w - 1
    <3>1. CASE w <= Q
      <4>1. w \in 1 .. Q
        BY <1>1, <1>4, <3>1
      <4> QED
        BY <1>8, <1>9, <3>1, <4>1
    <3>2. CASE ~(w <= Q)
      <4>1. w - Q \in 1 .. R
        BY <1>1, <1>4, <3>2
      <4>2. more[w - Q] = H + Q + (w - Q) - 1
        BY <1>7, <4>1
      <4> QED
        BY <1>1, <1>4, <1>8, <3>2, <4>2
    <3> QED
      BY <3>1, <3>2
  <2>2. H + w - 1 \in 1 .. Len(imem)
    <3> HIDE DEF N, Q
    <3> QED
      BY <1>1, <1>4
  <2> QED
    BY <2>1, <2>2
<1>11. /\ rest \in Seq(Fetch) /\ Len(rest) = N - R
       /\ \A f \in 1 .. N - R : rest[f] = pending[R + f]
  <2>1. R + 1 \in Int /\ N \in Int /\ \A i \in R + 1 .. N : pending[i] \in Fetch
    <3>1. \A i \in R + 1 .. N : i \in 1 .. N
      BY <1>1, <1>4
    <3> QED
      BY <1>1, <1>4, <1>5, <3>1
  <2>2. /\ rest \in Seq(Fetch)
        /\ Len(rest) = IF R + 1 <= N THEN N - (R + 1) + 1 ELSE 0
        /\ \A i \in 1 .. N - (R + 1) + 1 : rest[i] = pending[R + 1 + i - 1]
    <3> HIDE DEF N
    <3> QED
      BY <2>1, SubSeqProperties
  <2>3. N - (R + 1) + 1 = N - R /\ \A i \in Nat : R + 1 + i - 1 = R + i
    BY <1>1, <1>4
  <2>4. Len(rest) = N - R
    BY <1>1, <1>4, <2>2
  <2>5. \A f \in 1 .. N - R : rest[f] = pending[R + f]
    <3> TAKE f \in 1 .. N - R
    <3>1. f \in 1 .. N - (R + 1) + 1 /\ R + 1 + f - 1 = R + f
      BY <1>1, <1>4
    <3> QED
      BY <2>2, <3>1
  <2> QED
    BY <2>2, <2>4, <2>5
<1>12. \A f \in 1 .. N - R : Waiting[f].pc = H + (Q + R) + f - 1
  <2> TAKE f \in 1 .. N - R
  <2>1. R + f \in 1 .. N
    BY <1>1, <1>4
  <2>2. pending[R + f].pc = H + Q + (R + f) - 1
    BY <1>5, <2>1
  <2>3. H + Q + (R + f) - 1 = H + (Q + R) + f - 1
    BY <1>1, <1>4
  <2> QED
    BY <1>6, <1>11, <2>2, <2>3
<1>13. H + (Q + R) + (N - R) = fetchPc
  <2> HIDE DEF N, Q
  <2> QED
    BY <1>1, <1>4
<1> HIDE DEF rest
<1> QED
  BY <1>1, <1>4, <1>6, <1>8, <1>10, <1>11, <1>12, <1>13 DEF H, R

(* A cycle of waiting leaves the addresses of the fetches alone.            *)
LEMMA AgedIs ==
  ASSUME NEW s \in Seq(Fetch)
  PROVE  /\ Aged(s) \in Seq(Fetch) /\ Len(Aged(s)) = Len(s)
         /\ \A f \in 1 .. Len(s) : Aged(s)[f].pc = s[f].pc
<1>1. DOMAIN s = 1 .. Len(s) /\ Len(s) \in Nat /\ \A f \in 1 .. Len(s) : s[f] \in Fetch
  BY LenProperties, ElementOfSeq
<1>2. \A f \in 1 .. Len(s) : Aged(s)[f] = [s[f] EXCEPT !.left = IF s[f].left = 0 THEN 0 ELSE s[f].left - 1]
  BY <1>1 DEF Aged
<1>3. \A f \in 1 .. Len(s) : Aged(s)[f] \in Fetch /\ Aged(s)[f].pc = s[f].pc
  <2> TAKE f \in 1 .. Len(s)
  <2> DEFINE m == IF s[f].left = 0 THEN 0 ELSE s[f].left - 1
  <2>1. s[f].left \in Nat /\ s[f].pc \in Nat /\ s[f] = [pc |-> s[f].pc, left |-> s[f].left]
    BY <1>1 DEF Fetch
  <2>2. m \in Nat
    BY <2>1
  <2>3. Aged(s)[f] = [s[f] EXCEPT !.left = m]
    BY <1>2
  <2> HIDE DEF m
  <2>4. Aged(s)[f] = [pc |-> s[f].pc, left |-> m]
    BY <2>1, <2>3
  <2> QED
    BY <2>1, <2>2, <2>4 DEF Fetch
<1>4. Aged(s) \in [1 .. Len(s) -> Fetch]
  BY <1>1, <1>3 DEF Aged
<1>5. Aged(s) \in Seq(Fetch)
  BY <1>1, <1>4, SeqDef
<1> QED
  BY <1>1, <1>3, <1>4, <1>5, LenProperties

(* hold_compute_cycle() takes responses and moves nothing.                  *)
LEMMA FrontHold ==
  ASSUME FrontInv, imem \in Seq(Word), iq' = IqNow, pending' = Aged(Waiting), UNCHANGED <<fetchPc, imem>>
  PROVE  FrontInv' /\ Head1' = Head1
<1> DEFINE H == Head1
<1>1. /\ iq' \in Seq(Nat) /\ Len(iq') = Len(IqNow) /\ Len(IqNow) \in Nat /\ Len(Waiting) \in Nat
      /\ \A w \in 1 .. Len(IqNow) : iq'[w] = H + w - 1
      /\ pending' \in Seq(Fetch) /\ Len(pending') = Len(Waiting)
      /\ \A f \in 1 .. Len(Waiting) : pending'[f].pc = H + Len(IqNow) + f - 1
      /\ H + Len(IqNow) + Len(Waiting) = fetchPc
  BY ReadyIs, AgedIs, LenProperties
<1>2. fetchPc \in 1 .. Len(imem) + 1 /\ H \in Nat \ {0} /\ fetchPc \in Int
  BY DEF FrontInv
<1>3. Head1' = H
  <2>1. Head1' = fetchPc - Len(pending') - Len(iq')
    BY DEF Head1
  <2> HIDE DEF H
  <2> QED
    BY <1>1, <1>2, <2>1
<1> HIDE DEF H
<1>4. FrontInv'
  BY <1>1, <1>2, <1>3 DEF FrontInv
<1> QED
  BY <1>3, <1>4 DEF H

(* A cycle of the frontend moves the head of the IQ by the words that were  *)
(* dispatched, and by nothing else.                                         *)
LEMMA FrontStep ==
  ASSUME FrontInv, imem \in Seq(Word), NEW n \in 0 .. Len(IqNow), Frontend(n), imem' = imem
  PROVE  FrontInv' /\ Head1' = Head1 + n
<1> DEFINE H == Head1
           K == Len(IqNow)
           left == SubSeq(IqNow, n + 1, K)
           start == fetchPc <= Len(imem) /\ Len(left) + Len(Waiting) < IqDepth
           fresh == IF start THEN <<[pc |-> fetchPc, left |-> FetchLatency]>> ELSE <<>>
           W == Len(Waiting)
           G == IF start THEN 1 ELSE 0
<1>1. /\ IqNow \in Seq(Nat) /\ K \in Nat /\ W \in Nat /\ Waiting \in Seq(Fetch)
      /\ \A w \in 1 .. K : IqNow[w] = H + w - 1 /\ IqNow[w] \in Nat
      /\ \A f \in 1 .. W : Waiting[f].pc = H + K + f - 1
      /\ H + K + W = fetchPc
  BY ReadyIs, LenProperties
<1>2. /\ fetchPc \in Nat /\ H \in Nat \ {0} /\ FetchLatency \in Nat /\ Len(imem) \in Nat
      /\ fetchPc <= Len(imem) + 1
  BY InstructionQueueAssumption, LenProperties DEF FrontInv
<1>3. iq' = left /\ pending' = Aged(Waiting \o fresh) /\ fetchPc' = IF start THEN fetchPc + 1 ELSE fetchPc
  BY DEF Frontend
<1>4. /\ left \in Seq(Nat) /\ Len(left) = K - n
      /\ \A w \in 1 .. K - n : left[w] = H + n + w - 1
  <2>1. n + 1 \in Int /\ K \in Int /\ \A i \in n + 1 .. K : IqNow[i] \in Nat
    <3>1. \A i \in n + 1 .. K : i \in 1 .. K
      BY <1>1
    <3> QED
      BY <1>1, <3>1
  <2>2. /\ left \in Seq(Nat) /\ Len(left) = IF n + 1 <= K THEN K - (n + 1) + 1 ELSE 0
        /\ \A i \in 1 .. K - (n + 1) + 1 : left[i] = IqNow[n + 1 + i - 1]
    <3> HIDE DEF K
    <3> QED
      BY <2>1, SubSeqProperties
  <2>3. Len(left) = K - n
    BY <1>1, <2>2
  <2>4. ASSUME NEW w \in 1 .. K - n PROVE left[w] = H + n + w - 1
    <3>1. w \in 1 .. K - (n + 1) + 1 /\ n + 1 + w - 1 = n + w /\ n + w \in 1 .. K
      BY <1>1
    <3>2. left[w] = IqNow[n + w] /\ IqNow[n + w] = H + (n + w) - 1
      BY <1>1, <2>2, <3>1
    <3>3. H + (n + w) - 1 = H + n + w - 1
      BY <1>2
    <3> QED
      BY <3>2, <3>3
  <2> QED
    BY <2>2, <2>3, <2>4
<1> HIDE DEF left
<1>5. /\ Waiting \o fresh \in Seq(Fetch) /\ Len(Waiting \o fresh) = W + G
      /\ \A f \in 1 .. W + G : (Waiting \o fresh)[f].pc = H + K + f - 1
  <2> DEFINE e == [pc |-> fetchPc, left |-> FetchLatency]
  <2>1. CASE start
    <3>1. fresh = <<e>> /\ e \in Fetch /\ G = 1 /\ e.pc = fetchPc
      BY <1>2, <2>1 DEF Fetch
    <3> HIDE DEF e, G, fresh
    <3>2. /\ Waiting \o fresh \in Seq(Fetch) /\ Len(Waiting \o fresh) = W + 1
          /\ \A f \in 1 .. W : (Waiting \o fresh)[f] = Waiting[f]
          /\ (Waiting \o fresh)[W + 1] = e
      BY <1>1, <3>1, OneMore
    <3>3. ASSUME NEW f \in 1 .. W + 1 PROVE (Waiting \o fresh)[f].pc = H + K + f - 1
      <4>1. CASE f \in 1 .. W
        BY <1>1, <3>2, <4>1
      <4>2. CASE f = W + 1
        <5>1. (Waiting \o fresh)[f].pc = fetchPc
          BY <3>1, <3>2, <4>2
        <5>2. H + K + (W + 1) - 1 = fetchPc
          <6> HIDE DEF W, H, K
          <6> QED
            BY <1>1, <1>2
        <5> QED
          BY <4>2, <5>1, <5>2
      <4>3. f \in 1 .. W \/ f = W + 1
        <5> HIDE DEF W
        <5> QED
          BY <1>1
      <4> QED
        BY <4>1, <4>2, <4>3
    <3> QED
      BY <3>1, <3>2, <3>3
  <2>2. CASE ~start
    <3>1. fresh = <<>> /\ G = 0
      BY <2>2
    <3>2. Waiting \o fresh = Waiting
      BY <1>1, <3>1, ConcatEmptySeq
    <3>3. W + G = W
      BY <1>1, <3>1
    <3> QED
      BY <1>1, <3>2, <3>3
  <2> QED
    BY <2>1, <2>2
<1>6. /\ pending' \in Seq(Fetch) /\ Len(pending') = W + G
      /\ \A f \in 1 .. W + G : pending'[f].pc = H + K + f - 1
  BY <1>3, <1>5, AgedIs
<1>7. fetchPc' = fetchPc + G /\ fetchPc' \in 1 .. Len(imem) + 1 /\ G \in {0, 1}
  <2>1. CASE start
    <3>1. G = 1 /\ fetchPc' = fetchPc + 1 /\ fetchPc <= Len(imem)
      BY <1>3, <2>1
    <3> QED
      BY <1>2, <3>1
  <2>2. CASE ~start
    <3>1. G = 0 /\ fetchPc' = fetchPc /\ fetchPc \in 1 .. Len(imem) + 1
      BY <1>3, <2>2 DEF FrontInv
    <3> QED
      BY <1>2, <3>1
  <2> QED
    BY <2>1, <2>2
<1> HIDE DEF G, W, K, H, fresh
<1>8. Head1' = H + n
  <2>1. Head1' = fetchPc' - Len(pending') - Len(iq')
    BY DEF Head1
  <2>2. Len(iq') = K - n
    BY <1>3, <1>4
  <2>3. Head1' = (fetchPc + G) - (W + G) - (K - n)
    BY <1>6, <1>7, <2>1, <2>2
  <2>4. K \in Nat /\ W \in Nat /\ G \in Nat /\ H \in Nat /\ fetchPc = H + K + W
    BY <1>1, <1>2, <1>7
  <2> QED
    BY <2>3, <2>4
<1>9. \A f \in 1 .. W + G : pending'[f].pc = H + n + (K - n) + f - 1
  <2>1. \A f \in 1 .. W + G : H + n + (K - n) + f - 1 = H + K + f - 1
    BY <1>1, <1>2
  <2> QED
    BY <1>6, <2>1
<1>10. FrontInv'
  <2>1. /\ Head1' \in Nat \ {0} /\ iq' \in Seq(Nat) /\ Len(iq') = K - n
        /\ \A w \in 1 .. Len(iq') : iq'[w] = Head1' + w - 1
    BY <1>1, <1>2, <1>3, <1>4, <1>8
  <2>2. \A f \in 1 .. Len(pending') : pending'[f].pc = Head1' + Len(iq') + f - 1
    BY <1>6, <1>8, <1>9, <2>1
  <2> QED
    BY <1>6, <1>7, <2>1, <2>2 DEF FrontInv
<1> QED
  BY <1>8, <1>10 DEF H

-----------------------------------------------------------------------------
(* a owns the port for command c, e cycles after c has begun; v was issued  *)
(* last before it.                                                          *)
HoldsNop(a, c, v, e) ==
  c.k = "nop" /\ e < c.count /\ a = [k |-> "nop", left |-> c.count - e]

HoldsRepeat(a, c, v, e) ==
  /\ c.k = "repeat"
  /\ \E i \in 1 .. c.count, d \in 0 .. c.interval - 1 :
       /\ a = [k |-> "repeat", cmd |-> c, base |-> v, index |-> i, cooldown |-> d]
       /\ e + d = i * c.interval - 1

HoldsRepeat2d(a, c, v, e) ==
  /\ c.k = "repeat2d"
  /\ \E x \in Cells2(c.counts), d \in Nat :
       /\ x # <<0, 0>>
       /\ a = [k |-> "repeat2d", cmd |-> c, base |-> v, x |-> x, cooldown |-> d]
       /\ e + d + 1 = Off2(c.intervals, x)
       /\ \A y \in Cells2(c.counts) : y # <<0, 0>> =>
            Off2(c.intervals, y) <= e \/ Off2(c.intervals, x) <= Off2(c.intervals, y)

HoldsLoop(a, c, v, e) ==
  /\ c.k = "loop"
  /\ \E x \in Cells(c.counts) :
       /\ a = [k |-> "loop", cmd |-> c, x |-> x, elapsed |-> e]
       /\ e <= LoopOffset(c, x)
       /\ \A y \in Cells(c.counts) : LoopOffset(c, y) < e \/ LoopOffset(c, x) <= LoopOffset(c, y)

SideAt(c, s, p, e) ==
  \/ /\ p \in Cells2(c.counts) /\ e <= SideOffset(c, s, p)
     /\ \A y \in Cells2(c.counts) : SideOffset(c, s, y) < e \/ SideOffset(c, s, p) <= SideOffset(c, s, y)
  \/ p = <<0, c.counts[2]>> /\ \A y \in Cells2(c.counts) : SideOffset(c, s, y) < e

HoldsWriteRead(a, c, v, e) ==
  /\ c.k = "writeread"
  /\ \E p, q \in (0 .. c.counts[1] - 1) \X (0 .. c.counts[2]) :
       /\ a = [k |-> "writeread", cmd |-> c, x |-> <<p, q>>, elapsed |-> e]
       /\ SideAt(c, 1, p, e) /\ SideAt(c, 2, q, e)
       /\ p \in Cells2(c.counts) \/ q \in Cells2(c.counts)

Holds(a, c, v, e) ==
  /\ e \in Nat
  /\ \/ HoldsNop(a, c, v, e) \/ HoldsRepeat(a, c, v, e) \/ HoldsRepeat2d(a, c, v, e)
     \/ HoldsLoop(a, c, v, e) \/ HoldsWriteRead(a, c, v, e)

(* Command c issues value in cycle e, and nothing.                          *)
DueAt(c, v, e, value) ==
  \E k \in 1 .. Len(Points(c, v)) : Points(c, v)[k] = [off |-> e, value |-> value]
Quiet(c, v, e) == \A k \in 1 .. Len(Points(c, v)) : Points(c, v)[k].off # e

(* What the port is after cycle e.                                          *)
Moved(a, c, v, e) == IF a = Idle THEN e + 1 = Span(c) ELSE Holds(a, c, v, e + 1)

Outcome(a, c, v, e) ==
  \/ Silent /\ Quiet(c, v, e) /\ Moved(active', c, v, e)
  \/ \E value : Issue(value) /\ DueAt(c, v, e, value) /\ Moved(active', c, v, e)
  \/ Throw("row") /\ active' = a

(* tick of a NOP: no issue, and the port is free after its last cycle.      *)
LEMMA NopStep ==
  ASSUME NEW c \in Written, NEW v, NEW e \in Nat, NEW a, HoldsNop(a, c, v, e), Step(a)
  PROVE  Outcome(a, c, v, e)
<1>1. /\ c.k = "nop" /\ c.count \in Nat \ {0} /\ e < c.count /\ a = [k |-> "nop", left |-> c.count - e]
      /\ a.k = "nop" /\ a.left = c.count - e
  BY WrittenSound DEF HoldsNop
<1>2. StepNop(a)
  BY <1>1 DEF Step, StepNop, StepRepeat, StepRepeat2d, StepLoop, StepWriteRead
<1>3. Silent
  BY <1>2 DEF StepNop
<1>4. Quiet(c, v, e)
  <2>1. Points(c, v) = <<>>
    BY <1>1 DEF Points
  <2> QED
    BY <2>1, EmptySeq DEF Quiet
<1>5. Moved(active', c, v, e)
  <2>1. CASE a.left > 1
    <3>1. active' = [k |-> "nop", left |-> c.count - e - 1]
      BY <1>1, <1>2, <2>1 DEF StepNop
    <3>2. c.count - e - 1 = c.count - (e + 1) /\ e + 1 < c.count /\ e + 1 \in Nat
      BY <1>1, <2>1
    <3>3. active' = [k |-> "nop", left |-> c.count - (e + 1)]
      BY <3>1, <3>2
    <3>4. active' # Idle
      BY <3>3 DEF Idle
    <3> QED
      BY <1>1, <3>2, <3>3, <3>4 DEF Moved, Holds, HoldsNop
  <2>2. CASE ~(a.left > 1)
    <3>1. active' = Idle
      BY <1>2, <2>2 DEF StepNop
    <3>2. Span(c) = c.count
      BY <1>1, WrittenSound DEF Extent
    <3>3. e + 1 = c.count
      BY <1>1, <2>2
    <3> QED
      BY <3>1, <3>2, <3>3 DEF Moved
  <2> QED
    BY <2>1, <2>2
<1> QED
  BY <1>3, <1>4, <1>5 DEF Outcome

(* tick_repeat: the n-th repetition is issued n intervals after the start,  *)
(* less one.                                                                *)
LEMMA RepeatStep ==
  ASSUME NEW c \in Written, NEW v \in Instr, NEW e \in Nat, NEW a, HoldsRepeat(a, c, v, e), Step(a)
  PROVE  Outcome(a, c, v, e)
<1> DEFINE I == c.interval
           N == c.count
           P == Points(c, v)
<1>1. c.k = "repeat" /\ N \in Nat \ {0} /\ I \in Nat \ {0}
  BY WrittenSound DEF HoldsRepeat, Sound
<1>2. PICK i \in 1 .. N, d \in 0 .. I - 1 :
        /\ a = [k |-> "repeat", cmd |-> c, base |-> v, index |-> i, cooldown |-> d]
        /\ e + d = i * I - 1
  BY DEF HoldsRepeat
<1>3. /\ a.k = "repeat" /\ a.cmd = c /\ a.base = v /\ a.index = i /\ a.cooldown = d
      /\ a.cmd.row = c.row /\ a.cmd.count = N /\ a.cmd.interval = I
  BY <1>2
<1>4. StepRepeat(a)
  BY <1>3 DEF Step, StepNop, StepRepeat, StepRepeat2d, StepLoop, StepWriteRead
<1>5. P = [n \in 1 .. N |-> [off |-> n * I - 1, value |-> Move(v, n * c.row)]] /\ Len(P) = N
  <2>1. P = [n \in 1 .. N |-> [off |-> n * I - 1, value |-> Move(v, n * c.row)]]
    BY <1>1 DEF Points
  <2>2. P \in Seq(Point)
    BY WrittenSound, PointSeq
  <2> HIDE DEF P
  <2>3. DOMAIN P = 1 .. Len(P) /\ Len(P) \in Nat /\ DOMAIN P = 1 .. N
    BY <2>1, <2>2, LenProperties
  <2> QED
    BY <1>1, <2>1, <2>3
<1>6. Span(c) = N * I
  BY <1>1, WrittenSound DEF Extent
<1> HIDE DEF N, I, P
<1>7. /\ i \in Nat \ {0} /\ i <= N /\ d \in Nat /\ d <= I - 1
      /\ i * I \in Nat /\ i * I = e + d + 1
  <2>1. i \in Nat \ {0} /\ i <= N /\ d \in Nat /\ d <= I - 1
    BY <1>1
  <2>2. i * I \in Nat
    BY <1>1, <2>1
  <2> QED
    BY <1>2, <2>1, <2>2
<1> DEFINE value == Move(v, i * c.row)
<1>8. CASE d > 0
  <2>1. Silent /\ active' = [a EXCEPT !.cooldown = d - 1]
    BY <1>3, <1>4, <1>8 DEF StepRepeat
  <2>2. active' = [k |-> "repeat", cmd |-> c, base |-> v, index |-> i, cooldown |-> d - 1]
    BY <1>2, <2>1
  <2>3. d - 1 \in 0 .. I - 1 /\ e + 1 + (d - 1) = i * I - 1 /\ e + 1 \in Nat
    BY <1>1, <1>7, <1>8
  <2>4. HoldsRepeat(active', c, v, e + 1)
    BY <1>1, <2>2, <2>3 DEF HoldsRepeat, N, I
  <2>5. active' # Idle
    BY <2>2 DEF Idle
  <2>6. ASSUME NEW n \in 1 .. N PROVE n * I - 1 # e
    <3>1. PICK m \in Nat : m = n * I
      BY <1>1
    <3>2. CASE n < i
      <4>1. n * I + I <= i * I
        BY <1>1, <1>7, <3>2, Carry
      <4> QED
        BY <1>1, <1>7, <1>8, <3>1, <4>1
    <3>3. CASE i <= n
      <4>1. i * I <= n * I
        BY <1>1, <1>7, <3>3, Monotone
      <4> QED
        BY <1>1, <1>7, <1>8, <3>1, <4>1
    <3> QED
      BY <1>7, <3>2, <3>3
  <2>7. Quiet(c, v, e)
    <3>1. \A n \in 1 .. N : P[n].off = n * I - 1
      BY <1>5
    <3>2. \A n \in 1 .. Len(P) : P[n].off # e
      BY <1>5, <2>6, <3>1
    <3> QED
      BY <3>2 DEF Quiet, P
  <2> QED
    BY <2>1, <2>3, <2>4, <2>5, <2>7 DEF Outcome, Moved, Holds
<1>9. CASE d = 0 /\ value.row < 0
  <2>1. value.row \in Int
    <3>1. value \in Instr
      BY <1>1, <1>7, PointValues, WrittenSound
    <3> QED
      BY <3>1 DEF Instr
  <2>2. ~(value.row >= 0)
    BY <1>9, <2>1
  <2>3. Throw("row") /\ active' = a
    BY <1>3, <1>4, <1>9, <2>2 DEF StepRepeat
  <2> QED
    BY <2>3 DEF Outcome
<1>10. CASE d = 0 /\ ~(value.row < 0)
  <2>1. Issue(value) /\ active' = IF i = N THEN Idle ELSE [a EXCEPT !.index = i + 1, !.cooldown = I - 1]
    BY <1>3, <1>4, <1>10 DEF StepRepeat
  <2>2. DueAt(c, v, e, value)
    <3>1. i \in 1 .. Len(P) /\ P[i] = [off |-> i * I - 1, value |-> value]
      BY <1>5
    <3>2. i * I - 1 = e
      BY <1>7, <1>10
    <3> QED
      BY <3>1, <3>2 DEF DueAt, P
  <2>3. CASE i = N
    <3>1. active' = Idle /\ e + 1 = Span(c)
      BY <1>6, <1>7, <1>10, <2>1, <2>3
    <3> QED
      BY <2>1, <2>2, <3>1 DEF Outcome, Moved
  <2>4. CASE i # N
    <3>1. active' = [k |-> "repeat", cmd |-> c, base |-> v, index |-> i + 1, cooldown |-> I - 1]
      BY <1>2, <2>1, <2>4
    <3>2. i + 1 \in 1 .. N /\ I - 1 \in 0 .. I - 1 /\ e + 1 \in Nat
      BY <1>1, <1>7, <2>4
    <3>3. e + 1 + (I - 1) = (i + 1) * I - 1
      <4>1. (i + 1) * I = i * I + I
        BY <1>1, <1>7
      <4> QED
        BY <1>1, <1>7, <1>10, <4>1
    <3>4. HoldsRepeat(active', c, v, e + 1)
      BY <1>1, <3>1, <3>2, <3>3 DEF HoldsRepeat, N, I
    <3>5. active' # Idle
      BY <3>1 DEF Idle
    <3> QED
      BY <2>1, <2>2, <3>2, <3>4, <3>5 DEF Outcome, Moved, Holds
  <2> QED
    BY <2>3, <2>4
<1> QED
  BY <1>7, <1>8, <1>9, <1>10

(* A point of a packet is due at its offset; no other cycle has one.        *)
LEMMA ListedDue ==
  ASSUME NEW c \in Written, NEW v \in Instr, c.k \in {"repeat2d", "loop", "writeread"}
  PROVE  /\ \A e, value : [off |-> e, value |-> value] \in PointSet(c, v) => DueAt(c, v, e, value)
         /\ \A e : (\A p \in PointSet(c, v) : p.off # e) => Quiet(c, v, e)
<1> DEFINE S == PointSet(c, v)
           P == Points(c, v)
<1>1. P = ByOffset(S) /\ Spread(S, Span(c) - 1)
  BY WrittenSound, Swept2
<1>2. P \in Seq(S) /\ \A p \in S : \E k \in 1 .. Len(P) : P[k] = p
  <2> HIDE DEF S
  <2> QED
    BY <1>1, Sorted
<1> HIDE DEF P, S
<1>3. \A k \in 1 .. Len(P) : P[k] \in S
  BY <1>2, ElementOfSeq
<1> QED
  BY <1>2, <1>3 DEF DueAt, Quiet, P, S

(* tick_repeat_2d: the cooldown ends in the cycle of the next cell.         *)
LEMMA Repeat2dStep ==
  ASSUME NEW c \in Written, NEW v \in Instr, NEW e \in Nat, NEW a, HoldsRepeat2d(a, c, v, e), Step(a)
  PROVE  Outcome(a, c, v, e)
<1> DEFINE n == c.counts
           O(y) == Off2(c.intervals, y)
<1>1. c.k = "repeat2d" /\ Sound(c)
  BY WrittenSound DEF HoldsRepeat2d
<1>2. PICK x \in Cells2(n), d \in Nat :
        /\ x # <<0, 0>>
        /\ a = [k |-> "repeat2d", cmd |-> c, base |-> v, x |-> x, cooldown |-> d]
        /\ e + d + 1 = O(x)
        /\ \A y \in Cells2(n) : y # <<0, 0>> => O(y) <= e \/ O(x) <= O(y)
  BY DEF HoldsRepeat2d
<1>3. a.k = "repeat2d" /\ a.cmd = c /\ a.base = v /\ a.x = x /\ a.cooldown = d
  BY <1>2
<1>4. StepRepeat2d(a)
  BY <1>3 DEF Step, StepNop, StepRepeat, StepRepeat2d, StepLoop, StepWriteRead
<1>5. /\ Dense2(n, c.intervals)
      /\ \A y \in Cells2(n) : y # <<0, 0>> =>
           /\ O(y) \in Nat \ {0}
           /\ RepeatPoint(c, v, y) \in RepeatPoints(c, v)
           /\ RepeatPoint(c, v, y).off = O(y) - 1
      /\ \A p \in RepeatPoints(c, v) : \E y \in Cells2(n) : y # <<0, 0>> /\ p = RepeatPoint(c, v, y)
  BY <1>1, RepeatSpread
<1>6. PointSet(c, v) = RepeatPoints(c, v)
  BY <1>1 DEF PointSet
<1> DEFINE value == Move(v, x[1] * c.rows[1] + x[2] * c.rows[2])
           next == IF x[1] + 1 = n[1] THEN <<0, x[2] + 1>> ELSE <<x[1] + 1, x[2]>>
<1>7. /\ \/ d > 0 /\ active' = [a EXCEPT !.cooldown = d - 1] /\ Silent
         \/ d = 0 /\ value.row < 0 /\ Throw("row") /\ active' = a
         \/ /\ d = 0 /\ value.row >= 0 /\ Issue(value)
            /\ active' = IF next[2] = n[2] THEN Idle
                         ELSE [a EXCEPT !.x = next, !.cooldown = Offset2d(c, next) - Offset2d(c, x) - 1]
  BY <1>3, <1>4 DEF StepRepeat2d
<1>8. next = Next2(n, x)
  BY DEF Next2
<1>9. \A y : Offset2d(c, y) = O(y)
  BY DEF Offset2d, Off2
<1> HIDE DEF value, next
<1>10. CASE d > 0 /\ active' = [a EXCEPT !.cooldown = d - 1] /\ Silent
  <2>1. active' = [k |-> "repeat2d", cmd |-> c, base |-> v, x |-> x, cooldown |-> d - 1]
    BY <1>2, <1>10
  <2>2. d - 1 \in Nat /\ e + 1 \in Nat
    BY <1>10
  <2>3. e + 1 + (d - 1) + 1 = O(x)
    BY <1>2, <2>2
  <2>4. \A y \in Cells2(n) : y # <<0, 0>> => O(y) <= e + 1 \/ O(x) <= O(y)
    <3> TAKE y \in Cells2(n)
    <3> HAVE y # <<0, 0>>
    <3>1. O(y) \in Nat
      BY <1>5
    <3>2. O(y) <= e \/ O(x) <= O(y)
      BY <1>2
    <3> HIDE DEF O
    <3> QED
      BY <3>1, <3>2
  <2>5. HoldsRepeat2d(active', c, v, e + 1)
    BY <1>1, <1>2, <2>1, <2>2, <2>3, <2>4 DEF HoldsRepeat2d
  <2>6. active' # Idle
    BY <2>1 DEF Idle
  <2>7. ASSUME NEW p \in PointSet(c, v) PROVE p.off # e
    <3>1. PICK y \in Cells2(n) : y # <<0, 0>> /\ p = RepeatPoint(c, v, y)
      BY <1>5, <1>6
    <3>2. PICK o \in Nat : o = O(y)
      BY <1>5, <3>1
    <3>3. PICK t \in Nat : t = O(x)
      BY <1>2, <1>5
    <3>4. p.off = o - 1 /\ (o <= e \/ t <= o) /\ t = e + d + 1
      BY <1>2, <1>5, <3>1, <3>2, <3>3
    <3> QED
      BY <1>10, <3>4
  <2>8. Quiet(c, v, e)
    BY <1>1, <2>7, ListedDue
  <2> QED
    BY <1>10, <2>2, <2>5, <2>6, <2>8 DEF Outcome, Moved, Holds
<1>11. CASE d = 0 /\ Issue(value) /\ active' = IF next[2] = n[2] THEN Idle
                         ELSE [a EXCEPT !.x = next, !.cooldown = Offset2d(c, next) - Offset2d(c, x) - 1]
  <2>1. O(x) = e + 1
    BY <1>2, <1>11
  <2>2. DueAt(c, v, e, value)
    <3>1. RepeatPoint(c, v, x) \in PointSet(c, v)
      BY <1>2, <1>5, <1>6
    <3>2. RepeatPoint(c, v, x) = [off |-> RepeatPoint(c, v, x).off, value |-> value]
      BY DEF RepeatPoint, value
    <3>3. RepeatPoint(c, v, x).off = e
      <4>1. RepeatPoint(c, v, x).off = O(x) - 1
        BY <1>2, <1>5
      <4> HIDE DEF O
      <4>2. O(x) - 1 = e
        BY <2>1
      <4> QED
        BY <4>1, <4>2
    <3> QED
      BY <1>1, <3>1, <3>2, <3>3, ListedDue
  <2>3. CASE next[2] = n[2]
    <3>1. x = <<n[1] - 1, n[2] - 1>>
      BY <1>5, <1>8, <2>3, Follow2
    <3>2. Span(c) = O(x)
      <4>1. Span(c) = repeat_2d_final_offset(c)
        BY <1>1, WrittenSound DEF Extent
      <4> QED
        BY <3>1, <4>1 DEF repeat_2d_final_offset, Off2
    <3>3. active' = Idle
      BY <1>11, <2>3
    <3> QED
      BY <1>11, <2>1, <2>2, <3>2, <3>3 DEF Outcome, Moved
  <2>4. CASE next[2] # n[2]
    <3>1. /\ next \in Cells2(n) /\ O(x) < O(next)
          /\ \A y \in Cells2(n) : O(y) <= O(x) \/ O(next) <= O(y)
      BY <1>5, <1>8, <2>4, Follow2
    <3>2. active' = [k |-> "repeat2d", cmd |-> c, base |-> v, x |-> next, cooldown |-> O(next) - O(x) - 1]
      BY <1>2, <1>9, <1>11, <2>4
    <3>3. O(next) \in Nat /\ O(x) \in Nat
      BY <1>5, <3>1, Corner2
    <3> HIDE DEF O
    <3>4. O(next) - O(x) - 1 \in Nat /\ e + 1 \in Nat /\ e + 1 + (O(next) - O(x) - 1) + 1 = O(next)
      BY <2>1, <3>1, <3>3
    <3>5. next # <<0, 0>>
      <4>1. O(<<0, 0>>) = 0
        BY <1>5, Corner2 DEF O
      <4> QED
        BY <3>1, <3>3, <4>1
    <3>6. \A y \in Cells2(n) : y # <<0, 0>> => O(y) <= e + 1 \/ O(next) <= O(y)
      BY <2>1, <3>1
    <3>7. HoldsRepeat2d(active', c, v, e + 1)
      BY <1>1, <3>1, <3>2, <3>4, <3>5, <3>6 DEF HoldsRepeat2d, O
    <3>8. active' # Idle
      BY <3>2 DEF Idle
    <3> QED
      BY <1>11, <2>2, <3>4, <3>7, <3>8 DEF Outcome, Moved, Holds
  <2> QED
    BY <2>3, <2>4
<1> QED
  BY <1>7, <1>10, <1>11 DEF Outcome

(* tick_3d: the cell of the counter is the next one due, so that none is    *)
(* missed.                                                                  *)
LEMMA LoopStep ==
  ASSUME NEW c \in Written, NEW v \in Instr, NEW e \in Nat, NEW a, HoldsLoop(a, c, v, e), Step(a)
  PROVE  Outcome(a, c, v, e)
<1> DEFINE n == c.counts
           O(y) == LoopOffset(c, y)
<1>1. c.k = "loop" /\ Sound(c)
  BY WrittenSound DEF HoldsLoop
<1>2. PICK x \in Cells(n) :
        /\ a = [k |-> "loop", cmd |-> c, x |-> x, elapsed |-> e]
        /\ e <= O(x)
        /\ \A y \in Cells(n) : O(y) < e \/ O(x) <= O(y)
  BY DEF HoldsLoop
<1>3. a.k = "loop" /\ a.cmd = c /\ a.x = x /\ a.elapsed = e
  BY <1>2
<1>4. StepLoop(a)
  BY <1>3 DEF Step, StepNop, StepRepeat, StepRepeat2d, StepLoop, StepWriteRead
<1>5. /\ Dense3(n, c.strides) /\ c.wait \in Nat
      /\ \A y \in Cells(n) : O(y) = c.wait + Off3(c.strides, y) /\ O(y) \in Nat
  BY <1>1, LoopSpread
<1>6. PointSet(c, v) = LoopPoints(c)
  BY <1>1 DEF PointSet
<1>7. \/ O(x) > e /\ active' = [a EXCEPT !.elapsed = e + 1] /\ Silent
      \/ O(x) < e
      \/ /\ O(x) = e /\ Issue(LoopValue(c, x))
         /\ active' = IF Digit(c, x) = 4 THEN Idle ELSE [a EXCEPT !.x = Advance(c, x), !.elapsed = e + 1]
  BY <1>3, <1>4 DEF StepLoop
<1>8. O(x) \in Nat /\ ~(O(x) < e)
  <2>1. O(x) \in Nat /\ e <= O(x)
    BY <1>2, <1>5
  <2> HIDE DEF O
  <2> QED
    BY <2>1
<1>9. CASE O(x) > e /\ active' = [a EXCEPT !.elapsed = e + 1] /\ Silent
  <2>1. active' = [k |-> "loop", cmd |-> c, x |-> x, elapsed |-> e + 1]
    BY <1>2, <1>9
  <2>2. e + 1 \in Nat /\ e + 1 <= O(x)
    <3> HIDE DEF O
    <3> QED
      BY <1>8, <1>9
  <2>3. \A y \in Cells(n) : O(y) < e + 1 \/ O(x) <= O(y)
    <3> TAKE y \in Cells(n)
    <3>1. O(y) \in Nat /\ (O(y) < e \/ O(x) <= O(y))
      BY <1>2, <1>5
    <3> HIDE DEF O
    <3> QED
      BY <3>1
  <2>4. HoldsLoop(active', c, v, e + 1)
    BY <1>1, <2>1, <2>2, <2>3 DEF HoldsLoop
  <2>5. active' # Idle
    BY <2>1 DEF Idle
  <2>6. ASSUME NEW p \in PointSet(c, v) PROVE p.off # e
    <3>1. PICK y \in Cells(n) : p = [off |-> O(y), value |-> LoopValue(c, y)]
      BY <1>6 DEF LoopPoints
    <3>2. p.off = O(y) /\ O(y) \in Nat /\ (O(y) < e \/ O(x) <= O(y))
      BY <1>2, <1>5, <3>1
    <3> HIDE DEF O
    <3> QED
      BY <1>8, <1>9, <3>2
  <2>7. Quiet(c, v, e)
    BY <1>1, <2>6, ListedDue
  <2> QED
    BY <1>9, <2>2, <2>4, <2>5, <2>7 DEF Outcome, Moved, Holds
<1>10. CASE /\ O(x) = e /\ Issue(LoopValue(c, x))
            /\ active' = IF Digit(c, x) = 4 THEN Idle ELSE [a EXCEPT !.x = Advance(c, x), !.elapsed = e + 1]
  <2>1. DueAt(c, v, e, LoopValue(c, x))
    <3>1. [off |-> O(x), value |-> LoopValue(c, x)] \in PointSet(c, v)
      BY <1>6 DEF LoopPoints
    <3> QED
      BY <1>1, <1>10, <3>1, ListedDue
  <2>2. CASE Digit(c, x) = 4
    <3>1. x = <<n[1] - 1, n[2] - 1, n[3] - 1>>
      BY <1>5, <2>2, Follow3
    <3>2. Span(c) = O(x) + 1
      <4>1. Span(c) = loop_duration(c)
        BY <1>1, WrittenSound DEF Extent
      <4> DEFINE q1 == (n[1] - 1) * c.strides[1]
                 q2 == (n[2] - 1) * c.strides[2]
                 q3 == (n[3] - 1) * c.strides[3]
      <4>2. {n[1], n[2], n[3], c.strides[1], c.strides[2], c.strides[3]} \subseteq Nat \ {0}
        BY <1>5 DEF Dense3, Dense2
      <4>3. q1 \in Int /\ q2 \in Int /\ q3 \in Int
        BY <4>2
      <4>4. loop_duration(c) = c.wait + q1 + q2 + q3 + 1
        BY DEF loop_duration
      <4>5. O(x) = c.wait + q1 + q2 + q3
        BY <3>1 DEF LoopOffset
      <4> HIDE DEF q1, q2, q3, O
      <4> QED
        BY <1>5, <4>1, <4>3, <4>4, <4>5
    <3>3. active' = Idle
      BY <1>10, <2>2
    <3>4. e + 1 = Span(c)
      BY <1>10, <3>2
    <3> QED
      BY <1>10, <2>1, <3>3, <3>4 DEF Outcome, Moved
  <2>3. CASE Digit(c, x) # 4
    <3> DEFINE next == Advance(c, x)
    <3>1. /\ next \in Cells(n) /\ Off3(c.strides, x) < Off3(c.strides, next)
          /\ \A y \in Cells(n) : Off3(c.strides, y) <= Off3(c.strides, x) \/ Off3(c.strides, next) <= Off3(c.strides, y)
      BY <1>5, <2>3, Follow3
    <3>2. \A y \in Cells(n) : Off3(c.strides, y) \in Nat
      BY <1>5, Corner3
    <3> HIDE DEF next
    <3>3. O(x) < O(next) /\ O(next) \in Nat
      <4> HIDE DEF O
      <4> QED
        BY <1>5, <3>1, <3>2
    <3>4. \A y \in Cells(n) : O(y) <= O(x) \/ O(next) <= O(y)
      <4> TAKE y \in Cells(n)
      <4>1. Off3(c.strides, y) <= Off3(c.strides, x) \/ Off3(c.strides, next) <= Off3(c.strides, y)
        BY <3>1
      <4> HIDE DEF O
      <4> QED
        BY <1>5, <3>1, <3>2, <4>1
    <3>5. active' = [k |-> "loop", cmd |-> c, x |-> next, elapsed |-> e + 1]
      BY <1>2, <1>10, <2>3 DEF next
    <3>6. e + 1 \in Nat /\ e + 1 <= O(next)
      <4> HIDE DEF O
      <4> QED
        BY <1>10, <3>3
    <3>7. \A y \in Cells(n) : O(y) < e + 1 \/ O(next) <= O(y)
      <4> TAKE y \in Cells(n)
      <4>1. O(y) \in Nat /\ (O(y) <= e \/ O(next) <= O(y))
        BY <1>5, <1>10, <3>4
      <4> HIDE DEF O
      <4> QED
        BY <4>1
    <3>8. HoldsLoop(active', c, v, e + 1)
      BY <1>1, <3>1, <3>5, <3>6, <3>7 DEF HoldsLoop
    <3>9. active' # Idle
      BY <3>5 DEF Idle
    <3> QED
      BY <1>10, <2>1, <3>6, <3>8, <3>9 DEF Outcome, Moved, Holds
  <2> QED
    BY <2>2, <2>3
<1> QED
  BY <1>7, <1>8, <1>9, <1>10

(* One side of a write/read packet in a cycle: its cursor is at the next    *)
(* cell due or at the end of the sweep.                                     *)
LEMMA SideStep ==
  ASSUME NEW c \in Written, c.k = "writeread", NEW s \in {1, 2}, NEW p, NEW e \in Nat, SideAt(c, s, p, e)
  PROVE  /\ Swept(c, p) \/ p \in Cells2(c.counts)
         /\ ~(Swept(c, p) /\ p \in Cells2(c.counts))
         /\ Swept(c, p) => SideAt(c, s, p, e + 1) /\ \A y \in Cells2(c.counts) : SideOffset(c, s, y) < e
         /\ p \in Cells2(c.counts) => SideOffset(c, s, p) \in Nat /\ SideOffset(c, s, p) >= e
         /\ p \in Cells2(c.counts) /\ SideOffset(c, s, p) # e =>
              SideAt(c, s, p, e + 1) /\ \A y \in Cells2(c.counts) : SideOffset(c, s, y) # e
         /\ p \in Cells2(c.counts) /\ SideOffset(c, s, p) = e =>
              /\ SideAt(c, s, Next2d(c, p), e + 1)
              /\ Next2d(c, p) \in (0 .. c.counts[1] - 1) \X (0 .. c.counts[2])
<1> DEFINE n == c.counts
           O(y) == SideOffset(c, s, y)
<1>1. Sound(c)
  BY WrittenSound
<1>2. /\ Dense2(n, c.strides[s]) /\ c.offsets[s] \in Nat /\ c.wait \in Nat
      /\ \A y \in Cells2(n) : O(y) = c.wait + c.offsets[s] + Off2(c.strides[s], y) /\ O(y) \in Nat
  BY <1>1, SweepSpread
<1>3. n[1] \in Nat \ {0} /\ n[2] \in Nat \ {0}
  BY <1>2 DEF Dense2
<1>4. \A y \in Cells2(n) : /\ y[1] \in Nat /\ y[2] \in Nat /\ y[1] <= n[1] - 1 /\ y[2] <= n[2] - 1
                           /\ y = <<y[1], y[2]>>
  BY <1>3 DEF Cells2
<1>5. \/ p \in Cells2(n) /\ e <= O(p) /\ \A y \in Cells2(n) : O(y) < e \/ O(p) <= O(y)
      \/ p = <<0, n[2]>> /\ \A y \in Cells2(n) : O(y) < e
  BY DEF SideAt
<1>6. Swept(c, p) <=> p[2] = n[2]
  BY DEF Swept
<1>7. CASE p = <<0, n[2]>> /\ \A y \in Cells2(n) : O(y) < e
  <2>1. Swept(c, p)
    BY <1>6, <1>7
  <2>2. p \notin Cells2(n)
    BY <1>3, <1>4, <1>7
  <2>3. \A y \in Cells2(n) : O(y) < e + 1
    <3> TAKE y \in Cells2(n)
    <3>1. O(y) \in Nat /\ O(y) < e
      BY <1>2, <1>7
    <3> HIDE DEF O
    <3> QED
      BY <3>1
  <2>4. SideAt(c, s, p, e + 1)
    BY <1>7, <2>3 DEF SideAt
  <2> QED
    BY <1>7, <2>1, <2>2, <2>4
<1>8. CASE p \in Cells2(n) /\ e <= O(p) /\ \A y \in Cells2(n) : O(y) < e \/ O(p) <= O(y)
  <2>1. ~Swept(c, p)
    <3>1. p[2] \in Nat /\ p[2] <= n[2] - 1
      BY <1>4, <1>8
    <3> QED
      BY <1>3, <1>6, <3>1
  <2>2. O(p) \in Nat /\ O(p) >= e
    <3>1. O(p) \in Nat /\ e <= O(p)
      BY <1>2, <1>8
    <3> HIDE DEF O
    <3> QED
      BY <3>1
  <2>3. ASSUME O(p) # e
        PROVE  SideAt(c, s, p, e + 1) /\ \A y \in Cells2(n) : O(y) # e
    <3>1. e + 1 <= O(p)
      <4> HIDE DEF O
      <4> QED
        BY <2>2, <2>3
    <3>2. \A y \in Cells2(n) : O(y) < e + 1 \/ O(p) <= O(y)
      <4> TAKE y \in Cells2(n)
      <4>1. O(y) \in Nat /\ (O(y) < e \/ O(p) <= O(y))
        BY <1>2, <1>8
      <4> HIDE DEF O
      <4> QED
        BY <2>2, <4>1
    <3>3. \A y \in Cells2(n) : O(y) # e
      <4> TAKE y \in Cells2(n)
      <4>1. O(y) \in Nat /\ (O(y) < e \/ O(p) <= O(y))
        BY <1>2, <1>8
      <4> HIDE DEF O
      <4> QED
        BY <2>2, <3>1, <4>1
    <3> QED
      BY <1>8, <3>1, <3>2, <3>3 DEF SideAt
  <2>4. ASSUME O(p) = e
        PROVE  SideAt(c, s, Next2d(c, p), e + 1) /\ Next2d(c, p) \in (0 .. n[1] - 1) \X (0 .. n[2])
    <3> DEFINE z == Next2d(c, p)
               F(y) == Off2(c.strides[s], y)
    <3>1. z = Next2(n, p)
      <4>1. p[1] \in Nat /\ p[1] <= n[1] - 1
        BY <1>4, <1>8
      <4>2. p[1] + 1 < n[1] <=> p[1] + 1 # n[1]
        BY <1>3, <4>1
      <4> QED
        BY <4>2 DEF Next2, Next2d
    <3>2. /\ z[2] # n[2] =>
               /\ z \in Cells2(n) /\ F(p) < F(z)
               /\ \A y \in Cells2(n) : F(y) <= F(p) \/ F(z) <= F(y)
          /\ z[2] = n[2] => p = <<n[1] - 1, n[2] - 1>> /\ \A y \in Cells2(n) : F(y) <= F(p)
      BY <1>2, <1>8, <3>1, Follow2
    <3>3. \A y \in Cells2(n) : F(y) \in Nat
      BY <1>2, Corner2
    <3>4. CASE z[2] # n[2]
      <4>1. z \in Cells2(n) /\ O(z) \in Nat /\ F(z) \in Nat /\ F(p) \in Nat /\ F(p) < F(z)
        BY <1>2, <1>8, <3>2, <3>3, <3>4
      <4>2. O(z) = c.wait + c.offsets[s] + F(z) /\ O(p) = c.wait + c.offsets[s] + F(p)
        BY <1>2, <1>8, <4>1
      <4>3. e + 1 <= O(z)
        <5> HIDE DEF O, F, z
        <5> QED
          BY <1>2, <2>4, <4>1, <4>2
      <4>4. \A y \in Cells2(n) : O(y) < e + 1 \/ O(z) <= O(y)
        <5> TAKE y \in Cells2(n)
        <5>1. /\ O(y) = c.wait + c.offsets[s] + F(y) /\ O(y) \in Nat /\ F(y) \in Nat
              /\ F(y) <= F(p) \/ F(z) <= F(y)
          BY <1>2, <3>2, <3>3, <3>4
        <5> HIDE DEF O, F, z
        <5> QED
          BY <1>2, <2>4, <4>1, <4>2, <5>1
      <4>5. z \in (0 .. n[1] - 1) \X (0 .. n[2])
        <5>1. z[1] \in 0 .. n[1] - 1 /\ z[2] \in 0 .. n[2] /\ z = <<z[1], z[2]>>
          <6> HIDE DEF z
          <6>1. z[1] \in Nat /\ z[2] \in Nat /\ z[1] <= n[1] - 1 /\ z[2] <= n[2] - 1 /\ z = <<z[1], z[2]>>
            BY <1>4, <4>1
          <6> QED
            BY <1>3, <6>1
        <5> HIDE DEF z
        <5> QED
          BY <5>1
      <4> QED
        BY <4>1, <4>3, <4>4, <4>5 DEF SideAt
    <3>5. CASE z[2] = n[2]
      <4>1. p = <<n[1] - 1, n[2] - 1>> /\ \A y \in Cells2(n) : F(y) <= F(p)
        BY <3>2, <3>5
      <4>2. z = <<0, n[2]>>
        <5>1. z = IF p[1] + 1 = n[1] THEN <<0, p[2] + 1>> ELSE <<p[1] + 1, p[2]>>
          BY <3>1 DEF Next2
        <5> HIDE DEF z
        <5>2. p[1] = n[1] - 1 /\ p[2] = n[2] - 1
          BY <4>1
        <5> QED
          BY <1>3, <5>1, <5>2
      <4>3. \A y \in Cells2(n) : O(y) < e + 1
        <5> TAKE y \in Cells2(n)
        <5>1. /\ O(y) = c.wait + c.offsets[s] + F(y) /\ O(y) \in Nat /\ F(y) \in Nat /\ F(y) <= F(p)
              /\ F(p) \in Nat /\ O(p) = c.wait + c.offsets[s] + F(p)
          BY <1>2, <1>8, <3>3, <4>1
        <5> HIDE DEF O, F, z
        <5> QED
          BY <1>2, <2>4, <5>1
      <4>4. z \in (0 .. n[1] - 1) \X (0 .. n[2])
        <5>1. 0 \in 0 .. n[1] - 1 /\ n[2] \in 0 .. n[2]
          BY <1>3
        <5> HIDE DEF z
        <5> QED
          BY <4>2, <5>1
      <4> QED
        BY <4>2, <4>3, <4>4 DEF SideAt
    <3> QED
      BY <3>4, <3>5
  <2> QED
    BY <1>8, <2>1, <2>2, <2>3, <2>4
<1> QED
  BY <1>5, <1>7, <1>8

(* tick_mem_write_read_2d: the side that is due issues, the sides never     *)
(* want the port together, and no cell is missed.                           *)
LEMMA WriteReadStep ==
  ASSUME NEW c \in Written, NEW v \in Instr, NEW e \in Nat, NEW a, HoldsWriteRead(a, c, v, e), Step(a)
  PROVE  Outcome(a, c, v, e)
<1> DEFINE n == c.counts
           D == (0 .. n[1] - 1) \X (0 .. n[2])
           O(s, y) == SideOffset(c, s, y)
<1>1. c.k = "writeread" /\ Sound(c)
  BY WrittenSound DEF HoldsWriteRead
<1>2. PICK p \in D, q \in D :
        /\ a = [k |-> "writeread", cmd |-> c, x |-> <<p, q>>, elapsed |-> e]
        /\ SideAt(c, 1, p, e) /\ SideAt(c, 2, q, e)
        /\ p \in Cells2(n) \/ q \in Cells2(n)
  BY DEF HoldsWriteRead
<1> DEFINE X(s) == IF s = 1 THEN p ELSE q
<1>3. a.k = "writeread" /\ a.cmd = c /\ a.elapsed = e /\ a.x[1] = X(1) /\ a.x[2] = X(2)
  BY <1>2
<1>4. StepWriteRead(a)
  BY <1>3 DEF Step, StepNop, StepRepeat, StepRepeat2d, StepLoop, StepWriteRead
<1>5. /\ \A s \in {1, 2}, y \in Cells2(n) :
           /\ O(s, y) \in Nat
           /\ [off |-> O(s, y), value |-> SideValue(c, s, y)] \in SweepPoints(c)
      /\ \A t \in SweepPoints(c) : \E s \in {1, 2}, y \in Cells2(n) :
           t = [off |-> O(s, y), value |-> SideValue(c, s, y)]
      /\ \A x, y \in Cells2(n) : O(1, x) # O(2, y)
      /\ Spread(SweepPoints(c), last_issue_cycle(c))
      /\ \E t \in SweepPoints(c) : t.off = last_issue_cycle(c)
  BY <1>1, SweepSpread
<1>6. PointSet(c, v) = SweepPoints(c)
  BY <1>1 DEF PointSet
<1>7. \A s \in {1, 2} : X(s) \in D /\ SideAt(c, s, X(s), e)
  BY <1>2
<1>8. \E s \in {1, 2} : X(s) \in Cells2(n)
  BY <1>2
<1> HIDE DEF X, D
<1>9. \A s \in {1, 2} :
        /\ Swept(c, X(s)) \/ X(s) \in Cells2(n)
        /\ ~(Swept(c, X(s)) /\ X(s) \in Cells2(n))
        /\ Swept(c, X(s)) => SideAt(c, s, X(s), e + 1) /\ \A y \in Cells2(n) : O(s, y) < e
        /\ X(s) \in Cells2(n) => O(s, X(s)) \in Nat /\ O(s, X(s)) >= e
        /\ X(s) \in Cells2(n) /\ O(s, X(s)) # e =>
              SideAt(c, s, X(s), e + 1) /\ \A y \in Cells2(n) : O(s, y) # e
        /\ X(s) \in Cells2(n) /\ O(s, X(s)) = e =>
              SideAt(c, s, Next2d(c, X(s)), e + 1) /\ Next2d(c, X(s)) \in D
  BY <1>1, <1>7, SideStep DEF D
<1> DEFINE open == {s \in {1, 2} : ~Swept(c, X(s))}
           due(s) == O(s, X(s))
           side == CHOOSE s \in open : \A r \in open : due(s) <= due(r)
<1>10. \A s \in {1, 2} : ~Swept(c, X(s)) <=> X(s) \in Cells2(n)
  BY <1>9
<1>11. \A s \in open : s \in {1, 2} /\ X(s) \in Cells2(n) /\ due(s) \in Nat /\ due(s) >= e
  BY <1>9, <1>10
<1>12. side \in open /\ \A r \in open : due(side) <= due(r)
  <2> DEFINE d1 == due(1)
             d2 == due(2)
             L(s) == \A r \in open : due(s) <= due(r)
  <2>1. open = {1} \/ open = {2} \/ open = {1, 2}
    <3>1. \E s \in {1, 2} : ~Swept(c, X(s))
      BY <1>8, <1>10
    <3> QED
      BY <3>1
  <2>2. (1 \in open => d1 \in Nat) /\ (2 \in open => d2 \in Nat)
    BY <1>11
  <2>3. \E s \in open : L(s)
    <3>1. CASE open = {1}
      <4>1. \A r \in open : r = 1
        BY <3>1
      <4>2. d1 <= d1
        <5> HIDE DEF d1
        <5> QED
          BY <2>2, <3>1
      <4> QED
        BY <3>1, <4>1, <4>2
    <3>2. CASE open = {2}
      <4>1. \A r \in open : r = 2
        BY <3>2
      <4>2. d2 <= d2
        <5> HIDE DEF d2
        <5> QED
          BY <2>2, <3>2
      <4> QED
        BY <3>2, <4>1, <4>2
    <3>3. CASE open = {1, 2}
      <4>1. d1 \in Nat /\ d2 \in Nat
        BY <2>2, <3>3
      <4>2. (d1 <= d1 /\ d1 <= d2) \/ (d2 <= d1 /\ d2 <= d2)
        <5> HIDE DEF d1, d2
        <5> QED
          BY <4>1
      <4>3. L(1) \/ L(2)
        <5>1. \A r \in open : r = 1 \/ r = 2
          BY <3>3
        <5>2. CASE d1 <= d1 /\ d1 <= d2
          <6>1. L(1)
            BY <5>1, <5>2
          <6> QED
            BY <6>1
        <5>3. CASE d2 <= d1 /\ d2 <= d2
          <6>1. L(2)
            BY <5>1, <5>3
          <6> QED
            BY <6>1
        <5> QED
          BY <4>2, <5>2, <5>3
      <4> QED
        BY <3>3, <4>3
    <3> QED
      BY <2>1, <3>1, <3>2, <3>3
  <2>4. side = CHOOSE s \in open : L(s)
    OBVIOUS
  <2> HIDE DEF open, L, side
  <2>5. side \in open /\ L(side)
    BY <2>3, <2>4
  <2> QED
    BY <2>5 DEF L
<1> DEFINE next == [a EXCEPT !.x[side] = Next2d(c, a.x[side]), !.elapsed = a.elapsed + 1]
<1>13. \/ open = {1, 2} /\ due(1) = due(2)
       \/ due(side) < e
       \/ due(side) > e /\ active' = [a EXCEPT !.elapsed = e + 1] /\ Silent
       \/ /\ due(side) = e /\ Issue(SideValue(c, side, X(side)))
          /\ active' = IF \A s \in {1, 2} : Swept(c, next.x[s]) THEN Idle ELSE next
  <2>1. {s \in {1, 2} : ~Swept(c, a.x[s])} = open
    BY <1>3
  <2>2. \A s \in {1, 2} : SideOffset(c, s, a.x[s]) = due(s)
    BY <1>3
  <2> DEFINE DU(s) == SideOffset(c, s, a.x[s])
             SD == CHOOSE s \in open : \A r \in open : DU(s) <= DU(r)
  <2>3. SD = side
    <3>1. \A s \in open : DU(s) = due(s)
      BY <2>2
    <3>2. \A s \in open : (\A r \in open : DU(s) <= DU(r)) <=> (\A r \in open : due(s) <= due(r))
      <4> HIDE DEF open, DU, due
      <4> QED
        BY <3>1
    <3> DEFINE L1(s) == \A r \in open : DU(s) <= DU(r)
               L2(s) == \A r \in open : due(s) <= due(r)
    <3>3. \A s \in open : L1(s) <=> L2(s)
      BY <3>2
    <3>4. SD = (CHOOSE s \in open : L1(s)) /\ side = (CHOOSE s \in open : L2(s))
      OBVIOUS
    <3> HIDE DEF L1, L2, SD, side, open
    <3> QED
      BY <3>3, <3>4
  <2>4. /\ SD \in {1, 2} /\ a.x[SD] = X(SD) /\ DU(SD) = due(SD)
    BY <1>3, <1>12, <2>2, <2>3
  <2>5. /\ DU(1) = due(1) /\ DU(2) = due(2)
    BY <2>2
  <2> DEFINE nx == [a EXCEPT !.x[SD] = Next2d(c, a.x[SD]), !.elapsed = a.elapsed + 1]
  <2>6. \/ open = {1, 2} /\ DU(1) = DU(2)
        \/ DU(SD) < e
        \/ DU(SD) > e /\ active' = [a EXCEPT !.elapsed = e + 1] /\ Silent
        \/ /\ DU(SD) = e /\ Issue(SideValue(c, SD, a.x[SD]))
           /\ active' = IF \A s \in {1, 2} : Swept(c, nx.x[s]) THEN Idle ELSE nx
    <3> DEFINE OP == {s \in {1, 2} : ~Swept(c, a.x[s])}
               S2 == CHOOSE s \in OP : \A r \in OP : DU(s) <= DU(r)
               n2 == [a EXCEPT !.x[S2] = Next2d(c, a.x[S2]), !.elapsed = a.elapsed + 1]
    <3>1. \/ OP = {1, 2} /\ DU(1) = DU(2)
          \/ DU(S2) < a.elapsed
          \/ DU(S2) > a.elapsed /\ active' = [a EXCEPT !.elapsed = a.elapsed + 1] /\ Silent
          \/ /\ DU(S2) = a.elapsed /\ Issue(SideValue(c, S2, a.x[S2]))
             /\ active' = IF \A s \in {1, 2} : Swept(c, n2.x[s]) THEN Idle ELSE n2
      BY <1>3, <1>4 DEF StepWriteRead
    <3>2. OP = open
      BY <2>1
    <3>3. S2 = SD
      BY <3>2
    <3> HIDE DEF S2, SD, OP, open
    <3> QED
      BY <1>3, <3>1, <3>2, <3>3
  <2> HIDE DEF SD, DU, side, open, due
  <2> QED
    BY <2>3, <2>4, <2>5, <2>6
<1>14. ~(open = {1, 2} /\ due(1) = due(2))
  <2> SUFFICES ASSUME open = {1, 2}, due(1) = due(2) PROVE FALSE
    OBVIOUS
  <2>1. X(1) \in Cells2(n) /\ X(2) \in Cells2(n)
    BY <1>11
  <2>2. O(1, X(1)) # O(2, X(2))
    BY <1>5, <2>1
  <2> QED
    BY <2>2
<1>15. ~(due(side) < e)
  <2>1. due(side) \in Nat /\ due(side) >= e
    BY <1>11, <1>12
  <2> HIDE DEF due, side
  <2> QED
    BY <2>1
<1>16. CASE due(side) > e /\ active' = [a EXCEPT !.elapsed = e + 1] /\ Silent
  <2>1. active' = [k |-> "writeread", cmd |-> c, x |-> <<p, q>>, elapsed |-> e + 1]
    BY <1>2, <1>16
  <2>2. \A s \in open : due(s) # e
    <3> TAKE s \in open
    <3>1. due(s) \in Nat /\ due(side) <= due(s) /\ due(side) \in Nat
      BY <1>11, <1>12
    <3> HIDE DEF due, side
    <3> QED
      BY <1>16, <3>1
  <2>3. ASSUME NEW s \in {1, 2}
        PROVE  SideAt(c, s, X(s), e + 1) /\ \A y \in Cells2(n) : O(s, y) # e
    <3>1. CASE s \in open
      BY <1>9, <1>10, <2>2, <3>1
    <3>2. CASE s \notin open
      <4>1. Swept(c, X(s))
        BY <3>2
      <4>2. SideAt(c, s, X(s), e + 1) /\ \A y \in Cells2(n) : O(s, y) \in Nat /\ O(s, y) < e
        BY <1>5, <1>9, <4>1
      <4>3. \A y \in Cells2(n) : O(s, y) # e
        <5> HIDE DEF O
        <5> QED
          BY <4>2
      <4> QED
        BY <4>2, <4>3
    <3> QED
      BY <3>1, <3>2
  <2>4. SideAt(c, 1, p, e + 1) /\ SideAt(c, 2, q, e + 1)
    BY <2>3 DEF X
  <2>5. HoldsWriteRead(active', c, v, e + 1)
    BY <1>1, <1>2, <2>1, <2>4 DEF HoldsWriteRead, D
  <2>6. active' # Idle
    BY <2>1 DEF Idle
  <2>7. \A t \in PointSet(c, v) : t.off # e
    <3> TAKE t \in PointSet(c, v)
    <3>1. PICK s \in {1, 2}, y \in Cells2(n) : t = [off |-> O(s, y), value |-> SideValue(c, s, y)]
      BY <1>5, <1>6
    <3>2. O(s, y) # e
      BY <2>3
    <3> QED
      BY <3>1, <3>2
  <2>8. Quiet(c, v, e)
    BY <1>1, <2>7, ListedDue
  <2> QED
    BY <1>16, <2>5, <2>6, <2>8 DEF Outcome, Moved, Holds
<1>17. CASE /\ due(side) = e /\ Issue(SideValue(c, side, X(side)))
            /\ active' = IF \A s \in {1, 2} : Swept(c, next.x[s]) THEN Idle ELSE next
  <2>1. side \in {1, 2} /\ X(side) \in Cells2(n)
    BY <1>11, <1>12
  <2>2. DueAt(c, v, e, SideValue(c, side, X(side)))
    <3>1. [off |-> O(side, X(side)), value |-> SideValue(c, side, X(side))] \in PointSet(c, v)
      BY <1>5, <1>6, <2>1
    <3>2. O(side, X(side)) = e
      BY <1>17
    <3> HIDE DEF side
    <3> QED
      BY <1>1, <3>1, <3>2, ListedDue
  <2> DEFINE p1 == IF side = 1 THEN Next2d(c, p) ELSE p
             q1 == IF side = 2 THEN Next2d(c, q) ELSE q
             Y(s) == IF s = 1 THEN p1 ELSE q1
  <2>3. next = [k |-> "writeread", cmd |-> c, x |-> <<p1, q1>>, elapsed |-> e + 1]
    <3>1. CASE side = 1
      <4>1. next = [a EXCEPT !.x[1] = Next2d(c, p), !.elapsed = e + 1]
        BY <1>3, <3>1 DEF X
      <4>2. [<<p, q>> EXCEPT ![1] = Next2d(c, p)] = <<Next2d(c, p), q>>
        OBVIOUS
      <4>3. p1 = Next2d(c, p) /\ q1 = q
        <5> HIDE DEF side
        <5> QED
          BY <3>1
      <4> HIDE DEF next, side, p1, q1
      <4> QED
        BY <1>2, <4>1, <4>2, <4>3
    <3>2. CASE side = 2
      <4>1. next = [a EXCEPT !.x[2] = Next2d(c, q), !.elapsed = e + 1]
        <5>1. X(2) = q
          BY DEF X
        <5> HIDE DEF side
        <5> QED
          BY <1>3, <3>2, <5>1
      <4>2. [<<p, q>> EXCEPT ![2] = Next2d(c, q)] = <<p, Next2d(c, q)>>
        OBVIOUS
      <4>3. p1 = p /\ q1 = Next2d(c, q)
        <5> HIDE DEF side
        <5> QED
          BY <3>2
      <4> HIDE DEF next, side, p1, q1
      <4> QED
        BY <1>2, <4>1, <4>2, <4>3
    <3> QED
      BY <2>1, <3>1, <3>2
  <2>4. \A s \in {1, 2} : next.x[s] = Y(s) /\ Y(s) = IF s = side THEN Next2d(c, X(s)) ELSE X(s)
    <3>1. next.x[1] = p1 /\ next.x[2] = q1
      <4> HIDE DEF next, p1, q1
      <4> QED
        BY <2>3
    <3>2. side = 1 \/ side = 2
      BY <2>1
    <3> HIDE DEF next, side
    <3> QED
      BY <3>1, <3>2 DEF X
  <2> HIDE DEF next, side, p1, q1, Y
  <2>5. ASSUME NEW s \in {1, 2}
        PROVE  SideAt(c, s, Y(s), e + 1) /\ Y(s) \in D
    <3>1. CASE s = side
      <4>1. O(s, X(s)) = e /\ X(s) \in Cells2(n)
        BY <1>17, <2>1, <3>1
      <4>2. SideAt(c, s, Next2d(c, X(s)), e + 1) /\ Next2d(c, X(s)) \in D
        BY <1>9, <4>1
      <4> QED
        BY <2>4, <3>1, <4>2
    <3>2. CASE s # side
      <4>1. Y(s) = X(s) /\ X(s) \in D
        BY <1>7, <2>4, <3>2 DEF D
      <4>2. SideAt(c, s, X(s), e + 1)
        <5>1. CASE Swept(c, X(s))
          BY <1>9, <5>1
        <5>2. CASE X(s) \in Cells2(n)
          <6>1. O(1, X(1)) # O(2, X(2)) \/ ~(X(1) \in Cells2(n) /\ X(2) \in Cells2(n))
            BY <1>5
          <6>2. O(s, X(s)) # O(side, X(side))
            <7>1. (s = 1 /\ side = 2) \/ (s = 2 /\ side = 1)
              BY <2>1, <3>2
            <7> HIDE DEF O
            <7> QED
              BY <2>1, <5>2, <6>1, <7>1
          <6>3. O(s, X(s)) # e
            BY <1>17, <6>2
          <6> QED
            BY <1>9, <5>2, <6>3
        <5> QED
          BY <1>9, <5>1, <5>2
      <4> QED
        BY <4>1, <4>2
    <3> QED
      BY <3>1, <3>2
  <2>6. /\ SideAt(c, 1, p1, e + 1) /\ SideAt(c, 2, q1, e + 1) /\ p1 \in D /\ q1 \in D
    BY <2>5 DEF Y
  <2>7. e + 1 \in Nat /\ \A s \in {1, 2} :
             /\ Swept(c, Y(s)) \/ Y(s) \in Cells2(n)
             /\ Swept(c, Y(s)) => \A y \in Cells2(n) : O(s, y) < e + 1
    <3>1. e + 1 \in Nat
      OBVIOUS
    <3> QED
      BY <1>1, <2>5, <3>1, SideStep
  <2>8. CASE \A s \in {1, 2} : Swept(c, Y(s))
    <3>1. active' = Idle
      BY <1>17, <2>4, <2>8
    <3>2. PICK t \in SweepPoints(c) : t.off = last_issue_cycle(c)
      BY <1>5
    <3>3. PICK s \in {1, 2}, y \in Cells2(n) : t = [off |-> O(s, y), value |-> SideValue(c, s, y)]
      BY <1>5, <3>2
    <3>4. last_issue_cycle(c) = O(s, y) /\ O(s, y) \in Nat /\ O(s, y) < e + 1
      BY <1>5, <2>7, <2>8, <3>2, <3>3
    <3>5. e <= last_issue_cycle(c)
      <4> DEFINE w == [off |-> O(side, X(side)), value |-> SideValue(c, side, X(side))]
      <4>1. w \in SweepPoints(c)
        BY <1>5, <2>1
      <4>2. w.off = e
        BY <1>17
      <4>3. w.off \in 0 .. last_issue_cycle(c)
        BY <1>5, <4>1 DEF Spread
      <4> HIDE DEF w
      <4> QED
        BY <4>2, <4>3, <3>4
    <3>6. e + 1 = last_issue_cycle(c) + 1
      <4> HIDE DEF O
      <4> QED
        BY <3>4, <3>5
    <3>7. Span(c) = last_issue_cycle(c) + 1
      BY <1>1, WrittenSound DEF Extent
    <3>8. Moved(active', c, v, e)
      BY <3>1, <3>6, <3>7 DEF Moved
    <3> QED
      BY <1>17, <2>2, <3>8 DEF Outcome
  <2>9. CASE ~\A s \in {1, 2} : Swept(c, Y(s))
    <3>1. active' = [k |-> "writeread", cmd |-> c, x |-> <<p1, q1>>, elapsed |-> e + 1]
      BY <1>17, <2>3, <2>4, <2>9
    <3>2. p1 \in Cells2(n) \/ q1 \in Cells2(n)
      BY <2>7, <2>9 DEF Y
    <3>3. HoldsWriteRead(active', c, v, e + 1)
      BY <1>1, <2>6, <3>1, <3>2 DEF HoldsWriteRead, D
    <3>4. active' # Idle
      BY <3>1 DEF Idle
    <3> QED
      BY <1>17, <2>2, <2>7, <3>3, <3>4 DEF Outcome, Moved, Holds
  <2> QED
    BY <2>8, <2>9
<1> QED
  BY <1>13, <1>14, <1>15, <1>16, <1>17

(* Whatever owns the port, a cycle of it issues what its command schedules  *)
(* then.                                                                    *)
LEMMA StepOutcome ==
  ASSUME NEW c \in Written, NEW v \in Instr, NEW e, NEW a, Holds(a, c, v, e), Step(a)
  PROVE  Outcome(a, c, v, e)
<1>1. e \in Nat
  BY DEF Holds
<1> QED
  BY <1>1, NopStep, RepeatStep, Repeat2dStep, LoopStep, WriteReadStep DEF Holds

-----------------------------------------------------------------------------
(* A command that gets the port owns it as the scheduler of its program has *)
(* it begin.                                                                *)
LEMMA Activation ==
  ASSUME NEW c \in Written, c.k \in {"nop", "repeat", "repeat2d", "loop", "writeread"}
  PROVE  Holds(Activated(c), c, last, 0)
<1>1. Sound(c) /\ (c.k = "nop" => c.count \in Nat \ {0})
  BY WrittenSound
<1>2. CASE c.k = "nop"
  <2>1. Activated(c) = [k |-> "nop", left |-> c.count]
    BY <1>2 DEF Activated
  <2>2. c.count - 0 = c.count /\ 0 < c.count
    BY <1>1, <1>2
  <2>3. HoldsNop(Activated(c), c, last, 0)
    BY <1>2, <2>1, <2>2 DEF HoldsNop
  <2> QED
    BY <2>3 DEF Holds
<1>3. CASE c.k = "repeat"
  <2>1. Activated(c) = [k |-> "repeat", cmd |-> c, base |-> last, index |-> 1, cooldown |-> c.interval - 1]
    BY <1>3 DEF Activated
  <2>2. c.count \in Nat \ {0} /\ c.interval \in Nat \ {0}
    BY <1>1, <1>3 DEF Sound
  <2>3. 1 \in 1 .. c.count /\ c.interval - 1 \in 0 .. c.interval - 1
        /\ 0 + (c.interval - 1) = 1 * c.interval - 1
    BY <2>2
  <2>4. HoldsRepeat(Activated(c), c, last, 0)
    BY <1>3, <2>1, <2>3 DEF HoldsRepeat
  <2> QED
    BY <2>4 DEF Holds
<1>4. CASE c.k = "repeat2d"
  <2> DEFINE n == c.counts
             s == c.intervals
             z == <<0, 0>>
             x == IF n[1] > 1 THEN <<1, 0>> ELSE <<0, 1>>
             F(y) == Off2(s, y)
  <2>1. Activated(c) = [k |-> "repeat2d", cmd |-> c, base |-> last, x |-> x, cooldown |-> F(x) - 1]
    <3>1. Offset2d(c, x) = F(x)
      BY DEF Offset2d, Off2
    <3> QED
      BY <1>4, <3>1 DEF Activated
  <2>2. Dense2(n, s) /\ (n[1] > 1 \/ n[2] > 1) /\ n[1] \in Nat \ {0} /\ n[2] \in Nat \ {0}
    BY <1>1, <1>4, RepeatSpread DEF Dense2
  <2>3. x = Next2(n, z)
    <3>1. n[1] > 1 <=> 0 + 1 # n[1]
      BY <2>2
    <3> QED
      BY <3>1 DEF Next2
  <2>4. x \in Cells2(n) /\ x # z
    <3>1. CASE n[1] > 1
      <4>1. 1 \in 0 .. n[1] - 1 /\ 0 \in 0 .. n[2] - 1 /\ x = <<1, 0>>
        BY <2>2, <3>1
      <4> QED
        BY <4>1 DEF Cells2
    <3>2. CASE ~(n[1] > 1)
      <4>1. 0 \in 0 .. n[1] - 1 /\ 1 \in 0 .. n[2] - 1 /\ x = <<0, 1>>
        BY <2>2, <3>2
      <4> QED
        BY <4>1 DEF Cells2
    <3> QED
      BY <3>1, <3>2
  <2> HIDE DEF x
  <2>5. z \in Cells2(n) /\ F(z) = 0 /\ \A y \in Cells2(n) : F(y) \in Nat /\ (F(y) = F(z) => y = z)
    BY <2>2, Corner2
  <2>6. Next2(n, z)[2] # n[2]
    <3>1. x[2] \in 0 .. n[2] - 1
      BY <2>4 DEF Cells2
    <3>2. x[2] # n[2]
      BY <2>2, <3>1
    <3> QED
      BY <2>3, <3>2
  <2>7. F(z) < F(x) /\ \A y \in Cells2(n) : F(y) <= F(z) \/ F(x) <= F(y)
    BY <2>2, <2>3, <2>5, <2>6, Follow2
  <2>8. F(x) - 1 \in Nat /\ 0 + (F(x) - 1) + 1 = F(x)
    <3>1. F(x) \in Nat /\ 0 < F(x)
      BY <2>4, <2>5, <2>7
    <3> HIDE DEF F
    <3> QED
      BY <3>1
  <2>9. \A y \in Cells2(n) : y # z => F(y) <= 0 \/ F(x) <= F(y)
    BY <2>5, <2>7
  <2>10. HoldsRepeat2d(Activated(c), c, last, 0)
    BY <1>4, <2>1, <2>4, <2>8, <2>9 DEF HoldsRepeat2d
  <2> QED
    BY <2>10 DEF Holds
<1>5. CASE c.k = "loop"
  <2> DEFINE x == <<0, 0, 0>>
             O(y) == LoopOffset(c, y)
  <2>1. Activated(c) = [k |-> "loop", cmd |-> c, x |-> x, elapsed |-> 0]
    BY <1>5 DEF Activated
  <2>2. /\ Dense3(c.counts, c.strides) /\ c.wait \in Nat
        /\ \A y \in Cells(c.counts) : O(y) = c.wait + Off3(c.strides, y) /\ O(y) \in Nat
    BY <1>1, <1>5, LoopSpread
  <2>3. x \in Cells(c.counts) /\ Off3(c.strides, x) = 0 /\ \A y \in Cells(c.counts) : Off3(c.strides, y) \in Nat
    BY <2>2, Corner3
  <2>4. 0 <= O(x) /\ \A y \in Cells(c.counts) : O(x) <= O(y)
    <3>1. O(x) = c.wait + 0
      BY <2>2, <2>3
    <3>2. \A y \in Cells(c.counts) : O(y) = c.wait + Off3(c.strides, y) /\ Off3(c.strides, y) \in Nat
      BY <2>2, <2>3
    <3> HIDE DEF O, x
    <3> QED
      BY <2>2, <3>1, <3>2
  <2>5. HoldsLoop(Activated(c), c, last, 0)
    BY <1>5, <2>1, <2>3, <2>4 DEF HoldsLoop
  <2> QED
    BY <2>5 DEF Holds
<1>6. CASE c.k = "writeread"
  <2> DEFINE z == <<0, 0>>
             n == c.counts
             O(s, y) == SideOffset(c, s, y)
  <2>1. Activated(c) = [k |-> "writeread", cmd |-> c, x |-> <<z, z>>, elapsed |-> 0]
    BY <1>6 DEF Activated
  <2>2. /\ c.wait \in Nat /\ \A s \in {1, 2} : Dense2(n, c.strides[s]) /\ c.offsets[s] \in Nat
        /\ \A s \in {1, 2}, y \in Cells2(n) :
             /\ O(s, y) = c.wait + c.offsets[s] + Off2(c.strides[s], y)
             /\ O(s, y) \in Nat
    BY <1>1, <1>6, SweepSpread
  <2>3. ASSUME NEW s \in {1, 2} PROVE SideAt(c, s, z, 0)
    <3>1. z \in Cells2(n) /\ Off2(c.strides[s], z) = 0 /\ \A y \in Cells2(n) : Off2(c.strides[s], y) \in Nat
      BY <2>2, Corner2
    <3>2. O(s, z) \in Nat /\ O(s, z) = c.wait + c.offsets[s] + 0
      BY <2>2, <3>1
    <3>3. \A y \in Cells2(n) : O(s, y) = c.wait + c.offsets[s] + Off2(c.strides[s], y) /\ Off2(c.strides[s], y) \in Nat
      BY <2>2, <3>1
    <3>4. 0 <= O(s, z) /\ \A y \in Cells2(n) : O(s, z) <= O(s, y)
      <4> HIDE DEF O, z
      <4> QED
        BY <2>2, <3>2, <3>3
    <3> QED
      BY <3>1, <3>4 DEF SideAt
  <2>4. z \in Cells2(n) /\ z \in (0 .. n[1] - 1) \X (0 .. n[2])
    <3>1. n[1] \in Nat \ {0} /\ n[2] \in Nat \ {0}
      BY <2>2 DEF Dense2
    <3>2. 0 \in 0 .. n[1] - 1 /\ 0 \in 0 .. n[2] - 1 /\ 0 \in 0 .. n[2]
      BY <3>1
    <3> QED
      BY <3>2 DEF Cells2
  <2>5. HoldsWriteRead(Activated(c), c, last, 0)
    <3> HIDE DEF z
    <3> QED
      BY <1>6, <2>1, <2>3, <2>4 DEF HoldsWriteRead
  <2> QED
    BY <2>5 DEF Holds
<1> QED
  BY <1>2, <1>3, <1>4, <1>5, <1>6

(* An owner is not idle, and its command has cycles left.                   *)
LEMMA HoldsFacts ==
  ASSUME NEW c \in Written, NEW v \in Instr, NEW e, NEW a, Holds(a, c, v, e)
  PROVE  a # Idle /\ e \in Nat /\ e < Span(c)
<1>1. e \in Nat /\ Sound(c) /\ Span(c) = Extent(c) /\ Span(c) \in Nat
  BY WrittenSound DEF Holds
<1>2. CASE HoldsNop(a, c, v, e)
  BY <1>1, <1>2 DEF HoldsNop, Idle, Extent
<1>3. CASE HoldsRepeat(a, c, v, e)
  <2> DEFINE N == c.count
             I == c.interval
  <2>1. c.k = "repeat" /\ N \in Nat \ {0} /\ I \in Nat \ {0}
    BY <1>1, <1>3 DEF HoldsRepeat, Sound
  <2>2. PICK i \in 1 .. N, d \in 0 .. I - 1 :
           /\ a = [k |-> "repeat", cmd |-> c, base |-> v, index |-> i, cooldown |-> d]
           /\ e + d = i * I - 1
    BY <1>3 DEF HoldsRepeat
  <2>3. a # Idle /\ Span(c) = N * I
    BY <1>1, <2>1, <2>2 DEF Idle, Extent
  <2> HIDE DEF N, I
  <2>4. i \in Nat /\ i <= N /\ d \in Nat /\ i * I \in Nat
    BY <2>1
  <2>5. i * I <= N * I
    BY <2>1, <2>4, Monotone
  <2>6. e + 1 <= i * I
    BY <1>1, <2>2, <2>4
  <2> QED
    BY <1>1, <2>3, <2>4, <2>5, <2>6
<1>4. ASSUME NEW o \in Nat, e <= o, NEW p \in PointSet(c, v), p.off = o, c.k \in {"repeat2d", "loop", "writeread"}
      PROVE  e < Span(c)
  <2>1. Spread(PointSet(c, v), Span(c) - 1)
    BY <1>1, <1>4, Swept2
  <2>2. o \in 0 .. Span(c) - 1
    BY <1>4, <2>1 DEF Spread
  <2> QED
    BY <1>1, <1>4, <2>2
<1>5. CASE HoldsRepeat2d(a, c, v, e)
  <2> DEFINE F(y) == Off2(c.intervals, y)
  <2>1. c.k = "repeat2d"
    BY <1>5 DEF HoldsRepeat2d
  <2>2. PICK x \in Cells2(c.counts), d \in Nat :
           /\ x # <<0, 0>>
           /\ a = [k |-> "repeat2d", cmd |-> c, base |-> v, x |-> x, cooldown |-> d]
           /\ e + d + 1 = F(x)
    BY <1>5 DEF HoldsRepeat2d
  <2>3. F(x) \in Nat \ {0} /\ RepeatPoint(c, v, x) \in PointSet(c, v) /\ RepeatPoint(c, v, x).off = F(x) - 1
    BY <1>1, <2>1, <2>2, RepeatSpread DEF PointSet
  <2>4. F(x) - 1 \in Nat /\ e <= F(x) - 1
    <3> HIDE DEF F
    <3> QED
      BY <1>1, <2>2, <2>3
  <2>5. e < Span(c)
    <3> HIDE DEF F
    <3> QED
      BY <1>4, <2>1, <2>3, <2>4
  <2> QED
    BY <1>1, <2>2, <2>5 DEF Idle
<1>6. CASE HoldsLoop(a, c, v, e)
  <2>1. c.k = "loop"
    BY <1>6 DEF HoldsLoop
  <2>2. PICK x \in Cells(c.counts) :
           a = [k |-> "loop", cmd |-> c, x |-> x, elapsed |-> e] /\ e <= LoopOffset(c, x)
    BY <1>6 DEF HoldsLoop
  <2> DEFINE p == [off |-> LoopOffset(c, x), value |-> LoopValue(c, x)]
  <2>3. LoopOffset(c, x) \in Nat
    BY <1>1, <2>1, LoopSpread
  <2>4. p \in PointSet(c, v) /\ p.off = LoopOffset(c, x)
    BY <2>1 DEF PointSet, LoopPoints
  <2> HIDE DEF p
  <2>5. e < Span(c)
    BY <1>4, <2>1, <2>2, <2>3, <2>4
  <2> QED
    BY <1>1, <2>2, <2>5 DEF Idle
<1>7. CASE HoldsWriteRead(a, c, v, e)
  <2> DEFINE D == (0 .. c.counts[1] - 1) \X (0 .. c.counts[2])
  <2>1. c.k = "writeread"
    BY <1>7 DEF HoldsWriteRead
  <2>2. PICK p \in D, q \in D :
           /\ a = [k |-> "writeread", cmd |-> c, x |-> <<p, q>>, elapsed |-> e]
           /\ SideAt(c, 1, p, e) /\ SideAt(c, 2, q, e)
           /\ p \in Cells2(c.counts) \/ q \in Cells2(c.counts)
    BY <1>7 DEF HoldsWriteRead
  <2>3. PICK s \in {1, 2}, x \in Cells2(c.counts) : SideAt(c, s, x, e)
    BY <2>2
  <2>4. SideOffset(c, s, x) \in Nat /\ SideOffset(c, s, x) >= e
    BY <1>1, <2>1, <2>3, SideStep
  <2> DEFINE w == [off |-> SideOffset(c, s, x), value |-> SideValue(c, s, x)]
  <2>5. w \in PointSet(c, v) /\ w.off = SideOffset(c, s, x)
    BY <1>1, <2>1, SweepSpread DEF PointSet
  <2> HIDE DEF w
  <2>6. e <= SideOffset(c, s, x)
    BY <1>1, <2>4
  <2>7. e < Span(c)
    BY <1>4, <2>1, <2>4, <2>5, <2>6
  <2> QED
    BY <1>1, <2>2, <2>7 DEF Idle
<1> QED
  BY <1>2, <1>3, <1>5, <1>6, <1>7 DEF Holds

-----------------------------------------------------------------------------
(* What has been issued is what the program schedules before this cycle.    *)
HistoryInv ==
  /\ issued \in 0 .. Len(want) /\ time \in Nat /\ last \in Instr
  /\ \A i \in 1 .. Len(want) : IF i <= issued THEN want[i].at < time ELSE time <= want[i].at
  /\ issued = 0 => last = None
  /\ issued > 0 => want[issued] = [at |-> at, value |-> last]

(* The issues of a program are in the order of their times.                 *)
LEMMA WantFacts ==
  ASSUME Scheduled(code, starts, want)
  PROVE  /\ want \in Seq(Planned) /\ Len(want) \in Nat /\ DOMAIN want = 1 .. Len(want)
         /\ \A i \in 1 .. Len(want) : want[i].at \in Nat /\ want[i].value \in Instr
         /\ \A i, j \in 1 .. Len(want) : i < j => want[i].at < want[j].at
<1>1. want \in Seq(Planned) /\ \A i, j \in 1 .. Len(want) : i < j => want[i].at < want[j].at
  BY DEF Scheduled
<1>2. \A i \in 1 .. Len(want) : want[i] \in Planned
  BY <1>1, ElementOfSeq
<1>3. \A i \in 1 .. Len(want) : want[i].at \in Nat /\ want[i].value \in Instr
  BY <1>2 DEF Planned
<1> QED
  BY <1>1, <1>3, LenProperties

(* The instruction issued last is what a repeat that begins now repeats.    *)
LEMMA PriorNow ==
  ASSUME Scheduled(code, starts, want), HistoryInv
  PROVE  Prior(want, time, last)
<1>1. Len(want) \in Nat /\ DOMAIN want = 1 .. Len(want)
  BY WantFacts
<1>2. /\ issued \in 0 .. Len(want)
      /\ \A i \in 1 .. Len(want) : IF i <= issued THEN want[i].at < time ELSE time <= want[i].at
  BY DEF HistoryInv
<1>3. CASE issued = 0
  <2>1. \A i \in 1 .. Len(want) : ~(i <= issued)
    BY <1>3
  <2>2. last = None
    BY <1>3 DEF HistoryInv
  <2> QED
    BY <1>1, <1>2, <2>1, <2>2 DEF Prior
<1>4. CASE issued # 0
  <2>1. issued \in 1 .. Len(want) /\ issued > 0 /\ issued <= issued
    BY <1>1, <1>2, <1>4
  <2>2. want[issued] = [at |-> at, value |-> last]
    BY <2>1 DEF HistoryInv
  <2>3. want[issued].at < time /\ want[issued].value = last
    BY <1>2, <2>1, <2>2
  <2>4. \A j \in 1 .. Len(want) : issued < j => time <= want[j].at
    <3> TAKE j \in 1 .. Len(want)
    <3> HAVE issued < j
    <3>1. ~(j <= issued)
      BY <2>1
    <3> QED
      BY <1>2, <3>1
  <2> QED
    BY <1>1, <2>1, <2>3, <2>4 DEF Prior
<1> QED
  BY <1>3, <1>4

(* A silent cycle in which nothing was due.                                 *)
LEMMA SilentHistory ==
  ASSUME Scheduled(code, starts, want), HistoryInv, Silent, want' = want,
         \A i \in 1 .. Len(want) : want[i].at # time
  PROVE  HistoryInv' /\ time' = time + 1
<1>1. /\ time' = time + 1 /\ last' = last /\ issued' = issued /\ at' = at
  BY DEF Silent
<1>2. time \in Nat
  BY DEF HistoryInv
<1>3. \A i \in 1 .. Len(want) : IF i <= issued THEN want[i].at < time + 1 ELSE time + 1 <= want[i].at
  <2> TAKE i \in 1 .. Len(want)
  <2>1. PICK t \in Nat : t = want[i].at
    BY WantFacts
  <2>2. /\ IF i <= issued THEN t < time ELSE time <= t
        /\ t # time
    BY <2>1 DEF HistoryInv
  <2>3. IF i <= issued THEN t < time + 1 ELSE time + 1 <= t
    BY <1>2, <2>2
  <2> QED
    BY <2>1, <2>3
<1> QED
  BY <1>1, <1>2, <1>3 DEF HistoryInv

(* A cycle that issues what was due.                                        *)
LEMMA IssueHistory ==
  ASSUME Scheduled(code, starts, want), HistoryInv, NEW value, Issue(value), want' = want,
         NEW i \in 1 .. Len(want), want[i] = [at |-> time, value |-> value]
  PROVE  HistoryInv' /\ time' = time + 1
<1>1. /\ last' = value /\ issued' = issued + 1 /\ at' = time /\ time' = time + 1
  BY DEF Issue
<1>2. time \in Nat /\ issued \in Nat /\ issued <= Len(want) /\ Len(want) \in Nat
  BY WantFacts DEF HistoryInv
<1>3. want[i].at = time /\ want[i].value = value
  OBVIOUS
<1>4. \A j \in 1 .. Len(want) : IF j <= issued THEN want[j].at < time ELSE time <= want[j].at
  BY DEF HistoryInv
<1>5. \A j, k \in 1 .. Len(want) : j < k => want[j].at < want[k].at
  BY WantFacts
<1>6. \A j \in 1 .. Len(want) : want[j].at \in Nat /\ want[j].value \in Instr
  BY WantFacts
<1>7. i = issued + 1
  <2>1. i > issued
    <3>1. ~(i <= issued)
      BY <1>2, <1>3, <1>4
    <3> QED
      BY <1>2, <3>1
  <2>2. ~(i > issued + 1)
    <3> SUFFICES ASSUME i > issued + 1 PROVE FALSE
      OBVIOUS
    <3> DEFINE k == issued + 1
    <3>1. k \in 1 .. Len(want) /\ k < i /\ ~(k <= issued)
      BY <1>2
    <3>2. want[k].at < want[i].at /\ time <= want[k].at /\ want[k].at \in Nat
      BY <1>4, <1>5, <1>6, <3>1
    <3> HIDE DEF k
    <3> QED
      BY <1>2, <1>3, <3>2
  <2> QED
    BY <1>2, <2>1, <2>2
<1>8. ASSUME NEW j \in 1 .. Len(want)
      PROVE  IF j <= issued + 1 THEN want[j].at < time + 1 ELSE time + 1 <= want[j].at
  <2>1. PICK t \in Nat : t = want[j].at
    BY <1>6
  <2>2. CASE j <= issued
    <3>1. t < time
      BY <1>4, <2>1, <2>2
    <3> QED
      BY <1>2, <2>1, <2>2, <3>1
  <2>3. CASE j = issued + 1
    BY <1>2, <1>3, <1>7, <2>3
  <2>4. CASE ~(j <= issued + 1)
    <3>1. i < j
      BY <1>2, <1>7, <2>4
    <3>2. time < t
      BY <1>3, <1>5, <2>1, <3>1
    <3> QED
      BY <1>2, <2>1, <2>4, <3>2
  <2> QED
    BY <1>2, <2>2, <2>3, <2>4
<1>9. value \in Instr /\ issued + 1 \in 0 .. Len(want) /\ issued + 1 # 0 /\ time + 1 \in Nat
  BY <1>2, <1>3, <1>6, <1>7
<1>10. want[issued + 1] = [at |-> time, value |-> value]
  BY <1>7
<1> QED
  BY <1>1, <1>8, <1>9, <1>10 DEF HistoryInv

(* A cycle the schedule does not know of.                                   *)
LEMMA SameHistory ==
  ASSUME HistoryInv, UNCHANGED <<last, issued, at, time, want>>
  PROVE  HistoryInv' /\ time' = time
BY DEF HistoryInv
----------------------------------------------------------------------------
(* Where the next word of the program is, and when its command begins.      *)
Begin(w) == IF w = Len(imem) + 1 THEN EndOf(code, starts) ELSE starts[imem[w].cmd]
Aligned(w) == w = Len(imem) + 1 \/ (w \in 1 .. Len(imem) /\ imem[w].part = 1)

(* Behind the words of a command, the next one begins when it ends.         *)
LEMMA NextWord ==
  ASSUME ProgramInv, NEW w \in 1 .. Len(imem), Aligned(w)
  PROVE  LET c == Command(w)
             m == imem[w].cmd
         IN  /\ c \in Written /\ m \in 1 .. Len(code) /\ c = code[m] /\ Begin(w) = starts[m] /\ starts[m] \in Nat
             /\ Aligned(w + Words(c)) /\ Begin(w + Words(c)) = Begin(w) + Span(c)
<1> DEFINE c == Command(w)
           m == imem[w].cmd
           x == w + Words(c)
<1>1. /\ imem \in Seq(Word) /\ Len(imem) \in Nat /\ code \in Seq(Written) /\ starts \in Seq(Nat)
      /\ Len(starts) = Len(code) /\ Len(code) \in Nat
  BY LenProperties DEF ProgramInv, Commanded, Laid
<1>2. imem[w].part = 1 /\ w # Len(imem) + 1
  BY <1>1 DEF Aligned
<1>3. m \in 1 .. Len(code)
  BY DEF ProgramInv, Laid
<1>4. c = code[m] /\ c \in Written /\ starts[m] \in Nat
  BY <1>1, <1>3, ElementOfSeq DEF Command
<1>5. Begin(w) = starts[m]
  BY <1>2 DEF Begin
<1>6. IF x = Len(imem) + 1 THEN m = Len(code)
      ELSE x \in 1 .. Len(imem) /\ imem[x] = [cmd |-> m + 1, part |-> 1]
  BY <1>2, <1>4 DEF ProgramInv, Laid
<1>7. starts[m] + Span(c) = IF m = Len(code) THEN EndOf(code, starts) ELSE starts[m + 1]
  BY <1>3, <1>4 DEF ProgramInv, Commanded
<1> HIDE DEF c, m
<1>8. CASE x = Len(imem) + 1
  BY <1>3, <1>4, <1>5, <1>6, <1>7, <1>8 DEF Aligned, Begin, c, m
<1>9. CASE x # Len(imem) + 1
  <2>1. x \in 1 .. Len(imem) /\ imem[x].cmd = m + 1 /\ imem[x].part = 1
    BY <1>6, <1>9
  <2>2. m + 1 \in 1 .. Len(code)
    BY <2>1 DEF ProgramInv, Laid
  <2>3. m # Len(code)
    BY <1>1, <1>3, <2>2
  <2>4. Aligned(x) /\ Begin(x) = starts[m + 1]
    BY <1>9, <2>1 DEF Aligned, Begin
  <2> QED
    BY <1>3, <1>4, <1>5, <1>7, <2>3, <2>4 DEF c, m
<1> QED
  BY <1>8, <1>9

(* The schedule during a command, in terms of the command.                  *)
LEMMA DueThen ==
  ASSUME ProgramInv, NEW n \in 1 .. Len(code), NEW v \in Instr, Prior(want, starts[n], v),
         NEW e \in Nat, e < Span(code[n]), time = starts[n] + e
  PROVE  /\ Quiet(code[n], v, e) => \A i \in 1 .. Len(want) : want[i].at # time
         /\ \A value : DueAt(code[n], v, e, value) =>
              \E i \in 1 .. Len(want) : want[i] = [at |-> time, value |-> value]
<1> DEFINE c == code[n]
           s == starts[n]
           P == Points(c, v)
<1>1. Unrolled(c, s, want, v) /\ DOMAIN want = 1 .. Len(want)
  BY WantFacts DEF ProgramInv, Scheduled
<1>2. c \in Written /\ s \in Nat /\ Span(c) \in Nat
  <2>1. code \in Seq(Written) /\ starts \in Seq(Nat) /\ Len(starts) = Len(code)
    BY DEF ProgramInv, Commanded
  <2>2. c \in Written /\ s \in Nat
    BY <2>1, ElementOfSeq
  <2> QED
    BY <2>2, WrittenSound
<1>3. \A k \in 1 .. Len(P) : P[k].off \in Nat
  <2>1. P \in Seq(Point)
    BY <1>2, WrittenSound, PointSeq
  <2>2. \A k \in 1 .. Len(P) : P[k] \in Point
    BY <2>1, ElementOfSeq
  <2> QED
    BY <2>2 DEF Point
<1> HIDE DEF P
<1>4. ASSUME Quiet(c, v, e), NEW i \in 1 .. Len(want), want[i].at = time PROVE FALSE
  <2>1. s <= want[i].at /\ want[i].at < s + Span(c)
    <3> HIDE DEF s, c
    <3>1. time = s + e /\ e < Span(c)
      BY DEF s, c
    <3> QED
      BY <1>2, <1>4, <3>1
  <2>2. PICK k \in 1 .. Len(P) : want[i].at = s + P[k].off
    BY <1>1, <2>1 DEF Unrolled, P
  <2>3. P[k].off # e
    BY <1>4 DEF Quiet, P
  <2>4. PICK o \in Nat : o = P[k].off
    BY <1>3
  <2>5. s + e = s + o /\ o # e
    BY <1>4, <2>2, <2>3, <2>4
  <2> HIDE DEF s
  <2> QED
    BY <1>2, <2>5
<1>5. ASSUME NEW value, DueAt(c, v, e, value)
      PROVE  \E i \in 1 .. Len(want) : want[i] = [at |-> time, value |-> value]
  <2>1. PICK k \in 1 .. Len(P) : P[k] = [off |-> e, value |-> value]
    BY <1>5 DEF DueAt, P
  <2>2. PICK i \in 1 .. Len(want) : want[i] = [at |-> s + P[k].off, value |-> P[k].value]
    BY <1>1 DEF Unrolled, P
  <2>3. want[i] = [at |-> s + e, value |-> value]
    BY <2>1, <2>2
  <2> QED
    BY <2>3
<1> QED
  BY <1>4, <1>5

(* The port is free when the next command begins, or owned by the command   *)
(* before it.                                                               *)
PortAt(a, t, h) ==
  /\ Aligned(h)
  /\ a = Idle => t = Begin(h)
  /\ a # Idle => \E n \in 1 .. Len(code), v \in Instr :
       /\ Begin(h) = starts[n] + Span(code[n]) /\ Prior(want, starts[n], v)
       /\ starts[n] <= t /\ Holds(a, code[n], v, t - starts[n])

PortInv == PortAt(active, time, Head1)
(* No cell of a packet was missed and the port was never wanted twice.      *)
Timely == fault \notin {"missed", "port"}

(* A command of the program and its time.                                   *)
LEMMA CodeFacts ==
  ASSUME ProgramInv, NEW n \in 1 .. Len(code)
  PROVE  code[n] \in Written /\ starts[n] \in Nat /\ Span(code[n]) \in Nat
<1>1. code \in Seq(Written) /\ starts \in Seq(Nat) /\ Len(starts) = Len(code)
  BY DEF ProgramInv, Commanded
<1>2. code[n] \in Written /\ starts[n] \in Nat
  BY <1>1, ElementOfSeq
<1> QED
  BY <1>2, WrittenSound

(* A cycle of the owner keeps to the schedule.                              *)
LEMMA OwnerCycle ==
  ASSUME ProgramInv, HistoryInv, Timely, want' = want,
         NEW n \in 1 .. Len(code), NEW v \in Instr, Prior(want, starts[n], v),
         NEW e \in Nat, time = starts[n] + e,
         NEW a, Holds(a, code[n], v, e), Outcome(a, code[n], v, e),
         NEW h, Aligned(h), Begin(h) = starts[n] + Span(code[n])
  PROVE  HistoryInv' /\ Timely' /\ PortAt(active', time', h)
<1> DEFINE c == code[n]
           s == starts[n]
<1>1. c \in Written /\ s \in Nat /\ Span(c) \in Nat
  BY CodeFacts
<1>2. a # Idle /\ e < Span(c)
  BY <1>1, HoldsFacts
<1>3. Scheduled(code, starts, want)
  BY DEF ProgramInv
<1>4. /\ Quiet(c, v, e) => \A i \in 1 .. Len(want) : want[i].at # time
      /\ \A value : DueAt(c, v, e, value) =>
           \E i \in 1 .. Len(want) : want[i] = [at |-> time, value |-> value]
  BY <1>2, DueThen
<1>5. ASSUME Moved(active', c, v, e), time' = time + 1 PROVE PortAt(active', time', h)
  <2>1. CASE active' = Idle
    <3>1. e + 1 = Span(c)
      BY <1>5, <2>1 DEF Moved
    <3>2. time' = s + Span(c)
      <4> HIDE DEF c, s
      <4>1. time = s + e
        BY DEF s
      <4> QED
        BY <1>1, <1>5, <3>1, <4>1
    <3> QED
      BY <2>1, <3>2 DEF PortAt
  <2>2. CASE active' # Idle
    <3>1. Holds(active', c, v, e + 1)
      BY <1>5, <2>2 DEF Moved
    <3>2. s <= time' /\ time' - s = e + 1
      <4> HIDE DEF c, s
      <4>1. time = s + e
        BY DEF s
      <4> QED
        BY <1>1, <1>5, <4>1
    <3> QED
      BY <2>2, <3>1, <3>2 DEF PortAt
  <2> QED
    BY <2>1, <2>2
<1>6. CASE Silent /\ Quiet(c, v, e) /\ Moved(active', c, v, e)
  <2>1. HistoryInv' /\ time' = time + 1
    BY <1>3, <1>4, <1>6, SilentHistory
  <2>2. Timely'
    BY <1>6 DEF Silent, Timely
  <2> QED
    BY <1>5, <1>6, <2>1, <2>2
<1>7. ASSUME NEW value, Issue(value), DueAt(c, v, e, value), Moved(active', c, v, e)
      PROVE  HistoryInv' /\ Timely' /\ PortAt(active', time', h)
  <2>1. PICK i \in 1 .. Len(want) : want[i] = [at |-> time, value |-> value]
    BY <1>4, <1>7
  <2>2. HistoryInv' /\ time' = time + 1
    BY <1>3, <1>7, <2>1, IssueHistory
  <2>3. Timely'
    BY <1>7 DEF Issue, Timely
  <2> QED
    BY <1>5, <1>7, <2>2, <2>3
<1>8. CASE Throw("row") /\ active' = a
  <2>1. HistoryInv' /\ time' = time
    BY <1>8, SameHistory DEF Throw
  <2>2. Timely'
    BY <1>8 DEF Throw, Timely
  <2>3. s <= time' /\ time' - s = e
    <3> HIDE DEF s
    <3>1. time = s + e
      BY DEF s
    <3> QED
      BY <1>1, <2>1, <3>1
  <2>4. PortAt(active', time', h)
    BY <1>2, <1>8, <2>3 DEF PortAt
  <2> QED
    BY <2>1, <2>2, <2>4
<1> QED
  BY <1>6, <1>7, <1>8 DEF Outcome

(* The events a dispatch passes take no time of the schedule.               *)
LEMMA Waits ==
  ASSUME ProgramInv, FrontInv, Aligned(Head1), NEW n \in 0 .. Len(IqNow), Passes(n)
  PROVE  Aligned(Head1 + n) /\ Begin(Head1 + n) = Begin(Head1)
<1> DEFINE H == Head1
           G(m) == Aligned(H + m) /\ Begin(H + m) = Begin(H)
           T == {m \in 0 .. n : ~G(m)}
<1>1. /\ imem \in Seq(Word) /\ Len(imem) \in Nat /\ H \in Nat \ {0}
      /\ \A w \in 1 .. Len(IqNow) : IqNow[w] = H + w - 1 /\ IqNow[w] \in 1 .. Len(imem)
      /\ Len(IqNow) \in Nat
  <2>1. imem \in Seq(Word)
    BY DEF ProgramInv, Laid
  <2> QED
    BY <2>1, ReadyIs, LenProperties DEF FrontInv
<1>2. G(0)
  <2>1. H + 0 = H
    BY <1>1
  <2> QED
    BY <2>1
<1>3. ASSUME NEW m \in 1 .. n, G(m - 1) PROVE G(m)
  <2> DEFINE w == H + (m - 1)
             c == Command(w)
  <2>1. m \in 1 .. Len(IqNow) /\ m - 1 \in Int
    BY <1>1
  <2>2. IqNow[m] = H + m - 1 /\ IqNow[m] \in 1 .. Len(imem)
    BY <1>1, <2>1
  <2>3. w = IqNow[m]
    <3> HIDE DEF H
    <3> QED
      BY <1>1, <2>2
  <2>4. w \in 1 .. Len(imem)
    BY <2>2, <2>3
  <2>5. Aligned(w) /\ Begin(w) = Begin(H)
    BY <1>3
  <2>6. c.k = "wait"
    BY <2>3 DEF Passes
  <2> HIDE DEF w
  <2>7. c \in Written /\ Aligned(w + Words(c)) /\ Begin(w + Words(c)) = Begin(w) + Span(c) /\ Begin(w) \in Nat
    BY <2>4, <2>5, NextWord
  <2>8. Words(c) = 1 /\ Span(c) = 0
    BY <2>6, <2>7, WrittenSound DEF Extent
  <2>9. w + 1 = H + m /\ Begin(w) + 0 = Begin(w)
    <3> HIDE DEF H
    <3> QED
      BY <1>1, <2>7 DEF w
  <2> HIDE DEF H, c
  <2> QED
    BY <2>5, <2>7, <2>8, <2>9
<1>4. T = {}
  <2> SUFFICES ASSUME T # {} PROVE FALSE
    OBVIOUS
  <2>1. T \subseteq Nat
    OBVIOUS
  <2>2. PICK m \in T : \A k \in T : m <= k
    BY <2>1, Minimum
  <2>3. m \in 0 .. n /\ ~G(m)
    BY <2>2
  <2> HIDE DEF G
  <2>4. m # 0
    BY <1>2, <2>3
  <2>5. m \in 1 .. n /\ m - 1 \in 0 .. n /\ ~(m <= m - 1)
    BY <2>3, <2>4
  <2>6. m - 1 \notin T
    BY <2>2, <2>5
  <2>7. G(m - 1)
    BY <2>5, <2>6
  <2> QED
    BY <1>3, <2>3, <2>5, <2>7
<1> HIDE DEF G
<1>5. G(n)
  BY <1>4
<1> QED
  BY <1>5 DEF G

(* A dispatch passes a number of events that is there to pass.              *)
LEMMA ReleasedIs ==
  ASSUME Len(IqNow) \in Nat
  PROVE  Released \in 0 .. Len(IqNow) /\ Passes(Released)
<1> DEFINE N == Len(IqNow)
           Q(n) == Passes(n) /\ (n < N => ~Passes(n + 1))
           T == {n \in 0 .. N : n = N \/ ~Passes(n + 1)}
<1>1. N \in T /\ T \subseteq Nat
  OBVIOUS
<1>2. PICK n \in T : \A m \in T : n <= m
  BY <1>1, Minimum
<1>3. n \in 0 .. N /\ (n < N => ~Passes(n + 1))
  <2>1. n \in 0 .. N /\ (n = N \/ ~Passes(n + 1))
    BY <1>2
  <2>2. ~(n < N /\ n = N)
    BY <2>1
  <2> QED
    BY <2>1, <2>2
<1>4. Passes(n)
  <2>1. CASE n = 0
    BY <2>1 DEF Passes
  <2>2. CASE n # 0
    <3>1. n - 1 \in 0 .. N /\ n - 1 + 1 = n /\ ~(n <= n - 1) /\ n - 1 # N
      BY <1>3, <2>2
    <3>2. n - 1 \notin T
      BY <1>2, <3>1
    <3>3. ~(~Passes(n - 1 + 1))
      BY <3>1, <3>2
    <3> QED
      BY <3>1, <3>3
  <2> QED
    BY <2>1, <2>2
<1>5. \E m \in 0 .. N : Q(m)
  BY <1>3, <1>4
<1>6. Released = CHOOSE m \in 0 .. N : Q(m)
  BY DEF Released
<1> HIDE DEF Q, N
<1>7. Released \in 0 .. N /\ Q(Released)
  BY <1>5, <1>6
<1> QED
  BY <1>7 DEF Q, N

-----------------------------------------------------------------------------
(* What is true of a queue that has been started.                           *)
QueueInv == ProgramInv /\ FrontInv /\ HistoryInv /\ Timely /\ PortInv

(* dispatch_ready_raw_entry keeps to the schedule: what it issues or gives  *)
(* the port to is what the program has begin in this cycle.                 *)
LEMMA DispatchKeeps ==
  ASSUME QueueInv, active = Idle, Dispatch, UNCHANGED programVars
  PROVE  FrontInv' /\ HistoryInv' /\ Timely' /\ PortAt(active', time', Head1')
<1> DEFINE H == Head1
           K == Len(IqNow)
           n == Released
           w == H + n
           c == Command(IqNow[n + 1])
<1>1. /\ ProgramInv /\ FrontInv /\ HistoryInv /\ Timely /\ PortAt(active, time, H)
      /\ imem \in Seq(Word) /\ want' = want /\ imem' = imem
  BY DEF QueueInv, PortInv, ProgramInv, Laid, programVars
<1>2. /\ K \in Nat /\ H \in Nat \ {0} /\ Len(imem) \in Nat /\ time \in Nat
      /\ \A i \in 1 .. K : IqNow[i] = H + i - 1 /\ IqNow[i] \in 1 .. Len(imem)
  BY <1>1, ReadyIs, LenProperties DEF FrontInv, HistoryInv
<1>3. n \in 0 .. K /\ Passes(n)
  BY <1>2, ReleasedIs
<1>4. Aligned(H) /\ time = Begin(H)
  BY <1>1 DEF PortAt
<1>5. Aligned(w) /\ Begin(w) = time
  <2> HIDE DEF n
  <2> QED
    BY <1>1, <1>3, <1>4, Waits
<1>6. ASSUME NEW m \in 0 .. K, Frontend(m) PROVE FrontInv' /\ Head1' = H + m
  BY <1>1, <1>6, FrontStep
<1> HIDE DEF n, K, H
<1>7. \/ DispatchNothing(n)
      \/ n < K /\ (DispatchControl(n, c) \/ DispatchInstruction(n, c) \/ DispatchOwner(n, c))
  BY DEF Dispatch, n, K
(* A cycle that takes the waits alone.                                      *)
<1>8. ASSUME Frontend(n), UNCHANGED <<last, issued, at, time, active>>, Timely'
      PROVE  FrontInv' /\ HistoryInv' /\ PortAt(active', time', Head1')
  <2>1. FrontInv' /\ Head1' = w
    BY <1>3, <1>6, <1>8
  <2>2. HistoryInv'
    BY <1>1, <1>8, SameHistory
  <2>3. PortAt(active', time', Head1')
    BY <1>5, <1>8, <2>1 DEF PortAt
  <2> QED
    BY <2>1, <2>2, <2>3
<1>9. ASSUME \E b \in BOOLEAN : Slip(b), Frontend(n), UNCHANGED active
      PROVE  FrontInv' /\ HistoryInv' /\ Timely' /\ PortAt(active', time', Head1')
  <2>1. Timely' /\ UNCHANGED <<last, issued, at, time, active>>
    BY <1>1, <1>9 DEF Slip, Timely
  <2> QED
    BY <1>8, <1>9, <2>1
<1>10. ASSUME NEW what \in {"underflow", "base"}, Throw(what), Frontend(n), UNCHANGED active
       PROVE  FrontInv' /\ HistoryInv' /\ Timely' /\ PortAt(active', time', Head1')
  <2>1. Timely' /\ UNCHANGED <<last, issued, at, time, active>>
    BY <1>1, <1>10 DEF Throw, Timely
  <2> QED
    BY <1>8, <1>10, <2>1
<1>11. CASE DispatchNothing(n)
  <2>1. Frontend(n) /\ UNCHANGED active
    BY <1>11 DEF DispatchNothing
  <2>2. CASE Throw("underflow")
    BY <1>10, <2>1, <2>2
  <2>3. CASE Slip(MoreWords)
    <3>1. MoreWords \in BOOLEAN
      BY DEF MoreWords
    <3> HIDE DEF MoreWords
    <3> QED
      BY <1>9, <2>1, <2>3, <3>1
  <2> QED
    BY <1>11, <2>2, <2>3 DEF DispatchNothing
<1>12. CASE n < K /\ (DispatchControl(n, c) \/ DispatchInstruction(n, c) \/ DispatchOwner(n, c))
  <2> DEFINE m == imem[w].cmd
  <2>1. n + 1 \in 1 .. K /\ w = IqNow[n + 1] /\ w \in 1 .. Len(imem)
    <3>1. n + 1 \in 1 .. K
      BY <1>2, <1>3, <1>12
    <3>2. IqNow[n + 1] = H + (n + 1) - 1 /\ IqNow[n + 1] \in 1 .. Len(imem)
      BY <1>2, <3>1
    <3>3. H + (n + 1) - 1 = w
      BY <1>2, <1>3
    <3> QED
      BY <3>1, <3>2, <3>3
  <2>2. c = Command(w)
    BY <2>1
  <2>3. /\ c \in Written /\ m \in 1 .. Len(code) /\ c = code[m] /\ Begin(w) = starts[m] /\ starts[m] \in Nat
        /\ Aligned(w + Words(c)) /\ Begin(w + Words(c)) = Begin(w) + Span(c)
    BY <1>1, <1>5, <2>1, <2>2, NextWord
  <2>4. Prior(want, time, last) /\ last \in Instr /\ starts[m] = time
    <3>1. Prior(want, time, last) /\ last \in Instr
      BY <1>1, PriorNow DEF ProgramInv, HistoryInv
    <3> QED
      BY <1>5, <2>3, <3>1
  <2>5. Words(c) \in Nat \ {0} /\ (c.k \notin {"loop", "writeread"} => Words(c) = 1) /\ Span(c) = Extent(c) /\ Span(c) \in Nat
    BY <2>3, WrittenSound
  <2>6. 0 < Span(c) =>
          /\ Quiet(c, last, 0) => \A i \in 1 .. Len(want) : want[i].at # time
          /\ \A value : DueAt(c, last, 0, value) =>
               \E i \in 1 .. Len(want) : want[i] = [at |-> time, value |-> value]
    <3>1. time = starts[m] + 0 /\ 0 \in Nat /\ Prior(want, starts[m], last)
      BY <1>2, <2>4
    <3> HIDE DEF m, c
    <3> QED
      BY <1>1, <2>3, <2>4, <3>1, DueThen
  <2> HIDE DEF m, c, w
  (* A command of one cycle.                                                *)
  <2>7. ASSUME c.k \in {"insn", "sync", "notify"}, Frontend(n + 1), UNCHANGED active, time' = time + 1
        PROVE  FrontInv' /\ PortAt(active', time', Head1')
    <3>1. Words(c) = 1 /\ Span(c) = 1
      BY <2>5, <2>7 DEF Extent
    <3>2. n + 1 \in 0 .. K
      BY <1>2, <2>1
    <3>3. FrontInv' /\ Head1' = H + (n + 1)
      BY <1>6, <2>7, <3>2
    <3>4. Head1' = w + 1
      BY <1>2, <1>3, <3>3 DEF w
    <3>5. Aligned(w + 1) /\ Begin(w + 1) = time + 1
      BY <1>5, <2>3, <3>1 DEF w
    <3> QED
      BY <2>7, <3>3, <3>4, <3>5 DEF PortAt
  <2>8. CASE DispatchControl(n, c)
    <3>1. CASE Slip(FALSE) /\ Frontend(n) /\ UNCHANGED active
      <4>1. FALSE \in BOOLEAN
        OBVIOUS
      <4> QED
        BY <1>9, <3>1, <4>1
    <3>2. CASE c.k \in {"sync", "notify"} /\ Silent /\ Frontend(n + 1) /\ UNCHANGED active
      <4>1. Span(c) = 1 /\ 0 < Span(c)
        BY <2>5, <3>2 DEF Extent
      <4>2. Quiet(c, last, 0)
        <5>1. Points(c, last) = <<>>
          BY <3>2 DEF Points
        <5> QED
          BY <5>1, EmptySeq DEF Quiet
      <4>3. \A i \in 1 .. Len(want) : want[i].at # time
        BY <2>6, <4>1, <4>2
      <4>4. HistoryInv' /\ time' = time + 1
        BY <1>1, <3>2, <4>3, SilentHistory DEF ProgramInv
      <4>5. Timely'
        BY <1>1, <3>2 DEF Silent, Timely
      <4> QED
        BY <2>7, <3>2, <4>4, <4>5
    <3> QED
      BY <2>8, <3>1, <3>2 DEF DispatchControl
  <2>9. CASE DispatchInstruction(n, c)
    <3>1. c.k = "insn" /\ Issue(c.value) /\ Frontend(n + 1) /\ UNCHANGED active
      BY <2>9 DEF DispatchInstruction
    <3>2. Span(c) = 1 /\ 0 < Span(c)
      BY <2>5, <3>1 DEF Extent
    <3>3. DueAt(c, last, 0, c.value)
      <4>1. Points(c, last) = <<[off |-> 0, value |-> c.value]>>
        BY <3>1 DEF Points
      <4>2. 1 \in 1 .. Len(Points(c, last)) /\ Points(c, last)[1] = [off |-> 0, value |-> c.value]
        BY <4>1
      <4> QED
        BY <4>2 DEF DueAt
    <3>4. PICK i \in 1 .. Len(want) : want[i] = [at |-> time, value |-> c.value]
      BY <2>6, <3>2, <3>3
    <3>5. HistoryInv' /\ time' = time + 1
      BY <1>1, <3>1, <3>4, IssueHistory DEF ProgramInv
    <3>6. Timely'
      BY <1>1, <3>1 DEF Issue, Timely
    <3> QED
      BY <2>7, <3>1, <3>5, <3>6
  <2>10. CASE DispatchOwner(n, c)
    <3>1. CASE Throw("base") /\ Frontend(n) /\ UNCHANGED active
      BY <1>10, <3>1
    <3>2. CASE Slip(TRUE) /\ Frontend(n) /\ UNCHANGED active
      <4>1. TRUE \in BOOLEAN
        OBVIOUS
      <4> QED
        BY <1>9, <3>2, <4>1
    <3>3. CASE K - n >= Words(c) /\ Step(Activated(c)) /\ Frontend(n + Words(c))
      <4>1. n + Words(c) \in 0 .. K
        BY <1>2, <1>3, <2>5, <3>3
      <4>2. FrontInv' /\ Head1' = H + (n + Words(c))
        BY <1>6, <3>3, <4>1
      <4>3. Head1' = w + Words(c)
        BY <1>2, <1>3, <2>5, <4>2 DEF w
      <4>4. c.k \in {"nop", "repeat", "repeat2d", "loop", "writeread"}
        BY <2>10 DEF DispatchOwner
      <4>5. Holds(Activated(c), c, last, 0)
        BY <2>3, <4>4, Activation
      <4>6. Outcome(Activated(c), c, last, 0)
        BY <2>3, <2>4, <3>3, <4>5, StepOutcome
      <4>7. time = starts[m] + 0 /\ 0 \in Nat /\ Prior(want, starts[m], last)
        BY <1>2, <2>4
      <4>8. HistoryInv' /\ Timely' /\ PortAt(active', time', w + Words(c))
        <5>1. Begin(w + Words(c)) = starts[m] + Span(code[m])
          BY <2>3
        <5> QED
          BY <1>1, <2>3, <2>4, <4>5, <4>6, <4>7, <5>1, OwnerCycle
      <4> QED
        BY <4>2, <4>3, <4>8
    <3> QED
      BY <2>10, <3>1, <3>2, <3>3 DEF DispatchOwner, K
  <2> QED
    BY <1>12, <2>8, <2>9, <2>10
<1> QED
  BY <1>7, <1>11, <1>12

(* tick() keeps to the schedule.                                            *)
LEMMA TickKeeps ==
  ASSUME QueueInv, NativeTick
  PROVE  FrontInv' /\ HistoryInv' /\ Timely' /\ PortAt(active', time', Head1')
<1>1. UNCHANGED programVars
  BY DEF NativeTick
<1>2. CASE active = Idle /\ Dispatch
  BY <1>1, <1>2, DispatchKeeps
<1>3. CASE active # Idle /\ Step(active) /\ Frontend(0)
  <2>1. /\ ProgramInv /\ FrontInv /\ HistoryInv /\ Timely /\ PortAt(active, time, Head1)
        /\ imem \in Seq(Word) /\ want' = want /\ imem' = imem
    BY <1>1 DEF QueueInv, PortInv, ProgramInv, Laid, programVars
  <2>2. PICK n \in 1 .. Len(code), v \in Instr :
          /\ Begin(Head1) = starts[n] + Span(code[n]) /\ Prior(want, starts[n], v)
          /\ starts[n] <= time /\ Holds(active, code[n], v, time - starts[n])
    BY <1>3, <2>1 DEF PortAt
  <2>3. code[n] \in Written /\ starts[n] \in Nat
    BY <2>1, CodeFacts
  <2> DEFINE e == time - starts[n]
  <2>4. e \in Nat /\ time = starts[n] + e
    BY <2>1, <2>2, <2>3 DEF HistoryInv
  <2>5. Outcome(active, code[n], v, e)
    BY <1>3, <2>2, <2>3, StepOutcome
  <2>6. FrontInv' /\ Head1' = Head1
    <3>1. 0 \in 0 .. Len(IqNow) /\ Head1 \in Nat
      BY <2>1, ReadyIs, LenProperties DEF FrontInv
    <3>2. FrontInv' /\ Head1' = Head1 + 0
      BY <1>3, <2>1, <3>1, FrontStep
    <3> QED
      BY <3>1, <3>2
  <2>7. Aligned(Head1)
    BY <2>1 DEF PortAt
  <2> HIDE DEF e
  <2>8. HistoryInv' /\ Timely' /\ PortAt(active', time', Head1)
    <3>1. Holds(active, code[n], v, e)
      BY <2>2 DEF e
    <3> QED
      BY <2>1, <2>2, <2>4, <2>5, <2>7, <3>1, OwnerCycle
  <2> QED
    BY <2>6, <2>8
<1> QED
  BY <1>2, <1>3 DEF NativeTick

-----------------------------------------------------------------------------
(* A queue that has not been started.                                       *)
Unstarted ==
  /\ fetchPc = 1 /\ iq = <<>> /\ pending = <<>> /\ active = Idle
  /\ time = 0 /\ issued = 0 /\ last = None
LoadInv == mode = "load" => Unstarted

(* The program begins at time 0, with its first word.                       *)
LEMMA FirstWord ==
  ASSUME ProgramInv
  PROVE  Aligned(1) /\ Begin(1) = 0 /\ Len(imem) \in Nat
<1>1. imem \in Seq(Word) /\ Len(imem) \in Nat
  BY LenProperties DEF ProgramInv, Laid
<1>2. CASE code = <<>>
  <2>1. imem = <<>> /\ EndOf(code, starts) = 0
    BY <1>2 DEF ProgramInv, Laid, EndOf
  <2>2. 1 = Len(imem) + 1
    BY <2>1
  <2> QED
    BY <1>1, <2>1, <2>2 DEF Aligned, Begin
<1>3. CASE code # <<>>
  <2>1. imem # <<>> /\ imem[1] = [cmd |-> 1, part |-> 1] /\ starts[1] = 0
    BY <1>3 DEF ProgramInv, Laid, Commanded
  <2>2. Len(imem) # 0
    BY <1>1, <2>1, EmptySeq
  <2>3. 1 \in 1 .. Len(imem) /\ 1 # Len(imem) + 1
    BY <1>1, <2>2
  <2>4. imem[1].cmd = 1 /\ imem[1].part = 1
    BY <2>1
  <2> QED
    BY <1>1, <2>1, <2>3, <2>4 DEF Aligned, Begin
<1> QED
  BY <1>2, <1>3

(* A queue that has not been started is where the schedule is.              *)
LEMMA NotStarted ==
  ASSUME ProgramInv, Unstarted
  PROVE  FrontInv /\ HistoryInv /\ PortInv
<1>1. Aligned(1) /\ Begin(1) = 0 /\ Len(imem) \in Nat
  BY FirstWord
<1>2. /\ fetchPc = 1 /\ iq = <<>> /\ pending = <<>> /\ active = Idle
      /\ time = 0 /\ issued = 0 /\ last = None
  BY DEF Unstarted
<1>3. Head1 = 1
  BY <1>2 DEF Head1
<1>4. FrontInv
  BY <1>1, <1>2, <1>3 DEF FrontInv
<1>5. HistoryInv
  <2>1. Len(want) \in Nat /\ \A i \in 1 .. Len(want) : want[i].at \in Nat
    BY WantFacts DEF ProgramInv
  <2>2. last \in Instr
    BY <1>2 DEF Instr, None
  <2>3. 0 \in 0 .. Len(want) /\ \A i \in 1 .. Len(want) : ~(i <= 0) /\ 0 <= want[i].at
    BY <2>1
  <2> QED
    BY <1>2, <2>2, <2>3 DEF HistoryInv
<1>6. PortInv
  BY <1>1, <1>2, <1>3 DEF PortInv, PortAt
<1> QED
  BY <1>4, <1>5, <1>6

(* The program does not change once the queue runs.                         *)
LEMMA SamePort ==
  ASSUME UNCHANGED programVars, PortAt(active', time', Head1')
  PROVE  PortInv'
<1>1. code' = code /\ imem' = imem /\ want' = want /\ starts' = starts
  BY DEF programVars
<1>2. \A h : Aligned(h) <=> (h = Len(imem') + 1 \/ (h \in 1 .. Len(imem') /\ imem'[h].part = 1))
  BY <1>1 DEF Aligned
<1> QED
  BY <1>1 DEF PortInv, PortAt, Aligned, Begin, EndOf

(* A step of the frontend alone keeps to the schedule.                      *)
LEMMA SameQueue ==
  ASSUME QueueInv, UNCHANGED <<programVars, historyVars, active, last, fault>>, FrontInv', Head1' = Head1
  PROVE  QueueInv'
<1>1. /\ code' = code /\ imem' = imem /\ want' = want /\ starts' = starts
      /\ time' = time /\ issued' = issued /\ at' = at /\ active' = active /\ last' = last /\ fault' = fault
  BY DEF programVars, historyVars
<1>2. ProgramInv'
  BY <1>1 DEF QueueInv, ProgramInv
<1>3. HistoryInv'
  BY <1>1 DEF QueueInv, HistoryInv
<1>4. PortInv'
  BY <1>1, SamePort DEF QueueInv, PortInv
<1>5. Timely'
  BY <1>1 DEF QueueInv, Timely
<1> QED
  BY <1>2, <1>3, <1>4, <1>5 DEF QueueInv

(* A step that leaves the frontend alone.                                   *)
LEMMA SameFront ==
  ASSUME FrontInv, UNCHANGED <<fetchPc, pending, iq, imem>>
  PROVE  FrontInv' /\ Head1' = Head1
BY DEF FrontInv, Head1

(* A queue that is launched by hand begins with its first words.            *)
LEMMA LaunchKeeps ==
  ASSUME QueueInv, LoadInv, Launch
  PROVE  QueueInv'
<1> DEFINE filled == IF Len(imem) < IqDepth THEN Len(imem) ELSE IqDepth
<1>0. mode = "load" /\ Unstarted
  BY DEF Launch, LoadInv
<1>1. /\ mode = "load" /\ mode' = "run" /\ iq' = [w \in 1 .. filled |-> w] /\ fetchPc' = filled + 1
      /\ UNCHANGED <<programVars, historyVars, eventVars, pending, active, last, fault>>
  BY DEF Launch
<1>2. fetchPc = 1 /\ iq = <<>> /\ pending = <<>>
  BY <1>0 DEF Unstarted
<1>3. filled \in Nat /\ filled <= Len(imem) /\ Len(imem) \in Nat
  <2>1. Len(imem) \in Nat /\ IqDepth \in Nat
    BY InstructionQueueAssumption, LenProperties DEF QueueInv, ProgramInv, Laid
  <2> QED
    BY <2>1
<1> HIDE DEF filled
<1>4. iq' \in Seq(Nat) /\ Len(iq') = filled /\ \A w \in 1 .. filled : iq'[w] = w
  <2>1. iq' \in [1 .. filled -> Nat]
    BY <1>1, <1>3
  <2>2. iq' \in Seq(Nat)
    BY <1>3, <2>1, SeqDef
  <2> QED
    BY <1>1, <1>3, <2>1, <2>2, LenProperties
<1>5. Head1' = 1 /\ Head1 = 1
  <2>1. pending' = <<>> /\ Len(pending') = 0 /\ Len(iq') = filled /\ fetchPc' = filled + 1
    BY <1>1, <1>2, <1>4
  <2>2. Head1' = filled + 1 - 0 - filled
    BY <2>1 DEF Head1
  <2>3. Head1 = 1
    BY <1>2 DEF Head1
  <2> QED
    BY <1>3, <2>2, <2>3
<1>6. FrontInv'
  <2>1. imem' = imem /\ pending' = <<>>
    BY <1>1, <1>2 DEF programVars
  <2>2. fetchPc' \in 1 .. Len(imem') + 1
    <3>1. filled + 1 \in 1 .. Len(imem) + 1
      BY <1>3
    <3> QED
      BY <1>1, <2>1, <3>1
  <2>3. \A w \in 1 .. Len(iq') : iq'[w] = Head1' + w - 1
    <3> TAKE w \in 1 .. Len(iq')
    <3>1. w \in Nat /\ iq'[w] = w
      BY <1>3, <1>4
    <3>2. Head1' + w - 1 = w
      BY <1>5, <3>1
    <3> QED
      BY <3>1, <3>2
  <2>4. pending' \in Seq(Fetch) /\ \A f \in 1 .. Len(pending') : FALSE
    BY <2>1, EmptySeq
  <2>5. Head1' \in Nat \ {0}
    BY <1>5
  <2> QED
    BY <1>4, <2>2, <2>3, <2>4, <2>5 DEF FrontInv
<1>7. QueueInv'
  BY <1>1, <1>5, <1>6, SameQueue
<1> QED
  BY <1>7

(* The inductive invariant: a queue that is still loaded has done nothing,  *)
(* one that runs keeps to the schedule.                                     *)
LoadedInv ==
  /\ ProgramInv /\ LegacyInv /\ Timely /\ mode \in {"load", "prime", "run"}
  /\ LoadInv
  /\ mode # "load" => FrontInv /\ HistoryInv /\ PortInv

(* The inductive invariant says what the schedule does of every mode.       *)
LEMMA LoadedIsQueue ==
  ASSUME LoadedInv
  PROVE  QueueInv
BY NotStarted DEF LoadedInv, LoadInv, QueueInv

(* Every step of the chip keeps the invariant: appends, configuration,      *)
(* prefetches, ticks, holds and notifications.                              *)
LEMMA QueueSteps ==
  ASSUME LoadedInv, [Next]_vars
  PROVE  LoadedInv'
<1>1. QueueInv /\ LoadInv /\ ProgramInv /\ LegacyInv
  BY LoadedIsQueue DEF LoadedInv
<1>2. ASSUME UNCHANGED programVars PROVE ProgramInv' /\ LegacyInv'
  BY <1>1, <1>2, SameProgram
<1>3. ASSUME UNCHANGED programVars, QueueInv', mode' \in {"prime", "run"} PROVE LoadedInv'
  BY <1>2, <1>3 DEF QueueInv, LoadedInv, LoadInv
<1>4. ASSUME UNCHANGED <<programVars, historyVars, active, last, fault>>, FrontInv', Head1' = Head1,
             mode' \in {"prime", "run"}
      PROVE  LoadedInv'
  <2>1. QueueInv'
    BY <1>1, <1>4, SameQueue
  <2> QED
    BY <1>3, <1>4, <2>1
<1>5. UNCHANGED frontendVars /\ UNCHANGED programVars => FrontInv' /\ Head1' = Head1
  BY <1>1, SameFront DEF QueueInv, frontendVars, programVars
<1>6. ASSUME UNCHANGED nativeVars PROVE LoadedInv'
  <2>1. /\ UNCHANGED <<programVars, historyVars, active, last, fault, mode>>
        /\ UNCHANGED frontendVars /\ UNCHANGED programVars
    BY <1>6 DEF nativeVars
  <2>2. CASE mode = "load"
    <3>1. Unstarted'
      BY <1>1, <2>1, <2>2 DEF LoadInv, Unstarted, frontendVars, historyVars
    <3> QED
      BY <1>2, <2>1, <2>2, <3>1 DEF LoadedInv, LoadInv, Timely
  <2>3. CASE mode # "load"
    <3>1. mode' \in {"prime", "run"}
      BY <2>1, <2>3 DEF LoadedInv
    <3> QED
      BY <1>4, <1>5, <2>1, <3>1
  <2> QED
    BY <2>2, <2>3
<1>7. imem \in Seq(Word)
  BY <1>1 DEF ProgramInv, Laid
<1>8. CASE UNCHANGED vars
  BY <1>6, <1>8 DEF vars
<1>9. CASE LoadProgram
  <2>1. PICK c \in Commands : AppendProgram(c)
    BY <1>9 DEF LoadProgram
  <2>2. /\ mode = "load" /\ UNCHANGED <<frontendVars, historyVars, eventVars, mode, active, last, fault>>
    BY <2>1 DEF AppendProgram
  <2>3. Unstarted'
    BY <1>1, <2>2 DEF LoadInv, Unstarted, frontendVars, historyVars
  <2>4. ProgramInv' /\ LegacyInv'
    BY <1>1, <2>1, AppendKeeps
  <2> QED
    BY <2>2, <2>3, <2>4 DEF LoadedInv, LoadInv, Timely
<1>10. CASE Configure
  <2>1. CASE NativeConfigure
    <3>1. /\ mode' = "prime" /\ UNCHANGED <<programVars, historyVars, active, last, fault>>
          /\ UNCHANGED frontendVars /\ UNCHANGED programVars
      BY <2>1 DEF NativeConfigure
    <3> QED
      BY <1>4, <1>5, <3>1
  <2> QED
    BY <1>6, <1>10, <2>1 DEF Configure
<1>11. CASE Prime
  <2>1. CASE NativePrime
    <3>1. /\ mode' = "prime" /\ UNCHANGED <<programVars, historyVars, active, last, fault>>
          /\ Frontend(0) /\ imem' = imem
      BY <2>1 DEF NativePrime, programVars
    <3>2. FrontInv /\ 0 \in 0 .. Len(IqNow) /\ Head1 \in Nat
      BY <1>1, <1>7, ReadyIs, LenProperties DEF QueueInv, FrontInv
    <3>3. FrontInv' /\ Head1' = Head1 + 0
      BY <1>7, <3>1, <3>2, FrontStep
    <3>4. Head1' = Head1
      BY <3>2, <3>3
    <3> QED
      BY <1>4, <3>1, <3>3, <3>4
  <2> QED
    BY <1>6, <1>11, <2>1 DEF Prime
<1>12. CASE Start
  <2>1. CASE NativeStart
    <3>1. /\ mode' = "run" /\ UNCHANGED <<programVars, historyVars, active, last, fault>>
          /\ UNCHANGED frontendVars /\ UNCHANGED programVars
      BY <2>1 DEF NativeStart
    <3> QED
      BY <1>4, <1>5, <3>1
  <2>2. CASE Launch
    <3>1. QueueInv' /\ mode' = "run" /\ UNCHANGED programVars
      BY <1>1, <2>2, LaunchKeeps DEF Launch
    <3> QED
      BY <1>3, <3>1
  <2> QED
    BY <1>12, <2>1, <2>2 DEF Start
<1>13. CASE Tick
  <2>1. CASE NativeTick
    <3>1. mode' = "run" /\ UNCHANGED programVars
      BY <2>1 DEF NativeTick, NativeRunning
    <3>2. FrontInv' /\ HistoryInv' /\ Timely' /\ PortAt(active', time', Head1')
      BY <1>1, <2>1, TickKeeps
    <3>3. PortInv'
      BY <3>1, <3>2, SamePort
    <3>4. ProgramInv'
      BY <1>2, <3>1
    <3>5. QueueInv'
      BY <3>2, <3>3, <3>4 DEF QueueInv
    <3> QED
      BY <1>3, <3>1, <3>5
  <2> QED
    BY <1>6, <1>13, <2>1 DEF Tick
<1>14. CASE Hold
  <2>1. /\ mode' = "run" /\ UNCHANGED <<programVars, historyVars, active, last, fault>>
        /\ iq' = IqNow /\ pending' = Aged(Waiting) /\ UNCHANGED <<fetchPc, imem>>
    BY <1>14 DEF Hold, NativeHold, NativeRunning, programVars
  <2>2. FrontInv' /\ Head1' = Head1
    BY <1>1, <1>7, <2>1, FrontHold DEF QueueInv
  <2> QED
    BY <1>4, <2>1, <2>2
<1>15. CASE Notify
  <2>1. /\ mode' = "run" /\ UNCHANGED <<programVars, historyVars, active, last, fault>>
        /\ UNCHANGED frontendVars /\ UNCHANGED programVars
    BY <1>15 DEF Notify, NativeNotify, NativeRunning
  <2> QED
    BY <1>4, <1>5, <2>1
<1> QED
  BY <1>8, <1>9, <1>10, <1>11, <1>12, <1>13, <1>14, <1>15 DEF Next

(* The invariant holds at the start.                                        *)
LEMMA LoadedStart ==
  ASSUME Init
  PROVE  LoadedInv
<1>1. NativeInit
  BY DEF Init
<1>2. ProgramInv /\ LegacyInv
  BY <1>1, ProgramStart
<1> QED
  BY <1>1, <1>2 DEF NativeInit, LoadedInv, LoadInv, Unstarted, Timely

(* What has been issued, and when, follows from the invariant.              *)
LEMMA OnSchedule ==
  ASSUME LoadedInv
  PROVE  IssuesOnSchedule
<1>1. ProgramInv /\ FrontInv /\ HistoryInv /\ Timely /\ PortInv
  BY LoadedIsQueue DEF QueueInv
<1>2. /\ Len(want) \in Nat /\ \A i \in 1 .. Len(want) : want[i].at \in Nat
      /\ \A i \in 1 .. Len(want) : want[i].at < EndOf(code, starts)
  BY <1>1, WantFacts DEF ProgramInv, Scheduled
<1>3. issued \in Nat /\ issued <= Len(want) /\ time \in Nat
  BY <1>1, <1>2 DEF HistoryInv
<1>4. issued > 0 => [at |-> at, value |-> last] = want[issued]
  BY <1>1 DEF HistoryInv
<1>5. ASSUME NativeDone PROVE issued = Len(want) /\ time = ProgramEnd
  <2>1. fetchPc > Len(imem) /\ pending = <<>> /\ iq = <<>> /\ active = Idle
    BY <1>5 DEF NativeDone
  <2>2. fetchPc = Len(imem) + 1 /\ Len(imem) \in Nat /\ fetchPc \in Nat
    <3>1. fetchPc \in 1 .. Len(imem) + 1 /\ Len(imem) \in Nat
      BY <1>1, LenProperties DEF FrontInv, ProgramInv, Laid
    <3> QED
      BY <2>1, <3>1
  <2>3. Head1 = Len(imem) + 1
    BY <2>1, <2>2 DEF Head1
  <2>4. time = EndOf(code, starts)
    BY <1>1, <2>1, <2>3 DEF PortInv, PortAt, Begin
  <2>5. issued = Len(want)
    <3> SUFFICES ASSUME issued # Len(want) PROVE FALSE
      OBVIOUS
    <3> DEFINE i == issued + 1
    <3>1. i \in 1 .. Len(want) /\ ~(i <= issued)
      BY <1>2, <1>3
    <3>2. time <= want[i].at
      BY <1>1, <3>1 DEF HistoryInv
    <3>3. want[i].at < time /\ want[i].at \in Nat
      BY <1>2, <2>4, <3>1
    <3> HIDE DEF i
    <3> QED
      BY <1>3, <3>2, <3>3
  <2> QED
    BY <2>4, <2>5, SameEnd
<1> QED
  BY <1>1, <1>3, <1>4, <1>5 DEF IssuesOnSchedule, Timely

(* The queue issues the unrolled program: every instruction once, in order, *)
(* with the row its loops give it and in its cycle, where a cycle in which  *)
(* the queue waits for an event or a word does not count and a hold of      *)
(* compute or a prefetch changes nothing; and no loop or write/read packet  *)
(* ever misses a cell or finds both its sides due at once.                  *)
THEOREM IssuesCorrect == Spec => []IssuesOnSchedule
<1>1. Init => LoadedInv
  BY LoadedStart
<1>2. LoadedInv /\ [Next]_vars => LoadedInv'
  BY QueueSteps
<1>3. LoadedInv => IssuesOnSchedule
  BY OnSchedule
<1> QED
  BY <1>1, <1>2, <1>3, PTL DEF Spec
=============================================================================
