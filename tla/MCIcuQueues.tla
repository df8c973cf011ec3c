---------------------------- MODULE MCIcuQueues ----------------------------
EXTENDS IcuQueues

Loop == [k |-> "loop", words |-> 3, wait |-> 1, counts |-> <<2, 2, 1>>, strides |-> <<2, 3, 1>>,
         rows |-> <<1, 4, 0>>, value |-> Rd(2)]
Loop3 == [k |-> "loop", words |-> 2, wait |-> 0, counts |-> <<1, 2, 2>>, strides |-> <<1, 1, 3>>,
         rows |-> <<0, -1, -1>>, value |-> Wr(2)]
WriteRead == [k |-> "writeread", words |-> 3, wait |-> 0, offsets |-> <<0, 3>>,
              strides |-> <<<<2, 4>>, <<2, 6>>>>, counts |-> <<2, 2>>, rows |-> <<1, 2>>, base |-> 0]
MCCommands ==
  { [k |-> "insn", value |-> Wr(3)],
    [k |-> "nop", count |-> 4],
    [k |-> "repeat", count |-> 2, interval |-> 2, row |-> -1],
    [k |-> "repeat2d", counts |-> <<2, 2>>, intervals |-> <<1, 3>>, rows |-> <<1, 2>>],
    [k |-> "sync"], [k |-> "wait", tag |-> "t"], [k |-> "notify"],
    Loop3, WriteRead,
    [k |-> "legacy", start |-> 6, loop |-> Loop3],
    [k |-> "legacy", start |-> 9, loop |-> Loop] }

Sched(ic, ii, is, oc, oi, os) ==
  [inner_count |-> ic, inner_interval |-> ii, inner_stride |-> is,
   outer_count |-> oc, outer_interval |-> oi, outer_stride |-> os]
Run(ext, native, shape, sched, deltas) ==
  [extended |-> ext, native |-> native, shape |-> shape, schedule |-> sched, deltas |-> deltas]
Img(kind, dict, start, operand, runs, cut) ==
  [kind |-> kind, enable |-> TRUE, dictionary |-> dict, start |-> start, operand |-> operand, runs |-> runs, cut |-> cut]
D(n) == [code |-> "dictionary", symbol |-> n]
C(s, o) == [code |-> "compact", start |-> s, operand |-> o]
W(s, o) == [code |-> "wide", start |-> s, operand |-> o]
Del(s, o) == [start |-> s, operand |-> o]
One == Sched(1, 1, 0, 1, 1, 0)

MCImages ==
  LET dict == <<Del(2, 1), Del(5, -1)>>
      run2 == Sched(2, 2, 1, 2, 5, -1)
  IN  { Img("Mem", dict, s, 2, <<Run(x, 32, "Single", One, <<d1, d2>>), Run(FALSE, 32, "Full2D", run2, <<d3>>)>>, 0) :
          s \in {0, 3, 30}, x \in BOOLEAN, d1 \in {D(0), D(1), C(3, 1)}, d2 \in {D(0), W(9, 1)}, d3 \in {D(1), C(4, 0), C(12, 2), D(2)} }
      \cup
      { Img("MxmLoad", <<>>, 4, 0, <<Run(FALSE, 29, "Inner1D", Sched(3, 1, 1, 1, 1, 0), <<>>),
                                    Run(FALSE, 16, "Outer1D", Sched(1, 1, 0, 2, o, 2), <<W(s, 0), C(10, 0)>>)>>, c) :
          o \in {1, 3, 7}, s \in {0, 1, 3, 8}, c \in {0, 1} }
      \cup { [Img("Mem", dict, 1, 0, <<Run(FALSE, 32, "Single", One, <<>>)>>, 0) EXCEPT !.enable = FALSE],
             Img("MxmCompute", dict, 0, 0, <<Run(FALSE, 49, "Inner1D", Sched(4, 2, 1, 1, 1, 0), <<C(1,0), C(2,0)>>)>>, 0),
             Img("Mem", <<>>, 2, 14, <<Run(FALSE, 32, "Inner1D", Sched(3, 1, 1, 1, 1, 0), <<C(3, -3)>>)>>, 0),
             Img("Mem", <<>>, 0, 0, <<Run(FALSE, 32, "Single", One, <<C(1,0), C(1,0), C(1,0)>>),
                                      Run(TRUE, 32, "Single", One, <<W(1,0)>>), Run(TRUE, 32, "Single", One, <<W(1,0)>>)>>, 0),
             Img("Mem", <<>>, 2, 0, <<Run(FALSE, 32, "Inner1D", Sched(2, 12, 1, 1, 1, 0), <<>>),
                                      Run(FALSE, 32, "Single", One, <<W(1,0), W(2,0)>>)>>, 0),
             Img("Mem", <<>>, 20, 0, <<Run(FALSE, 32, "Inner1D", Sched(2, 0, 1, 1, 1, 0), <<>>)>>, 0) }

(* Every native program runs beside one image, every image beside one      *)
(* program.                                                                *)
Beside == CHOOSE img \in MCImages : img.kind = "Mem" /\ img.start = 3 /\ Descriptors(img) = 3
Kinds(program) == LET kept == SelectSeq(program, LAMBDA c : c.k # "nop" \/ c.count = 4)
                  IN  [n \in DOMAIN kept |-> kept[n].k]
MCLoaded(program) ==
  \/ Len(program) <= 3 /\ Len(Kinds(program)) <= 2
  \/ Kinds(program) \in {<<"insn", "repeat", "insn">>, <<"loop", "sync", "loop">>}
MCTogether(program, img) == img = Beside \/ program = <<[k |-> "insn", value |-> Wr(3)]>>
=============================================================================
