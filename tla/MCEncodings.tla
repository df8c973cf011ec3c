---------------------------- MODULE MCEncodings ----------------------------
(* Encodings for the 32-lane target: instructions at the boundaries of     *)
(* their fields and domains, valid and not, and one or two of each kind    *)
(* whose packets are corrupted in every bit.                               *)
EXTENDS Encodings, TLC

Last24 == 2^24 - 1

With(loops, rest) == {r @@ l : r \in rest, l \in loops}
Loop(wait, counts, strides) ==
    [wait |-> wait, counts |-> counts, strides |-> strides]

\* One point, a dense domain, an overlapping one, one that does not fill its
\* cycles, one whose last point is the last cycle and one beyond it.
SmallLoops == {Loop(Last24, <<1, 1, 1>>, <<1, 1, 1>>),
               Loop(0, <<2, 3, 4>>, <<1, 2, 6>>), Loop(0, <<2, 3, 4>>, <<1, 2, 4>>),
               Loop(3, <<2, 1, 2>>, <<3, 1, 12>>), Loop(5, <<1, 3, 1>>, <<1, 4, 9>>),
               Loop(2, <<2, 3, 1>>, <<1, 4, 1>>),
               Loop(0, <<2, 1, 2>>, <<1, 1, Last24 - 1>>),
               Loop(0, <<2, 1, 2>>, <<1, 1, Last24>>)}
OneLoop == {Loop(5, <<2, 3, 4>>, <<1, 2, 6>>)}

Mem3D ==
    With(SmallLoops, [op : {"Read3D", "WriteTap3D"}, stream : {63},
                      base : {0, 8180}, group : {1, 2}, inner : {1, -2},
                      middle : {2}, outerInner : {6}, outerGroup : {6, 0}])
    \cup With({Loop(0, <<65536, 1, 1>>, <<1, 1, 1>>),
               Loop(1, <<256, 256, 2>>, <<1, 256, Last24 - 65536>>)},
              [op : {"Write3D"}, stream : {0, 64}, base : {8191}, group : {1, 3},
               inner : {0}, middle : {0}, outerInner : {0}, outerGroup : {0, -1}])
OneMem3D == With(OneLoop, [op : {"Write3D"}, stream : {17}, base : {100},
                           group : {2}, inner : {1}, middle : {-2},
                           outerInner : {6}, outerGroup : {40}])

WriteRead2D ==
    [op : {"WriteRead2D"}, wait : {Last24 - 20}, counts : {<<2, 3>>, <<4, 1>>},
     writeStrides : {<<2, 4>>, <<2, 6>>}, readStrides : {<<2, 4>>, <<4, 8>>},
     offset : {1, 6, 10, 14}, base : {0, 8190}, rowStrides : {<<1, 2>>, <<2, 1>>},
     writeStream : {3}, readStream : {61}, streamStride : {1, -32}]
OneWriteRead2D ==
    [op : {"WriteRead2D"}, wait : {2}, counts : {<<2, 3>>},
     writeStrides : {<<2, 4>>}, readStrides : {<<2, 4>>}, offset : {3},
     base : {7}, rowStrides : {<<1, -2>>}, writeStream : {3},
     readStream : {40}, streamStride : {-2}]

MemWords ==
    [op : {"Read", "Write", "WriteTap"}, address : {0, 8191, 8192},
     stream : {0, 63, 64}]
    \cup [op : {"Gather", "Scatter"}, stream : {0, 63}, map : {5}]
OneMemWord == [op : {"Read", "WriteTap"}, address : {5}, stream : {9}]
              \cup [op : {"Scatter"}, stream : {9}, map : {5}]
Synchronized ==
    [op : {"Synchronized"}, count : {1, 65536, 65537}, tag : {0, 65535},
     delay : {3}, stride : {-8192, 8191}, reservation : {1, 2^24},
     template : OneMemWord]
OneSynchronized ==
    [op : {"Synchronized"}, count : {3}, tag : {6}, delay : {2}, stride : {-1},
     reservation : {9}, template : OneMemWord]

Controls ==
    [op : {"Nop"}, count : {0, 2^30 - 1}]
    \cup [op : {"Repeat"}, count : {1023, 1024}, interval : {1, 255},
          stride : {-2048, 2047}]
    \cup [op : {"Repeat2D"}, inner : {1, 3}, outer : {1, 1023},
          innerInterval : {2}, outerInterval : {4, 5, 65535},
          innerStride : {-32768}, outerStride : {32767}, target : 0 .. 3]
    \cup [op : {"Sync", "Notify"}, event : {{}}]
    \cup [op : {"WaitEvent"}, event : {{}, {0, 63}}]
OneControl ==
    [op : {"Nop"}, count : {6}]
    \cup [op : {"Repeat"}, count : {5}, interval : {2}, stride : {-1}]
    \cup [op : {"Repeat2D"}, inner : {3}, outer : {2}, innerInterval : {2},
          outerInterval : {8}, innerStride : {1}, outerStride : {-4}, target : {2}]
    \cup [op : {"Sync"}, event : {{}}] \cup [op : {"WaitEvent"}, event : {{3}}]

MxmLoad3D ==
    With(SmallLoops,
         [op : {"Load3D"}, buffer : {1}, bufferMode : {0, 3}, column : {0, 3},
          columnStrides : {<<1, 0, 0>>, <<-1, 1, 0>>}, stream : {16, 31},
          input : {0, 1}])
    \cup With(SmallLoops,
         [op : {"LoadColumn3D"}, buffer : {0}, bufferMode : {1}, column : {5, 30},
          columnStrides : {<<1, 2, -2>>}, stream : {30}, input : {0, 1}])
    \cup With(SmallLoops,
         [op : {"IsLoadActivation3D"}, buffer : {0}, bufferMode : {2},
          stream : {30, 31}, format : {1}, isMode : {0}])
OneMxmLoad ==
    With(OneLoop, [op : {"LoadColumn3D"}, buffer : {1}, bufferMode : {1},
                   column : {3}, columnStrides : {<<1, 2, 3>>}, stream : {4},
                   input : {1}]
                  \cup [op : {"IsLoadActivation3D"}, buffer : {0},
                        bufferMode : {2}, stream : {4}, format : {1}, isMode : {0}])
LoadWords ==
    [op : {"IW"}, vector : {0, 1}, buffer : {1}, column : {3}, inner : {0, 7},
     input : {0, 1}, stream : {16, 24, 31}]
    \cup [op : {"IsLoadActivation"}, buffer : {0, 1}, activation : {30, 31},
          format : {0, 1}, isMode : {1}]
OneLoadWord ==
    [op : {"IW"}, vector : {0}, buffer : {1}, column : {2}, inner : {0},
     input : {0}, stream : {9}]
    \cup [op : {"IsLoadActivation"}, buffer : {1}, activation : {3}, format : {1},
          isMode : {1}]

Mode(destination, clear, output) ==
    [destination |-> destination, clear |-> clear, output |-> output]
MxmCompute3D ==
    With(SmallLoops,
         [op : {"Compute3D"}, buffer : {1}, bufferMode : {3}, activation : {30},
          result : {28, 30}, address : {0, 126}, addressStrides : {<<0, 1, 2>>},
          rowStride : {1, 4}, format : {1}, regular : {Mode(0, 1, 1)},
          terminal : {Mode(1, 0, 0), Mode(1, 0, 1)}, terminalDimension : {1, 3}])
    \cup With(SmallLoops,
         [op : {"AccumulatorRead3D"}, result : {28}, address : {0, 127},
          addressStrides : {<<1, 0, 0>>, <<-1, 2, 3>>},
          regular : {Mode(1, 1, 0)}])
    \cup With(SmallLoops,
         [op : {"IsStreamCompute3D"}, buffer : {0}, bufferMode : {1},
          result : {30, 31}, format : {0}, address : {3, 120},
          addressStrides : {<<1, 2, 1>>}, column : {0, 1}, destination : {0, 1},
          clear : {0}, isMode : {1}])
OneMxmCompute ==
    With(OneLoop,
         [op : {"Compute3D"}, buffer : {1}, bufferMode : {3}, activation : {3},
          result : {8}, address : {9}, addressStrides : {<<0, 1, 2>>},
          rowStride : {4}, format : {1}, regular : {Mode(0, 1, 1)},
          terminal : {Mode(1, 0, 0)}, terminalDimension : {1}]
         \cup [op : {"AccumulatorRead3D"}, result : {3}, address : {30},
               addressStrides : {<<-1, 2, 3>>}, regular : {Mode(1, 1, 0)}]
         \cup [op : {"IsStreamCompute3D"}, buffer : {0}, bufferMode : {1},
               result : {3}, format : {0}, address : {3},
               addressStrides : {<<1, 2, 1>>}, column : {0}, destination : {1},
               clear : {0}, isMode : {1}])
ComputeWords ==
    [op : {"Compute"}, buffer : {0}, activation : {30, 31}, result : {28, 31},
     address : {127, 128}, rowStride : {0, 65535}, destination : {1}, format : {0},
     clear : {0, 1}, output : {0, 1}]
    \cup [op : {"AccumulatorRead"}, address : {127, 128}, result : {28, 30},
          clear : {0, 1}, output : {0, 1}, destination : {0}]
    \cup [op : {"IsStreamCompute"}, buffer : {1}, result : {30, 31}, format : {1},
          address : {126, 127}, column : {0, 2}, destination : {0, 1},
          clear : {0, 1}, isMode : {0}]
OneComputeWord ==
    [op : {"Compute"}, buffer : {0}, activation : {3}, result : {4}, address : {9},
     rowStride : {1}, destination : {1}, format : {0}, clear : {0}, output : {0}]
    \cup [op : {"AccumulatorRead"}, address : {9}, result : {4}, clear : {0},
          output : {0}, destination : {0}]
    \cup [op : {"IsStreamCompute"}, buffer : {1}, result : {4}, format : {1},
          address : {6}, column : {0}, destination : {1}, clear : {0}, isMode : {0}]

Dequant3D == With(SmallLoops, [op : {"Dequant3D"}, scale : {{0, 15}}])
OneDequant == With(OneLoop, [op : {"Dequant3D"}, scale : {{3}}])
DequantWord == [op : {"Dequant"}, scale : {{}, {1, 15}}]

FlatLoops == {[l EXCEPT !.counts[3] = 1, !.strides[3] = 1] : l \in SmallLoops}
OneFlat == {Loop(5, <<2, 3, 1>>, <<1, 2, 1>>)}
Vxm2D == [op : {"VxmRun2D"}, control : {{}, {0, 63}}, immediate : {{31}}]
Transpose2D == [op : {"SxmTranspose"}, source : {48, 62}, target : {0, 49},
                inputRow : {0, 7, 8, 9, 10, 15}]
Maps == {[lane \in 0 .. 31 |-> lane], [lane \in 0 .. 31 |-> 31 - lane],
         [lane \in 0 .. 31 |-> 32]}
Permute2D == [op : {"SxmPermute"}, source : {0, 48}, target : {48, 49},
              outputRow : {7, 8}, outputTile : {3, 4, 5}, mapStride : {0, 8, 4},
              map : Maps]

Notifies == {NoNotify, [enabled |-> 1, hemisphere |-> 1, slice |-> 51, bank |-> 1],
             [enabled |-> 1, hemisphere |-> 0, slice |-> 52, bank |-> 0]}
Endpoints == [op : {"Endpoint"}, hemisphere : {0, 1}, lane : {0, 7, 8},
              stream : {31, 32}, count : {1, 65536, 65537}, tag : {65535},
              notify : Notifies]
OneEndpoint == [op : {"Endpoint"}, hemisphere : {0}, lane : {2}, stream : {3},
                count : {4}, tag : {5}, notify : Notifies]
Dmas == [op : {"Dma"}, store : {0, 1}, hemisphere : {1}, lane : {7}, count : {1, 5},
         stride : {0, 32, 65535}, tag : {65535}, address : {{}, 5 .. 63, 0 .. 63}]
OneDma == [op : {"Dma"}, store : {0}, hemisphere : {1}, lane : {3}, count : {5},
           stride : {32}, tag : {9}, address : {{5, 40}}]

MCSamples ==
    [Mem |-> Mem3D \cup OneMem3D \cup WriteRead2D \cup OneWriteRead2D \cup MemWords
             \cup OneMemWord \cup Synchronized \cup OneSynchronized \cup Controls
             \cup OneControl,
     MxmLoad |-> MxmLoad3D \cup OneMxmLoad \cup LoadWords \cup OneLoadWord,
     MxmDequant |-> Dequant3D \cup OneDequant \cup DequantWord \cup OneControl,
     MxmCompute |-> MxmCompute3D \cup OneMxmCompute \cup ComputeWords
                    \cup OneComputeWord,
     Vxm |-> With(FlatLoops, Vxm2D) \cup With(OneFlat, Vxm2D),
     SxmTranspose |-> With(FlatLoops \cup OneFlat, Transpose2D),
     SxmPermute |-> With(FlatLoops \cup OneFlat, Permute2D),
     C2cTx |-> Endpoints \cup OneEndpoint,
     C2cRx |-> Endpoints \cup OneEndpoint,
     C2cDma |-> Dmas \cup OneDma \cup OneControl]

MCDamaged ==
    [Mem |-> OneMem3D \cup OneWriteRead2D \cup OneMemWord \cup OneSynchronized
             \cup OneControl,
     MxmLoad |-> OneMxmLoad \cup OneLoadWord,
     MxmDequant |-> OneDequant \cup DequantWord \cup OneControl,
     MxmCompute |-> OneMxmCompute \cup OneComputeWord,
     Vxm |-> With(OneFlat, Vxm2D),
     SxmTranspose |-> With(OneFlat, Transpose2D),
     SxmPermute |-> With(OneFlat, [op : {"SxmPermute"}, source : {0}, target : {48},
                                   outputRow : {7}, outputTile : {4},
                                   mapStride : {8}, map : Maps]),
     C2cTx |-> OneEndpoint, C2cRx |-> OneEndpoint, C2cDma |-> OneDma]

MCBases == {0, 8191}
MCScales == {{}, {0, 7, 15}}
=============================================================================
