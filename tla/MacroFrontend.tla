--------------------------- MODULE MacroFrontend ---------------------------
(***************************************************************************)
(* The raw macro form of an instruction queue: a bit stream of records is  *)
(* fetched word by word, parsed, gathered into descriptors (the DDB) and   *)
(* admitted one context per cycle, shortly before its start, into a small  *)
(* context RAM that issues each instruction in its cycle                   *)
(* (icu/macro_bitstream_decoder.hpp, icu/active_macro_context.hpp and the  *)
(* raw macro cycle of icu/distributed_queue.hpp).                          *)
(*                                                                         *)
(* Of the bits only their number is kept: an image is a list of runs, and  *)
(* the parser knows from it what it reads and how long it is.  Control     *)
(* records of the queue are in QueueControl.                               *)
(***************************************************************************)
EXTENDS Integers, Sequences, FiniteSets, Functions

Seqs == INSTANCE SequencesExt

CONSTANTS
  Images,            \* what the loader may have written
  WordBits, ImemReadLatency, ImemRequestInitiationInterval,
  ReservoirWords, DecodeWindowBits,
  DdbDepth, DdbRunCapacity, AdmissionLookahead,
  ContextDepth,      \* active contexts of a queue
  OperandLimit       \* rows, columns or accumulators, whichever the kind counts

(* An image: [kind, enable, dictionary, start, operand, runs, cut].  A run  *)
(* is a template with the records that use it: [extended, native, shape,   *)
(* schedule, deltas]; the first record of the first run has no delta.  A   *)
(* delta is [code, symbol] with code "dictionary", or [code, start,       *)
(* operand] with code "compact" or "wide".  The last cut payload words are  *)
(* missing.                                                                *)

ASSUME MacroFrontendAssumption ==
  /\ {WordBits, ImemReadLatency, ImemRequestInitiationInterval, DdbDepth, DdbRunCapacity,
      ContextDepth, OperandLimit} \subseteq Nat \ {0}
  /\ ReservoirWords \in Nat /\ ReservoirWords >= 2
  /\ DecodeWindowBits \in 1 .. WordBits /\ DecodeWindowBits <= 64
  /\ AdmissionLookahead \in Nat

VARIABLES
  image,
  decoder,     \* the decoder's registers, see Fresh
  contexts,    \* Active Context RAM
  cycle, stage, \* cycle_; "load", "prime" or "run"
  broken,      \* the exception that ended the run, or "none"
  fired, shot  \* history: issues so far, and the last one [at, operand]

macroVars == <<image, decoder, contexts, cycle, stage, broken, fired, shot>>
-----------------------------------------------------------------------------
(* Widths of the bit stream.                                               *)
operand_bits(kind) ==
  CASE kind = "Mem" -> 13 [] kind = "MxmLoad" -> 2 [] kind = "MxmCompute" -> 13 [] kind = "MxmDequant" -> 0

compact_schedule_bits(shape) ==
  (IF shape \in {"Inner1D", "Full2D"} THEN 29 ELSE 0) + (IF shape \in {"Outer1D", "Full2D"} THEN 36 ELSE 0)

PayloadBits(run) == IF run.extended THEN 6 * 32 + 2 ELSE compact_schedule_bits(run.shape)

HeaderBits(kind, run) ==
  IF kind = "Mem" THEN IF run.extended THEN 1 + 32 ELSE 1 + 2 + 1 + 6 + 1
  ELSE 1 + run.native + (IF run.extended THEN 0 ELSE 4)

(* decode_delta_prefix: a prefix code of the dictionary index, 7 escapes.  *)
SymbolBits(symbol) ==
  CASE symbol = 0 -> 1 [] symbol = 1 -> 2 [] symbol \in {2, 3} -> 4 [] OTHER -> 5

DeltaBits(delta) ==
  CASE delta.code = "compact" -> 5 + 1 + 36 [] delta.code = "wide" -> 5 + 1 + 64 [] OTHER -> SymbolBits(delta.symbol)

RecordsOf(img, r) == Len(img.runs[r].deltas) + (IF r = 1 THEN 1 ELSE 0)

Total(f) == FoldFunction(LAMBDA a, b : a + b, 0, f)

RunBits(img, r) ==
  LET run    == img.runs[r]
      deltas == [n \in DOMAIN run.deltas |-> DeltaBits(run.deltas[n])]
  IN  1 + (IF RecordsOf(img, r) > 1 THEN 16 ELSE 0) + HeaderBits(img.kind, run) + PayloadBits(run) + Total(deltas)

command_count == [img \in Images |-> Total([r \in DOMAIN img.runs |-> RecordsOf(img, r)])]

PayloadWords ==
  [img \in Images |->
     LET bits == 3 + 36 * Len(img.dictionary) + 32 + operand_bits(img.kind)
                   + Total([r \in DOMAIN img.runs |-> RunBits(img, r)])
     IN  (bits + WordBits - 1) \div WordBits - img.cut]
-----------------------------------------------------------------------------
(* The decoder's registers.                                                *)
NoDelta == [start |-> 0, operand |-> 0]
Chunk(run, first) == [run |-> run, first |-> first, start |-> 0, operand |-> 0, deltas |-> <<>>, count |-> 0]

Fresh(img) ==
  [ pending |-> <<>>, outstanding |-> 0, cooldown |-> 0, address |-> 0,  \* i-MEM requests
    arrived |-> 0, consumed |-> 0,          \* reservoir: words refilled, bits consumed
    latched |-> FALSE, disabled |-> FALSE,
    state |-> "WaitingForControl", got |-> 0, entry |-> 0, run |-> 0,
    runLeft |-> 0, parseLeft |-> 0, deltaq |-> <<>>,
    start |-> img.start, operand |-> img.operand,
    building |-> Chunk(0, 0), decoded |-> 0,
    ddb |-> <<>>,
    admitted |-> <<>>, starving |-> FALSE, fault |-> "none" ]

valid_bits(d) == d.arrived * WordBits - d.consumed
valid_words(d) == d.arrived - d.consumed \div WordBits
(* Mutant: words that are on their way are not counted.                    *)
RoomNow(d) == valid_words(d) < ReservoirWords
can_refill(d) == valid_words(d) + d.outstanding < ReservoirWords
Drain(d, width) == [d EXCEPT !.consumed = @ + width]
Starve(d) == [d EXCEPT !.starving = TRUE]
Fail(d, what) == [d EXCEPT !.fault = what]

(* A field that is read at once, and what reading it does.                 *)
Read(d, width, Do(_)) == IF valid_bits(d) < width THEN Starve(d) ELSE Do(Drain(d, width))

(* A field of any width, read by at most a window per cycle: assemble_bits *)
(* and the payloads of templates and deltas.                               *)
Collect(d, width, Do(_)) ==
  LET rest == width - d.got
      part == IF rest < DecodeWindowBits THEN rest ELSE DecodeWindowBits
  IN  CASE valid_bits(d) < part -> Starve(d)
        [] valid_bits(d) >= part /\ part = rest -> Do([Drain(d, part) EXCEPT !.got = 0])
        [] OTHER -> [Drain(d, part) EXCEPT !.got = @ + part]

commit_ready_fetch(d) ==
  CASE d.pending = <<>> \/ (d.pending # <<>> /\ d.pending[1].left # 0) -> d
    [] d.pending # <<>> /\ d.pending[1].left = 0 /\ d.pending[1].address = 0 ->
         [d EXCEPT !.pending = Tail(@), !.latched = TRUE, !.disabled = ~image.enable,
                   !.state = IF ~image.enable \/ image.runs = <<>> THEN "Done" ELSE "DictionaryCount"]
    [] OTHER -> [d EXCEPT !.pending = Tail(@), !.outstanding = @ - 1, !.arrived = @ + 1]

begin_fetch_if_possible(d) ==
  IF \/ d.cooldown # 0 \/ d.disabled \/ d.state = "Done" \/ d.address > PayloadWords[image]
     \/ d.address # 0 /\ (~d.latched \/ ~can_refill(d))
  THEN d
  ELSE [d EXCEPT !.pending = Append(@, [address |-> d.address, left |-> ImemReadLatency]),
                 !.outstanding = IF d.address = 0 THEN @ ELSE @ + 1,
                 !.address = @ + 1, !.cooldown = ImemRequestInitiationInterval]

age_pending_fetches(d) ==
  [d EXCEPT !.pending = [f \in DOMAIN @ |-> [@[f] EXCEPT !.left = IF @ = 0 THEN 0 ELSE @ - 1]],
            !.cooldown = IF @ = 0 THEN 0 ELSE @ - 1]
-----------------------------------------------------------------------------
(* Records become descriptors.                                             *)
Template(d) == image.runs[d.building.run]

ValidSpace(s) ==
  /\ {s.inner_count, s.outer_count, s.inner_interval, s.outer_interval} \subseteq Nat \ {0}
  /\ s.outer_count > 1 => s.outer_interval > (s.inner_count - 1) * s.inner_interval

CompletesDescriptor(d) == d.building.count + 1 = DdbRunCapacity \/ d.runLeft = 1

advance_after_run(d) ==
  [d EXCEPT !.state = IF d.decoded = command_count[image] THEN "Done" ELSE "RunPrefix"]

(* finish_record, pack_ddb_slot and commit_descriptor.  The delta of the   *)
(* first record of a descriptor is in its start already.                   *)
finish_record(d, delta) ==
  LET start   == d.start + delta.start
      operand == d.operand + delta.operand
      b       == d.building
      grown   == IF b.count = 0
                 THEN [b EXCEPT !.start = start, !.operand = operand, !.count = 1]
                 ELSE [b EXCEPT !.deltas = Append(@, delta), !.count = @ + 1]
      next    == [d EXCEPT !.start = start, !.operand = operand, !.decoded = @ + 1, !.runLeft = @ - 1,
                           !.building = grown]
  IN  CASE operand \notin 0 .. OperandLimit - 1 -> Fail(d, "operand")
        [] operand \in 0 .. OperandLimit - 1 /\ ~CompletesDescriptor(d) -> next
        [] operand \in 0 .. OperandLimit - 1 /\ CompletesDescriptor(d) /\ ~ValidSpace(Template(d).schedule) ->
             Fail(d, "space")
        [] OTHER -> [next EXCEPT !.ddb = Append(@, grown), !.building = Chunk(d.run, next.decoded)]

apply_delta_queue(d) ==
  IF d.deltaq = <<>> \/ (CompletesDescriptor(d) /\ Len(d.ddb) = DdbDepth) THEN d
  ELSE LET applied == finish_record([d EXCEPT !.deltaq = <<>>], d.deltaq[1])
       IN  IF applied.runLeft = 0 /\ applied.fault = "none" THEN advance_after_run(applied) ELSE applied
-----------------------------------------------------------------------------
(* The parser: one field, or one window of a field, per cycle.             *)
read_dictionary_count(d) ==
  Read(d, 3, LAMBDA e : [e EXCEPT !.state = IF image.dictionary = <<>> THEN "InitialState" ELSE "DictionaryEntry"])

read_dictionary_entry(d) ==
  Collect(d, 22 + 14, LAMBDA e :
    [e EXCEPT !.entry = @ + 1,
              !.state = IF d.entry + 1 = Len(image.dictionary) THEN "InitialState" ELSE @])

read_initial_state(d) == Collect(d, 32 + operand_bits(image.kind), LAMBDA e : [e EXCEPT !.state = "RunPrefix"])

read_run_prefix(d) ==
  Read(d, 1, LAMBDA e :
    [e EXCEPT !.run = @ + 1,
              !.runLeft = IF RecordsOf(image, d.run + 1) = 1 THEN 1 ELSE @,
              !.state = IF RecordsOf(image, d.run + 1) = 1 THEN "TemplatePrefix" ELSE "RunLength"])

read_run_length(d) ==
  Read(d, 16, LAMBDA e : [e EXCEPT !.runLeft = RecordsOf(image, d.run), !.state = "TemplatePrefix"])

read_template_prefix(d) ==
  LET run == image.runs[d.run]
  IN  Read(d, HeaderBits(image.kind, run), LAMBDA e :
        [e EXCEPT !.state = IF PayloadBits(run) = 0 THEN "TemplateDecode" ELSE "TemplatePayload"])

read_template_payload(d) ==
  Collect(d, PayloadBits(image.runs[d.run]), LAMBDA e : [e EXCEPT !.state = "TemplateDecode"])

decode_template(d) ==
  [d EXCEPT !.building = Chunk(d.run, d.decoded),
            !.parseLeft = IF d.decoded = 0 THEN @ ELSE d.runLeft,
            !.state = IF d.decoded = 0 THEN "Record" ELSE "Delta"]

read_record_without_delta(d) ==
  LET first == finish_record(d, NoDelta)
  IN  CASE first.fault # "none" -> first
        [] first.fault = "none" /\ first.runLeft = 0 -> advance_after_run(first)
        [] OTHER -> [first EXCEPT !.parseLeft = first.runLeft, !.state = "Delta"]

(* The delta the stream decoder is at.                                     *)
DeltaAt(d) == LET deltas == image.runs[d.run].deltas IN deltas[Len(deltas) - d.parseLeft + 1]

enqueue_delta(d) ==
  LET delta == DeltaAt(d)
      value == IF delta.code = "dictionary" THEN image.dictionary[delta.symbol + 1] ELSE delta
  IN  [d EXCEPT !.deltaq = <<[start |-> value.start, operand |-> value.operand]>>,
                !.parseLeft = @ - 1,
                !.state = IF d.parseLeft = 1 THEN "DeltaWait" ELSE "Delta"]

read_delta_stream(d) ==
  LET delta == DeltaAt(d)
  IN  CASE delta.code = "dictionary" ->
             Read(d, SymbolBits(delta.symbol), LAMBDA e :
               IF delta.symbol < Len(image.dictionary) THEN enqueue_delta(e) ELSE Fail(d, "dictionary"))
        [] delta.code = "compact" /\ DecodeWindowBits >= 42 -> Read(d, 42, LAMBDA e : enqueue_delta(e))
        [] OTHER -> Read(d, 6, LAMBDA e : [e EXCEPT !.state = "DeltaPayload"])

read_delta_payload(d) ==
  Collect(d, IF DeltaAt(d).code = "wide" THEN 64 ELSE 36, LAMBDA e : enqueue_delta(e))

parser_step(d) ==
  CASE d.state \in {"WaitingForControl", "DeltaWait", "Done"} -> d
    [] d.state = "Record" ->
         IF CompletesDescriptor(d) /\ Len(d.ddb) = DdbDepth THEN d ELSE read_record_without_delta(d)
    [] d.state = "Delta" -> IF d.deltaq # <<>> THEN d ELSE read_delta_stream(d)
    [] d.state = "DictionaryCount" -> read_dictionary_count(d)
    [] d.state = "DictionaryEntry" -> read_dictionary_entry(d)
    [] d.state = "InitialState"    -> read_initial_state(d)
    [] d.state = "RunPrefix"       -> read_run_prefix(d)
    [] d.state = "RunLength"       -> read_run_length(d)
    [] d.state = "TemplatePrefix"  -> read_template_prefix(d)
    [] d.state = "TemplatePayload" -> read_template_payload(d)
    [] d.state = "TemplateDecode"  -> decode_template(d)
    [] d.state = "DeltaPayload"    -> read_delta_payload(d)
-----------------------------------------------------------------------------
(* Admission.  A context is taken from the oldest descriptor at the        *)
(* earliest AdmissionLookahead cycles before its start, if there is room.  *)
Occupied(slots) == {n \in 1 .. ContextDepth : slots[n] # <<>>}
(* Mutant: the latest release.                                             *)
LatestRelease(slots) ==
  CHOOSE c \in {slots[n].final : n \in Occupied(slots)} : \A n \in Occupied(slots) : c >= slots[n].final

earliest_active_macro_release_cycle(slots) ==
  CHOOSE c \in {slots[n].final : n \in Occupied(slots)} : \A n \in Occupied(slots) : c <= slots[n].final

expand_and_admit(d, now, slots) ==
  LET head == d.ddb[1]
      rest == IF head.deltas = <<>> THEN Tail(d.ddb)
              ELSE <<[head EXCEPT !.start = @ + head.deltas[1].start,
                                  !.operand = @ + head.deltas[1].operand,
                                  !.first = @ + 1, !.deltas = Tail(@), !.count = @ - 1]>> \o Tail(d.ddb)
      latest == IF head.start = 0 THEN 0 ELSE head.start - 1
  IN  CASE d.ddb = <<>> -> d
        [] d.ddb # <<>> /\ now + AdmissionLookahead < head.start -> d
        [] d.ddb # <<>> /\ now + AdmissionLookahead >= head.start /\ Cardinality(Occupied(slots)) = ContextDepth ->
             IF earliest_active_macro_release_cycle(slots) > latest THEN Fail(d, "deadline") ELSE d
        [] OTHER -> [d EXCEPT !.ddb = rest,
                              !.admitted = <<[run |-> head.run, start |-> head.start, operand |-> head.operand]>>]

primed(d) == d.latched /\ (d.disabled \/ d.state = "Done" \/ Len(d.ddb) = DdbDepth)
decoder_done(d) == d.disabled \/ (d.state = "Done" /\ d.ddb = <<>>)
has_pending_cycle_zero(d) == d.ddb # <<>> /\ d.ddb[1].start = 0
-----------------------------------------------------------------------------
(* Active contexts.                                                        *)
Corner(s, operand) ==
  {operand + i * s.inner_stride + o * s.outer_stride : i \in {0, s.inner_count - 1}, o \in {0, s.outer_count - 1}}

(* pack_initial: steps and residual replace strides and interval.          *)
pack_initial(s, start, operand) ==
  LET inner == s.inner_count - 1
      outer == s.outer_count - 1
      step  == IF inner = 0 THEN 0 ELSE s.inner_stride
      span  == IF inner = 0 THEN 0 ELSE inner * s.inner_interval
  IN  [ operand |-> operand,
        inner |-> s.inner_count, innerLeft |-> s.inner_count, outerLeft |-> s.outer_count,
        interval |-> IF inner = 0 THEN 1 ELSE s.inner_interval,
        residual |-> IF outer = 0 THEN 1 ELSE s.outer_interval - span,
        step |-> step,
        transition |-> IF outer = 0 THEN 0 ELSE s.outer_stride - inner * step,
        next |-> start, final |-> start + outer * s.outer_interval + span ]

(* Mutant: the inner count is not reloaded.                                *)
AdvanceOuterOnly(c) ==
  CASE c.innerLeft > 1 ->
         [c EXCEPT !.innerLeft = @ - 1, !.next = @ + c.interval, !.operand = @ + c.step]
    [] c.innerLeft = 1 /\ c.outerLeft > 1 ->
         [c EXCEPT !.outerLeft = @ - 1, !.next = @ + c.residual, !.operand = @ + c.transition]
    [] OTHER -> <<>>

(* advance_after_issue; <<>> when the context has completed.               *)
advance_after_issue(c) ==
  CASE c.innerLeft > 1 ->
         [c EXCEPT !.innerLeft = @ - 1, !.next = @ + c.interval, !.operand = @ + c.step]
    [] c.innerLeft = 1 /\ c.outerLeft > 1 ->
         [c EXCEPT !.outerLeft = @ - 1, !.innerLeft = c.inner, !.next = @ + c.residual, !.operand = @ + c.transition]
    [] OTHER -> <<>>

(* accept_decoded_macro and activate_macro: the first free slot.           *)
FreeSlot(slots) == CHOOSE n \in 1 .. ContextDepth : slots[n] = <<>> /\ \A o \in 1 .. n - 1 : slots[o] # <<>>

Accepted(d, slots) ==
  IF d.admitted = <<>> THEN slots
  ELSE LET a == d.admitted[1]
       IN  [slots EXCEPT ![FreeSlot(slots)] = pack_initial(image.runs[a.run].schedule, a.start, a.operand)]

AcceptFault(d, started) ==
  CASE d.fault # "none" -> d.fault
    [] d.fault = "none" /\ d.admitted = <<>> -> "none"
    [] OTHER ->
         LET a == d.admitted[1]
         IN  CASE started /\ a.start <= cycle -> "missed start"
               [] ~(started /\ a.start <= cycle)
                    /\ ~Corner(image.runs[a.run].schedule, a.operand) \subseteq 0 .. OperandLimit - 1 -> "operand"
               [] OTHER -> "none"

(* tick_impl and accept_decoded_macro.  (The existentials only name what    *)
(* each stage leaves to the next; an exception stops at its stage.)        *)
Then(d, Stage(_)) == IF d.fault = "none" THEN Stage(d) ELSE d

Truncated(d) == d.starving /\ d.pending = <<>> /\ d.address > PayloadWords[image]

DecoderTick(now, slots, started) ==
  \E d1 \in {expand_and_admit(commit_ready_fetch([decoder EXCEPT !.admitted = <<>>, !.starving = FALSE]), now, slots)} :
  \E d2 \in {Then(d1, apply_delta_queue)} :
  \E d3 \in {Then(d2, parser_step)} :
  \E d4 \in {Then(Then(d3, begin_fetch_if_possible), age_pending_fetches)} :
  \E d \in {IF d4.fault = "none" /\ Truncated(d4) THEN Fail(d4, "truncated") ELSE d4} :
    /\ decoder' = d /\ broken' = AcceptFault(d, started)
    /\ contexts' = IF broken' = "none" THEN Accepted(d, slots) ELSE slots

Due == {n \in Occupied(contexts) : contexts[n].next = cycle}
Missed == {n \in Occupied(contexts) : contexts[n].next < cycle}
-----------------------------------------------------------------------------
MacroInit ==
  /\ image = <<>> /\ decoder = <<>>
  /\ contexts = [n \in 1 .. ContextDepth |-> <<>>]
  /\ cycle = 0 /\ stage = "load" /\ broken = "none"
  /\ fired = 0 /\ shot = <<>>

(* configure_raw_macro                                                     *)
MacroConfigure ==
  /\ stage = "load" /\ stage' = "prime"
  /\ \E img \in Images : image' = img /\ decoder' = Fresh(img)
  /\ UNCHANGED <<contexts, cycle, broken, fired, shot>>

Full == Cardinality(Occupied(contexts)) = ContextDepth
raw_macro_ready == primed(decoder) /\ (~has_pending_cycle_zero(decoder) \/ Full)

(* prefetch_raw_macro while the queue is not ready; the chip starts when   *)
(* every queue is.                                                         *)
MacroPrime ==
  /\ stage = "prime" /\ broken = "none" /\ ~raw_macro_ready
  /\ DecoderTick(0, contexts, FALSE)
  /\ UNCHANGED <<image, cycle, stage, fired, shot>>

MacroStart ==
  /\ stage = "prime" /\ broken = "none" /\ raw_macro_ready /\ stage' = "run"
  /\ UNCHANGED <<image, decoder, contexts, cycle, broken, fired, shot>>

MacroDone == stage = "run" /\ decoder_done(decoder) /\ Occupied(contexts) = {}
MacroRunning == stage = "run" /\ broken = "none"

(* tick_raw_macro between control records: issue first, then the decoder;  *)
(* a context admitted now issues in a later cycle.                         *)
Issued(slots) == [n \in 1 .. ContextDepth |-> IF n \in Due THEN advance_after_issue(slots[n]) ELSE slots[n]]

MacroTick ==
  /\ MacroRunning /\ ~MacroDone
  /\ \/ Missed # {} /\ broken' = "missed" /\ UNCHANGED <<decoder, contexts, cycle, fired, shot>>
     \/ /\ Missed = {} /\ Cardinality(Due) > 1
        /\ broken' = "overlap" /\ UNCHANGED <<decoder, contexts, cycle, fired, shot>>
     \/ /\ Missed = {} /\ Cardinality(Due) <= 1
        /\ fired' = fired + Cardinality(Due)
        /\ \/ Due = {} /\ UNCHANGED shot
           \/ \E n \in Due : shot' = [at |-> cycle, operand |-> contexts[n].operand]
        /\ \E slots \in {Issued(contexts)} : DecoderTick(cycle, slots, TRUE)
        /\ cycle' = IF broken' = "none" THEN cycle + 1 ELSE cycle
  /\ UNCHANGED <<image, stage>>

(* hold_cycle: a response on its way is taken, everything else stands.     *)
MacroHold ==
  /\ MacroRunning
  /\ decoder' = age_pending_fetches(commit_ready_fetch(decoder))
  /\ UNCHANGED <<image, contexts, cycle, stage, broken, fired, shot>>
-----------------------------------------------------------------------------
(* What an image means: the records it lists, each an iteration space from *)
(* its own start, and every issue of every record.                         *)
Known(img, delta) == delta.code # "dictionary" \/ delta.symbol < Len(img.dictionary)
Value(img, delta) ==
  CASE delta.code # "dictionary" -> delta
    [] delta.code = "dictionary" /\ Known(img, delta) -> img.dictionary[delta.symbol + 1]
    [] OTHER -> NoDelta

Steps(img) ==
  Seqs!FlattenSeq([r \in DOMAIN img.runs |->
    LET deltas == img.runs[r].deltas
    IN  (IF r = 1 THEN <<[run |-> 1, known |-> TRUE, delta |-> NoDelta]>> ELSE <<>>)
        \o [n \in DOMAIN deltas |-> [run |-> r, known |-> Known(img, deltas[n]), delta |-> Value(img, deltas[n])]]])

Readable(steps) == {n \in DOMAIN steps : \A m \in 1 .. n : steps[m].known}

Records ==
  [img \in Images |->
     LET steps == Steps(img)
     IN  [n \in Readable(steps) |->
            [ s |-> img.runs[steps[n].run].schedule,
              start |-> img.start + Total([m \in 1 .. n |-> steps[m].delta.start]),
              operand |-> img.operand + Total([m \in 1 .. n |-> steps[m].delta.operand]) ]]]

Final(r) == r.start + (r.s.outer_count - 1) * r.s.outer_interval + (r.s.inner_count - 1) * r.s.inner_interval

IssuesOf(n, r) ==
  {[record |-> n, at |-> r.start + o * r.s.outer_interval + i * r.s.inner_interval,
    operand |-> r.operand + o * r.s.outer_stride + i * r.s.inner_stride] :
       o \in 0 .. r.s.outer_count - 1, i \in 0 .. r.s.inner_count - 1}

Wanted ==
  [img \in Images |->
     IF img.enable THEN UNION {IssuesOf(n, Records[img][n]) : n \in DOMAIN Records[img]} ELSE {}]

Descriptors(img) ==
  Total([r \in DOMAIN img.runs |-> (RecordsOf(img, r) + DdbRunCapacity - 1) \div DdbRunCapacity])

MacroTypeOK ==
  /\ stage \in {"load", "prime", "run"} /\ cycle \in Nat /\ fired \in Nat
  /\ stage # "load" =>
       /\ valid_bits(decoder) \in 0 .. ReservoirWords * WordBits
       /\ valid_words(decoder) + decoder.outstanding \in 0 .. ReservoirWords
       /\ decoder.outstanding \in {0, Len(decoder.pending), Len(decoder.pending) - 1}
       /\ decoder.arrived + Len(decoder.pending) <= decoder.address
       /\ Len(decoder.ddb) <= DdbDepth
       /\ \A n \in DOMAIN decoder.ddb : Len(decoder.ddb[n].deltas) + 1 = decoder.ddb[n].count
       /\ Len(decoder.deltaq) <= 1 /\ decoder.got < 6 * 32 + 2
       /\ decoder.decoded <= command_count[image]
  /\ \A n \in Occupied(contexts) :
       /\ contexts[n].innerLeft \in 1 .. contexts[n].inner /\ contexts[n].outerLeft >= 1
       /\ contexts[n].next <= contexts[n].final

(* Records that have become contexts.                                      *)
Admitted(d) == d.decoded - d.building.count - Total([n \in DOMAIN d.ddb |-> d.ddb[n].count])

(* Until something is thrown, the instructions issued are exactly those of *)
(* the admitted records whose cycle has come, each with the operand its    *)
(* loops give it; at the end all records are admitted.                     *)
MacroIssuesOnTime ==
  stage = "run" /\ broken = "none" =>
    LET past == {p \in Wanted[image] : p.at < cycle /\ p.record <= Admitted(decoder)}
    IN  /\ fired = Cardinality(past)
        /\ MacroDone => fired = Cardinality(Wanted[image])
        /\ past # {} => \E p \in past : /\ [at |-> p.at, operand |-> p.operand] = shot
                                       /\ \A q \in past : q.at <= p.at

(* An exception is always the image's fault.  A deadline is reported only  *)
(* if more contexts are live at one cycle than the RAM holds, however late *)
(* they are decoded; an image that is wholly decoded before the start is   *)
(* never late; the contexts never skip an issue.                           *)
MacroFaultsJustified ==
  stage # "load" =>
  LET records == Records[image]
      N       == DOMAIN records
  IN  /\ broken # "missed"
      /\ broken = "deadline" =>
           \E n \in N : Cardinality({m \in N : /\ records[m].start <= records[n].start
                                             /\ Final(records[m]) >= records[n].start}) > ContextDepth
      /\ broken = "overlap" => \E p, q \in Wanted[image] : p.record # q.record /\ p.at = q.at
      /\ broken = "missed start" =>
           \/ AdmissionLookahead = 0 \/ Descriptors(image) > DdbDepth
           \/ \E m, n \in N : m # n /\ records[m].start = records[n].start
      /\ broken = "truncated" => image.cut > 0
      /\ broken = "space" => \E r \in DOMAIN image.runs : ~ValidSpace(image.runs[r].schedule)
      /\ broken = "operand" =>
           \E n \in N : ~Corner(records[n].s, records[n].operand) \subseteq 0 .. OperandLimit - 1

=============================================================================
