------------------------------ MODULE NeImages ------------------------------
(***************************************************************************)
(* 16-bit programs: NeFile::parse (ne.rs, ne/header.rs), load_ne,          *)
(* apply_ne_fixups, setup_guest_ne and the API calls of loader/ne_exec.rs, *)
(* and the return of such a call in run_vcpu (loader/vcpu.rs).             *)
(*                                                                         *)
(* Bytes are numbers below 256.  The tables of the file are records with   *)
(* the fields the readers take from them; the segments, their relocation   *)
(* records and the entry table are bytes.  The thunk tile, all INT 3, and  *)
(* the TIB, PIB and BIOS data area are left out.  A program keeps to the   *)
(* NE format and names the segments of its fixups by number.               *)
(***************************************************************************)
EXTENDS Descriptors

CONSTANTS NePrograms,    \* what a 16-bit linker was given
          NeArguments    \* the calls a program makes: an ordinal and its arguments

NE_SEGMENT_BASE         == 16 * TILE_SIZE
NE_THUNK_BASE           == 240 * TILE_SIZE
NE_THUNK_SELECTOR       == TileSelector(240)
NE_THUNK_CODE_SELECTOR  == (TILED_CODE_START_INDEX + 240) * 8
NE_SHIFT                == 2       \* alignment_shift_count of the files

VARIABLES neProgram,
          neAt,          \* the step
          ne,            \* NeFile: what the parser read
          neSeg, neRel,  \* the segment and the relocation being worked on
          neOff,         \* the place of a chain, or in the entry table; -1 for none
          neMem,         \* guest memory
          gdt,           \* GDT entries written after setup_idt
          regs,          \* CS, IP, SS, SP and DS
          neCall,        \* the API call and the registers before it
          neOut          \* what the last call showed

neVars == <<neProgram, neAt, ne, neSeg, neRel, neOff, neMem, gdt, regs, neCall, neOut>>

NeInit ==
  /\ neProgram \in NePrograms /\ neAt = "parse" /\ ne = <<>>
  /\ neSeg = 1 /\ neRel = 1 /\ neOff = -1
  /\ neMem = <<>> /\ gdt = <<>> /\ regs = <<>> /\ neCall = <<>> /\ neOut = <<>>

----------------------------------------------------------------------------
(* The file (NE format): a chain of places runs through the words that a   *)
(* fixup replaces, the last one holding 65535; the relocations of a        *)
(* segment follow its data.                                                *)

Chained(data, f) ==
  IF Bit(f.flags, 4) \/ f.flags % 4 = 3 THEN data
  ELSE FoldLeft(LAMBDA d, k :
         [i \in DOMAIN d |->
            IF i - f.sites[k] \in {1, 2}
            THEN LE(IF k = Len(f.sites) THEN 65535 ELSE f.sites[k + 1], 2)[i - f.sites[k]]
            ELSE d[i]], data, [k \in DOMAIN f.sites |-> k])

Record(f) == <<f.type, f.flags>> \o LE(f.sites[1], 2) \o LE(f.a, 2) \o LE(f.b, 2)

Padding(n) == Zeros((-n) % 2 ^ NE_SHIFT)

SegmentBytes(seg) ==
  FoldLeft(Chained, seg.data, seg.fixups) \o LE(Len(seg.fixups), 2)
    \o FlattenSeq([k \in DOMAIN seg.fixups |-> Record(seg.fixups[k])])

\* The file up to the k-th segment; a segment without data takes no room.
UpTo(k) ==
  FoldLeft(LAMBDA f, seg : IF seg.data = <<>> THEN f
                           ELSE f \o SegmentBytes(seg) \o Padding(Len(SegmentBytes(seg))),
           Zeros(2 ^ NE_SHIFT), SubSeq(neProgram.segments, 1, k - 1))

NeBytes == UpTo(Len(neProgram.segments) + 1)

\* A bundle: unused ordinals, entries of one segment, or movable entries.
BundleBytes(b) ==
  CASE b.kind = "unused"  -> <<b.count, 0>>
    [] b.kind = "fixed"   -> <<Len(b.entries), b.entries[1].segment>>
         \o FlattenSeq([k \in DOMAIN b.entries |-> <<1>> \o LE(b.entries[k].offset, 2)])
    [] b.kind = "movable" -> <<Len(b.entries), 255>>
         \o FlattenSeq([k \in DOMAIN b.entries |-> <<1, 205, 63, b.entries[k].segment>>
                                                    \o LE(b.entries[k].offset, 2)])

EntryTable == FlattenSeq([k \in DOMAIN neProgram.bundles |-> BundleBytes(neProgram.bundles[k])]) \o <<0>>

----------------------------------------------------------------------------
(* NeFile::parse                                                           *)

actual_data_length(seg) == IF seg.data_length = 0 THEN 65536 ELSE seg.data_length
actual_min_alloc(seg)   == IF seg.min_alloc = 0 THEN 65536 ELSE seg.min_alloc
file_offset(seg)        == seg.data_offset * 2 ^ NE_SHIFT

\* NeSegmentEntry::read: the fields are 16 bits wide.
segment_entry(k) ==
  LET seg == neProgram.segments[k]
  IN  [data_offset |-> IF seg.data = <<>> THEN 0 ELSE Len(UpTo(k)) \div 2 ^ NE_SHIFT,
       data_length |-> Len(seg.data) % 65536, has_relocs |-> seg.fixups # <<>>,
       code |-> seg.code, min_alloc |-> seg.alloc % 65536]

\* The header, the segment table and the names.
NeParse ==
  /\ neAt = "parse"
  /\ IF Len(neProgram.segments) > 255
     THEN neAt' = "failed" /\ UNCHANGED <<ne, neOff>>
     ELSE /\ ne' = [segments |-> [k \in DOMAIN neProgram.segments |-> segment_entry(k)],
                    modules |-> neProgram.modules, entries |-> <<>>, relocations |-> <<>>]
          /\ neAt' = "entries" /\ neOff' = 0
  /\ UNCHANGED <<neProgram, neSeg, neRel, neMem, gdt, regs, neCall, neOut>>

\* One bundle of parse_entry_table; neRel counts the ordinals.
NeReadBundle ==
  LET data  == EntryTable
      count == data[neOff + 1]
  IN  /\ neAt = "entries"
      /\ IF neOff >= Len(data) \/ count = 0
         THEN neAt' = "relocations" /\ neOff' = -1 /\ neRel' = 1 /\ UNCHANGED ne
         ELSE LET kind  == data[neOff + 2]
                  width == IF kind = 255 THEN 6 ELSE 3
                  Start(k) == neOff + 2 + (k - 1) * width
                  found == [k \in 1 .. count |->
                              [ordinal |-> neRel + k - 1,
                               segment |-> IF kind = 255 THEN data[Start(k) + 4] ELSE kind,
                               offset  |-> FromLE(SubSeq(data, Start(k) + width - 1, Start(k) + width))]]
              IN  /\ ne' = IF kind = 0 THEN ne ELSE [ne EXCEPT !.entries = @ \o found]
                  /\ neOff' = IF kind = 0 THEN neOff + 2 ELSE Start(count + 1)
                  /\ neRel' = neRel + count /\ UNCHANGED neAt
      /\ UNCHANGED <<neProgram, neSeg, neMem, gdt, regs, neCall, neOut>>

\* NeRelocationEntry::read; a is the segment or the module, b the offset or ordinal.
read_relocation(b) ==
  [type |-> b[1], additive |-> Bit(b[2], 4), kind |-> b[2] % 4, source_offset |-> FromLE(SubSeq(b, 3, 4)),
   a |-> IF b[2] % 4 = 0 THEN b[5] ELSE FromLE(SubSeq(b, 5, 6)), b |-> FromLE(SubSeq(b, 7, 8))]

RelocationsAt(seg) == file_offset(seg) + actual_data_length(seg)

NeReadRelocations ==
  /\ neAt = "relocations"
  /\ IF Len(ne.relocations) = Len(ne.segments)
     THEN neAt' = "load" /\ UNCHANGED ne
     ELSE LET seg   == ne.segments[Len(ne.relocations) + 1]
              start == RelocationsAt(seg)
              count == FromLE(SubSeq(NeBytes, start + 1, start + 2))
          IN  /\ ne' = [ne EXCEPT !.relocations = Append(@,
                         IF ~seg.has_relocs \/ seg.data_offset = 0 THEN <<>>
                         ELSE [k \in 1 .. count |->
                                 read_relocation(SubSeq(NeBytes, start + 8 * k - 5, start + 8 * k + 2))])]
              /\ UNCHANGED neAt
  /\ UNCHANGED <<neProgram, neSeg, neRel, neOff, neMem, gdt, regs, neCall, neOut>>

----------------------------------------------------------------------------
(* load_ne and apply_ne_fixups                                             *)

seg_base(n)     == NE_SEGMENT_BASE + (n - 1) * TILE_SIZE
seg_selector(n) == TileSelector(NE_SEGMENT_BASE \div TILE_SIZE + n - 1)

NeLoadSegment ==
  /\ neAt = "load"
  /\ IF neSeg > Len(ne.segments)
     THEN neAt' = "fixups" /\ neSeg' = 1 /\ UNCHANGED neMem
     ELSE LET seg == ne.segments[neSeg]
          IN  /\ neMem' = IF seg.data_offset = 0 THEN neMem
                          ELSE Poke(neMem, seg_base(neSeg), SubSeq(NeBytes, file_offset(seg) + 1, RelocationsAt(seg)))
              /\ neSeg' = neSeg + 1 /\ UNCHANGED neAt
  /\ UNCHANGED <<neProgram, ne, neRel, neOff, gdt, regs, neCall, neOut>>

NeModuleBase == [DOSCALLS |-> 0, VIOCALLS |-> 5120, KBDCALLS |-> 4096, SESMGR |-> 6144, NLS |-> 7168,
                 MSG |-> 8192]
resolve_import_16(m, ordinal) == (IF m \in DOMAIN NeModuleBase THEN NeModuleBase[m] ELSE 16383) + ordinal

\* Offset and selector of the target; an import by name is not looked up.
NeTarget(r) ==
  CASE r.kind = 0 -> <<r.b, seg_selector(r.a)>>
    [] r.kind = 1 -> <<resolve_import_16(ne.modules[r.a], r.b), NE_THUNK_CODE_SELECTOR>>
    [] r.kind = 2 -> <<0, NE_THUNK_SELECTOR>>

PatchBytes(r) ==
  LET t == NeTarget(r)
  IN  CASE r.type = 3 -> LE(t[1], 2) \o LE(t[2], 2)
        [] r.type = 2 -> LE(t[2], 2)
        [] r.type = 5 -> LE(t[1], 2)
        [] r.type = 0 -> LE(t[1], 1)

AtRelocation == neAt = "fixups" /\ neSeg <= Len(ne.relocations) /\ neRel <= Len(ne.relocations[neSeg])

SkipOsFixup ==
  /\ AtRelocation /\ ne.relocations[neSeg][neRel].kind = 3
  /\ neRel' = neRel + 1
  /\ UNCHANGED <<neProgram, neAt, ne, neSeg, neOff, neMem, gdt, regs, neCall, neOut>>

\* Mutant: only the first place of a chain is patched.
FirstPlaceOnly(r, addr) == 65535

\* Read before the fixup is written over it.
NextPlace(r, addr) == IF r.additive THEN 65535 ELSE FromLE(Peek(neMem, addr, 2))

\* One place of the chain of a relocation.
PatchPlace ==
  /\ AtRelocation /\ ne.relocations[neSeg][neRel].kind # 3
  /\ LET r    == ne.relocations[neSeg][neRel]
         addr == seg_base(neSeg) + IF neOff = -1 THEN r.source_offset ELSE neOff
     IN  /\ neMem' = Poke(neMem, addr, PatchBytes(r))
         /\ IF NextPlace(r, addr) = 65535 THEN neRel' = neRel + 1 /\ neOff' = -1
            ELSE neOff' = NextPlace(r, addr) /\ UNCHANGED neRel
  /\ UNCHANGED <<neProgram, neAt, ne, neSeg, gdt, regs, neCall, neOut>>

NextSegment ==
  /\ neAt = "fixups" /\ neSeg <= Len(ne.relocations) /\ neRel > Len(ne.relocations[neSeg])
  /\ neSeg' = neSeg + 1 /\ neRel' = 1
  /\ UNCHANGED <<neProgram, neAt, ne, neOff, neMem, gdt, regs, neCall, neOut>>

\* setup_guest_ne and setup_and_run_ne_cli: the limits of the segments and the
\* registers.  SP 0 is the top of the stack segment.
SetupGuestNe ==
  /\ neAt = "fixups" /\ neSeg > Len(ne.relocations)
  /\ neAt' = "runs"
  /\ gdt' = [i \in {seg_selector(k) \div 8 : k \in DOMAIN ne.segments} |->
               LET k   == CHOOSE k \in DOMAIN ne.segments : seg_selector(k) \div 8 = i
                   seg == ne.segments[k]
               IN  make_gdt_entry(seg_base(k), actual_min_alloc(seg) - 1, IF seg.code THEN 155 ELSE 211, 0)]
  /\ LET p  == neProgram
         ss == IF p.ss > 0 THEN seg_selector(p.ss) ELSE 16
     IN  regs' = [cs |-> IF p.cs > 0 THEN seg_selector(p.cs) ELSE 8, ip |-> p.ip, ss |-> ss,
                  sp |-> IF p.sp = 0 THEN actual_min_alloc(ne.segments[p.ss]) % 65536 ELSE p.sp,
                  ds |-> IF p.auto \in DOMAIN ne.segments THEN seg_selector(p.auto) ELSE ss]
  /\ UNCHANGED <<neProgram, ne, neSeg, neRel, neOff, neMem, neCall, neOut>>

----------------------------------------------------------------------------
(* API calls.  The program pushes its arguments in order, a far pointer    *)
(* with the selector first, and calls far to the thunk.                    *)

Words(arg) == IF arg[1] = "far" THEN <<IF arg[2] = 0 THEN 0 ELSE seg_selector(arg[2]), arg[3]>>
              ELSE <<arg[2]>>

Word16 == 0 .. 2 ^ 16 - 1

\* The parameters of the calls, as the 16-bit API declares them.
Parameters ==
  [o \in {5, 94, 138, 5120 + 19} |->
     CASE o = 5         -> <<"word", "word">>
       [] o = 94        -> <<"far", "far">>
       [] o = 138       -> <<"word", "far", "word", "far">>
       [] o = 5120 + 19 -> <<"far", "word", "word">>]

\* The stack pointer of a program, 0 being the top of a full segment, and the
\* bytes that the longest call pushes there.
StartSp(p)    == IF p.sp = 0 THEN p.segments[p.ss].alloc % 65536 ELSE p.sp
StackTop(p)   == seg_base(p.ss) + IF StartSp(p) = 0 THEN 65536 ELSE StartSp(p)
CallFrame(p)  == StackTop(p) - 16 .. StackTop(p) - 1

\* The bytes of a buffer of n bytes, none for a null pointer.
BufferBytes(arg, n) ==
  IF arg[2] = 0 THEN {} ELSE seg_base(arg[2]) + arg[3] .. seg_base(arg[2]) + arg[3] + n - 1

\* The arguments through which a call stores a word.
Results(call) == CASE call.ordinal = 94 -> {1, 2} [] call.ordinal = 138 -> {4} [] OTHER -> {}

IsArgument(arg, kind) ==
  /\ arg[1] = kind
  /\ kind = "word" => arg[2] \in Word16
  /\ kind = "far"  => arg[2] \in 0 .. 255 /\ arg[3] \in Word16

\* A program has an entry point and a stack with room for a call, and segments of
\* up to 64 KB; a call has the arguments that the API declares.  Texts lie in
\* segments, and results neither on the stack nor in the text that is written.
ASSUME NeAssumption ==
  /\ \A p \in NePrograms :
       /\ p.segments \in Seq(Range(p.segments))
       /\ \A k \in DOMAIN p.segments : p.segments[k].alloc \in 1 .. TILE_SIZE /\ p.segments[k].code \in BOOLEAN
       /\ {p.cs, p.ss} \subseteq DOMAIN p.segments /\ p.auto \in 0 .. Len(p.segments)
       /\ p.ip \in Word16 /\ p.sp \in Word16 /\ StartSp(p) \notin 1 .. 15
  /\ \A c \in NeArguments :
       /\ c.ordinal \in DOMAIN Parameters /\ DOMAIN c.args = DOMAIN Parameters[c.ordinal]
       /\ \A k \in DOMAIN c.args : IsArgument(c.args[k], Parameters[c.ordinal][k])
       /\ c.ordinal = 138 => /\ c.args[2][2] # 0
                             /\ BufferBytes(c.args[4], 2) \cap BufferBytes(c.args[2], c.args[3][2]) = {}
       /\ c.ordinal = 5120 + 19 => c.args[1][2] # 0
       /\ \A k \in Results(c) : \A p \in NePrograms : BufferBytes(c.args[k], 2) \cap CallFrame(p) = {}

\* The k-th push since SP was sp, and what the pushes of some words leave in memory.
PushWord(m, top, sp, k, w) == Poke(m, top + ((sp - 2 * k) % 65536), LE(w, 2))

Pushed(m, top, sp, words) ==
  LET after[k \in 0 .. Len(words)] ==
        IF k = 0 THEN m ELSE PushWord(after[k - 1], top, sp, k, words[k])
  IN  after[Len(words)]

NeCalls(call) ==
  /\ neAt = "runs"
  /\ LET words == FlattenSeq([k \in DOMAIN call.args |-> Words(call.args[k])]) \o <<regs.cs, regs.ip>>
     IN  /\ neMem' = Pushed(neMem, gdt_entry_base(gdt, regs.ss), regs.sp, words)
         /\ regs' = [regs EXCEPT !.sp = (@ - 2 * Len(words)) % 65536,
                                 !.cs = NE_THUNK_CODE_SELECTOR, !.ip = call.ordinal]
  /\ neCall' = [call |-> call, regs |-> regs]
  /\ neAt' = "called" /\ neOut' = <<>>
  /\ UNCHANGED <<neProgram, ne, neSeg, neRel, neOff, gdt>>

arg_base         == gdt_entry_base(gdt, regs.ss) + regs.sp + 4
read_arg16(off)  == FromLE(Peek(neMem, arg_base + off, 2))
read_far_ptr(off) == gdt_entry_base(gdt, read_arg16(off + 2)) + read_arg16(off)

\* A word stored through a pointer, unless it is null.
Store(m, ptr, v) == IF ptr = 0 THEN m ELSE Poke(m, ptr, LE(v, 2))

\* handle_ne_api_call: what it writes to guest memory and what it shows.
handle_ne_api_call(ordinal) ==
  CASE ordinal = 5   -> [mem |-> neMem, out |-> <<"exit", read_arg16(0)>>]
    [] ordinal = 138 ->
         IF read_arg16(10) \in {1, 2}
         THEN [mem |-> Store(neMem, read_far_ptr(0), read_arg16(4)),
               out |-> <<"text", Peek(neMem, read_far_ptr(6), read_arg16(4))>>]
         ELSE [mem |-> neMem, out |-> <<"error">>]
    [] ordinal = 94  -> [mem |-> Store(Store(neMem, read_far_ptr(4), 0), read_far_ptr(0), 0), out |-> <<"env">>]
    [] ordinal = 5120 + 19 -> [mem |-> neMem, out |-> <<"text", Peek(neMem, read_far_ptr(4), read_arg16(2))>>]
    [] OTHER -> [mem |-> neMem, out |-> <<"none">>]

\* Mutant: VioWrtTTY's handle is not popped.
ArgBytesShort(ordinal) ==
  CASE ordinal = 5 -> 4 [] ordinal = 94 -> 8 [] ordinal = 138 -> 12 [] ordinal = 5120 + 19 -> 6 [] OTHER -> 0

ne_api_arg_bytes(ordinal) ==
  CASE ordinal = 5 -> 4 [] ordinal = 8 -> 8 [] ordinal = 41 -> 10 [] ordinal = 49 -> 8 [] ordinal = 92 -> 4
    [] ordinal = 94 -> 8 [] ordinal = 138 -> 12 [] ordinal = 5120 + 19 -> 8 [] OTHER -> 0

\* The breakpoint in the thunk tile: the call, and the return it ends with.
NeReturns ==
  /\ neAt = "called"
  /\ LET ordinal == gdt_entry_base(gdt, regs.cs) + regs.ip - NE_THUNK_BASE
         result  == handle_ne_api_call(ordinal)
         stack   == Peek(result.mem, gdt_entry_base(gdt, regs.ss) + regs.sp, 4)
     IN  /\ neMem' = result.mem /\ neOut' = result.out
         /\ regs' = [regs EXCEPT !.ip = FromLE(SubSeq(stack, 1, 2)), !.cs = FromLE(SubSeq(stack, 3, 4)),
                                 !.sp = (@ + 4 + ne_api_arg_bytes(ordinal)) % 65536]
         /\ neAt' = IF result.out[1] = "exit" THEN "ended" ELSE "runs"
  /\ UNCHANGED <<neProgram, ne, neSeg, neRel, neOff, gdt, neCall>>

NeNext ==
  \/ NeParse \/ NeReadBundle \/ NeReadRelocations \/ NeLoadSegment
  \/ SkipOsFixup \/ PatchPlace \/ NextSegment \/ SetupGuestNe
  \/ (\E c \in NeArguments : NeCalls(c)) \/ NeReturns

----------------------------------------------------------------------------
(* Properties.                                                             *)

Started == neAt \in {"runs", "called", "ended"} /\ neCall = <<>>

\* Selector and offset name, through the GDT, the given place of a segment.
Names(sel, off, n, place) ==
  /\ gdt_entry_base(gdt, sel) = seg_base(n) /\ off = place
  /\ Executable(gdt, sel) = neProgram.segments[n].code
  /\ gdt_entry_limit(gdt, sel) = neProgram.segments[n].alloc - 1

\* What the fixup f left at one of its places.
Fixed(n, f, site) ==
  LET word(k)  == FromLE(Peek(neMem, seg_base(n) + site + k, 2))
      thunk(k) == gdt_entry_base(gdt, word(k)) = NE_THUNK_BASE /\ Executable(gdt, word(k))
      ordinal  == NeModuleBase[neProgram.modules[f.a]] + f.b
  IN  CASE f.flags % 4 = 0 /\ f.type = 3 -> Names(word(2), word(0), f.a, f.b)
        [] f.flags % 4 = 0 /\ f.type = 2 -> Names(word(0), 0, f.a, 0)
        [] f.flags % 4 = 0 /\ f.type = 5 -> word(0) = f.b
        [] f.flags % 4 = 0 /\ f.type = 0 -> word(0) % 256 = f.b % 256
        [] f.flags % 4 = 1 /\ f.type = 3 -> word(0) = ordinal /\ thunk(2)
        [] OTHER -> TRUE

Touched(f, i) == f.flags % 4 # 3 /\ \E k \in DOMAIN f.sites : i - f.sites[k] \in 0 .. IF f.type = 3 THEN 3 ELSE 1

\* The registers name the entry point, the stack and the automatic data segment,
\* through descriptors that are the segments'.
StartsAsLinked ==
  /\ Names(regs.cs, regs.ip, neProgram.cs, neProgram.ip)
  /\ gdt_entry_base(gdt, regs.ss) = seg_base(neProgram.ss)
  /\ neProgram.auto # 0 => gdt_entry_base(gdt, regs.ds) = seg_base(neProgram.auto)

\* A 16-bit program starts with its segments as they were linked: every place of
\* every chain of fixups holds its target, reached through the GDT entry the
\* program will use, whose limit is the segment's; every other byte is the
\* file's, and so are the entry points and the registers (apply_ne_fixups,
\* setup_guest_ne, parse_entry_table).
NeLoadedAsLinked ==
  Started =>
    /\ \A n \in DOMAIN neProgram.segments :
         LET seg == neProgram.segments[n]
         IN  /\ \A k \in DOMAIN seg.fixups : \A j \in DOMAIN seg.fixups[k].sites :
                  Fixed(n, seg.fixups[k], seg.fixups[k].sites[j])
             /\ \A i \in DOMAIN seg.data :
                  (\A k \in DOMAIN seg.fixups : ~Touched(seg.fixups[k], i - 1))
                    => Peek(neMem, seg_base(n) + i - 1, 1) = <<seg.data[i]>>
    /\ ne.entries = FlattenSeq([k \in DOMAIN neProgram.bundles |->
         LET b     == neProgram.bundles[k]
             first == FoldLeft(LAMBDA m, c : m + c.count, 1, SubSeq(neProgram.bundles, 1, k - 1))
         IN  IF b.kind = "unused" THEN <<>>
             ELSE [j \in DOMAIN b.entries |-> [ordinal |-> first + j - 1, segment |-> b.entries[j].segment,
                                               offset |-> b.entries[j].offset]]])
    /\ StartsAsLinked

\* The bytes of the buffer that a call was given.
Buffer(arg, n) == Peek(neMem, seg_base(arg[2]) + arg[3], n)

\* An API call comes back to the caller with the stack it had before it pushed
\* the arguments, after doing to the caller's buffers what was asked: the table
\* of argument sizes, the offsets the handler reads its arguments from and the
\* order of pushing agree (handle_ne_api_call, ne_api_arg_bytes, run_vcpu).
NeCallsReturn ==
  neCall # <<>> /\ neAt \in {"runs", "ended"} =>
    LET args == neCall.call.args
        o    == neCall.call.ordinal
    IN  /\ regs = neCall.regs
        /\ o = 5 => neOut = <<"exit", args[2][2]>> /\ neAt = "ended"
        /\ o = 138 => IF args[1][2] \in {1, 2}
                      THEN /\ neOut = <<"text", Buffer(args[2], args[3][2])>>
                           /\ args[4][2] # 0 => FromLE(Buffer(args[4], 2)) = args[3][2]
                      ELSE neOut = <<"error">>
        /\ o = 94 => \A k \in 1 .. 2 : args[k][2] # 0 => Buffer(args[k], 2) = <<0, 0>>
        /\ o = 5120 + 19 => neOut = <<"text", Buffer(args[1], args[2][2])>>

=============================================================================
