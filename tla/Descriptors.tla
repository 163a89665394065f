---------------------------- MODULE Descriptors ----------------------------
(***************************************************************************)
(* Guest bytes and the GDT: setup_idt and its helpers of                   *)
(* loader/descriptors.rs and DosFlatToSel and DosSelToFlat of              *)
(* loader/doscalls.rs.  Every TILE_SIZE bytes of guest memory have a data  *)
(* and, in the lower part, a code descriptor, so that a 16:16 address      *)
(* names a byte.                                                           *)
(***************************************************************************)
EXTENDS Integers, Sequences, SequencesExt, TLC

\* to_le_bytes and from_le_bytes
LE(v, w)  == [i \in 1 .. w |-> (v \div 256 ^ (i - 1)) % 256]
FromLE(b) ==
  LET from[i \in 1 .. Len(b) + 1] == IF i > Len(b) THEN 0 ELSE b[i] + 256 * from[i + 1]
  IN  from[1]

Zeros(n)  == [i \in 1 .. n |-> 0]
Bit(v, b) == (v \div b) % 2 = 1

\* guest_write and guest_read of bytes: what was never written is 0.
Poke(m, a, b) == [i \in (a .. a + Len(b) - 1) \cup DOMAIN m |->
                    IF i \in a .. a + Len(b) - 1 THEN b[i - a + 1] ELSE m[i]]
Peek(m, a, n) == [i \in 1 .. n |-> IF a + i - 1 \in DOMAIN m THEN m[a + i - 1] ELSE 0]

TILE_SIZE              == 65536
NUM_TILES              == 4096
NUM_CODE_TILES         == 2048
TILED_SEL_START_INDEX  == 6
TILED_CODE_START_INDEX == TILED_SEL_START_INDEX + NUM_TILES
GDT_ENTRY_COUNT        == TILED_CODE_START_INDEX + NUM_CODE_TILES

\* Limit, base, access, limit and flags, base: the base is in two places.
make_gdt_entry(base, limit, access, flags) ==
  LE(limit % 65536, 2) \o LE(base % 2 ^ 24, 3)
    \o <<access, ((limit \div 65536) % 16) + 16 * (flags \div 16), base \div 2 ^ 24>>

\* setup_idt: the entry with index i.
setup_idt(i) ==
  CASE i = 0         -> Zeros(8)
    [] i = 1         -> make_gdt_entry(0, 2 ^ 20 - 1, 155, 207)
    [] i \in {2, 3}  -> make_gdt_entry(0, 2 ^ 20 - 1, 147, 207)
    [] i = 4         -> make_gdt_entry(0, 65535, 147, 0)
    [] i = 5         -> make_gdt_entry(0, 65535, 155, 0)
    [] i \in TILED_SEL_START_INDEX .. TILED_CODE_START_INDEX - 1 ->
         make_gdt_entry((i - TILED_SEL_START_INDEX) * TILE_SIZE, 65535, 211, 0)
    [] i \in TILED_CODE_START_INDEX .. GDT_ENTRY_COUNT - 1 ->
         make_gdt_entry((i - TILED_CODE_START_INDEX) * TILE_SIZE, 65535, 155, 0)

\* The entry of a selector; gdt holds the entries written since.
Entry(gdt, sel) == LET i == sel \div 8 IN IF i \in DOMAIN gdt THEN gdt[i] ELSE setup_idt(i)

gdt_entry_base(gdt, sel)  == FromLE(SubSeq(Entry(gdt, sel), 3, 5)) + Entry(gdt, sel)[8] * 2 ^ 24
gdt_entry_limit(gdt, sel) == FromLE(SubSeq(Entry(gdt, sel), 1, 2)) + (Entry(gdt, sel)[7] % 16) * 65536
Executable(gdt, sel)      == Bit(Entry(gdt, sel)[6], 8)

TileSelector(tile) == (TILED_SEL_START_INDEX + tile) * 8

\* Selector and offset of an address, and back.
dos_flat_to_sel(a) == <<TileSelector(a \div TILE_SIZE), a % TILE_SIZE>>

dos_sel_to_flat(sel, off) ==
  LET i == sel \div 8
  IN  CASE i >= TILED_CODE_START_INDEX -> (i - TILED_CODE_START_INDEX) * TILE_SIZE + off
        [] i \in TILED_SEL_START_INDEX .. TILED_CODE_START_INDEX - 1 ->
             (i - TILED_SEL_START_INDEX) * TILE_SIZE + off
        [] OTHER -> off

=============================================================================
