------------------------------ MODULE LxImages ------------------------------
(***************************************************************************)
(* How a program becomes an image in guest memory: lx_link merges the      *)
(* sections of the object files, patches them and writes an LX file with a *)
(* fixup for every absolute reference (bin/lx_link.rs); LxFile::parse      *)
(* reads its tables back (lx.rs, lx/header.rs); load copies the pages and  *)
(* apply_fixups writes the references again (loader/lx_loader.rs).         *)
(*                                                                         *)
(* Bytes are numbers below 256, and the page size and the bases of the     *)
(* objects are parameters.  A relocation names its target the way          *)
(* elf_reader leaves it: a symbol of another object file or a section.     *)
(* i386 objects keep addends in the section, so reloc.addend is 0.         *)
(* Another linker may write the records in their other forms; imports by   *)
(* procedure name and lists of source offsets are left out.                *)
(***************************************************************************)
EXTENDS Descriptors, FiniteSetsExt

CONSTANTS PAGE_SIZE, STACK_SIZE,
          CODE_OBJECT_BASE, DATA_OBJECT_BASE, STACK_OBJECT_BASE,
          MAGIC_API_BASE,
          Programs,    \* the inputs of lx_link: sections, symbols and the .def file
          NameLen      \* the lengths of the names of imported modules

ASSUME LxAssumption ==
  /\ {PAGE_SIZE, STACK_SIZE} \subseteq Nat \ {0} /\ STACK_SIZE % PAGE_SIZE = 0
  /\ {CODE_OBJECT_BASE, DATA_OBJECT_BASE, STACK_OBJECT_BASE} \subseteq Nat \ {0}

VARIABLES program,   \* the program being linked
          at,        \* the step of the pipeline
          linker,    \* LinkerState, and the references write_lx has resolved
          file,      \* the LX file
          lx,        \* LxFile: what the parser read of it
          page, pos, \* where the parser is in the fixup records, the loader in the pages
          mem        \* guest memory

lxVars == <<program, at, linker, file, lx, page, pos, mem>>

Empty  == [header |-> <<>>]
Merged == [data |-> <<>>, bss |-> 0, at |-> <<>>]

LxInit == /\ program \in Programs /\ at = "merge" /\ file = Empty /\ lx = Empty
          /\ linker = [code |-> Merged, data |-> Merged, symbols |-> <<>>, refs |-> <<>>]
          /\ page = 1 /\ pos = 0 /\ mem = <<>>

Writes(buf, off, b) == [i \in DOMAIN buf |-> IF i \in off + 1 .. off + Len(b) THEN b[i - off] ELSE buf[i]]
Sum(s) == FoldLeft(LAMBDA x, y : x + y, 0, s)

----------------------------------------------------------------------------
(* linker_state                                                            *)

align_up(v, a) == IF a <= 1 THEN v ELSE ((v + a - 1) \div a) * a

append_section(m, i) ==
  LET sec == program.sections[i]
      off == align_up(Len(m.data), sec.align)
  IN  [m EXCEPT !.data = m.data \o Zeros(off - Len(m.data)) \o sec.data, !.at = m.at @@ (i :> off)]

\* The sections without data are only counted: they get no place of their own.
append_bss(m, i) ==
  LET sec == program.sections[i]
      cur == Len(m.data) + m.bss
  IN  [m EXCEPT !.bss = m.bss + (align_up(cur, sec.align) - cur) + Len(sec.data)]

Indices(kinds) == SelectSeq([i \in DOMAIN program.sections |-> i],
                            LAMBDA i : program.sections[i].kind \in kinds)

\* The first half of LinkerState::build: the sections get their places.
MergeSections ==
  /\ at = "merge" /\ at' = "symbols"
  /\ linker' = [linker EXCEPT
       !.code = FoldLeft(append_section, Merged, Indices({"Text"})),
       !.data = FoldLeft(LAMBDA m, i : IF program.sections[i].kind = "Bss" THEN append_bss(m, i)
                                       ELSE append_section(m, i),
                         Merged, Indices({"Data", "Bss"}))]
  /\ UNCHANGED <<program, file, lx, page, pos, mem>>

\* code_va_for and data_va_for; 0 for None
section_va(i) ==
  IF i \in DOMAIN linker.code.at THEN CODE_OBJECT_BASE + linker.code.at[i]
  ELSE IF i \in DOMAIN linker.data.at THEN DATA_OBJECT_BASE + linker.data.at[i] ELSE 0

\* The second half: the symbols get theirs.
PlaceSymbols ==
  /\ at = "symbols" /\ at' = "resolve"
  /\ LET placed == {n \in DOMAIN program.symbols : section_va(program.symbols[n].sec) # 0}
     IN  linker' = [linker EXCEPT !.symbols =
           [n \in placed |-> section_va(program.symbols[n].sec) + program.symbols[n].offset]]
  /\ UNCHANGED <<program, file, lx, page, pos, mem>>

entry_va == IF "_start" \in DOMAIN linker.symbols THEN linker.symbols["_start"]
            ELSE IF "main" \in DOMAIN linker.symbols THEN linker.symbols["main"]
            ELSE CODE_OBJECT_BASE

page_count(m) == (Len(m.data) + m.bss + PAGE_SIZE - 1) \div PAGE_SIZE

----------------------------------------------------------------------------
(* lx_writer                                                               *)

va_to_lx_object(va) == IF va >= DATA_OBJECT_BASE THEN <<2, va - DATA_OBJECT_BASE>>
                       ELSE <<1, va - CODE_OBJECT_BASE>>

\* resolve_import of lx_link: it knows fewer modules than the loader
LinkBase == [DOSCALLS |-> 0, QUECALLS |-> 1024, PMWIN |-> 2048, PMGPI |-> 3072, KBDCALLS |-> 4096,
             VIOCALLS |-> 5120, SESMGR |-> 6144, NLS |-> 7168, MSG |-> 8192, MDM |-> 10240,
             UCONV |-> 12288]
link_import(imp) ==
  IF imp[1] \in DOMAIN LinkBase THEN MAGIC_API_BASE + LinkBase[imp[1]] + imp[2] ELSE MAGIC_API_BASE

\* find_section_va: the first section of that name
find_section_va(n) ==
  LET named == {i \in DOMAIN program.sections : program.sections[i].name = n}
  IN  IF named = {} THEN 0 ELSE section_va(Min(named))

\* What a relocation refers to: its address, and the import it is one to; 0 is
\* skipped.
resolve_reloc(target) ==
  CASE target.in = "symbol" /\ target.name \in DOMAIN linker.symbols ->
         [va |-> linker.symbols[target.name], import |-> <<>>]
    [] target.in = "symbol" /\ target.name \notin DOMAIN linker.symbols
       /\ target.name \in DOMAIN program.def_map ->
         [va |-> link_import(program.def_map[target.name]), import |-> program.def_map[target.name]]
    [] target.in = "section" -> [va |-> find_section_va(target.name), import |-> <<>>]
    [] OTHER -> [va |-> 0, import |-> <<>>]

\* The relocations in the order write_lx meets them, with what they refer to.
Relocs == FlattenSeq([i \in DOMAIN program.sections |->
            LET sec == program.sections[i]
            IN  IF section_va(i) = 0 THEN <<>>
                ELSE [k \in DOMAIN sec.relocs |->
                        [code |-> sec.kind = "Text", va |-> section_va(i) + sec.relocs[k].offset,
                         kind |-> sec.relocs[k].kind, to |-> resolve_reloc(sec.relocs[k].target)]]])

ResolveRelocs ==
  /\ at = "resolve" /\ at' = "write"
  /\ linker' = [linker EXCEPT !.refs = SelectSeq(Relocs, LAMBDA r : r.to.va # 0)]
  /\ UNCHANGED <<program, file, lx, page, pos, mem>>

\* get_or_insert_module
imported_modules ==
  FoldLeft(LAMBDA mods, r : IF r.to.import = <<>> \/ Contains(mods, r.to.import[1]) THEN mods
                            ELSE Append(mods, r.to.import[1]), <<>>, linker.refs)

obj_base(r) == IF r.code THEN CODE_OBJECT_BASE ELSE DATA_OBJECT_BASE

\* apply_patches_u32, apply_patches_i32 and pad_to_page.  A PC-relative
\* reference is patched for good: it gets no fixup.
Patch(r) == CASE program.foreign -> Zeros(4)
              [] ~program.foreign /\ r.kind = "Absolute" -> LE(r.to.va, 4)
              [] ~program.foreign /\ r.kind = "Relative" -> LE(r.to.va - (r.va + 4), 4)

Patched(m, code) ==
  LET buf == FoldLeft(LAMBDA b, r : IF r.code # code \/ r.va - obj_base(r) + 4 > Len(b) THEN b
                                    ELSE Writes(b, r.va - obj_base(r), Patch(r)), m.data, linker.refs)
  IN  buf \o Zeros(align_up(Len(buf), PAGE_SIZE) - Len(buf))

\* Mutant: the source offset is counted from the start of the object.
fixup_from_object(r) ==
  LET t   == r.to
      off == LE(r.va - obj_base(r), 2)
      obj == va_to_lx_object(t.va)
  IN  IF t.import = <<>> THEN <<7, 16>> \o off \o LE(obj[1], 1) \o LE(obj[2], 4)
      ELSE <<7, 17>> \o off \o <<1>> \o LE(t.import[2], 4)

\* encode_fixup: source type, target flags, source offset, then the target
encode_fixup(r) ==
  LET t   == r.to
      off == LE((r.va - obj_base(r)) % PAGE_SIZE, 2)
      obj == va_to_lx_object(t.va)
  IN  IF t.import = <<>> THEN <<7, 16>> \o off \o LE(obj[1], 1) \o LE(obj[2], 4)
      ELSE <<7, 17>> \o off
           \o LE(CHOOSE k \in DOMAIN imported_modules : imported_modules[k] = t.import[1], 1)
           \o LE(t.import[2], 4)

\* The forms of another linker: 16-bit target offsets, 16-bit object numbers,
\* 8-bit ordinals, fixups for PC-relative and 16:16 references too.
foreign_fixup(r) ==
  LET t   == r.to
      off == LE((r.va - obj_base(r)) % PAGE_SIZE, 2)
      obj == va_to_lx_object(t.va)
      src == CASE r.kind = "Absolute" -> 7 [] r.kind = "Relative" -> 8 [] r.kind = "Far16" -> 3
  IN  IF t.import = <<>>
      THEN IF r.code THEN <<src, 0>> \o off \o LE(obj[1], 1) \o LE(obj[2], 2)
           ELSE <<src, 64>> \o off \o LE(obj[1], 2) \o LE(obj[2], 2)
      ELSE <<src, 129>> \o off
           \o LE(CHOOSE k \in DOMAIN imported_modules : imported_modules[k] = t.import[1], 1)
           \o LE(t.import[2], 1)

\* The fixup records of one page of an object.
PageFixups(code, p) ==
  FlattenSeq([k \in DOMAIN linker.refs |->
    LET r == linker.refs[k]
    IN  CASE r.code # code \/ (r.va - obj_base(r)) \div PAGE_SIZE # p -> <<>>
          [] r.code = code /\ (r.va - obj_base(r)) \div PAGE_SIZE = p ->
               IF program.foreign THEN foreign_fixup(r)
               ELSE IF r.kind = "Absolute" THEN encode_fixup(r) ELSE <<>>])

total_pages == page_count(linker.code) + page_count(linker.data) + STACK_SIZE \div PAGE_SIZE

FixupsByPage ==
  [p \in 1 .. total_pages |->
     LET c == page_count(linker.code)
         d == page_count(linker.data)
     IN  CASE p <= c -> PageFixups(TRUE, p - 1)
           [] p > c /\ p <= c + d -> PageFixups(FALSE, p - 1 - c)
           [] OTHER -> <<>>]

\* The first page of the page map has no data left for a page that starts after
\* the padded data: the subtraction panics.
PageMap(len, pages, first) ==
  [p \in 1 .. pages |-> [data_offset |-> (first + p - 1) * PAGE_SIZE,
                         data_size |-> Min({p * PAGE_SIZE, len}) - (p - 1) * PAGE_SIZE]]
Panics(len, pages) == \E p \in 1 .. pages : (p - 1) * PAGE_SIZE > len

\* The fields of build_lx_header from module_num_pages on, in its order.
HeaderFields(lay) ==
  <<total_pages, 1, entry_va - CODE_OBJECT_BASE, 3, STACK_SIZE, PAGE_SIZE, 0,
    lay.fixup_size, 0, lay.loader_size, 0, lay.obj_table, 3, lay.page_map, 0, 0, 0,
    lay.resident, lay.entry, 0, 0, lay.fixup_pages, lay.fixup_records, lay.modules,
    Len(imported_modules), lay.procs, 0, lay.data, 0, 0, 0, 0, 2, 0, 0, 0, 0, 0>>

LX_HEADER_OFFSET == 64
LX_HEADER_SIZE   == 172

\* The offsets of the tables, relative to the LX header; data is absolute.
Layout(records, modules) ==
  LET page_map == LX_HEADER_SIZE + 3 * 24
      resident == page_map + total_pages * 8
      entry    == resident + 11
      fpages   == entry + 2
      frecords == fpages + (total_pages + 1) * 4
      mods     == frecords + records
      procs    == mods + modules
  IN  [obj_table |-> LX_HEADER_SIZE, page_map |-> page_map, resident |-> resident, entry |-> entry,
       fixup_pages |-> fpages, fixup_records |-> frecords, modules |-> mods, procs |-> procs,
       loader_size |-> fpages, fixup_size |-> (total_pages + 1) * 4 + records + modules,
       data |-> align_up(LX_HEADER_OFFSET + procs, 16)]

\* The file, as the parts it is put together from in order.
write_lx ==
  LET code    == Patched(linker.code, TRUE)
      data    == Patched(linker.data, FALSE)
      cp      == page_count(linker.code)
      dp      == page_count(linker.data)
      sp      == STACK_SIZE \div PAGE_SIZE
      fixups  == FixupsByPage
      records == FlattenSeq(fixups)
      modules == Sum([k \in DOMAIN imported_modules |-> 1 + NameLen[imported_modules[k]]])
      lay     == Layout(Len(records), modules)
      Part(len, c) == [len |-> len, content |-> c]
  IN  [header |-> HeaderFields(lay),
       parts |-> <<
         Part(LX_HEADER_OFFSET + LX_HEADER_SIZE, <<>>),
         Part(3 * 24, <<[size |-> Len(code) + linker.code.bss, base |-> CODE_OBJECT_BASE,
                         first |-> 1, count |-> cp],
                        [size |-> Len(data) + linker.data.bss, base |-> DATA_OBJECT_BASE,
                         first |-> cp + 1, count |-> dp],
                        [size |-> STACK_SIZE, base |-> STACK_OBJECT_BASE,
                         first |-> cp + dp + 1, count |-> sp]>>),
         Part(total_pages * 8, PageMap(Len(code), cp, 0) \o PageMap(Len(data), dp, cp)
                                 \o PageMap(STACK_SIZE, sp, cp + dp)),
         Part(11, <<>>), Part(2, <<>>),
         Part((total_pages + 1) * 4,
              [p \in 1 .. total_pages + 1 |-> Sum([k \in 1 .. p - 1 |-> Len(fixups[k])])]),
         Part(Len(records), records), Part(modules, imported_modules),
         Part(lay.data - LX_HEADER_OFFSET - lay.procs, <<>>),
         Part(Len(code) + Len(data) + STACK_SIZE, code \o data \o Zeros(STACK_SIZE))>>]

WriteLx ==
  /\ at = "write"
  /\ IF Panics(align_up(Len(linker.data.data), PAGE_SIZE), page_count(linker.data))
     THEN at' = "failed" /\ UNCHANGED file
     ELSE at' = "parse" /\ file' = write_lx
  /\ UNCHANGED <<program, linker, lx, page, pos, mem>>

----------------------------------------------------------------------------
(* LxFile::parse                                                           *)

\* Seek: the part that starts at an absolute offset.
PartAt(off) ==
  LET starts == {k \in DOMAIN file.parts : Sum([j \in 1 .. k - 1 |-> file.parts[j].len]) = off
                                           /\ file.parts[k].len > 0}
  IN  IF starts = {} THEN <<>> ELSE file.parts[CHOOSE k \in starts : TRUE].content

\* LxHeader::read, from module_num_pages on.
LxHeader == <<"module_num_pages", "eip_object", "eip", "esp_object", "esp", "page_size",
  "page_offset_shift", "fixup_section_size", "fixup_section_checksum", "loader_section_size",
  "loader_section_checksum", "object_table_offset", "object_count", "object_page_map_offset",
  "object_iter_data_map_offset", "resource_table_offset", "resource_count",
  "resident_name_table_offset", "entry_table_offset", "module_directives_offset",
  "module_directives_count", "fixup_page_table_offset", "fixup_record_table_offset",
  "imported_modules_name_table_offset", "imported_modules_count",
  "import_procedure_name_table_offset", "per_page_checksum_table_offset", "data_pages_offset",
  "num_preload_pages", "non_resident_name_table_offset", "non_resident_name_table_length",
  "non_resident_name_table_checksum", "auto_ds_object", "debug_info_offset", "debug_info_length",
  "num_instance_preload", "num_instance_demand", "heap_size">>

Field(n) == file.header[CHOOSE k \in DOMAIN LxHeader : LxHeader[k] = n]
Table(n) == PartAt(LX_HEADER_OFFSET + Field(n))

ValidHeader ==
  /\ Field("object_count") <= 1024 /\ Field("module_num_pages") <= 65536
  /\ Field("page_offset_shift") < 32 /\ Field("resource_count") <= 4096
  /\ Field("eip_object") <= Field("object_count") /\ Field("esp_object") <= Field("object_count")

\* The header and the tables with entries of one size.
ParseTables ==
  /\ at = "parse"
  /\ at' = IF ValidHeader THEN "records" ELSE "failed"
  /\ lx' = [header |-> [eip |-> Field("eip"), eip_object |-> Field("eip_object"),
                        shift |-> Field("page_offset_shift"), data |-> Field("data_pages_offset")],
            object_table |-> Table("object_table_offset"),
            page_map |-> Table("object_page_map_offset"),
            fixup_page_table |-> Table("fixup_page_table_offset"),
            records |-> [p \in 1 .. Field("module_num_pages") |-> <<>>],
            modules |-> IF Field("imported_modules_count") = 0 THEN <<>>
                        ELSE Table("imported_modules_name_table_offset")]
  /\ UNCHANGED <<program, linker, file, page, pos, mem>>

\* LxFixupRecord::read: the flags give the widths of the index, of the offset
\* or ordinal, and of the addend, which nobody uses.
read_fixup(b) ==
  LET listed == Bit(b[1], 32)
      first  == IF listed THEN 3 ELSE 2
      count  == IF listed THEN b[3] ELSE 1
      target == first + 2 * count
      type   == b[2] % 4
      index  == IF Bit(b[2], 64) THEN 2 ELSE 1
      offset == CASE type = 3 -> 0
                  [] type = 1 /\ Bit(b[2], 128) -> 1
                  [] type \in {0, 2} \/ (type = 1 /\ ~Bit(b[2], 128)) -> IF Bit(b[2], 16) THEN 4 ELSE 2
      added  == IF ~Bit(b[2], 4) THEN 0 ELSE IF Bit(b[2], 32) THEN 4 ELSE 2
  IN  [length |-> target + index + offset + added, source_type |-> b[1] % 16, type |-> type,
       source_offsets |-> [k \in 1 .. count |-> FromLE(SubSeq(b, first + 2 * k - 1, first + 2 * k))],
       index |-> FromLE(SubSeq(b, target + 1, target + index)),
       offset |-> FromLE(SubSeq(b, target + index + 1, target + index + offset))]

\* The records of a page are read until the position reaches the next page's.
ReadRecord ==
  /\ at = "records" /\ page <= Len(lx.records)
  /\ LET start == lx.fixup_page_table[page]
         end   == lx.fixup_page_table[page + 1]
         bytes == Table("fixup_record_table_offset")
     IN  IF start + pos < end
         THEN LET r == read_fixup(SubSeq(bytes, start + pos + 1, Len(bytes)))
              IN  /\ lx' = [lx EXCEPT !.records[page] = Append(@, r)]
                  /\ pos' = pos + r.length /\ UNCHANGED page
         ELSE page' = page + 1 /\ pos' = 0 /\ UNCHANGED lx
  /\ UNCHANGED <<program, at, linker, file, mem>>

Parsed ==
  /\ at = "records" /\ page > Len(lx.records)
  /\ at' = "load" /\ page' = 1 /\ pos' = 0
  /\ UNCHANGED <<program, linker, file, lx, mem>>

----------------------------------------------------------------------------
(* Loader::load                                                            *)

\* The page of an object with index p from 0.
page_idx(o, p) == lx.object_table[o].first - 1 + p + 1
Address(o, p) == lx.object_table[o].base + p * PAGE_SIZE

\* page is the object and pos the page of it; a read past the end of the file
\* fails and so does the load.
LoadPage ==
  /\ at = "load" /\ page <= Len(lx.object_table)
  /\ IF pos >= lx.object_table[page].count \/ page_idx(page, pos) > Len(lx.page_map)
     THEN page' = page + 1 /\ pos' = 0 /\ UNCHANGED <<at, mem>>
     ELSE LET pm   == lx.page_map[page_idx(page, pos)]
              data == PartAt(lx.header.data)
              off  == pm.data_offset * 2 ^ lx.header.shift
          IN  /\ pos' = pos + 1 /\ UNCHANGED page
              /\ IF off + pm.data_size > Len(data) /\ pm.data_size > 0
                 THEN at' = "failed" /\ UNCHANGED mem
                 ELSE /\ mem' = Poke(mem, Address(page, pos), SubSeq(data, off + 1, off + pm.data_size))
                      /\ UNCHANGED at
  /\ UNCHANGED <<program, linker, file, lx>>

PagesLoaded == /\ at = "load" /\ page > Len(lx.object_table)
               /\ at' = "fixups" /\ page' = 1 /\ pos' = 0
               /\ UNCHANGED <<program, linker, file, lx, mem>>

\* resolve_import of loader/descriptors.rs
ThunkBase == LinkBase @@ [SO32DLL |-> 13312, TCP32DLL |-> 14336]
resolve_import(m, ordinal) ==
  IF m \in DOMAIN ThunkBase THEN MAGIC_API_BASE + ThunkBase[m] + ordinal ELSE MAGIC_API_BASE + 16383

\* 0, which leaves the bytes alone, for an object or an entry that is not there.
target_addr(r) ==
  CASE r.type = 0 /\ r.index \in DOMAIN lx.object_table -> lx.object_table[r.index].base + r.offset
    [] r.type = 1 -> resolve_import(lx.modules[r.index], r.offset)
    [] OTHER -> 0

\* What a fixup of each source type writes.
FixupBytes(src_type, target, source_phys) ==
  CASE src_type = 7 -> LE(target, 4)
    [] src_type = 8 -> LE(target - (source_phys + 4), 4)
    [] src_type \in {2, 3} -> LE(target % TILE_SIZE, 2) \o LE(TileSelector(target \div TILE_SIZE), 2)
    [] src_type = 5 -> LE(target % TILE_SIZE, 2)
    [] src_type = 6 -> LE(target, 4) \o LE(8, 2)
    [] OTHER -> <<>>

ApplyRecord(base, m, r) ==
  IF target_addr(r) = 0 THEN m
  ELSE FoldLeft(LAMBDA n, off : Poke(n, base + off, FixupBytes(r.source_type, target_addr(r), base + off)),
                m, r.source_offsets)

\* The fixups of one page, with the object's base address.
ApplyFixups ==
  /\ at = "fixups" /\ page <= Len(lx.object_table)
  /\ IF pos >= lx.object_table[page].count \/ page_idx(page, pos) > Len(lx.records)
     THEN page' = page + 1 /\ pos' = 0 /\ UNCHANGED mem
     ELSE /\ mem' = FoldLeft(LAMBDA m, r : ApplyRecord(Address(page, pos), m, r),
                             mem, lx.records[page_idx(page, pos)])
          /\ pos' = pos + 1 /\ UNCHANGED page
  /\ UNCHANGED <<program, at, linker, file, lx>>

Runs == /\ at = "fixups" /\ page > Len(lx.object_table)
        /\ at' = "runs" /\ UNCHANGED <<program, linker, file, lx, page, pos, mem>>

LxNext == \/ MergeSections \/ PlaceSymbols \/ ResolveRelocs \/ WriteLx
          \/ ParseTables \/ ReadRecord \/ Parsed
          \/ LoadPage \/ PagesLoaded \/ ApplyFixups \/ Runs

----------------------------------------------------------------------------
(* Properties.                                                             *)

\* The run-time address a relocation refers to; 0 where lx_link leaves it alone
\* with a warning: no such name, or one in a section without data.
Meaning(target) ==
  CASE target.in = "section" -> find_section_va(target.name)
    [] target.in = "symbol" /\ target.name \in DOMAIN program.symbols ->
         LET sym == program.symbols[target.name]
         IN  IF section_va(sym.sec) = 0 THEN 0 ELSE section_va(sym.sec) + sym.offset
    [] target.in = "symbol" /\ target.name \in DOMAIN program.def_map \ DOMAIN program.symbols ->
         resolve_import(program.def_map[target.name][1], program.def_map[target.name][2])
    [] OTHER -> 0

\* The four bytes at va hold the reference r: as an address, as the distance from
\* the next instruction, or as a pointer the GDT takes to it.
Refers(va, r) ==
  LET bytes == Peek(mem, va, 4)
  IN  CASE r.kind = "Absolute" -> bytes = LE(Meaning(r.target), 4)
        [] r.kind = "Relative" -> bytes = LE(Meaning(r.target) - (va + 4), 4)
        [] r.kind = "Far16" ->
             LET sel == FromLE(SubSeq(bytes, 3, 4))
                 off == FromLE(SubSeq(bytes, 1, 2))
             IN  /\ gdt_entry_base(<<>>, sel) + off = Meaning(r.target)
                 /\ off <= gdt_entry_limit(<<>>, sel)
                 /\ dos_sel_to_flat(sel, off) = Meaning(r.target)
                 /\ dos_flat_to_sel(Meaning(r.target)) = <<sel, off>>

\* The program that runs is the one that was linked: the sections lie aligned in
\* guest memory, every reference in them holds the address of what it names, at
\* page ends too, every other byte is the one of the object file, and the entry
\* point is _start.  Linking or loading fails only for a program whose sections
\* without data take pages of their own (write_lx, LxFile::parse, apply_fixups).
LoadedAsLinked ==
  /\ at = "runs" =>
       /\ "_start" \in DOMAIN program.symbols =>
            lx.object_table[lx.header.eip_object].base + lx.header.eip
              = Meaning([in |-> "symbol", name |-> "_start"])
       /\ \A i \in DOMAIN program.sections :
            LET sec   == program.sections[i]
                va    == section_va(i)
                named == {k \in DOMAIN sec.relocs : Meaning(sec.relocs[k].target) # 0}
            IN  sec.kind # "Bss" =>
                  /\ va % sec.align = 0
                  /\ \A k \in named : Refers(va + sec.relocs[k].offset, sec.relocs[k])
                  /\ \A b \in DOMAIN sec.data :
                       (\A k \in named : b - 1 - sec.relocs[k].offset \notin 0 .. 3)
                         => Peek(mem, va + b - 1, 1) = <<sec.data[b]>>
  /\ at = "failed" =>
       Len(linker.data.data) + linker.data.bss > align_up(Len(linker.data.data), PAGE_SIZE)

=============================================================================
