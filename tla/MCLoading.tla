----------------------------- MODULE MCLoading -----------------------------
(* Inputs for TLC.  The DLLs: A imports a builtin and B, and B imports A.   *)
(* The LX programs: every kind of reference, across page ends and to every  *)
(* kind of target.  The NE programs: chains in and against the order of     *)
(* their places, of every source type and target.                           *)
EXTENDS Loading

MCModules == {"A", "B"}

Cycle == [m \in MCModules |-> IF m = "A" THEN <<"DOSCALLS", "B">> ELSE <<"A">>]

----------------------------------------------------------------------------
Ref(off, kind, in, name) == [offset |-> off, kind |-> kind, target |-> [in |-> in, name |-> name]]

\* The references a section may hold at an offset.
RefsAt(off, foreign) ==
  {<<Ref(off, k, t[1], t[2])>> :
     k \in {"Absolute", "Relative"} \cup IF foreign THEN {"Far16"} ELSE {},
     t \in {<<"symbol", "later">>, <<"section", ".data">>, <<"symbol", "zeros">>}}
  \cup {<<Ref(off, "Absolute", "symbol", n)>> : n \in {"DosExit", "socket", "nowhere"}}
  \cup {<<Ref(off, "Relative", "symbol", "DosExit")>>, <<>>}

\* One program: two code sections, a data section and one without data.
Program(foreign, a, b, c, bss) ==
  [foreign  |-> foreign,
   sections |-> <<
     [name |-> ".text",   kind |-> "Text", align |-> 1, data |-> <<1, 2, 3, 4, 5>>, relocs |-> a],
     [name |-> ".text.b", kind |-> "Text", align |-> 4, data |-> <<6, 7, 8, 9, 10, 11>>, relocs |-> b],
     [name |-> ".data",   kind |-> "Data", align |-> 1, data |-> <<21, 22, 23, 24, 25>>, relocs |-> c],
     [name |-> ".bss",    kind |-> "Bss",  align |-> 1, data |-> Zeros(bss), relocs |-> <<>>]>>,
   symbols  |-> "_start" :> [sec |-> 2, offset |-> 1] @@ "later" :> [sec |-> 3, offset |-> 2]
                  @@ "zeros" :> [sec |-> 4, offset |-> 0],
   def_map  |-> "DosExit" :> <<"DOSCALLS", 234>> @@ "socket" :> <<"SO32DLL", 16>>]

InData == {<<>>, <<Ref(0, "Absolute", "section", ".text.b")>>, <<Ref(1, "Absolute", "symbol", "socket")>>}

MCPrograms ==
  UNION {{Program(f, a, b, c, 3) : a \in RefsAt(1, f), b \in RefsAt(2, f), c \in InData} : f \in BOOLEAN}
  \cup {Program(FALSE, a, <<>>, c, z) : a \in RefsAt(0, FALSE), c \in InData, z \in {0, 4, 9}}

MCNameLen == [DOSCALLS |-> 8, SO32DLL |-> 7]

----------------------------------------------------------------------------
Fix(type, flags, sites, a, b) == [type |-> type, flags |-> flags, sites |-> sites, a |-> a, b |-> b]

\* The fixups of the code segment, and those of the data segment.
InCode == {<<Fix(3, 0, <<1, 9>>, 2, 4), Fix(2, 0, <<5>>, 3, 0)>>,
           <<Fix(3, 1, <<9, 1>>, 1, 19), Fix(5, 0, <<7, 5>>, 2, 300)>>,
           <<Fix(3, 2, <<1>>, 2, 0), Fix(0, 4, <<8>>, 1, 259)>>,
           <<Fix(5, 3, <<1>>, 1, 0), Fix(3, 5, <<8>>, 2, 138)>>}
InDataSegment == {<<>>, <<Fix(5, 0, <<6, 2, 4>>, 1, 7)>>, <<Fix(3, 0, <<0>>, 1, 2)>>}

At16(n, off) == [segment |-> n, offset |-> off]
Bundles == {<<>>,
  <<[kind |-> "unused", count |-> 2],
    [kind |-> "fixed", count |-> 2, entries |-> <<At16(1, 258), At16(1, 4)>>],
    [kind |-> "movable", count |-> 1, entries |-> <<At16(2, 513)>>]>>}

\* A code, a data and an empty segment; the stack is in one of the last two.
MCNePrograms ==
  {[segments |-> <<
      [code |-> TRUE,  data |-> [i \in 1 .. 13 |-> i], alloc |-> 13, fixups |-> f],
      [code |-> FALSE, data |-> [i \in 1 .. 8 |-> 20 + i], alloc |-> a, fixups |-> g],
      [code |-> FALSE, data |-> <<>>, alloc |-> 256, fixups |-> <<>>]>>,
    modules |-> <<"VIOCALLS", "DOSCALLS">>, bundles |-> b,
    cs |-> 1, ip |-> 3, ss |-> s, sp |-> p, auto |-> d]
   : f \in InCode, g \in InDataSegment, b \in Bundles, a \in {64, 65536}, s \in {2, 3}, p \in {0, 48}, d \in {0, 2}}

Far(n, off) == <<"far", n, off>>
Word(v) == <<"word", v>>
Call(o, args) == [ordinal |-> o, args |-> args]
MCNeArguments ==
  {Call(5, <<Word(1), Word(7)>>)}
  \cup {Call(138, <<Word(h), Far(1, 2), Word(3), w>>) : h \in {1, 3}, w \in {Far(2, 6), Far(0, 0)}}
  \cup {Call(94, <<Far(2, 4), w>>) : w \in {Far(2, 6), Far(0, 0)}}
  \cup {Call(5120 + 19, <<Far(1, 5), Word(4), Word(0)>>)}

=============================================================================
