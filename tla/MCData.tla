------------------------------- MODULE MCData -------------------------------
(***************************************************************************)
(* How values are stored: the bytes of a virtual buffer, the fields of a   *)
(* structure in such bytes, the numbers of 512 bits, and the conversions   *)
(* between texts, fields and cells.  The four share no state: each is      *)
(* checked while the others are in a first state.                          *)
(***************************************************************************)
EXTENDS VirtualBuffer, Structure, BigInt, Convert

-----------------------------------------------------------------------------
(* The virtual buffer: no block, or a block in memory.                     *)

MCNoBlock == <<>>
MCBlock == <<1, 2, 1>>

-----------------------------------------------------------------------------
(* A structure with fields of each kind, before and after fields whose     *)
(* size varies.                                                            *)

Describe(name, kind, width, sub, default) ==
    [name |-> name, kind |-> kind, width |-> width, sub |-> sub, default |-> default]
MCDescription ==
    <<Describe("magic", "uint", 1, <<>>, <<1>>),
      Describe("name", "string", 1, <<>>, <<2>>),
      Describe("flags", "bits", 1, <<1, 1>>, <<0>>),
      Describe("items", "array", 1,
          <<Describe("t", "string", 1, <<>>, <<1>>), Describe("x", "int", 1, <<>>, <<0>>)>>, <<>>),
      Describe("old", "renamed", 0, "name", <<>>),
      Describe("sub", "structure", 0,
          <<Describe("u", "buffer", 1, <<>>, <<>>), Describe("c", "char", 2, <<>>, <<1, 0>>)>>, <<>>),
      Describe("n", "ularge", 2, <<>>, <<3, 0>>),
      Describe("f", "float", 1, <<>>, <<0>>)>>
MCStrings == {<<>>, <<3>>, <<1, 2>>, <<1, 1, 1, 1>>}
\* an array whose items have arrays, as in the description of a schema
MCNested ==
    <<Describe("types", "array", 1,
          <<Describe("t", "uint", 1, <<>>, <<1>>),
            Describe("fields", "array", 1, <<Describe("x", "uint", 1, <<>>, <<1>>)>>, <<>>)>>, <<>>),
      Describe("n", "uint", 1, <<>>, <<2>>)>>
\* two structures with flags of the same name
MCTwoFlags ==
    <<Describe("sub", "structure", 0, <<Describe("flags", "bits", 1, <<1, 1>>, <<0>>)>>, <<>>),
      Describe("flags", "bits", 1, <<1, 1>>, <<0>>)>>

-----------------------------------------------------------------------------
(* Texts to convert: the numbers next to every limit of every width, with  *)
(* versions, times, strings and hexadecimal buffers.                       *)

Type(k, n) == [kind |-> k, size |-> n]
MCTypes ==
    {Type(k, n) : k \in {"uint", "int"}, n \in {1, 2, 4, 8, 12}}
    \cup {Type("version", 2), Type("time", 0), Type("time", 1), Type("time", 2),
          Type("char", 5), Type("string", 1), Type("string", 2), Type("pbuffer", 1)}
Limits ==
    {0, 1, 2 ^ 23 - 1, 2 ^ 24 - 1}
    \cup UNION {{4 ^ n - 1, 4 ^ n} \cup {2 ^ (2 * n - 1) + d : d \in {-1, 0, 1}} : n \in {1, 2, 4, 8}}
SignedText(v, base) == IF v < 0 THEN <<Minus>> \o NumberText(-v, base) ELSE NumberText(v, base)
Input(t, chars, v) == [type |-> t, chars |-> chars, means |-> [number |-> v]]
TextInput(t, chars) == [type |-> t, chars |-> chars, means |-> [text |-> chars]]
MCInputs ==
    {Input(Type(k, n), SignedText(v, base), v) :
        k \in {"uint", "int"}, n \in {1, 2, 4, 8, 12}, v \in Limits \cup {-v : v \in Limits}, base \in {10, 16}}
    \cup {Input(Type("version", 2), NumberText(major, 10) \o <<Dot>> \o NumberText(minor, 10), 4 * major + minor) :
              major \in {0, 3}, minor \in {0, 1, 3}}
    \cup {Input(Type("version", 2), <<V, 4, Dot, 0>>, 16)}
    \cup {Input(Type("time", 0), strftime(s) \o <<Zone>>, s) : s \in {-25, -24, -1, 0, 55, 56, 127}}
    \cup {Input(Type("time", 1), strftime(s) \o <<Dot, f, 0, Zone>>, 10 * s + f) : s \in {-1, 0, 2, 12}, f \in {0, 5}}
    \cup {Input(Type("time", 2), strftime(s) \o <<Dot, 0, f>>, 100 * s + f) : s \in {-1, 0, 1}, f \in {0, 5}}
    \cup {TextInput(t, [k \in 1..n |-> Letter]) : t \in {Type("char", 5), Type("string", 1), Type("string", 2)}, n \in 0..4}
    \cup {TextInput(Type("pbuffer", 1), [k \in 1..n |-> k % 2]) : n \in {0, 2, 6, 8}}

-----------------------------------------------------------------------------

\* the first state in which a component waits for the others
BufferIdle == calls = 0 /\ saved = <<>>
StructureIdle == operations = 0
NumbersIdle == ~signed /\ number = Zero /\ expected = 0 /\ wrong = {}
ConvertIdle == form = "text" /\ type = Type("uint", 1) /\ store = <<0>>

DataInit ==
    /\ BufferInit /\ StructureInit /\ BigIntInit /\ ConvertInit
    /\ \/ BufferIdle /\ NumbersIdle
       \/ BufferIdle /\ ConvertIdle
       \/ NumbersIdle /\ ConvertIdle

DataNext ==
    \/ StructureIdle /\ NumbersIdle /\ ConvertIdle /\ BufferNext /\ UNCHANGED <<structure, bigint, convert>>
    \/ BufferIdle /\ NumbersIdle /\ ConvertIdle /\ StructureNext /\ UNCHANGED <<buffer, bigint, convert>>
    \/ BufferIdle /\ StructureIdle /\ ConvertIdle /\ BigIntNext /\ UNCHANGED <<buffer, structure, convert>>
    \/ BufferIdle /\ StructureIdle /\ NumbersIdle /\ ConvertNext /\ UNCHANGED <<buffer, structure, bigint>>

DataSpec == DataInit /\ [][DataNext]_<<buffer, structure, bigint, convert>>
=============================================================================
