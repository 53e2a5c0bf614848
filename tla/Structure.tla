------------------------------ MODULE Structure ------------------------------
(***************************************************************************)
(* Structures (prinbee/data/structure.cpp): the fields of a description,   *)
(* kept one after the other in a virtual buffer, and the tree in memory    *)
(* which remembers at which offset each field is.                          *)
(*                                                                         *)
(* A byte is a cell of Base values, an integer is little endian over the   *)
(* cells of its field.  A field of a description is a record: its name,    *)
(* kind, width (cells of the value, or of the count in front of it),       *)
(* default and sub (the sub-description of an array or structure, the      *)
(* sizes of the flags of a bit field, the new name of a renamed field).    *)
(* What an operation does is a function of the pair of the buffer and the  *)
(* tree; one which throws changes nothing.                                 *)
(***************************************************************************)
EXTENDS Integers, Sequences, SequencesExt, FiniteSets

CONSTANTS
    Base,               \* values of a cell: 256 for a byte
    Description,        \* the description of the root
    Numbers,            \* integers given to set_integer() and set_uinteger()
    Strings,            \* strings and buffers given to set_string() and set_buffer()
    MaxOperations       \* operations on one structure

VARIABLES
    data,               \* f_buffer
    root,               \* the structure in memory
    values,             \* what the fields were set to
    operations          \* operations so far

structure == <<data, root, values, operations>>

Integers8 == {"int"}                            \* INT8 to INT64 and the times
Unsigned8 == {"uint", "bits"}                   \* UINT8 to UINT64, references, versions, BITS8 to BITS64
LargeIntegers == {"int", "large"}               \* up to INT512
LargeUnsigned == {"uint", "bits", "ularge"}     \* up to UINT512
Scalars == LargeIntegers \union LargeUnsigned \union {"float"}
Counted == {"string", "buffer", "array"}        \* P8STRING, BUFFER8, ARRAY8 to 32

RECURSIVE Cells(_, _), Number(_)
Cells(v, width) == IF width = 0 THEN <<>> ELSE <<v % Base>> \o Cells(v \div Base, width - 1)
Number(cells) == IF cells = <<>> THEN 0 ELSE cells[1] + Base * Number(Tail(cells))
Signed(cells) == LET n == Number(cells) IN IF 2 * n < Base ^ Len(cells) THEN n ELSE n - Base ^ Len(cells)

ReadCells(bytes, offset, n) == SubSeq(bytes, offset + 1, offset + n)
Written(bytes, cells, offset) ==
    [k \in DOMAIN bytes |-> IF k > offset /\ k <= offset + Len(cells) THEN cells[k - offset] ELSE bytes[k]]
Inserted(bytes, cells, offset) == SubSeq(bytes, 1, offset) \o cells \o SubSeq(bytes, offset + 1, Len(bytes))
Erased(bytes, n, offset) == SubSeq(bytes, 1, offset) \o SubSeq(bytes, offset + n + 1, Len(bytes))
Zeroes(n) == [k \in 1..n |-> 0]

-----------------------------------------------------------------------------
\* Cells in front of the variable part of a field.
TypeFieldSize(def) == IF def.kind \in {"structure", "renamed", "void"} THEN 0 ELSE def.width

(* parse_descriptions(): the fields of a description from an offset.  Without
   a buffer the variable fields are empty.  A field which ends after the
   buffer is corrupted data.                                               *)
RECURSIVE ParseDescriptions(_, _, _, _), ParseItems(_, _, _, _, _)
ParseField(p, def, bytes, bound) ==
    LET head == p.end + TypeFieldSize(def)
        count == IF def.kind = "structure" THEN 1
                 ELSE IF def.kind \in Counted /\ bytes # <<>> THEN Number(ReadCells(bytes, p.end, def.width))
                 ELSE 0
        end == IF def.kind \in {"string", "buffer"} THEN head + count ELSE head
        items == IF def.kind \in {"array", "structure"} THEN ParseItems(def.sub, count, end, bytes, bound)
                 ELSE [subs |-> <<>>, end |-> end, corrupted |-> FALSE]
        tooLarge == bytes # <<>> /\ end > Len(bytes)
        size == IF def.kind \in Scalars \union {"char"} THEN def.width ELSE count
    IN  IF p.corrupted \/ (bytes # <<>> /\ head > Len(bytes)) \/ tooLarge THEN [p EXCEPT !.corrupted = TRUE]
        ELSE [fields |-> Append(p.fields, [offset |-> p.end, size |-> size, subs |-> items.subs]),
              end |-> items.end, corrupted |-> items.corrupted]
ParseDescriptions(d, start, bytes, bound) ==
    FoldLeft(LAMBDA p, def : ParseField(p, def, bytes, bound),
             [fields |-> <<>>, end |-> start, corrupted |-> FALSE], d)
ParseItems(d, count, start, bytes, bound) ==
    FoldLeft(LAMBDA a, k :
                LET p == ParseDescriptions(d, a.end, bytes, bound)
                IN  IF a.corrupted THEN a
                    ELSE [subs |-> Append(a.subs, [start |-> a.end, bound |-> bound, fields |-> p.fields]),
                          end |-> p.end, corrupted |-> p.corrupted],
             [subs |-> <<>>, end |-> start, corrupted |-> FALSE], [k \in 1..count |-> k])

\* get_current_size(): where the structure ends when it starts at an offset.
RECURSIVE CurrentSize(_, _, _)
FieldSize(def, f) ==
    CASE def.kind \in {"string", "buffer"} -> def.width + f.size
      [] def.kind = "array" -> def.width
      [] def.kind \in {"structure", "renamed"} -> 0
      [] OTHER -> f.size
CurrentSize(s, d, start) ==
    FoldLeft(LAMBDA sum, k :
                FoldLeft(LAMBDA end, sub : CurrentSize(sub, d[k].sub, end), sum + FieldSize(d[k], s.fields[k]),
                         s.fields[k].subs),
             start, [k \in DOMAIN d |-> k])

\* adjust_offsets(): what is after the cutoff moves, in the whole tree.
RECURSIVE Adjusted(_, _, _)
Moved_FromCutoff(offset, cutoff, diff) == IF offset >= cutoff THEN offset + diff ELSE offset
Moved(offset, cutoff, diff) == IF offset > cutoff THEN offset + diff ELSE offset
Adjusted(s, cutoff, diff) ==
    [s EXCEPT !.fields = [k \in DOMAIN s.fields |->
        [s.fields[k] EXCEPT
            !.offset = Moved(@, cutoff, diff),
            !.subs = [i \in DOMAIN s.fields[k].subs |->
                LET sub == s.fields[k].subs[i]
                IN  Adjusted([sub EXCEPT !.start = Moved(@, cutoff, diff)], cutoff, diff)]]]]

-----------------------------------------------------------------------------
(* A structure of the tree is named by the fields and items which lead to
   it from the root: the pointers get_structure() and get_array() return.
   A name is a sequence, "a.b" being <<"a", "b">>.                          *)
RECURSIVE NodeAt(_, _), DescriptionAt(_, _), Replaced(_, _, _)
NodeAt(s, path) == IF path = <<>> THEN s ELSE NodeAt(s.fields[path[1][1]].subs[path[1][2]], Tail(path))
DescriptionAt(d, path) == IF path = <<>> THEN d ELSE DescriptionAt(d[path[1][1]].sub, Tail(path))
Replaced(s, path, new) ==
    IF path = <<>> THEN new
    ELSE [s EXCEPT !.fields[path[1][1]].subs[path[1][2]] = Replaced(@, Tail(path), new)]

RECURSIVE Handles(_)
GetArray(s, k) == {<<<<k, i>>>> : i \in DOMAIN s.fields[k].subs}
Handles(s) ==
    {<<>>} \union UNION {UNION {{h \o t : t \in Handles(NodeAt(s, h))} : h \in GetArray(s, k)} : k \in DOMAIN s.fields}

\* find_field(), which follows a renamed field once; 0: field_not_found.
Named(d, name) == LET in == {k \in DOMAIN d : d[k].name = name} IN IF in = {} THEN 0 ELSE CHOOSE k \in in : TRUE
FindField(d, name) ==
    LET k == Named(d, name) IN IF k # 0 /\ d[k].kind = "renamed" THEN Named(d, d[k].sub) ELSE k

(* get_field(): the structure which has the field, and the field.  A name
   goes through structures only.                                           *)
RECURSIVE GetField(_, _, _)
GetField(d, path, name) ==
    LET k == FindField(DescriptionAt(d, path), name[1])
    IN  IF k = 0 THEN [path |-> path, field |-> 0]
        ELSE IF Len(name) = 1 THEN [path |-> path, field |-> k]
        ELSE IF DescriptionAt(d, path)[k].kind # "structure" THEN [path |-> path, field |-> 0]
        ELSE GetField(d, Append(path, <<k, 1>>), Tail(name))
Names(d) ==
    {<<d[k].name>> : k \in DOMAIN d}
        \union UNION {{<<d[k].name, d[k].sub[j].name>> : j \in DOMAIN d[k].sub} :
                         k \in {i \in DOMAIN d : d[i].kind = "structure"}}

\* What the operations work on: the buffer, the tree, and the field.
FieldOf(t, at) == NodeAt(t.root, at.path).fields[at.field]
DefOf(at) == DescriptionAt(Description, at.path)[at.field]
NoField == [path |-> <<>>, field |-> 0]
Field(path, name, kinds) ==
    LET at == GetField(Description, path, name)
    IN  IF ~NodeAt(root, path).bound \/ at.field = 0 THEN NoField
        ELSE IF DefOf(at).kind \in kinds THEN at ELSE NoField

-----------------------------------------------------------------------------
\* The setters of integers write the low cells of the value.
SetScalar(t, at, v) == [t EXCEPT !.data = Written(@, Cells(v, DefOf(at).width), FieldOf(t, at).offset)]

\* flag_definition: the position of a flag, the sum of the sizes before it.
FlagPos(sizes, flag) == 2 ^ FoldLeft(LAMBDA sum, n : sum + n, 0, SubSeq(sizes, 1, flag - 1))
GetBits(n, sizes, flag) == (n \div FlagPos(sizes, flag)) % 2 ^ sizes[flag]
WithBits(n, sizes, flag, v) == n + (v - GetBits(n, sizes, flag)) * FlagPos(sizes, flag)

(* set_bits(): the flag is searched with its whole name, the integer it is
   part of is read and written with the name of the field alone, from the
   structure set_bits() was called on.                                     *)
SetBits(t, path, at, flag, v) ==
    LET sizes == DefOf(at).sub
        own == [path |-> path, field |-> FindField(DescriptionAt(Description, path), DefOf(at).name)]
        n == Number(ReadCells(t.data, FieldOf(t, own).offset, DefOf(own).width))
    IN  IF v >= 2 ^ sizes[flag] \/ own.field = 0 THEN t
        ELSE IF DefOf(own).kind \notin Unsigned8 THEN t
        ELSE SetScalar(t, own, WithBits(n, sizes, flag, v))

\* set_string() on a CHAR field: the rest of the field is cleared.
SetChar(t, at, s) ==
    LET width == DefOf(at).width
    IN  IF Len(s) > width THEN t
        ELSE [t EXCEPT !.data = Written(@, s \o Zeroes(width - Len(s)), FieldOf(t, at).offset)]

(* set_string() on a P-string: the size and the string are written over, the
   rest inserted or erased, then the offsets after the field adjusted.     *)
SetString(t, at, s) ==
    LET f == FieldOf(t, at)
        width == DefOf(at).width
        first == f.offset + width
        sized == Written(t.data, Cells(Len(s), width), f.offset)
        common == IF Len(s) < f.size THEN Len(s) ELSE f.size
        over == Written(sized, SubSeq(s, 1, common), first)
        bytes == IF Len(s) > f.size THEN Inserted(over, SubSeq(s, f.size + 1, Len(s)), first + f.size)
                 ELSE Erased(over, f.size - Len(s), first + Len(s))
        resized == [NodeAt(t.root, at.path) EXCEPT !.fields[at.field].size = Len(s)]
    IN  IF Number(ReadCells(t.data, f.offset, width)) # f.size \/ Len(s) >= Base ^ width THEN t
        ELSE [data |-> bytes, root |-> Adjusted(Replaced(t.root, at.path, resized), f.offset, Len(s) - f.size)]

\* set_buffer() erases first, and does not compare the size with the buffer.
SetBuffer(t, at, s) ==
    LET f == FieldOf(t, at)
        width == DefOf(at).width
        first == f.offset + width
        cut == IF f.size > Len(s) THEN Erased(t.data, f.size - Len(s), first + Len(s)) ELSE t.data
        common == IF Len(s) < f.size THEN Len(s) ELSE f.size
        over == Written(Written(cut, Cells(Len(s), width), f.offset), SubSeq(s, 1, common), first)
        resized == [NodeAt(t.root, at.path) EXCEPT !.fields[at.field].size = Len(s)]
    IN  IF Len(s) >= Base ^ width THEN t
        ELSE [data |-> Inserted(over, SubSeq(s, f.size + 1, Len(s)), first + f.size),
              root |-> Adjusted(Replaced(t.root, at.path, resized), f.offset, Len(s) - f.size)]

\* set_defaults(), on the fields of one structure and not of those in it.
SetDefault(t, at) ==
    LET def == DefOf(at)
    IN  IF def.default = <<>> THEN t
        ELSE IF def.kind = "string" THEN SetString(t, at, def.default)
        ELSE [t EXCEPT !.data = Written(@, def.default, FieldOf(t, at).offset)]
SetDefaults(t, path) ==
    FoldLeft(LAMBDA u, k : SetDefault(u, [path |-> path, field |-> k]), t,
             [k \in DOMAIN DescriptionAt(Description, path) |-> k])

\* The item joins the array after the offsets are adjusted.
PushItem_First(s, at, item, add) ==
    Adjusted(Replaced(s, at.path, [NodeAt(s, at.path) EXCEPT !.fields[at.field].subs = Append(@, item)]), item.start - 1, add)
PushItem(s, at, item, add) ==
    LET moved == Adjusted(s, item.start - 1, add)
    IN  Replaced(moved, at.path, [NodeAt(moved, at.path) EXCEPT !.fields[at.field].subs = Append(@, item)])

(* new_array_item(), called on the structure at path: the item is added in
   front of the next field or, without one, where get_current_size() says
   that structure ends when it starts at offset 0.                         *)
NewArrayItem(t, path, at) ==
    LET f == FieldOf(t, at)
        def == DefOf(at)
        count == Number(ReadCells(t.data, f.offset, def.width)) + 1
        owner == NodeAt(t.root, at.path)
        offset == IF at.field < Len(owner.fields) THEN owner.fields[at.field + 1].offset
                  ELSE CurrentSize(NodeAt(t.root, path), DescriptionAt(Description, path), 0)
        parsed == ParseDescriptions(def.sub, offset, <<>>, FALSE)
        item == [start |-> offset, bound |-> TRUE, fields |-> parsed.fields]
        add == parsed.end - offset
        bytes == Written(Inserted(t.data, Zeroes(add), offset), Cells(count, def.width), f.offset)
    IN  IF count >= Base ^ def.width THEN t
        ELSE SetDefaults([data |-> bytes, root |-> PushItem(t.root, at, item, add)],
                         Append(at.path, <<at.field, Len(f.subs) + 1>>))
\* delete_array_item()
DeleteArrayItem(t, at, i) ==
    LET f == FieldOf(t, at)
        def == DefOf(at)
        count == Number(ReadCells(t.data, f.offset, def.width))
        item == f.subs[i]
        size == CurrentSize(item, def.sub, 0)
        without == [NodeAt(t.root, at.path) EXCEPT !.fields[at.field].subs = SubSeq(@, 1, i - 1) \o SubSeq(@, i + 1, Len(@))]
    IN  IF count # Len(f.subs) THEN t
        ELSE [data |-> Written(Erased(t.data, size, item.start), Cells(count - 1, def.width), f.offset),
              root |-> Adjusted(Replaced(t.root, at.path, without), item.start - 1, -size)]

-----------------------------------------------------------------------------
\* The getters: what a field gives through the offsets of the tree.
RECURSIVE ValuesOf(_, _, _)
Trimmed(cells) == LET ends == {k \in DOMAIN cells : cells[k] = 0} \union {Len(cells) + 1}
                  IN  SubSeq(cells, 1, (CHOOSE k \in ends : \A j \in ends : k <= j) - 1)
GetInteger(cells) == Signed(cells)
GetUInteger(cells) == Number(cells)
\* get_string(), get_buffer(); <<Base>>, which no field holds, for corrupted_data.
GetString(bytes, def, f) ==
    IF Number(ReadCells(bytes, f.offset, def.width)) # f.size THEN <<Base>>
    ELSE ReadCells(bytes, f.offset + def.width, f.size)
ValueOf(bytes, def, f) ==
    CASE def.kind \in LargeIntegers -> GetInteger(ReadCells(bytes, f.offset, def.width))
      [] def.kind \in LargeUnsigned \union {"float"} -> GetUInteger(ReadCells(bytes, f.offset, def.width))
      [] def.kind = "char" -> Trimmed(ReadCells(bytes, f.offset, def.width))
      [] def.kind \in {"string", "buffer"} -> GetString(bytes, def, f)
      [] def.kind \in {"array", "structure"} -> [i \in DOMAIN f.subs |-> ValuesOf(bytes, def.sub, f.subs[i])]
      [] OTHER -> <<>>
ValuesOf(bytes, d, s) == [k \in DOMAIN d |-> ValueOf(bytes, d[k], s.fields[k])]

\* What a structure is made of when it is created: set_defaults() does not
\* reach the fields of a structure in it, which are zero or empty.
RECURSIVE Unset(_)
Unset(d) ==
    [k \in DOMAIN d |->
        CASE d[k].kind \in LargeIntegers \union LargeUnsigned \union {"float"} -> 0
          [] d[k].kind = "structure" -> <<Unset(d[k].sub)>>
          [] OTHER -> <<>>]
Initial(d) ==
    [k \in DOMAIN d |->
        CASE d[k].kind \in LargeIntegers -> Signed(d[k].default)
          [] d[k].kind \in LargeUnsigned \union {"float"} -> Number(d[k].default)
          [] d[k].kind = "char" -> Trimmed(d[k].default)
          [] d[k].kind = "structure" -> <<Unset(d[k].sub)>>
          [] d[k].kind = "string" -> d[k].default
          [] OTHER -> <<>>]

\* The value of a field in the tree of values.
RECURSIVE ValueSet(_, _, _, _)
ValueSet(v, path, k, new) ==
    IF path = <<>> THEN [v EXCEPT ![k] = new]
    ELSE [v EXCEPT ![path[1][1]][path[1][2]] = ValueSet(@, Tail(path), k, new)]
RECURSIVE ValueGet(_, _, _)
ValueGet(v, path, k) == IF path = <<>> THEN v[k] ELSE ValueGet(v[path[1][1]][path[1][2]], Tail(path), k)

-----------------------------------------------------------------------------
Now == [data |-> data, root |-> root]
Becomes(t, v) == /\ data' = t.data
                 /\ root' = t.root
                 /\ values' = v
                 /\ operations' = operations + 1

\* init_buffer()
StructureInit ==
    LET parsed == ParseDescriptions(Description, 0, <<>>, FALSE)
        t == SetDefaults([data |-> Zeroes(parsed.end), root |-> [start |-> 0, bound |-> TRUE, fields |-> parsed.fields]], <<>>)
    IN  /\ data = t.data
        /\ root = t.root
        /\ values = Initial(Description)
        /\ operations = 0

\* A call on a structure of the tree: a field of it of one of the kinds.
CallsOn(h, kinds) ==
    {c \in {[path |-> h, at |-> Field(h, n, kinds)] : n \in Names(DescriptionAt(Description, h))} : c.at.field # 0}
Calls(kinds) == UNION {CallsOn(h, kinds) : h \in Handles(root)}

SetNumber(kinds, signed) ==
    \E c \in Calls(kinds), v \in Numbers :
        LET width == DefOf(c.at).width
            kept == IF signed THEN Signed(Cells(v, width)) ELSE v % Base ^ width
        IN  Becomes(SetScalar(Now, c.at, v), ValueSet(values, c.at.path, c.at.field, kept))
SetIntegerCall == SetNumber(Integers8, TRUE)
SetUIntegerCall == SetNumber(Unsigned8, FALSE)
SetLargeIntegerCall == SetNumber(LargeIntegers, TRUE)
SetLargeUIntegerCall == SetNumber(LargeUnsigned, FALSE)
SetFloatCall == SetNumber({"float"}, FALSE)

SetBitsCall ==
    \E c \in Calls({"bits"}) : \E flag \in DOMAIN DefOf(c.at).sub, v \in {n \in Numbers : n >= 0} :
        LET sizes == DefOf(c.at).sub
            old == ValueGet(values, c.at.path, c.at.field)
            new == old + (v - GetBits(old, sizes, flag)) * FlagPos(sizes, flag)
        IN  Becomes(SetBits(Now, c.path, c.at, flag, v),
                    IF v < 2 ^ sizes[flag] THEN ValueSet(values, c.at.path, c.at.field, new) ELSE values)

SetCells(kind, Set(_, _, _), limit(_)) ==
    \E c \in Calls({kind}), s \in Strings :
        Becomes(Set(Now, c.at, s), IF Len(s) < limit(DefOf(c.at).width) THEN ValueSet(values, c.at.path, c.at.field, s) ELSE values)
SetCharCall == SetCells("char", SetChar, LAMBDA width : width + 1)
SetStringCall == SetCells("string", SetString, LAMBDA width : Base ^ width)
SetBufferCall == SetCells("buffer", SetBuffer, LAMBDA width : Base ^ width)

NewArrayItemCall ==
    \E c \in Calls({"array"}) :
        LET items == ValueGet(values, c.at.path, c.at.field)
        IN  Becomes(NewArrayItem(Now, c.path, c.at),
                    IF Len(items) + 1 < Base ^ DefOf(c.at).width
                    THEN ValueSet(values, c.at.path, c.at.field, Append(items, Initial(DefOf(c.at).sub)))
                    ELSE values)
DeleteArrayItemCall ==
    \E c \in Calls({"array"}) : \E i \in DOMAIN FieldOf(Now, c.at).subs :
        LET items == ValueGet(values, c.at.path, c.at.field)
        IN  Becomes(DeleteArrayItem(Now, c.at, i),
                    ValueSet(values, c.at.path, c.at.field, SubSeq(items, 1, i - 1) \o SubSeq(items, i + 1, Len(items))))

\* set_virtual_buffer() with the same buffer: the next access parses it again.
SetVirtualBuffer ==
    LET p == ParseDescriptions(Description, 0, data, TRUE)
    IN  /\ ~p.corrupted
        /\ Becomes([data |-> data, root |-> [start |-> 0, bound |-> TRUE, fields |-> p.fields]], values)

StructureNext ==
    /\ operations < MaxOperations
    /\ \/ SetIntegerCall
       \/ SetUIntegerCall
       \/ SetLargeIntegerCall
       \/ SetLargeUIntegerCall
       \/ SetFloatCall
       \/ SetBitsCall
       \/ SetCharCall
       \/ SetStringCall
       \/ SetBufferCall
       \/ NewArrayItemCall
       \/ DeleteArrayItemCall
       \/ SetVirtualBuffer

StructureSpec == StructureInit /\ [][StructureNext]_structure

-----------------------------------------------------------------------------
(* Whatever was set, resized, added and deleted around it, every field of
   the tree gives the value it was last set to (structure.cpp, the getters
   and adjust_offsets()).                                                  *)
FieldsKeepValues == ValuesOf(data, Description, root) = values

(* The offsets and sizes kept in memory are those found by parsing the
   buffer again, so that a structure which is saved and loaded has the same
   fields (parse_descriptions(), adjust_offsets()).                        *)
RECURSIVE Layout(_, _)
Layout(s, d) ==
    [k \in DOMAIN d |->
        [offset |-> s.fields[k].offset,
         size |-> IF d[k].kind = "array" THEN Len(s.fields[k].subs) ELSE s.fields[k].size,
         subs |-> [i \in DOMAIN s.fields[k].subs |->
                      <<s.fields[k].subs[i].start, Layout(s.fields[k].subs[i], d[k].sub)>>]]]
OffsetsMatchBuffer ==
    LET p == ParseDescriptions(Description, 0, data, TRUE)
    IN  /\ ~p.corrupted
        /\ p.end = Len(data)
        /\ Layout([fields |-> p.fields], Description) = Layout(root, Description)
=============================================================================
