----------------------------- MODULE GgufLayout -----------------------------
(***************************************************************************)
(* GgufFile::parse of 01-gguf-inference: a file from anywhere is read      *)
(* through a bounds-checked cursor, and afterwards tensor_data hands out   *)
(* pointers without looking.  All numbers are unsigned and wrap at Word;   *)
(* the fields of the file are arbitrary.                                   *)
(***************************************************************************)
EXTENDS Integers, Sequences, FiniteSets

CONSTANTS
    Word,          \* 2^64
    FileSizes,     \* sizes of files, at most a quarter of Word
    Lengths, Dims, Offsets,   \* numbers read from the file
    MaxString,     \* 2^30
    kMaxElements,  \* 2^50
    MaxTensors     \* tensors of a file
ASSUME GgufAssumption ==
    /\ {Word, MaxString, kMaxElements, MaxTensors} \subseteq Nat \ {0}
    /\ Lengths \cup Dims \cup Offsets \subseteq 0..(Word - 1)
    /\ \A s \in FileSizes : s \in Nat /\ 4 * s <= Word /\ s + MaxString < Word
    /\ 4 * kMaxElements <= Word

\* Types: elements and bytes of a block; a type with no bytes is unknown.
type_traits == {[elems |-> 1, bytes |-> 2], [elems |-> 2, bytes |-> 3], [elems |-> 1, bytes |-> 0]}
Wrap(n) == n % Word

VARIABLES
    parsing,     \* "start", "meta", "tensors", "layout", "open" or "rejected"
    fileSize,    \* of the file
    cursor,      \* off_
    align,
    tensors      \* [name, elements, type, offset] of the tensors read
ggufVars == <<parsing, fileSize, cursor, align, tensors>>

GgufInit == parsing = "start" /\ fileSize = 0 /\ cursor = 0 /\ align = 1 /\ tensors = <<>>

\* Cursor::need, with its sum.
Need(k) == Wrap(cursor + k) <= fileSize
\* An exception: the object goes with all it has read.
Reject == parsing' = "rejected" /\ fileSize' = 0 /\ cursor' = 0 /\ align' = 1 /\ tensors' = <<>>

\* Magic, version and counts.
ReadHeader ==
    /\ parsing = "start"
    /\ fileSize' \in FileSizes
    /\ parsing' = IF fileSize' >= 1 THEN "meta" ELSE "rejected"
    /\ cursor' = IF fileSize' >= 1 THEN 1 ELSE 0
    /\ UNCHANGED <<align, tensors>>

\* Cursor::str: a length field, here one byte; a length that is implausible is
\* refused before it is added.
StringFits(len) == Need(1) /\ len <= MaxString /\ Need(1 + len)
ReadString(len) ==
    /\ parsing = "meta"
    /\ IF StringFits(len) THEN cursor' = Wrap(cursor + 1 + len) /\ UNCHANGED <<parsing, fileSize, align, tensors>>
       ELSE Reject
\* general.alignment must be a power of two.
ReadAlignment(a) ==
    /\ parsing = "meta"
    /\ IF a \in {1, 2, 4} THEN align' = a /\ parsing' = "tensors" /\ UNCHANGED <<fileSize, cursor, tensors>>
       ELSE Reject

\* checked_mul: false when the product is refused.
MulFits(a, b) == a = 0 \/ b <= kMaxElements \div a
num_bytes(t) == Wrap((t.elements \div t.type.elems) * t.type.bytes)
\* An entry of the directory, here one byte, read field by field.
ReadTensor(name, d1, d2, type, offset) ==
    /\ parsing = "tensors" /\ Len(tensors) < MaxTensors
    /\ LET elements == Wrap(d1 * d2)
           ok == /\ Need(1)
                 /\ \A i \in DOMAIN tensors : tensors[i].name # name
                 /\ d1 # 0 /\ d2 # 0
                 /\ MulFits(1, d1) /\ MulFits(d1, d2)
                 /\ type.bytes # 0
                 /\ elements % type.elems = 0
                 /\ MulFits(elements \div type.elems, type.bytes)
                 /\ offset % align = 0
       IN IF ok THEN /\ tensors' = Append(tensors, [name |-> name, dims |-> <<d1, d2>>,
                                        elements |-> elements, type |-> type, offset |-> offset])
                     /\ cursor' = cursor + 1
                     /\ UNCHANGED <<parsing, fileSize, align>>
          ELSE Reject
TensorsRead == parsing = "tensors" /\ parsing' = "layout" /\ UNCHANGED <<fileSize, cursor, align, tensors>>

data_offset == ((cursor + align - 1) \div align) * align
\* Mutant: the comparison a reader would write first.
InsideWrapping(t, blob) == Wrap(t.offset + num_bytes(t)) <= blob
\* The comparisons are arranged so that none of them can wrap.
Inside(t, blob) == t.offset <= blob /\ num_bytes(t) <= Wrap(blob - t.offset)
\* Sorted by offset, every tensor ends before the next one begins.
CheckLayout ==
    /\ parsing = "layout"
    /\ LET blob == fileSize - data_offset
           next(i, j) == /\ i # j /\ tensors[i].offset <= tensors[j].offset
                         /\ ~\E k \in DOMAIN tensors \ {i, j} :
                                tensors[k].offset > tensors[i].offset /\ tensors[k].offset < tensors[j].offset
       IN IF /\ data_offset <= fileSize
             /\ \A i \in DOMAIN tensors : Inside(tensors[i], blob)
             /\ \A i, j \in DOMAIN tensors :
                    next(i, j) => Wrap(tensors[i].offset + num_bytes(tensors[i])) <= tensors[j].offset
          THEN parsing' = "open" /\ UNCHANGED <<fileSize, cursor, align, tensors>>
          ELSE Reject

GgufNext ==
    \/ ReadHeader \/ TensorsRead \/ CheckLayout
    \/ \E n \in Lengths : ReadString(n)
    \/ \E a \in Lengths \cup {1, 2, 4} : ReadAlignment(a)
    \/ \E name \in {"a", "b"}, d1 \in Dims, d2 \in Dims, type \in type_traits, offset \in Offsets :
            ReadTensor(name, d1, d2, type, offset)

GgufSpec == GgufInit /\ [][GgufNext]_ggufVars

-----------------------------------------------------------------------------
\* Whatever the file says: the cursor never leaves it, and in a file that is
\* accepted every tensor, with the bytes its dimensions really ask for, lies
\* inside the file behind the header, aligned, and shares no byte with another.
OpenFilesAreSound ==
    /\ cursor <= fileSize
    /\ parsing = "open" =>
        LET bytes(t) == ((t.dims[1] * t.dims[2]) \div t.type.elems) * t.type.bytes
            begin(t) == data_offset + t.offset
        IN \A i \in DOMAIN tensors :
            /\ begin(tensors[i]) % align = 0 /\ begin(tensors[i]) >= cursor
            /\ begin(tensors[i]) + bytes(tensors[i]) <= fileSize
            /\ \A j \in DOMAIN tensors \ {i} :
                \/ begin(tensors[i]) + bytes(tensors[i]) <= begin(tensors[j])
                \/ begin(tensors[j]) + bytes(tensors[j]) <= begin(tensors[i])
=============================================================================
