------------------------------ MODULE KMessage ------------------------------
(* The messages in which the server tells teams of events (KMessage): fields
   with names and types, laid out one after the other in a buffer that the
   message holds itself while it is empty, allocates in chunks, or is lent.

   The buffer is a function from offsets to what was written there: a header
   of a field, the size in front of a value of varying size, or a value. What
   is written over is lost. said is what the callers were told has been added,
   in order. *)
EXTENDS Integers, FiniteSets, SequencesExt

CONSTANTS
    FieldName,      \* names of fields
    NameLength,     \* the length of each of them
    Type,           \* type codes other than B_ANY_TYPE
    String,         \* the one of them whose values have no fixed size
    SizeOf,         \* the size of a value of each other type
    Value,          \* values
    StringLength,   \* the length of each of them as a string
    LentSize,       \* sizes of buffers that callers lend
    Largest,        \* the most that can be allocated
    MaxElements     \* bound: values in a message

ASSUME String \in Type /\ \A t \in Type \ {String} : SizeOf[t] > 0

VARIABLES message, said

kmessageVars == <<message, said>>

kHeaderSize == 28
kFieldHeaderSize == 20
kNameOffset == 18
kValueHeaderSize == 4
kMessageReallocChunkSize == 64
kMessageBufferAlignment == 4

NoField == 0
NotFound == [value |-> "garbage", size |-> -1]

Aligned(offset) == ((offset + kMessageBufferAlignment - 1) \div kMessageBufferAlignment) * kMessageBufferAlignment

CapacityFor(size) == ((size + kMessageReallocChunkSize - 1) \div kMessageReallocChunkSize) * kMessageReallocChunkSize

-----------------------------------------------------------------------------
(* The buffer. *)

InitBuffer(m) == [m EXCEPT !.size = kHeaderSize, !.last = NoField, !.replyToken = -1, !.cells = << >>]

\* The flags stay as they are.
UnsetMessage(m) == InitBuffer([m EXCEPT !.inline = TRUE, !.capacity = kHeaderSize])

WriteCell(cells, at, cell) ==
    LET kept == {o \in DOMAIN cells : o + cells[o].length <= at \/ o >= at + cell.length}
    IN [o \in kept \cup {at} |-> IF o = at THEN cell ELSE cells[o]]

Refused(m) == [ok |-> FALSE, message |-> m, address |-> 0, size |-> 0]

AllocateSpace(m, size, alignAddress, alignSize) ==
    LET offset == IF alignAddress THEN Aligned(m.size) ELSE m.size
        newSize == IF alignSize THEN Aligned(offset + size) ELSE offset + size
        moved == m.inline \/ newSize > m.capacity
        newCapacity == IF moved THEN CapacityFor(newSize) ELSE m.capacity
    IN IF \/ ~m.inline /\ "readOnly" \in m.flags
          \/ ~m.inline /\ moved /\ "owns" \notin m.flags
          \/ moved /\ newCapacity > Largest
       THEN Refused(m)
       ELSE [ok |-> TRUE, address |-> offset, size |-> newSize - offset,
             message |-> [m EXCEPT !.inline = FALSE, !.size = newSize, !.capacity = newCapacity,
                                   !.flags = IF m.inline THEN @ \cup {"owns"} ELSE @]]

-----------------------------------------------------------------------------
(* Fields, in the order of the buffer. *)

FirstFieldHeader == Aligned(kHeaderSize)

NextFieldHeader(m, at) == Aligned(at + m.cells[at].fieldSize)

LastFieldHeader(m) == IF m.last <= 0 \/ m.last >= m.size THEN NoField ELSE m.last

HasFixedElementSize(header) == header.elementSize >= 0

NextField(m, at) ==
    IF LastFieldHeader(m) = NoField \/ at = LastFieldHeader(m) THEN NoField
    ELSE IF at = NoField THEN FirstFieldHeader
    ELSE IF at \notin FirstFieldHeader .. LastFieldHeader(m) THEN NoField
    ELSE NextFieldHeader(m, at)

\* The offsets that GetNextField goes through.
Fields(m) ==
    LET from[at \in 0 .. m.size] ==
            IF NextField(m, at) = NoField THEN << >>
            ELSE <<NextField(m, at)>> \o from[NextField(m, at)]
    IN from[NoField]

FindField(m, name, types) ==
    LET found == SelectSeq(Fields(m), LAMBDA at : m.cells[at].name = name /\ m.cells[at].type \in types)
    IN IF found = << >> THEN NoField ELSE Head(found)

NextFieldValueHeader(m, at) == Aligned(Aligned(at + kValueHeaderSize) + m.cells[at].length - kValueHeaderSize)

\* A header of a value is one cell with its value: they are written together.
ValueHeader(m, at, index) ==
    LET header[i \in 0 .. index] ==
            IF i = 0 THEN at + m.cells[at].headerSize ELSE NextFieldValueHeader(m, header[i - 1])
    IN header[index]

Address(m, at, index) ==
    IF HasFixedElementSize(m.cells[at])
    THEN at + m.cells[at].headerSize + m.cells[at].elementSize * index
    ELSE ValueHeader(m, at, index)

ElementAt(m, at, index) ==
    IF at = NoField \/ index >= m.cells[at].elementCount THEN NotFound
    ELSE LET address == Address(m, at, index)
         IN IF address \notin DOMAIN m.cells \/ "value" \notin DOMAIN m.cells[address] THEN NotFound
            ELSE [value |-> m.cells[address].value,
                  size |-> IF HasFixedElementSize(m.cells[at]) THEN m.cells[at].elementSize
                           ELSE m.cells[address].length - kValueHeaderSize]

FindData(m, name, type, index) == ElementAt(m, FindField(m, name, {type}), index)

FindType(m, name, type, index) ==
    LET found == FindData(m, name, type, index)
    IN IF type # String /\ found.size # SizeOf[type] THEN NotFound ELSE found

GetType(m, name, type, index, defaultValue) ==
    LET found == FindType(m, name, type, index)
    IN IF found = NotFound THEN defaultValue ELSE found.value

-----------------------------------------------------------------------------
(* Adding to a message. *)

NewField(m, name, type, elementSize) ==
    LET space == AllocateSpace(m, kFieldHeaderSize + NameLength[name], TRUE, TRUE)
        header == [length |-> space.size, name |-> name, type |-> type, elementSize |-> elementSize,
                   elementCount |-> 0, fieldSize |-> space.size, headerSize |-> space.size]
    IN IF ~space.ok THEN space
       ELSE [space EXCEPT !.message.cells = WriteCell(@, space.address, header), !.message.last = space.address]

Grown(m, at, count, end) ==
    [m EXCEPT !.cells[at].elementCount = @ + count, !.cells[at].fieldSize = end - at]

\* Mutant: every element of a field of a fixed size starts at an aligned offset.
AddFixedAligned(m, at, size, values) ==
    LET space == AllocateSpace(m, size * Len(values), TRUE, FALSE)
        cells == FoldLeftDomain(LAMBDA c, i : WriteCell(c, space.address + (i - 1) * size, [length |-> size, value |-> values[i]]),
                                space.message.cells, values)
    IN IF ~space.ok THEN [space EXCEPT !.address = 0]
       ELSE [space EXCEPT !.address = Len(values),
                          !.message = Grown([@ EXCEPT !.cells = cells], at, Len(values), space.address + space.size)]

\* The result's address says how many values were added.
AddFixed(m, at, size, values) ==
    LET space == AllocateSpace(m, size * Len(values), m.cells[at].elementCount = 0, FALSE)
        cells == FoldLeftDomain(LAMBDA c, i : WriteCell(c, space.address + (i - 1) * size, [length |-> size, value |-> values[i]]),
                                space.message.cells, values)
    IN IF ~space.ok THEN [space EXCEPT !.address = 0]
       ELSE [space EXCEPT !.address = Len(values),
                          !.message = Grown([@ EXCEPT !.cells = cells], at, Len(values), space.address + space.size)]

AddVarying(m, at, size, values) ==
    LET one(result, i) ==
            LET space == AllocateSpace(result.message, kValueHeaderSize + size, TRUE, FALSE)
                cell == [length |-> kValueHeaderSize + size, value |-> values[i]]
                written == [space.message EXCEPT !.cells = WriteCell(@, space.address, cell)]
            IN IF ~result.ok THEN result
               ELSE IF ~space.ok THEN [result EXCEPT !.ok = FALSE]
               ELSE [space EXCEPT !.address = result.address + 1,
                                  !.message = Grown(written, at, 1, space.address + space.size)]
    IN FoldLeftDomain(one, [ok |-> TRUE, message |-> m, address |-> 0, size |-> 0], values)

AddFieldData(m, at, size, values) ==
    IF at # LastFieldHeader(m) \/ (HasFixedElementSize(m.cells[at]) /\ size # m.cells[at].elementSize)
    THEN Refused(m)
    ELSE IF HasFixedElementSize(m.cells[at]) THEN AddFixed(m, at, size, values)
    ELSE AddVarying(m, at, size, values)

\* What the callers know of the fields: a new one, and values of the last one.
Named(name, type) == [name |-> name, type |-> type, values |-> << >>]
Recorded(record, name, values) ==
    [i \in DOMAIN record |-> IF record[i].name = name THEN [record[i] EXCEPT !.values = @ \o values] ELSE record[i]]

\* AddData and AddArray: values of one field, which is made when it is not there.
AddData(name, type, size, isFixedSize, values) ==
    LET at == FindField(message, name, Type)
        field == NewField(message, name, type, IF isFixedSize THEN size ELSE -1)
        start == IF at = NoField THEN field.message ELSE message
        added == AddFieldData(start, IF at = NoField THEN field.message.last ELSE at, size, values)
        record == IF at = NoField THEN Append(said, Named(name, type)) ELSE said
    IN IF (at # NoField /\ message.cells[at].type # type) \/ (at = NoField /\ ~field.ok)
       THEN UNCHANGED kmessageVars
       ELSE /\ message' = added.message
            /\ said' = Recorded(record, name, SubSeq(values, 1, added.address))

AddTyped(name, type, value) ==
    AddData(name, type, IF type = String THEN StringLength[value] + 1 ELSE SizeOf[type], type # String, <<value>>)

AddArray(name, type, values) == AddData(name, type, SizeOf[type], TRUE, values)

AddField(name, type) ==
    LET field == NewField(message, name, type, IF type = String THEN -1 ELSE SizeOf[type])
    IN /\ FindField(message, name, Type) = NoField
       /\ field.ok
       /\ message' = field.message
       /\ said' = Append(said, Named(name, type))

\* AddElement and AddElements on a field that was looked up.
AddElements(name, values) ==
    LET at == FindField(message, name, Type)
        size == IF HasFixedElementSize(message.cells[at]) THEN message.cells[at].elementSize
                ELSE StringLength[values[1]] + 1
        added == AddFieldData(message, at, size, values)
    IN /\ at # NoField
       /\ message' = added.message
       /\ said' = Recorded(said, name, SubSeq(values, 1, added.address))

\* The first value of a field is replaced where there is one.
SetData(name, type, size, value) ==
    LET at == FindField(message, name, Type)
        header == message.cells[at]
    IN /\ message.inline \/ "readOnly" \notin message.flags
       /\ \/ at = NoField /\ AddData(name, type, size, TRUE, <<value>>)
          \/ /\ at # NoField /\ header.type = type /\ header.elementSize = size
             /\ header.elementCount = 0
             /\ AddData(name, type, size, TRUE, <<value>>)
          \/ /\ at # NoField /\ header.type = type /\ header.elementSize = size
             /\ header.elementCount > 0
             /\ message' = [message EXCEPT !.cells[Address(message, at, 0)].value = value]
             /\ said' = [i \in DOMAIN said |->
                            IF said[i].name = name THEN [said[i] EXCEPT !.values[1] = value] ELSE said[i]]

SetTyped(name, type, value) == SetData(name, type, SizeOf[type], value)

SetDeliveryInfo(token) ==
    /\ message' = [message EXCEPT !.replyToken = token]
    /\ UNCHANGED said

-----------------------------------------------------------------------------
(* Reading a message out of a buffer. *)

FieldAccepted(m, data) ==
    LET header == m.cells[data]
        remaining == m.size - data
    IN /\ remaining >= kFieldHeaderSize
       /\ header.fieldSize \in kFieldHeaderSize .. remaining
       /\ header.headerSize \in kFieldHeaderSize .. header.fieldSize
       /\ NameLength[header.name] \in 1 .. header.headerSize - kNameOffset - 1
       /\ ~HasFixedElementSize(header) =>
            \A i \in 0 .. header.elementCount - 1 :
                LET value == ValueHeader(m, data, i)
                IN /\ m.size - value >= kValueHeaderSize
                   /\ value + m.cells[value].length <= m.size
                   /\ value + m.cells[value].length - data <= header.fieldSize

\* The last field that is met, or -1 where there is none, or that the buffer is
\* not a message.
CheckFields(m) ==
    LET next(data) == Aligned(data + m.cells[data].fieldSize)
        from[data \in FirstFieldHeader .. m.size + kMessageBufferAlignment] ==
            IF data \notin DOMAIN m.cells \/ ~FieldAccepted(m, data) THEN [ok |-> FALSE, last |-> -1]
            ELSE IF next(data) >= m.size THEN [ok |-> TRUE, last |-> data]
            ELSE from[next(data)]
    IN IF FirstFieldHeader >= m.size THEN [ok |-> TRUE, last |-> -1] ELSE from[FirstFieldHeader]

\* A buffer that is not aligned is copied as one that is to be cloned.
InitFromBuffer(m, cloned) ==
    LET held == IF cloned THEN [m EXCEPT !.flags = (@ \ {"readOnly"}) \cup {"owns"}] ELSE m
        checked == CheckFields(held)
    IN IF held.capacity < kHeaderSize \/ held.size \notin kHeaderSize .. held.capacity \/ ~checked.ok
       THEN [ok |-> FALSE, message |-> UnsetMessage(held)]
       ELSE [ok |-> TRUE, message |-> [held EXCEPT !.last = checked.last]]

SetTo ==
    /\ message' = UnsetMessage(message)
    /\ said' = << >>

SetToBuffer(size) ==
    /\ message' = IF size < kHeaderSize THEN UnsetMessage(message)
                  ELSE InitBuffer([message EXCEPT !.inline = FALSE, !.capacity = size, !.flags = {}])
    /\ said' = << >>

\* The message as its receiver sets it up from the bytes that were sent.
SetToReceived(flags, cloned) ==
    LET sent == [message EXCEPT !.inline = FALSE, !.capacity = message.size, !.flags = flags]
        result == InitFromBuffer(sent, cloned)
    IN /\ message' = result.message
       /\ UNCHANGED said

-----------------------------------------------------------------------------
KMessageInit ==
    /\ message = UnsetMessage([inline |-> TRUE, flags |-> {}, capacity |-> 0, size |-> 0, last |-> 0,
                        replyToken |-> -1, cells |-> << >>])
    /\ said = << >>

Elements == FoldSeq(LAMBDA f, n : n + Len(f.values), 0, said)

KMessageStep ==
    \/ SetTo
    \/ \E size \in LentSize : SetToBuffer(size)
    \/ \E flags \in SUBSET {"owns", "readOnly"}, cloned \in BOOLEAN : SetToReceived(flags, cloned)
    \/ SetDeliveryInfo(1)
    \/ \E name \in FieldName, type \in Type :
         \/ AddField(name, type)
         \/ \E v \in Value :
              \/ Elements < MaxElements /\ AddTyped(name, type, v)
              \/ type # String /\ Elements < MaxElements /\ SetTyped(name, type, v)
              \/ type # String /\ Elements < MaxElements - 1 /\ \E w \in Value : AddArray(name, type, <<v, w>>)
    \/ \E name \in FieldName, v, w \in Value :
         /\ Elements < MaxElements - 1
         /\ FindField(message, name, Type) # NoField
         /\ AddElements(name, <<v, w>>)

-----------------------------------------------------------------------------
(* Properties. *)

\* Whatever is added, wherever the buffer comes from, and however often it is
\* moved, sent and read back: the fields are met in the order in which they were
\* added, every value that a caller was told is in is found under its name, type
\* and index and no other, the message lies within its buffer, and its own
\* check (_InitFromBuffer) accepts it with the same last field.
MessageReadsBack ==
    LET fields == Fields(message)
        checked == CheckFields(message)
    IN /\ message.size <= message.capacity
       /\ Len(fields) = Len(said)
       /\ \A i \in DOMAIN said :
            /\ message.cells[fields[i]].elementCount = Len(said[i].values)
            /\ \A type \in Type, n \in 0 .. MaxElements :
                 GetType(message, said[i].name, type, n, "none") =
                   IF type = said[i].type /\ n < Len(said[i].values) THEN said[i].values[n + 1] ELSE "none"
       /\ checked.ok /\ (checked.last = message.last \/ fields = << >>)
=============================================================================
