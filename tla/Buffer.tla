------------------------------- MODULE Buffer -------------------------------
(***************************************************************************)
(* The buffers messages are written to and read from: BasicBuffer and      *)
(* BinaryBuffer (utils/Buffer.h), and what Request and Package             *)
(* (core/Message.h) do with them.  The heap is a map from blocks to their  *)
(* cells; a pointer is a block and an offset, so that one into a block     *)
(* that has been freed can be told.  A cell holds one basic value, named   *)
(* by the buffer it was put into and its position there.                   *)
(*                                                                         *)
(* A buffer that has been moved from is only destroyed, as by its owners.  *)
(***************************************************************************)
EXTENDS Naturals, Sequences, FiniteSets

CONSTANTS
    Buffers,          \* the buffer objects of a process
    Blocks,           \* the blocks new can return
    NoBlock,          \* the block of nullptr
    Junk,             \* a cell nobody has written
    InitialCapacity,  \* _capacity of a new buffer, in cells
    MaxData           \* bound: values in a buffer

\* new does not fail: there is a block more than the buffers can hold.
ASSUME BufferAssumption ==
    /\ IsFiniteSet(Buffers) /\ IsFiniteSet(Blocks)
    /\ Cardinality(Blocks) > Cardinality(Buffers)
    /\ InitialCapacity \in Nat \ {0}
    /\ MaxData \in Nat
    /\ NoBlock \notin Blocks
    /\ Junk \notin Buffers \X (1 .. MaxData)

VARIABLES
    heap,     \* the allocated blocks
    life,     \* whether each object lives, or has been moved from
    buffer,   \* its members: _buffer, _cursor, _end, _capacity
    data,     \* history: the values it should hold
    nread,    \* history: how many of them have been read
    fault     \* what ended the process, or "no"

bufferVars == <<heap, life, buffer, data, nread, fault>>

Pointer(block, offset) == [block |-> block, at |-> offset]

Null == Pointer(NoBlock, 0)

NoBuffer == [start |-> Null, cursor |-> Null, end |-> Null, capacity |-> 0]

BufferInit ==
    /\ heap = [k \in {} |-> <<>>]
    /\ life = [b \in Buffers |-> "none"]
    /\ buffer = [b \in Buffers |-> NoBuffer]
    /\ data = [b \in Buffers |-> <<>>]
    /\ nread = [b \in Buffers |-> 0]
    /\ fault = "no"

\* A failed CHECK, or freeing what is not allocated.
Fault(what) == fault' = what /\ UNCHANGED <<heap, life, buffer, data, nread>>

\* What new returns: some block that is not allocated.
NewBlock(h) == CHOOSE k \in Blocks : k \notin DOMAIN h

\* The heap with block k of these cells, and without block k.
With(h, k, cells) == [x \in DOMAIN h \cup {k} |-> IF x = k THEN cells ELSE h[x]]
Without(h, k) == [x \in DOMAIN h \ {k} |-> h[x]]

JunkCells(n) == [i \in 1 .. n |-> Junk]

Size(buf) == buf.end.at - buf.start.at

-----------------------------------------------------------------------------
\* The object, the default constructor having been called.
Constructed(h) ==
    LET start == Pointer(NewBlock(h), 0) IN
    [start |-> start, cursor |-> start, end |-> start, capacity |-> InitialCapacity]

\* Mutant: the cursor is not moved to the new block.
ReserveKeepingCursor(h, buf, newcap) ==
    LET k == NewBlock(h)
        kept == SubSeq(h[buf.start.block], 1, Size(buf))
    IN  [buf  |-> [start |-> Pointer(k, 0), cursor |-> buf.cursor,
                   end |-> Pointer(k, Size(buf)), capacity |-> newcap],
         heap |-> With(Without(h, buf.start.block), k,
                       kept \o JunkCells(newcap - Len(kept)))]

\* reserve(newcap), for a newcap that exceeds the capacity.
Reserve(h, buf, newcap) ==
    LET k == NewBlock(h)
        kept == SubSeq(h[buf.start.block], 1, Size(buf))
    IN  [buf  |-> [start |-> Pointer(k, 0),
                   cursor |-> Pointer(k, buf.cursor.at - buf.start.at),
                   end |-> Pointer(k, Size(buf)), capacity |-> newcap],
         heap |-> With(Without(h, buf.start.block), k,
                       kept \o JunkCells(newcap - Len(kept)))]

Construct(b) ==
    /\ life[b] = "none"
    /\ life' = [life EXCEPT ![b] = "alive"]
    /\ buffer' = [buffer EXCEPT ![b] = Constructed(heap)]
    /\ heap' = With(heap, NewBlock(heap), JunkCells(InitialCapacity))
    /\ UNCHANGED <<data, nread, fault>>

\* operator<<, put_raw
PutRaw(b) ==
    LET buf == buffer[b]
        value == <<b, Len(data[b]) + 1>>
        grown == IF Size(buf) + 1 > buf.capacity
                 THEN Reserve(heap, buf, 2 * buf.capacity)
                 ELSE [buf |-> buf, heap |-> heap]
    IN  /\ life[b] = "alive"
        /\ Len(data[b]) < MaxData
        /\ heap' = [grown.heap EXCEPT ![grown.buf.end.block][grown.buf.end.at + 1] = value]
        /\ buffer' = [buffer EXCEPT ![b] = [grown.buf EXCEPT !.end.at = @ + 1]]
        /\ data' = [data EXCEPT ![b] = Append(@, value)]
        /\ UNCHANGED <<life, nread, fault>>

\* operator>>, get_raw, with its CHECK(!read_finished()).
GetRaw(b) ==
    /\ life[b] = "alive"
    /\ IF buffer[b].cursor = buffer[b].end
       THEN Fault("read finished")
       ELSE /\ buffer' = [buffer EXCEPT ![b].cursor.at = @ + 1]
            /\ nread' = [nread EXCEPT ![b] = @ + 1]
            /\ UNCHANGED <<heap, life, data, fault>>

ClearBuffer(b) ==
    /\ life[b] = "alive"
    /\ buffer' = [buffer EXCEPT ![b].cursor = buffer[b].start,
                                ![b].end = buffer[b].start]
    /\ data' = [data EXCEPT ![b] = <<>>]
    /\ nread' = [nread EXCEPT ![b] = 0]
    /\ UNCHANGED <<heap, life, fault>>

\* A Request is sent and another one made of its Package: the content of a
\* is copied, by way of the network, into the new buffer b with set, which
\* CHECKs that there is any.
Receive(a, b) ==
    LET size == Size(buffer[a])
        made == [buf |-> Constructed(heap),
                 heap |-> With(heap, NewBlock(heap), JunkCells(InitialCapacity))]
        room == IF size > InitialCapacity THEN Reserve(made.heap, made.buf, size) ELSE made
        k == room.buf.start.block
    IN  /\ life[a] = "alive" /\ life[b] = "none"
        /\ IF size = 0
           THEN Fault("empty content")
           ELSE /\ heap' = [room.heap EXCEPT ![k] =
                              [i \in DOMAIN @ |-> IF i <= size THEN heap[buffer[a].start.block][i]
                                                               ELSE @[i]]]
                /\ buffer' = [buffer EXCEPT ![b] =
                                [room.buf EXCEPT !.cursor = Pointer(k, 0), !.end = Pointer(k, size)]]
                /\ life' = [life EXCEPT ![b] = "alive"]
                /\ data' = [data EXCEPT ![b] = data[a]]
                /\ UNCHANGED <<nread, fault>>

\* Mutant: the moved buffer keeps its memory.
MoveConstructSharing(a, b) ==
    /\ life[a] = "alive" /\ life[b] = "none"
    /\ buffer' = [buffer EXCEPT ![b] = buffer[a]]
    /\ life' = [life EXCEPT ![a] = "moved", ![b] = "alive"]
    /\ data' = [data EXCEPT ![b] = data[a], ![a] = <<>>]
    /\ nread' = [nread EXCEPT ![b] = nread[a], ![a] = 0]
    /\ UNCHANGED <<heap, fault>>

\* BasicBuffer(BasicBuffer &&): the other one's _buffer is set to nullptr,
\* and clear takes its cursor and end there; its capacity stays.
MoveConstruct(a, b) ==
    /\ life[a] = "alive" /\ life[b] = "none"
    /\ buffer' = [buffer EXCEPT ![b] = buffer[a],
                                ![a] = [NoBuffer EXCEPT !.capacity = buffer[a].capacity]]
    /\ life' = [life EXCEPT ![a] = "moved", ![b] = "alive"]
    /\ data' = [data EXCEPT ![b] = data[a], ![a] = <<>>]
    /\ nread' = [nread EXCEPT ![b] = nread[a], ![a] = 0]
    /\ UNCHANGED <<heap, fault>>

\* ~BasicBuffer: free.
Destroy(b) ==
    LET k == buffer[b].start.block IN
    /\ life[b] # "none"
    /\ IF k # NoBlock /\ k \notin DOMAIN heap
       THEN Fault("double free")
       ELSE /\ heap' = Without(heap, k)
            /\ life' = [life EXCEPT ![b] = "none"]
            /\ buffer' = [buffer EXCEPT ![b] = NoBuffer]
            /\ data' = [data EXCEPT ![b] = <<>>]
            /\ nread' = [nread EXCEPT ![b] = 0]
            /\ UNCHANGED fault

BufferStep(b) ==
    \/ Construct(b) \/ PutRaw(b) \/ GetRaw(b) \/ ClearBuffer(b) \/ Destroy(b)
    \/ \E a \in Buffers : Receive(a, b) \/ MoveConstruct(a, b)

BufferNext == fault = "no" /\ \E b \in Buffers : BufferStep(b)

BufferSpec == BufferInit /\ [][BufferNext]_bufferVars

-----------------------------------------------------------------------------
BufferTypeOK ==
    /\ DOMAIN heap \subseteq Blocks
    /\ life \in [Buffers -> {"none", "alive", "moved"}]
    /\ \A b \in Buffers :
          /\ buffer[b].start.block \in Blocks \cup {NoBlock}
          /\ buffer[b].capacity \in Nat
          /\ nread[b] \in 0 .. Len(data[b])
          /\ Len(data[b]) <= MaxData
    /\ fault \in {"no", "read finished", "empty content", "double free"}

(***************************************************************************)
(* A buffer holds what was put into it, and goes on being read where it    *)
(* was read to, whatever has happened to it since: it was moved to a       *)
(* larger block while it was being read (reserve, Buffer.h:127-142), moved *)
(* to another object, cleared and written again, or sent as the content of *)
(* a request.  Its three pointers stay in one block, within the capacity.  *)
(***************************************************************************)
BufferReadsBack ==
    \A b \in Buffers : life[b] = "alive" =>
       LET buf == buffer[b] IN
       /\ buf.start.block \in DOMAIN heap
       /\ buf.cursor = Pointer(buf.start.block, nread[b])
       /\ buf.end = Pointer(buf.start.block, Len(data[b]))
       /\ Len(data[b]) <= buf.capacity
       /\ buf.capacity = Len(heap[buf.start.block])
       /\ SubSeq(heap[buf.start.block], 1, Len(data[b])) = data[b]

(***************************************************************************)
(* Buffers do not share memory, none is freed twice and none is lost: each *)
(* allocated block belongs to one living buffer, also after one was moved  *)
(* from or has grown (Buffer.h:23-28, 59-62, 112-119).                     *)
(***************************************************************************)
BuffersApart ==
    /\ fault # "double free"
    /\ DOMAIN heap = {buffer[b].start.block : b \in Buffers} \ {NoBlock}
    /\ \A a, b \in Buffers :
          a # b /\ buffer[a].start # Null => buffer[a].start.block # buffer[b].start.block
=============================================================================
