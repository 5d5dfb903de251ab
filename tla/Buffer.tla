------------------------------- MODULE Buffer -------------------------------
(***************************************************************************)
(* Buffer (src/src/Buffer.cpp, src/inc/Buffer.h): the text of a message in *)
(* a linked list of chunks, between a socket and a Serializer.             *)
(*                                                                         *)
(* The heap maps the address of an allocated chunk to the chunk.  A push   *)
(* or a copy is a loop: each turn is a step, and so is each call of        *)
(* allocate.  One thread at a time uses a buffer.                          *)
(***************************************************************************)
EXTENDS Integers, Sequences, FiniteSets, SequencesExt

CONSTANTS
  Buffers,     (* Buffer objects                                            *)
  NoBuffer,
  Chunks,      (* addresses chunks can be allocated at                      *)
  Null,        (* nullptr                                                   *)
  Chars,       (* characters                                                *)
  Junk,        (* what memory that has never been written holds             *)
  ChunkSizes,  (* _maxChunkSize of the buffers that are made                *)
  MaxText,     (* bound on the characters in a buffer                       *)
  Moving       (* the program moves buffers with text to new ones           *)

ASSUME BufferAssumption ==
  /\ NoBuffer \notin Buffers
  /\ Null \notin Chunks
  /\ Junk \notin Chars
  /\ IsFiniteSet(Chunks)
  /\ ChunkSizes \subseteq Nat \ {0}
  /\ MaxText \in Nat
  /\ Moving \in BOOLEAN

VARIABLES
  heap,          (* the allocated chunks                                    *)
  alive,         (* buffers that have been constructed                      *)
  start,         (* _start                                                  *)
  finish,        (* _finish                                                 *)
  maxChunkSize,  (* _maxChunkSize                                           *)
  text,          (* what the buffer should hold                             *)
  copies,        (* buffers whose text came by a copy, in part at least     *)
  pc,            (* the loop that runs, or "grow" when it calls allocate    *)
  op,            (* the loop allocate returns to                            *)
  target,        (* the buffer being changed                                *)
  rest,          (* what a push has not stored yet                          *)
  current        (* the chunk a copy has come to                            *)

list  == <<heap, start, finish>>
loop  == <<pc, op, target, rest, current>>
ghost == <<text, copies>>
vars  == <<list, alive, maxChunkSize, ghost, loop>>
Loops == {"char", "string", "stream", "badStream", "copy"}
Texts == UNION {[1 .. n -> Chars] : n \in 0 .. MaxText}

-----------------------------------------------------------------------------
(* Lists                                                                   *)

EmptyChunk(n) == [capacity |-> n, size |-> 0, next |-> Null, data |-> <<>>]
FullChunk(s)  == [capacity |-> Len(s), size |-> Len(s), next |-> Null, data |-> s]

Follow(c) == IF c \in DOMAIN heap THEN heap[c].next ELSE Null

\* The addresses met on the way from _start
Chain(b) ==
  LET node[k \in 1 .. Cardinality(Chunks)] == IF k = 1 THEN start[b] ELSE Follow(node[k - 1])
  IN SubSeq(node, 1, Cardinality({k \in DOMAIN node : node[k] # Null}))

Reach(b) == ToSet(Chain(b))

\* getString
Contents(b) ==
  FlattenSeq([k \in DOMAIN Chain(b) |-> SubSeq(heap[Chain(b)[k]].data, 1, heap[Chain(b)[k]].size)])

\* The chunk is put at the end of b's list.
Link(b, c, chunk) ==
  /\ heap' = [x \in DOMAIN heap \cup {c} |->
                CASE x = c                               -> chunk
                  [] x = finish[b] /\ start[b] # Null    -> [heap[x] EXCEPT !.next = c]
                  [] OTHER                               -> heap[x]]
  /\ start' = [start EXCEPT ![b] = IF @ = Null THEN c ELSE @]
  /\ finish' = [finish EXCEPT ![b] = c]

Without(chunks) == [x \in DOMAIN heap \ chunks |-> heap[x]]
Room(b)         == heap[finish[b]].capacity - heap[finish[b]].size

\* s is stored behind what the last chunk holds.
Store(b, s) ==
  LET last == heap[finish[b]]
  IN heap' = [heap EXCEPT ![finish[b]] =
                [last EXCEPT !.size = last.size + Len(s),
                             !.data = SubSeq(last.data, 1, last.size) \o s]]

\* A fault: ++_position > _chunk->size
IncrementLate(i) ==
  IF i.position + 1 > heap[i.chunk].size
    THEN [chunk |-> heap[i.chunk].next, position |-> 0]
    ELSE [i EXCEPT !.position = @ + 1]

\* Iterator::increment: from the last character of a chunk to the next chunk.
Increment(i) ==
  IF i.position + 1 >= heap[i.chunk].size
    THEN [chunk |-> heap[i.chunk].next, position |-> 0]
    ELSE [i EXCEPT !.position = @ + 1]

\* Iterator::operator*, which reads the memory whatever the chunk's size is.
Character(i) ==
  IF i.position < Len(heap[i.chunk].data) THEN heap[i.chunk].data[i.position + 1] ELSE Junk

\* for ( it = getIterator(); it; ++it ) ... *it
Iterated(b) ==
  LET it[k \in 1 .. MaxText + Cardinality(Chunks)] ==
        IF k = 1 THEN [chunk |-> start[b], position |-> 0]
        ELSE IF it[k - 1].chunk = Null THEN it[k - 1]
        ELSE Increment(it[k - 1])
  IN [k \in 1 .. Cardinality({k \in DOMAIN it : it[k].chunk # Null}) |-> Character(it[k])]

Init ==
  /\ heap = <<>>
  /\ alive = {}
  /\ start = [b \in Buffers |-> Null]
  /\ finish = [b \in Buffers |-> Null]
  /\ maxChunkSize = [b \in Buffers |-> 0]
  /\ text = [b \in Buffers |-> <<>>]
  /\ copies = {}
  /\ pc = "idle"
  /\ op = "idle"
  /\ target = NoBuffer
  /\ rest = <<>>
  /\ current = Null

Idle == pc = "idle"

End ==
  /\ pc' = "idle"
  /\ op' = "idle"
  /\ target' = NoBuffer
  /\ rest' = <<>>
  /\ current' = Null

Grow ==
  /\ pc' = "grow"
  /\ UNCHANGED <<op, target, current>>

\* A copy starts over with an empty list.  There is memory for all of it: that
\* new throws in the middle of a copy is left out.
Copy(b, a) ==
  /\ Cardinality(Chunks \ DOMAIN heap) >= Len(Chain(a))
  /\ pc' = "copy"
  /\ op' = "copy"
  /\ target' = b
  /\ text' = [text EXCEPT ![b] = text[a]]
  /\ copies' = copies \cup {b}
  /\ maxChunkSize' = [maxChunkSize EXCEPT ![b] = maxChunkSize[a]]
  /\ start' = [start EXCEPT ![b] = Null]
  /\ finish' = [finish EXCEPT ![b] = Null]
  /\ current' = start'[a]
  /\ UNCHANGED rest

-----------------------------------------------------------------------------
(* Faults: the action each is named after, with one mistake in it.         *)

\* No clear
MoveAssignLeaks(b, a) ==
  /\ Idle
  /\ {a, b} \subseteq alive /\ a # b
  /\ maxChunkSize' = [maxChunkSize EXCEPT ![b] = maxChunkSize[a]]
  /\ start' = [start EXCEPT ![b] = start[a], ![a] = Null]
  /\ finish' = [finish EXCEPT ![b] = finish[a], ![a] = Null]
  /\ text' = [text EXCEPT ![b] = text[a], ![a] = <<>>]
  /\ copies' = IF a \in copies THEN (copies \ {a}) \cup {b} ELSE copies \ {b}
  /\ UNCHANGED <<heap, alive, loop>>

\* _finish is not taken over.
MoveAssignStart(b, a) ==
  /\ Idle
  /\ {a, b} \subseteq alive /\ a # b
  /\ heap' = Without(Reach(b))
  /\ maxChunkSize' = [maxChunkSize EXCEPT ![b] = maxChunkSize[a]]
  /\ start' = [start EXCEPT ![b] = start[a], ![a] = Null]
  /\ text' = [text EXCEPT ![b] = text[a], ![a] = <<>>]
  /\ copies' = IF a \in copies THEN (copies \ {a}) \cup {b} ELSE copies \ {b}
  /\ UNCHANGED <<finish, alive, loop>>

\* The room in the last chunk is not looked at.
StoreCharUnchecked ==
  /\ pc = "char"
  /\ Store(target, rest)
  /\ End
  /\ UNCHANGED <<start, finish, alive, maxChunkSize, ghost>>

\* string_start is not advanced.
StoreStringAgain ==
  /\ pc = "string"
  /\ LET n == Room(target)
     IN \/ /\ Len(rest) > n
           /\ Store(target, SubSeq(rest, 1, n))
           /\ rest' = SubSeq(rest, 1, Len(rest) - n)
           /\ Grow
        \/ /\ Len(rest) <= n
           /\ Store(target, rest)
           /\ End
  /\ UNCHANGED <<start, finish, alive, maxChunkSize, ghost>>

-----------------------------------------------------------------------------
(* Construction, destruction, and what takes no loop                       *)

Construct(b, n) ==
  /\ Idle
  /\ b \notin alive
  /\ alive' = alive \cup {b}
  /\ maxChunkSize' = [maxChunkSize EXCEPT ![b] = n]
  /\ start' = [start EXCEPT ![b] = Null]
  /\ finish' = [finish EXCEPT ![b] = Null]
  /\ text' = [text EXCEPT ![b] = <<>>]
  /\ copies' = copies \ {b}
  /\ UNCHANGED <<heap, loop>>

\* clear deletes the chunks and leaves _finish as it was.
Clear(b) ==
  /\ Idle
  /\ b \in alive
  /\ heap' = Without(Reach(b))
  /\ start' = [start EXCEPT ![b] = Null]
  /\ text' = [text EXCEPT ![b] = <<>>]
  /\ copies' = copies \ {b}
  /\ UNCHANGED <<finish, alive, maxChunkSize, loop>>

Destroy(b) ==
  /\ Idle
  /\ b \in alive
  /\ heap' = Without(Reach(b))
  /\ alive' = alive \ {b}
  /\ start' = [start EXCEPT ![b] = Null]
  /\ text' = [text EXCEPT ![b] = <<>>]
  /\ copies' = copies \ {b}
  /\ UNCHANGED <<finish, maxChunkSize, loop>>

PopChunk(b) ==
  /\ Idle
  /\ b \in alive
  /\ start[b] # Null
  /\ heap' = Without({start[b]})
  /\ start' = [start EXCEPT ![b] = heap[@].next]
  /\ text' = [text EXCEPT ![b] = SubSeq(@, heap[start[b]].size + 1, Len(@))]
  /\ UNCHANGED <<copies, finish, alive, maxChunkSize, loop>>

\* readCB gives the buffer the characters it has read.
PushChunk(b, s) ==
  /\ Idle
  /\ b \in alive
  /\ Len(text[b] \o s) <= MaxText
  /\ \E c \in Chunks \ DOMAIN heap : Link(b, c, FullChunk(s))
  /\ text' = [text EXCEPT ![b] = @ \o s]
  /\ UNCHANGED <<copies, alive, maxChunkSize, loop>>

\* operator=( Buffer&& ), from another buffer
MoveAssign(b, a) ==
  /\ Idle
  /\ {a, b} \subseteq alive /\ a # b
  /\ heap' = Without(Reach(b))
  /\ maxChunkSize' = [maxChunkSize EXCEPT ![b] = maxChunkSize[a]]
  /\ start' = [start EXCEPT ![b] = start[a], ![a] = Null]
  /\ finish' = [finish EXCEPT ![b] = finish[a], ![a] = Null]
  /\ text' = [text EXCEPT ![b] = text[a], ![a] = <<>>]
  /\ copies' = IF a \in copies THEN (copies \ {a}) \cup {b} ELSE copies \ {b}
  /\ UNCHANGED <<alive, loop>>

\* Buffer( Buffer&& ) = default: each member is copied.
MoveConstruct(b, a) ==
  /\ Moving \/ start[a] = Null
  /\ Idle
  /\ a \in alive /\ b \notin alive
  /\ alive' = alive \cup {b}
  /\ maxChunkSize' = [maxChunkSize EXCEPT ![b] = maxChunkSize[a]]
  /\ start' = [start EXCEPT ![b] = start[a]]
  /\ finish' = [finish EXCEPT ![b] = finish[a]]
  /\ text' = [text EXCEPT ![b] = text[a], ![a] = <<>>]
  /\ copies' = IF a \in copies THEN (copies \ {a}) \cup {b} ELSE copies \ {b}
  /\ UNCHANGED <<heap, loop>>

-----------------------------------------------------------------------------
(* allocate, and the pushes that call it                                   *)

\* Every push makes sure of a chunk before its loop.
Begin(b, o, s) ==
  /\ Idle
  /\ b \in alive
  /\ Len(text[b] \o s) <= MaxText
  /\ pc' = IF start[b] = Null THEN "grow" ELSE o
  /\ op' = o
  /\ target' = b
  /\ rest' = s
  /\ text' = [text EXCEPT ![b] = @ \o s]
  /\ UNCHANGED <<copies, list, alive, maxChunkSize, current>>

PushChar(b, c)   == Begin(b, "char", <<c>>)
PushString(b, s) == Begin(b, "string", s)

\* A stream that is not good at the call is not read.
PushStream(b, s) == Begin(b, "stream", s) \/ Begin(b, "badStream", <<>>)

Allocate ==
  /\ pc = "grow"
  /\ \E c \in Chunks \ DOMAIN heap : Link(target, c, EmptyChunk(maxChunkSize[target]))
  /\ pc' = op
  /\ UNCHANGED <<alive, maxChunkSize, ghost, op, target, rest, current>>

\* new throws; what the push has stored so far stays.
AllocateFails ==
  /\ pc = "grow"
  /\ DOMAIN heap = Chunks
  /\ text' = [text EXCEPT ![target] = SubSeq(@, 1, Len(@) - Len(rest))]
  /\ End
  /\ UNCHANGED <<copies, list, alive, maxChunkSize>>

StoreChar ==
  /\ pc = "char"
  /\ \/ /\ Room(target) = 0
        /\ Grow
        /\ UNCHANGED <<heap, rest>>
     \/ /\ Room(target) # 0
        /\ Store(target, rest)
        /\ End
  /\ UNCHANGED <<start, finish, alive, maxChunkSize, ghost>>

StoreString ==
  /\ pc = "string"
  /\ LET n == Room(target)
     IN \/ /\ Len(rest) > n
           /\ Store(target, SubSeq(rest, 1, n))
           /\ rest' = SubSeq(rest, n + 1, Len(rest))
           /\ Grow
        \/ /\ Len(rest) <= n
           /\ Store(target, rest)
           /\ End
  /\ UNCHANGED <<start, finish, alive, maxChunkSize, ghost>>

\* read reaches the end of the stream only when it asks for more than there is.
StoreStream ==
  /\ pc = "stream"
  /\ LET n == Room(target)
     IN \/ /\ Len(rest) >= n
           /\ Store(target, SubSeq(rest, 1, n))
           /\ rest' = SubSeq(rest, n + 1, Len(rest))
           /\ Grow
        \/ /\ Len(rest) < n
           /\ Store(target, rest)
           /\ End
  /\ UNCHANGED <<start, finish, alive, maxChunkSize, ghost>>

StoreNothing ==
  /\ pc = "badStream"
  /\ End
  /\ UNCHANGED <<list, alive, maxChunkSize, ghost>>

-----------------------------------------------------------------------------
(* Copies                                                                  *)

CopyConstruct(b, a) ==
  /\ Idle
  /\ a \in alive /\ b \notin alive
  /\ alive' = alive \cup {b}
  /\ Copy(b, a)
  /\ UNCHANGED heap

\* operator=( const Buffer& ), of a buffer to itself as well
CopyAssign(b, a) ==
  /\ Idle
  /\ {a, b} \subseteq alive
  /\ heap' = Without(Reach(b))
  /\ Copy(b, a)
  /\ UNCHANGED alive

\* The characters are copied; size is not.
CopyChunk ==
  /\ pc = "copy"
  /\ current # Null
  /\ LET from == heap[current]
     IN /\ \E c \in Chunks \ DOMAIN heap :
             Link(target, c, [EmptyChunk(from.capacity) EXCEPT !.data = SubSeq(from.data, 1, from.size)])
        /\ current' = from.next
  /\ UNCHANGED <<alive, maxChunkSize, ghost, pc, op, target, rest>>

CopyEnds ==
  /\ pc = "copy"
  /\ current = Null
  /\ End
  /\ UNCHANGED <<list, alive, maxChunkSize, ghost>>

-----------------------------------------------------------------------------
(* The system                                                              *)

Next ==
  \/ \E b \in Buffers :
       \/ \E n \in ChunkSizes : Construct(b, n)
       \/ Clear(b) \/ Destroy(b) \/ PopChunk(b)
       \/ \E c \in Chars : PushChar(b, c)
       \/ \E s \in Texts : PushChunk(b, s) \/ PushString(b, s) \/ PushStream(b, s)
       \/ \E a \in Buffers :
            MoveAssign(b, a) \/ MoveConstruct(b, a) \/ CopyConstruct(b, a) \/ CopyAssign(b, a)
  \/ Allocate \/ AllocateFails
  \/ StoreChar \/ StoreString \/ StoreStream \/ StoreNothing
  \/ CopyChunk \/ CopyEnds

Spec == Init /\ [][Next]_vars

-----------------------------------------------------------------------------
(* Properties                                                              *)

Chunk == [capacity : Nat, size : Nat, next : Chunks \cup {Null}, data : Seq(Chars)]

\* Every variable has its type, and no chunk has been written past its end.
TypeOK ==
  /\ DOMAIN heap \subseteq Chunks
  /\ heap \in [DOMAIN heap -> Chunk]
  /\ \A c \in DOMAIN heap :
       /\ heap[c].size <= Len(heap[c].data)
       /\ Len(heap[c].data) <= heap[c].capacity
  /\ alive \subseteq Buffers
  /\ start \in [Buffers -> Chunks \cup {Null}]
  /\ finish \in [Buffers -> Chunks \cup {Null}]
  /\ maxChunkSize \in [Buffers -> ChunkSizes \cup {0}]
  /\ text \in [Buffers -> Texts]
  /\ copies \subseteq alive
  /\ pc \in Loops \cup {"idle", "grow"}
  /\ op \in Loops \cup {"idle"}
  /\ target \in Buffers \cup {NoBuffer}
  /\ rest \in Texts
  /\ current \in Chunks \cup {Null}

\* Every allocated chunk is in the list of one buffer, once, and the lists have
\* no other chunks: none is leaked, freed twice or used after it is freed.
OneOwner ==
  /\ DOMAIN heap = UNION {Reach(b) : b \in alive}
  /\ \A b \in alive : IsInjective(Chain(b))
  /\ \A a, b \in alive : a # b => Reach(a) \cap Reach(b) = {}

\* _finish, where the next push goes, is the last chunk of the list, also after
\* clear and popChunk, which leave it dangling when the list becomes empty.
FinishIsLast == \A b \in alive : start[b] # Null => finish[b] = Last(Chain(b))

\* A buffer holds what was put into it, in order, less what popChunk took; in
\* the middle of a push the part already stored is there.
HoldsText ==
  \A b \in alive \ copies : Contents(b) \o (IF b = target THEN rest ELSE <<>>) = text[b]

\* A copy holds the text of the original.
CopiesHoldText == Idle => \A b \in alive : Contents(b) = text[b]

\* Following the iterator, as a deserializer does, gives the text, if there is
\* no empty chunk in the list.
IteratorReadsText ==
  \A b \in alive :
    (\A c \in Reach(b) : heap[c].size > 0) => Iterated(b) = Contents(b)

=============================================================================
