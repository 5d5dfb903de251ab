------------------------------ MODULE Messages -------------------------------
(***************************************************************************)
(* Payloads on their way from Handle::write at one end of a TCP connection *)
(* to onRead at the other: the queues of the Serializer                    *)
(* (src/src/Serializer.cpp), the framing of TestSerializer                 *)
(* (src/src/TestSerializer.cpp), the chunks and partial writes of writeCB  *)
(* and the reads of readCB (src/src/EventCallbacks.cpp).                   *)
(*                                                                         *)
(* One end writes and the other reads, each in the loop of its connection. *)
(* The close of a connection is one step here: it comes when the callback  *)
(* of the connection is not running, or from that callback; module         *)
(* Connection has its inside.  A write to a connection whose peer is gone  *)
(* is an error and no signal: the constructor of Manager has SIGPIPE       *)
(* ignored.                                                                *)
(***************************************************************************)
EXTENDS Naturals, Sequences, SequencesExt

CONSTANTS
  Messages,        (* payloads: sequences of characters                     *)
  MaxSent,         (* bound: the application writes so many payloads        *)
  ReadSize,        (* bufferSize                                            *)
  SocketSize       (* characters the sockets and the network hold           *)

ASSUME MessagesAssumption ==
  /\ \A m \in Messages : m \in Seq(ToSet(m) \ {"{", "}"})
  /\ MaxSent \in Nat
  /\ ReadSize \in Nat \ {0}
  /\ SocketSize \in Nat \ {0}

VARIABLES
  sent,            (* payloads the application has written (history)        *)
  buffers,         (* _buffers of the writing end                           *)
  writeEvent,      (* its _writeEvent is pending                            *)
  open,            (* the writing end is open                               *)
  writing,         (* where its writeCB is                                  *)
  chunk,           (* buf in writeCB                                        *)
  writeCount,      (* write_count                                           *)
  wire,            (* characters written and not read                       *)
  readerOpen,      (* the reading end is open                               *)
  reading,         (* where its readCB is                                   *)
  input,           (* buffer in readCB                                      *)
  arrived,         (* characters that have been read (history)              *)
  building,        (* building in deserialize                               *)
  currentPayload,  (* _currentPayload of the reading end                    *)
  payloads,        (* its _payloads                                         *)
  errors,          (* the length of its _errors                             *)
  received,        (* payloads onRead has been given (history)              *)
  reported         (* errors onConnectionEvent has been given (history)     *)

writer == <<sent, buffers, writeEvent, open, writing, chunk, writeCount>>
parser == <<building, currentPayload, payloads, errors>>
told   == <<received, reported>>
reader == <<readerOpen, reading, input, arrived, parser, told>>
vars   == <<writer, wire, reader>>

Init ==
  /\ sent = <<>>
  /\ buffers = <<>>
  /\ writeEvent = FALSE
  /\ open = TRUE
  /\ writing = "idle"
  /\ chunk = <<>>
  /\ writeCount = 0
  /\ wire = <<>>
  /\ readerOpen = TRUE
  /\ reading = "idle"
  /\ input = <<>>
  /\ arrived = <<>>
  /\ building = FALSE
  /\ currentPayload = <<>>
  /\ payloads = <<>>
  /\ errors = 0
  /\ received = <<>>
  /\ reported = 0

\* The queues of the Serializer, whose errors are only counted
pushBuffer(b)  == buffers' = Append(buffers, b)
bufferEmpty    == buffers = <<>>
getBuffer      == chunk' = Head(buffers) /\ buffers' = Tail(buffers)
pushPayload(p) == payloads' = Append(payloads, p)
payloadEmpty   == payloads = <<>>
getPayload     == received' = Append(received, Head(payloads)) /\ payloads' = Tail(payloads)
pushError      == errors' = errors + 1
errorEmpty     == errors = 0
getError       == errors' = errors - 1

\* serialize: a buffer with one chunk of just the length
Serialize(m) == <<"{">> \o m \o <<"}">>

-----------------------------------------------------------------------------
(* Faults: the definition each is named after, with one mistake in it.     *)

\* After a partial write the chunk is written from its start.
SendAgain(n) ==
  /\ writing = "send"
  /\ n <= Len(chunk) - writeCount
  /\ Len(wire) + n <= SocketSize
  /\ wire' = wire \o SubSeq(chunk, 1, n)
  /\ IF writeCount + n = Len(chunk)
     THEN writing' = "test" /\ chunk' = <<>> /\ writeCount' = 0
     ELSE writeCount' = writeCount + n /\ UNCHANGED <<writing, chunk>>
  /\ UNCHANGED <<sent, buffers, writeEvent, open, reader>>

\* The buffer is not deleted when the write fails.
SendFailsKeeping ==
  /\ writing = "send"
  /\ Len(wire) = SocketSize \/ ~readerOpen
  /\ open' = FALSE
  /\ writeEvent' = FALSE
  /\ writing' = "idle"
  /\ UNCHANGED <<sent, buffers, chunk, writeCount, wire, reader>>

\* The buffer is given up, the connection is not.
SendFailsOpen ==
  /\ writing = "send"
  /\ Len(wire) = SocketSize \/ ~readerOpen
  /\ writing' = "idle"
  /\ chunk' = <<>>
  /\ writeCount' = 0
  /\ UNCHANGED <<sent, buffers, writeEvent, open, wire, reader>>

\* One buffer for each write event
FinishAfterOne ==
  /\ writing = "test"
  /\ writing' = "idle"
  /\ UNCHANGED <<sent, buffers, writeEvent, open, chunk, writeCount, wire, reader>>

\* A new message does not clear what was left of the one before.
ParseKeeping ==
  /\ reading = "feed"
  /\ input # <<>>
  /\ LET c == Head(input)
     IN \/ /\ ~building /\ c = "{"
           /\ building' = TRUE
           /\ UNCHANGED <<currentPayload, payloads, errors>>
        \/ /\ ~building /\ c # "{"
           /\ pushError
           /\ UNCHANGED <<building, currentPayload, payloads>>
        \/ /\ building /\ c = "}"
           /\ pushPayload(currentPayload)
           /\ currentPayload' = <<>>
           /\ building' = FALSE
           /\ UNCHANGED errors
        \/ /\ building /\ c # "}"
           /\ currentPayload' = Append(currentPayload, c)
           /\ UNCHANGED <<building, payloads, errors>>
  /\ input' = Tail(input)
  /\ UNCHANGED <<writer, wire, readerOpen, reading, arrived, told>>

\* What is found between messages is passed over in silence.
ParseSilently ==
  /\ reading = "feed"
  /\ input # <<>>
  /\ LET c == Head(input)
     IN \/ /\ ~building
           /\ building' = (c = "{")
           /\ UNCHANGED <<currentPayload, payloads, errors>>
        \/ /\ building /\ c = "}"
           /\ pushPayload(currentPayload)
           /\ currentPayload' = <<>>
           /\ building' = FALSE
           /\ UNCHANGED errors
        \/ /\ building /\ c # "}"
           /\ currentPayload' = Append(currentPayload, c)
           /\ UNCHANGED <<building, payloads, errors>>
  /\ input' = Tail(input)
  /\ UNCHANGED <<writer, wire, readerOpen, reading, arrived, told>>

-----------------------------------------------------------------------------
(* The writing end                                                         *)

\* Connection::write, whether the connection is open or not
Write(m) ==
  /\ Len(sent) < MaxSent
  /\ sent' = Append(sent, m)
  /\ pushBuffer(Serialize(m))
  /\ writeEvent' = TRUE
  /\ UNCHANGED <<open, writing, chunk, writeCount, wire, reader>>

\* writeCB, when there is room or the peer is gone
StartWrite ==
  /\ writing = "idle"
  /\ writeEvent
  /\ open
  /\ Len(wire) < SocketSize \/ ~readerOpen
  /\ writeEvent' = FALSE
  /\ writing' = "test"
  /\ UNCHANGED <<sent, buffers, open, chunk, writeCount, wire, reader>>

\* bufferEmpty, getBuffer
NextBuffer ==
  /\ writing = "test"
  /\ ~bufferEmpty
  /\ getBuffer
  /\ writeCount' = 0
  /\ writing' = "send"
  /\ UNCHANGED <<sent, writeEvent, open, wire, reader>>

\* write takes n characters: all that is left, and the chunk is popped, or some.
Send(n) ==
  /\ writing = "send"
  /\ n <= Len(chunk) - writeCount
  /\ Len(wire) + n <= SocketSize
  /\ wire' = wire \o SubSeq(chunk, writeCount + 1, writeCount + n)
  /\ IF writeCount + n = Len(chunk)
     THEN writing' = "test" /\ chunk' = <<>> /\ writeCount' = 0
     ELSE writeCount' = writeCount + n /\ UNCHANGED <<writing, chunk>>
  /\ UNCHANGED <<sent, buffers, writeEvent, open, reader>>

\* EAGAIN, when there is no room, and an error, when the peer is gone, close the
\* connection; the rest of the chunk is deleted with its buffer.
SendFails ==
  /\ writing = "send"
  /\ Len(wire) = SocketSize \/ ~readerOpen
  /\ open' = FALSE
  /\ writeEvent' = FALSE
  /\ writing' = "idle"
  /\ chunk' = <<>>
  /\ writeCount' = 0
  /\ UNCHANGED <<sent, buffers, wire, reader>>

FinishWrite ==
  /\ writing = "test"
  /\ bufferEmpty
  /\ writing' = "idle"
  /\ UNCHANGED <<sent, buffers, writeEvent, open, chunk, writeCount, wire, reader>>

CloseWriter ==
  /\ writing = "idle"
  /\ open
  /\ open' = FALSE
  /\ writeEvent' = FALSE
  /\ UNCHANGED <<sent, buffers, writing, chunk, writeCount, wire, reader>>

-----------------------------------------------------------------------------
(* The reading end                                                         *)

\* readCB, when something has arrived, the peer is gone or the time is out
StartRead ==
  /\ reading = "idle"
  /\ readerOpen
  /\ reading' = "read"
  /\ UNCHANGED <<writer, wire, readerOpen, input, arrived, parser, told>>

\* read gives n characters.
Read(n) ==
  /\ reading = "read"
  /\ n <= Len(wire)
  /\ input' = input \o SubSeq(wire, 1, n)
  /\ arrived' = arrived \o SubSeq(wire, 1, n)
  /\ wire' = SubSeq(wire, n + 1, Len(wire))
  /\ UNCHANGED <<writer, readerOpen, reading, parser, told>>

\* EAGAIN: nothing is there, or not yet.
NothingToRead ==
  /\ reading = "read"
  /\ reading' = "feed"
  /\ UNCHANGED <<writer, wire, readerOpen, input, arrived, parser, told>>

\* The end of the file, when the peer has closed and all has been read
EndOfFile ==
  /\ reading = "read"
  /\ wire = <<>>
  /\ ~open
  /\ readerOpen' = FALSE
  /\ reading' = "feed"
  /\ UNCHANGED <<writer, wire, input, arrived, parser, told>>

\* The connection is reset: what was not read is lost.
ReadFails ==
  /\ reading = "read"
  /\ wire' = <<>>
  /\ readerOpen' = FALSE
  /\ reading' = "feed"
  /\ UNCHANGED <<writer, input, arrived, parser, told>>

\* deserialize, which gets what has been read, also when the connection is
\* closed: the next character ...
Parse ==
  /\ reading = "feed"
  /\ input # <<>>
  /\ LET c == Head(input)
     IN \/ /\ ~building /\ c = "{"
           /\ building' = TRUE
           /\ currentPayload' = <<>>
           /\ UNCHANGED <<payloads, errors>>
        \/ /\ ~building /\ c # "{"
           /\ pushError
           /\ UNCHANGED <<building, currentPayload, payloads>>
        \/ /\ building /\ c = "{"
           /\ pushError
           /\ currentPayload' = <<>>
           /\ UNCHANGED <<building, payloads>>
        \/ /\ building /\ c = "}"
           /\ pushPayload(currentPayload)
           /\ currentPayload' = <<>>
           /\ building' = FALSE
           /\ UNCHANGED errors
        \/ /\ building /\ c \notin {"{", "}"}
           /\ currentPayload' = Append(currentPayload, c)
           /\ UNCHANGED <<building, payloads, errors>>
  /\ input' = Tail(input)
  /\ UNCHANGED <<writer, wire, readerOpen, reading, arrived, told>>

\* ... and the end.  building is local to the call, _currentPayload is not.
Parsed ==
  /\ reading = "feed"
  /\ input = <<>>
  /\ building' = FALSE
  /\ reading' = "deliver"
  /\ UNCHANGED <<writer, wire, readerOpen, input, arrived, currentPayload, payloads, errors, told>>

\* getPayload, onRead
Deliver ==
  /\ reading = "deliver"
  /\ ~payloadEmpty
  /\ getPayload
  /\ UNCHANGED <<writer, wire, readerOpen, reading, input, arrived, building, currentPayload,
                 errors, reported>>

\* getError, onConnectionEvent
Report ==
  /\ reading = "deliver"
  /\ payloadEmpty
  /\ ~errorEmpty
  /\ getError
  /\ reported' = reported + 1
  /\ UNCHANGED <<writer, wire, readerOpen, reading, input, arrived, building, currentPayload,
                 payloads, received>>

FinishRead ==
  /\ reading = "deliver"
  /\ payloadEmpty
  /\ errorEmpty
  /\ reading' = "idle"
  /\ UNCHANGED <<writer, wire, readerOpen, input, arrived, parser, told>>

\* From another thread, or from onRead and onConnectionEvent
CloseReader ==
  /\ reading \in {"idle", "deliver"}
  /\ readerOpen
  /\ readerOpen' = FALSE
  /\ UNCHANGED <<writer, wire, reading, input, arrived, parser, told>>

-----------------------------------------------------------------------------
(* The system                                                              *)

WriteCallback ==
  \/ StartWrite \/ NextBuffer \/ FinishWrite
  \/ (\E n \in 1..SocketSize : Send(n)) \/ SendFails

Reads == \E n \in 1..ReadSize : Read(n)

ReadCallback ==
  \/ StartRead \/ Reads \/ NothingToRead \/ EndOfFile \/ ReadFails
  \/ Parse \/ Parsed \/ Deliver \/ Report \/ FinishRead

Application == (\E m \in Messages : Write(m)) \/ CloseWriter \/ CloseReader

Next == WriteCallback \/ ReadCallback \/ Application

Spec == Init /\ [][Next]_vars

\* Both loops run, and what has been written arrives: reads do not come back
\* empty for ever.
Fairness ==
  /\ SF_vars(WriteCallback)
  /\ WF_vars(ReadCallback)
  /\ SF_vars(Reads)

FairSpec == Spec /\ Fairness

-----------------------------------------------------------------------------
(* Properties                                                              *)

\* Characters as they were serialized
Stream == FlattenSeq([i \in DOMAIN sent |-> Serialize(sent[i])])

Unsent == SubSeq(chunk, writeCount + 1, Len(chunk)) \o FlattenSeq(buffers)

\* The characters of the payloads, and the two that frame them
Plain      == (UNION {ToSet(m) : m \in Messages}) \ {"{", "}"}
Characters == Plain \cup {"{", "}"}

\* Every variable has its type; buf is there while writeCB writes it, no longer.
TypeOK ==
  /\ sent \in Seq(Messages)
  /\ buffers \in Seq(Seq(Characters) \ {<<>>})
  /\ writeEvent \in BOOLEAN
  /\ open \in BOOLEAN
  /\ writing \in {"idle", "test", "send"}
  /\ chunk \in Seq(Characters)
  /\ writing = "send" <=> chunk # <<>>
  /\ writeCount \in 0..Len(chunk)
  /\ wire \in Seq(Characters)
  /\ readerOpen \in BOOLEAN
  /\ reading \in {"idle", "read", "feed", "deliver"}
  /\ input \in Seq(Characters)
  /\ input # <<>> => reading \in {"read", "feed"}
  /\ arrived \in Seq(Characters)
  /\ building \in BOOLEAN
  /\ building => reading = "feed"
  /\ currentPayload \in Seq(Characters)
  /\ payloads \in Seq(Seq(Characters))
  /\ errors \in Nat
  /\ received \in Seq(Seq(Characters))
  /\ reported \in Nat

\* However the writes and reads were cut up, what has been read is the beginning
\* of what was serialized: a buffer that was given up is followed by nothing.
\* While neither end has closed, the characters that were read, those on the
\* way and those yet to be written are all of it, each once and in order.
StreamKept ==
  /\ IsPrefix(arrived, Stream)
  /\ open /\ readerOpen => arrived \o wire \o Unsent = Stream

\* Each end of a message that was parsed has given a payload or an error.
LossReported ==
  Cardinality({i \in 1..(Len(arrived) - Len(input)) : arrived[i] = "}"})
    <= Len(payloads) + Len(received) + errors + reported

\* The reading application is given what the other wrote, in order and nothing
\* twice, with no two messages run into one.
DeliversInOrder == INSTANCE MessageChannel
InOrder == DeliversInOrder!Spec

\* For every payload written the other end is given a payload or an error, or
\* one of the ends closes.
NoSilentLoss ==
  \A n \in 1..MaxSent :
    Len(sent) >= n ~> (~open \/ ~readerOpen \/ Len(received) + reported >= n)

=============================================================================
