--------------------------- MODULE MessagesProofs ---------------------------
(***************************************************************************)
(* The safety properties of Messages, proved for any payloads without the  *)
(* characters that frame them, any number of them, and whatever the sizes  *)
(* of the reads and of the sockets.                                        *)
(*                                                                         *)
(* The argument has four parts, each inductive with those before it:       *)
(*   TypeOK    the types, with what each callback has in hand and when     *)
(*   OnTheWay  what was read is the beginning of what was serialized, and  *)
(*             while no end has closed the rest is on the wire or queued   *)
(*   Unparsed  deserialize has in hand the end of what was read, so that   *)
(*             the next character it takes is the first not parsed         *)
(*   Framed    deserialize stands in the message the stream says it does;  *)
(*             what it builds is that message's beginning                  *)
(* The last gives the refinement: what onRead is given are the payloads    *)
(* written, in order, none twice and no two run into one.                  *)
(***************************************************************************)
EXTENDS Messages, SequenceLemmas, FiniteSetTheorems

-----------------------------------------------------------------------------
(* What the variables hold                                                 *)

\* A payload has none of the characters that frame it.
LEMMA PayloadPlain ==
  ASSUME NEW m \in Messages
  PROVE  m \in Seq(Plain)
<1>1. ToSet(m) \ {"{", "}"} \subseteq Plain
  BY DEF Plain
<1>2. m \in Seq(ToSet(m) \ {"{", "}"})
  BY MessagesAssumption DEF MessagesAssumption
<1> QED BY <1>1, <1>2, SeqMonotonic

\* What serialize makes of a payload
LEMMA SerializeForm ==
  ASSUME NEW m \in Messages
  PROVE  /\ Serialize(m) \in Seq(Characters) \ {<<>>}
         /\ Len(m) \in Nat
         /\ Len(Serialize(m)) = Len(m) + 2
         /\ Serialize(m)[1] = "{"
         /\ \A i \in 1..Len(m) : Serialize(m)[i + 1] = m[i] /\ m[i] \in Plain
         /\ Serialize(m)[Len(m) + 2] = "}"
<1> DEFINE a == "{"
           b == "}"
           t == <<a>> \o m \o <<b>>
<1>1. m \in Seq(Plain) /\ m \in Seq(Characters)
  BY PayloadPlain, SeqMonotonic DEF Characters
<1>2. a \in Characters /\ b \in Characters
  BY DEF Characters
<1> HIDE DEF a, b
<1>3. /\ t \in Seq(Characters)
      /\ t # <<>>
      /\ Len(m) \in Nat
      /\ Len(t) = Len(m) + 2
      /\ t[1] = a
      /\ \A i \in 1..Len(m) : t[i + 1] = m[i]
      /\ t[Len(m) + 2] = b
  BY <1>1, <1>2
<1>4. Serialize(m) = t
  BY DEF Serialize, a, b
<1> HIDE DEF t
<1>5. \A i \in 1..Len(m) : m[i] \in Plain
  BY <1>1, ElementOfSeq
<1> QED BY <1>3, <1>4, <1>5 DEF a, b

\* Queues and buffers hold what they are made for, and nothing is in hand that
\* the code has let go of.
LEMMA TypeStep ==
  ASSUME TypeOK, [Next]_vars
  PROVE  TypeOK'
<1>1. ASSUME NEW m \in Messages, Write(m) PROVE TypeOK'
  <2>1. Serialize(m) \in Seq(Characters) \ {<<>>}
    BY SerializeForm
  <2>2. sent' \in Seq(Messages)
    <3>1. sent \in Seq(Messages) /\ sent' = Append(sent, m)
      BY <1>1 DEF Write, TypeOK
    <3> QED BY <3>1
  <2>3. buffers' \in Seq(Seq(Characters) \ {<<>>})
    <3>1. buffers \in Seq(Seq(Characters) \ {<<>>}) /\ buffers' = Append(buffers, Serialize(m))
      BY <1>1 DEF Write, TypeOK, pushBuffer
    <3> QED BY <2>1, <3>1, AppendProperties
  <2> QED BY <1>1, <2>2, <2>3 DEF Write, TypeOK, reader, parser, told
<1>2. CASE StartWrite
  BY <1>2 DEF StartWrite, TypeOK, writer, reader, parser, told
<1>3. CASE NextBuffer
  <2>1. /\ buffers # <<>> /\ buffers \in Seq(Seq(Characters) \ {<<>>})
        /\ chunk' = Head(buffers) /\ buffers' = Tail(buffers)
    BY <1>3 DEF NextBuffer, bufferEmpty, getBuffer, TypeOK
  <2>2. chunk' \in Seq(Characters) \ {<<>>} /\ buffers' \in Seq(Seq(Characters) \ {<<>>})
    BY <2>1, HeadTailProperties
  <2>3. 0 \in 0..Len(chunk')
    BY <2>2, LenProperties
  <2> QED BY <1>3, <2>2, <2>3 DEF NextBuffer, TypeOK, reader, parser, told
<1>4. ASSUME NEW n \in 1..SocketSize, Send(n) PROVE TypeOK'
  <2>1. /\ chunk \in Seq(Characters) /\ wire \in Seq(Characters)
        /\ writeCount \in 0..Len(chunk) /\ n <= Len(chunk) - writeCount
        /\ wire' = wire \o SubSeq(chunk, writeCount + 1, writeCount + n)
    BY <1>4 DEF Send, TypeOK
  <2>2. wire' \in Seq(Characters)
    BY <2>1
  <2>3. CASE writeCount + n = Len(chunk)
    <3>1. chunk' = <<>> /\ writeCount' = 0 /\ writing' = "test"
      BY <1>4, <2>3 DEF Send
    <3>2. <<>> \in Seq(Characters) /\ 0 \in 0..Len(<<>>)
      OBVIOUS
    <3> QED BY <1>4, <2>2, <3>1, <3>2 DEF Send, TypeOK, reader, parser, told
  <2>4. CASE writeCount + n # Len(chunk)
    <3>1. chunk' = chunk /\ writeCount' = writeCount + n /\ writing' = writing
      BY <1>4, <2>4 DEF Send
    <3>2. writeCount + n \in 0..Len(chunk)
      BY <2>1, LenProperties
    <3> QED BY <1>4, <2>2, <3>1, <3>2 DEF Send, TypeOK, reader, parser, told
  <2> QED BY <2>3, <2>4
<1>5. CASE SendFails
  <2>1. <<>> \in Seq(Characters) /\ 0 \in 0..Len(<<>>)
    OBVIOUS
  <2> QED BY <1>5, <2>1 DEF SendFails, TypeOK, reader, parser, told
<1>6. CASE FinishWrite
  BY <1>6 DEF FinishWrite, TypeOK, writer, reader, parser, told
<1>7. CASE CloseWriter
  BY <1>7 DEF CloseWriter, TypeOK, writer, reader, parser, told
<1>8. CASE StartRead
  BY <1>8 DEF StartRead, TypeOK, writer, reader, parser, told
<1>9. ASSUME NEW n \in 1..ReadSize, Read(n) PROVE TypeOK'
  <2>1. /\ wire \in Seq(Characters) /\ input \in Seq(Characters) /\ arrived \in Seq(Characters)
        /\ n <= Len(wire)
        /\ input' = input \o SubSeq(wire, 1, n)
        /\ arrived' = arrived \o SubSeq(wire, 1, n)
        /\ wire' = SubSeq(wire, n + 1, Len(wire))
    BY <1>9 DEF Read, TypeOK
  <2>2. wire' \in Seq(Characters) /\ input' \in Seq(Characters) /\ arrived' \in Seq(Characters)
    BY <2>1
  <2>3. reading = "read"
    BY <1>9 DEF Read
  <2> QED BY <1>9, <2>2, <2>3 DEF Read, TypeOK, writer, parser, told
<1>10. CASE NothingToRead
  BY <1>10 DEF NothingToRead, TypeOK, writer, reader, parser, told
<1>11. CASE EndOfFile
  BY <1>11 DEF EndOfFile, TypeOK, writer, reader, parser, told
<1>12. CASE ReadFails
  <2>1. <<>> \in Seq(Characters)
    OBVIOUS
  <2> QED BY <1>12, <2>1 DEF ReadFails, TypeOK, writer, parser, told
<1>13. CASE Parse
  <2> DEFINE c == Head(input)
  <2>1. /\ input \in Seq(Characters) /\ input # <<>> /\ input' = Tail(input)
        /\ currentPayload \in Seq(Characters) /\ payloads \in Seq(Seq(Characters)) /\ errors \in Nat
    BY <1>13 DEF Parse, TypeOK
  <2>2. c \in Characters /\ input' \in Seq(Characters)
    BY <2>1, HeadTailProperties
  <2>3. Append(currentPayload, c) \in Seq(Characters) /\ <<>> \in Seq(Characters)
    BY <2>1, <2>2, AppendProperties
  <2>4. Append(payloads, currentPayload) \in Seq(Seq(Characters)) /\ errors + 1 \in Nat
    BY <2>1, AppendProperties
  <2>5. /\ currentPayload' \in {currentPayload, <<>>, Append(currentPayload, c)}
        /\ payloads' \in {payloads, Append(payloads, currentPayload)}
        /\ errors' \in {errors, errors + 1}
        /\ building' \in {building, TRUE, FALSE}
    BY <1>13 DEF Parse, pushError, pushPayload
  <2>6. reading = "feed" /\ building' \in BOOLEAN
    BY <1>13, <2>5 DEF Parse, TypeOK
  <2>7. /\ currentPayload' \in Seq(Characters)
        /\ payloads' \in Seq(Seq(Characters))
        /\ errors' \in Nat
    BY <2>1, <2>3, <2>4, <2>5
  <2> QED BY <1>13, <2>2, <2>6, <2>7 DEF Parse, TypeOK, writer, told
<1>14. CASE Parsed
  BY <1>14 DEF Parsed, TypeOK, writer, reader, parser, told
<1>15. CASE Deliver
  <2>1. /\ payloads \in Seq(Seq(Characters)) /\ payloads # <<>> /\ received \in Seq(Seq(Characters))
        /\ received' = Append(received, Head(payloads)) /\ payloads' = Tail(payloads)
    BY <1>15 DEF Deliver, getPayload, payloadEmpty, TypeOK
  <2>2. payloads' \in Seq(Seq(Characters)) /\ received' \in Seq(Seq(Characters))
    BY <2>1, HeadTailProperties, AppendProperties
  <2> QED BY <1>15, <2>2 DEF Deliver, TypeOK, writer
<1>16. CASE Report
  <2>1. errors \in Nat /\ errors # 0 /\ errors' = errors - 1 /\ reported \in Nat /\ reported' =
       reported + 1
    BY <1>16 DEF Report, getError, errorEmpty, TypeOK
  <2>2. errors' \in Nat /\ reported' \in Nat
    BY <2>1
  <2> QED BY <1>16, <2>2 DEF Report, TypeOK, writer
<1>17. CASE FinishRead
  BY <1>17 DEF FinishRead, TypeOK, writer, reader, parser, told
<1>18. CASE CloseReader
  BY <1>18 DEF CloseReader, TypeOK, writer, reader, parser, told
<1>19. CASE UNCHANGED vars
  BY <1>19 DEF vars, TypeOK, writer, reader, parser, told
<1> QED BY <1>1, <1>2, <1>3, <1>4, <1>5, <1>6, <1>7, <1>8, <1>9, <1>10, <1>11, <1>12, <1>13,
     <1>14, <1>15, <1>16, <1>17, <1>18, <1>19 DEF Next, WriteCallback, ReadCallback,
     Application, Reads

\* Before anything is written everything is empty.
LEMMA InitTyped ==
  ASSUME Init
  PROVE  TypeOK
<1>1. /\ <<>> \in Seq(Messages) /\ <<>> \in Seq(Characters) /\ <<>> \in Seq(Seq(Characters))
      /\ <<>> \in Seq(Seq(Characters) \ {<<>>}) /\ 0 \in 0..Len(<<>>)
  OBVIOUS
<1> QED BY <1>1 DEF Init, TypeOK

\* Every variable has its type: writeCB holds a buffer exactly while it writes
\* it, deserialize is building a payload only while it runs.
THEOREM MessagesTypeCorrect == Spec => []TypeOK
<1>1. Init => TypeOK
  BY InitTyped
<1>2. TypeOK /\ [Next]_vars => TypeOK'
  BY TypeStep
<1> QED BY <1>1, <1>2, PTL DEF Spec

-----------------------------------------------------------------------------
(* What is on the way                                                      *)

\* The messages of s, one after the other, as they were serialized
Serialized(s) == FlattenSeq([i \in DOMAIN s |-> Serialize(s[i])])

\* Nothing is sent after a buffer was given up, nothing read after a reset; up
\* to then what was read, what is on the wire and what is queued follow on.
OnTheWay ==
  /\ ~open => writing = "idle"
  /\ ~readerOpen => reading # "read"
  /\ IsPrefix(arrived, Stream)
  /\ readerOpen => IsPrefix(arrived \o wire, Stream)
  /\ open /\ readerOpen => arrived \o wire \o Unsent = Stream

\* The stream is what was written, serialized.
LEMMA StreamSerialized == Stream = Serialized(sent)
BY DEF Stream, Serialized

\* A sequence of payloads as a sequence of characters
LEMMA SerializedType ==
  ASSUME NEW s \in Seq(Messages)
  PROVE  /\ [i \in DOMAIN s |-> Serialize(s[i])] \in Seq(Seq(Characters))
         /\ Serialized(s) \in Seq(Characters)
<1> DEFINE f == [i \in DOMAIN s |-> Serialize(s[i])]
<1>1. Len(s) \in Nat /\ DOMAIN s = 1..Len(s)
  BY LenProperties
<1>2. \A i \in 1..Len(s) : Serialize(s[i]) \in Seq(Characters)
  BY ElementOfSeq, SerializeForm
<1>3. f \in [1..Len(s) -> Seq(Characters)]
  BY <1>1, <1>2
<1>4. f \in Seq(Seq(Characters))
  <2> HIDE DEF f
  <2> QED BY <1>1, <1>3, SeqDef
<1> QED BY <1>4, FlattenType DEF Serialized

\* The next payload comes behind the ones before.
LEMMA SerializedAppend ==
  ASSUME NEW s \in Seq(Messages), NEW m \in Messages
  PROVE  Serialized(Append(s, m)) = Serialized(s) \o Serialize(m)
<1> DEFINE t == Append(s, m)
           f == [i \in DOMAIN s |-> Serialize(s[i])]
           g == [i \in DOMAIN t |-> Serialize(t[i])]
           x == Serialize(m)
<1>1. /\ t \in Seq(Messages) /\ Len(t) = Len(s) + 1 /\ Len(s) \in Nat
      /\ DOMAIN s = 1..Len(s) /\ DOMAIN t = 1..Len(t)
      /\ \A i \in 1..Len(s) : t[i] = s[i]
      /\ t[Len(s) + 1] = m
  BY AppendProperties, LenProperties
<1>2. x \in Seq(Characters)
  BY SerializeForm
<1>3. f \in Seq(Seq(Characters)) /\ g \in Seq(Seq(Characters))
  BY <1>1, SerializedType
<1> HIDE DEF t, x
<1>4. Len(f) = Len(s) /\ Len(g) = Len(s) + 1
  BY <1>1, <1>3, LenProperties
<1>5. /\ \A i \in 1..Len(s) : g[i] = f[i]
      /\ g[Len(s) + 1] = x
  BY <1>1 DEF x
<1> HIDE DEF f, g
<1>6. g = Append(f, x)
  <2>1. /\ Append(f, x) \in Seq(Seq(Characters)) /\ Len(Append(f, x)) = Len(s) + 1
        /\ \A i \in 1..Len(s) : Append(f, x)[i] = f[i]
        /\ Append(f, x)[Len(s) + 1] = x
    BY <1>2, <1>3, <1>4, AppendProperties
  <2>2. \A i \in 1..Len(g) : g[i] = Append(f, x)[i]
    BY <1>1, <1>4, <1>5, <2>1
  <2> QED BY <1>3, <1>4, <2>1, <2>2, SeqEqual
<1>7. FlattenSeq(Append(f, x)) = FlattenSeq(f) \o x
  BY <1>2, <1>3, FlattenAppend
<1> QED BY <1>6, <1>7 DEF Serialized, f, g, t, x

\* Everything about the stream is a sequence of characters.
LEMMA StreamTypes ==
  ASSUME TypeOK
  PROVE  /\ Stream \in Seq(Characters)
         /\ Unsent \in Seq(Characters)
         /\ SubSeq(chunk, writeCount + 1, Len(chunk)) \in Seq(Characters)
         /\ buffers \in Seq(Seq(Characters))
         /\ FlattenSeq(buffers) \in Seq(Characters)
         /\ arrived \in Seq(Characters) /\ wire \in Seq(Characters)
         /\ arrived \o wire \in Seq(Characters)
<1>1. Stream \in Seq(Characters)
  BY SerializedType, StreamSerialized DEF TypeOK
<1>2. buffers \in Seq(Seq(Characters))
  <2>1. buffers \in Seq(Seq(Characters) \ {<<>>})
    BY DEF TypeOK
  <2> QED BY <2>1, SeqMonotonic
<1>3. FlattenSeq(buffers) \in Seq(Characters)
  BY <1>2, FlattenType
<1>4. SubSeq(chunk, writeCount + 1, Len(chunk)) \in Seq(Characters)
  <2>1. chunk \in Seq(Characters) /\ writeCount \in 0..Len(chunk)
    BY DEF TypeOK
  <2> QED BY <2>1
<1>5. Unsent \in Seq(Characters)
  BY <1>3, <1>4, ConcatProperties DEF Unsent
<1>6. arrived \in Seq(Characters) /\ wire \in Seq(Characters)
  BY DEF TypeOK
<1>7. arrived \o wire \in Seq(Characters)
  BY <1>6, ConcatProperties
<1> QED BY <1>1, <1>2, <1>3, <1>4, <1>5, <1>6, <1>7

\* The streams change only with what they are made of.
LEMMA Still ==
  /\ sent' = sent => Stream' = Stream
  /\ chunk' = chunk /\ writeCount' = writeCount /\ buffers' = buffers => Unsent' = Unsent
BY DEF Stream, Unsent

\* Writes and reads move characters along, whatever the pieces are.
LEMMA OnTheWayStep ==
  ASSUME TypeOK, OnTheWay, [Next]_vars
  PROVE  OnTheWay'
<1>1. ASSUME NEW m \in Messages, Write(m) PROVE OnTheWay'
  <2> DEFINE x == Serialize(m)
  <2>1. x \in Seq(Characters) /\ buffers \in Seq(Seq(Characters))
    BY SerializeForm, StreamTypes
  <2>2. Stream' = Stream \o x
    <3>1. sent \in Seq(Messages) /\ sent' = Append(sent, m)
      BY <1>1 DEF Write, TypeOK
    <3>2. Serialized(Append(sent, m)) = Serialized(sent) \o Serialize(m)
      BY <3>1, SerializedAppend
    <3>3. Stream = Serialized(sent) /\ Stream' = Serialized(sent')
      BY DEF Stream, Serialized
    <3> QED BY <3>1, <3>2, <3>3
  <2>3. Unsent' = Unsent \o x
    <3>1. buffers' = Append(buffers, x) /\ chunk' = chunk /\ writeCount' = writeCount
      BY <1>1 DEF Write, pushBuffer
    <3> HIDE DEF x
    <3>2. FlattenSeq(buffers') = FlattenSeq(buffers) \o x
      BY <2>1, <3>1, FlattenAppend
    <3> DEFINE rest == SubSeq(chunk, writeCount + 1, Len(chunk))
    <3>3. rest \in Seq(Characters) /\ FlattenSeq(buffers) \in Seq(Characters)
      BY StreamTypes
    <3> HIDE DEF rest
    <3>4. rest \o (FlattenSeq(buffers) \o x) = (rest \o FlattenSeq(buffers)) \o x
      BY <2>1, <3>3, ConcatAssociative
    <3> QED BY <3>1, <3>2, <3>4 DEF Unsent, rest
  <2> HIDE DEF x
  <2>4. /\ arrived' = arrived /\ wire' = wire /\ open' = open /\ writing' = writing
        /\ readerOpen' = readerOpen /\ reading' = reading
    BY <1>1 DEF Write, reader
  <2>5. IsPrefix(arrived', Stream')
    BY <2>1, <2>2, <2>4, PrefixConcat, StreamTypes DEF OnTheWay
  <2>6. readerOpen' => IsPrefix(arrived' \o wire', Stream')
    BY <2>1, <2>2, <2>4, PrefixConcat, StreamTypes DEF OnTheWay
  <2>7. (arrived \o wire \o Unsent) \o x = arrived \o wire \o (Unsent \o x)
    <3> DEFINE front == arrived \o wire
    <3>1. front \in Seq(Characters) /\ Unsent \in Seq(Characters)
      BY StreamTypes
    <3> HIDE DEF front
    <3>2. (front \o Unsent) \o x = front \o (Unsent \o x)
      BY <2>1, <3>1, ConcatAssociative, SMTT(20)
    <3> QED BY <3>2 DEF front
  <2> QED BY <2>2, <2>3, <2>4, <2>5, <2>6, <2>7 DEF OnTheWay
<1>2. CASE StartWrite
  BY <1>2, Still DEF StartWrite, OnTheWay, writer, reader, parser, told
<1>3. CASE NextBuffer
  <2>1. Unsent' = Unsent
    <3>1. /\ buffers # <<>> /\ buffers \in Seq(Seq(Characters)) /\ chunk = <<>> /\ writeCount' = 0
          /\ chunk' = Head(buffers) /\ buffers' = Tail(buffers) /\ writeCount \in Nat
      BY <1>3, StreamTypes DEF NextBuffer, bufferEmpty, getBuffer, TypeOK
    <3>2. SubSeq(chunk, writeCount + 1, Len(chunk)) = <<>>
      BY <3>1
    <3>3. SubSeq(chunk', writeCount' + 1, Len(chunk')) = chunk'
      <4>1. chunk' \in Seq(Characters)
        BY <3>1, HeadTailProperties
      <4> QED BY <3>1, <4>1, SubSeqFull
    <3>4. FlattenSeq(buffers) = chunk' \o FlattenSeq(buffers')
      BY <3>1, FlattenHead
    <3>5. <<>> \o FlattenSeq(buffers) = FlattenSeq(buffers)
      BY StreamTypes, ConcatEmptySeq
    <3> QED BY <3>2, <3>3, <3>4, <3>5 DEF Unsent
  <2>2. writing = "test"
    BY <1>3 DEF NextBuffer
  <2> QED BY <1>3, <2>1, <2>2 DEF NextBuffer, OnTheWay, Stream, reader, parser, told
<1>4. ASSUME NEW n \in 1..SocketSize, Send(n) PROVE OnTheWay'
  <2> DEFINE piece == SubSeq(chunk, writeCount + 1, writeCount + n)
             rest == SubSeq(chunk, writeCount + n + 1, Len(chunk))
             queued == FlattenSeq(buffers)
  <2>1. /\ chunk \in Seq(Characters) /\ writeCount \in 0..Len(chunk)
        /\ writeCount + n \in writeCount..Len(chunk)
    BY <1>4, LenProperties DEF Send, TypeOK
  <2>2. piece \in Seq(Characters) /\ rest \in Seq(Characters) /\ queued \in Seq(Characters)
    <3>1. Len(chunk) \in Nat
      BY <2>1, LenProperties
    <3>2. writeCount + n \in 0..Len(chunk) /\ Len(chunk) \in (writeCount + n)..Len(chunk)
      BY <2>1, <3>1
    <3>3. piece \in Seq(Characters)
      BY <2>1, Piece
    <3>4. rest \in Seq(Characters)
      BY <2>1, <3>2, Piece
    <3> QED BY <3>3, <3>4, StreamTypes
  <2>3. SubSeq(chunk, writeCount + 1, Len(chunk)) = piece \o rest
    BY <2>1, CutAgain
  <2> HIDE DEF piece, rest, queued
  <2>4. Unsent = piece \o (rest \o queued)
    <3>1. Unsent = (piece \o rest) \o queued
      BY <2>3 DEF Unsent, queued
    <3>2. (piece \o rest) \o queued = piece \o (rest \o queued)
      BY <2>2, ConcatAssociative
    <3> QED BY <3>1, <3>2
  <2>5. Unsent' = rest \o queued
    <3>1. buffers' = buffers
      BY <1>4 DEF Send
    <3>2. SubSeq(chunk', writeCount' + 1, Len(chunk')) = rest
      <4>1. CASE writeCount + n = Len(chunk)
        <5>1. chunk' = <<>> /\ writeCount' = 0
          BY <1>4, <4>1 DEF Send
        <5>2. rest = <<>>
          BY <2>1, <4>1 DEF rest
        <5> QED BY <5>1, <5>2
      <4>2. CASE writeCount + n # Len(chunk)
        BY <1>4, <4>2 DEF Send, rest
      <4> QED BY <4>1, <4>2
    <3> QED BY <3>1, <3>2 DEF Unsent, queued
  <2>6. open /\ wire' = wire \o piece /\ arrived' = arrived /\ writing' \in {"test", "send"}
    BY <1>4 DEF Send, OnTheWay, piece, reader
  <2>7. arrived \in Seq(Characters) /\ wire \in Seq(Characters) /\ wire' \in Seq(Characters)
    BY <2>2, <2>6, ConcatProperties, StreamTypes
  <2>8. arrived' \o wire' \o Unsent' = arrived \o wire \o Unsent
    <3>1. (arrived \o wire) \o (piece \o (rest \o queued))
            = ((arrived \o wire) \o piece) \o (rest \o queued)
      <4> DEFINE front == arrived \o wire
                 back == rest \o queued
      <4>1. front \in Seq(Characters) /\ piece \in Seq(Characters) /\ back \in Seq(Characters)
        BY <2>2, <2>7, ConcatProperties
      <4> HIDE DEF front, back
      <4>2. (front \o piece) \o back = front \o (piece \o back)
        BY <4>1, ConcatAssociative, SMTT(20)
      <4> QED BY <4>2 DEF front, back
    <3>2. (arrived \o wire) \o piece = arrived \o (wire \o piece)
      BY <2>2, <2>7, ConcatAssociative, SMTT(20)
    <3> QED BY <2>4, <2>5, <2>6, <3>1, <3>2
  <2>9. Stream' = Stream /\ open' = open /\ readerOpen' = readerOpen /\ reading' = reading
    BY <1>4 DEF Send, Stream, reader
  <2>10. readerOpen' => IsPrefix(arrived' \o wire', Stream')
    <3>1. arrived' \o wire' \in Seq(Characters) /\ Unsent' \in Seq(Characters)
      BY <2>2, <2>5, <2>6, <2>7, ConcatProperties
    <3>2. readerOpen => (arrived' \o wire') \o Unsent' = Stream
      BY <2>6, <2>8 DEF OnTheWay
    <3>3. IsPrefix(arrived' \o wire', (arrived' \o wire') \o Unsent')
      BY <3>1, PrefixOfConcat
    <3> QED BY <2>9, <3>2, <3>3
  <2> QED BY <2>6, <2>8, <2>9, <2>10 DEF OnTheWay
<1>5. CASE SendFails
  <2>1. arrived' = arrived /\ wire' = wire /\ ~open' /\ writing' = "idle" /\ Stream' = Stream
    BY <1>5 DEF SendFails, Stream, reader
  <2> QED BY <1>5, <2>1 DEF SendFails, OnTheWay, reader
<1>6. CASE FinishWrite
  BY <1>6, Still DEF FinishWrite, OnTheWay, writer, reader, parser, told
<1>7. CASE CloseWriter
  <2>1. arrived' = arrived /\ wire' = wire /\ ~open' /\ writing' = "idle" /\ Stream' = Stream
    BY <1>7 DEF CloseWriter, Stream, reader
  <2> QED BY <1>7, <2>1 DEF CloseWriter, OnTheWay, reader
<1>8. CASE StartRead
  BY <1>8, Still DEF StartRead, OnTheWay, writer, reader, parser, told
<1>9. ASSUME NEW n \in 1..ReadSize, Read(n) PROVE OnTheWay'
  <2> DEFINE piece == SubSeq(wire, 1, n)
             rest == SubSeq(wire, n + 1, Len(wire))
  <2>1. /\ arrived \in Seq(Characters) /\ wire \in Seq(Characters) /\ n \in 0..Len(wire)
        /\ arrived' = arrived \o piece /\ wire' = rest /\ readerOpen
    BY <1>9, LenProperties DEF Read, TypeOK, OnTheWay
  <2>2. piece \in Seq(Characters) /\ rest \in Seq(Characters) /\ wire = piece \o rest
    BY <2>1
  <2> HIDE DEF piece, rest
  <2>3. arrived' \o wire' = arrived \o wire
    BY <2>1, <2>2, ConcatAssociative, SMTT(20)
  <2>4. Stream' = Stream /\ Unsent' = Unsent /\ open' = open /\ readerOpen' = readerOpen
        /\ writing' = writing
    BY <1>9 DEF Read, Stream, Unsent, writer
  <2>5. IsPrefix(arrived', Stream')
    <3>1. arrived' \in Seq(Characters) /\ wire' \in Seq(Characters)
      BY <2>1, <2>2, ConcatProperties
    <3>2. arrived' \o wire' \in Seq(Characters)
      BY <3>1, ConcatProperties
    <3>3. IsPrefix(arrived', arrived' \o wire') /\ IsPrefix(arrived' \o wire', Stream)
      BY <2>1, <2>3, <3>1, PrefixOfConcat DEF OnTheWay
    <3> QED BY <2>4, <3>1, <3>2, <3>3, PrefixTransitive, StreamTypes
  <2> QED BY <2>1, <2>3, <2>4, <2>5 DEF OnTheWay
<1>10. CASE NothingToRead
  BY <1>10, Still DEF NothingToRead, OnTheWay, writer, reader, parser, told
<1>11. CASE EndOfFile
  BY <1>11, Still DEF EndOfFile, OnTheWay, writer, reader, parser, told
<1>12. CASE ReadFails
  <2>1. arrived' = arrived /\ Stream' = Stream /\ ~readerOpen' /\ reading' = "feed"
    BY <1>12 DEF ReadFails, Stream, writer
  <2> QED BY <1>12, <2>1 DEF ReadFails, OnTheWay, writer
<1>13. CASE Parse
  BY <1>13, Still DEF Parse, OnTheWay, writer, reader, parser, told
<1>14. CASE Parsed
  BY <1>14, Still DEF Parsed, OnTheWay, writer, reader, parser, told
<1>15. CASE Deliver
  BY <1>15, Still DEF Deliver, OnTheWay, writer, reader, parser, told
<1>16. CASE Report
  BY <1>16, Still DEF Report, OnTheWay, writer, reader, parser, told
<1>17. CASE FinishRead
  BY <1>17, Still DEF FinishRead, OnTheWay, writer, reader, parser, told
<1>18. CASE CloseReader
  BY <1>18, Still DEF CloseReader, OnTheWay, writer, reader, parser, told
<1>19. CASE UNCHANGED vars
  BY <1>19, Still DEF vars, OnTheWay, writer, reader, parser, told
<1> QED BY <1>1, <1>2, <1>3, <1>4, <1>5, <1>6, <1>7, <1>8, <1>9, <1>10, <1>11, <1>12, <1>13,
     <1>14, <1>15, <1>16, <1>17, <1>18, <1>19 DEF Next, WriteCallback, ReadCallback,
     Application, Reads

\* The type invariant with the stream, inductive together
THEOREM StreamInvariant == Spec => []OnTheWay
<1>1. Init => OnTheWay
  <2> SUFFICES ASSUME Init PROVE OnTheWay
    OBVIOUS
  <2>1. sent = <<>> /\ arrived = <<>> /\ wire = <<>> /\ chunk = <<>> /\ buffers = <<>>
        /\ writeCount = 0 /\ reading = "idle" /\ open
    BY DEF Init
  <2>2. TypeOK
    BY InitTyped
  <2>3. Stream = <<>>
    <3>1. [i \in DOMAIN sent |-> Serialize(sent[i])] = <<>>
      BY <2>1
    <3> QED BY <3>1, FlattenEmpty DEF Stream
  <2>4. Unsent = <<>>
    <3>1. SubSeq(chunk, writeCount + 1, Len(chunk)) = <<>>
      BY <2>1
    <3> QED BY <2>1, <3>1, FlattenEmpty DEF Unsent
  <2>5. <<>> \o <<>> = <<>>
    OBVIOUS
  <2>6. IsPrefix(<<>>, <<>>)
    BY DEF IsPrefix
  <2> QED BY <2>1, <2>3, <2>4, <2>5, <2>6 DEF OnTheWay
<1>2. TypeOK /\ OnTheWay /\ [Next]_vars => OnTheWay'
  BY OnTheWayStep
<1> QED BY <1>1, <1>2, MessagesTypeCorrect, PTL DEF Spec

\* However the writes and reads are cut up, what has been read is the beginning
\* of what was serialized, and while neither end has closed nothing of it is
\* missing: read, on the wire or still queued, each character once, in order.
THEOREM NothingCutOut == Spec => []StreamKept
<1>1. OnTheWay => StreamKept
  BY DEF OnTheWay, StreamKept
<1> QED BY <1>1, StreamInvariant, PTL

-----------------------------------------------------------------------------
(* What has been parsed                                                    *)

\* How far deserialize has come in what was read
ParsedLength == Len(arrived) - Len(input)

\* deserialize has been through all that was read but for what it has in hand.
Unparsed ==
  /\ Len(input) <= Len(arrived)
  /\ \A i \in 1..Len(input) : input[i] = arrived[ParsedLength + i]

\* What is read is appended to both, what is parsed is taken from the front.
LEMMA UnparsedStep ==
  ASSUME TypeOK, Unparsed, [Next]_vars
  PROVE  Unparsed'
<1>1. ASSUME NEW m \in Messages, Write(m) PROVE Unparsed'
  BY <1>1 DEF Write, Unparsed, ParsedLength, writer, reader, parser, told
<1>2. CASE StartWrite
  BY <1>2 DEF StartWrite, Unparsed, ParsedLength, writer, reader, parser, told
<1>3. CASE NextBuffer
  BY <1>3 DEF NextBuffer, Unparsed, ParsedLength, writer, reader, parser, told
<1>4. ASSUME NEW n \in 1..SocketSize, Send(n) PROVE Unparsed'
  BY <1>4 DEF Send, Unparsed, ParsedLength, writer, reader, parser, told
<1>5. CASE SendFails
  BY <1>5 DEF SendFails, Unparsed, ParsedLength, writer, reader, parser, told
<1>6. CASE FinishWrite
  BY <1>6 DEF FinishWrite, Unparsed, ParsedLength, writer, reader, parser, told
<1>7. CASE CloseWriter
  BY <1>7 DEF CloseWriter, Unparsed, ParsedLength, writer, reader, parser, told
<1>8. CASE StartRead
  BY <1>8 DEF StartRead, Unparsed, ParsedLength, writer, reader, parser, told
<1>9. ASSUME NEW n \in 1..ReadSize, Read(n) PROVE Unparsed'
  <2> DEFINE piece == SubSeq(wire, 1, n)
  <2>1. /\ wire \in Seq(Characters) /\ input \in Seq(Characters) /\ arrived \in Seq(Characters)
        /\ n \in 0..Len(wire) /\ input' = input \o piece /\ arrived' = arrived \o piece
    BY <1>9, LenProperties DEF Read, TypeOK
  <2>2. piece \in Seq(Characters)
    BY <2>1
  <2> HIDE DEF piece
  <2>3. /\ Len(input') = Len(input) + Len(piece) /\ Len(arrived') = Len(arrived) + Len(piece)
        /\ Len(input) \in Nat /\ Len(arrived) \in Nat /\ Len(piece) \in Nat
    BY <2>1, <2>2, ConcatProperties, LenProperties
  <2>4. ASSUME NEW i \in 1..Len(input')
        PROVE  input'[i] = arrived'[Len(arrived') - Len(input') + i]
    <3>1. CASE i <= Len(input)
      <4>1. input'[i] = input[i]
        BY <2>1, <2>2, <2>3, <3>1
      <4>2. input[i] = arrived[Len(arrived) - Len(input) + i]
        BY <2>3, <3>1 DEF Unparsed, ParsedLength
      <4>3. Len(arrived) - Len(input) + i \in 1..Len(arrived)
        BY <2>3, <3>1 DEF Unparsed
      <4>4. arrived'[Len(arrived) - Len(input) + i] = arrived[Len(arrived) - Len(input) + i]
        BY <2>1, <2>2, <2>3, <4>3
      <4>5. Len(arrived') - Len(input') = Len(arrived) - Len(input)
        BY <2>3
      <4> QED BY <4>1, <4>2, <4>4, <4>5
    <3>2. CASE i > Len(input)
      <4> DEFINE j == i - Len(input)
      <4>1. j \in 1..Len(piece) /\ Len(input) + j = i
        BY <2>3, <3>2
      <4>2. Len(arrived') - Len(input') + i = Len(arrived) + j
        BY <2>3
      <4> HIDE DEF j
      <4>3. input'[Len(input) + j] = piece[j] /\ arrived'[Len(arrived) + j] = piece[j]
        BY <2>1, <2>2, <2>3, <4>1
      <4> QED BY <4>1, <4>2, <4>3
    <3> QED BY <2>3, <3>1, <3>2
  <2> QED BY <2>3, <2>4 DEF Unparsed, ParsedLength
<1>10. CASE NothingToRead
  BY <1>10 DEF NothingToRead, Unparsed, ParsedLength, writer, reader, parser, told
<1>11. CASE EndOfFile
  BY <1>11 DEF EndOfFile, Unparsed, ParsedLength, writer, reader, parser, told
<1>12. CASE ReadFails
  BY <1>12 DEF ReadFails, Unparsed, ParsedLength, writer, reader, parser, told
<1>13. CASE Parse
  <2>1. /\ input \in Seq(Characters) /\ input # <<>> /\ input' = Tail(input) /\ arrived' = arrived
        /\ Len(arrived) \in Nat
    BY <1>13, LenProperties DEF Parse, TypeOK
  <2>2. /\ Len(input) \in Nat /\ Len(input') = Len(input) - 1
        /\ \A i \in 1..Len(input') : input'[i] = input[i + 1]
    BY <2>1, HeadTailProperties, LenProperties
  <2>3. ASSUME NEW i \in 1..Len(input')
        PROVE  input'[i] = arrived[Len(arrived) - Len(input') + i]
    <3>1. i + 1 \in 1..Len(input) /\ input'[i] = input[i + 1]
      BY <2>2
    <3>2. input[i + 1] = arrived[Len(arrived) - Len(input) + (i + 1)]
      BY <3>1 DEF Unparsed, ParsedLength
    <3>3. Len(arrived) - Len(input) + (i + 1) = Len(arrived) - Len(input') + i
      BY <2>1, <2>2
    <3> QED BY <3>1, <3>2, <3>3
  <2> QED BY <2>1, <2>2, <2>3 DEF Unparsed, ParsedLength
<1>14. CASE Parsed
  BY <1>14 DEF Parsed, Unparsed, ParsedLength, writer, reader, parser, told
<1>15. CASE Deliver
  BY <1>15 DEF Deliver, Unparsed, ParsedLength, writer, reader, parser, told
<1>16. CASE Report
  BY <1>16 DEF Report, Unparsed, ParsedLength, writer, reader, parser, told
<1>17. CASE FinishRead
  BY <1>17 DEF FinishRead, Unparsed, ParsedLength, writer, reader, parser, told
<1>18. CASE CloseReader
  BY <1>18 DEF CloseReader, Unparsed, ParsedLength, writer, reader, parser, told
<1>19. CASE UNCHANGED vars
  BY <1>19 DEF vars, Unparsed, ParsedLength, writer, reader, parser, told
<1> QED BY <1>1, <1>2, <1>3, <1>4, <1>5, <1>6, <1>7, <1>8, <1>9, <1>10, <1>11, <1>12, <1>13,
     <1>14, <1>15, <1>16, <1>17, <1>18, <1>19 DEF Next, WriteCallback, ReadCallback,
     Application, Reads

\* The lengths are numbers, and the next character is the first not parsed.
LEMMA NextCharacter ==
  ASSUME TypeOK, Unparsed
  PROVE  /\ Len(arrived) \in Nat /\ Len(input) \in Nat /\ ParsedLength \in 0..Len(arrived)
         /\ Len(payloads) \in Nat /\ Len(received) \in Nat
         /\ input # <<>> => /\ ParsedLength + 1 \in 1..Len(arrived)
                            /\ Head(input) = arrived[ParsedLength + 1]
<1>1. /\ Len(arrived) \in Nat /\ Len(input) \in Nat /\ Len(payloads) \in Nat
      /\ Len(received) \in Nat
  BY LenProperties DEF TypeOK
<1>2. ParsedLength \in 0..Len(arrived)
  BY <1>1 DEF Unparsed, ParsedLength
<1>3. ASSUME input # <<>>
      PROVE  /\ ParsedLength + 1 \in 1..Len(arrived)
             /\ Head(input) = arrived[ParsedLength + 1]
  <2>1. 1 \in 1..Len(input) /\ Head(input) = input[1]
    <3>1. input \in Seq(Characters)
      BY DEF TypeOK
    <3> QED BY <1>3, <3>1
  <2> QED BY <1>1, <2>1 DEF Unparsed, ParsedLength
<1> QED BY <1>1, <1>2, <1>3

\* What is read is not parsed yet.
LEMMA ReadParsesNothing ==
  ASSUME TypeOK, NEW n \in 1..ReadSize, Read(n)
  PROVE  ParsedLength' = ParsedLength
<1>1. /\ wire \in Seq(Characters) /\ input \in Seq(Characters) /\ arrived \in Seq(Characters)
      /\ n \in 0..Len(wire)
      /\ input' = input \o SubSeq(wire, 1, n) /\ arrived' = arrived \o SubSeq(wire, 1, n)
  BY LenProperties DEF Read, TypeOK
<1> DEFINE piece == SubSeq(wire, 1, n)
<1>2. piece \in Seq(Characters)
  BY <1>1
<1>3. input' = input \o piece /\ arrived' = arrived \o piece
  BY <1>1
<1> HIDE DEF piece
<1>4. Len(input') = Len(input) + Len(piece) /\ Len(arrived') = Len(arrived) + Len(piece)
  <2>1. input \in Seq(Characters) /\ arrived \in Seq(Characters)
    BY <1>1
  <2> QED BY <1>2, <1>3, <2>1, ConcatProperties
<1>5. Len(input) \in Nat /\ Len(arrived) \in Nat /\ Len(piece) \in Nat
  BY <1>1, <1>2, LenProperties
<1> QED BY <1>4, <1>5 DEF ParsedLength

\* Where messages have ended, and how many payloads and errors have come of them
Ends(n) == {i \in 1..n : arrived[i] = "}"}
Told    == Len(payloads) + Len(received) + errors + reported

\* Among n characters they can be counted.
LEMMA EndsFinite ==
  ASSUME NEW n \in Nat
  PROVE  IsFiniteSet(Ends(n)) /\ Cardinality(Ends(n)) \in Nat
<1>1. IsFiniteSet(1..n)
  BY FS_Interval
<1>2. Ends(n) \subseteq 1..n
  BY DEF Ends
<1> QED BY <1>1, <1>2, FS_Subset, FS_CardinalityType

\* One more character is one more end of a message or none.
LEMMA EndsNext ==
  ASSUME NEW n \in Nat
  PROVE  /\ Cardinality(Ends(n)) \in Nat
         /\ arrived[n + 1] = "}" => Cardinality(Ends(n + 1)) = Cardinality(Ends(n)) + 1
         /\ arrived[n + 1] # "}" => Ends(n + 1) = Ends(n)
<1>1. \A i \in 1..(n + 1) : i \in 1..n \/ i = n + 1
  OBVIOUS
<1>2. n + 1 \notin 1..n /\ 1..n \subseteq 1..(n + 1) /\ n + 1 \in 1..(n + 1)
  OBVIOUS
<1>3. n + 1 \notin Ends(n)
  BY <1>2, Zenon DEF Ends
<1>4. CASE arrived[n + 1] = "}"
  <2>1. Ends(n + 1) = Ends(n) \cup {n + 1}
    BY <1>1, <1>2, <1>4, Zenon DEF Ends
  <2> QED BY <1>3, <1>4, <2>1, EndsFinite, FS_AddElement
<1>5. CASE arrived[n + 1] # "}"
  <2>1. Ends(n + 1) = Ends(n)
    BY <1>1, <1>2, <1>5, Zenon DEF Ends
  <2> QED BY <1>5, <2>1, EndsFinite
<1> QED BY <1>4, <1>5

\* What has been parsed stays, and so do the ends in it.
LEMMA EndsStay ==
  ASSUME TypeOK, Unparsed, LossReported, ParsedLength' = ParsedLength, Told' = Told,
         \A i \in 1..ParsedLength : arrived'[i] = arrived[i]
  PROVE  LossReported'
<1>1. ParsedLength \in Nat
  BY NextCharacter
<1>2. Ends(ParsedLength)' = Ends(ParsedLength)
  BY DEF Ends
<1>3. LossReported <=> Cardinality(Ends(ParsedLength)) <= Told
  BY DEF LossReported, Ends, ParsedLength, Told
<1>4. LossReported' <=> Cardinality(Ends(ParsedLength)') <= Told'
  BY DEF LossReported, Ends, ParsedLength, Told
<1> QED BY <1>2, <1>3, <1>4

\* Each end of a message comes with one more payload or error.
LEMMA LossStep ==
  ASSUME TypeOK, Unparsed, LossReported, [Next]_vars
  PROVE  LossReported'
<1>1. ASSUME NEW m \in Messages, Write(m) PROVE LossReported'
  BY <1>1 DEF Write, LossReported, writer, reader, parser, told
<1>2. CASE StartWrite
  BY <1>2 DEF StartWrite, LossReported, writer, reader, parser, told
<1>3. CASE NextBuffer
  BY <1>3 DEF NextBuffer, LossReported, writer, reader, parser, told
<1>4. ASSUME NEW n \in 1..SocketSize, Send(n) PROVE LossReported'
  BY <1>4 DEF Send, LossReported, writer, reader, parser, told
<1>5. CASE SendFails
  BY <1>5 DEF SendFails, LossReported, writer, reader, parser, told
<1>6. CASE FinishWrite
  BY <1>6 DEF FinishWrite, LossReported, writer, reader, parser, told
<1>7. CASE CloseWriter
  BY <1>7 DEF CloseWriter, LossReported, writer, reader, parser, told
<1>8. CASE StartRead
  BY <1>8 DEF StartRead, LossReported, writer, reader, parser, told
<1>9. ASSUME NEW n \in 1..ReadSize, Read(n) PROVE LossReported'
  <2>1. /\ wire \in Seq(Characters) /\ input \in Seq(Characters) /\ arrived \in Seq(Characters)
        /\ n \in 0..Len(wire)
        /\ input' = input \o SubSeq(wire, 1, n) /\ arrived' = arrived \o SubSeq(wire, 1, n)
    BY <1>9, LenProperties DEF Read, TypeOK
  <2>2. SubSeq(wire, 1, n) \in Seq(Characters)
    BY <2>1
  <2>3. \A i \in 1..Len(arrived) : arrived'[i] = arrived[i]
    BY <2>1, <2>2
  <2>4. ParsedLength' = ParsedLength
    BY <1>9, ReadParsesNothing
  <2>5. \A i \in 1..ParsedLength : arrived'[i] = arrived[i]
    BY <2>3, NextCharacter
  <2>6. Told' = Told
    BY <1>9 DEF Read, parser, told, Told
  <2> QED BY <2>4, <2>5, <2>6, EndsStay
<1>10. CASE NothingToRead
  BY <1>10 DEF NothingToRead, LossReported, writer, reader, parser, told
<1>11. CASE EndOfFile
  BY <1>11 DEF EndOfFile, LossReported, writer, reader, parser, told
<1>12. CASE ReadFails
  BY <1>12 DEF ReadFails, LossReported, writer, reader, parser, told
<1>13. CASE Parse
  <2> DEFINE c == Head(input)
             n == ParsedLength
  <2>1. input # <<>> /\ input' = Tail(input) /\ arrived' = arrived
    BY <1>13 DEF Parse
  <2>2. errors \in Nat /\ reported \in Nat /\ input \in Seq(Characters)
        /\ payloads \in Seq(Seq(Characters)) /\ currentPayload \in Seq(Characters)
    BY DEF TypeOK
  <2>3. c = arrived[n + 1] /\ n \in Nat /\ Len(payloads) \in Nat /\ Len(received) \in Nat
    BY <2>1, NextCharacter
  <2>4. ParsedLength' = n + 1
    <3>1. Len(input') = Len(input) - 1
      BY <2>1, <2>2, HeadTailProperties
    <3> QED BY <2>1, <3>1, NextCharacter DEF ParsedLength
  <2>5. /\ received' = received /\ reported' = reported
        /\ \/ payloads' = payloads /\ errors' = errors /\ c # "}"
           \/ payloads' = payloads /\ errors' = errors + 1
           \/ payloads' = Append(payloads, currentPayload) /\ errors' = errors
    BY <1>13 DEF Parse, pushError, pushPayload, told
  <2>6. Len(Append(payloads, currentPayload)) = Len(payloads) + 1
    BY <2>2, AppendProperties
  <2> HIDE DEF c, n
  <2>7. Told \in Nat /\ Told' \in Nat /\ Told' >= Told
    <3>1. errors \in Nat /\ reported \in Nat /\ Len(payloads) \in Nat /\ Len(received) \in Nat
      BY <2>2, <2>3
    <3>2. Len(received') = Len(received) /\ reported' = reported
      BY <2>5
    <3>3. CASE payloads' = payloads /\ errors' \in {errors, errors + 1}
      BY <3>1, <3>2, <3>3 DEF Told
    <3>4. CASE payloads' = Append(payloads, currentPayload) /\ errors' = errors
      <4>1. Len(payloads') = Len(payloads) + 1 /\ errors' = errors
        BY <2>6, <3>4
      <4> QED BY <3>1, <3>2, <4>1 DEF Told
    <3> QED BY <2>5, <3>3, <3>4
  <2>8. ASSUME c = "}" PROVE Told' = Told + 1
    <3>1. errors \in Nat /\ reported \in Nat /\ Len(payloads) \in Nat /\ Len(received) \in Nat
      BY <2>2, <2>3
    <3>2. Len(received') = Len(received) /\ reported' = reported
      BY <2>5
    <3>3. CASE payloads' = payloads /\ errors' = errors + 1
      BY <3>1, <3>2, <3>3 DEF Told
    <3>4. CASE payloads' = Append(payloads, currentPayload) /\ errors' = errors
      <4>1. Len(payloads') = Len(payloads) + 1 /\ errors' = errors
        BY <2>6, <3>4
      <4> QED BY <3>1, <3>2, <4>1 DEF Told
    <3> QED BY <2>5, <2>8, <3>3, <3>4, Zenon
  <2>9. Cardinality(Ends(n)) <= Told
    BY DEF LossReported, Ends, ParsedLength, Told, n
  <2>10. Cardinality(Ends(n)) \in Nat
    BY <2>3, EndsNext
  <2>11. Cardinality(Ends(n + 1)) <= Told'
    <3>1. CASE c = "}"
      <4>1. Cardinality(Ends(n + 1)) = Cardinality(Ends(n)) + 1
        BY <2>3, <3>1, EndsNext
      <4>2. Told' = Told + 1
        BY <2>8, <3>1
      <4> QED BY <2>7, <2>9, <2>10, <4>1, <4>2
    <3>2. CASE c # "}"
      <4>1. Ends(n + 1) = Ends(n)
        BY <2>3, <3>2, EndsNext
      <4> QED BY <2>7, <2>9, <2>10, <4>1
    <3> QED BY <3>1, <3>2
  <2>12. LossReported' <=> Cardinality({i \in 1..(ParsedLength') : arrived'[i] = "}"}) <= Told'
    BY DEF LossReported, ParsedLength, Told
  <2> QED BY <2>1, <2>4, <2>11, <2>12 DEF Ends
<1>14. CASE Parsed
  BY <1>14 DEF Parsed, LossReported, writer, reader, parser, told
<1>15. CASE Deliver
  <2>1. ParsedLength' = ParsedLength /\ arrived' = arrived /\ errors' = errors /\ reported' =
       reported
    BY <1>15 DEF Deliver, ParsedLength
  <2>2. /\ payloads \in Seq(Seq(Characters)) /\ payloads # <<>> /\ received \in Seq(Seq(Characters))
        /\ received' = Append(received, Head(payloads)) /\ payloads' = Tail(payloads)
    BY <1>15 DEF Deliver, getPayload, payloadEmpty, TypeOK
  <2>3. Len(payloads') = Len(payloads) - 1 /\ Len(received') = Len(received) + 1
    BY <2>2, HeadTailProperties, AppendProperties
  <2>4. Told' = Told
    BY <2>1, <2>3, NextCharacter DEF Told, TypeOK
  <2> QED BY <2>1, <2>4, EndsStay
<1>16. CASE Report
  <2>1. /\ ParsedLength' = ParsedLength /\ arrived' = arrived /\ payloads' = payloads
        /\ received' = received
    BY <1>16 DEF Report, ParsedLength
  <2>2. errors \in Nat /\ errors' = errors - 1 /\ reported \in Nat /\ reported' = reported + 1
    BY <1>16 DEF Report, getError, TypeOK
  <2>3. Told' = Told
    BY <2>1, <2>2, NextCharacter DEF Told
  <2> QED BY <2>1, <2>3, EndsStay
<1>17. CASE FinishRead
  BY <1>17 DEF FinishRead, LossReported, writer, reader, parser, told
<1>18. CASE CloseReader
  BY <1>18 DEF CloseReader, LossReported, writer, reader, parser, told
<1>19. CASE UNCHANGED vars
  BY <1>19 DEF vars, LossReported, writer, reader, parser, told
<1> QED BY <1>1, <1>2, <1>3, <1>4, <1>5, <1>6, <1>7, <1>8, <1>9, <1>10, <1>11, <1>12, <1>13,
     <1>14, <1>15, <1>16, <1>17, <1>18, <1>19 DEF Next, WriteCallback, ReadCallback,
     Application, Reads

\* No message is lost without a word: for each end of a message that has been
\* parsed there is a payload or an error, in the queues or told already.
THEOREM NothingSwallowed == Spec => []LossReported
<1>1. Init => Unparsed /\ LossReported
  <2> SUFFICES ASSUME Init PROVE Unparsed /\ LossReported
    OBVIOUS
  <2>1. arrived = <<>> /\ input = <<>> /\ payloads = <<>> /\ received = <<>>
        /\ errors = 0 /\ reported = 0 /\ Len(<<>>) = 0
    BY DEF Init
  <2>2. ParsedLength = 0 /\ Told = 0
    BY <2>1 DEF ParsedLength, Told
  <2>3. Ends(0) = {} /\ Cardinality({}) = 0
    BY FS_EmptySet DEF Ends
  <2>4. LossReported <=> Cardinality(Ends(ParsedLength)) <= Told
    BY DEF LossReported, Ends, ParsedLength, Told
  <2>5. LossReported
    BY <2>2, <2>3, <2>4
  <2>6. Unparsed
    BY <2>1 DEF Unparsed
  <2> QED BY <2>5, <2>6
<1>2. TypeOK /\ Unparsed /\ LossReported /\ [Next]_vars => Unparsed' /\ LossReported'
  BY UnparsedStep, LossStep
<1> QED BY <1>1, <1>2, MessagesTypeCorrect, PTL DEF Spec

-----------------------------------------------------------------------------
(* In order                                                                *)

\* Nothing is a part of anything.
LEMMA NoneOf ==
  ASSUME NEW S, NEW t \in Seq(S)
  PROVE  DeliversInOrder!IsSubsequence(<<>>, t)
<1> DEFINE at == [i \in DOMAIN <<>> |-> i]
<1>1. DOMAIN <<>> = {}
  OBVIOUS
<1>2. at \in [DOMAIN <<>> -> DOMAIN t]
  BY <1>1
<1>3. \A i \in DOMAIN <<>> : <<>>[i] = t[at[i]]
  BY <1>1
<1>4. \A i, j \in DOMAIN <<>> : i < j => at[i] < at[j]
  BY <1>1
<1> HIDE DEF at
<1> QED BY <1>2, <1>3, <1>4 DEF DeliversInOrder!IsSubsequence

\* A payload that is passed over leaves what was delivered in order.
LEMMA PassOver ==
  ASSUME NEW S, NEW s \in Seq(S), NEW t \in Seq(S), NEW x \in S,
         DeliversInOrder!IsSubsequence(s, t)
  PROVE  DeliversInOrder!IsSubsequence(s, Append(t, x))
<1> DEFINE u == Append(t, x)
<1>1. /\ Len(s) \in Nat /\ Len(t) \in Nat /\ DOMAIN s = 1..Len(s) /\ DOMAIN t = 1..Len(t)
      /\ DOMAIN u = 1..(Len(t) + 1) /\ \A i \in 1..Len(t) : u[i] = t[i]
  OBVIOUS
<1> HIDE DEF u
<1>2. PICK at \in [DOMAIN s -> DOMAIN t] :
        /\ \A i \in DOMAIN s : s[i] = t[at[i]]
        /\ \A i, j \in DOMAIN s : i < j => at[i] < at[j]
  BY DEF DeliversInOrder!IsSubsequence
<1>3. DOMAIN t \subseteq DOMAIN u
  BY <1>1
<1>4. at \in [DOMAIN s -> DOMAIN u]
  BY <1>2, <1>3
<1>5. \A i \in DOMAIN s : s[i] = u[at[i]]
  BY <1>1, <1>2
<1> QED BY <1>2, <1>4, <1>5 DEF DeliversInOrder!IsSubsequence, u

\* And one that is taken is the next.
LEMMA TakeNext ==
  ASSUME NEW S, NEW s \in Seq(S), NEW t \in Seq(S), NEW x \in S,
         DeliversInOrder!IsSubsequence(s, t)
  PROVE  DeliversInOrder!IsSubsequence(Append(s, x), Append(t, x))
<1> DEFINE u == Append(t, x)
           v == Append(s, x)
           m == Len(s)
           n == Len(t)
<1>1. /\ m \in Nat /\ n \in Nat /\ DOMAIN s = 1..m /\ DOMAIN t = 1..n
      /\ DOMAIN u = 1..(n + 1) /\ \A i \in 1..n : u[i] = t[i]
      /\ DOMAIN v = 1..(m + 1) /\ \A i \in 1..m : v[i] = s[i]
      /\ u[n + 1] = x /\ v[m + 1] = x
  OBVIOUS
<1> HIDE DEF u, v, m, n
<1>2. PICK at \in [DOMAIN s -> DOMAIN t] :
        /\ \A i \in DOMAIN s : s[i] = t[at[i]]
        /\ \A i, j \in DOMAIN s : i < j => at[i] < at[j]
  BY DEF DeliversInOrder!IsSubsequence
<1> DEFINE to == [i \in DOMAIN v |-> IF i = m + 1 THEN n + 1 ELSE at[i]]
<1>3. /\ to[m + 1] = n + 1
      /\ \A i \in 1..m : to[i] = at[i] /\ at[i] \in 1..n
  BY <1>1, <1>2
<1>4. to \in [DOMAIN v -> DOMAIN u]
  BY <1>1, <1>2
<1> HIDE DEF to
<1>5. \A i \in DOMAIN v : v[i] = u[to[i]]
  <2> SUFFICES ASSUME NEW i \in DOMAIN v PROVE v[i] = u[to[i]]
    OBVIOUS
  <2>1. CASE i = m + 1
    BY <1>1, <1>3, <2>1
  <2>2. CASE i \in 1..m
    BY <1>1, <1>2, <1>3, <2>2
  <2> QED BY <1>1, <2>1, <2>2
<1>6. \A i, j \in DOMAIN v : i < j => to[i] < to[j]
  <2> SUFFICES ASSUME NEW i \in DOMAIN v, NEW j \in DOMAIN v, i < j PROVE to[i] < to[j]
    OBVIOUS
  <2>1. i \in 1..m /\ at[i] \in 1..n /\ to[i] = at[i]
    BY <1>1, <1>3
  <2>2. CASE j = m + 1
    BY <1>1, <1>3, <2>1, <2>2
  <2>3. CASE j \in 1..m
    BY <1>1, <1>2, <1>3, <2>1, <2>3
  <2> QED BY <1>1, <2>2, <2>3
<1> QED BY <1>4, <1>5, <1>6 DEF DeliversInOrder!IsSubsequence, u, v

\* What was given to the application is in order when it is followed by what
\* waits for it, and also among all that was written.
LEMMA DeliveredPart ==
  ASSUME NEW S, NEW s \in Seq(S), NEW u \in Seq(S), NEW t \in Seq(S), NEW k \in 0..Len(t),
         DeliversInOrder!IsSubsequence(s \o u, SubSeq(t, 1, k))
  PROVE  DeliversInOrder!IsSubsequence(s, t)
<1> DEFINE v == s \o u
           w == SubSeq(t, 1, k)
<1>1. /\ Len(s) \in Nat /\ Len(t) \in Nat /\ DOMAIN s = 1..Len(s) /\ DOMAIN t = 1..Len(t)
      /\ DOMAIN s \subseteq DOMAIN v /\ \A i \in 1..Len(s) : v[i] = s[i]
      /\ DOMAIN w = 1..k /\ \A i \in 1..k : w[i] = t[i]
  OBVIOUS
<1> HIDE DEF v, w
<1>2. PICK at \in [DOMAIN v -> DOMAIN w] :
        /\ \A i \in DOMAIN v : v[i] = w[at[i]]
        /\ \A i, j \in DOMAIN v : i < j => at[i] < at[j]
  BY DEF DeliversInOrder!IsSubsequence, v, w
<1> DEFINE to == [i \in DOMAIN s |-> at[i]]
<1>3. \A i \in DOMAIN s : to[i] = at[i] /\ at[i] \in 1..k
  BY <1>1, <1>2
<1>4. to \in [DOMAIN s -> DOMAIN t]
  BY <1>1, <1>3
<1> HIDE DEF to
<1>5. \A i \in DOMAIN s : s[i] = t[to[i]]
  BY <1>1, <1>2, <1>3
<1>6. \A i, j \in DOMAIN s : i < j => to[i] < to[j]
  BY <1>1, <1>2, <1>3
<1> QED BY <1>4, <1>5, <1>6 DEF DeliversInOrder!IsSubsequence

\* The first k messages, and the next
LEMMA SerializedNext ==
  ASSUME NEW s \in Seq(Messages), NEW k \in Nat, k < Len(s)
  PROVE  /\ s[k + 1] \in Messages
         /\ SubSeq(s, 1, k) \in Seq(Messages)
         /\ SubSeq(s, 1, k + 1) = Append(SubSeq(s, 1, k), s[k + 1])
         /\ Serialized(SubSeq(s, 1, k + 1)) = Serialized(SubSeq(s, 1, k)) \o Serialize(s[k + 1])
<1>1. /\ s[k + 1] \in Messages
      /\ SubSeq(s, 1, k) \in Seq(Messages)
      /\ SubSeq(s, 1, k + 1) = Append(SubSeq(s, 1, k), s[k + 1])
  OBVIOUS
<1> QED BY <1>1, SerializedAppend

\* The first messages are the beginning of the stream.
LEMMA SerializedPrefix ==
  ASSUME NEW s \in Seq(Messages), NEW k \in 0..Len(s)
  PROVE  IsPrefix(Serialized(SubSeq(s, 1, k)), Serialized(s))
<1> DEFINE first(j) == Serialized(SubSeq(s, 1, j))
           Holds(n) == n <= Len(s) => IsPrefix(first(Len(s) - n), Serialized(s))
           T == {n \in Nat : Holds(n)}
<1>1. Len(s) \in Nat /\ SubSeq(s, 1, Len(s)) = s /\ Serialized(s) \in Seq(Characters)
  <2>1. Serialized(s) \in Seq(Characters)
    BY SerializedType
  <2> HIDE DEF first, Holds, T
  <2> QED BY <2>1, SubSeqFull, LenProperties
<1>2. \A j \in 0..Len(s) : first(j) \in Seq(Characters)
  <2>1. \A j \in 0..Len(s) : SubSeq(s, 1, j) \in Seq(Messages)
    OBVIOUS
  <2> QED BY <2>1, SerializedType
<1>3. Holds(0)
  <2>1. Len(s) - 0 = Len(s)
    BY <1>1
  <2>2. IsPrefix(Serialized(s), Serialized(s))
    BY <1>1, PrefixPointwise, LenProperties
  <2> QED BY <1>1, <2>1, <2>2
<1>4. ASSUME NEW n \in Nat, Holds(n) PROVE Holds(n + 1)
  <2> DEFINE j == Len(s) - (n + 1)
  <2> SUFFICES ASSUME n + 1 <= Len(s) PROVE IsPrefix(first(j), Serialized(s))
    OBVIOUS
  <2>1. j \in Nat /\ j < Len(s) /\ j + 1 = Len(s) - n /\ n <= Len(s)
    BY <1>1
  <2>2. IsPrefix(first(j + 1), Serialized(s))
    BY <1>4, <2>1
  <2> HIDE DEF j
  <2>3. first(j + 1) = first(j) \o Serialize(s[j + 1]) /\ Serialize(s[j + 1]) \in Seq(Characters)
    BY <2>1, SerializedNext, SerializeForm
  <2>4. first(j) \in Seq(Characters) /\ first(j + 1) \in Seq(Characters)
    BY <1>1, <1>2, <2>1
  <2> HIDE DEF first
  <2>5. IsPrefix(first(j), first(j + 1))
    BY <2>3, <2>4, PrefixOfConcat
  <2> QED BY <1>1, <2>2, <2>4, <2>5, PrefixTransitive
<1>5. Nat \subseteq T
  <2> HIDE DEF Holds
  <2>1. 0 \in T /\ \A n \in Nat : n \in T => n + 1 \in T
    BY <1>3, <1>4
  <2> QED BY <2>1, SetInduction
<1>6. Holds(Len(s) - k) /\ Len(s) - k \in Nat /\ Len(s) - k <= Len(s) /\ Len(s) - (Len(s) - k) = k
  <2> HIDE DEF Holds
  <2> QED BY <1>1, <1>5
<1> QED BY <1>6

\* Where in the stream the first k messages end
Upto(k) == Len(Serialized(SubSeq(sent, 1, k)))

\* deserialize has been through the first k messages and q characters of the
\* next.  When it is building it has all of them but the brace, and what it has
\* made of the k messages is in order.
InMessage(k, q) ==
  /\ ParsedLength = Upto(k) + q
  /\ q > 0 => k < Len(sent) /\ q <= Len(sent[k + 1]) + 1
  /\ building => q > 0 /\ currentPayload = SubSeq(sent[k + 1], 1, q - 1)
  /\ DeliversInOrder!IsSubsequence(received \o payloads, SubSeq(sent, 1, k))

\* It is in some message, or between two.
Framed == \E k \in 0..Len(sent), q \in Nat : InMessage(k, q)

\* The next character is the next of the message it is in.
LEMMA CharacterOfMessage ==
  ASSUME TypeOK, OnTheWay, Unparsed, input # <<>>,
         NEW k \in 0..Len(sent), NEW q \in Nat, InMessage(k, q)
  PROVE  /\ k < Len(sent)
         /\ Head(input) = Serialize(sent[k + 1])[q + 1]
         /\ Upto(k + 1) = Upto(k) + Len(sent[k + 1]) + 2
<1>1. sent \in Seq(Messages) /\ Len(sent) \in Nat
  BY LenProperties DEF TypeOK
<1>2. Stream \in Seq(Characters) /\ Stream = Serialized(sent) /\ arrived \in Seq(Characters)
  BY StreamTypes, StreamSerialized
<1>3. /\ ParsedLength + 1 \in 1..Len(arrived) /\ Head(input) = arrived[ParsedLength + 1]
      /\ Len(arrived) \in Nat
  BY NextCharacter
<1>4. Len(arrived) <= Len(Stream) /\ \A i \in 1..Len(arrived) : arrived[i] = Stream[i]
  BY <1>2, PrefixPointwise DEF OnTheWay
<1>5. ParsedLength = Upto(k) + q /\ (q > 0 => k < Len(sent) /\ q <= Len(sent[k + 1]) + 1)
  BY DEF InMessage
<1>6. k < Len(sent)
  <2> SUFFICES ASSUME k = Len(sent) PROVE FALSE
    BY <1>1
  <2>1. q = 0
    BY <1>1, <1>5
  <2>2. SubSeq(sent, 1, k) = sent
    BY <1>1, SubSeqFull
  <2>3. Upto(k) = Len(Stream)
    BY <1>2, <2>2 DEF Upto
  <2>4. Len(Stream) \in Nat
    BY <1>2, LenProperties
  <2> QED BY <1>3, <1>4, <1>5, <2>1, <2>3, <2>4
<1> DEFINE first == Serialized(SubSeq(sent, 1, k))
           m == sent[k + 1]
           x == Serialize(m)
<1>7. /\ k \in Nat /\ m \in Messages /\ SubSeq(sent, 1, k) \in Seq(Messages)
      /\ Serialized(SubSeq(sent, 1, k + 1)) = first \o x
  BY <1>1, <1>6, SerializedNext
<1>8. /\ first \in Seq(Characters) /\ x \in Seq(Characters) /\ Len(x) = Len(m) + 2
      /\ Len(m) \in Nat
  BY <1>7, SerializedType, SerializeForm
<1>9. IsPrefix(first \o x, Stream)
  <2>1. k + 1 \in 0..Len(sent)
    BY <1>1, <1>6
  <2> QED BY <1>1, <1>2, <1>7, <2>1, SerializedPrefix
<1>10. Upto(k) = Len(first) /\ Upto(k + 1) = Len(first \o x)
  BY <1>7 DEF Upto
<1>11. q <= Len(m) + 1
  BY <1>5, <1>8
<1> HIDE DEF first, x, m
<1>12. /\ first \o x \in Seq(Characters) /\ Len(first \o x) = Len(first) + Len(x)
       /\ Len(first) \in Nat /\ Len(x) \in Nat
       /\ \A i \in 1..Len(x) : (first \o x)[Len(first) + i] = x[i]
  BY <1>8
<1>13. \A i \in 1..Len(first \o x) : (first \o x)[i] = Stream[i]
  <2> DEFINE w == first \o x
  <2>1. w \in Seq(Characters) /\ IsPrefix(w, Stream)
    BY <1>9, <1>12
  <2> HIDE DEF w
  <2>2. \A i \in 1..Len(w) : w[i] = Stream[i]
    BY <1>2, <2>1, PrefixPointwise
  <2> QED BY <2>2 DEF w
<1>14. q + 1 \in 1..Len(x)
  BY <1>8, <1>11
<1>15. Len(first) + (q + 1) \in 1..Len(first \o x)
  BY <1>12, <1>14
<1>16. Stream[Len(first) + (q + 1)] = x[q + 1]
  BY <1>12, <1>13, <1>14, <1>15
<1>17. Head(input) = x[q + 1]
  <2>1. ParsedLength + 1 = Len(first) + (q + 1)
    BY <1>5, <1>10, <1>12
  <2> QED BY <1>3, <1>4, <1>16, <2>1
<1>18. Upto(k + 1) = Upto(k) + Len(m) + 2
  BY <1>8, <1>10, <1>12
<1> QED BY <1>6, <1>17, <1>18 DEF x, m

\* What is done besides parsing leaves deserialize where it is.
LEMMA FramedStays ==
  ASSUME Framed, sent' = sent, ParsedLength' = ParsedLength,
         received' \o payloads' = received \o payloads,
         building' => building /\ currentPayload' = currentPayload
  PROVE  Framed'
<1>1. PICK k \in 0..Len(sent), q \in Nat : InMessage(k, q)
  BY DEF Framed
<1>2. Upto(k)' = Upto(k)
  BY DEF Upto
<1>3. InMessage(k, q)'
  BY <1>1, <1>2 DEF InMessage
<1> QED BY <1>3 DEF Framed

\* deserialize takes one character further: into a message, on in it, or past its
\* end, where a payload is made that is the message, or none.
LEMMA FramedParse ==
  ASSUME TypeOK, OnTheWay, Unparsed, Framed, Parse
  PROVE  Framed'
<1>1. PICK k \in 0..Len(sent), q \in Nat : InMessage(k, q)
  BY DEF Framed
<1> DEFINE m == sent[k + 1]
           c == Head(input)
           a == "{"
           b == "}"
<1>2. /\ input # <<>> /\ input' = Tail(input) /\ arrived' = arrived /\ sent' = sent
      /\ received' = received
  BY DEF Parse, writer, told
<1>3. k < Len(sent) /\ c = Serialize(m)[q + 1] /\ Upto(k + 1) = Upto(k) + Len(m) + 2
  BY <1>1, <1>2, CharacterOfMessage
<1>4. /\ sent \in Seq(Messages) /\ input \in Seq(Characters) /\ payloads \in Seq(Seq(Characters))
      /\ currentPayload \in Seq(Characters) /\ received \in Seq(Seq(Characters))
  BY DEF TypeOK
<1>5. /\ k \in Nat /\ k + 1 \in Nat /\ k + 1 \in 0..Len(sent) /\ m \in Messages
  BY <1>3, <1>4
<1>6. m \in Seq(Plain) /\ m \in Seq(Characters) /\ Len(m) \in Nat
  BY <1>5, PayloadPlain, SeqMonotonic, LenProperties DEF Characters
<1>7. ParsedLength' = ParsedLength + 1
  <2>1. Len(input') = Len(input) - 1
    BY <1>2, <1>4, HeadTailProperties
  <2> QED BY <1>2, <2>1, NextCharacter DEF ParsedLength
<1>8. /\ ParsedLength = Upto(k) + q
      /\ q > 0 => q <= Len(m) + 1
      /\ building => q > 0 /\ currentPayload = SubSeq(m, 1, q - 1)
      /\ DeliversInOrder!IsSubsequence(received \o payloads, SubSeq(sent, 1, k))
  BY <1>1 DEF InMessage
<1>9. Upto(k)' = Upto(k) /\ Upto(k + 1)' = Upto(k + 1) /\ Upto(k) \in Nat
  <2>1. Serialized(SubSeq(sent, 1, k)) \in Seq(Characters)
    BY <1>3, <1>4, <1>5, SerializedNext, SerializedType
  <2> QED BY <1>2, <2>1, LenProperties DEF Upto
<1>10. /\ c = a <=> q = 0
       /\ c = b <=> q = Len(m) + 1
       /\ q \in 1..Len(m) => c = m[q]
  <2>1. /\ Serialize(m)[1] = a
        /\ \A i \in 1..Len(m) : Serialize(m)[i + 1] = m[i] /\ m[i] \in Plain
        /\ Serialize(m)[Len(m) + 2] = b
    BY <1>5, SerializeForm
  <2>2. a # b /\ a \notin Plain /\ b \notin Plain
    BY DEF Plain
  <2> HIDE DEF a, b, c, m
  <2>3. q = 0 \/ q \in 1..Len(m) \/ q = Len(m) + 1
    BY <1>6, <1>8
  <2>4. CASE q = 0
    BY <1>3, <1>6, <2>1, <2>2, <2>4
  <2>5. CASE q \in 1..Len(m)
    BY <1>3, <1>6, <2>1, <2>2, <2>5
  <2>6. CASE q = Len(m) + 1
    BY <1>3, <1>6, <2>1, <2>2, <2>6
  <2> QED BY <2>3, <2>4, <2>5, <2>6
<1>11. /\ c = a => building' = FALSE \/ currentPayload' = <<>>
       /\ c = a => payloads' = payloads
       /\ c = b /\ building => payloads' = Append(payloads, currentPayload)
       /\ c = b /\ ~building => payloads' = payloads
       /\ c = b => ~building'
       /\ c # a /\ c # b => payloads' = payloads /\ building' = building
       /\ c # a /\ c # b /\ building => currentPayload' = Append(currentPayload, c)
  <2>1. CASE ~building /\ c = a
    BY <2>1 DEF Parse
  <2>2. CASE ~building /\ c # a
    <3>1. payloads' = payloads /\ building' = building
      BY <2>2 DEF Parse
    <3> QED BY <2>2, <3>1
  <2>3. CASE building /\ c = a
    BY <2>3 DEF Parse
  <2>4. CASE building /\ c = b
    BY <2>4 DEF Parse, pushPayload
  <2>5. CASE building /\ c \notin {a, b}
    BY <2>5 DEF Parse
  <2> QED BY <2>1, <2>2, <2>3, <2>4, <2>5
<1> HIDE DEF a, b, c
<1>12. CASE q \in 0..Len(m)
  <2>1. c # b
    BY <1>6, <1>10, <1>12
  <2>2. payloads' = payloads
    BY <1>11, <2>1
  <2>3. building' => currentPayload' = SubSeq(m, 1, q)
    <3>1. CASE q = 0
      <4>1. SubSeq(m, 1, q) = <<>>
        BY <1>6, <3>1
      <4> QED BY <1>10, <1>11, <3>1, <4>1
    <3>2. CASE q \in 1..Len(m)
      <4>1. c # a /\ c = m[q]
        BY <1>6, <1>10, <3>2
      <4>2. SubSeq(m, 1, q) = Append(SubSeq(m, 1, q - 1), m[q])
        BY <1>6, <3>2
      <4> QED BY <1>8, <1>11, <2>1, <4>1, <4>2
    <3> QED BY <1>6, <1>12, <3>1, <3>2
  <2>4. ParsedLength' = Upto(k)' + (q + 1) /\ q + 1 > 0 /\ q + 1 <= Len(m) + 1 /\ (q + 1) - 1 = q
    BY <1>6, <1>7, <1>8, <1>9, <1>12
  <2>5. InMessage(k, q + 1)'
    BY <1>2, <1>3, <1>8, <2>2, <2>3, <2>4 DEF InMessage, m
  <2> QED BY <1>2, <2>5 DEF Framed
<1>13. CASE q = Len(m) + 1
  <2>1. c = b
    BY <1>10, <1>13
  <2>2. ~building'
    BY <1>11, <2>1
  <2>3. ParsedLength' = Upto(k + 1)' + 0
    <3>1. Upto(k + 1)' = Upto(k) + Len(m) + 2
      BY <1>3, <1>9
    <3>2. ParsedLength = Upto(k) + q /\ Upto(k) \in Nat /\ Len(m) \in Nat
      BY <1>6, <1>8, <1>9
    <3> HIDE DEF m
    <3> QED BY <1>7, <1>13, <3>1, <3>2, SMTT(20)
  <2>4. DeliversInOrder!IsSubsequence(received' \o payloads', SubSeq(sent, 1, k + 1))
    <3> DEFINE s == received \o payloads
               t == SubSeq(sent, 1, k)
    <3>1. /\ SubSeq(sent, 1, k + 1) = Append(t, m) /\ t \in Seq(Messages)
      BY <1>3, <1>4, <1>5, SerializedNext
    <3>2. t \in Seq(Seq(Characters)) /\ s \in Seq(Seq(Characters))
      <4>1. Messages \subseteq Seq(Characters)
        BY PayloadPlain, SeqMonotonic DEF Characters
      <4>2. s \in Seq(Seq(Characters))
        BY <1>4, ConcatProperties
      <4> QED BY <3>1, <4>1, <4>2, SeqMonotonic
    <3>3. CASE building
      <4>1. currentPayload = m
        <5>1. SubSeq(m, 1, q - 1) = m
          <6>1. q - 1 = Len(m)
            BY <1>6, <1>13
          <6> QED BY <1>6, <6>1, SubSeqFull
        <5> QED BY <1>8, <3>3, <5>1
      <4>2. received' \o payloads' = Append(s, m)
        <5>1. payloads' = Append(payloads, m)
          BY <1>11, <2>1, <3>3, <4>1
        <5> HIDE DEF m
        <5>2. received \o Append(payloads, m) = Append(received \o payloads, m)
          <6>1. /\ received \in Seq(Seq(Characters)) /\ payloads \in Seq(Seq(Characters))
                /\ m \in Seq(Characters)
            BY <1>4, <1>6
          <6> QED BY <6>1
        <5> QED BY <1>2, <5>1, <5>2
      <4> HIDE DEF s, t
      <4>3. DeliversInOrder!IsSubsequence(Append(s, m), Append(t, m))
        BY <1>6, <1>8, <3>2, TakeNext DEF s, t
      <4> QED BY <3>1, <4>2, <4>3
    <3>4. CASE ~building
      <4>1. received' \o payloads' = s
        BY <1>2, <1>11, <2>1, <3>4
      <4> HIDE DEF s, t
      <4>2. DeliversInOrder!IsSubsequence(s, Append(t, m))
        BY <1>6, <1>8, <3>2, PassOver DEF s, t
      <4> QED BY <3>1, <4>1, <4>2
    <3> QED BY <3>3, <3>4
  <2>5. InMessage(k + 1, 0)'
    BY <1>2, <2>2, <2>3, <2>4 DEF InMessage
  <2> QED BY <1>2, <1>5, <2>5 DEF Framed
<1>14. q \in 0..Len(m) \/ q = Len(m) + 1
  BY <1>6, <1>8
<1> QED BY <1>12, <1>13, <1>14

\* Reads, deliveries and closes leave it where it is; a write only adds a
\* message behind those it has been through.
LEMMA FramedStep ==
  ASSUME TypeOK, OnTheWay, Unparsed, Framed, [Next]_vars
  PROVE  Framed'
<1>1. ASSUME NEW m \in Messages, Write(m) PROVE Framed'
  <2>1. PICK k \in 0..Len(sent), q \in Nat : InMessage(k, q)
    BY DEF Framed
  <2>2. /\ sent \in Seq(Messages) /\ sent' = Append(sent, m)
        /\ building' = building /\ currentPayload' = currentPayload
        /\ payloads' = payloads /\ received' = received /\ ParsedLength' = ParsedLength
    BY <1>1 DEF Write, TypeOK, ParsedLength, reader, parser, told
  <2>3. k \in 0..Len(sent') /\ SubSeq(sent', 1, k) = SubSeq(sent, 1, k)
    BY <2>2
  <2>4. k < Len(sent) => k < Len(sent') /\ sent'[k + 1] = sent[k + 1]
    BY <2>2
  <2>5. Upto(k)' = Upto(k)
    BY <2>3 DEF Upto
  <2>6. ParsedLength = Upto(k) + q /\ (q > 0 => k < Len(sent) /\ q <= Len(sent[k + 1]) + 1)
    BY <2>1 DEF InMessage
  <2>7. building => q > 0 /\ currentPayload = SubSeq(sent[k + 1], 1, q - 1)
    BY <2>1 DEF InMessage
  <2>8. DeliversInOrder!IsSubsequence(received \o payloads, SubSeq(sent, 1, k))
    BY <2>1 DEF InMessage
  <2>9. building' => q > 0 /\ currentPayload' = SubSeq(sent'[k + 1], 1, q - 1)
    BY <2>2, <2>4, <2>6, <2>7
  <2>10. DeliversInOrder!IsSubsequence(received' \o payloads', SubSeq(sent', 1, k))
    BY <2>2, <2>3, <2>8
  <2>11. ParsedLength' = Upto(k)' + q /\ (q > 0 => k < Len(sent') /\ q <= Len(sent'[k + 1]) + 1)
    BY <2>2, <2>4, <2>5, <2>6
  <2>12. InMessage(k, q)'
    BY <2>9, <2>10, <2>11 DEF InMessage
  <2> QED BY <2>3, <2>12 DEF Framed
<1>2. CASE StartWrite
  BY <1>2, FramedStays DEF StartWrite, ParsedLength, writer, reader, parser, told
<1>3. CASE NextBuffer
  BY <1>3, FramedStays DEF NextBuffer, ParsedLength, writer, reader, parser, told
<1>4. ASSUME NEW n \in 1..SocketSize, Send(n) PROVE Framed'
  BY <1>4, FramedStays DEF Send, ParsedLength, writer, reader, parser, told
<1>5. CASE SendFails
  BY <1>5, FramedStays DEF SendFails, ParsedLength, writer, reader, parser, told
<1>6. CASE FinishWrite
  BY <1>6, FramedStays DEF FinishWrite, ParsedLength, writer, reader, parser, told
<1>7. CASE CloseWriter
  BY <1>7, FramedStays DEF CloseWriter, ParsedLength, writer, reader, parser, told
<1>8. CASE StartRead
  BY <1>8, FramedStays DEF StartRead, ParsedLength, writer, reader, parser, told
<1>9. ASSUME NEW n \in 1..ReadSize, Read(n) PROVE Framed'
  <2>1. ParsedLength' = ParsedLength
    BY <1>9, ReadParsesNothing
  <2> QED BY <1>9, <2>1, FramedStays DEF Read, writer, parser, told
<1>10. CASE NothingToRead
  BY <1>10, FramedStays DEF NothingToRead, ParsedLength, writer, reader, parser, told
<1>11. CASE EndOfFile
  BY <1>11, FramedStays DEF EndOfFile, ParsedLength, writer, reader, parser, told
<1>12. CASE ReadFails
  BY <1>12, FramedStays DEF ReadFails, ParsedLength, writer, reader, parser, told
<1>13. CASE Parse
  BY <1>13, FramedParse
<1>14. CASE Parsed
  BY <1>14, FramedStays DEF Parsed, ParsedLength, writer, reader, parser, told
<1>15. CASE Deliver
  <2>1. /\ payloads \in Seq(Seq(Characters)) /\ payloads # <<>> /\ received \in Seq(Seq(Characters))
        /\ received' = Append(received, Head(payloads)) /\ payloads' = Tail(payloads)
    BY <1>15 DEF Deliver, getPayload, payloadEmpty, TypeOK
  <2>2. received' \o payloads' = received \o payloads
    BY <2>1, SMTT(20)
  <2> QED BY <1>15, <2>2, FramedStays DEF Deliver, ParsedLength, writer
<1>16. CASE Report
  BY <1>16, FramedStays DEF Report, ParsedLength, writer, reader, parser, told
<1>17. CASE FinishRead
  BY <1>17, FramedStays DEF FinishRead, ParsedLength, writer, reader, parser, told
<1>18. CASE CloseReader
  BY <1>18, FramedStays DEF CloseReader, ParsedLength, writer, reader, parser, told
<1>19. CASE UNCHANGED vars
  BY <1>19, FramedStays DEF vars, ParsedLength, writer, reader, parser, told
<1> QED BY <1>1, <1>2, <1>3, <1>4, <1>5, <1>6, <1>7, <1>8, <1>9, <1>10, <1>11, <1>12, <1>13,
     <1>14, <1>15, <1>16, <1>17, <1>18, <1>19 DEF Next, WriteCallback, ReadCallback,
     Application, Reads

\* Between the characters that were parsed and the payloads made of them
THEOREM FramingInvariant == Spec => []Framed
<1>1. Init => Unparsed /\ Framed
  <2> SUFFICES ASSUME Init PROVE Unparsed /\ Framed
    OBVIOUS
  <2>1. /\ sent = <<>> /\ arrived = <<>> /\ input = <<>> /\ payloads = <<>> /\ received = <<>>
        /\ ~building
    BY DEF Init
  <2>2. Unparsed
    <3>1. Len(<<>>) = 0
      OBVIOUS
    <3> QED BY <2>1, <3>1 DEF Unparsed
  <2>3. ParsedLength = 0 /\ SubSeq(sent, 1, 0) = <<>> /\ received \o payloads = <<>> /\ 0 \in
       0..Len(sent)
    BY <2>1 DEF ParsedLength
  <2>4. Upto(0) = 0
    <3>1. [i \in DOMAIN <<>> |-> Serialize(<<>>[i])] = <<>>
      OBVIOUS
    <3> QED BY <2>3, <3>1, FlattenEmpty DEF Upto, Serialized
  <2>5. DeliversInOrder!IsSubsequence(<<>>, <<>>)
    <3>1. <<>> \in Seq(Messages)
      OBVIOUS
    <3> QED BY <3>1, NoneOf
  <2>6. InMessage(0, 0)
    <3>1. ParsedLength = Upto(0) + 0 /\ ~(0 > 0)
      BY <2>3, <2>4
    <3>2. DeliversInOrder!IsSubsequence(received \o payloads, SubSeq(sent, 1, 0))
      <4>1. SubSeq(sent, 1, 0) = <<>> /\ received \o payloads = <<>>
        BY <2>3
      <4> QED BY <2>5, <4>1, Zenon
    <3> QED BY <2>1, <3>1, <3>2, Zenon DEF InMessage
  <2> QED BY <2>2, <2>3, <2>6 DEF Framed
<1>2. TypeOK /\ OnTheWay /\ Unparsed /\ Framed /\ [Next]_vars => Unparsed' /\ Framed'
  BY UnparsedStep, FramedStep
<1> QED BY <1>1, <1>2, MessagesTypeCorrect, StreamInvariant, PTL DEF Spec

\* What onRead has been given, with the payloads that wait, is in order.
LEMMA DeliveredSoFar ==
  ASSUME TypeOK, Framed
  PROVE  DeliversInOrder!IsSubsequence(received, sent)
<1>1. PICK k \in 0..Len(sent), q \in Nat : InMessage(k, q)
  BY DEF Framed
<1>2. DeliversInOrder!IsSubsequence(received \o payloads, SubSeq(sent, 1, k))
  BY <1>1 DEF InMessage
<1>3. /\ sent \in Seq(Seq(Characters))
      /\ received \in Seq(Seq(Characters)) /\ payloads \in Seq(Seq(Characters))
  <2>1. Messages \subseteq Seq(Characters)
    BY PayloadPlain, SeqMonotonic DEF Characters
  <2> QED BY <2>1, SeqMonotonic DEF TypeOK
<1> QED BY <1>2, <1>3, DeliveredPart

\* The two ends implement the channel: a write is its Send, a delivery its Receive
\* of a payload that was sent after those received before, and no other step
\* shows.
THEOREM DeliveredInOrder == Spec => InOrder
<1> DEFINE Shown == <<sent, received>>
<1>1. Init => DeliversInOrder!Init
  BY DEF Init, DeliversInOrder!Init
<1>2. ASSUME TypeOK, Framed', TypeOK', [Next]_vars
      PROVE  [DeliversInOrder!Next]_Shown
  <2>1. ASSUME NEW m \in Messages, Write(m) PROVE DeliversInOrder!Next
    <3>1. DeliversInOrder!Send(m)
      BY <2>1 DEF Write, DeliversInOrder!Send, reader, told
    <3> QED BY <3>1 DEF DeliversInOrder!Next
  <2>2. ASSUME Deliver PROVE DeliversInOrder!Next
    <3> DEFINE m == Head(payloads)
    <3>1. received' = Append(received, m) /\ sent' = sent
      BY <2>2 DEF Deliver, getPayload, writer
    <3>2. DeliversInOrder!IsSubsequence(received', sent')
      <4>1. DeliversInOrder!IsSubsequence(received, sent)'
        BY <1>2, DeliveredSoFar, PTL
      <4> QED BY <4>1
    <3>3. m \in Messages
      <4>1. received \in Seq(Seq(Characters)) /\ sent' \in Seq(Messages) /\ m \in Seq(Characters)
        BY <1>2, <2>2, HeadTailProperties DEF TypeOK, Deliver, payloadEmpty
      <4>2. PICK at \in [DOMAIN received' -> DOMAIN sent'] :
              \A i \in DOMAIN received' : received'[i] = sent'[at[i]]
        BY <3>2 DEF DeliversInOrder!IsSubsequence
      <4> HIDE DEF m
      <4>3. Len(received) + 1 \in DOMAIN received' /\ received'[Len(received) + 1] = m
        BY <3>1, <4>1
      <4>4. at[Len(received) + 1] \in DOMAIN sent'
        BY <4>2, <4>3
      <4>5. \A i \in DOMAIN sent' : sent'[i] \in Messages
        BY <4>1
      <4> QED BY <4>2, <4>3, <4>4, <4>5
    <3>4. DeliversInOrder!Receive(m)
      BY <3>1, <3>2 DEF DeliversInOrder!Receive
    <3> QED BY <3>3, <3>4 DEF DeliversInOrder!Next
  <2>3. ASSUME NEW n \in 1..SocketSize, Send(n) PROVE UNCHANGED Shown
    BY <2>3 DEF Send, reader, told
  <2>4. ASSUME NEW n \in 1..ReadSize, Read(n) PROVE UNCHANGED Shown
    BY <2>4 DEF Read, writer, told
  <2>5. CASE StartWrite \/ NextBuffer \/ FinishWrite \/ SendFails \/ CloseWriter
    BY <2>5 DEF StartWrite, NextBuffer, FinishWrite, SendFails, CloseWriter, reader, told
  <2>6. CASE StartRead \/ NothingToRead \/ EndOfFile \/ ReadFails \/ FinishRead \/ CloseReader
    BY <2>6 DEF StartRead, NothingToRead, EndOfFile, ReadFails, FinishRead, CloseReader,
                writer, told
  <2>7. CASE Parse \/ Parsed \/ Report
    BY <2>7 DEF Parse, Parsed, Report, writer, told
  <2>8. CASE UNCHANGED vars
    BY <2>8 DEF vars, writer, reader, told
  <2> QED BY <1>2, <2>1, <2>2, <2>3, <2>4, <2>5, <2>6, <2>7, <2>8
          DEF Next, WriteCallback, ReadCallback, Application, Reads
<1>3. Spec => DeliversInOrder!Init /\ [][DeliversInOrder!Next]_Shown
  BY <1>1, <1>2, MessagesTypeCorrect, FramingInvariant, PTL DEF Spec
<1> QED BY <1>3 DEF InOrder, DeliversInOrder!Spec
=============================================================================
