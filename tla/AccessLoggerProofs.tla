------------------------- MODULE AccessLoggerProofs -------------------------
(***************************************************************************)
(* The access logger implements LossyLog, for any size of the channel and   *)
(* of a batch and any number of requests.                                   *)
(***************************************************************************)
EXTENDS AccessLogger, SequenceTheorems, TLAPS

-----------------------------------------------------------------------------
(* Sequences.                                                               *)

LEMMA HeadThenTail ==
    ASSUME NEW S, NEW s \in Seq(S), s # <<>>
    PROVE  s = <<Head(s)>> \o Tail(s)
<1>1. Len(s) \in Nat /\ Len(s) >= 1
  BY EmptySeq
<1>2. SubSeq(s, 1, Len(s)) = <<s[1]>> \o SubSeq(s, 2, Len(s))
  <2>1. 1 \in 1..Len(s) /\ Len(s) \in 1..Len(s)
    BY <1>1
  <2>2. SubSeq(s, 1, Len(s)) = <<s[1]>> \o SubSeq(s, 1 + 1, Len(s))
    BY <2>1, SubSeqRecursiveFirst
  <2> QED
    BY <2>2
<1>3. SubSeq(s, 1, Len(s)) = s
  BY SubSeqFull
<1>4. Tail(s) = SubSeq(s, 2, Len(s))
  BY TailIsSubSeq
<1>5. Head(s) = s[1]
  BY <1>1
<1> QED
  BY <1>2, <1>3, <1>4, <1>5

\* Taking the head of b over to the end of a leaves their concatenation.
LEMMA TakeOver ==
    ASSUME NEW S, NEW a \in Seq(S), NEW b \in Seq(S), b # <<>>
    PROVE  /\ Append(a, Head(b)) \in Seq(S) /\ Tail(b) \in Seq(S)
           /\ Append(a, Head(b)) \o Tail(b) = a \o b
<1>1. Head(b) \in S /\ Tail(b) \in Seq(S)
  BY HeadTailProperties
<1>2. Append(a, Head(b)) \in Seq(S) /\ Append(a, Head(b)) = a \o <<Head(b)>>
  BY <1>1, AppendProperties, AppendIsConcat
<1>3. <<Head(b)>> \in Seq(S)
  BY <1>1
<1>4. (a \o <<Head(b)>>) \o Tail(b) = a \o (<<Head(b)>> \o Tail(b))
  BY <1>1, <1>3, ConcatAssociative
<1>5. b = <<Head(b)>> \o Tail(b)
  BY HeadThenTail
<1> QED
  BY <1>1, <1>2, <1>4, <1>5

\* The two parts of a concatenation are its beginning and its end.
LEMMA ConcatParts ==
    ASSUME NEW S, NEW s \in Seq(S), NEW t \in Seq(S), s # <<>>
    PROVE  /\ SubSeq(s \o t, 1, Len(s)) = s
           /\ SubSeq(s \o t, Len(s) + 1, Len(s \o t)) = t
<1>1. Len(s) \in Nat /\ Len(s) >= 1 /\ Len(t) \in Nat
  BY EmptySeq, LenProperties
<1>2. Len(s \o t) = Len(s) + Len(t)
  BY ConcatProperties
<1>3. SubSeq(s \o t, 1, Len(s)) = s
  <2>1. 1 \in 1..Len(s) /\ Len(s) \in 1..Len(s)
    BY <1>1
  <2> QED
    BY <2>1, SubSeqOfConcat1, SubSeqFull
<1>4. CASE t = <<>>
  <2>1. Len(t) = 0
    BY <1>4
  <2>2. Len(s) + 1 \in Int /\ Len(s \o t) \in Int /\ Len(s \o t) < Len(s) + 1
    BY <1>1, <1>2, <2>1
  <2> QED
    BY <1>3, <1>4, <2>2, SubSeqEmpty
<1>5. CASE t # <<>>
  <2>1. Len(t) >= 1
    BY <1>5, EmptySeq
  <2> DEFINE m == Len(s) + 1
             n == Len(s) + Len(t)
  <2>2. /\ m \in Len(s)+1 .. Len(s)+Len(t) /\ n \in Len(s)+1 .. Len(s)+Len(t)
        /\ m - Len(s) = 1 /\ n - Len(s) = Len(t)
    BY <1>1, <2>1
  <2>3. SubSeq(s \o t, m, n) = SubSeq(t, m - Len(s), n - Len(s))
    BY <2>2, SubSeqOfConcat2
  <2>4. SubSeq(s \o t, m, n) = t
    BY <2>2, <2>3, SubSeqFull
  <2> QED
    BY <1>2, <1>3, <2>4
<1> QED
  BY <1>4, <1>5

-----------------------------------------------------------------------------
(* The invariant: while a batch is written nothing has been collected yet.  *)

LogInv == TypeOK /\ (Flushing => buffer = <<>>)

LEMMA LogTypes ==
    ASSUME AccessLoggerAssumption, LogInv
    PROVE  /\ accessLogChan \in Seq(1..MaxEntries) /\ buffer \in Seq(1..MaxEntries)
           /\ toWrite \in Seq(1..MaxEntries) /\ table \in Seq(1..MaxEntries)
           /\ Len(accessLogChan) \in Nat /\ Len(buffer) \in Nat /\ Len(toWrite) \in Nat
           /\ Len(accessLogChan) <= logBufferSize
           /\ Len(buffer) < logFlushSize /\ Len(toWrite) <= logFlushSize
           /\ made \in 0..MaxEntries
           /\ logBufferSize \in Nat /\ logBufferSize >= 1
           /\ logFlushSize \in Nat /\ logFlushSize >= 1 /\ MaxEntries \in Nat
<1>1. /\ accessLogChan \in Seq(1..MaxEntries) /\ buffer \in Seq(1..MaxEntries)
      /\ toWrite \in Seq(1..MaxEntries) /\ table \in Seq(1..MaxEntries)
  BY DEF LogInv, TypeOK
<1> QED
  BY <1>1, LenProperties DEF LogInv, TypeOK, AccessLoggerAssumption

\* What is pending, put together.
LEMMA PendingParts ==
    ASSUME AccessLoggerAssumption, LogInv
    PROVE  /\ Pending \in Seq(1..MaxEntries)
           /\ Len(Pending) = Len(toWrite) + Len(buffer) + Len(accessLogChan)
           /\ Flushing => Pending = toWrite \o accessLogChan
           /\ ~Flushing => Pending = buffer \o accessLogChan
<1> DEFINE E == 1..MaxEntries
<1>1. accessLogChan \in Seq(E) /\ buffer \in Seq(E) /\ toWrite \in Seq(E)
  BY LogTypes
<1> HIDE DEF E
<1>2. toWrite \o buffer \in Seq(E) /\ Len(toWrite \o buffer) = Len(toWrite) + Len(buffer)
  BY <1>1, ConcatProperties
<1>3. Pending \in Seq(E) /\ Len(Pending) = Len(toWrite) + Len(buffer) + Len(accessLogChan)
  BY <1>1, <1>2, ConcatProperties DEF Pending
<1>4. Flushing => Pending = toWrite \o accessLogChan
  BY <1>1, ConcatEmptySeq DEF LogInv, Pending
<1>5. ~Flushing => Pending = buffer \o accessLogChan
  BY <1>1, ConcatEmptySeq DEF Flushing, Pending
<1> QED
  BY <1>3, <1>4, <1>5 DEF E

LEMMA LoggerInit ==
    ASSUME AccessLoggerAssumption, Init
    PROVE  LogInv /\ Abstract!LogInit
<1>1. <<>> \in Seq(1..MaxEntries) /\ Len(<<>>) = 0
  BY EmptySeq
<1>2. LogInv
  BY <1>1 DEF Init, LogInv, TypeOK, Flushing, AccessLoggerAssumption
<1>3. Pending = <<>>
  BY <1>1, ConcatEmptySeq DEF Init, Pending
<1> QED
  BY <1>2, <1>3 DEF Init, Abstract!LogInit

-----------------------------------------------------------------------------
(* Every step of the logger is a step of LossyLog, or changes nothing of it. *)

Maps == [Abstract!LogNext]_(Abstract!logVars)

LEMMA LogAccessMaps ==
    ASSUME AccessLoggerAssumption, LogInv, LogAccess
    PROVE  LogInv' /\ Maps
<1> DEFINE E == 1..MaxEntries
           n == made + 1
           front == toWrite \o buffer
<1>1. /\ accessLogChan \in Seq(E) /\ buffer \in Seq(E) /\ toWrite \in Seq(E)
      /\ made < MaxEntries /\ made' = n /\ UNCHANGED <<buffer, toWrite, table>>
      /\ n \in E /\ n \in 0..MaxEntries
  BY LogTypes DEF LogAccess
<1> HIDE DEF E
<1>2. front \in Seq(E) /\ Pending = front \o accessLogChan
  BY <1>1, ConcatProperties DEF Pending
<1>3. Pending' = front \o accessLogChan'
  BY <1>1 DEF Pending
<1> HIDE DEF n, front
<1>4. CASE Len(accessLogChan) < logBufferSize
  <2>1. accessLogChan' = Append(accessLogChan, n)
    BY <1>4 DEF LogAccess, n
  <2>2. accessLogChan' \in Seq(E) /\ Len(accessLogChan') = Len(accessLogChan) + 1
    BY <1>1, <2>1, AppendProperties
  <2>3. Pending' = Append(Pending, n)
    <3>1. accessLogChan' = accessLogChan \o <<n>> /\ <<n>> \in Seq(E)
      BY <1>1, <2>1, AppendIsConcat
    <3>2. Pending' = Pending \o <<n>>
      BY <1>1, <1>2, <1>3, <3>1, ConcatAssociative
    <3>3. Pending \in Seq(E)
      BY PendingParts DEF E
    <3> QED
      BY <1>1, <3>2, <3>3, AppendIsConcat
  <2>4. Len(Pending) < logBufferSize + logFlushSize
    BY <1>4, PendingParts, LogTypes DEF LogInv, Flushing
  <2>5. LogInv'
    <3>1. Len(accessLogChan') <= logBufferSize
      BY <1>4, <2>2, LogTypes
    <3> QED
      BY <1>1, <2>2, <3>1 DEF LogInv, TypeOK, Flushing, E
  <2>6. Abstract!Log
    BY <1>1, <2>3, <2>4 DEF Abstract!Log, n
  <2> QED
    BY <2>5, <2>6 DEF Maps, Abstract!LogNext
<1>5. CASE ~(Len(accessLogChan) < logBufferSize)
  <2>1. accessLogChan' = accessLogChan
    BY <1>5 DEF LogAccess
  <2>2. LogInv'
    BY <1>1, <2>1 DEF LogInv, TypeOK, Flushing, E
  <2>3. Pending' = Pending
    BY <1>2, <1>3, <2>1
  <2>4. Len(Pending) >= logBufferSize
    BY <1>5, PendingParts, LogTypes
  <2>5. Abstract!TurnAway
    BY <1>1, <2>3, <2>4 DEF Abstract!TurnAway, n
  <2> QED
    BY <2>2, <2>5 DEF Maps, Abstract!LogNext
<1> QED
  BY <1>4, <1>5

LEMMA ReceiveMaps ==
    ASSUME AccessLoggerAssumption, LogInv, Receive
    PROVE  LogInv' /\ Maps
<1> DEFINE E == 1..MaxEntries
           got == Append(buffer, Head(accessLogChan))
<1>1. /\ accessLogChan \in Seq(E) /\ buffer \in Seq(E) /\ table \in Seq(E)
      /\ toWrite = <<>> /\ accessLogChan # <<>> /\ accessLogChan' = Tail(accessLogChan)
      /\ UNCHANGED <<made, table>>
  BY LogTypes DEF Receive, Flushing
<1> HIDE DEF E
<1>2. /\ got \in Seq(E) /\ accessLogChan' \in Seq(E)
      /\ got \o accessLogChan' = buffer \o accessLogChan
  BY <1>1, TakeOver
<1>3. Len(got) = Len(buffer) + 1 /\ Len(accessLogChan') = Len(accessLogChan) - 1
  BY <1>1, HeadTailProperties, AppendProperties
<1>4. Pending = buffer \o accessLogChan
  BY <1>1, PendingParts DEF Flushing
<1>5. Len(accessLogChan') <= logBufferSize /\ Len(got) <= logFlushSize
  BY <1>3, LogTypes
<1>6. <<>> \in Seq(E) /\ Len(<<>>) = 0 /\ 0 < logFlushSize /\ 0 <= logFlushSize
  BY EmptySeq, LogTypes
<1>7. IF Len(got) < logFlushSize THEN buffer' = got /\ toWrite' = <<>>
                                 ELSE buffer' = <<>> /\ toWrite' = got
  BY <1>1 DEF Receive
<1> HIDE DEF got
<1>8. Pending' = got \o accessLogChan'
  BY <1>2, <1>6, <1>7, ConcatEmptySeq DEF Pending
<1>9. LogInv'
  <2>1. TypeOK'
    BY <1>1, <1>2, <1>5, <1>6, <1>7 DEF LogInv, TypeOK, E
  <2> QED
    BY <1>7, <2>1 DEF LogInv, Flushing
<1>10. UNCHANGED Abstract!logVars
  BY <1>1, <1>2, <1>4, <1>8 DEF Abstract!logVars
<1> QED
  BY <1>9, <1>10 DEF Maps

LEMMA TickFlushMaps ==
    ASSUME AccessLoggerAssumption, LogInv, TickFlush
    PROVE  LogInv' /\ Maps
<1>1. /\ accessLogChan \in Seq(1..MaxEntries) /\ buffer \in Seq(1..MaxEntries)
      /\ toWrite = <<>> /\ buffer' = <<>> /\ toWrite' = buffer
      /\ UNCHANGED <<made, accessLogChan, table>>
  BY LogTypes DEF TickFlush, Flushing
<1>2. Pending = buffer \o accessLogChan
  BY <1>1, PendingParts DEF Flushing
<1>3. Pending' = buffer \o accessLogChan
  BY <1>1, ConcatEmptySeq DEF Pending
<1>4. LogInv'
  <2>1. <<>> \in Seq(1..MaxEntries) /\ Len(<<>>) = 0 /\ 0 < logFlushSize
        /\ Len(buffer) <= logFlushSize
    BY EmptySeq, LogTypes
  <2>2. TypeOK'
    BY <1>1, <2>1 DEF LogInv, TypeOK
  <2> QED
    BY <1>1, <2>2 DEF LogInv
<1>5. UNCHANGED Abstract!logVars
  BY <1>1, <1>2, <1>3 DEF Abstract!logVars
<1> QED
  BY <1>4, <1>5 DEF Maps

LEMMA BatchMaps ==
    ASSUME AccessLoggerAssumption, LogInv, Insert \/ InsertFails
    PROVE  LogInv' /\ Maps
<1> DEFINE E == 1..MaxEntries
           k == Len(toWrite)
<1>1. /\ accessLogChan \in Seq(E) /\ toWrite \in Seq(E) /\ table \in Seq(E)
      /\ toWrite # <<>> /\ buffer = <<>> /\ toWrite' = <<>>
      /\ UNCHANGED <<made, accessLogChan, buffer>>
      /\ table' \in {table, table \o toWrite}
  BY LogTypes DEF Insert, InsertFails, Flushing, LogInv
<1> HIDE DEF E
<1>2. Pending = toWrite \o accessLogChan
  BY <1>1, PendingParts DEF Flushing
<1>3. SubSeq(Pending, 1, k) = toWrite /\ SubSeq(Pending, k + 1, Len(Pending)) = accessLogChan
  BY <1>1, <1>2, ConcatParts
<1>4. Pending' = accessLogChan
  BY <1>1, ConcatEmptySeq, EmptySeq DEF Pending
<1>5. k \in 1..logFlushSize /\ k <= Len(Pending)
  BY <1>1, EmptySeq, LogTypes, PendingParts
<1>6. table \o toWrite \in Seq(E)
  BY <1>1, ConcatProperties
<1> HIDE DEF k
<1>7. Abstract!Batch(k)
  BY <1>1, <1>3, <1>4, <1>5 DEF Abstract!Batch
<1>8. LogInv'
  <2>1. <<>> \in Seq(E) /\ Len(<<>>) = 0 /\ 0 <= logFlushSize
    BY EmptySeq, LogTypes
  <2>2. TypeOK'
    BY <1>1, <1>6, <2>1 DEF LogInv, TypeOK, E
  <2> QED
    BY <1>1, <2>2 DEF LogInv
<1> QED
  BY <1>5, <1>7, <1>8 DEF Maps, Abstract!LogNext

LEMMA RestMaps ==
    ASSUME AccessLoggerAssumption, LogInv, ClearAccessLogs \/ Reboot \/ UNCHANGED loggerVars
    PROVE  LogInv' /\ Maps
<1>0. <<>> \in Seq(1..MaxEntries) /\ Len(<<>>) = 0 /\ 0 <= logBufferSize /\ 0 < logFlushSize
      /\ 0 <= logFlushSize
  BY EmptySeq, LogTypes
<1>1. CASE ClearAccessLogs
  <2>1. UNCHANGED <<made, accessLogChan, buffer, toWrite>> /\ table' = <<>>
    BY <1>1 DEF ClearAccessLogs
  <2>2. LogInv'
    BY <1>0, <2>1 DEF LogInv, TypeOK, Flushing
  <2>3. Abstract!ClearTable
    BY <2>1 DEF Abstract!ClearTable, Pending
  <2> QED
    BY <2>2, <2>3 DEF Maps, Abstract!LogNext
<1>2. CASE Reboot
  <2>1. UNCHANGED <<made, table>> /\ accessLogChan' = <<>> /\ buffer' = <<>> /\ toWrite' = <<>>
    BY <1>2 DEF Reboot
  <2>2. LogInv'
    BY <1>0, <2>1 DEF LogInv, TypeOK, Flushing
  <2>3. Pending' = <<>>
    BY <1>0, <2>1, ConcatEmptySeq DEF Pending
  <2>4. Abstract!Restart
    BY <2>1, <2>3 DEF Abstract!Restart
  <2> QED
    BY <2>2, <2>4 DEF Maps, Abstract!LogNext
<1>3. CASE UNCHANGED loggerVars
  <2>1. LogInv'
    BY <1>3 DEF LogInv, TypeOK, Flushing, loggerVars
  <2>2. UNCHANGED Abstract!logVars
    BY <1>3 DEF Abstract!logVars, Pending, loggerVars
  <2> QED
    BY <2>1, <2>2 DEF Maps
<1> QED
  BY <1>1, <1>2, <1>3

LEMMA LoggerStep ==
    ASSUME AccessLoggerAssumption, LogInv, [Next]_loggerVars
    PROVE  LogInv' /\ [Abstract!LogNext]_(Abstract!logVars)
BY LogAccessMaps, ReceiveMaps, TickFlushMaps, BatchMaps, RestMaps DEF Next, Maps

\* The channel, the buffer, the batch and the table keep their types and
\* bounds.
THEOREM LoggerTypeCorrect ==
    ASSUME AccessLoggerAssumption
    PROVE  Spec => []TypeOK
<1>1. LogInv => TypeOK
  BY DEF LogInv
<1>2. Init => LogInv
  BY LoggerInit
<1>3. LogInv /\ [Next]_loggerVars => LogInv'
  BY LoggerStep
<1> QED
  BY <1>1, <1>2, <1>3, PTL DEF Spec

\* What the logger keeps reaches the table in order, once, in whole batches,
\* and an entry is only turned away when a buffer's worth is under way.
THEOREM LoggerIsLossyLog ==
    ASSUME AccessLoggerAssumption
    PROVE  Spec => LogSpec
<1>1. Init => LogInv /\ Abstract!LogInit
  BY LoggerInit
<1>2. LogInv /\ [Next]_loggerVars => LogInv' /\ [Abstract!LogNext]_(Abstract!logVars)
  BY LoggerStep
<1> QED
  BY <1>1, <1>2, PTL DEF Spec, LogSpec, Abstract!LogSpec
=============================================================================
