-------------------------- MODULE MipiConfigProofs --------------------------
(***************************************************************************)
(* Proofs about MipiConfig, for both of its variants, every table and      *)
(* every number of resets and refusals.                                    *)
(***************************************************************************)
EXTENDS MipiConfig, TLAPS

-----------------------------------------------------------------------------
(***************************************************************************)
(* How far an engine is when the walker is in a state: the walker counts   *)
(* clocks in DELY while GO is low, and the engine moves at each of them.   *)
(***************************************************************************)

\* An engine that has not moved since it was at rest.
At(x, s, e) == x.st = s /\ x.cnt = 0 /\ x.byte = 0 /\ x.dely = 0 /\ x.end = e
PtrTurned ==
  /\ ptr.st = 15 /\ ptr.cnt = 1 /\ ptr.byte = 0 /\ ptr.dely = 0 /\ ptr.end = FALSE

\* An engine that sends, with the turns of its byte counted in cnt.
WrSending ==
  /\ wr.st \in 1 .. 9 /\ wr.cnt \in 0 .. 9 /\ wr.byte \in 0 .. BYTE_NUM
  /\ wr.dely = 0 /\ wr.end = FALSE
  /\ wr.st \in 1 .. 4 => wr.cnt <= 8
PtrSending ==
  /\ ptr.st \in 2 .. 9 \union 11 .. 20 /\ ptr.cnt \in 0 .. 9 /\ ptr.byte \in 0 .. BYTE_END
  /\ ptr.dely \in 0 .. 3 /\ ptr.end = FALSE
  /\ ptr.st \in {2, 3, 4, 12, 13, 14} => ptr.cnt <= 8
RdSending ==
  /\ rd.st \in 1 .. 13 /\ rd.cnt \in 0 .. 9 /\ rd.byte \in 0 .. 2
  /\ rd.dely \in 0 .. 2 /\ rd.end = FALSE
  /\ rd.st \in {1, 2, 3, 4, 7} => rd.cnt <= 8
  /\ rd.st \in 1 .. 8 => rd.byte <= END_BYTE

\* The engine of the pointer works in states 3 and 4 of the walker only.
PtrPhase ==
  /\ ST = 0 => At(ptr, 0, TRUE)
  /\ ST \notin {0, 3, 4} => At(ptr, 10, TRUE)
  /\ ST = 3 => \/ DELY = 0 /\ At(ptr, 10, TRUE)
               \/ DELY = 1 /\ At(ptr, 11, TRUE)
               \/ DELY = 2 /\ At(ptr, 12, FALSE)
  /\ ST = 4 => \/ DELY = 0 /\ At(ptr, 13, FALSE)
               \/ DELY = 1 /\ At(ptr, 14, FALSE)
               \/ DELY = 2 /\ PtrTurned
               \/ DELY = 3 /\ (PtrSending \/ At(ptr, 10, TRUE))
  /\ go.ptr <=> ST # 3

\* That of the reads in states 7 to 9.
RdPhase ==
  /\ ST = 0 => At(rd, 0, TRUE)
  /\ ST \notin {0, 7, 8, 9} => At(rd, 30, TRUE)
  /\ ST = 7 => \/ DELY = 0 /\ At(rd, 30, TRUE)
               \/ DELY = 1 /\ At(rd, 31, TRUE)
               \/ DELY = 2 /\ At(rd, 1, FALSE)
  /\ ST = 8 => At(rd, 2, FALSE)
  /\ ST = 9 => RdSending \/ At(rd, 30, TRUE)
  /\ go.rd <=> ST # 7

\* That of the writes in states 32 to 34.
WrPhase ==
  /\ ST = 0 => At(wr, 0, TRUE)
  /\ ST \notin {0, 32, 33, 34} => At(wr, 30, TRUE)
  /\ ST = 32 => \/ DELY = 0 /\ At(wr, 30, TRUE)
                \/ DELY = 1 /\ At(wr, 31, TRUE)
                \/ DELY = 2 /\ At(wr, 1, FALSE)
                \/ DELY = 3 /\ At(wr, 2, FALSE)
  /\ ST = 33 => At(wr, 3, FALSE)
  /\ ST = 34 => WrSending \/ At(wr, 30, TRUE)
  /\ go.wr <=> ST # 32

Phase == PtrPhase /\ RdPhase /\ WrPhase

-----------------------------------------------------------------------------
(***************************************************************************)
(* Where the walker is in the table.                                       *)
(***************************************************************************)

\* The states that look at one entry of the table.
InEntry == {31, 32, 33, 34, 40, 41}

Place ==
  /\ ST \in 0 .. 10 \union {28, 30} => WCNT = 0
  /\ ST \in InEntry => WCNT \in Index
  /\ ST \in {35, 42} => WCNT \in 1 .. WORD_NUM_MAX
  /\ ST = 42 => WCNT # WORD_NUM_MAX
  /\ ST = 36 => WCNT = WORD_NUM_MAX /\ ~Camera
  /\ ST \in 0 .. 9 => CNT = 0
  /\ ST = 10 => CNT = 1
  /\ release => /\ Camera => ST = 35
                /\ ~Camera => ST = 36
                /\ WCNT = WORD_NUM_MAX

\* The table register shows WCNT, but in the clock after WCNT moved on; a label
\* that is missing leaves an earlier entry there.
Follows ==
  /\ ST \notin {0, 35, 42} /\ WCNT \in Index /\ Table[WCNT] # NoEntry => word = Table[WCNT]
  /\ ST # 0 => \E v \in Index : v <= WCNT /\ word = Table[v]

\* What is being sent: the entry of the table register, byte by byte.
Sends ==
  /\ ST \in {32, 33, 34} => latch = word /\ word \notin Delays
  /\ ST \in {40, 41} => word \in Delays
  /\ ST = 32 /\ DELY \in {2, 3} => frame = {}
  /\ ST \in {33, 34} => frame = (IF wr.byte = 0 /\ wr.st \in 1 .. 5 THEN {} ELSE {word})
  /\ ST = 34 /\ wr.st \notin 1 .. 5 => word \in stored \union lost

\* The entries behind are sent, and no entry ahead is.
Done(w) == Table[w] \in stored \union lost \union Delays \union {NoEntry}
Behind ==
  /\ \A v \in Index : v < WCNT => Done(v)
  /\ \A e \in stored : \E v \in Index : v <= WCNT /\ e = Table[v]

\* The camera has told its ID before its table is walked.
Known ==
  /\ Camera /\ ST >= 28 => id
  /\ ST < 28 => stored = {}

TableInv == Place /\ Follows /\ Sends /\ Behind /\ Known

IInv == TypeOK /\ Phase /\ TableInv

-----------------------------------------------------------------------------
(***************************************************************************)
(* What a clock does to each engine.                                       *)
(***************************************************************************)
LEMMA PointerMoves ==
  ASSUME Engines, go.ptr \in BOOLEAN, ptr \in Engine
  PROVE  /\ At(ptr, 0, TRUE) /\ go.ptr => At(ptr', 10, TRUE)
         /\ At(ptr, 10, TRUE) /\ go.ptr => At(ptr', 10, TRUE)
         /\ At(ptr, 10, TRUE) /\ ~go.ptr => At(ptr', 11, TRUE)
         /\ At(ptr, 11, TRUE) => At(ptr', 12, FALSE)
         /\ At(ptr, 12, FALSE) => At(ptr', 13, FALSE)
         /\ At(ptr, 13, FALSE) => At(ptr', 14, FALSE)
         /\ At(ptr, 14, FALSE) => PtrTurned'
         /\ PtrTurned => PtrSending'
         /\ PtrSending => PtrSending' \/ At(ptr', 10, TRUE)
<1>1. PointerIdle \/ WritePointer
  BY DEF Engines
<1>. USE DEF At, Engine, Engine0, Move, PtrTurned
<1>2. CASE PointerIdle
  BY <1>2 DEF PointerIdle, Wait, PtrSending
<1>3. CASE WritePointer
  <2>1. CASE PointerStart
    BY <2>1 DEF PointerStart, PtrSending
  <2>2. CASE PollBit
    BY <2>2 DEF PollBit, PtrSending, BYTE_END
  <2>3. CASE PollWait
    BY <2>3 DEF PollWait, PtrSending
  <2>4. CASE PollAnswered
    BY <2>4 DEF PollAnswered, PtrSending
  <2>5. CASE PollSilent
    BY <2>5 DEF PollSilent, PtrSending
  <2>6. CASE PollAgain
    <3>1. CASE ptr.st \in {17, 18} /\ ptr' = Move(ptr, ptr.st + 1)
      <4>1. CASE ptr.st = 17
        BY <3>1, <4>1 DEF PtrSending
      <4>2. CASE ptr.st = 18
        BY <3>1, <4>2 DEF PtrSending
      <4>3. QED BY <3>1, <4>1, <4>2
    <3>2. CASE ptr.st = 19 /\ ptr' = [ptr EXCEPT !.st = 20, !.dely = 0]
      BY <3>2 DEF PtrSending
    <3>3. CASE ptr.st = 20 /\ ptr' = Move(ptr, 11)
      BY <3>3 DEF PtrSending
    <3>4. QED BY <2>6, <3>1, <3>2, <3>3 DEF PollAgain
  <2>7. CASE PointerBit
    BY <2>7 DEF PointerBit, Bit, AtByteEnd, PtrSending
  <2>8. CASE PointerByte
    BY <2>8 DEF PointerByte, AtByteEnd, NextByte, PtrSending, BYTE_END
  <2>9. CASE PointerEnd
    BY <2>9 DEF PointerEnd, PtrSending
  <2>10. QED
    BY <1>3, <2>1, <2>2, <2>3, <2>4, <2>5, <2>6, <2>7, <2>8, <2>9 DEF WritePointer
<1>4. QED BY <1>1, <1>2, <1>3

LEMMA ReadMoves ==
  ASSUME Engines, go.rd \in BOOLEAN, rd \in Engine
  PROVE  /\ At(rd, 0, TRUE) /\ go.rd => At(rd', 30, TRUE)
         /\ At(rd, 30, TRUE) /\ go.rd => At(rd', 30, TRUE)
         /\ At(rd, 30, TRUE) /\ ~go.rd => At(rd', 31, TRUE)
         /\ At(rd, 31, TRUE) => At(rd', 1, FALSE)
         /\ At(rd, 1, FALSE) => At(rd', 2, FALSE)
         /\ At(rd, 2, FALSE) => RdSending'
         /\ RdSending => RdSending' \/ At(rd', 30, TRUE)
<1>1. ReadIdle \/ Read
  BY DEF Engines
<1>. USE DEF At, Engine, Engine0, Move, END_BYTE
<1>2. CASE ReadIdle
  BY <1>2 DEF ReadIdle, Wait, RdSending
<1>3. CASE Read
  <2>1. CASE ReadStart
    BY <2>1 DEF ReadStart, RdSending
  <2>2. CASE ReadBit
    BY <2>2 DEF ReadBit, Bit, AtByteEnd, RdSending
  <2>3. CASE ReadAddress
    BY <2>3 DEF ReadAddress, AtByteEnd, RdSending
  <2>4. CASE ReadData
    BY <2>4 DEF ReadData, RdSending
  <2>5. CASE ReadEnd
    BY <2>5 DEF ReadEnd, RdSending
  <2>6. QED BY <1>3, <2>1, <2>2, <2>3, <2>4, <2>5 DEF Read
<1>4. QED BY <1>1, <1>2, <1>3

LEMMA WriteMoves ==
  ASSUME Engines, go.wr \in BOOLEAN, wr \in Engine
  PROVE  /\ At(wr, 0, TRUE) /\ go.wr => At(wr', 30, TRUE)
         /\ At(wr, 30, TRUE) /\ go.wr => At(wr', 30, TRUE)
         /\ At(wr, 30, TRUE) /\ ~go.wr => At(wr', 31, TRUE)
         /\ At(wr, 31, TRUE) => At(wr', 1, FALSE)
         /\ At(wr, 1, FALSE) => At(wr', 2, FALSE)
         /\ At(wr, 2, FALSE) => At(wr', 3, FALSE)
         /\ At(wr, 3, FALSE) => WrSending'
         /\ WrSending => WrSending' \/ At(wr', 30, TRUE)
<1>1. WriteIdle \/ WriteData
  BY DEF Engines
<1>. USE DEF At, Engine, Engine0, Move, BYTE_NUM
<1>2. CASE WriteIdle
  BY <1>2 DEF WriteIdle, Wait, WrSending
<1>3. CASE WriteData
  <2>1. CASE WriteStart
    BY <2>1 DEF WriteStart, WrSending
  <2>2. CASE WriteBit
    BY <2>2 DEF WriteBit, Bit, AtByteEnd, WrSending
  <2>3. CASE WriteByte
    BY <2>3 DEF WriteByte, AtByteEnd, NextByte, WrSending
  <2>4. CASE WriteLast
    BY <2>4 DEF WriteLast, AtByteEnd, WrSending
  <2>5. CASE WriteEnd
    BY <2>5 DEF WriteEnd, WrSending
  <2>6. QED BY <1>3, <2>1, <2>2, <2>3, <2>4, <2>5 DEF WriteData
<1>4. QED BY <1>1, <1>2, <1>3

-----------------------------------------------------------------------------
(***************************************************************************)
(* What a clock does to the walker, as each engine sees it.                *)
(***************************************************************************)
Go == [ptr : BOOLEAN, rd : BOOLEAN, wr : BOOLEAN]
State == 0 .. 10 \union {28} \union 30 .. 36 \union 40 .. 42

LEMMA WalkerForPointer ==
  ASSUME Walker, ST \in State, go \in Go
  PROVE  /\ ST \notin {2, 3, 4} => ST' \notin {0, 3, 4} /\ (go.ptr => go'.ptr)
         /\ ST = 2 /\ ptr.end => ST' = 3 /\ DELY' = 0 /\ ~go'.ptr
         /\ ST = 3 /\ DELY = 2 => ST' = 4 /\ DELY' = 0 /\ go'.ptr
         /\ ST = 3 /\ DELY # 2 => ST' = 3 /\ DELY' = DELY + 1 /\ go' = go
         /\ ST = 4 /\ DELY # 3 => ST' = 4 /\ DELY' = DELY + 1 /\ go' = go
         /\ ST = 4 /\ DELY = 3 => ST' = (IF ptr.end THEN 5 ELSE 4) /\ DELY' = 3 /\ go' = go
BY DEF State, Walker, Restart, Pass, AskPointer, HoldPointer, AwaitPointer, AskRead, HoldRead,
  AwaitRead, CheckID, Settle, TableStart, AskWord, HoldWord, AwaitWord, NextWord, TableEnd,
  Release, DelayStart, Delay, Hold, Goto, Raise, Lower, AllUp, Go

LEMMA WalkerForRead ==
  ASSUME Walker, ST \in State, go \in Go
  PROVE  /\ ST \notin {6, 7, 8, 9} => ST' \notin {0, 7, 8, 9} /\ (go.rd => go'.rd)
         /\ ST = 6 /\ rd.end => ST' = 7 /\ DELY' = 0 /\ ~go'.rd
         /\ ST = 7 /\ DELY = 2 => ST' = 8 /\ go'.rd
         /\ ST = 7 /\ DELY # 2 => ST' = 7 /\ DELY' = DELY + 1 /\ go' = go
         /\ ST = 8 => ST' = 9 /\ go' = go
         /\ ST = 9 => ST' = (IF rd.end THEN 10 ELSE 9) /\ go' = go
BY DEF State, Walker, Restart, Pass, AskPointer, HoldPointer, AwaitPointer, AskRead, HoldRead,
  AwaitRead, CheckID, Settle, TableStart, AskWord, HoldWord, AwaitWord, NextWord, TableEnd,
  Release, DelayStart, Delay, Hold, Goto, Raise, Lower, AllUp, Go

LEMMA WalkerForWrite ==
  ASSUME Walker, ST \in State, go \in Go
  PROVE  /\ ST \notin {31, 32, 33, 34} => ST' \notin {0, 32, 33, 34} /\ (go.wr => go'.wr)
         /\ ST = 31 /\ wr.end => \/ ST' = 32 /\ DELY' = 0 /\ ~go'.wr
                                 \/ ST' = 40 /\ go' = go
         /\ ST = 32 /\ DELY = 3 => ST' = 33 /\ go'.wr
         /\ ST = 32 /\ DELY # 3 => ST' = 32 /\ DELY' = DELY + 1 /\ go' = go
         /\ ST = 33 => ST' = 34 /\ go' = go
         /\ ST = 34 => ST' = (IF wr.end THEN 35 ELSE 34) /\ go' = go
BY DEF State, Walker, Restart, Pass, AskPointer, HoldPointer, AwaitPointer, AskRead, HoldRead,
  AwaitRead, CheckID, Settle, TableStart, AskWord, HoldWord, AwaitWord, NextWord, TableEnd,
  Release, DelayStart, Delay, Hold, Goto, Raise, Lower, AllUp, Go

\* So the walker and the three engines keep step.
LEMMA ClockKeepsPhase ==
  ASSUME TypeOK, Phase, Clock
  PROVE  Phase'
<1>. USE DEF At
<1>1. /\ Walker /\ Engines /\ ST \in State /\ go \in Go
      /\ ptr \in Engine /\ rd \in Engine /\ wr \in Engine
      /\ go.ptr \in BOOLEAN /\ go.rd \in BOOLEAN /\ go.wr \in BOOLEAN
  BY DEF TypeOK, Clock, State, Go
<1>2. PtrPhase'
  <2>1. CASE ST \notin {2, 3, 4}
    BY <1>1, <2>1, WalkerForPointer, PointerMoves DEF Phase, PtrPhase
  <2>2. CASE ST = 2
    <3>1. At(ptr, 10, TRUE) /\ go.ptr
      BY <1>1, <2>2 DEF Phase, PtrPhase
    <3>2. ptr.end
      BY <3>1 DEF At
    <3>3. ST' = 3 /\ DELY' = 0 /\ ~go'.ptr
      BY <1>1, <2>2, <3>2, WalkerForPointer
    <3>4. At(ptr', 10, TRUE)
      BY <1>1, <3>1, PointerMoves
    <3>5. QED BY <3>3, <3>4 DEF PtrPhase
  <2>3. CASE ST = 3
    <3>1. ~go.ptr
      BY <1>1, <2>3 DEF Phase, PtrPhase
    <3>2. CASE DELY = 2
      <4>a. At(ptr, 12, FALSE)
        BY <1>1, <2>3, <3>2 DEF Phase, PtrPhase
      <4>1. At(ptr', 13, FALSE)
        BY <1>1, <4>a, PointerMoves
      <4>2. ST' = 4 /\ DELY' = 0 /\ go'.ptr
        BY <1>1, <2>3, <3>2, WalkerForPointer
      <4>3. QED BY <4>1, <4>2 DEF PtrPhase
    <3>3. CASE DELY # 2
      <4>1. ST' = 3 /\ DELY' = DELY + 1 /\ ~go'.ptr
        BY <1>1, <2>3, <3>1, <3>3, WalkerForPointer
      <4>2. \/ DELY = 0 /\ At(ptr', 11, TRUE)
            \/ DELY = 1 /\ At(ptr', 12, FALSE)
        BY <1>1, <2>3, <3>1, <3>3, PointerMoves DEF Phase, PtrPhase
      <4>3. QED BY <4>1, <4>2 DEF PtrPhase
    <3>4. QED BY <3>2, <3>3
  <2>4. CASE ST = 4
    <3>1. go.ptr
      BY <1>1, <2>4 DEF Phase, PtrPhase
    <3>2. CASE DELY = 3
      <4>1. PtrSending \/ At(ptr, 10, TRUE)
        BY <1>1, <2>4, <3>2 DEF Phase, PtrPhase
      <4>2. DELY' = 3 /\ go'.ptr /\ ST' = (IF ptr.end THEN 5 ELSE 4)
        BY <1>1, <2>4, <3>1, <3>2, WalkerForPointer
      <4>3. CASE PtrSending
        <5>1. ST' = 4
          BY <4>2, <4>3 DEF PtrSending
        <5>2. PtrSending' \/ At(ptr', 10, TRUE)
          BY <1>1, <4>3, PointerMoves
        <5>3. QED BY <4>2, <5>1, <5>2 DEF PtrPhase
      <4>4. CASE At(ptr, 10, TRUE)
        <5>1. ST' = 5
          BY <4>2, <4>4 DEF At
        <5>2. At(ptr', 10, TRUE)
          BY <1>1, <3>1, <4>4, PointerMoves
        <5>3. QED BY <4>2, <5>1, <5>2 DEF PtrPhase
      <4>5. QED BY <4>1, <4>3, <4>4
    <3>3. CASE DELY # 3
      <4>1. ST' = 4 /\ DELY' = DELY + 1 /\ go'.ptr
        BY <1>1, <2>4, <3>1, <3>3, WalkerForPointer
      <4>2. \/ DELY = 0 /\ At(ptr', 14, FALSE)
            \/ DELY = 1 /\ PtrTurned'
            \/ DELY = 2 /\ PtrSending'
        BY <1>1, <2>4, <3>3, PointerMoves DEF Phase, PtrPhase
      <4>3. QED BY <4>1, <4>2 DEF PtrPhase
    <3>4. QED BY <3>2, <3>3
  <2>5. QED BY <2>1, <2>2, <2>3, <2>4
<1>3. RdPhase'
  <2>1. CASE ST \notin {6, 7, 8, 9}
    BY <1>1, <2>1, WalkerForRead, ReadMoves DEF Phase, RdPhase
  <2>2. CASE ST = 6
    <3>1. At(rd, 30, TRUE) /\ go.rd
      BY <1>1, <2>2 DEF Phase, RdPhase
    <3>2. rd.end
      BY <3>1 DEF At
    <3>3. ST' = 7 /\ DELY' = 0 /\ ~go'.rd
      BY <1>1, <2>2, <3>2, WalkerForRead
    <3>4. At(rd', 30, TRUE)
      BY <1>1, <3>1, ReadMoves
    <3>5. QED BY <3>3, <3>4 DEF RdPhase
  <2>3. CASE ST = 7
    <3>1. ~go.rd
      BY <1>1, <2>3 DEF Phase, RdPhase
    <3>2. CASE DELY = 2
      <4>a. At(rd, 1, FALSE)
        BY <1>1, <2>3, <3>2 DEF Phase, RdPhase
      <4>1. At(rd', 2, FALSE)
        BY <1>1, <4>a, ReadMoves
      <4>2. ST' = 8 /\ go'.rd
        BY <1>1, <2>3, <3>2, WalkerForRead
      <4>3. QED BY <4>1, <4>2 DEF RdPhase
    <3>3. CASE DELY # 2
      <4>1. ST' = 7 /\ DELY' = DELY + 1 /\ ~go'.rd
        BY <1>1, <2>3, <3>1, <3>3, WalkerForRead
      <4>2. \/ DELY = 0 /\ At(rd', 31, TRUE)
            \/ DELY = 1 /\ At(rd', 1, FALSE)
        BY <1>1, <2>3, <3>1, <3>3, ReadMoves DEF Phase, RdPhase
      <4>3. QED BY <4>1, <4>2 DEF RdPhase
    <3>4. QED BY <3>2, <3>3
  <2>4. CASE ST = 8
    <3>a. At(rd, 2, FALSE) /\ go.rd
      BY <1>1, <2>4 DEF Phase, RdPhase
    <3>1. RdSending' /\ go.rd
      BY <1>1, <3>a, ReadMoves
    <3>2. ST' = 9 /\ go'.rd
      BY <1>1, <2>4, <3>1, WalkerForRead
    <3>3. QED BY <3>1, <3>2 DEF RdPhase
  <2>5. CASE ST = 9
    <3>1. go.rd /\ (RdSending \/ At(rd, 30, TRUE))
      BY <1>1, <2>5 DEF Phase, RdPhase
    <3>2. go'.rd /\ ST' = (IF rd.end THEN 10 ELSE 9)
      BY <1>1, <2>5, <3>1, WalkerForRead
    <3>3. CASE RdSending
      <4>1. ST' = 9
        BY <3>2, <3>3 DEF RdSending
      <4>2. RdSending' \/ At(rd', 30, TRUE)
        BY <1>1, <3>3, ReadMoves
      <4>3. QED BY <3>2, <4>1, <4>2 DEF RdPhase
    <3>4. CASE At(rd, 30, TRUE)
      <4>1. ST' = 10
        BY <3>2, <3>4 DEF At
      <4>2. At(rd', 30, TRUE)
        BY <1>1, <3>1, <3>4, ReadMoves
      <4>3. QED BY <3>2, <4>1, <4>2 DEF RdPhase
    <3>5. QED BY <3>1, <3>3, <3>4
  <2>6. QED BY <2>1, <2>2, <2>3, <2>4, <2>5
<1>4. WrPhase'
  <2>1. CASE ST \notin {31, 32, 33, 34}
    BY <1>1, <2>1, WalkerForWrite, WriteMoves DEF Phase, WrPhase
  <2>2. CASE ST = 31
    <3>1. At(wr, 30, TRUE) /\ go.wr
      BY <1>1, <2>2 DEF Phase, WrPhase
    <3>2. wr.end
      BY <3>1 DEF At
    <3>3. At(wr', 30, TRUE)
      BY <1>1, <3>1, WriteMoves
    <3>4. \/ ST' = 32 /\ DELY' = 0 /\ ~go'.wr
          \/ ST' = 40 /\ go'.wr
      BY <1>1, <2>2, <3>1, <3>2, WalkerForWrite
    <3>5. QED BY <3>3, <3>4 DEF WrPhase
  <2>3. CASE ST = 32
    <3>1. ~go.wr
      BY <1>1, <2>3 DEF Phase, WrPhase
    <3>2. CASE DELY = 3
      <4>a. At(wr, 2, FALSE)
        BY <1>1, <2>3, <3>2 DEF Phase, WrPhase
      <4>1. At(wr', 3, FALSE)
        BY <1>1, <4>a, WriteMoves
      <4>2. ST' = 33 /\ go'.wr
        BY <1>1, <2>3, <3>2, WalkerForWrite
      <4>3. QED BY <4>1, <4>2 DEF WrPhase
    <3>3. CASE DELY # 3
      <4>1. ST' = 32 /\ DELY' = DELY + 1 /\ ~go'.wr
        BY <1>1, <2>3, <3>1, <3>3, WalkerForWrite
      <4>2. \/ DELY = 0 /\ At(wr', 31, TRUE)
            \/ DELY = 1 /\ At(wr', 1, FALSE)
            \/ DELY = 2 /\ At(wr', 2, FALSE)
        BY <1>1, <2>3, <3>1, <3>3, WriteMoves DEF Phase, WrPhase
      <4>3. QED BY <4>1, <4>2 DEF WrPhase
    <3>4. QED BY <3>2, <3>3
  <2>4. CASE ST = 33
    <3>a. At(wr, 3, FALSE) /\ go.wr
      BY <1>1, <2>4 DEF Phase, WrPhase
    <3>1. WrSending' /\ go.wr
      BY <1>1, <3>a, WriteMoves
    <3>2. ST' = 34 /\ go'.wr
      BY <1>1, <2>4, <3>1, WalkerForWrite
    <3>3. QED BY <3>1, <3>2 DEF WrPhase
  <2>5. CASE ST = 34
    <3>1. go.wr /\ (WrSending \/ At(wr, 30, TRUE))
      BY <1>1, <2>5 DEF Phase, WrPhase
    <3>2. go'.wr /\ ST' = (IF wr.end THEN 35 ELSE 34)
      BY <1>1, <2>5, <3>1, WalkerForWrite
    <3>3. CASE WrSending
      <4>1. ST' = 34
        BY <3>2, <3>3 DEF WrSending
      <4>2. WrSending' \/ At(wr', 30, TRUE)
        BY <1>1, <3>3, WriteMoves
      <4>3. QED BY <3>2, <4>1, <4>2 DEF WrPhase
    <3>4. CASE At(wr, 30, TRUE)
      <4>1. ST' = 35
        BY <3>2, <3>4 DEF At
      <4>2. At(wr', 30, TRUE)
        BY <1>1, <3>1, <3>4, WriteMoves
      <4>3. QED BY <3>2, <4>1, <4>2 DEF WrPhase
    <3>5. QED BY <3>1, <3>3, <3>4
  <2>6. QED BY <2>1, <2>2, <2>3, <2>4, <2>5
<1>5. QED BY <1>2, <1>3, <1>4 DEF Phase

-----------------------------------------------------------------------------
(***************************************************************************)
(* What a clock does to the chip, and the types.                           *)
(***************************************************************************)

\* An engine that is past its first steps is the one its state of the walker runs.
LEMMA WriterRuns ==
  ASSUME TypeOK, Phase, wr.st \in 4 .. 9
  PROVE  ST = 34 /\ WrSending
BY DEF TypeOK, Phase, WrPhase, At

LEMMA PointerRuns ==
  ASSUME TypeOK, Phase, ptr.st \in 2 .. 9 \union 12 .. 20
  PROVE  ptr.cnt \in 0 .. 9 /\ ptr.byte \in 0 .. BYTE_END
         /\ (ptr.st \in {2, 3, 4, 12, 13, 14} => ptr.cnt <= 8)
BY DEF TypeOK, Phase, PtrPhase, PtrSending, PtrTurned, At, BYTE_END

LEMMA ReaderRuns ==
  ASSUME TypeOK, Phase, rd.st \in 1 .. 13
  PROVE  rd.cnt \in 0 .. 9 /\ rd.byte \in 0 .. 2
         /\ (rd.st \in {1, 2, 3, 4, 7} => rd.cnt <= 8)
         /\ (rd.st \in 1 .. 8 => rd.byte <= END_BYTE)
BY DEF TypeOK, Phase, RdPhase, RdSending, At, END_BYTE

LEMMA WriterCounts ==
  ASSUME TypeOK, Phase, wr.st \in 1 .. 4
  PROVE  wr.cnt <= 8
BY DEF TypeOK, Phase, WrPhase, WrSending, At

\* Only the engine of the writes changes what the chip holds.
LEMMA ChipMoves ==
  ASSUME Engines, wr \in Engine
  PROVE  \/ UNCHANGED <<frame, stored, lost>> /\ wr.st # 31
            /\ (wr.st \in 1 .. 4 \union {30} => wr'.byte = wr.byte)
            /\ (wr.st = 5 => wr'.byte = wr.byte /\ wr'.st = 2)
            /\ (wr.st \in {30} \union 6 .. 9 => wr'.st \in {30, 31} \union 6 .. 9)
            /\ (wr.st \in 1 .. 4 => wr'.st \in 2 .. 5)
         \/ wr.st = 31 /\ frame' = {} /\ UNCHANGED <<stored, lost>>
         \/ /\ wr.st = 5 /\ wr.byte < BYTE_NUM /\ wr'.st = 2 /\ wr'.byte = wr.byte + 1
            /\ frame' = frame \union {latch} /\ UNCHANGED <<stored, lost>>
         \/ /\ wr.st = 5 /\ wr.byte = BYTE_NUM /\ wr'.st = 6 /\ wr'.byte = wr.byte
            /\ UNCHANGED frame
            /\ \/ stored' = stored \union frame /\ lost' = lost
               \/ stored' = stored /\ lost' = lost \union frame
<1>. USE DEF Engine, Move, Engine0
<1>1. CASE WriteIdle
  <2>1. UNCHANGED <<frame, stored, lost>>
    <3>1. CASE UNCHANGED chip
      BY <3>1 DEF chip
    <3>2. CASE WritePointer
      BY <3>2 DEF WritePointer, PointerStart, PollBit, PollWait, PollAnswered, PollSilent,
        PollAgain, PointerBit, PointerByte, PointerEnd, chip
    <3>3. CASE Read
      BY <3>3 DEF Read, ReadStart, ReadBit, ReadAddress, ReadData, ReadEnd, chip
    <3>4. QED
      <4>1. WriteData => wr.st \notin {0, 30}
        BY DEF WriteData, WriteStart, WriteBit, WriteByte, WriteLast, WriteEnd, AtByteEnd
      <4>2. QED BY <1>1, <3>1, <3>2, <3>3, <4>1 DEF Engines, WriteIdle
  <2>2. QED BY <1>1, <2>1 DEF WriteIdle, Wait
<1>2. CASE WriteData
  <2>1. CASE WriteStart
    BY <2>1 DEF WriteStart
  <2>2. CASE WriteBit
    <3>1. CASE wr.st = 4
      <4>1. UNCHANGED <<frame, stored, lost>>
        BY <2>2 DEF WriteBit, chip
      <4>2. wr' = [wr EXCEPT !.st = 5, !.cnt = wr.cnt + 1]
        BY <2>2, <3>1 DEF WriteBit, Bit
      <4>3. wr'.st = 5 /\ wr'.byte = wr.byte
        BY <4>2
      <4>4. QED BY <3>1, <4>1, <4>3
    <3>2. CASE wr.st = 5
      BY <2>2, <3>2 DEF WriteBit, Bit, AtByteEnd, chip
    <3>3. CASE wr.st \notin {4, 5}
      BY <2>2, <3>3 DEF WriteBit, Bit, AtByteEnd, chip
    <3>4. QED BY <3>1, <3>2, <3>3
  <2>3. CASE WriteByte
    BY <2>3 DEF WriteByte, AtByteEnd, NextByte
  <2>4. CASE WriteLast
    BY <2>4 DEF WriteLast, AtByteEnd
  <2>5. CASE WriteEnd
    BY <2>5 DEF WriteEnd, chip
  <2>6. QED BY <1>2, <2>1, <2>2, <2>3, <2>4, <2>5 DEF WriteData
<1>3. QED BY <1>1, <1>2 DEF Engines

\* The forms in which an engine is updated.
LEMMA EngineMoved ==
  ASSUME NEW x \in Engine, NEW s \in 0 .. 31
  PROVE  Move(x, s) \in Engine
BY DEF Engine, Move

LEMMA EngineEnds ==
  ASSUME NEW x \in Engine, NEW s \in 0 .. 31, NEW e \in BOOLEAN
  PROVE  [x EXCEPT !.st = s, !.end = e] \in Engine
BY DEF Engine, Move

LEMMA EngineBegun ==
  ASSUME NEW x \in Engine, NEW s \in 0 .. 31, NEW c \in 0 .. 9, NEW e \in BOOLEAN
  PROVE  [x EXCEPT !.st = s, !.cnt = c, !.end = e] \in Engine
BY DEF Engine, Move

LEMMA EngineCounted ==
  ASSUME NEW x \in Engine, NEW s \in 0 .. 31, NEW c \in 0 .. 9
  PROVE  [x EXCEPT !.st = s, !.cnt = c] \in Engine
BY DEF Engine, Move

LEMMA EngineHeld ==
  ASSUME NEW x \in Engine, NEW s \in 0 .. 31, NEW d \in 0 .. 3
  PROVE  [x EXCEPT !.st = s, !.dely = d] \in Engine
BY DEF Engine, Move

LEMMA EngineTurned ==
  ASSUME NEW x \in Engine, NEW s \in 0 .. 31, NEW d \in 0 .. 3, NEW c \in 0 .. 9
  PROVE  [x EXCEPT !.st = s, !.dely = d, !.cnt = c] \in Engine
BY DEF Engine, Move

LEMMA EngineDelayed ==
  ASSUME NEW x \in Engine, NEW d \in 0 .. 3
  PROVE  [x EXCEPT !.dely = d] \in Engine
BY DEF Engine, Move

LEMMA EngineDone ==
  ASSUME NEW x \in Engine, NEW s \in 0 .. 31, NEW b \in 0 .. 4
  PROVE  [x EXCEPT !.st = s, !.byte = b] \in Engine
BY DEF Engine, Move

LEMMA EngineNext ==
  ASSUME NEW x \in Engine, NEW s \in 0 .. 31, NEW c \in 0 .. 9, NEW b \in 0 .. 4
  PROVE  [x EXCEPT !.st = s, !.cnt = c, !.byte = b] \in Engine
BY DEF Engine, Move

LEMMA EngineStarts == Engine0 \in Engine
BY DEF Engine, Engine0

LEMMA EngineFields ==
  ASSUME NEW x \in Engine
  PROVE  /\ x.st \in 0 .. 31 /\ x.cnt \in 0 .. 9 /\ x.byte \in 0 .. 4 /\ x.dely \in 0 .. 3
         /\ x.end \in BOOLEAN
BY DEF Engine

\* Waiting, and a turn of a byte, keep the type of any engine.
LEMMA WaitType ==
  ASSUME NEW x \in Engine, NEW up, NEW s \in 0 .. 31, NEW wake \in 0 .. 31, x.st \in {0, s}
  PROVE  Wait(x, up, s, wake) \in Engine
<1>1. Engine0 \in Engine /\ Move(Engine0, s) \in Engine /\ Move(x, wake) \in Engine
  BY EngineStarts, EngineMoved
<1>2. CASE x.st = 0
  BY <1>1, <1>2 DEF Wait
<1>3. CASE x.st # 0
  BY <1>1, <1>3 DEF Wait
<1>4. QED BY <1>2, <1>3

LEMMA BitType ==
  ASSUME NEW x \in Engine, x.st < 31, x.st = 4 => x.cnt <= 8
  PROVE  Bit(x) \in Engine
<1>0. x.st \in 0 .. 30 /\ x.cnt \in 0 .. 9
  BY EngineFields
<1>1. CASE x.st = 4
  <2>1. x.cnt + 1 \in 0 .. 9
    BY <1>0, <1>1
  <2>2. 5 \in 0 .. 31
    OBVIOUS
  <2>3. [x EXCEPT !.st = 5, !.cnt = x.cnt + 1] \in Engine
    BY <2>1, <2>2, EngineCounted
  <2>4. QED BY <1>1, <2>3 DEF Bit
<1>2. CASE x.st = 5
  <2>1. 2 \in 0 .. 31
    OBVIOUS
  <2>2. [x EXCEPT !.st = 2] \in Engine
    BY <2>1, EngineMoved DEF Move
  <2>3. QED BY <1>2, <2>2 DEF Bit
<1>3. CASE x.st \notin {4, 5}
  <2>1. x.st + 1 \in 0 .. 31
    BY <1>0
  <2>2. [x EXCEPT !.st = x.st + 1] \in Engine
    BY <2>1, EngineMoved DEF Move
  <2>3. QED BY <1>3, <2>2 DEF Bit
<1>4. QED BY <1>1, <1>2, <1>3

LEMMA NextByteType ==
  ASSUME NEW x \in Engine, x.byte < 4
  PROVE  NextByte(x) \in Engine
<1>1. x.byte \in 0 .. 4
  BY EngineFields
<1>2. x.byte + 1 \in 0 .. 4 /\ 2 \in 0 .. 31 /\ 0 \in 0 .. 9
  BY <1>1
<1>3. QED BY <1>2, EngineNext DEF NextByte

LEMMA PointerType ==
  ASSUME TypeOK, Phase, Engines
  PROVE  ptr' \in Engine
<1>0. ptr \in Engine
  BY DEF TypeOK
<1>f. ptr.st \in 0 .. 31 /\ ptr.cnt \in 0 .. 9 /\ ptr.byte \in 0 .. 4 /\ ptr.dely \in 0 .. 3
  BY <1>0, EngineFields
<1>1. CASE PointerIdle
  BY <1>0, <1>1, WaitType DEF PointerIdle
<1>2. CASE WritePointer
  <2>1. CASE PointerStart
    <3>1. 12 \in 0 .. 31 /\ 0 \in 0 .. 9 /\ FALSE \in BOOLEAN
      OBVIOUS
    <3>2. QED BY <1>0, <2>1, <3>1, EngineBegun DEF PointerStart
  <2>2. CASE PollBit
    <3>0. ptr.st \in {12, 13, 14, 15}
      BY <2>2 DEF PollBit
    <3>1. CASE ptr.st = 14
      <4>1. ptr.cnt + 1 \in 0 .. 9
        BY <1>f, <3>1, PointerRuns
      <4>2. 15 \in 0 .. 31
        OBVIOUS
      <4>3. [ptr EXCEPT !.st = 15, !.cnt = ptr.cnt + 1] \in Engine
        BY <1>0, <4>1, <4>2, EngineCounted
      <4>4. QED BY <2>2, <3>1, <4>3 DEF PollBit
    <3>2. CASE ptr.st = 15
      <4>1. 12 \in 0 .. 31 /\ 16 \in 0 .. 31 /\ 0 \in 0 .. 3
        OBVIOUS
      <4>2. [ptr EXCEPT !.st = 16, !.dely = 0] \in Engine
        BY <1>0, <4>1, EngineHeld
      <4>3. Move(ptr, 12) \in Engine
        BY <1>0, <4>1, EngineMoved
      <4>4. QED BY <2>2, <3>2, <4>2, <4>3 DEF PollBit
    <3>3. CASE ptr.st \in {12, 13}
      <4>1. ptr.st + 1 \in 0 .. 31
        BY <3>3
      <4>2. Move(ptr, ptr.st + 1) \in Engine
        BY <1>0, <4>1, EngineMoved
      <4>3. QED BY <2>2, <3>3, <4>2 DEF PollBit
    <3>4. QED BY <3>0, <3>1, <3>2, <3>3
  <2>3. CASE PollWait
    <3>1. ptr.dely + 1 \in 0 .. 3 /\ ptr' = [ptr EXCEPT !.dely = ptr.dely + 1]
      BY <1>f, <2>3 DEF PollWait
    <3>2. QED BY <1>0, <3>1, EngineDelayed
  <2>4. CASE PollAnswered \/ PollSilent
    <3>1. 5 \in 0 .. 31 /\ 17 \in 0 .. 31
      OBVIOUS
    <3>2. Move(ptr, 5) \in Engine /\ Move(ptr, 17) \in Engine
      BY <1>0, <3>1, EngineMoved
    <3>3. QED BY <2>4, <3>2 DEF PollAnswered, PollSilent
  <2>5. CASE PollAgain
    <3>1. CASE ptr.st \in {17, 18} /\ ptr' = Move(ptr, ptr.st + 1)
      <4>1. ptr.st + 1 \in 0 .. 31
        BY <3>1
      <4>2. QED BY <1>0, <3>1, <4>1, EngineMoved
    <3>2. CASE ptr' = [ptr EXCEPT !.st = 20, !.dely = 0]
      <4>1. 20 \in 0 .. 31 /\ 0 \in 0 .. 3
        OBVIOUS
      <4>2. QED BY <1>0, <3>2, <4>1, EngineHeld
    <3>3. CASE ptr' = Move(ptr, 11)
      <4>1. 11 \in 0 .. 31
        OBVIOUS
      <4>2. QED BY <1>0, <3>3, <4>1, EngineMoved
    <3>4. QED BY <2>5, <3>1, <3>2, <3>3 DEF PollAgain
  <2>6. CASE PointerBit
    <3>1. ptr.st < 31 /\ (ptr.st = 4 => ptr.cnt <= 8)
      BY <2>6, PointerRuns DEF PointerBit
    <3>2. QED BY <1>0, <2>6, <3>1, BitType DEF PointerBit
  <2>7. CASE PointerByte
    <3>1. ptr.byte \in 0 .. BYTE_END
      BY <2>7, PointerRuns DEF PointerByte, AtByteEnd
    <3>2. CASE ptr.byte = BYTE_END
      <4>1. 6 \in 0 .. 31
        OBVIOUS
      <4>2. QED BY <1>0, <2>7, <3>2, <4>1, EngineMoved DEF PointerByte
    <3>3. CASE ptr.byte # BYTE_END
      <4>1. ptr.byte < 4
        BY <3>1 DEF BYTE_END
      <4>2. QED BY <1>0, <2>7, <3>3, <4>1, NextByteType DEF PointerByte
    <3>4. QED BY <3>2, <3>3
  <2>8. CASE PointerEnd
    <3>1. 10 \in 0 .. 31
      OBVIOUS
    <3>2. QED BY <2>8, <3>1, EngineStarts, EngineMoved DEF PointerEnd
  <2>9. QED BY <1>2, <2>1, <2>2, <2>3, <2>4, <2>5, <2>6, <2>7, <2>8 DEF WritePointer
<1>3. QED BY <1>1, <1>2 DEF Engines

LEMMA ReadType ==
  ASSUME TypeOK, Phase, Engines
  PROVE  rd' \in Engine
<1>0. rd \in Engine
  BY DEF TypeOK
<1>f. rd.st \in 0 .. 31 /\ rd.cnt \in 0 .. 9 /\ rd.byte \in 0 .. 4 /\ rd.dely \in 0 .. 3
  BY <1>0, EngineFields
<1>1. CASE ReadIdle
  BY <1>0, <1>1, WaitType DEF ReadIdle
<1>2. CASE Read
  <2>1. CASE ReadStart
    <3>1. 1 \in 0 .. 31 /\ FALSE \in BOOLEAN
      OBVIOUS
    <3>2. QED BY <1>0, <2>1, <3>1, EngineEnds DEF ReadStart
  <2>2. CASE ReadBit
    <3>1. rd.st < 31 /\ (rd.st = 4 => rd.cnt <= 8)
      BY <2>2, ReaderRuns DEF ReadBit
    <3>2. QED BY <1>0, <2>2, <3>1, BitType DEF ReadBit
  <2>3. CASE ReadAddress
    <3>1. 6 \in 0 .. 31
      OBVIOUS
    <3>2. QED BY <1>0, <2>3, <3>1, EngineMoved DEF ReadAddress
  <2>4. CASE ReadData
    <3>0. rd.st \in {6, 7, 8, 9} /\ rd.byte \in 0 .. 2
      BY <2>4, ReaderRuns DEF ReadData
    <3>1. CASE rd.st = 6
      <4>1. 7 \in 0 .. 31 /\ 0 \in 0 .. 9
        OBVIOUS
      <4>2. [rd EXCEPT !.st = 7, !.cnt = 0] \in Engine
        BY <1>0, <4>1, EngineCounted
      <4>3. QED BY <2>4, <3>1, <4>2 DEF ReadData
    <3>2. CASE rd.st = 7
      <4>1. rd.cnt + 1 \in 0 .. 9
        BY <1>f, <3>2, ReaderRuns
      <4>2. 8 \in 0 .. 31 /\ 0 \in 0 .. 3
        OBVIOUS
      <4>3. [rd EXCEPT !.st = 8, !.dely = 0, !.cnt = rd.cnt + 1] \in Engine
        BY <1>0, <4>1, <4>2, EngineTurned
      <4>4. QED BY <2>4, <3>2, <4>3 DEF ReadData
    <3>3. CASE rd.st = 8 /\ rd.dely # 2
      <4>1. rd.dely \in 0 .. 2
        BY <3>3 DEF TypeOK, Phase, RdPhase, RdSending, At
      <4>2. rd.dely + 1 \in 0 .. 3
        BY <4>1
      <4>3. [rd EXCEPT !.dely = rd.dely + 1] \in Engine
        BY <1>0, <4>2, EngineDelayed
      <4>4. QED BY <2>4, <3>3, <4>3 DEF ReadData
    <3>4. CASE rd.st = 8 /\ rd.dely = 2
      <4>1. rd.byte \in 0 .. 1
        BY <3>4, ReaderRuns DEF END_BYTE
      <4>2. rd.byte + 1 \in 0 .. 4
        BY <4>1
      <4>3. 9 \in 0 .. 31 /\ 7 \in 0 .. 31
        OBVIOUS
      <4>4. [rd EXCEPT !.st = 9, !.byte = rd.byte + 1] \in Engine
        BY <1>0, <4>2, <4>3, EngineDone
      <4>5. Move(rd, 7) \in Engine
        BY <1>0, <4>3, EngineMoved
      <4>6. QED BY <2>4, <3>4, <4>4, <4>5 DEF ReadData
    <3>5. CASE rd.st = 9
      <4>1. 10 \in 0 .. 31 /\ 6 \in 0 .. 31
        OBVIOUS
      <4>2. Move(rd, 10) \in Engine /\ Move(rd, 6) \in Engine
        BY <1>0, <4>1, EngineMoved
      <4>3. QED BY <2>4, <3>5, <4>2 DEF ReadData
    <3>6. QED BY <3>0, <3>1, <3>2, <3>3, <3>4, <3>5
  <2>5. CASE ReadEnd
    <3>1. 30 \in 0 .. 31
      OBVIOUS
    <3>2. QED BY <2>5, <3>1, EngineStarts, EngineMoved DEF ReadEnd
  <2>6. QED BY <1>2, <2>1, <2>2, <2>3, <2>4, <2>5 DEF Read
<1>3. QED BY <1>1, <1>2 DEF Engines

LEMMA WriteType ==
  ASSUME TypeOK, Phase, Engines
  PROVE  wr' \in Engine
<1>0. wr \in Engine
  BY DEF TypeOK
<1>1. CASE WriteIdle
  BY <1>0, <1>1, WaitType DEF WriteIdle
<1>2. CASE WriteData
  <2>1. CASE WriteStart
    <3>1. 1 \in 0 .. 31 /\ FALSE \in BOOLEAN
      OBVIOUS
    <3>2. QED BY <1>0, <2>1, <3>1, EngineEnds DEF WriteStart
  <2>2. CASE WriteBit
    <3>1. wr.st < 31 /\ (wr.st = 4 => wr.cnt <= 8)
      BY <2>2, WriterCounts DEF WriteBit
    <3>2. QED BY <1>0, <2>2, <3>1, BitType DEF WriteBit
  <2>3. CASE WriteByte
    <3>1. wr.byte < 4
      BY <1>0, <2>3, EngineFields DEF WriteByte, BYTE_NUM
    <3>2. QED BY <1>0, <2>3, <3>1, NextByteType DEF WriteByte
  <2>4. CASE WriteLast
    <3>1. 6 \in 0 .. 31
      OBVIOUS
    <3>2. QED BY <1>0, <2>4, <3>1, EngineMoved DEF WriteLast
  <2>5. CASE WriteEnd
    <3>1. 30 \in 0 .. 31
      OBVIOUS
    <3>2. QED BY <2>5, <3>1, EngineStarts, EngineMoved DEF WriteEnd
  <2>6. QED BY <1>2, <2>1, <2>2, <2>3, <2>4, <2>5 DEF WriteData
<1>3. QED BY <1>1, <1>2 DEF Engines

-----------------------------------------------------------------------------
(***************************************************************************)
(* A start, and a reset, give the invariant.                               *)
(***************************************************************************)
LEMMA AllUpType == AllUp \in Go
BY DEF AllUp, Go

LEMMA InitInv ==
  ASSUME Init
  PROVE  IInv
<1>. USE ConfigAssumption
<1>1. TypeOK
  <2>1. /\ ST \in State /\ CNT \in 0 .. 1 /\ WCNT \in 0 .. WORD_NUM_MAX /\ DELY \in Nat
        /\ nReset \in 0 .. MaxReset /\ nNack \in 0 .. MaxNack
    BY DEF Init, State
  <2>2. go \in Go
    BY AllUpType DEF Init
  <2>3. ptr \in Engine /\ rd \in Engine /\ wr \in Engine
    BY EngineStarts DEF Init
  <2>4. /\ rdata \in BOOLEAN /\ id \in BOOLEAN /\ refused \in BOOLEAN /\ ptrSet \in BOOLEAN
        /\ release \in BOOLEAN
    BY DEF Init
  <2>5. /\ word \in Entry /\ latch \in Entry \union {NoEntry}
        /\ frame \subseteq Entry /\ stored \subseteq Entry /\ lost \subseteq Entry
    BY DEF Init
  <2>6. QED BY <2>1, <2>2, <2>3, <2>4, <2>5 DEF TypeOK, State, Go
<1>2. Phase
  BY DEF Init, Phase, PtrPhase, RdPhase, WrPhase, At, Engine0, AllUp
<1>3. TableInv
  BY DEF Init, TableInv, Place, Follows, Sends, Behind, Known, InEntry, Index
<1>4. QED BY <1>1, <1>2, <1>3 DEF IInv

LEMMA ResetInv ==
  ASSUME Reset, TypeOK
  PROVE  IInv'
<1>. USE ConfigAssumption
<1>1. TypeOK'
  <2>1. /\ ST' \in State /\ CNT' \in 0 .. 1 /\ WCNT' \in 0 .. WORD_NUM_MAX /\ DELY' \in Nat
        /\ nReset' \in 0 .. MaxReset /\ nNack' \in 0 .. MaxNack
    BY DEF Reset, Start, State, TypeOK
  <2>2. go' \in Go
    BY AllUpType DEF Reset, Start
  <2>3. ptr' \in Engine /\ rd' \in Engine /\ wr' \in Engine
    BY EngineStarts DEF Reset, Start
  <2>4. /\ rdata' \in BOOLEAN /\ id' \in BOOLEAN /\ refused' \in BOOLEAN /\ ptrSet' \in BOOLEAN
        /\ release' \in BOOLEAN
    BY DEF Reset, Start
  <2>5. /\ word' \in Entry /\ latch' \in Entry \union {NoEntry}
        /\ frame' \subseteq Entry /\ stored' \subseteq Entry /\ lost' \subseteq Entry
    BY DEF Reset, Start, TypeOK
  <2>6. QED BY <2>1, <2>2, <2>3, <2>4, <2>5 DEF TypeOK, State, Go
<1>2. Phase'
  BY DEF Reset, Start, Phase, PtrPhase, RdPhase, WrPhase, At, Engine0, AllUp
<1>3. TableInv'
  BY DEF Reset, Start, TableInv, Place, Follows, Sends, Behind, Known, InEntry, Index
<1>4. QED BY <1>1, <1>2, <1>3 DEF IInv

-----------------------------------------------------------------------------
(***************************************************************************)
(* A clock keeps it.                                                       *)
(***************************************************************************)

\* What the walker does to its place in the table.
LEMMA WalkerInTable ==
  ASSUME Walker, ST \in State
  PROVE  /\ ST' \in State \ {0}
         /\ ST \in 0 .. 10 \union {28} => ST' \in 0 .. 10 \union {28, 30} /\ WCNT' \in {0, WCNT}
         /\ ST = 0 => ST' = 1 /\ WCNT' = 0
         /\ ST = 30 => ST' = 31 /\ WCNT' = 0
         /\ ST = 31 => ST' \in {31, 32, 40} /\ WCNT' = WCNT
         /\ ST = 32 => ST' \in {32, 33} /\ WCNT' = WCNT
         /\ ST = 33 => ST' = 34 /\ WCNT' = WCNT
         /\ ST = 34 => \/ ST' = 34 /\ WCNT' = WCNT
                       \/ ST' = 35 /\ WCNT' = WCNT + 1 /\ wr.end
         /\ ST = 35 => WCNT' = WCNT /\ (ST' = 31 => WCNT # WORD_NUM_MAX)
                       /\ (ST' # 31 => WCNT = WORD_NUM_MAX)
                       /\ (ST' \in {31, 36} \/ (ST' = 35 /\ Camera))
         /\ ST = 36 => ST' = 36 /\ WCNT' = WCNT
         /\ ST = 40 => ST' = 41 /\ WCNT' = WCNT
         /\ ST = 41 => \/ ST' = 41 /\ WCNT' = WCNT
                       \/ ST' = 42 /\ WCNT' = WCNT + 1
         /\ ST = 42 => ST' = 31 /\ WCNT' = WCNT
         /\ ST' = 34 => ST \in {33, 34}
         /\ ST' = 33 => ST = 32
BY DEF State, Walker, Restart, Pass, AskPointer, HoldPointer, AwaitPointer, AskRead, HoldRead,
  AwaitRead, CheckID, Settle, TableStart, AskWord, HoldWord, AwaitWord, NextWord, TableEnd,
  Release, DelayStart, Delay, Hold, Goto

LEMMA WalkerLatches ==
  ASSUME Walker, ST \in State
  PROVE  /\ latch' \in {latch, word, NoEntry}
         /\ ST \in {32, 33, 34} => latch' = latch
         /\ ST = 31 /\ ST' = 32 => latch' = word
         /\ ST = 31 => (ST' = 40 <=> word \in Delays) /\ (ST' \in {31, 32} => word \notin Delays)
         /\ DELY' \in {0, DELY, DELY + 1}
BY DEF State, Walker, Restart, Pass, AskPointer, HoldPointer, AwaitPointer, AskRead, HoldRead,
  AwaitRead, CheckID, Settle, TableStart, AskWord, HoldWord, AwaitWord, NextWord, TableEnd,
  Release, DelayStart, Delay, Hold, Goto, Raise, Lower, AllUp

LEMMA WalkerIdentifies ==
  ASSUME Walker, ST \in State
  PROVE  /\ id' \in {id, rdata} /\ (ST >= 28 => id' = id)
         /\ ST = 10 => id' = id /\ (ST' = 28 => ~Camera \/ id)
         /\ ST < 28 /\ ST' >= 28 => ST = 10 /\ ST' = 28
         /\ ST \in 0 .. 8 => CNT' \in {0, CNT} /\ ST' \in 0 .. 9
         /\ ST = 9 => (ST' = 9 /\ CNT' = CNT) \/ (ST' = 10 /\ CNT' = CNT + 1)
         /\ ST = 10 => ST' \in {1, 28} /\ CNT' \in {0, CNT} /\ (CNT = 1 /\ ST' = 1 => CNT' = 0)
         /\ ST >= 28 => CNT' \in {CNT, 0} /\ ST' >= 28
BY DEF State, Walker, Restart, Pass, AskPointer, HoldPointer, AwaitPointer, AskRead, HoldRead,
  AwaitRead, CheckID, Settle, TableStart, AskWord, HoldWord, AwaitWord, NextWord, TableEnd,
  Release, DelayStart, Delay, Hold, Goto, Raise, Lower, AllUp

LEMMA WalkerReleases ==
  ASSUME Walker, ST \in State, release \in BOOLEAN, Camera \in BOOLEAN
  PROVE  /\ \/ release' = release
            \/ release' = TRUE /\ ST = 35 /\ ST' = 35 /\ Camera /\ WCNT = WORD_NUM_MAX
            \/ release' = TRUE /\ ST = 36 /\ ST' = 36
         /\ ST = 35 /\ Camera /\ WCNT = WORD_NUM_MAX => ST' = 35
         /\ ST' = 36 => ~Camera \/ ST = 36
<1>. USE DEF Goto
<1>1. CASE TableEnd
  <2>1. CASE Camera
    BY <1>1, <2>1 DEF TableEnd
  <2>2. CASE ~Camera
    BY <1>1, <2>2 DEF TableEnd
  <2>3. QED BY <2>1, <2>2
<1>2. CASE Release
  <2>1. CASE DELY = ReleaseClocks
    BY <1>2, <2>1 DEF Release
  <2>2. CASE DELY # ReleaseClocks
    BY <1>2, <2>2 DEF Release
  <2>3. QED BY <2>1, <2>2
<1>3. CASE ~TableEnd /\ ~Release
  <2>1. release' = release
    BY <1>3 DEF Walker, Restart, Pass, AskPointer, HoldPointer, AwaitPointer, AskRead,
      HoldRead, AwaitRead, CheckID, Settle, TableStart, AskWord, HoldWord, AwaitWord, NextWord,
      DelayStart, Delay, Hold
  <2>2. ST' # 36 /\ ~(ST = 35 /\ WCNT = WORD_NUM_MAX)
    BY <1>3 DEF State, Walker, Restart, Pass, AskPointer, HoldPointer, AwaitPointer, AskRead,
      HoldRead, AwaitRead, CheckID, Settle, TableStart, AskWord, HoldWord, AwaitWord, NextWord,
      DelayStart, Delay, Hold
  <2>3. QED BY <2>1, <2>2
<1>4. QED BY <1>1, <1>2, <1>3

LEMMA GoMoves ==
  ASSUME go \in Go, NEW b \in BOOLEAN
  PROVE  /\ [go EXCEPT !["ptr"] = b] \in Go
         /\ [go EXCEPT !["rd"] = b] \in Go
         /\ [go EXCEPT !["wr"] = b] \in Go
BY DEF Go

LEMMA WalkerGo ==
  ASSUME Walker, go \in Go
  PROVE  go' \in Go
<1>1. \/ go' = go \/ go' = AllUp
      \/ \E b \in BOOLEAN : \/ go' = [go EXCEPT !["ptr"] = b]
                            \/ go' = [go EXCEPT !["rd"] = b]
                            \/ go' = [go EXCEPT !["wr"] = b]
  BY DEF Walker, Restart, Pass, AskPointer, HoldPointer, AwaitPointer, AskRead, HoldRead,
    AwaitRead, CheckID, Settle, TableStart, AskWord, HoldWord, AwaitWord, NextWord, TableEnd,
    Release, DelayStart, Delay, Hold, Raise, Lower
<1>2. QED BY <1>1, GoMoves, AllUpType

LEMMA ClockPlace ==
  ASSUME IInv, Clock
  PROVE  Place'
<1>. USE ConfigAssumption
<1>1. Walker /\ ST \in State /\ release \in BOOLEAN /\ CNT \in 0 .. 1 /\ WCNT \in 0 .. WORD_NUM_MAX
  BY DEF Clock, IInv, TypeOK, State
<1>2. Place
  BY DEF IInv, TableInv
<1>3. ST' \in 0 .. 10 \union {28, 30} => WCNT' = 0
  BY <1>1, <1>2, WalkerInTable DEF Place, State
<1>4. ST' \in InEntry => WCNT' \in Index
  BY <1>1, <1>2, WalkerInTable DEF Place, State, InEntry, Index
<1>5. ST = 41 => WCNT # WORD_NUM_MAX - 1
  BY <1>1, TableAssumption DEF IInv, TableInv, Follows, Sends, Index
<1>6. /\ ST' \in {35, 42} => WCNT' \in 1 .. WORD_NUM_MAX
      /\ ST' = 42 => WCNT' # WORD_NUM_MAX
  BY <1>1, <1>2, <1>5, WalkerInTable DEF Place, State, InEntry, Index
<1>7. ST' = 36 => WCNT' = WORD_NUM_MAX /\ ~Camera
  <2>1. CASE ST = 36
    BY <1>1, <1>2, <2>1, WalkerInTable DEF Place
  <2>2. CASE ST # 36
    <3>1. ST' = 36 => ST = 35 /\ WCNT' = WCNT /\ WCNT = WORD_NUM_MAX
      BY <1>1, <2>2, WalkerInTable DEF State
    <3>2. ST' = 36 => ~Camera
      BY <1>1, <2>2, WalkerReleases
    <3>3. QED BY <3>1, <3>2
  <2>3. QED BY <2>1, <2>2
<1>8. (ST' \in 0 .. 9 => CNT' = 0) /\ (ST' = 10 => CNT' = 1)
  BY <1>1, <1>2, WalkerIdentifies DEF Place, State
<1>9. release' => /\ Camera => ST' = 35
                  /\ ~Camera => ST' = 36
                  /\ WCNT' = WORD_NUM_MAX
  <2>1. CASE release' = release
    BY <1>1, <1>2, <2>1, WalkerInTable, WalkerReleases DEF Place, State
  <2>2. CASE ST = 35 /\ ST' = 35 /\ Camera /\ WCNT = WORD_NUM_MAX
    BY <1>1, <1>2, <2>2, WalkerInTable
  <2>3. CASE ST = 36 /\ ST' = 36
    BY <1>1, <1>2, <2>3, WalkerInTable DEF Place
  <2>4. QED BY <1>1, <2>1, <2>2, <2>3, WalkerReleases
<1>10. QED BY <1>3, <1>4, <1>6, <1>7, <1>8, <1>9 DEF Place

LEMMA ClockFollows ==
  ASSUME IInv, Clock
  PROVE  Follows' /\ word' \in Entry
<1>. USE ConfigAssumption
<1>1. /\ Walker /\ FollowTable /\ ST \in State /\ WCNT \in 0 .. WORD_NUM_MAX /\ word \in Entry
  BY DEF Clock, IInv, TypeOK, State
<1>2. Place /\ Follows
  BY DEF IInv, TableInv
<1>3. word' \in Entry
  BY <1>1 DEF FollowTable, Entry
<1>4. WCNT' = WCNT \/ WCNT' = 0 \/ (WCNT' = WCNT + 1 /\ ST' \in {35, 42})
  BY <1>1, WalkerInTable DEF State
<1>5. \E v \in Index : v <= WCNT' /\ word' = Table[v]
  <2>1. CASE WCNT \in Index /\ Table[WCNT] # NoEntry
    <3>1. word' = Table[WCNT]
      BY <1>1, <2>1 DEF FollowTable
    <3>2. WCNT' = 0 => WCNT = 0
      BY <1>1, <1>2, <2>1, WalkerInTable DEF Place, State, InEntry, Index
    <3>3. QED BY <1>1, <1>4, <2>1, <3>1, <3>2 DEF Index
  <2>2. CASE ~(WCNT \in Index /\ Table[WCNT] # NoEntry)
    <3>1. word' = word /\ WCNT # 0
      BY <1>1, <2>2 DEF FollowTable, Index
    <3>2. ST # 0 /\ WCNT' # 0
      BY <1>1, <1>2, <3>1, WalkerInTable DEF Place, State
    <3>3. PICK v \in Index : v <= WCNT /\ word = Table[v]
      BY <1>2, <3>2 DEF Follows
    <3>4. QED BY <1>1, <1>4, <3>1, <3>2, <3>3 DEF Index
  <2>3. QED BY <2>1, <2>2
<1>6. ST' \notin {0, 35, 42} /\ WCNT' \in Index /\ Table[WCNT'] # NoEntry => word' = Table[WCNT']
  <2>1. ST' \notin {0, 35, 42} => WCNT' = WCNT
    BY <1>1, <1>2, WalkerInTable DEF Place, State
  <2>2. QED BY <1>1, <2>1 DEF FollowTable
<1>7. QED BY <1>3, <1>5, <1>6 DEF Follows

\* The chip while the walker waits for a write: the bytes sent are of its entry, and
\* the chip has them, or has refused them, by the time of the STOP.
LEMMA ClockSends ==
  ASSUME IInv, Clock
  PROVE  /\ Sends'
         /\ \/ UNCHANGED <<stored, lost>>
            \/ ST = 34 /\ stored' = stored \union {word} /\ lost' = lost
            \/ ST = 34 /\ stored' = stored /\ lost' = lost \union {word}
         /\ frame' \subseteq Entry
<1>1. /\ TypeOK /\ Phase /\ Phase' /\ Sends /\ Engines /\ Walker /\ ST \in State /\ wr \in Engine
      /\ word \in Entry /\ latch \in Entry \union {NoEntry} /\ frame \subseteq Entry
  BY ClockKeepsPhase DEF Clock, IInv, TypeOK, State, TableInv
<1>2. ST \in {31, 32, 33, 34, 40, 41} => word' = word
  <2>1. Follows /\ Place /\ Clock
    BY DEF IInv, TableInv
  <2>2. QED BY <2>1 DEF Follows, FollowTable, Clock, Place, InEntry, State
<1>3. ST' \in {32, 33, 34} => latch' = word' /\ word' \notin Delays
  BY <1>1, <1>2, WalkerInTable, WalkerLatches DEF Sends, State
<1>4. ST' \in {40, 41} => word' \in Delays
  BY <1>1, <1>2, WalkerInTable, WalkerLatches DEF Sends, State
<1>5. wr.st \in 4 .. 9 => ST = 34
  BY <1>1, WriterRuns
<1>6. CASE ST \notin {32, 33, 34}
  <2>1. At(wr, 0, TRUE) \/ At(wr, 30, TRUE)
    BY <1>1, <1>6 DEF Phase, WrPhase
  <2>2. UNCHANGED <<frame, stored, lost>>
    BY <1>1, <2>1, ChipMoves DEF At
  <2>3. ST' \notin {33, 34} /\ (ST' = 32 => DELY' = 0)
    BY <1>1, <1>6, <2>1, WalkerInTable, WalkerForWrite DEF State, At, TypeOK, Go
  <2>4. QED BY <1>1, <1>3, <1>4, <2>2, <2>3 DEF Sends
<1>7. CASE ST = 32
  <2>1. \/ DELY = 0 /\ At(wr, 30, TRUE)
        \/ DELY = 1 /\ At(wr, 31, TRUE)
        \/ DELY = 2 /\ At(wr, 1, FALSE)
        \/ DELY = 3 /\ At(wr, 2, FALSE)
    BY <1>1, <1>7 DEF Phase, WrPhase
  <2>2. /\ UNCHANGED <<stored, lost>>
        /\ DELY = 1 => frame' = {}
        /\ DELY # 1 => frame' = frame
    BY <1>1, <2>1, ChipMoves DEF At
  <2>3. /\ DELY = 3 => ST' = 33
        /\ DELY # 3 => ST' = 32 /\ DELY' = DELY + 1
    BY <1>1, <1>7, WalkerForWrite DEF TypeOK, Go
  <2>4. /\ ST' = 32 /\ DELY' \in {2, 3} => frame' = {}
        /\ ST' = 33 => frame' = {}
    <3>1. DELY \in {2, 3} => frame = {}
      BY <1>1, <1>7 DEF Sends
    <3>2. DELY \in {0, 1, 2, 3} /\ (ST' = 33 => DELY = 3)
      <4>1. DELY \in {0, 1, 2, 3}
        BY <2>1
      <4>2. DELY # 3 => ST' # 33
        BY <2>3
      <4>3. QED BY <4>1, <4>2
    <3>3. QED BY <2>2, <2>3, <3>1, <3>2
  <2>5. ST' = 33 => wr'.byte = 0 /\ wr'.st = 3
    <3>1. ST' = 33 => At(wr', 3, FALSE)
      BY <1>1 DEF Phase, WrPhase, At
    <3>2. QED BY <3>1 DEF At
  <2>6. frame' \subseteq Entry
    BY <1>1, <2>2
  <2>7. QED BY <1>3, <1>4, <2>2, <2>3, <2>4, <2>5, <2>6 DEF Sends
<1>8. CASE ST = 33
  <2>1. At(wr, 3, FALSE)
    BY <1>1, <1>8 DEF Phase, WrPhase
  <2>2. UNCHANGED <<frame, stored, lost>> /\ wr'.byte = 0 /\ wr'.st \in 2 .. 5
    BY <1>1, <2>1, ChipMoves DEF At
  <2>3. ST' = 34 /\ frame = {}
    BY <1>1, <1>8, <2>1, WalkerInTable DEF Sends, At
  <2>4. QED BY <1>1, <1>3, <1>4, <2>2, <2>3 DEF Sends
<1>9. CASE ST = 34
  <2>1. WrSending \/ At(wr, 30, TRUE)
    BY <1>1, <1>9 DEF Phase, WrPhase
  <2>2. ST' \in {34, 35} /\ (At(wr, 30, TRUE) => ST' = 35)
    <3>1. go.wr /\ go \in Go
      BY <1>1, <1>9 DEF TypeOK, Go, Phase, WrPhase
    <3>2. QED BY <1>1, <1>9, <3>1, WalkerForWrite DEF At
  <2>3. /\ frame = (IF wr.byte = 0 /\ wr.st \in 1 .. 5 THEN {} ELSE {word})
        /\ latch = word /\ word' = word
        /\ wr.st \notin 1 .. 5 => word \in stored \union lost
    BY <1>1, <1>2, <1>9 DEF Sends
  <2>4. CASE UNCHANGED <<frame, stored, lost>> /\ wr.st # 31
            /\ (wr.st \in 1 .. 4 \union {30} => wr'.byte = wr.byte)
            /\ (wr.st = 5 => wr'.byte = wr.byte /\ wr'.st = 2)
            /\ (wr.st \in {30} \union 6 .. 9 => wr'.st \in {30, 31} \union 6 .. 9)
            /\ (wr.st \in 1 .. 4 => wr'.st \in 2 .. 5)
    <3>1. wr.st \in 1 .. 9 \union {30}
      BY <2>1 DEF WrSending, At
    <3>2. frame' = (IF wr'.byte = 0 /\ wr'.st \in 1 .. 5 THEN {} ELSE {word})
      BY <2>3, <2>4, <3>1
    <3>3. wr'.st \notin 1 .. 5 => word' \in stored' \union lost'
      BY <2>3, <2>4, <3>1
    <3>4. QED BY <1>1, <1>3, <1>4, <2>2, <2>3, <2>4, <3>2, <3>3 DEF Sends
  <2>5. CASE /\ wr.st = 5 /\ wr.byte < BYTE_NUM /\ wr'.st = 2 /\ wr'.byte = wr.byte + 1
             /\ frame' = frame \union {latch} /\ UNCHANGED <<stored, lost>>
    <3>1. wr.byte \in Nat
      BY <1>1 DEF Engine
    <3>2. frame' = {word}
      BY <2>3, <2>5
    <3>3. QED BY <1>1, <1>3, <1>4, <2>2, <2>3, <2>5, <3>1, <3>2 DEF Sends
  <2>6. CASE /\ wr.st = 5 /\ wr.byte = BYTE_NUM /\ wr'.st = 6 /\ wr'.byte = wr.byte
             /\ UNCHANGED frame
             /\ \/ stored' = stored \union frame /\ lost' = lost
                \/ stored' = stored /\ lost' = lost \union frame
    <3>1. frame = {word}
      BY <2>3, <2>6 DEF BYTE_NUM
    <3>2. QED BY <1>1, <1>3, <1>4, <1>9, <2>2, <2>3, <2>6, <3>1 DEF Sends
  <2>7. QED
    <3>1. wr.st # 31
      BY <2>1 DEF WrSending, At
    <3>2. QED BY <1>1, <2>4, <2>5, <2>6, <3>1, ChipMoves
<1>10. QED BY <1>6, <1>7, <1>8, <1>9

LEMMA ClockBehind ==
  ASSUME IInv, Clock
  PROVE  Behind' /\ Known' /\ stored' \subseteq Entry /\ lost' \subseteq Entry
<1>1. /\ TypeOK /\ Phase /\ Place /\ Follows /\ Sends /\ Behind /\ Known /\ Walker
      /\ ST \in State /\ WCNT \in 0 .. WORD_NUM_MAX /\ word \in Entry
      /\ stored \subseteq Entry /\ lost \subseteq Entry
  BY DEF Clock, IInv, TypeOK, State, TableInv
<1>2. stored' \subseteq Entry /\ lost' \subseteq Entry /\ stored \subseteq stored' /\ lost \subseteq lost'
  BY <1>1, ClockSends
<1>3. \/ WCNT' = 0
      \/ WCNT' = WCNT
      \/ WCNT' = WCNT + 1 /\ ST = 34 /\ wr.end
      \/ WCNT' = WCNT + 1 /\ ST = 41
  BY <1>1, WalkerInTable DEF State
<1>4. WCNT' = WCNT + 1 => Done(WCNT)
  <2>1. CASE ST = 34 /\ wr.end
    <3>1. At(wr, 30, TRUE)
      BY <1>1, <2>1 DEF Phase, WrPhase, WrSending, At
    <3>2. word \in stored \union lost /\ WCNT \in Index
      BY <1>1, <2>1, <3>1 DEF Sends, At, Place, InEntry
    <3>3. QED BY <1>1, <2>1, <3>2 DEF Follows, Done
  <2>2. CASE ST = 41
    BY <1>1, <2>2 DEF Sends, Follows, Done, Place, InEntry
  <2>3. QED BY <1>1, <1>3, <2>1, <2>2
<1>5. \A v \in Index : v < WCNT' => Done(v)'
  <2>1. SUFFICES ASSUME NEW v \in Index, v < WCNT' PROVE Done(v)
    BY <1>2 DEF Done
  <2>2. v < WCNT \/ (v = WCNT /\ WCNT' = WCNT + 1)
    BY <1>1, <1>3, <2>1 DEF Index
  <2>3. QED BY <1>1, <1>4, <2>2 DEF Behind
<1>6. ST < 28 => stored = {}
  BY <1>1 DEF Known
<1>7. \A e \in stored' : \E v \in Index : v <= WCNT' /\ e = Table[v]
  <2>1. SUFFICES ASSUME NEW e \in stored' PROVE \E v \in Index : v <= WCNT' /\ e = Table[v]
    OBVIOUS
  <2>2. e \in stored \/ (e = word /\ ST = 34)
    BY ClockSends
  <2>3. ST >= 28 /\ WCNT <= WCNT'
    <3>1. ST >= 28
      BY <1>1, <1>6, <2>2 DEF State
    <3>2. QED BY <1>1, <3>1, WalkerInTable DEF Place, State
  <2>4. PICK v \in Index : v <= WCNT /\ e = Table[v]
    BY <1>1, <2>2, <2>3 DEF Behind, Follows
  <2>5. WCNT' \in Nat
    BY <1>1, <1>3
  <2>6. QED BY <1>1, <2>3, <2>4, <2>5 DEF Index
<1>8. Known'
  <2>1. Camera /\ ST' >= 28 => id'
    BY <1>1, WalkerIdentifies DEF Known, State
  <2>2. ST' < 28 => stored' = {}
    <3>1. ST' < 28 => ST < 28
      BY <1>1, WalkerIdentifies, WalkerInTable DEF State
    <3>2. QED BY <1>6, <3>1, ClockSends
  <2>3. QED BY <2>1, <2>2 DEF Known
<1>9. QED BY <1>2, <1>5, <1>7, <1>8 DEF Behind

LEMMA ClockType ==
  ASSUME IInv, Clock
  PROVE  TypeOK'
<1>. USE ConfigAssumption
<1>1. /\ TypeOK /\ Phase /\ Walker /\ Engines /\ ST \in State /\ CNT \in 0 .. 1
      /\ WCNT \in 0 .. WORD_NUM_MAX /\ DELY \in Nat
  BY DEF Clock, IInv, TypeOK, State
<1>2. ST' \in State /\ DELY' \in Nat
  BY <1>1, WalkerInTable, WalkerLatches DEF State
<1>3. CNT' \in 0 .. 1
  <2>1. CNT' \in {0, CNT} \/ (ST' = 10 /\ CNT' = CNT + 1)
    BY <1>1, WalkerIdentifies DEF State
  <2>2. QED BY <1>1, <2>1, ClockPlace DEF Place
<1>4. WCNT' \in 0 .. WORD_NUM_MAX
  <2>1. WCNT' \in {0, WCNT} \/ (ST' \in {35, 42} /\ WCNT' = WCNT + 1)
    BY <1>1, WalkerInTable DEF State
  <2>2. QED BY <1>1, <2>1, ClockPlace DEF Place
<1>5. word' \in Entry /\ latch' \in Entry \union {NoEntry}
  BY <1>1, ClockFollows, WalkerLatches DEF TypeOK
<1>6. go' \in Go
  BY <1>1, WalkerGo DEF TypeOK, Go
<1>7. ptr' \in Engine /\ rd' \in Engine /\ wr' \in Engine
  BY <1>1, PointerType, ReadType, WriteType
<1>8. release' \in BOOLEAN
  BY <1>1, WalkerReleases DEF TypeOK
<1>9. rdata' \in BOOLEAN /\ refused' \in BOOLEAN /\ ptrSet' \in BOOLEAN /\ nNack' \in 0 .. MaxNack
  <2>1. Answer => refused' \in BOOLEAN /\ nNack' \in 0 .. MaxNack
    <3>1. nNack \in 0 .. MaxNack /\ refused \in BOOLEAN
      BY <1>1 DEF TypeOK
    <3>2. CASE UNCHANGED <<refused, nNack>>
      BY <3>1, <3>2
    <3>3. CASE nNack < MaxNack /\ refused' = TRUE /\ nNack' = nNack + 1
      BY <3>1, <3>3
    <3>4. QED BY <3>2, <3>3 DEF Answer
  <2>2. CASE UNCHANGED chip
    BY <1>1, <2>2 DEF chip, TypeOK
  <2>3. CASE WriteData
    BY <1>1, <2>1, <2>2, <2>3 DEF WriteData, WriteStart, WriteBit, WriteByte, WriteLast,
      WriteEnd, TypeOK
  <2>4. CASE WritePointer
    BY <1>1, <2>1, <2>2, <2>4 DEF WritePointer, PointerStart, PollBit, PollWait, PollAnswered,
      PollSilent, PollAgain, PointerBit, PointerByte, PointerEnd, TypeOK
  <2>5. CASE Read
    BY <1>1, <2>1, <2>2, <2>5 DEF Read, ReadStart, ReadBit, ReadAddress, ReadData, ReadEnd,
      TypeOK
  <2>6. QED BY <1>1, <2>2, <2>3, <2>4, <2>5 DEF Engines
<1>10. id' \in BOOLEAN
  BY <1>1, WalkerIdentifies DEF TypeOK
<1>11. frame' \subseteq Entry /\ stored' \subseteq Entry /\ lost' \subseteq Entry
  BY ClockSends, ClockBehind
<1>12. nReset' \in 0 .. MaxReset
  BY <1>1 DEF Clock, TypeOK
<1>13. QED
  BY <1>2, <1>3, <1>4, <1>5, <1>6, <1>7, <1>8, <1>9, <1>10, <1>11, <1>12 DEF TypeOK, State, Go

\* So IInv is inductive, and holds.
LEMMA StepInv ==
  ASSUME IInv, [Next]_vars
  PROVE  IInv'
<1>1. CASE Clock
  <2>1. Phase'
    BY <1>1, ClockKeepsPhase DEF IInv
  <2>2. TableInv'
    BY <1>1, ClockPlace, ClockFollows, ClockSends, ClockBehind DEF TableInv
  <2>3. QED BY <1>1, <2>1, <2>2, ClockType DEF IInv
<1>2. CASE Reset
  BY <1>2, ResetInv DEF IInv
<1>3. CASE UNCHANGED vars
  BY <1>3 DEF vars, walker, engines, chip, IInv, TypeOK, Phase, PtrPhase, RdPhase, WrPhase, At,
    PtrTurned, PtrSending, RdSending, WrSending, TableInv, Place, Follows, Sends, Behind, Done,
    Known
<1>4. QED BY <1>1, <1>2, <1>3 DEF Next

\* The walker and the engine it has asked for are always where the one expects the other.
THEOREM Invariance == Spec => []IInv
<1>1. Init => IInv
  BY InitInv
<1>2. IInv /\ [Next]_vars => IInv'
  BY StepInv
<1>3. QED BY <1>1, <1>2, PTL DEF Spec

-----------------------------------------------------------------------------
(***************************************************************************)
(* The theorems.                                                           *)
(***************************************************************************)

\* Every variable keeps its type, for every table and any number of resets.
THEOREM TypeCorrect == Spec => []TypeOK
<1>1. IInv => TypeOK
  BY DEF IInv
<1>2. QED BY <1>1, Invariance, PTL

\* The three engines that share the bus through ANDed lines never drive it together
\* (MIPI_BRIDGE_CONFIG.v:272), though each is started by GO and left to itself.
THEOREM EnginesAlternate == Spec => []OneEngine
<1>1. IInv => OneEngine
  <2>1. SUFFICES ASSUME IInv PROVE OneEngine
    OBVIOUS
  <2>2. ST \in State
    BY <2>1 DEF IInv, TypeOK, State
  <2>3. ST \notin {3, 4} => ~Busy("ptr", ptr)
    BY <2>1 DEF IInv, Phase, PtrPhase, At, Busy
  <2>4. ST \notin {7, 8, 9} => ~Busy("rd", rd)
    BY <2>1 DEF IInv, Phase, RdPhase, At, Busy
  <2>5. ST \notin {32, 33, 34} => ~Busy("wr", wr)
    BY <2>1 DEF IInv, Phase, WrPhase, At, Busy
  <2>6. QED BY <2>2, <2>3, <2>4, <2>5 DEF OneEngine
<1>2. QED BY <1>1, Invariance, PTL

\* The chip holds a prefix of the walk, but for what it refused: nothing is skipped
\* or taken out of order, though the table register is a clock behind its index.
THEOREM TableInOrder == Spec => []InOrder
<1>1. IInv => InOrder
  <2>1. SUFFICES ASSUME IInv, NEW w \in Index, Table[w] \in stored, NEW v \in 0 .. w
                 PROVE  Done(v)
    BY DEF InOrder, Done
  <2>2. WCNT \in Nat /\ Behind /\ v \in Index /\ Table[w] # NoEntry
    BY <2>1, ConfigAssumption DEF IInv, TypeOK, TableInv, Index, Entry
  <2>3. PICK u \in Index : u <= WCNT /\ Table[w] = Table[u]
    BY <2>1, <2>2 DEF Behind
  <2>4. u = w
    BY <2>1, <2>2, <2>3, TableAssumption
  <2>5. CASE v < WCNT
    BY <2>2, <2>5 DEF Behind
  <2>6. CASE v = w
    BY <2>1, <2>6 DEF Done
  <2>7. QED BY <2>2, <2>3, <2>4, <2>5, <2>6 DEF Index
<1>2. QED BY <1>1, Invariance, PTL

\* The bridge and the camera are released when their whole table has been sent and
\* the bus is let go, and not before.
THEOREM ReleaseIsLast == Spec => []ReleasedIsDone
<1>1. IInv => ReleasedIsDone
  <2>1. SUFFICES ASSUME IInv, release PROVE ReleasedIsDone!2
    BY DEF ReleasedIsDone
  <2>2. ST \in {35, 36} /\ WCNT = WORD_NUM_MAX
    BY <2>1, ConfigAssumption DEF IInv, TableInv, Place
  <2>3. Entry \ Delays \subseteq stored \union lost
    BY <2>1, <2>2, ConfigAssumption DEF IInv, TableInv, Behind, Done, Entry, Index
  <2>4. ~Busy("ptr", ptr) /\ ~Busy("rd", rd) /\ ~Busy("wr", wr)
    BY <2>1, <2>2 DEF IInv, Phase, PtrPhase, RdPhase, WrPhase, At, Busy
  <2>5. QED BY <2>3, <2>4
<1>2. QED BY <1>1, Invariance, PTL

\* Nothing is written to the camera before it has told its ID.
THEOREM CameraIsAsked == Spec => []CameraIsThere
<1>1. IInv => CameraIsThere
  BY DEF IInv, TableInv, Known, CameraIsThere, TypeOK
<1>2. QED BY <1>1, Invariance, PTL

\* The walker leaves an entry when the engine has sent it, byte by byte, and rests.
THEOREM EntryIsSent == Spec => MovesOnWhenSent
<1>1. IInv /\ [Next]_vars => [WCNT' = WCNT + 1 /\ word \notin Delays => frame = {word} /\ wr.st = 30]_vars
  <2>1. SUFFICES ASSUME IInv, [Next]_vars, WCNT' = WCNT + 1, word \notin Delays
                 PROVE  (frame = {word} /\ wr.st = 30) \/ UNCHANGED vars
    OBVIOUS
  <2>2. WCNT \in Nat /\ ST \in State
    BY <2>1 DEF IInv, TypeOK, State
  <2>3. CASE Clock
    <3>1. ST = 34 /\ wr.end
      BY <2>1, <2>2, <2>3, WalkerInTable DEF Clock, State, IInv, TableInv, Sends
    <3>2. At(wr, 30, TRUE)
      BY <2>1, <3>1 DEF IInv, Phase, WrPhase, WrSending
    <3>3. QED BY <2>1, <3>1, <3>2 DEF IInv, TableInv, Sends, At
  <2>4. CASE Reset
    BY <2>1, <2>2, <2>4 DEF Reset, Start
  <2>5. QED BY <2>1, <2>3, <2>4 DEF Next
<1>2. QED BY <1>1, Invariance, PTL DEF Spec, MovesOnWhenSent
=============================================================================
