----------------------------- MODULE MipiConfig -----------------------------
(***************************************************************************)
(* The configuration of the MIPI bridge (MIPI_BRIDGE_CONFIG) and of the    *)
(* camera (MIPI_CAMERA_CONFIG): one machine, in two variants, that reads   *)
(* the ID of its chip and then writes a table of registers with delays in  *)
(* it, by way of three I2C engines (I2C_WRITE_PTR, I2C_READ_DATA and       *)
(* I2C_WRITE_WDATA) whose lines are ANDed onto one bus.                    *)
(*                                                                         *)
(* A step is a rising edge of CLK_400K, at which the four machines and the *)
(* table register move together, or a reset.  The states have the numbers  *)
(* of the code.  The chip is external: it may sleep through any polls of   *)
(* I2C_WRITE_PTR, and refuse any other byte.  A register write is named by *)
(* its entry of the table, so a byte is the entry it was loaded from.      *)
(***************************************************************************)
EXTENDS Naturals, FiniteSets

CONSTANTS
  Camera,          \* TRUE: the camera; FALSE: the bridge
  WORD_NUM_MAX,    \* length of the walk over the table
  Table,           \* WCNT |-> the entry the case statement gives, or NoEntry
  NoEntry,         \* no label of the case is WCNT
  Listed,          \* the entries the case statement lists
  Delays,          \* the entries that are delays
  DelayClocks,     \* entry |-> REG16_DATA16[15:0] * SCAL, the length of a delay
  ReleaseClocks,   \* clocks before the bridge is released (1000)
  MaxReset,        \* bound on the resets
  MaxNack          \* bound on the refused bytes

Index == 0 .. WORD_NUM_MAX - 1
Entry == {Table[w] : w \in Index} \ {NoEntry}

ASSUME ConfigAssumption ==
  /\ Camera \in BOOLEAN /\ WORD_NUM_MAX \in Nat \ {0}
  /\ Entry \subseteq Listed /\ NoEntry \notin Listed
  /\ Table[0] # NoEntry /\ Table[0] \notin Delays
  /\ DelayClocks \in [Listed -> Nat] /\ ReleaseClocks \in Nat
  /\ MaxReset \in Nat /\ MaxNack \in Nat

\* The last entry is a register (state 42 does not look for the end), and an entry
\* is given for one WCNT only, since it is a line of the case statement.
ASSUME TableAssumption ==
  /\ Table[WORD_NUM_MAX - 1] \notin Delays \union {NoEntry}
  /\ \A v, w \in Index : Table[v] = Table[w] /\ Table[v] # NoEntry => v = w

BYTE_NUM == IF Camera THEN 3 ELSE 4    \* bytes of a write after the address
BYTE_END == 2                          \* bytes of a pointer after the address
END_BYTE == IF Camera THEN 0 ELSE 1    \* the last byte of a read

VARIABLES
  ST, CNT, WCNT, DELY,    \* the walker
  word,                   \* REG16_DATA16: the entry read from the table
  latch,                  \* the entry in POINTER and WORD_DATA, or NoEntry
  go,                     \* W_POINTER_GO, R_GO and W_WORD_GO
  release,                \* MIPI_BRIDGE_CONFIG_RELEASE or MIPI_CAMERA_RELAESE
  ptr, rd, wr,            \* the engines
  rdata, id,              \* R_DATA and ID: it is the ID of the chip
  refused, ptrSet,        \* the chip refused a byte of this frame; has the pointer
  frame,                  \* the entries the bytes of this write came from
  stored, lost,           \* the entries written and refused since the reset
  nReset, nNack           \* resets and refusals so far

walker == <<ST, CNT, WCNT, DELY, word, latch, go, release, id>>
engines == <<ptr, rd, wr>>
chip == <<rdata, refused, ptrSet, frame, stored, lost, nNack>>
vars == <<walker, engines, chip, nReset>>

AllUp == [ptr |-> TRUE, rd |-> TRUE, wr |-> TRUE]
Engine0 == [st |-> 0, cnt |-> 0, byte |-> 0, dely |-> 0, end |-> TRUE]

\* The reset of the machines, which is that of the chip too.
Start ==
  /\ ST' = 0 /\ CNT' = 0 /\ WCNT' = 0 /\ DELY' = 0 /\ go' = AllUp /\ release' = FALSE
  /\ id' = FALSE /\ UNCHANGED <<word, latch>>
  /\ ptr' = Engine0 /\ rd' = Engine0 /\ wr' = Engine0
  /\ rdata' = FALSE /\ refused' = FALSE /\ ptrSet' = FALSE
  /\ frame' = {} /\ stored' = {} /\ lost' = {}

Init ==
  /\ ST = 0 /\ CNT = 0 /\ WCNT = 0 /\ DELY = 0 /\ go = AllUp /\ release = FALSE
  /\ id = FALSE /\ word \in Entry /\ latch = NoEntry
  /\ ptr = Engine0 /\ rd = Engine0 /\ wr = Engine0
  /\ rdata = FALSE /\ refused = FALSE /\ ptrSet = FALSE
  /\ frame = {} /\ stored = {} /\ lost = {}
  /\ nReset = 0 /\ nNack = 0

-----------------------------------------------------------------------------
(***************************************************************************)
(* The engines.  Each puts a byte on the bus in nine turns through its     *)
(* states 2 to 5, the ninth for the ACK.                                   *)
(***************************************************************************)
Move(x, s) == [x EXCEPT !.st = s]

\* Any byte but a polled address may be refused; after that the chip is silent.
Answer ==
  \/ UNCHANGED <<refused, nNack>>
  \/ ~refused /\ nNack < MaxNack /\ refused' = TRUE /\ nNack' = nNack + 1

\* The states of a turn, and those of a START and a STOP.
Bit(x) ==
  CASE x.st = 4 -> [x EXCEPT !.st = 5, !.cnt = @ + 1]
    [] x.st = 5 -> [x EXCEPT !.st = 2]
    [] OTHER    -> [x EXCEPT !.st = @ + 1]

NextByte(x) == [x EXCEPT !.st = 2, !.cnt = 0, !.byte = @ + 1]

AtByteEnd(x) == x.st = 5 /\ x.cnt = 9

\* Waiting for GO to fall; a finished engine waits for the next fall.
Wait(x, up, s, wake) ==
  CASE x.st = 0 -> IF up THEN Move(Engine0, s) ELSE Engine0
    [] x.st = s -> IF up THEN x ELSE Move(x, wake)

-----------------------------------------------------------------------------
\* I2C_WRITE_WDATA: address, pointer and data; no ACK is looked at.

WriteIdle == wr.st \in {0, 30} /\ wr' = Wait(wr, go.wr, 30, 31)

WriteStart ==
  /\ wr.st = 31 /\ wr' = [wr EXCEPT !.st = 1, !.end = FALSE]
  /\ frame' = {} /\ refused' = FALSE
  /\ UNCHANGED <<rdata, ptrSet, stored, lost, nNack>>

WriteBit ==
  /\ wr.st \in {1, 2, 3, 4, 5, 6, 7, 8} /\ ~AtByteEnd(wr)
  /\ wr' = Bit(wr)
  /\ UNCHANGED chip

WriteByte ==
  /\ AtByteEnd(wr) /\ wr.byte < BYTE_NUM
  /\ wr' = NextByte(wr)
  /\ frame' = frame \union {latch}
  /\ Answer
  /\ UNCHANGED <<rdata, ptrSet, stored, lost>>

\* The last byte: what the chip acknowledged in full it holds.
WriteLast ==
  /\ AtByteEnd(wr) /\ wr.byte = BYTE_NUM
  /\ wr' = Move(wr, 6)
  /\ Answer
  /\ stored' = IF refused' THEN stored ELSE stored \union frame
  /\ lost' = IF refused' THEN lost \union frame ELSE lost
  /\ UNCHANGED <<rdata, ptrSet, frame>>

\* Mutant: END_OK is not set again.
WriteEndMute ==
  /\ wr.st = 9 /\ wr' = [Engine0 EXCEPT !.st = 30, !.end = FALSE]
  /\ UNCHANGED chip

WriteEnd ==
  /\ wr.st = 9 /\ wr' = Move(Engine0, 30)
  /\ UNCHANGED chip

WriteData == WriteStart \/ WriteBit \/ WriteByte \/ WriteLast \/ WriteEnd

-----------------------------------------------------------------------------
\* I2C_WRITE_PTR: the address is sent until it is acknowledged, then the pointer.

PointerIdle == ptr.st \in {0, 10} /\ ptr' = Wait(ptr, go.ptr, 10, 11)

PointerStart ==
  /\ ptr.st = 11 /\ ptr' = [ptr EXCEPT !.st = 12, !.cnt = 0, !.end = FALSE]
  /\ UNCHANGED chip

\* States 12 to 15 send the address, 16 waits at its ACK.
PollBit ==
  /\ ptr.st \in {12, 13, 14, 15}
  /\ ptr' = CASE ptr.st = 14 -> [ptr EXCEPT !.st = 15, !.cnt = @ + 1]
              [] ptr.st = 15 -> IF ptr.cnt = 9 THEN [ptr EXCEPT !.st = 16, !.dely = 0]
                                               ELSE Move(ptr, 12)
              [] OTHER       -> Move(ptr, ptr.st + 1)
  /\ UNCHANGED chip

PollWait ==
  /\ \/ ptr.st = 16 /\ ptr.dely <= 1
     \/ ptr.st = 20 /\ ptr.dely <= 2
  /\ ptr' = [ptr EXCEPT !.dely = @ + 1]
  /\ UNCHANGED chip

PollAnswered ==
  /\ ptr.st = 16 /\ ptr.dely > 1 /\ ptr' = Move(ptr, 5)
  /\ refused' = FALSE
  /\ UNCHANGED <<rdata, ptrSet, frame, stored, lost, nNack>>

\* The chip sleeps: a STOP, and again.
PollSilent ==
  /\ ptr.st = 16 /\ ptr.dely > 1 /\ ptr' = Move(ptr, 17)
  /\ UNCHANGED chip

PollAgain ==
  /\ \/ ptr.st \in {17, 18} /\ ptr' = Move(ptr, ptr.st + 1)
     \/ ptr.st = 19 /\ ptr' = [ptr EXCEPT !.st = 20, !.dely = 0]
     \/ ptr.st = 20 /\ ptr.dely > 2 /\ ptr' = Move(ptr, 11)
  /\ UNCHANGED chip

PointerBit ==
  /\ ptr.st \in {2, 3, 4, 5, 6, 7, 8} /\ ~AtByteEnd(ptr)
  /\ ptr' = Bit(ptr)
  /\ UNCHANGED chip

PointerByte ==
  /\ AtByteEnd(ptr)
  /\ ptr' = IF ptr.byte = BYTE_END THEN Move(ptr, 6) ELSE NextByte(ptr)
  /\ IF ptr.byte = 0 THEN UNCHANGED <<refused, nNack>> ELSE Answer
  /\ ptrSet' = (ptr.byte = BYTE_END /\ ~refused')
  /\ UNCHANGED <<rdata, frame, stored, lost>>

PointerEnd ==
  /\ ptr.st = 9 /\ ptr' = Move(Engine0, 10)
  /\ UNCHANGED chip

WritePointer ==
  \/ PointerStart \/ PollBit \/ PollWait \/ PollAnswered \/ PollSilent
  \/ PollAgain \/ PointerBit \/ PointerByte \/ PointerEnd

-----------------------------------------------------------------------------
\* I2C_READ_DATA: the address, then END_BYTE + 1 bytes of data.

ReadIdle == rd.st \in {0, 30} /\ rd' = Wait(rd, go.rd, 30, 31)

ReadStart ==
  /\ rd.st = 31 /\ rd' = [rd EXCEPT !.st = 1, !.end = FALSE]
  /\ refused' = FALSE
  /\ UNCHANGED <<rdata, ptrSet, frame, stored, lost, nNack>>

ReadBit ==
  /\ rd.st \in {1, 2, 3, 4, 5, 10, 11, 12} /\ ~AtByteEnd(rd)
  /\ rd' = Bit(rd)
  /\ UNCHANGED chip

\* A chip that refused the address reads as ones; without the pointer it may
\* answer with any of its registers.
ReadAddress ==
  /\ AtByteEnd(rd) /\ rd' = Move(rd, 6)
  /\ Answer
  /\ rdata' \in IF refused' THEN {FALSE} ELSE IF ptrSet THEN {TRUE} ELSE BOOLEAN
  /\ UNCHANGED <<ptrSet, frame, stored, lost>>

ReadData ==
  /\ rd.st \in {6, 7, 8, 9}
  /\ rd' = CASE rd.st = 6 -> [rd EXCEPT !.st = 7, !.cnt = 0]
             [] rd.st = 7 -> [rd EXCEPT !.st = 8, !.dely = 0, !.cnt = @ + 1]
             [] rd.st = 8 /\ rd.dely # 2 -> [rd EXCEPT !.dely = @ + 1]
             [] rd.st = 8 /\ rd.dely = 2 ->
                  IF rd.cnt = 9 THEN [rd EXCEPT !.st = 9, !.byte = @ + 1] ELSE Move(rd, 7)
             [] rd.st = 9 -> IF rd.byte > END_BYTE THEN Move(rd, 10) ELSE Move(rd, 6)
  /\ UNCHANGED chip

ReadEnd ==
  /\ rd.st = 13 /\ rd' = Move(Engine0, 30)
  /\ UNCHANGED chip

Read == ReadStart \/ ReadBit \/ ReadAddress \/ ReadData \/ ReadEnd

-----------------------------------------------------------------------------
\* One edge for the engines.  Their lines are ANDed, so the bus carries what an
\* engine sends as long as it is the only one to send: see OneEngine.
Engines ==
  \/ WriteIdle /\ PointerIdle /\ ReadIdle /\ UNCHANGED chip
  \/ WriteData /\ PointerIdle /\ ReadIdle
  \/ WriteIdle /\ WritePointer /\ ReadIdle
  \/ WriteIdle /\ PointerIdle /\ Read

-----------------------------------------------------------------------------
(***************************************************************************)
(* The walker.                                                             *)
(***************************************************************************)
Goto(s) == ST' = s
Raise(e) == go' = [go EXCEPT ![e] = TRUE]
Lower(e) == go' = [go EXCEPT ![e] = FALSE]

Restart ==
  /\ ST = 0 /\ Goto(1)
  /\ CNT' = 0 /\ WCNT' = 0 /\ go' = AllUp /\ DELY' = 0
  /\ UNCHANGED <<latch, release, id>>

\* The states that only pass a clock.
Pass ==
  /\ ST \in {1, 5, 8, 33, 42}
  /\ Goto(IF ST = 42 THEN 31 ELSE ST + 1)
  /\ UNCHANGED <<CNT, WCNT, DELY, latch, go, release, id>>

\* States 2 and 6: lower the GO of an engine that has finished what it did before.
AskPointer ==
  /\ ST = 2
  /\ latch' = NoEntry
  /\ IF ptr.end THEN Goto(3) /\ Lower("ptr") /\ DELY' = 0
                ELSE UNCHANGED <<ST, go, DELY>>
  /\ UNCHANGED <<CNT, WCNT, release, id>>

AskRead ==
  /\ ST = 6
  /\ IF rd.end THEN Goto(7) /\ Lower("rd") /\ DELY' = 0
               ELSE UNCHANGED <<ST, go, DELY>>
  /\ UNCHANGED <<CNT, WCNT, latch, release, id>>

\* States 3, 7 and 32: hold it low for some clocks.
Hold(from, to, e, clocks) ==
  /\ ST = from
  /\ IF DELY = clocks THEN Goto(to) /\ Raise(e) ELSE UNCHANGED <<ST, go>>
  /\ DELY' = IF DELY = clocks THEN (IF from = 3 THEN 0 ELSE DELY) ELSE DELY + 1
  /\ UNCHANGED <<CNT, WCNT, latch, release, id>>

HoldPointer == Hold(3, 4, "ptr", 2)
HoldRead == Hold(7, 8, "rd", 2)
HoldWord == Hold(32, 33, "wr", 3)

\* Mutant: W_POINTER_END is not looked at.
AwaitPointerBlind ==
  /\ ST = 4
  /\ IF DELY = 3 THEN DELY' = DELY /\ Goto(5)
                 ELSE DELY' = DELY + 1 /\ UNCHANGED ST
  /\ UNCHANGED <<CNT, WCNT, latch, go, release, id>>

\* State 4: some clocks, then until the pointer is written.
AwaitPointer ==
  /\ ST = 4
  /\ IF DELY = 3 THEN DELY' = DELY /\ Goto(IF ptr.end THEN 5 ELSE 4)
                 ELSE DELY' = DELY + 1 /\ UNCHANGED ST
  /\ UNCHANGED <<CNT, WCNT, latch, go, release, id>>

AwaitRead ==
  /\ ST = 9
  /\ IF rd.end THEN Goto(10) /\ CNT' = CNT + 1 /\ id' = (IF CNT = 0 THEN rdata ELSE id)
               ELSE UNCHANGED <<ST, CNT, id>>
  /\ UNCHANGED <<WCNT, DELY, latch, go, release>>

\* Mutant: the ID is not compared.
CheckIDBlind ==
  /\ ST = 10 /\ Goto(IF CNT = 1 THEN 28 ELSE 1)
  /\ DELY' = 0 /\ go' = AllUp
  /\ UNCHANGED <<CNT, WCNT, latch, release, id>>

\* Mutant: another ID is read again without setting the pointer again.
CheckIDReadsAgain ==
  /\ ST = 10
  /\ IF Camera /\ ~id THEN Goto(6) /\ CNT' = 0
                      ELSE Goto(IF CNT = 1 THEN 28 ELSE 1) /\ UNCHANGED CNT
  /\ DELY' = 0 /\ go' = AllUp
  /\ UNCHANGED <<WCNT, latch, release, id>>

\* The camera is asked for its ID until it gives it, the bridge once.
CheckID ==
  /\ ST = 10
  /\ IF Camera /\ ~id THEN Goto(1) /\ CNT' = 0
                      ELSE Goto(IF CNT = 1 THEN 28 ELSE 1) /\ UNCHANGED CNT
  /\ DELY' = 0 /\ go' = AllUp
  /\ UNCHANGED <<WCNT, latch, release, id>>

Settle ==
  /\ ST = 28
  /\ IF DELY < 5 THEN DELY' = DELY + 1 /\ UNCHANGED ST ELSE Goto(30) /\ UNCHANGED DELY
  /\ UNCHANGED <<CNT, WCNT, latch, go, release, id>>

TableStart ==
  /\ ST = 30 /\ Goto(31) /\ WCNT' = 0
  /\ UNCHANGED <<CNT, DELY, latch, go, release, id>>

AskWord ==
  /\ ST = 31 /\ word \notin Delays
  /\ latch' = word
  /\ IF wr.end THEN Goto(32) /\ Lower("wr") /\ DELY' = 0
               ELSE UNCHANGED <<ST, go, DELY>>
  /\ UNCHANGED <<CNT, WCNT, release, id>>

\* Mutant: W_WORD_END is not looked at.
AwaitWordBlind ==
  /\ ST = 34 /\ Goto(35) /\ WCNT' = WCNT + 1
  /\ UNCHANGED <<CNT, DELY, latch, go, release, id>>

AwaitWord ==
  /\ ST = 34
  /\ IF wr.end THEN Goto(35) /\ WCNT' = WCNT + 1 ELSE UNCHANGED <<ST, WCNT>>
  /\ UNCHANGED <<CNT, DELY, latch, go, release, id>>

\* Mutant: the table is left one entry too late.
NextWordPastEnd ==
  /\ ST = 35 /\ Goto(31)
  /\ UNCHANGED <<CNT, WCNT, DELY, latch, go, release, id>>

\* State 35 gives the table register the clock it needs to follow WCNT.
NextWord ==
  /\ ST = 35 /\ WCNT # WORD_NUM_MAX /\ Goto(31)
  /\ UNCHANGED <<CNT, WCNT, DELY, latch, go, release, id>>

\* Mutant: it is left one entry too early.
TableEndEarly ==
  /\ ST = 35 /\ WCNT + 1 = WORD_NUM_MAX
  /\ IF Camera THEN release' = TRUE /\ UNCHANGED <<ST, CNT, DELY>>
               ELSE Goto(36) /\ CNT' = 0 /\ DELY' = 0 /\ UNCHANGED release
  /\ UNCHANGED <<WCNT, latch, go, id>>

\* The camera stays here, released; the bridge waits before it is.
TableEnd ==
  /\ ST = 35 /\ WCNT = WORD_NUM_MAX
  /\ IF Camera THEN release' = TRUE /\ UNCHANGED <<ST, CNT, DELY>>
               ELSE Goto(36) /\ CNT' = 0 /\ DELY' = 0 /\ UNCHANGED release
  /\ UNCHANGED <<WCNT, latch, go, id>>

Release ==
  /\ ST = 36
  /\ IF DELY = ReleaseClocks THEN release' = TRUE /\ UNCHANGED DELY
                             ELSE DELY' = DELY + 1 /\ UNCHANGED release
  /\ UNCHANGED <<ST, CNT, WCNT, latch, go, id>>

\* A delay entry: states 40, 41 and 42, which is where the table register follows.
DelayStart ==
  /\ \/ ST = 31 /\ word \in Delays /\ Goto(40) /\ UNCHANGED DELY
     \/ ST = 40 /\ Goto(41) /\ DELY' = 0
  /\ UNCHANGED <<CNT, WCNT, latch, go, release, id>>

\* Mutant: state 42 is left out.
DelayShort ==
  /\ ST = 41
  /\ IF DELY = DelayClocks[word]
     THEN Goto(31) /\ WCNT' = WCNT + 1 /\ UNCHANGED DELY
     ELSE DELY' = DELY + 1 /\ UNCHANGED <<ST, WCNT>>
  /\ UNCHANGED <<CNT, latch, go, release, id>>

Delay ==
  /\ ST = 41
  /\ IF DELY = DelayClocks[word]
     THEN Goto(42) /\ WCNT' = WCNT + 1 /\ UNCHANGED DELY
     ELSE DELY' = DELY + 1 /\ UNCHANGED <<ST, WCNT>>
  /\ UNCHANGED <<CNT, latch, go, release, id>>

Walker ==
  \/ Restart \/ Pass \/ AskPointer \/ HoldPointer \/ AwaitPointer \/ AskRead \/ HoldRead
  \/ AwaitRead \/ CheckID \/ Settle \/ TableStart \/ AskWord \/ HoldWord \/ AwaitWord
  \/ NextWord \/ TableEnd \/ Release \/ DelayStart \/ Delay

\* The table register follows WCNT a clock later; a WCNT without a label leaves it.
FollowTable ==
  word' = IF WCNT \in Index /\ Table[WCNT] # NoEntry THEN Table[WCNT] ELSE word

Clock == Walker /\ FollowTable /\ Engines /\ UNCHANGED nReset

Reset == nReset < MaxReset /\ nReset' = nReset + 1 /\ Start /\ UNCHANGED nNack

Next == Clock \/ Reset

Spec == Init /\ [][Next]_vars

\* The clock runs, and a chip that is polled again and again answers some time.
Awake == Clock /\ PollAnswered
FairSpec == Spec /\ WF_vars(Clock) /\ SF_vars(Awake)

-----------------------------------------------------------------------------
(***************************************************************************)
(* Properties.                                                             *)
(***************************************************************************)
Busy(e, x) == ~go[e] \/ x.st \notin {0, IF e = "ptr" THEN 10 ELSE 30}

Engine == [st : 0 .. 31, cnt : 0 .. 9, byte : 0 .. 4, dely : 0 .. 3, end : BOOLEAN]

\* Every variable keeps its type.
TypeOK ==
  /\ ST \in 0 .. 10 \union {28} \union 30 .. 36 \union 40 .. 42
  /\ CNT \in 0 .. 1 /\ WCNT \in 0 .. WORD_NUM_MAX /\ DELY \in Nat
  /\ word \in Entry /\ latch \in Entry \union {NoEntry}
  /\ go \in [ptr : BOOLEAN, rd : BOOLEAN, wr : BOOLEAN] /\ release \in BOOLEAN
  /\ ptr \in Engine /\ rd \in Engine /\ wr \in Engine
  /\ rdata \in BOOLEAN /\ id \in BOOLEAN /\ refused \in BOOLEAN /\ ptrSet \in BOOLEAN
  /\ frame \subseteq Entry /\ stored \subseteq Entry /\ lost \subseteq Entry
  /\ nReset \in 0 .. MaxReset /\ nNack \in 0 .. MaxNack

\* At most one engine is on the bus or asked to be: the lines of the three are
\* ANDed, and two of them would spell a byte of neither (MIPI_BRIDGE_CONFIG.v:272).
OneEngine ==
  /\ ~(Busy("ptr", ptr) /\ Busy("rd", rd))
  /\ ~(Busy("ptr", ptr) /\ Busy("wr", wr))
  /\ ~(Busy("rd", rd) /\ Busy("wr", wr))

\* The walker moves on from a write only when the engine has sent that write, each
\* byte from that entry though it is fetched from POINTER and WORD_DATA as late as
\* it is sent, and is back at rest: END is never taken from the write before.
MovesOnWhenSent ==
  [][WCNT' = WCNT + 1 /\ word \notin Delays => frame = {word} /\ wr.st = 30]_vars

\* The chip gets the table in order and without gaps: when it holds an entry it
\* holds, or has refused, every entry before.  The order is that of the walk.
InOrder ==
  \A w \in Index : Table[w] \in stored =>
    \A v \in 0 .. w : Table[v] \in stored \union lost \union Delays \union {NoEntry}

\* Once released the bus is let go for good, so that the camera may be configured
\* after the bridge, and the lens motor may use the bus of the camera.
ReleasedIsDone ==
  release => /\ Entry \ Delays \subseteq stored \union lost
             /\ ~Busy("ptr", ptr) /\ ~Busy("rd", rd) /\ ~Busy("wr", wr)

\* The camera is written to only after it has told its ID.
CameraIsThere == Camera /\ stored # {} => id

\* Stated by the table of MIPI_CAMERA_CONFIG.v:353, which WORD_NUM_MAX says is walked
\* to its end: every register it lists is written, or was refused.
EveryEntrySent == release => Listed \ Delays \subseteq stored \union lost

\* The configuration ends, whatever was refused, once the resets do.
GetsReleased == <>[]release
=============================================================================
