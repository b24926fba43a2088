------------------------------ MODULE I2CMaster ------------------------------
(***************************************************************************)
(* terasic_lib/I2C.c: an I2C master made of writes to two PIOs, SCL (an    *)
(* output) and SDA (tri-state), run by the main loop and, in the middle of *)
(* a transaction of the main loop, by hdmi_isr on the same two PIOs.       *)
(*                                                                         *)
(* A step is one PIO access.  A frame is a call of I2C_Write or I2C_Read:  *)
(* the segments it is made of (i2c_start, i2c_write, i2c_read, i2c_stop)   *)
(* are sequences of accesses, and the segment that follows depends on the  *)
(* ACK.  The device is external.  It has one address, takes or refuses     *)
(* each byte, may store a byte at its last bit or at its ACK, and its      *)
(* register r reads r, so that what a read returned says where it read.    *)
(* Where both drive SDA the PIO wins: it is push-pull, the device is not.  *)
(* A byte has Width bits, the most significant first; the last bit of an   *)
(* address byte says read.                                                 *)
(***************************************************************************)
EXTENDS Naturals, Sequences

CONSTANTS
  Width,          \* bits of a byte (8 on the wire)
  Device,         \* the address bytes, last bit clear, the device may have
  MainCalls,      \* the calls of the main loop and of the handler: records
  HandlerCalls    \* [op : {"write", "read"}, dev, reg, val]

Byte == [1 .. Width -> {0, 1}]
Call == [op : {"write", "read"}, dev : Byte, reg : Byte, val : Byte]

ASSUME CallAssumption ==
  /\ Width \in Nat \ {0, 1}
  /\ MainCalls \subseteq Call /\ HandlerCalls \subseteq Call
  /\ Device \subseteq Byte /\ \A d \in Device : d[Width] = 0
  /\ \A c \in MainCalls \union HandlerCalls : c.dev[Width] = 0

VARIABLES
  scl, dirOut, sdaOut,   \* the PIOs: SCL, direction and data of SDA
  main, handler,         \* the frame of each, or NoFrame
  torn,                  \* the handler ran inside the frame of the main loop
  device,                \* the address of the device
  mode, role,            \* what the device does, and with which byte
  shift, count,          \* the byte on the wire, and how many of its bits were there
  ptr,                   \* the register the device is at
  pull,                  \* the device holds SDA low
  log,                   \* who |-> the <<register, value>> stored in its call
  refused                \* who |-> the device refused a byte in its call

pins == <<scl, dirOut, sdaOut>>
slave == <<mode, role, shift, count, ptr, pull, log, refused>>
vars == <<pins, main, handler, torn, device, slave>>

Who == {"main", "handler"}
NoFrame == [op |-> "none"]

Zero == [j \in 1 .. Width |-> 0]

\* An address byte, to write and to read.
ToWrite(byte) == [byte EXCEPT ![Width] = 0]
ToRead(byte) == [byte EXCEPT ![Width] = 1]

\* Data <<= 1, with the bit that came in.
Shifted(byte, bit) == [j \in 1 .. Width |-> IF j < Width THEN byte[j + 1] ELSE bit]

Content(r) == r

-----------------------------------------------------------------------------
(***************************************************************************)
(* The device: what it does on a START, a STOP and the two edges of SCL.   *)
(***************************************************************************)
Line(dir, data, low) == IF dir THEN data ELSE IF low THEN 0 ELSE 1
SDA == Line(dirOut, sdaOut, pull)

Stores(s) == log' = [w \in Who |-> log[w] \union s]

SlaveStart ==
  /\ mode' = "take" /\ role' = "dev"
  /\ shift' = Zero /\ count' = 0 /\ pull' = FALSE
  /\ UNCHANGED <<ptr, log, refused>>

SlaveStop ==
  /\ mode' = "idle" /\ pull' = FALSE /\ shift' = Zero /\ count' = 0
  /\ UNCHANGED <<role, ptr, log, refused>>

\* A value may be stored at its last bit, and is at its ACK.
SlaveRise(bit) ==
  \/ /\ mode = "take" /\ count < Width
     /\ shift' = [shift EXCEPT ![count + 1] = bit] /\ count' = count + 1
     /\ \/ Stores({})
        \/ /\ role = "val" /\ count' = Width
           /\ Stores({<<ptr, shift'>>})
     /\ UNCHANGED <<mode, role, ptr, pull, refused>>
  \/ /\ mode = "ack"
     /\ ptr' = IF role = "reg" THEN shift ELSE ptr
     /\ Stores(IF role = "val" THEN {<<ptr, shift>>} ELSE {})
     /\ UNCHANGED <<mode, role, shift, count, pull, refused>>
  \/ /\ mode = "sent"
     /\ mode' = IF bit = 1 THEN "idle" ELSE "sent"
     /\ UNCHANGED <<role, shift, count, ptr, pull, log, refused>>
  \/ /\ mode \in {"idle", "send"} \/ (mode = "take" /\ count = Width)
     /\ UNCHANGED slave

Sends(i) ==
  /\ mode' = "send" /\ count' = i
  /\ pull' = (Content(ptr)[i] = 0)

Takes(r) ==
  /\ mode' = "take" /\ role' = r
  /\ shift' = Zero /\ count' = 0 /\ pull' = FALSE

SlaveFall ==
  \/ /\ mode = "take" /\ count = Width                 \* acknowledge it,
     /\ role = "dev" => ToWrite(shift) = device
     /\ mode' = "ack" /\ pull' = TRUE
     /\ UNCHANGED <<role, shift, count, ptr, log, refused>>
  \/ /\ mode = "take" /\ count = Width                 \* or do not
     /\ mode' = "idle" /\ shift' = Zero /\ count' = 0
     /\ refused' = [w \in Who |-> TRUE]
     /\ UNCHANGED <<role, ptr, pull, log>>
  \/ /\ mode = "ack"
     /\ \/ role = "dev" /\ shift[Width] = 0 /\ Takes("reg")
        \/ role = "dev" /\ shift[Width] = 1 /\ Sends(1) /\ UNCHANGED <<role, shift>>
        \/ role \in {"reg", "val"} /\ Takes("val")
     /\ UNCHANGED <<ptr, log, refused>>
  \/ /\ mode = "send" /\ count < Width
     /\ Sends(count + 1)
     /\ UNCHANGED <<role, shift, ptr, log, refused>>
  \/ /\ mode = "send" /\ count = Width
     /\ mode' = "sent" /\ pull' = FALSE
     /\ UNCHANGED <<role, shift, count, ptr, log, refused>>
  \/ /\ mode = "sent"
     /\ Sends(1)
     /\ UNCHANGED <<role, shift, ptr, log, refused>>
  \/ /\ mode = "idle" \/ (mode = "take" /\ count < Width)
     /\ UNCHANGED slave

\* The PIOs change, and the device sees how the two lines did.
Drive(clk, dir, data) ==
  LET before == SDA
      after == Line(dir, data, pull)
  IN /\ scl' = clk /\ dirOut' = dir /\ sdaOut' = data
     /\ \/ scl = 0 /\ clk = 1 /\ SlaveRise(after)
        \/ scl = 1 /\ clk = 0 /\ SlaveFall
        \/ scl = 1 /\ clk = 1 /\ before = 1 /\ after = 0 /\ SlaveStart
        \/ scl = 1 /\ clk = 1 /\ before = 0 /\ after = 1 /\ SlaveStop
        \/ scl = clk /\ (clk = 0 \/ before = after) /\ UNCHANGED slave

-----------------------------------------------------------------------------
(***************************************************************************)
(* The segments: i2c_start, i2c_stop, i2c_write and i2c_read as PIO        *)
(* accesses.  "ack" and "bit" are the two places that read SDA.            *)
(***************************************************************************)
Put(bit) == IF bit = 1 THEN "sda1" ELSE "sda0"

\* Mutant: SDA is not raised first.
i2c_startBare == <<"out", "scl1", "sda0", "scl0">>

\* Mutant: SDA is not raised last.
i2c_stopLow == <<"out", "sda0", "scl1">>

i2c_start == <<"out", "sda1", "scl1", "sda0", "scl0">>
i2c_stop == <<"out", "sda0", "scl1", "sda1">>

\* i2c_write and i2c_read have a loop: i is 0 before it, the pass in it, and
\* Width + 1 behind it.

\* Mutant: the last bit goes first.
i2c_writeLsb(byte, i) ==
  IF i = 0 THEN <<"out">>
  ELSE IF i <= Width THEN <<"scl0", Put(byte[Width + 1 - i]), "scl1", "scl0">>
  ELSE <<"in", "scl1", "ack", "scl0">>

i2c_write(byte, i) ==
  IF i = 0 THEN <<"out">>
  ELSE IF i <= Width THEN <<"scl0", Put(byte[i]), "scl1", "scl0">>
  ELSE <<"in", "scl1", "ack", "scl0">>

\* Mutant: a bit is taken after the clock has fallen.
i2c_readLate(i) ==
  IF i = 0 THEN <<"in", "scl0">>
  ELSE IF i <= Width THEN <<"scl1", "scl0", "bit">>
  ELSE <<"scl0", "out", "sda1", "scl1", "scl0", "sda0">>

\* I2C_Read asks for one byte and does not acknowledge it.
i2c_read(i) ==
  IF i = 0 THEN <<"in", "scl0">>
  ELSE IF i <= Width THEN <<"scl1", "bit", "scl0">>
  ELSE <<"scl0", "out", "sda1", "scl1", "scl0", "sda0">>

\* Mutant: one pass too many.
LastLong(seg) == IF seg \in {"start", "restart", "stop"} THEN 0 ELSE Width + 2

\* Where i ends.
Last(seg) == IF seg \in {"start", "restart", "stop"} THEN 0 ELSE Width + 1

Accesses(f) ==
  CASE f.seg \in {"start", "restart"} -> i2c_start
    [] f.seg = "dev"  -> i2c_write(f.dev, f.i)
    [] f.seg = "reg"  -> i2c_write(f.reg, f.i)
    [] f.seg = "val"  -> i2c_write(f.val, f.i)
    [] f.seg = "devR" -> i2c_write(ToRead(f.dev), f.i)
    [] f.seg = "data" -> i2c_read(f.i)
    [] f.seg = "stop" -> i2c_stop

\* The segment after f.seg: the next one while every byte was acknowledged, then
\* i2c_stop; I2C_Read sends its repeated START whether or not it has an ACK.
After(f) ==
  IF ~f.ok
  THEN IF f.op = "read" /\ f.seg \in {"dev", "reg"} THEN "restart"
       ELSE IF f.seg = "stop" THEN "done" ELSE "stop"
  ELSE LET path == IF f.op = "write"
                   THEN <<"start", "dev", "reg", "val", "stop", "done">>
                   ELSE <<"start", "dev", "reg", "restart", "devR", "data", "stop", "done">>
       IN path[1 + CHOOSE i \in 1 .. Len(path) - 1 : path[i] = f.seg]

Frame(c) ==
  [op |-> c.op, dev |-> c.dev, reg |-> c.reg, val |-> c.val,
   seg |-> "start", i |-> 0, step |-> 1, ok |-> TRUE, got |-> Zero]

\* The place behind the access frame f is at.
Onward(f) ==
  IF f.step < Len(Accesses(f)) THEN [f EXCEPT !.step = @ + 1]
  ELSE IF f.i < Last(f.seg) THEN [f EXCEPT !.i = @ + 1, !.step = 1]
  ELSE [f EXCEPT !.seg = After(f), !.i = 0, !.step = 1]

\* Mutant: the ACK is not looked at.
AdvanceBlind(f, access, sda) ==
  Onward([f EXCEPT !.got = IF access = "bit" THEN Shifted(@, sda) ELSE @])

\* Frame f after the access it is at, with SDA read as sda.
Advance(f, access, sda) ==
  Onward([f EXCEPT !.ok = IF access = "ack" THEN @ /\ sda = 0 ELSE @,
                   !.got = IF access = "bit" THEN Shifted(@, sda) ELSE @])

Access(access) ==
  \/ access = "out"  /\ Drive(scl, TRUE, sdaOut)
  \/ access = "in"   /\ Drive(scl, FALSE, sdaOut)
  \/ access = "sda0" /\ Drive(scl, dirOut, 0)
  \/ access = "sda1" /\ Drive(scl, dirOut, 1)
  \/ access = "scl0" /\ Drive(0, dirOut, sdaOut)
  \/ access = "scl1" /\ Drive(1, dirOut, sdaOut)
  \/ access \in {"ack", "bit"} /\ UNCHANGED <<pins, slave>>

-----------------------------------------------------------------------------
(***************************************************************************)
(* The two callers.  While the handler has a frame the main loop stands    *)
(* still; the handler may take one at any access of the main loop.         *)
(***************************************************************************)
Active(f) == f # NoFrame /\ f.seg # "done"
Done(f) == f # NoFrame /\ f.seg = "done"

Forget(w) ==
  /\ log' = [log EXCEPT ![w] = {}]
  /\ refused' = [refused EXCEPT ![w] = FALSE]
  /\ UNCHANGED <<mode, role, shift, count, ptr, pull>>

MainCall(c) ==
  /\ main = NoFrame /\ handler = NoFrame
  /\ main' = Frame(c) /\ torn' = FALSE
  /\ Forget("main")
  /\ UNCHANGED <<pins, handler, device>>

MainAccess ==
  /\ Active(main) /\ handler = NoFrame
  /\ LET access == Accesses(main)[main.step] IN
       /\ Access(access)
       /\ main' = Advance(main, access, SDA)
  /\ UNCHANGED <<handler, torn, device>>

MainReturn ==
  /\ Done(main) /\ handler = NoFrame
  /\ main' = NoFrame
  /\ UNCHANGED <<pins, handler, torn, device, slave>>

HandlerCall(c) ==
  /\ handler = NoFrame
  /\ handler' = Frame(c)
  /\ torn' = (torn \/ Active(main))
  /\ Forget("handler")
  /\ UNCHANGED <<pins, main, device>>

HandlerAccess ==
  /\ Active(handler)
  /\ LET access == Accesses(handler)[handler.step] IN
       /\ Access(access)
       /\ handler' = Advance(handler, access, SDA)
  /\ UNCHANGED <<main, torn, device>>

HandlerReturn ==
  /\ Done(handler)
  /\ handler' = NoFrame
  /\ UNCHANGED <<pins, main, torn, device, slave>>

\* The buses come up with SDA as an input and SCL high.
Init ==
  /\ scl = 1 /\ dirOut = FALSE /\ sdaOut \in {0, 1}
  /\ main = NoFrame /\ handler = NoFrame /\ torn = FALSE
  /\ device \in Device
  /\ mode = "idle" /\ role = "dev" /\ shift = Zero /\ count = 0 /\ ptr = Zero /\ pull = FALSE
  /\ log = [w \in Who |-> {}] /\ refused = [w \in Who |-> FALSE]

Next ==
  \/ \E c \in MainCalls : MainCall(c)
  \/ MainAccess \/ MainReturn
  \/ \E c \in HandlerCalls : HandlerCall(c)
  \/ HandlerAccess \/ HandlerReturn

Spec == Init /\ [][Next]_vars

-----------------------------------------------------------------------------
(***************************************************************************)
(* Properties.                                                             *)
(***************************************************************************)

Segment == {"start", "dev", "reg", "val", "restart", "devR", "data", "stop", "done"}

FrameType ==
  [op : {"write", "read"}, dev : Byte, reg : Byte, val : Byte, seg : Segment,
   i : 0 .. Width + 1, step : 1 .. 6, ok : BOOLEAN, got : Byte]

\* Every variable keeps its type.
TypeOK ==
  /\ scl \in {0, 1} /\ dirOut \in BOOLEAN /\ sdaOut \in {0, 1}
  /\ main \in FrameType \union {NoFrame} /\ handler \in FrameType \union {NoFrame}
  /\ torn \in BOOLEAN /\ device \in Byte
  /\ mode \in {"idle", "take", "ack", "send", "sent"} /\ role \in {"dev", "reg", "val"}
  /\ shift \in Byte /\ count \in 0 .. Width /\ ptr \in Byte /\ pull \in BOOLEAN
  /\ log \in [Who -> SUBSET (Byte \X Byte)] /\ refused \in [Who -> BOOLEAN]

\* What a frame that is done may tell its caller.
Truthful(f, w) ==
  IF f.ok THEN IF f.op = "write" THEN <<f.reg, f.val>> \in log[w]
                                 ELSE f.got = Content(f.reg)
          ELSE refused[w]

\* A call the handler did not interrupt returns the truth: TRUE when the value is
\* stored, or the register asked for was read; FALSE only when a byte was refused.
WholeCallsAreTrue == Done(main) /\ ~torn => Truthful(main, "main")

\* So does every call of the handler, whatever access of whatever segment of the
\* main loop it interrupted and however it left the lines and the device.
HandlerCallsAreTrue == Done(handler) => Truthful(handler, "handler")

\* A write that returns TRUE has been stored, interrupted or not.
AcknowledgedIsStored ==
  Done(main) /\ main.op = "write" /\ main.ok => <<main.reg, main.val>> \in log["main"]

\* What may be stored now.  The START of the handler clocks a 1 into a byte that
\* the main loop had all but finished.
Asked ==
  {<<f.reg, f.val>> : f \in {g \in {main, handler} : g.op = "write"}}
    \union IF main.op = "write" /\ torn
           THEN {<<main.reg, ToRead(main.val)>>} ELSE {}

\* No interleaving of the two callers stores a value that neither wrote, except
\* that one, nor any value to a register that neither wrote.
NothingElseStored ==
  [][\A w \in Who : log'[w] \ log[w] \subseteq Asked]_vars

\* Between calls both lines are high and the device waits for a START.
BusFree ==
  main = NoFrame /\ handler = NoFrame => scl = 1 /\ SDA = 1 /\ mode = "idle" /\ ~pull

\* Stated by I2C.c:223 ("new, make sure data change at clk low"): the main loop
\* puts a data bit on SDA only while SCL is low.
DataChangesAtClkLow ==
  Active(main) /\ handler = NoFrame /\ main.seg \in {"dev", "reg", "val", "devR"}
    => (Accesses(main)[main.step] \in {"sda0", "sda1"} => scl = 0)
=============================================================================
