-------------------------- MODULE I2CMasterProofs --------------------------
(***************************************************************************)
(* Proofs about I2CMaster, for bytes of any width, any calls of the two    *)
(* callers and any device.                                                 *)
(*                                                                         *)
(* A frame that nobody interrupts stays in step with the device; one that  *)
(* the handler interrupted finds the bus at rest, and the device deaf      *)
(* until the next START.                                                   *)
(***************************************************************************)
EXTENDS I2CMaster, TLAPS

\* The frame of w, and whether it was interrupted.
F(w) == IF w = "main" THEN main ELSE handler
Torn(w) == w = "main" /\ torn

\* w is the one whose frame moves.
Runs(w) == F(w) # NoFrame /\ (w = "main" => handler = NoFrame)

-----------------------------------------------------------------------------
(***************************************************************************)
(* Where a frame can be.                                                   *)
(***************************************************************************)
Bytes == {"dev", "reg", "val", "devR"}

Segs(op) ==
  IF op = "write" THEN {"start", "dev", "reg", "val", "stop", "done"}
                  ELSE {"start", "dev", "reg", "restart", "devR", "data", "stop", "done"}

\* How many accesses the pass frame f is in has.
Steps(f) == Len(Accesses(f))

\* Behind the place where the ACK is read.
AckRead(f) == f.seg \in Bytes /\ f.i = Width + 1 /\ f.step = 4

PlaceOK(f) ==
  /\ f.seg \in Segs(f.op)
  /\ f.seg # "done" => f.i \in 0 .. Last(f.seg) /\ f.step \in 1 .. Steps(f)
  /\ f.seg \in Bytes \union {"start", "data"} => f.ok \/ AckRead(f)
  /\ f.dev[Width] = 0

Placed == \A w \in Who : F(w) # NoFrame => PlaceOK(F(w))

-----------------------------------------------------------------------------
(***************************************************************************)
(* The lines and the device.                                               *)
(***************************************************************************)

\* Both lines are high and the device waits for a START; with SDA driven, too.
Rest == scl = 1 /\ SDA = 1 /\ mode = "idle" /\ ~pull
Free == Rest /\ dirOut

\* No rising edge stores anything.
Quiet == mode \in {"take", "ack"} => role = "dev" \/ (mode = "take" /\ count = 0)

\* The device has taken the first bits of a byte.
Prefix(byte) == \A j \in 1 .. count : shift[j] = byte[j]

\* A rising edge stores nothing but what the main loop was writing, with the last bit
\* as it is on the line now.
Left ==
  scl = 0 /\ mode \in {"take", "ack"} /\ role = "val" /\ (mode = "take" => count = Width - 1) =>
    /\ torn /\ main.op = "write" /\ ptr = main.reg
    /\ mode = "take" => Prefix(main.val)
    /\ mode = "ack" => shift = main.val

\* The device takes a byte of role r.
Begun(r) == mode = "take" /\ role = r /\ count = 0 /\ ~pull

-----------------------------------------------------------------------------
(***************************************************************************)
(* What a frame that runs knows of them, in each segment.                  *)
(***************************************************************************)
Starting(w) ==
  LET f == F(w) IN
  /\ f.step <= 3 => IF w = "handler" /\ f.seg = "start" THEN Left ELSE Quiet
  /\ f.step > 1 => dirOut
  /\ f.step \in {3, 4} => sdaOut = 1
  /\ f.step = 4 => scl = 1
  /\ f.step = 5 => scl = 1 /\ (Begun("dev") \/ (Torn(w) /\ Rest))

\* The byte of a segment, and what the device takes it for.
ByteOf(f) ==
  CASE f.seg = "dev" -> f.dev [] f.seg = "reg" -> f.reg
    [] f.seg = "val" -> f.val [] f.seg = "devR" -> ToRead(f.dev)
RoleOf(seg) == IF seg = "devR" THEN "dev" ELSE seg

\* In step with the device, which takes the byte, and acknowledges it or not.
InByte(w) ==
  LET f == F(w)
      byte == ByteOf(f)
      r == RoleOf(f.seg)
  IN
  /\ f.i = 0 => scl = 0 /\ Begun(r)
  /\ f.i \in 1 .. Width =>
       /\ dirOut /\ mode = "take" /\ role = r /\ ~pull
       /\ Prefix(byte) /\ count = (IF f.step = 4 THEN f.i ELSE f.i - 1)
       /\ scl = (IF f.step = 4 THEN 1 ELSE 0)
       /\ f.step = 3 => sdaOut = byte[f.i]
  /\ f.i = Width + 1 =>
       /\ scl = (IF f.step <= 2 THEN 0 ELSE 1)
       /\ dirOut <=> f.step = 1
       /\ \/ mode = "ack" /\ role = r /\ pull /\ shift = byte
          \/ mode = "idle" /\ ~pull /\ refused[w]
       /\ f.step = 4 => (f.ok <=> mode = "ack")
       /\ f.step >= 3 /\ mode = "ack" =>
            /\ r = "reg" => ptr = byte
            /\ r = "val" => <<f.reg, f.val>> \in log[w]

\* Out of step: the device is deaf, or has taken a bit for a START and gets too few
\* bits to acknowledge before the ACK is read.
Astray(w) ==
  LET f == F(w) IN
  /\ ~pull
  /\ f.i = 0 => mode = "idle" /\ (scl = 0 \/ Free)
  /\ f.i \in 1 .. Width =>
       /\ dirOut
       /\ f.step <= 2 => scl = 0 \/ Free
       /\ f.step = 4 => scl = 1
       /\ \/ mode = "idle"
          \/ /\ mode = "take" /\ role = "dev"
             /\ IF f.step = 4 THEN count < f.i
                ELSE count + 1 < f.i \/ (f.step = 3 /\ scl = 1 /\ count = 0)
  /\ f.i = Width + 1 =>
       /\ f.step = 1 => scl = 0 \/ Free
       /\ f.step = 2 => (scl = 0 /\ ~dirOut) \/ Rest
       /\ f.step = 3 => SDA = 1
       /\ f.step >= 3 => scl = 1
       /\ \/ mode = "idle"
          \/ mode = "take" /\ role = "dev" /\ (f.step <= 2 => count < Width) /\ ~AckRead(f)
          \/ mode = "take" /\ role = "dev" /\ AckRead(f) /\ ~f.ok

\* The device is at the register the frame has sent.
AtReg(w) ==
  LET f == F(w) IN
  /\ f.seg = "val" => ptr = f.reg
  /\ f.op = "read" /\ f.seg \in {"restart", "devR", "data"} /\ f.ok /\ ~Torn(w) => ptr = f.reg

Sending(w) ==
  \/ InByte(w) /\ AtReg(w)
  \/ Torn(w) /\ Astray(w)

\* The first n bits of register reg have been read.
Received(f, n) == \A j \in 1 .. n : f.got[Width - n + j] = f.reg[j]

InData(w) ==
  LET f == F(w) IN
  /\ f.i = 0 =>
       /\ scl = 0 /\ mode = "send" /\ count = 1 /\ pull = (ptr[1] = 0)
       /\ f.step = 2 => ~dirOut
  /\ f.i \in 1 .. Width =>
       /\ scl = (IF f.step = 1 THEN 0 ELSE 1) /\ ~dirOut
       /\ mode = "send" /\ count = f.i /\ pull = (ptr[f.i] = 0)
  /\ f.i = Width + 1 =>
       /\ scl = (IF f.step = 5 THEN 1 ELSE 0)
       /\ mode \in {"send", "sent", "idle"}
  /\ ~Torn(w) =>
       /\ f.i \in 1 .. Width => Received(f, IF f.step = 3 THEN f.i ELSE f.i - 1)
       /\ f.i = Width + 1 => f.got = f.reg

AstrayData(w) ==
  LET f == F(w) IN
  /\ mode = "idle" /\ ~pull
  /\ (f.i = 0 /\ f.step = 1) \/ (f.i = Width + 1 /\ f.step \in {2, 3, 6}) => scl = 0 \/ Free

Receiving(w) == (InData(w) /\ AtReg(w)) \/ (Torn(w) /\ AstrayData(w))

\* The handler leaves the lines at rest, so that a frame it interrupted in its i2c_stop
\* may find nothing left to do.
Stopping(w) ==
  LET f == F(w) IN
  /\ f.step <= 3 => Quiet
  /\ f.step > 1 => dirOut
  /\ f.step = 3 => sdaOut = 0 \/ Rest
  /\ f.step = 4 => (sdaOut = 0 /\ scl = 1) \/ Rest

Shape(w) ==
  LET f == F(w) IN
  /\ f.seg \in {"start", "restart"} => Starting(w) /\ AtReg(w)
  /\ f.seg \in Bytes => Sending(w)
  /\ f.seg = "data" => Receiving(w)
  /\ f.seg = "stop" => Stopping(w)
  /\ f.seg = "done" => Free
  /\ f.seg \in {"stop", "done"} /\ ~Torn(w) => Truthful(f, w)
  /\ ~f.ok /\ ~Torn(w) => refused[w]

-----------------------------------------------------------------------------
(***************************************************************************)
(* The invariant.                                                          *)
(***************************************************************************)

\* An acknowledged value is stored, whoever runs.
Kept ==
  /\ main # NoFrame /\ main.op = "write" /\ main.ok
       /\ (main.seg \in {"stop", "done"} \/ (main.seg = "val" /\ AckRead(main)))
       => <<main.reg, main.val>> \in log["main"]
  /\ Done(main) /\ ~torn => Truthful(main, "main")

\* The handler that runs has interrupted the frame of the main loop.
Interrupted == handler # NoFrame /\ Active(main) => torn

IInv ==
  /\ TypeOK /\ Placed /\ Kept /\ Interrupted
  /\ \A w \in Who : Runs(w) => Shape(w)
  /\ main = NoFrame /\ handler = NoFrame => Rest

-----------------------------------------------------------------------------
(***************************************************************************)
(* The accesses of a segment.                                              *)
(***************************************************************************)
LEMMA StartAccesses ==
  ASSUME NEW f, f.seg \in {"start", "restart"}
  PROVE  /\ Steps(f) = 5 /\ Last(f.seg) = 0
         /\ Accesses(f)[1] = "out" /\ Accesses(f)[2] = "sda1" /\ Accesses(f)[3] = "scl1"
         /\ Accesses(f)[4] = "sda0" /\ Accesses(f)[5] = "scl0"
BY DEF Accesses, i2c_start, Last, Steps

LEMMA StopAccesses ==
  ASSUME NEW f, f.seg = "stop"
  PROVE  /\ Steps(f) = 4 /\ Last(f.seg) = 0
         /\ Accesses(f)[1] = "out" /\ Accesses(f)[2] = "sda0"
         /\ Accesses(f)[3] = "scl1" /\ Accesses(f)[4] = "sda1"
BY DEF Accesses, i2c_stop, Last, Steps

LEMMA ByteAccesses ==
  ASSUME NEW f, f.seg \in Bytes, f.i \in 0 .. Width + 1
  PROVE  /\ Last(f.seg) = Width + 1
         /\ f.i = 0 => Steps(f) = 1 /\ Accesses(f)[1] = "out"
         /\ f.i \in 1 .. Width =>
              /\ Steps(f) = 4
              /\ Accesses(f)[1] = "scl0" /\ Accesses(f)[2] = Put(ByteOf(f)[f.i])
              /\ Accesses(f)[3] = "scl1" /\ Accesses(f)[4] = "scl0"
         /\ f.i = Width + 1 =>
              /\ Steps(f) = 4
              /\ Accesses(f)[1] = "in" /\ Accesses(f)[2] = "scl1"
              /\ Accesses(f)[3] = "ack" /\ Accesses(f)[4] = "scl0"
<1>. Width \in Nat \ {0, 1}
  BY CallAssumption
<1>1. Accesses(f) = i2c_write(ByteOf(f), f.i)
  BY DEF Accesses, ByteOf, Bytes
<1>2. Last(f.seg) = Width + 1
  BY DEF Last, Bytes
<1>. HIDE DEF Accesses
<1>3. CASE f.i = 0
  BY <1>1, <1>2, <1>3 DEF i2c_write, Steps
<1>4. CASE f.i \in 1 .. Width
  BY <1>1, <1>2, <1>4 DEF i2c_write, Steps
<1>5. CASE f.i = Width + 1
  BY <1>1, <1>2, <1>5 DEF i2c_write, Steps
<1>6. QED BY <1>3, <1>4, <1>5

LEMMA DataAccesses ==
  ASSUME NEW f, f.seg = "data", f.i \in 0 .. Width + 1
  PROVE  /\ Last(f.seg) = Width + 1
         /\ f.i = 0 =>
              Steps(f) = 2 /\ Accesses(f)[1] = "in" /\ Accesses(f)[2] = "scl0"
         /\ f.i \in 1 .. Width =>
              /\ Steps(f) = 3
              /\ Accesses(f)[1] = "scl1" /\ Accesses(f)[2] = "bit" /\ Accesses(f)[3] = "scl0"
         /\ f.i = Width + 1 =>
              /\ Steps(f) = 6
              /\ Accesses(f)[1] = "scl0" /\ Accesses(f)[2] = "out" /\ Accesses(f)[3] = "sda1"
              /\ Accesses(f)[4] = "scl1" /\ Accesses(f)[5] = "scl0" /\ Accesses(f)[6] = "sda0"
<1>. Width \in Nat \ {0, 1}
  BY CallAssumption
<1>1. Accesses(f) = i2c_read(f.i)
  BY DEF Accesses
<1>2. Last(f.seg) = Width + 1
  BY DEF Last
<1>. HIDE DEF Accesses
<1>3. CASE f.i = 0
  BY <1>1, <1>2, <1>3 DEF i2c_read, Steps
<1>4. CASE f.i \in 1 .. Width
  BY <1>1, <1>2, <1>4 DEF i2c_read, Steps
<1>5. CASE f.i = Width + 1
  BY <1>1, <1>2, <1>5 DEF i2c_read, Steps
<1>6. QED BY <1>3, <1>4, <1>5

\* The segments in their order.
LEMMA Follows ==
  ASSUME NEW f \in FrameType, f.seg \in Segs(f.op), f.seg # "done"
  PROVE  After(f) =
           CASE f.seg = "stop" -> "done"
             [] ~f.ok /\ f.op = "read" /\ f.seg \in {"dev", "reg"} -> "restart"
             [] ~f.ok /\ ~(f.op = "read" /\ f.seg \in {"dev", "reg"}) /\ f.seg # "stop" -> "stop"
             [] f.ok /\ f.seg = "start" -> "dev"
             [] f.ok /\ f.seg = "dev" -> "reg"
             [] f.ok /\ f.seg = "reg" -> IF f.op = "write" THEN "val" ELSE "restart"
             [] f.ok /\ f.seg = "restart" -> "devR"
             [] f.ok /\ f.seg = "devR" -> "data"
             [] f.ok /\ f.seg \in {"val", "data"} -> "stop"
<1>. DEFINE W == <<"start", "dev", "reg", "val", "stop", "done">>
            R == <<"start", "dev", "reg", "restart", "devR", "data", "stop", "done">>
<1>1. CASE ~f.ok
  BY <1>1 DEF After, Segs, FrameType
<1>2. CASE f.ok /\ f.op = "write"
  <2>1. PICK k \in 1 .. 5 : W[k] = f.seg
    BY <1>2 DEF Segs
  <2>2. \A i \in 1 .. Len(W) - 1 : W[i] = f.seg <=> i = k
    BY <2>1
  <2>3. (CHOOSE i \in 1 .. Len(W) - 1 : W[i] = f.seg) = k
    BY <2>1, <2>2
  <2>4. After(f) = W[1 + k]
    BY <1>2, <2>3 DEF After
  <2>. HIDE DEF After
  <2>5. QED BY <2>1, <2>4, <1>2 DEF Segs
<1>3. CASE f.ok /\ f.op = "read"
  <2>1. PICK k \in 1 .. 7 : R[k] = f.seg
    BY <1>3 DEF Segs
  <2>2. \A i \in 1 .. Len(R) - 1 : R[i] = f.seg <=> i = k
    BY <2>1
  <2>3. (CHOOSE i \in 1 .. Len(R) - 1 : R[i] = f.seg) = k
    BY <2>1, <2>2
  <2>4. After(f) = R[1 + k]
    BY <1>3, <2>3 DEF After
  <2>. HIDE DEF After
  <2>5. QED BY <2>1, <2>4, <1>3 DEF Segs
<1>4. QED BY <1>1, <1>2, <1>3 DEF FrameType

-----------------------------------------------------------------------------
(***************************************************************************)
(* A frame moves on.                                                       *)
(***************************************************************************)
LEMMA ShiftedType ==
  ASSUME NEW byte \in Byte, NEW bit \in {0, 1}
  PROVE  Shifted(byte, bit) \in Byte
<1>. Width \in Nat
  BY CallAssumption
<1>. QED BY DEF Shifted, Byte

LEMMA ToReadType ==
  ASSUME NEW byte \in Byte
  PROVE  ToRead(byte) \in Byte
<1>. Width \in Nat
  BY CallAssumption
<1>. QED BY DEF ToRead, Byte

LEMMA ZeroType == Zero \in Byte
<1>. Width \in Nat
  BY CallAssumption
<1>. QED BY DEF Zero, Byte

\* Frame f with what it read of SDA.
Sampled(f, o, n) == [f EXCEPT !.ok = o, !.got = n]

LEMMA SampledFrame ==
  ASSUME NEW f \in FrameType, NEW o \in BOOLEAN, NEW n \in Byte
  PROVE  /\ Sampled(f, o, n) \in FrameType
         /\ Sampled(f, o, n).op = f.op /\ Sampled(f, o, n).dev = f.dev
         /\ Sampled(f, o, n).reg = f.reg /\ Sampled(f, o, n).val = f.val
         /\ Sampled(f, o, n).seg = f.seg /\ Sampled(f, o, n).i = f.i
         /\ Sampled(f, o, n).step = f.step
         /\ Sampled(f, o, n).ok = o /\ Sampled(f, o, n).got = n
BY DEF FrameType, Sampled

\* Frame f at another place.
At(f, s, n, k) == [f EXCEPT !.seg = s, !.i = n, !.step = k]

LEMMA MovedFrame ==
  ASSUME NEW f \in FrameType, NEW s \in Segment, NEW n \in 0 .. Width + 1, NEW k \in 1 .. 6
  PROVE  /\ At(f, s, n, k) \in FrameType
         /\ At(f, s, n, k).op = f.op /\ At(f, s, n, k).dev = f.dev
         /\ At(f, s, n, k).reg = f.reg /\ At(f, s, n, k).val = f.val
         /\ At(f, s, n, k).seg = s /\ At(f, s, n, k).i = n /\ At(f, s, n, k).step = k
         /\ At(f, s, n, k).ok = f.ok /\ At(f, s, n, k).got = f.got
BY DEF FrameType, At

\* Where Onward leads.
LEMMA Onwards ==
  ASSUME NEW f \in FrameType, f.seg \in Segs(f.op), f.seg # "done",
         Steps(f) \in 1 .. 6, f.i \in 0 .. Last(f.seg), f.step \in 1 .. Steps(f)
  PROVE  \E s \in Segment, n \in 0 .. Width + 1, k \in 1 .. 6 :
           /\ Onward(f) = At(f, s, n, k)
           /\ f.step < Steps(f) => s = f.seg /\ n = f.i /\ k = f.step + 1
           /\ f.step = Steps(f) /\ f.i < Last(f.seg) => s = f.seg /\ n = f.i + 1 /\ k = 1
           /\ f.step = Steps(f) /\ f.i = Last(f.seg) => s = After(f) /\ n = 0 /\ k = 1
<1>. Width \in Nat
  BY CallAssumption
<1>1. Last(f.seg) \in {0, Width + 1}
  BY DEF Last
<1>2. After(f) \in Segment
  BY Follows DEF Segment, FrameType, Segs
<1>3. f.seg \in Segment /\ f.i \in 0 .. Width + 1
  BY DEF FrameType
<1>4. Onward(f) = IF f.step < Steps(f) THEN [f EXCEPT !.step = f.step + 1]
                  ELSE IF f.i < Last(f.seg) THEN [f EXCEPT !.i = f.i + 1, !.step = 1]
                  ELSE [f EXCEPT !.seg = After(f), !.i = 0, !.step = 1]
  BY DEF Onward, Steps
<1>5. CASE f.step < Steps(f)
  <2>1. Onward(f) = [f EXCEPT !.step = f.step + 1]
    BY <1>4, <1>5
  <2>2. Onward(f) = At(f, f.seg, f.i, f.step + 1)
    BY <2>1 DEF FrameType, At
  <2>3. f.step + 1 \in 1 .. 6
    BY <1>5
  <2>4. QED BY <1>3, <1>5, <2>2, <2>3
<1>6. CASE f.step = Steps(f) /\ f.i < Last(f.seg)
  <2>1. f.i + 1 \in 0 .. Width + 1 /\ ~(f.step < Steps(f))
    BY <1>1, <1>3, <1>6
  <2>2. Onward(f) = [f EXCEPT !.i = f.i + 1, !.step = 1]
    BY <1>4, <1>6, <2>1
  <2>3. Onward(f) = At(f, f.seg, f.i + 1, 1)
    BY <2>2 DEF FrameType, At
  <2>4. QED BY <1>1, <1>3, <1>6, <2>1, <2>3
<1>7. CASE f.step = Steps(f) /\ f.i = Last(f.seg)
  <2>1. ~(f.step < Steps(f)) /\ ~(f.i < Last(f.seg))
    BY <1>1, <1>7
  <2>2. Onward(f) = At(f, After(f), 0, 1)
    BY <1>4, <2>1, Zenon DEF At
  <2>3. QED BY <1>2, <1>7, <2>1, <2>2
<1>8. QED BY <1>1, <1>5, <1>6, <1>7

\* Each segment has between one and six accesses.
LEMMA Lengths ==
  ASSUME NEW f \in FrameType, f.seg # "done"
  PROVE  Steps(f) \in 1 .. 6
<1>. Width \in Nat
  BY CallAssumption
<1>1. f.i \in 0 .. Width + 1
  BY DEF FrameType
<1>2. CASE f.seg \in {"start", "restart"}
  BY <1>2, StartAccesses
<1>3. CASE f.seg = "stop"
  BY <1>3, StopAccesses
<1>4. CASE f.seg \in Bytes
  BY <1>1, <1>4, ByteAccesses
<1>5. CASE f.seg = "data"
  BY <1>1, <1>5, DataAccesses
<1>6. QED BY <1>2, <1>3, <1>4, <1>5 DEF FrameType, Segment, Bytes

LEMMA OnwardFrame ==
  ASSUME NEW f \in FrameType, f.seg \in Segs(f.op), f.seg # "done",
         Steps(f) \in 1 .. 6, f.i \in 0 .. Last(f.seg), f.step \in 1 .. Steps(f),
         NEW g, g = Onward(f)
  PROVE  /\ g \in FrameType /\ g.op = f.op /\ g.dev = f.dev /\ g.reg = f.reg /\ g.val = f.val
         /\ g.ok = f.ok /\ g.got = f.got
         /\ f.step < Steps(f) => g.seg = f.seg /\ g.i = f.i /\ g.step = f.step + 1
         /\ f.step = Steps(f) /\ f.i < Last(f.seg) =>
              g.seg = f.seg /\ g.i = f.i + 1 /\ g.step = 1
         /\ f.step = Steps(f) /\ f.i = Last(f.seg) =>
              g.seg = After(f) /\ g.i = 0 /\ g.step = 1
<1>1. PICK s \in Segment, n \in 0 .. Width + 1, k \in 1 .. 6 :
        /\ Onward(f) = At(f, s, n, k)
        /\ f.step < Steps(f) => s = f.seg /\ n = f.i /\ k = f.step + 1
        /\ f.step = Steps(f) /\ f.i < Last(f.seg) => s = f.seg /\ n = f.i + 1 /\ k = 1
        /\ f.step = Steps(f) /\ f.i = Last(f.seg) => s = After(f) /\ n = 0 /\ k = 1
  BY Onwards
<1>2. s \in Segment /\ n \in 0 .. Width + 1 /\ k \in 1 .. 6
  BY <1>1
<1>3. At(f, s, n, k) \in FrameType
  BY <1>2, MovedFrame
<1>4. /\ At(f, s, n, k).op = f.op /\ At(f, s, n, k).dev = f.dev
      /\ At(f, s, n, k).reg = f.reg /\ At(f, s, n, k).val = f.val
  BY <1>2, MovedFrame
<1>5. At(f, s, n, k).seg = s /\ At(f, s, n, k).i = n /\ At(f, s, n, k).step = k
  BY <1>2, MovedFrame
<1>6. At(f, s, n, k).ok = f.ok
  BY <1>2, MovedFrame
<1>7. At(f, s, n, k).got = f.got
  BY <1>2, MovedFrame
<1>8. QED BY <1>1, <1>3, <1>4, <1>5, <1>6, <1>7

\* The ACK decides nothing but where the frame goes.
LEMMA SameAccesses ==
  ASSUME NEW f, NEW h, h.seg = f.seg, h.i = f.i, h.dev = f.dev, h.reg = f.reg, h.val = f.val
  PROVE  Steps(h) = Steps(f)
BY DEF Steps, Accesses

\* The frame behind its next access: at the next place, with what it read of SDA.
LEMMA Advances ==
  ASSUME NEW f \in FrameType, PlaceOK(f), f.seg # "done", NEW sda \in {0, 1}, NEW a,
         NEW g, g = Advance(f, a, sda)
  PROVE  /\ g \in FrameType /\ g.op = f.op /\ g.dev = f.dev /\ g.reg = f.reg /\ g.val = f.val
         /\ g.ok = IF a = "ack" THEN f.ok /\ sda = 0 ELSE f.ok
         /\ g.got = IF a = "bit" THEN Shifted(f.got, sda) ELSE f.got
         /\ f.step < Steps(f) => g.seg = f.seg /\ g.i = f.i /\ g.step = f.step + 1
         /\ f.step = Steps(f) /\ f.i < Last(f.seg) =>
              g.seg = f.seg /\ g.i = f.i + 1 /\ g.step = 1
         /\ f.step = Steps(f) /\ f.i = Last(f.seg) =>
              (a # "ack" => g.seg = After(f)) /\ g.i = 0 /\ g.step = 1
<1>. DEFINE o == IF a = "ack" THEN f.ok /\ sda = 0 ELSE f.ok
            n == IF a = "bit" THEN Shifted(f.got, sda) ELSE f.got
            h == Sampled(f, o, n)
<1>1. o \in BOOLEAN /\ n \in Byte
  BY ShiftedType DEF FrameType
<1>2. g = Onward(h)
  BY Zenon DEF Advance, Sampled
<1>3. a # "ack" => o = f.ok
  OBVIOUS
<1>4. SUFFICES /\ g \in FrameType /\ g.op = f.op /\ g.dev = f.dev /\ g.reg = f.reg /\ g.val = f.val
               /\ g.ok = o /\ g.got = n
               /\ f.step < Steps(f) => g.seg = f.seg /\ g.i = f.i /\ g.step = f.step + 1
               /\ f.step = Steps(f) /\ f.i < Last(f.seg) =>
                    g.seg = f.seg /\ g.i = f.i + 1 /\ g.step = 1
               /\ f.step = Steps(f) /\ f.i = Last(f.seg) =>
                    (a # "ack" => g.seg = After(f)) /\ g.i = 0 /\ g.step = 1
  BY Zenon
<1>. HIDE DEF o, n
<1>5. /\ h \in FrameType /\ h.op = f.op /\ h.dev = f.dev /\ h.reg = f.reg /\ h.val = f.val
      /\ h.seg = f.seg /\ h.i = f.i /\ h.step = f.step /\ h.ok = o /\ h.got = n
  BY <1>1, SampledFrame
<1>. HIDE DEF h
<1>6. Steps(h) = Steps(f)
  BY <1>5, SameAccesses
<1>7. a # "ack" => After(h) = After(f)
  BY <1>3, <1>5 DEF After
<1>8. Steps(f) \in 1 .. 6
  BY Lengths
<1>9. /\ h.seg \in Segs(h.op) /\ h.seg # "done" /\ Steps(h) \in 1 .. 6
      /\ h.i \in 0 .. Last(h.seg) /\ h.step \in 1 .. Steps(h)
  BY <1>5, <1>6, <1>8 DEF PlaceOK
<1>10. /\ g \in FrameType /\ g.op = h.op /\ g.dev = h.dev /\ g.reg = h.reg /\ g.val = h.val
       /\ g.ok = h.ok /\ g.got = h.got
       /\ h.step < Steps(h) => g.seg = h.seg /\ g.i = h.i /\ g.step = h.step + 1
       /\ h.step = Steps(h) /\ h.i < Last(h.seg) =>
            g.seg = h.seg /\ g.i = h.i + 1 /\ g.step = 1
       /\ h.step = Steps(h) /\ h.i = Last(h.seg) =>
            g.seg = After(h) /\ g.i = 0 /\ g.step = 1
  BY <1>2, <1>5, <1>9, OnwardFrame
<1>11. QED BY <1>5, <1>6, <1>7, <1>10

\* The places that read SDA.
LEMMA Samples ==
  ASSUME NEW f \in FrameType, PlaceOK(f), f.seg # "done", NEW a, a = Accesses(f)[f.step]
  PROVE  /\ a = "ack" <=> f.seg \in Bytes /\ f.i = Width + 1 /\ f.step = 3
         /\ a = "bit" <=> f.seg = "data" /\ f.i \in 1 .. Width /\ f.step = 2
<1>. Width \in Nat
  BY CallAssumption
<1>1. f.i \in 0 .. Width + 1 /\ f.step \in 1 .. Steps(f)
  BY DEF FrameType, PlaceOK
<1>2. CASE f.seg \in {"start", "restart"}
  BY <1>1, <1>2, StartAccesses DEF Bytes
<1>3. CASE f.seg = "stop"
  BY <1>1, <1>3, StopAccesses DEF Bytes
<1>4. CASE f.seg \in Bytes
  BY <1>1, <1>4, ByteAccesses DEF Bytes, Put
<1>5. CASE f.seg = "data"
  BY <1>1, <1>5, DataAccesses DEF Bytes
<1>6. QED BY <1>2, <1>3, <1>4, <1>5 DEF FrameType, Segment, Bytes

\* The frame stays where a frame can be.
LEMMA StaysInPlace ==
  ASSUME NEW f \in FrameType, PlaceOK(f), f.seg # "done", NEW sda \in {0, 1},
         NEW a, a = Accesses(f)[f.step], NEW g, g = Advance(f, a, sda)
  PROVE  PlaceOK(g)
<1>. Width \in Nat
  BY CallAssumption
<1>1. /\ f.seg \in Segs(f.op) /\ f.i \in 0 .. Last(f.seg) /\ f.step \in 1 .. Steps(f)
      /\ f.seg \in Bytes \union {"start", "data"} => f.ok \/ AckRead(f)
      /\ f.dev[Width] = 0 /\ f.i \in 0 .. Width + 1 /\ Steps(f) \in 1 .. 6
  BY Lengths DEF PlaceOK, FrameType
<1>2. /\ g \in FrameType /\ g.op = f.op /\ g.dev = f.dev /\ g.reg = f.reg /\ g.val = f.val
      /\ a # "ack" => g.ok = f.ok
      /\ f.step < Steps(f) => g.seg = f.seg /\ g.i = f.i /\ g.step = f.step + 1
      /\ f.step = Steps(f) /\ f.i < Last(f.seg) => g.seg = f.seg /\ g.i = f.i + 1 /\ g.step = 1
      /\ f.step = Steps(f) /\ f.i = Last(f.seg) =>
           (a # "ack" => g.seg = After(f)) /\ g.i = 0 /\ g.step = 1
  BY Advances
<1>3. a = "ack" <=> f.seg \in Bytes /\ f.i = Width + 1 /\ f.step = 3
  BY Samples
<1>4. f.seg \in Bytes => Last(f.seg) = Width + 1 /\ (f.i = Width + 1 => Steps(f) = 4)
  BY <1>1, ByteAccesses
<1>5. g.seg # "done" => Steps(g) \in 1 .. 6
  BY <1>2, Lengths
<1>6. Last(f.seg) \in {0, Width + 1}
  BY DEF Last
<1>7. CASE f.step < Steps(f)
  <2>1. Steps(g) = Steps(f)
    BY <1>2, <1>7, SameAccesses
  <2>2. g.seg \in Bytes \union {"start", "data"} => g.ok \/ AckRead(g)
    BY <1>1, <1>2, <1>3, <1>4, <1>7 DEF AckRead
  <2>3. g.i \in 0 .. Last(g.seg) /\ g.step \in 1 .. Steps(g)
    BY <1>1, <1>2, <1>7, <2>1
  <2>4. QED BY <1>1, <1>2, <1>7, <2>2, <2>3 DEF PlaceOK
<1>8. CASE f.step = Steps(f) /\ f.i < Last(f.seg)
  <2>1. g.seg \in Bytes \union {"start", "data"} => g.ok
    BY <1>1, <1>2, <1>3, <1>4, <1>8 DEF AckRead
  <2>2. g.seg # "done" => g.i \in 0 .. Last(g.seg) /\ g.step \in 1 .. Steps(g)
    BY <1>1, <1>2, <1>5, <1>6, <1>8
  <2>3. QED BY <1>1, <1>2, <1>8, <2>1, <2>2 DEF PlaceOK
<1>9. CASE f.step = Steps(f) /\ f.i = Last(f.seg)
  <2>1. a # "ack"
    BY <1>1, <1>3, <1>4, <1>9
  <2>2. g.seg = After(f) /\ g.ok = f.ok /\ g.i = 0 /\ g.step = 1
    BY <1>2, <1>9, <2>1
  <2>3. g.seg \in Segs(g.op)
    BY <1>1, <1>2, <2>2, Follows DEF Segs, FrameType
  <2>4. g.seg \in Bytes \union {"start", "data"} => g.ok
    BY <1>1, <2>2, Follows DEF Bytes, FrameType
  <2>5. g.seg # "done" => g.i \in 0 .. Last(g.seg) /\ g.step \in 1 .. Steps(g)
    BY <1>5, <2>2 DEF Last
  <2>6. QED BY <1>1, <1>2, <2>3, <2>4, <2>5 DEF PlaceOK
<1>10. QED BY <1>1, <1>6, <1>7, <1>8, <1>9

-----------------------------------------------------------------------------
(***************************************************************************)
(* An access, as the lines and the device see it.                          *)
(***************************************************************************)
LEMMA SDAType ==
  ASSUME TypeOK
  PROVE  SDA \in {0, 1}
BY DEF TypeOK, SDA, Line

\* A read of SDA.
LEMMA Reads ==
  ASSUME NEW a \in {"ack", "bit"}, Access(a)
  PROVE  UNCHANGED pins /\ UNCHANGED slave
BY DEF Access

\* The clock falls.
LEMMA Falls ==
  ASSUME TypeOK, Access("scl0")
  PROVE  /\ scl' = 0 /\ dirOut' = dirOut /\ sdaOut' = sdaOut
         /\ scl = 0 => UNCHANGED slave
         /\ scl = 1 => SlaveFall
<1>1. Drive(0, dirOut, sdaOut)
  BY DEF Access
<1>2. scl' = 0 /\ dirOut' = dirOut /\ sdaOut' = sdaOut
  BY <1>1 DEF Drive
<1>3. CASE scl = 0
  <2>1. ~(scl = 1)
    BY <1>3
  <2>2. ~(0 = 1)
    OBVIOUS
  <2>3. UNCHANGED slave
    BY <1>1, <2>1, <2>2, Zenon DEF Drive
  <2>4. QED BY <1>2, <1>3, <2>3
<1>4. CASE scl = 1
  <2>1. ~(0 = 1) /\ ~(scl = 0)
    BY <1>4
  <2>2. SlaveFall
    BY <1>1, <2>1, Zenon DEF Drive
  <2>3. QED BY <1>2, <1>4, <2>1, <2>2, Zenon
<1>5. QED BY <1>3, <1>4 DEF TypeOK

\* The clock rises.
LEMMA Rises ==
  ASSUME TypeOK, Access("scl1")
  PROVE  /\ scl' = 1 /\ dirOut' = dirOut /\ sdaOut' = sdaOut
         /\ scl = 1 => UNCHANGED slave
         /\ scl = 0 => SlaveRise(SDA)
<1>1. Drive(1, dirOut, sdaOut)
  BY DEF Access
<1>2. scl' = 1 /\ dirOut' = dirOut /\ sdaOut' = sdaOut
  BY <1>1 DEF Drive
<1>3. SDA = Line(dirOut, sdaOut, pull)
  BY Zenon DEF SDA
<1>4. CASE scl = 0
  <2>1. ~(1 = 0) /\ ~(scl = 1)
    BY <1>4
  <2>2. SlaveRise(Line(dirOut, sdaOut, pull))
    BY <1>1, <2>1, Zenon DEF Drive
  <2>3. SlaveRise(SDA)
    BY <1>3, <2>2, Zenon
  <2>4. QED BY <1>2, <2>1, <2>3, Zenon
<1>5. CASE scl = 1
  <2>1. ~(1 = 0) /\ ~(scl = 0)
    BY <1>5
  <2>2. SDA = 0 => SDA # 1
    OBVIOUS
  <2>3. UNCHANGED slave
    BY <1>1, <1>3, <2>1, <2>2, Zenon DEF Drive
  <2>4. QED BY <1>2, <2>1, <2>3, Zenon
<1>6. QED BY <1>4, <1>5 DEF TypeOK

\* What the two data accesses of an output and the two turns make of the PIOs.
LEMMA Puts ==
  ASSUME NEW a \in {"out", "in", "sda0", "sda1"}, Access(a)
  PROVE  /\ scl' = scl
         /\ dirOut' = IF a = "out" THEN TRUE ELSE IF a = "in" THEN FALSE ELSE dirOut
         /\ sdaOut' = IF a = "sda0" THEN 0 ELSE IF a = "sda1" THEN 1 ELSE sdaOut
BY DEF Access, Drive

\* A change of SDA is data while the clock is low, and a START or a STOP while it is high.
LEMMA Changes ==
  ASSUME TypeOK, NEW a \in {"out", "in", "sda0", "sda1"}, Access(a),
         NEW after, after = Line(dirOut', sdaOut', pull)
  PROVE  /\ scl = 0 \/ SDA = after => UNCHANGED slave
         /\ scl = 1 /\ SDA = 1 /\ after = 0 => SlaveStart
         /\ scl = 1 /\ SDA = 0 /\ after = 1 => SlaveStop
<1>1. PICK dir, data : Drive(scl, dir, data)
  BY DEF Access
<1>2. dirOut' = dir /\ sdaOut' = data
  BY <1>1 DEF Drive
<1>3. after = Line(dir, data, pull)
  BY <1>2, Zenon
<1>4. \/ scl = 0 /\ scl = 1 /\ SlaveRise(Line(dir, data, pull))
      \/ scl = 1 /\ scl = 0 /\ SlaveFall
      \/ scl = 1 /\ scl = 1 /\ SDA = 1 /\ Line(dir, data, pull) = 0 /\ SlaveStart
      \/ scl = 1 /\ scl = 1 /\ SDA = 0 /\ Line(dir, data, pull) = 1 /\ SlaveStop
      \/ scl = scl /\ (scl = 0 \/ SDA = Line(dir, data, pull)) /\ UNCHANGED slave
  BY <1>1, Zenon DEF Drive
<1>5. \/ scl = 0 /\ scl = 1
      \/ scl = 1 /\ SDA = 1 /\ after = 0 /\ SlaveStart
      \/ scl = 1 /\ SDA = 0 /\ after = 1 /\ SlaveStop
      \/ (scl = 0 \/ SDA = after) /\ UNCHANGED slave
  BY <1>3, <1>4, Zenon
<1>6. CASE scl = 0 \/ SDA = after
  <2>1. /\ ~(scl = 1 /\ SDA = 1 /\ after = 0) /\ ~(scl = 1 /\ SDA = 0 /\ after = 1)
        /\ ~(scl = 0 /\ scl = 1)
    BY <1>6
  <2>2. QED BY <1>5, <1>6, <2>1, Zenon
<1>7. CASE ~(scl = 0 \/ SDA = after)
  <2>1. /\ (SDA = 1 /\ after = 0 => ~(SDA = 0)) /\ (SDA = 0 /\ after = 1 => ~(SDA = 1))
        /\ ~(scl = 0 /\ scl = 1)
    OBVIOUS
  <2>2. QED BY <1>5, <1>7, <2>1, Zenon
<1>8. QED BY <1>6, <1>7

-----------------------------------------------------------------------------
(***************************************************************************)
(* The device at the edges of the clock.                                   *)
(***************************************************************************)

\* A falling edge while the device hears nothing, or in the middle of a byte.
LEMMA FallWaits ==
  ASSUME TypeOK, SlaveFall, mode = "idle" \/ (mode = "take" /\ count < Width)
  PROVE  UNCHANGED slave
BY DEF TypeOK, SlaveFall

\* The edge behind the last bit of a byte.
LEMMA FallAnswers ==
  ASSUME TypeOK, SlaveFall, mode = "take", count = Width
  PROVE  /\ role' = role /\ ptr' = ptr /\ log' = log
         /\ \/ mode' = "ack" /\ pull' /\ shift' = shift /\ refused' = refused
            \/ mode' = "idle" /\ pull' = pull /\ refused' = [w \in Who |-> TRUE]
<1>. Width \in Nat /\ ~(count < Width)
  BY CallAssumption
<1>. QED BY DEF SlaveFall

\* The edge behind an ACK.
LEMMA FallGoesOn ==
  ASSUME TypeOK, SlaveFall, mode = "ack"
  PROVE  /\ ptr' = ptr /\ log' = log /\ refused' = refused
         /\ role = "dev" /\ shift[Width] = 0 =>
              mode' = "take" /\ role' = "reg" /\ count' = 0 /\ ~pull'
         /\ role = "dev" /\ shift[Width] = 1 =>
              mode' = "send" /\ role' = "dev" /\ count' = 1 /\ pull' = (ptr[1] = 0)
         /\ role \in {"reg", "val"} => mode' = "take" /\ role' = "val" /\ count' = 0 /\ ~pull'
BY DEF SlaveFall, Takes, Sends, Content

\* The edge behind a bit of the device.
LEMMA FallSends ==
  ASSUME TypeOK, SlaveFall, mode \in {"send", "sent"}
  PROVE  /\ ptr' = ptr /\ log' = log /\ refused' = refused
         /\ mode' \in {"send", "sent"}
         /\ mode = "send" /\ count < Width =>
              mode' = "send" /\ count' = count + 1 /\ pull' = (ptr[count + 1] = 0)
<1>. Width \in Nat /\ count \in 0 .. Width
  BY CallAssumption DEF TypeOK
<1>1. CASE mode = "sent"
  BY <1>1 DEF SlaveFall, Sends
<1>2. CASE mode = "send" /\ count = Width
  BY <1>2 DEF SlaveFall
<1>3. CASE mode = "send" /\ count < Width
  <2>1. ~(count = Width)
    BY <1>3
  <2>2. Sends(count + 1) /\ UNCHANGED <<role, shift, ptr, log, refused>>
    BY <1>3, <2>1 DEF SlaveFall
  <2>3. QED BY <1>3, <2>1, <2>2 DEF Sends, Content
<1>4. QED BY <1>1, <1>2, <1>3

\* Only the ACK of a refused byte is missing, and nothing is forgotten.
LEMMA FallKeeps ==
  ASSUME TypeOK, SlaveFall
  PROVE  ptr' = ptr /\ log' = log /\ refused' \in {refused, [w \in Who |-> TRUE]}
BY DEF SlaveFall, slave

\* A rising edge in the middle of a byte.
LEMMA RiseTakes ==
  ASSUME TypeOK, NEW bit \in {0, 1}, SlaveRise(bit), mode = "take", count < Width
  PROVE  /\ mode' = "take" /\ role' = role /\ ptr' = ptr /\ pull' = pull /\ refused' = refused
         /\ shift' = [shift EXCEPT ![count + 1] = bit] /\ count' = count + 1
<1>. Width \in Nat /\ ~(count = Width)
  BY CallAssumption
<1>. QED BY DEF SlaveRise

\* The rising edge of an ACK.
LEMMA RiseAcks ==
  ASSUME TypeOK, NEW bit \in {0, 1}, SlaveRise(bit), mode = "ack"
  PROVE  /\ mode' = "ack" /\ role' = role /\ shift' = shift /\ pull' = pull /\ refused' = refused
         /\ ptr' = IF role = "reg" THEN shift ELSE ptr
         /\ role = "val" => \A w \in Who : <<ptr, shift>> \in log'[w]
BY DEF SlaveRise, Stores, Who

\* Any other rising edge.
LEMMA RiseWaits ==
  ASSUME TypeOK, NEW bit \in {0, 1}, SlaveRise(bit),
         mode \in {"idle", "send", "sent"} \/ (mode = "take" /\ count = Width)
  PROVE  /\ mode # "sent" => UNCHANGED slave
         /\ mode = "sent" => mode' \in {"sent", "idle"} /\ ptr' = ptr
<1>. Width \in Nat
  BY CallAssumption
<1>. mode = "take" => ~(count < Width)
  OBVIOUS
<1>. QED BY DEF SlaveRise, TypeOK

\* Nothing is forgotten at a rising edge either.
LEMMA RiseKeeps ==
  ASSUME TypeOK, NEW bit \in {0, 1}, SlaveRise(bit)
  PROVE  refused' = refused /\ \A w \in Who : log[w] \subseteq log'[w]
BY DEF SlaveRise, Stores, slave

-----------------------------------------------------------------------------
(***************************************************************************)
(* Types.                                                                  *)
(***************************************************************************)
DeviceOK ==
  /\ mode \in {"idle", "take", "ack", "send", "sent"} /\ role \in {"dev", "reg", "val"}
  /\ shift \in Byte /\ count \in 0 .. Width /\ ptr \in Byte /\ pull \in BOOLEAN
  /\ log \in [Who -> SUBSET (Byte \X Byte)] /\ refused \in [Who -> BOOLEAN]

LEMMA SameDevice ==
  ASSUME DeviceOK, UNCHANGED slave
  PROVE  DeviceOK'
BY DEF DeviceOK, slave

LEMMA StartType ==
  ASSUME DeviceOK, SlaveStart
  PROVE  DeviceOK'
<1>. Width \in Nat
  BY CallAssumption
<1>1. shift' \in Byte /\ count' \in 0 .. Width
  BY ZeroType DEF SlaveStart
<1>2. QED BY <1>1 DEF DeviceOK, SlaveStart

LEMMA StopType ==
  ASSUME DeviceOK, SlaveStop
  PROVE  DeviceOK'
<1>. Width \in Nat
  BY CallAssumption
<1>1. shift' \in Byte /\ count' \in 0 .. Width
  BY ZeroType DEF SlaveStop
<1>2. QED BY <1>1 DEF DeviceOK, SlaveStop

LEMMA StoresType ==
  ASSUME log \in [Who -> SUBSET (Byte \X Byte)], NEW s \in SUBSET (Byte \X Byte), Stores(s)
  PROVE  log' \in [Who -> SUBSET (Byte \X Byte)]
BY DEF Stores

LEMMA RiseType ==
  ASSUME DeviceOK, NEW bit \in {0, 1}, SlaveRise(bit)
  PROVE  DeviceOK'
<1>. Width \in Nat
  BY CallAssumption
<1>1. CASE /\ mode = "take" /\ count < Width
           /\ shift' = [shift EXCEPT ![count + 1] = bit] /\ count' = count + 1
           /\ \/ Stores({})
              \/ Stores({<<ptr, shift'>>})
           /\ UNCHANGED <<mode, role, ptr, pull, refused>>
  <2>1. shift' \in Byte /\ count' \in 0 .. Width
    BY <1>1 DEF DeviceOK, Byte
  <2>2. log' \in [Who -> SUBSET (Byte \X Byte)]
    <3>1. log \in [Who -> SUBSET (Byte \X Byte)] /\ {} \in SUBSET (Byte \X Byte)
          /\ {<<ptr, shift'>>} \in SUBSET (Byte \X Byte)
      BY <2>1 DEF DeviceOK
    <3>2. QED BY <1>1, <3>1, StoresType
  <2>3. QED BY <1>1, <2>1, <2>2 DEF DeviceOK
<1>2. CASE /\ mode = "ack"
           /\ ptr' = IF role = "reg" THEN shift ELSE ptr
           /\ Stores(IF role = "val" THEN {<<ptr, shift>>} ELSE {})
           /\ UNCHANGED <<mode, role, shift, count, pull, refused>>
  <2>1. log' \in [Who -> SUBSET (Byte \X Byte)]
    <3>1. log \in [Who -> SUBSET (Byte \X Byte)]
          /\ (IF role = "val" THEN {<<ptr, shift>>} ELSE {}) \in SUBSET (Byte \X Byte)
      BY DEF DeviceOK
    <3>2. QED BY <1>2, <3>1, StoresType
  <2>2. QED BY <1>2, <2>1 DEF DeviceOK
<1>3. CASE /\ mode' = IF bit = 1 THEN "idle" ELSE "sent"
           /\ UNCHANGED <<role, shift, count, ptr, pull, log, refused>>
  BY <1>3 DEF DeviceOK
<1>4. CASE UNCHANGED slave
  BY <1>4, SameDevice
<1>5. QED BY <1>1, <1>2, <1>3, <1>4, Zenon DEF SlaveRise

LEMMA FallType ==
  ASSUME DeviceOK, SlaveFall
  PROVE  DeviceOK'
<1>. Width \in Nat \ {0}
  BY CallAssumption
<1>1. CASE mode' \in {"ack", "sent"} /\ pull' \in BOOLEAN
           /\ UNCHANGED <<role, shift, count, ptr, log, refused>>
  BY <1>1 DEF DeviceOK
<1>2. CASE /\ mode' = "idle" /\ shift' = Zero /\ count' = 0
           /\ refused' = [w \in Who |-> TRUE]
           /\ UNCHANGED <<role, ptr, pull, log>>
  BY <1>2, ZeroType DEF DeviceOK
<1>3. ASSUME NEW r \in {"reg", "val"}, Takes(r) /\ UNCHANGED <<ptr, log, refused>>
      PROVE  DeviceOK'
  <2>1. shift' \in Byte /\ count' \in 0 .. Width
    BY <1>3, ZeroType DEF Takes
  <2>2. QED BY <1>3, <2>1 DEF DeviceOK, Takes
<1>4. ASSUME NEW i \in 1 .. Width, Sends(i) /\ UNCHANGED <<role, shift, ptr, log, refused>>
      PROVE  DeviceOK'
  BY <1>4 DEF DeviceOK, Sends
<1>5. CASE UNCHANGED slave
  BY <1>5, SameDevice
<1>6. 1 \in 1 .. Width /\ (count < Width => count + 1 \in 1 .. Width)
  BY DEF DeviceOK
<1>7. QED BY <1>1, <1>2, <1>3, <1>4, <1>5, <1>6 DEF SlaveFall

LEMMA AccessKinds ==
  ASSUME NEW a, Access(a)
  PROVE  a \in {"out", "in", "sda0", "sda1", "scl0", "scl1", "ack", "bit"}
BY Zenon DEF Access

LEMMA LineType ==
  ASSUME NEW dir \in BOOLEAN, NEW data \in {0, 1}, NEW low \in BOOLEAN
  PROVE  Line(dir, data, low) \in {0, 1}
BY DEF Line

\* A change of SDA by either of the four is a START, a STOP or nothing to the device.
LEMMA Turns ==
  ASSUME NEW a \in {"out", "in", "sda0", "sda1"}, Access(a), TypeOK
  PROVE  UNCHANGED slave \/ SlaveStart \/ SlaveStop
<1>1. scl \in {0, 1} /\ dirOut \in BOOLEAN /\ sdaOut \in {0, 1} /\ pull \in BOOLEAN
  BY DEF TypeOK
<1>2. dirOut' \in BOOLEAN /\ sdaOut' \in {0, 1}
  BY <1>1, Puts
<1>. DEFINE after == Line(dirOut', sdaOut', pull)
<1>3. after \in {0, 1} /\ SDA \in {0, 1}
  BY <1>1, <1>2, LineType, SDAType
<1>. HIDE DEF after
<1>4. /\ scl = 0 \/ SDA = after => UNCHANGED slave
      /\ scl = 1 /\ SDA = 1 /\ after = 0 => SlaveStart
      /\ scl = 1 /\ SDA = 0 /\ after = 1 => SlaveStop
  BY Changes DEF after
<1>5. \/ scl = 0 \/ SDA = after
      \/ scl = 1 /\ SDA = 1 /\ after = 0
      \/ scl = 1 /\ SDA = 0 /\ after = 1
  BY <1>1, <1>3
<1>6. QED BY <1>4, <1>5, Zenon

\* The PIOs and the device after an access.
LEMMA AccessTypes ==
  ASSUME NEW a, Access(a), TypeOK
  PROVE  scl' \in {0, 1} /\ dirOut' \in BOOLEAN /\ sdaOut' \in {0, 1} /\ DeviceOK'
<1>1. scl \in {0, 1} /\ dirOut \in BOOLEAN /\ sdaOut \in {0, 1} /\ pull \in BOOLEAN /\ DeviceOK
  BY DEF TypeOK, DeviceOK
<1>2. CASE a \in {"out", "in", "sda0", "sda1"}
  <2>1. scl' \in {0, 1} /\ dirOut' \in BOOLEAN /\ sdaOut' \in {0, 1}
    BY <1>1, <1>2, Puts
  <2>2. UNCHANGED slave \/ SlaveStart \/ SlaveStop
    BY <1>2, Turns
  <2>3. QED BY <1>1, <2>1, <2>2, SameDevice, StartType, StopType, Zenon
<1>3. CASE a = "scl0"
  <2>1. /\ scl' = 0 /\ dirOut' = dirOut /\ sdaOut' = sdaOut
        /\ scl = 0 => UNCHANGED slave
        /\ scl = 1 => SlaveFall
    BY <1>3, Falls
  <2>2. DeviceOK'
    BY <1>1, <2>1, SameDevice, FallType
  <2>3. QED BY <1>1, <2>1, <2>2
<1>4. CASE a = "scl1"
  <2>1. /\ scl' = 1 /\ dirOut' = dirOut /\ sdaOut' = sdaOut
        /\ scl = 1 => UNCHANGED slave
        /\ scl = 0 => SlaveRise(SDA)
    BY <1>4, Rises
  <2>2. DeviceOK'
    BY <1>1, <2>1, SDAType, SameDevice, RiseType
  <2>3. QED BY <1>1, <2>1, <2>2
<1>5. CASE a \in {"ack", "bit"}
  BY <1>1, <1>5, Reads, SameDevice DEF pins
<1>6. QED BY <1>2, <1>3, <1>4, <1>5, AccessKinds

\* What was stored and what was refused in a call stays so while the call lasts.
Grows == \A w \in Who : log[w] \subseteq log'[w] /\ (refused[w] => refused'[w])

LEMMA AccessGrows ==
  ASSUME NEW a, Access(a), TypeOK
  PROVE  Grows
<1>1. scl \in {0, 1} /\ refused \in [Who -> BOOLEAN]
  BY DEF TypeOK
<1>2. log' = log /\ refused' = refused => Grows
  BY DEF Grows
<1>3. UNCHANGED slave \/ SlaveStart \/ SlaveStop => Grows
  BY <1>2 DEF SlaveStart, SlaveStop, slave
<1>4. SlaveFall => Grows
  <2>1. SUFFICES ASSUME SlaveFall PROVE Grows
    OBVIOUS
  <2>2. log' = log /\ refused' \in {refused, [w \in Who |-> TRUE]}
    BY <2>1, FallKeeps
  <2>3. QED BY <2>2 DEF Grows
<1>5. SlaveRise(SDA) => Grows
  <2>1. SUFFICES ASSUME SlaveRise(SDA) PROVE Grows
    OBVIOUS
  <2>2. refused' = refused /\ \A w \in Who : log[w] \subseteq log'[w]
    BY <2>1, SDAType, RiseKeeps
  <2>3. QED BY <2>2 DEF Grows
<1>6. CASE a \in {"out", "in", "sda0", "sda1"}
  <2>1. UNCHANGED slave \/ SlaveStart \/ SlaveStop
    BY <1>6, Turns
  <2>2. QED BY <1>3, <2>1, Zenon
<1>7. CASE a = "scl0"
  BY <1>1, <1>3, <1>4, <1>7, Falls
<1>8. CASE a = "scl1"
  BY <1>1, <1>3, <1>5, <1>8, Rises
<1>9. CASE a \in {"ack", "bit"}
  BY <1>3, <1>9, Reads
<1>10. QED BY <1>6, <1>7, <1>8, <1>9, AccessKinds

-----------------------------------------------------------------------------
(***************************************************************************)
(* An access of the frame of w, segment by segment.                        *)
(***************************************************************************)
Moves(w) ==
  /\ F(w) \in FrameType /\ PlaceOK(F(w)) /\ F(w).seg # "done"
  /\ Access(Accesses(F(w))[F(w).step])
  /\ F(w)' = Advance(F(w), Accesses(F(w))[F(w).step], SDA)
  /\ torn' = torn /\ (w = "handler" => main' = main)

SameCall(w) ==
  F(w)'.op = F(w).op /\ F(w)'.dev = F(w).dev /\ F(w)'.reg = F(w).reg /\ F(w)'.val = F(w).val

To(w, seg, i, step) == F(w)'.seg = seg /\ F(w)'.i = i /\ F(w)'.step = step

\* Whatever the segment.
LEMMA AnySteps ==
  ASSUME NEW w \in Who, TypeOK, Moves(w)
  PROVE  /\ F(w)' \in FrameType /\ PlaceOK(F(w)') /\ SameCall(w) /\ Grows
         /\ AckRead(F(w)) \/ F(w).ok \/ F(w).seg \in {"restart", "stop"}
         /\ F(w).seg \in Segs(F(w).op) /\ F(w).i \in 0 .. Last(F(w).seg)
         /\ F(w).i \in 0 .. Width + 1 /\ F(w).step \in 1 .. Steps(F(w))
<1>1. /\ F(w) \in FrameType /\ PlaceOK(F(w)) /\ F(w).seg # "done"
      /\ F(w)' = Advance(F(w), Accesses(F(w))[F(w).step], SDA)
      /\ Access(Accesses(F(w))[F(w).step])
  BY DEF Moves
<1>2. SDA \in {0, 1}
  BY SDAType
<1>3. F(w)' \in FrameType /\ SameCall(w)
  BY <1>1, <1>2, Advances DEF SameCall
<1>4. PlaceOK(F(w)')
  BY <1>1, <1>2, StaysInPlace
<1>5. Grows
  BY <1>1, AccessGrows
<1>6. AckRead(F(w)) \/ F(w).ok \/ F(w).seg \in {"restart", "stop"}
  BY <1>1 DEF PlaceOK, FrameType, Segment, Bytes
<1>7. /\ F(w).seg \in Segs(F(w).op) /\ F(w).i \in 0 .. Last(F(w).seg)
      /\ F(w).i \in 0 .. Width + 1 /\ F(w).step \in 1 .. Steps(F(w))
  BY <1>1 DEF PlaceOK, FrameType
<1>8. QED BY <1>3, <1>4, <1>5, <1>6, <1>7

\* i2c_stop.
LEMMA StopSteps ==
  ASSUME NEW w \in Who, TypeOK, Moves(w), F(w).seg = "stop"
  PROVE  /\ F(w)'.ok = F(w).ok /\ F(w)'.got = F(w).got
         /\ \/ F(w).step = 1 /\ Access("out") /\ To(w, "stop", 0, 2)
            \/ F(w).step = 2 /\ Access("sda0") /\ To(w, "stop", 0, 3)
            \/ F(w).step = 3 /\ Access("scl1") /\ To(w, "stop", 0, 4)
            \/ F(w).step = 4 /\ Access("sda1") /\ To(w, "done", 0, 1)
<1>. DEFINE f == F(w)
            g == F(w)'
            a == Accesses(f)[f.step]
<1>1. /\ f \in FrameType /\ PlaceOK(f) /\ f.seg # "done" /\ Access(a)
      /\ g = Advance(f, a, SDA) /\ SDA \in {0, 1} /\ f.seg \in Segs(f.op)
  BY SDAType, AnySteps DEF Moves
<1>2. /\ Steps(f) = 4 /\ Last(f.seg) = 0 /\ f.i = 0 /\ f.step \in 1 .. 4
      /\ f.step = 1 => a = "out"
      /\ f.step = 2 => a = "sda0"
      /\ f.step = 3 => a = "scl1"
      /\ f.step = 4 => a = "sda1"
  BY AnySteps, StopAccesses
<1>. HIDE DEF f, g, a
<1>3. a \notin {"ack", "bit"}
  BY <1>2
<1>4. /\ g.ok = f.ok /\ g.got = f.got
      /\ f.step < 4 => g.seg = f.seg /\ g.i = f.i /\ g.step = f.step + 1
      /\ f.step = 4 => g.seg = After(f) /\ g.i = 0 /\ g.step = 1
  BY <1>1, <1>2, <1>3, Advances
<1>5. After(f) = "done"
  BY <1>1, Follows DEF f
<1>6. QED BY <1>1, <1>2, <1>4, <1>5 DEF f, g, To

\* i2c_start.
LEMMA StartSteps ==
  ASSUME NEW w \in Who, TypeOK, Moves(w), F(w).seg \in {"start", "restart"}
  PROVE  /\ F(w)'.ok = F(w).ok /\ F(w)'.got = F(w).got
         /\ \/ F(w).step = 1 /\ Access("out") /\ To(w, F(w).seg, 0, 2)
            \/ F(w).step = 2 /\ Access("sda1") /\ To(w, F(w).seg, 0, 3)
            \/ F(w).step = 3 /\ Access("scl1") /\ To(w, F(w).seg, 0, 4)
            \/ F(w).step = 4 /\ Access("sda0") /\ To(w, F(w).seg, 0, 5)
            \/ F(w).step = 5 /\ Access("scl0") /\ To(w, After(F(w)), 0, 1)
<1>. DEFINE f == F(w)
            g == F(w)'
            a == Accesses(f)[f.step]
<1>1. /\ f \in FrameType /\ PlaceOK(f) /\ f.seg # "done" /\ Access(a)
      /\ g = Advance(f, a, SDA) /\ SDA \in {0, 1}
  BY SDAType, AnySteps DEF Moves
<1>2. /\ Steps(f) = 5 /\ Last(f.seg) = 0 /\ f.i = 0 /\ f.step \in 1 .. 5
      /\ f.step = 1 => a = "out"
      /\ f.step = 2 => a = "sda1"
      /\ f.step = 3 => a = "scl1"
      /\ f.step = 4 => a = "sda0"
      /\ f.step = 5 => a = "scl0"
  BY AnySteps, StartAccesses
<1>. HIDE DEF f, g, a
<1>3. a \notin {"ack", "bit"}
  BY <1>2
<1>4. /\ g.ok = f.ok /\ g.got = f.got
      /\ f.step < 5 => g.seg = f.seg /\ g.i = f.i /\ g.step = f.step + 1
      /\ f.step = 5 => g.seg = After(f) /\ g.i = 0 /\ g.step = 1
  BY <1>1, <1>2, <1>3, Advances
<1>5. QED BY <1>1, <1>2, <1>4 DEF f, g, To

\* i2c_write before and in its loop.
LEMMA BitSteps ==
  ASSUME NEW w \in Who, TypeOK, Moves(w), F(w).seg \in Bytes, F(w).i # Width + 1
  PROVE  /\ F(w)'.ok = F(w).ok /\ F(w)'.got = F(w).got /\ F(w).i \in 0 .. Width
         /\ \/ F(w).i = 0 /\ F(w).step = 1 /\ Access("out") /\ To(w, F(w).seg, 1, 1)
            \/ /\ F(w).i \in 1 .. Width
               /\ \/ F(w).step = 1 /\ Access("scl0") /\ To(w, F(w).seg, F(w).i, 2)
                  \/ /\ F(w).step = 2 /\ Access(Put(ByteOf(F(w))[F(w).i]))
                     /\ To(w, F(w).seg, F(w).i, 3)
                  \/ F(w).step = 3 /\ Access("scl1") /\ To(w, F(w).seg, F(w).i, 4)
                  \/ F(w).step = 4 /\ Access("scl0") /\ To(w, F(w).seg, F(w).i + 1, 1)
<1>. DEFINE f == F(w)
            g == F(w)'
            a == Accesses(f)[f.step]
<1>. Width \in Nat \ {0}
  BY CallAssumption
<1>1. /\ f \in FrameType /\ PlaceOK(f) /\ f.seg # "done" /\ Access(a)
      /\ g = Advance(f, a, SDA) /\ SDA \in {0, 1}
  BY SDAType, AnySteps DEF Moves
<1>2. /\ Last(f.seg) = Width + 1 /\ f.i \in 0 .. Width /\ f.step \in 1 .. Steps(f)
      /\ f.i = 0 => Steps(f) = 1 /\ (f.step = 1 => a = "out")
      /\ f.i \in 1 .. Width =>
           /\ Steps(f) = 4
           /\ f.step = 1 => a = "scl0"
           /\ f.step = 2 => a = Put(ByteOf(f)[f.i])
           /\ f.step = 3 => a = "scl1"
           /\ f.step = 4 => a = "scl0"
  BY AnySteps, ByteAccesses
<1>3. a \notin {"ack", "bit"}
  BY <1>1, <1>2, Samples DEF f, Bytes
<1>. HIDE DEF f, g, a
<1>4. /\ g.ok = f.ok /\ g.got = f.got
      /\ f.step < Steps(f) => g.seg = f.seg /\ g.i = f.i /\ g.step = f.step + 1
      /\ f.step = Steps(f) => g.seg = f.seg /\ g.i = f.i + 1 /\ g.step = 1
  BY <1>1, <1>2, <1>3, Advances
<1>5. CASE f.i = 0
  BY <1>1, <1>2, <1>4, <1>5 DEF f, g, To
<1>6. CASE f.i \in 1 .. Width
  BY <1>1, <1>2, <1>4, <1>6 DEF f, g, To
<1>7. QED BY <1>2, <1>5, <1>6

\* i2c_write behind its loop.
LEMMA AckSteps ==
  ASSUME NEW w \in Who, TypeOK, Moves(w), F(w).seg \in Bytes, F(w).i = Width + 1
  PROVE  /\ F(w)'.got = F(w).got
         /\ \/ F(w).step = 1 /\ Access("in") /\ F(w)'.ok = F(w).ok /\ To(w, F(w).seg, Width + 1, 2)
            \/ F(w).step = 2 /\ Access("scl1") /\ F(w)'.ok = F(w).ok /\ To(w, F(w).seg, Width + 1, 3)
            \/ /\ F(w).step = 3 /\ Access("ack") /\ F(w).ok /\ F(w)'.ok = (SDA = 0)
               /\ To(w, F(w).seg, Width + 1, 4)
            \/ F(w).step = 4 /\ Access("scl0") /\ F(w)'.ok = F(w).ok /\ To(w, After(F(w)), 0, 1)
<1>. DEFINE f == F(w)
            g == F(w)'
            a == Accesses(f)[f.step]
<1>. Width \in Nat \ {0}
  BY CallAssumption
<1>1. /\ f \in FrameType /\ PlaceOK(f) /\ f.seg # "done" /\ Access(a)
      /\ g = Advance(f, a, SDA) /\ SDA \in {0, 1}
  BY SDAType, AnySteps DEF Moves
<1>2. /\ Last(f.seg) = Width + 1 /\ f.step \in 1 .. 4 /\ Steps(f) = 4
      /\ f.step = 1 => a = "in"
      /\ f.step = 2 => a = "scl1"
      /\ f.step = 3 => a = "ack"
      /\ f.step = 4 => a = "scl0"
  BY AnySteps, ByteAccesses
<1>3. f.step = 3 => f.ok
  BY AnySteps DEF AckRead, Bytes
<1>. HIDE DEF f, g, a
<1>4. a # "bit" /\ (f.step # 3 => a # "ack")
  BY <1>2
<1>5. /\ g.ok = (IF a = "ack" THEN f.ok /\ SDA = 0 ELSE f.ok)
      /\ a # "bit" => g.got = f.got
      /\ f.step < 4 => g.seg = f.seg /\ g.i = f.i /\ g.step = f.step + 1
      /\ f.step = 4 /\ a # "ack" => g.seg = After(f) /\ g.i = 0 /\ g.step = 1
  BY <1>1, <1>2, Advances DEF f
<1>6. CASE f.step = 3
  <2>1. g.ok = (SDA = 0)
    BY <1>2, <1>3, <1>5, <1>6
  <2>2. QED BY <1>1, <1>2, <1>3, <1>4, <1>5, <1>6, <2>1 DEF f, g, To
<1>7. CASE f.step # 3
  <2>1. g.ok = f.ok
    BY <1>4, <1>5, <1>7
  <2>2. QED BY <1>1, <1>2, <1>4, <1>5, <1>7, <2>1 DEF f, g, To
<1>8. QED BY <1>6, <1>7

\* i2c_read.
LEMMA DataSteps ==
  ASSUME NEW w \in Who, TypeOK, Moves(w), F(w).seg = "data"
  PROVE  /\ F(w)'.ok = F(w).ok /\ F(w).ok
         /\ \/ /\ F(w).i = 0 /\ F(w)'.got = F(w).got
               /\ \/ F(w).step = 1 /\ Access("in") /\ To(w, "data", 0, 2)
                  \/ F(w).step = 2 /\ Access("scl0") /\ To(w, "data", 1, 1)
            \/ /\ F(w).i \in 1 .. Width
               /\ \/ /\ F(w).step = 1 /\ Access("scl1") /\ F(w)'.got = F(w).got
                     /\ To(w, "data", F(w).i, 2)
                  \/ /\ F(w).step = 2 /\ Access("bit") /\ F(w)'.got = Shifted(F(w).got, SDA)
                     /\ To(w, "data", F(w).i, 3)
                  \/ /\ F(w).step = 3 /\ Access("scl0") /\ F(w)'.got = F(w).got
                     /\ To(w, "data", F(w).i + 1, 1)
            \/ /\ F(w).i = Width + 1 /\ F(w)'.got = F(w).got
               /\ \/ F(w).step = 1 /\ Access("scl0") /\ To(w, "data", Width + 1, 2)
                  \/ F(w).step = 2 /\ Access("out") /\ To(w, "data", Width + 1, 3)
                  \/ F(w).step = 3 /\ Access("sda1") /\ To(w, "data", Width + 1, 4)
                  \/ F(w).step = 4 /\ Access("scl1") /\ To(w, "data", Width + 1, 5)
                  \/ F(w).step = 5 /\ Access("scl0") /\ To(w, "data", Width + 1, 6)
                  \/ F(w).step = 6 /\ Access("sda0") /\ To(w, "stop", 0, 1)
<1>. DEFINE f == F(w)
            g == F(w)'
            a == Accesses(f)[f.step]
<1>. Width \in Nat \ {0}
  BY CallAssumption
<1>1. /\ f \in FrameType /\ PlaceOK(f) /\ f.seg # "done" /\ Access(a)
      /\ g = Advance(f, a, SDA) /\ SDA \in {0, 1} /\ f.seg \in Segs(f.op)
  BY SDAType, AnySteps DEF Moves
<1>2. /\ Last(f.seg) = Width + 1 /\ f.i \in 0 .. Width + 1 /\ f.step \in 1 .. Steps(f)
      /\ f.i = 0 => Steps(f) = 2 /\ (f.step = 1 => a = "in") /\ (f.step = 2 => a = "scl0")
      /\ f.i \in 1 .. Width =>
           /\ Steps(f) = 3
           /\ f.step = 1 => a = "scl1"
           /\ f.step = 2 => a = "bit"
           /\ f.step = 3 => a = "scl0"
      /\ f.i = Width + 1 =>
           /\ Steps(f) = 6
           /\ f.step = 1 => a = "scl0"
           /\ f.step = 2 => a = "out"
           /\ f.step = 3 => a = "sda1"
           /\ f.step = 4 => a = "scl1"
           /\ f.step = 5 => a = "scl0"
           /\ f.step = 6 => a = "sda0"
  BY AnySteps, DataAccesses
<1>3. f.ok
  BY AnySteps DEF AckRead, Bytes
<1>4. After(f) = "stop"
  BY <1>1, <1>3, Follows
<1>5. a # "ack" /\ (a = "bit" <=> f.i \in 1 .. Width /\ f.step = 2)
  BY <1>1, Samples DEF Bytes
<1>6. f.seg = "data"
  OBVIOUS
<1>. HIDE DEF f, g, a
<1>7. /\ g.ok = f.ok
      /\ g.got = (IF a = "bit" THEN Shifted(f.got, SDA) ELSE f.got)
      /\ f.step < Steps(f) => g.seg = f.seg /\ g.i = f.i /\ g.step = f.step + 1
      /\ f.step = Steps(f) /\ f.i < Width + 1 => g.seg = f.seg /\ g.i = f.i + 1 /\ g.step = 1
      /\ f.step = Steps(f) /\ f.i = Width + 1 => g.seg = "stop" /\ g.i = 0 /\ g.step = 1
  BY <1>1, <1>2, <1>4, <1>5, Advances
<1>8. CASE f.i = 0
  BY <1>1, <1>2, <1>3, <1>5, <1>6, <1>7, <1>8 DEF f, g, To
<1>9. CASE f.i \in 1 .. Width
  BY <1>1, <1>2, <1>3, <1>5, <1>6, <1>7, <1>9 DEF f, g, To
<1>10. CASE f.i = Width + 1
  BY <1>1, <1>2, <1>3, <1>5, <1>6, <1>7, <1>10 DEF f, g, To
<1>11. QED BY <1>2, <1>8, <1>9, <1>10

-----------------------------------------------------------------------------
(***************************************************************************)
(* Each access keeps the shape: i2c_stop.                                  *)
(***************************************************************************)
LEMMA SameTorn ==
  ASSUME NEW w \in Who, Moves(w)
  PROVE  Torn(w)' = Torn(w)
BY DEF Moves, Torn

\* What a frame may tell stays true while its call lasts.
LEMMA TruthKept ==
  ASSUME NEW w \in Who, TypeOK, Moves(w), Truthful(F(w), w),
         F(w)'.ok = F(w).ok, F(w)'.got = F(w).got
  PROVE  Truthful(F(w), w)'
<1>1. SameCall(w) /\ Grows
  BY AnySteps
<1>2. CASE F(w).ok /\ F(w).op = "write"
  BY <1>1, <1>2 DEF Truthful, SameCall, Grows
<1>3. CASE F(w).ok /\ F(w).op # "write"
  BY <1>1, <1>3 DEF Truthful, SameCall, Content
<1>4. CASE ~F(w).ok
  BY <1>1, <1>4 DEF Truthful, Grows
<1>5. QED BY <1>2, <1>3, <1>4

LEMMA RefusedKept ==
  ASSUME NEW w \in Who, TypeOK, Moves(w), F(w)'.ok = F(w).ok, ~F(w).ok /\ ~Torn(w) => refused[w]
  PROVE  (~F(w).ok /\ ~Torn(w) => refused[w])'
BY AnySteps, SameTorn DEF Grows

LEMMA TurnsQuiet ==
  ASSUME NEW a \in {"out", "in", "sda0", "sda1"}, Access(a), TypeOK, Quiet
  PROVE  Quiet'
<1>1. CASE UNCHANGED slave
  BY <1>1 DEF Quiet, slave
<1>2. CASE SlaveStart
  BY <1>2 DEF Quiet, SlaveStart
<1>3. CASE SlaveStop
  BY <1>3 DEF Quiet, SlaveStop
<1>4. QED BY <1>1, <1>2, <1>3, Turns

\* The last access of i2c_stop is a STOP to a device, unless the lines are at rest already.
LEMMA StopFrees ==
  ASSUME Access("sda1"), TypeOK, dirOut, (sdaOut = 0 /\ scl = 1) \/ Rest
  PROVE  Free'
<1>1. scl' = scl /\ dirOut' = dirOut /\ sdaOut' = 1
  BY Puts
<1>2. scl = 1 /\ SDA = sdaOut /\ Line(dirOut', sdaOut', pull) = 1
  BY <1>1 DEF Rest, SDA, Line
<1>3. SDA' = 1
  BY <1>1 DEF SDA, Line
<1>4. CASE sdaOut = 0
  <2>1. SlaveStop
    BY <1>2, <1>4, Changes
  <2>2. QED BY <1>1, <1>2, <1>3, <2>1 DEF Rest, Free, SlaveStop
<1>5. CASE Rest
  <2>1. UNCHANGED slave
    BY <1>2, <1>5, Changes DEF Rest
  <2>2. QED BY <1>1, <1>2, <1>3, <1>5, <2>1 DEF Rest, Free, slave
<1>6. QED BY <1>4, <1>5

\* A clock that is high already changes nothing.
LEMMA RiseRests ==
  ASSUME Access("scl1"), TypeOK, Rest
  PROVE  Rest'
<1>1. scl' = 1 /\ dirOut' = dirOut /\ sdaOut' = sdaOut /\ UNCHANGED slave
  BY Rises DEF Rest
<1>2. QED BY <1>1 DEF Rest, SDA, Line, slave

LEMMA StopShape ==
  ASSUME NEW w \in Who, TypeOK, Moves(w), F(w).seg = "stop", Shape(w)
  PROVE  Shape(w)'
<1>1. /\ Stopping(w) /\ (~Torn(w) => Truthful(F(w), w)) /\ (~F(w).ok /\ ~Torn(w) => refused[w])
  BY DEF Shape
<1>2. F(w)'.ok = F(w).ok /\ F(w)'.got = F(w).got
  BY StopSteps
<1>3. (~F(w).ok /\ ~Torn(w) => refused[w])'
  BY <1>1, <1>2, RefusedKept
<1>4. (~Torn(w) => Truthful(F(w), w))'
  BY <1>1, <1>2, TruthKept, SameTorn
<1>5. CASE F(w).step = 1
  <2>1. Access("out") /\ To(w, "stop", 0, 2)
    BY <1>5, StopSteps
  <2>2. Quiet' /\ dirOut'
    BY <1>1, <1>5, <2>1, TurnsQuiet, Puts DEF Stopping
  <2>3. QED BY <1>3, <1>4, <2>1, <2>2 DEF Shape, Stopping, To, Bytes
<1>6. CASE F(w).step = 2
  <2>1. Access("sda0") /\ To(w, "stop", 0, 3)
    BY <1>6, StopSteps
  <2>2. Quiet' /\ dirOut' /\ sdaOut' = 0
    BY <1>1, <1>6, <2>1, TurnsQuiet, Puts DEF Stopping
  <2>3. QED BY <1>3, <1>4, <2>1, <2>2 DEF Shape, Stopping, To, Bytes
<1>7. CASE F(w).step = 3
  <2>1. Access("scl1") /\ To(w, "stop", 0, 4)
    BY <1>7, StopSteps
  <2>2. scl' = 1 /\ dirOut' /\ sdaOut' = sdaOut
    BY <1>1, <1>7, <2>1, Rises DEF Stopping
  <2>3. Rest => Rest'
    BY <2>1, RiseRests
  <2>4. QED BY <1>1, <1>3, <1>4, <1>7, <2>1, <2>2, <2>3 DEF Shape, Stopping, To, Bytes
<1>8. CASE F(w).step = 4
  <2>1. Access("sda1") /\ To(w, "done", 0, 1)
    BY <1>8, StopSteps
  <2>2. Free'
    BY <1>1, <1>8, <2>1, StopFrees DEF Stopping
  <2>3. QED BY <1>3, <1>4, <2>1, <2>2 DEF Shape, To, Bytes
<1>9. QED BY <1>5, <1>6, <1>7, <1>8, StopSteps

-----------------------------------------------------------------------------
(***************************************************************************)
(* i2c_start.                                                              *)
(***************************************************************************)
LEMMA TurnsLeft ==
  ASSUME NEW a \in {"out", "in", "sda0", "sda1"}, Access(a), TypeOK, Left,
         main' = main, torn' = torn
  PROVE  Left'
<1>1. scl' = scl
  BY Puts
<1>2. CASE UNCHANGED slave
  BY <1>1, <1>2 DEF Left, Prefix, slave
<1>3. CASE SlaveStart
  BY <1>3 DEF Left, SlaveStart
<1>4. CASE SlaveStop
  BY <1>4 DEF Left, SlaveStop
<1>5. QED BY <1>2, <1>3, <1>4, Turns

LEMMA TurnsReg ==
  ASSUME NEW a \in {"out", "in", "sda0", "sda1"}, Access(a), TypeOK
  PROVE  ptr' = ptr
BY Turns DEF SlaveStart, SlaveStop, slave

\* The device stays where it is while nobody writes to it.
LEMMA RiseReg ==
  ASSUME Access("scl1"), TypeOK, Quiet
  PROVE  ptr' = ptr
<1>1. CASE scl = 1
  BY <1>1, Rises DEF slave
<1>2. CASE scl = 0
  <2>1. SlaveRise(SDA) /\ SDA \in {0, 1}
    BY <1>2, Rises, SDAType
  <2>2. CASE mode = "ack"
    BY <2>1, <2>2, RiseAcks DEF Quiet
  <2>3. CASE mode = "take" /\ count < Width
    BY <2>1, <2>3, RiseTakes
  <2>4. CASE mode \in {"idle", "send", "sent"} \/ (mode = "take" /\ count = Width)
    BY <2>1, <2>4, RiseWaits DEF slave
  <2>5. QED BY <2>2, <2>3, <2>4, CallAssumption DEF TypeOK
<1>3. QED BY <1>1, <1>2 DEF TypeOK

LEMMA StartShape ==
  ASSUME NEW w \in Who, TypeOK, Moves(w), F(w).seg \in {"start", "restart"}, Shape(w)
  PROVE  Shape(w)'
<1>. DEFINE seg == F(w).seg
            Known == (seg = "restart" /\ F(w).op = "read" /\ F(w).ok /\ ~Torn(w) => ptr = F(w).reg)
<1>1. /\ Starting(w) /\ Known /\ (~F(w).ok /\ ~Torn(w) => refused[w])
  BY DEF Shape, AtReg
<1>2. F(w)'.ok = F(w).ok /\ SameCall(w) /\ (seg = "start" => F(w).ok)
  BY StartSteps, AnySteps DEF AckRead, Bytes
<1>3. (~F(w).ok /\ ~Torn(w) => refused[w])'
  BY <1>1, <1>2, RefusedKept
<1>4. Torn(w)' = Torn(w)
  BY SameTorn
<1>5. ASSUME NEW k \in 2 .. 5, To(w, seg, 0, k), ptr' = ptr, Starting(w)' PROVE Shape(w)'
  <2>1. AtReg(w)'
    BY <1>1, <1>2, <1>4, <1>5 DEF AtReg, To, SameCall
  <2>2. QED BY <1>3, <1>5, <2>1 DEF Shape, To, Bytes
<1>6. ASSUME NEW a \in {"out", "sda1"}, Access(a), F(w).step <= 3
      PROVE  ptr' = ptr /\ (IF w = "handler" /\ seg = "start" THEN Left' ELSE Quiet')
  <2>1. ptr' = ptr
    BY <1>6, TurnsReg
  <2>2. CASE w = "handler" /\ seg = "start"
    <3>1. Left /\ main' = main /\ torn' = torn
      BY <1>1, <1>6, <2>2 DEF Starting, Moves
    <3>2. Left'
      BY <1>6, <3>1, TurnsLeft
    <3>3. QED BY <2>1, <2>2, <3>2
  <2>3. CASE ~(w = "handler" /\ seg = "start")
    <3>1. Quiet
      BY <1>1, <1>6, <2>3 DEF Starting
    <3>2. Quiet'
      BY <1>6, <3>1, TurnsQuiet
    <3>3. QED BY <2>1, <2>3, <3>2
  <2>4. QED BY <2>2, <2>3
<1>7. CASE F(w).step = 1
  <2>1. Access("out") /\ To(w, seg, 0, 2)
    BY <1>7, StartSteps
  <2>2. dirOut'
    BY <2>1, Puts
  <2>3. ptr' = ptr /\ (IF w = "handler" /\ seg = "start" THEN Left' ELSE Quiet')
    BY <1>6, <1>7, <2>1
  <2>4. Starting(w)'
    BY <2>1, <2>2, <2>3 DEF Starting, To
  <2>5. QED BY <1>5, <2>1, <2>3, <2>4
<1>8. CASE F(w).step = 2
  <2>1. Access("sda1") /\ To(w, seg, 0, 3)
    BY <1>8, StartSteps
  <2>2. dirOut' /\ sdaOut' = 1
    BY <1>1, <1>8, <2>1, Puts DEF Starting
  <2>3. ptr' = ptr /\ (IF w = "handler" /\ seg = "start" THEN Left' ELSE Quiet')
    BY <1>6, <1>8, <2>1
  <2>4. Starting(w)'
    BY <2>1, <2>2, <2>3 DEF Starting, To
  <2>5. QED BY <1>5, <2>1, <2>3, <2>4
<1>9. CASE F(w).step = 3
  <2>1. Access("scl1") /\ To(w, seg, 0, 4)
    BY <1>9, StartSteps
  <2>2. dirOut' /\ sdaOut' = 1 /\ scl' = 1
    BY <1>1, <1>9, <2>1, Rises DEF Starting
  <2>3. Starting(w)'
    BY <2>1, <2>2 DEF Starting, To
  <2>4. CASE seg = "start"
    BY <1>2, <1>3, <2>1, <2>3, <2>4 DEF Shape, AtReg, To, Bytes
  <2>5. CASE seg = "restart"
    <3>1. Quiet
      BY <1>1, <1>9, <2>5 DEF Starting
    <3>2. ptr' = ptr
      BY <2>1, <3>1, RiseReg
    <3>3. QED BY <1>5, <2>1, <2>3, <3>2
  <2>6. QED BY <2>4, <2>5
<1>10. CASE F(w).step = 4
  <2>1. Access("sda0") /\ To(w, seg, 0, 5)
    BY <1>10, StartSteps
  <2>2. dirOut /\ sdaOut = 1 /\ scl = 1
    BY <1>1, <1>10 DEF Starting
  <2>3. dirOut' /\ sdaOut' = 0 /\ scl' = 1
    BY <2>1, <2>2, Puts
  <2>4. SDA = 1 /\ Line(dirOut', sdaOut', pull) = 0
    BY <2>2, <2>3 DEF SDA, Line
  <2>5. SlaveStart
    BY <2>1, <2>2, <2>4, Changes
  <2>6. ptr' = ptr /\ Begun("dev")'
    BY <2>5 DEF SlaveStart, Begun
  <2>7. Starting(w)'
    BY <2>1, <2>3, <2>6 DEF Starting, To
  <2>8. QED BY <1>5, <2>1, <2>6, <2>7
<1>11. CASE F(w).step = 5
  <2>1. Access("scl0") /\ To(w, After(F(w)), 0, 1)
    BY <1>11, StartSteps
  <2>2. scl = 1 /\ dirOut /\ (Begun("dev") \/ (Torn(w) /\ Rest))
    BY <1>1, <1>11 DEF Starting
  <2>3. scl' = 0 /\ UNCHANGED slave
    <3>1. scl' = 0 /\ SlaveFall
      BY <2>1, <2>2, Falls
    <3>2. mode = "idle" \/ (mode = "take" /\ count < Width)
      BY <2>2, CallAssumption DEF Begun, Rest
    <3>3. QED BY <3>1, <3>2, FallWaits
  <2>4. Begun("dev")' \/ (Torn(w)' /\ mode' = "idle" /\ ~pull')
    BY <1>4, <2>2, <2>3 DEF Begun, Rest, slave
  <2>5. CASE F(w).ok
    <3>1. F(w)'.seg = IF seg = "start" THEN "dev" ELSE "devR"
      BY <2>1, <2>5, AnySteps, Follows DEF Moves, To
    <3>2. ptr' = ptr
      BY <2>3 DEF slave
    <3>3. AtReg(w)'
      BY <1>1, <1>2, <1>4, <3>1, <3>2 DEF AtReg, SameCall, Segs
    <3>4. Sending(w)'
      <4>1. CASE Begun("dev")'
        <5>1. RoleOf(F(w)'.seg) = "dev" /\ F(w)'.i = 0
          BY <2>1, <3>1 DEF RoleOf, To
        <5>2. InByte(w)'
          BY <2>3, <4>1, <5>1, CallAssumption DEF InByte
        <5>3. QED BY <3>3, <5>2 DEF Sending
      <4>2. CASE Torn(w)' /\ mode' = "idle" /\ ~pull'
        <5>1. Astray(w)'
          BY <2>1, <2>3, <4>2, CallAssumption DEF Astray, To
        <5>2. QED BY <4>2, <5>1 DEF Sending
      <4>3. QED BY <2>4, <4>1, <4>2
    <3>5. QED BY <1>3, <3>1, <3>4 DEF Shape, Bytes
  <2>6. CASE ~F(w).ok
    <3>1. F(w)'.seg = "stop"
      BY <1>2, <2>1, <2>6, AnySteps, Follows DEF Moves, To
    <3>2. Quiet'
      BY <2>4 DEF Begun, Quiet
    <3>3. (~Torn(w) => Truthful(F(w), w))'
      BY <1>2, <1>3, <2>6 DEF Truthful
    <3>4. QED BY <1>3, <2>1, <3>1, <3>2, <3>3 DEF Shape, Stopping, To, Bytes
  <2>7. QED BY <2>5, <2>6
<1>12. QED BY <1>7, <1>8, <1>9, <1>10, <1>11, StartSteps

-----------------------------------------------------------------------------
(***************************************************************************)
(* i2c_write.                                                              *)
(***************************************************************************)
LEMMA ByteOfType ==
  ASSUME NEW f \in FrameType, f.seg \in Bytes
  PROVE  ByteOf(f) \in Byte /\ \A j \in 1 .. Width : ByteOf(f)[j] \in {0, 1}
BY ToReadType DEF FrameType, ByteOf, Bytes, Byte

LEMMA SameByte ==
  ASSUME NEW w \in Who, SameCall(w), F(w)'.seg = F(w).seg, F(w).seg \in Bytes
  PROVE  ByteOf(F(w)') = ByteOf(F(w)) /\ RoleOf(F(w)'.seg) = RoleOf(F(w).seg)
BY DEF SameCall, ByteOf, Bytes

\* The register of a frame in a byte, or behind it in the same byte.
LEMMA SameReg ==
  ASSUME NEW w \in Who, Moves(w), SameCall(w), AtReg(w), F(w)'.seg = F(w).seg, ptr' = ptr,
         F(w)'.ok => F(w).ok
  PROVE  AtReg(w)'
BY SameTorn DEF AtReg, SameCall

\* In step: the device takes one bit in each pass, and answers behind the last.
LEMMA LoopInByte ==
  ASSUME NEW w \in Who, TypeOK, Moves(w), F(w).seg \in Bytes, F(w).i # Width + 1, InByte(w)
  PROVE  InByte(w)' /\ ptr' = ptr
<1>. DEFINE f == F(w)
            byte == ByteOf(F(w))
            r == RoleOf(F(w).seg)
<1>. Width \in Nat \ {0}
  BY CallAssumption
<1>1. /\ f.i = 0 => scl = 0 /\ Begun(r)
      /\ f.i \in 1 .. Width =>
           /\ dirOut /\ mode = "take" /\ role = r /\ ~pull
           /\ Prefix(byte) /\ count = (IF f.step = 4 THEN f.i ELSE f.i - 1)
           /\ scl = (IF f.step = 4 THEN 1 ELSE 0)
           /\ f.step = 3 => sdaOut = byte[f.i]
  BY DEF InByte
<1>2. byte \in Byte /\ \A j \in 1 .. Width : byte[j] \in {0, 1}
  BY ByteOfType DEF Moves
<1>3. F(w)'.seg = F(w).seg /\ SameCall(w) /\ f.i \in 0 .. Width
  BY BitSteps, AnySteps DEF To
<1>4. ByteOf(F(w)') = byte /\ RoleOf(F(w)'.seg) = r
  BY <1>3, SameByte
<1>5. shift \in Byte
  BY DEF TypeOK
<1>. HIDE DEF byte, r
<1>6. CASE f.i = 0
  <2>1. Access("out") /\ F(w)'.i = 1 /\ F(w)'.step = 1
    BY <1>6, BitSteps DEF To
  <2>2. scl' = 0 /\ dirOut' /\ UNCHANGED slave
    BY <1>1, <1>6, <2>1, Puts, Changes
  <2>3. QED BY <1>1, <1>4, <1>6, <2>1, <2>2 DEF InByte, Begun, Prefix, slave
<1>7. CASE f.i \in 1 .. Width /\ f.step = 1
  <2>1. Access("scl0") /\ F(w)'.i = f.i /\ F(w)'.step = 2
    BY <1>7, BitSteps DEF To
  <2>2. scl' = 0 /\ dirOut' = dirOut /\ UNCHANGED slave
    BY <1>1, <1>7, <2>1, Falls
  <2>3. QED BY <1>1, <1>4, <1>7, <2>1, <2>2 DEF InByte, Prefix, slave
<1>8. CASE f.i \in 1 .. Width /\ f.step = 2
  <2>1. Access(Put(byte[f.i])) /\ F(w)'.i = f.i /\ F(w)'.step = 3
    BY <1>8, BitSteps DEF To, byte
  <2>2. Put(byte[f.i]) \in {"sda0", "sda1"} /\ (Put(byte[f.i]) = "sda1" <=> byte[f.i] = 1)
    BY <1>2, <1>8 DEF Put
  <2>3. scl' = scl /\ dirOut' = dirOut /\ sdaOut' = byte[f.i]
    BY <1>2, <1>8, <2>1, <2>2, Puts
  <2>4. UNCHANGED slave
    BY <1>1, <1>8, <2>1, <2>2, Changes
  <2>5. QED BY <1>1, <1>4, <1>8, <2>1, <2>3, <2>4 DEF InByte, Prefix, slave
<1>9. CASE f.i \in 1 .. Width /\ f.step = 3
  <2>1. Access("scl1") /\ F(w)'.i = f.i /\ F(w)'.step = 4
    BY <1>9, BitSteps DEF To
  <2>2. scl = 0 /\ dirOut /\ sdaOut = byte[f.i] /\ mode = "take" /\ count = f.i - 1 /\ count < Width
    BY <1>1, <1>9
  <2>3. SDA = byte[f.i] /\ SDA \in {0, 1}
    BY <2>2, SDAType DEF SDA, Line
  <2>4. scl' = 1 /\ dirOut' = dirOut /\ SlaveRise(SDA)
    BY <2>1, <2>2, Rises
  <2>5. /\ mode' = "take" /\ role' = role /\ ptr' = ptr /\ pull' = pull
        /\ shift' = [shift EXCEPT ![f.i] = byte[f.i]] /\ count' = f.i
    BY <1>9, <2>2, <2>3, <2>4, RiseTakes
  <2>6. \A j \in 1 .. count' : shift'[j] = byte[j]
    <3>1. SUFFICES ASSUME NEW j \in 1 .. count' PROVE shift'[j] = byte[j]
      OBVIOUS
    <3>2. j \in 1 .. f.i /\ j \in 1 .. Width
      BY <1>9, <2>5
    <3>3. CASE j = f.i
      <4>1. shift'[f.i] = byte[f.i]
        BY <1>5, <1>9, <2>5 DEF Byte
      <4>2. QED BY <3>3, <4>1
    <3>4. CASE j # f.i
      <4>1. j \in 1 .. count /\ shift[j] = byte[j]
        BY <1>1, <1>9, <2>2, <3>2, <3>4 DEF Prefix
      <4>2. shift'[j] = shift[j]
        BY <1>5, <2>5, <3>2, <3>4 DEF Byte
      <4>3. QED BY <4>1, <4>2
    <3>5. QED BY <3>3, <3>4
  <2>7. /\ scl' = 1 /\ dirOut' /\ mode' = "take" /\ role' = r /\ ~pull' /\ count' = f.i
    BY <1>1, <1>9, <2>2, <2>4, <2>5
  <2>8. QED BY <1>4, <1>9, <2>1, <2>5, <2>6, <2>7 DEF InByte, Prefix
<1>10. CASE f.i \in 1 .. Width /\ f.step = 4
  <2>1. Access("scl0") /\ F(w)'.i = f.i + 1 /\ F(w)'.step = 1
    BY <1>10, BitSteps DEF To
  <2>2. scl = 1 /\ dirOut /\ mode = "take" /\ role = r /\ ~pull /\ count = f.i /\ Prefix(byte)
    BY <1>1, <1>10
  <2>3. scl' = 0 /\ dirOut' = dirOut /\ SlaveFall
    BY <2>1, <2>2, Falls
  <2>4. CASE f.i < Width
    <3>1. UNCHANGED slave
      BY <2>2, <2>3, <2>4, FallWaits
    <3>2. f.i + 1 \in 1 .. Width
      BY <1>10, <2>4
    <3>3. QED BY <1>4, <1>10, <2>1, <2>2, <2>3, <3>1, <3>2 DEF InByte, Prefix, slave
  <2>5. CASE f.i = Width
    <3>1. /\ role' = role /\ ptr' = ptr
          /\ \/ mode' = "ack" /\ pull' /\ shift' = shift
             \/ mode' = "idle" /\ pull' = pull /\ refused' = [v \in Who |-> TRUE]
      BY <2>2, <2>3, <2>5, FallAnswers
    <3>2. shift = byte
      <4>1. \A j \in 1 .. Width : shift[j] = byte[j]
        BY <2>2, <2>5 DEF Prefix
      <4>2. QED BY <1>2, <1>5, <4>1 DEF Byte
    <3>3. F(w)'.i = Width + 1 /\ F(w)'.step = 1 /\ scl' = 0 /\ dirOut'
      BY <2>1, <2>2, <2>3, <2>5
    <3>4. \/ mode' = "ack" /\ role' = r /\ pull' /\ shift' = byte
          \/ mode' = "idle" /\ ~pull' /\ refused'[w]
      BY <2>2, <3>1, <3>2
    <3>5. QED BY <1>4, <3>1, <3>3, <3>4 DEF InByte
  <2>6. QED BY <1>3, <2>4, <2>5
<1>11. f.step \in 1 .. 4 \/ f.i = 0
  BY BitSteps
<1>12. QED BY <1>3, <1>6, <1>7, <1>8, <1>9, <1>10, <1>11

\* Driving a high line high changes nothing.
LEMMA FreeStays ==
  ASSUME NEW a \in {"out", "sda1"}, Access(a), TypeOK, Free
  PROVE  Free' /\ UNCHANGED slave
<1>1. scl' = scl /\ dirOut' /\ sdaOut' = 1
  BY Puts DEF Free, Rest, SDA, Line
<1>2. SDA = 1 /\ Line(dirOut', sdaOut', pull) = 1
  BY <1>1 DEF Free, Rest, Line
<1>3. UNCHANGED slave
  BY <1>2, Changes
<1>4. SDA' = 1
  BY <1>1 DEF SDA, Line
<1>5. QED BY <1>1, <1>3, <1>4 DEF Free, Rest, slave

\* Out of step: the device hears nothing, or too little to answer.
LEMMA LoopAstray ==
  ASSUME NEW w \in Who, TypeOK, Moves(w), F(w).seg \in Bytes, F(w).i # Width + 1, Astray(w)
  PROVE  Astray(w)'
<1>. DEFINE f == F(w)
<1>. Width \in Nat \ {0}
  BY CallAssumption
<1>1. /\ ~pull
      /\ f.i = 0 => mode = "idle" /\ (scl = 0 \/ Free)
      /\ f.i \in 1 .. Width =>
           /\ dirOut
           /\ f.step <= 2 => scl = 0 \/ Free
           /\ f.step = 4 => scl = 1
           /\ \/ mode = "idle"
              \/ /\ mode = "take" /\ role = "dev"
                 /\ IF f.step = 4 THEN count < f.i
                    ELSE count + 1 < f.i \/ (f.step = 3 /\ scl = 1 /\ count = 0)
  BY DEF Astray
<1>2. f.i \in 0 .. Width /\ (f.i = 0 \/ f.step \in 1 .. 4)
  BY BitSteps
<1>3. count \in Nat /\ scl \in {0, 1}
  BY DEF TypeOK
<1>4. CASE f.i = 0
  <2>1. Access("out") /\ F(w)'.i = 1 /\ F(w)'.step = 1
    BY <1>4, BitSteps DEF To
  <2>2. scl' = scl /\ dirOut'
    BY <2>1, Puts
  <2>3. UNCHANGED slave /\ (Free => Free')
    BY <1>1, <1>4, <2>1, Changes, FreeStays
  <2>4. QED BY <1>1, <1>4, <2>1, <2>2, <2>3 DEF Astray, slave
<1>5. CASE f.i \in 1 .. Width /\ f.step = 1
  <2>1. Access("scl0") /\ F(w)'.i = f.i /\ F(w)'.step = 2
    BY <1>5, BitSteps DEF To
  <2>2. scl' = 0 /\ dirOut'
    BY <1>1, <1>5, <2>1, Falls
  <2>3. UNCHANGED slave
    <3>1. CASE scl = 0
      BY <2>1, <3>1, Falls
    <3>2. CASE scl = 1
      <4>1. mode = "idle" /\ SlaveFall
        BY <1>1, <1>5, <2>1, <3>2, Falls DEF Free, Rest
      <4>2. QED BY <4>1, FallWaits
    <3>3. QED BY <1>3, <3>1, <3>2
  <2>4. QED BY <1>1, <1>5, <2>1, <2>2, <2>3 DEF Astray, slave
<1>6. CASE f.i \in 1 .. Width /\ f.step = 2
  <2>. DEFINE a == Put(ByteOf(F(w))[f.i])
  <2>1. Access(a) /\ F(w)'.i = f.i /\ F(w)'.step = 3
    BY <1>6, BitSteps DEF To
  <2>2. a \in {"sda0", "sda1"}
    BY DEF Put
  <2>. HIDE DEF a
  <2>3. scl' = scl /\ dirOut' = dirOut
    BY <2>1, <2>2, Puts
  <2>4. \/ UNCHANGED slave
        \/ scl = 1 /\ mode' = "take" /\ role' = "dev" /\ count' = 0 /\ ~pull'
    <3>1. CASE scl = 0
      BY <2>1, <2>2, <3>1, Changes
    <3>2. CASE scl = 1 /\ a = "sda1"
      BY <1>1, <1>6, <2>1, <3>2, FreeStays
    <3>3. CASE scl = 1 /\ a = "sda0"
      <4>1. Free
        BY <1>1, <1>6, <3>3
      <4>2. dirOut' /\ sdaOut' = 0
        BY <4>1, <2>1, <2>3, <3>3, Puts DEF Free
      <4>3. SDA = 1 /\ Line(dirOut', sdaOut', pull) = 0
        BY <4>1, <4>2 DEF Free, Rest, Line
      <4>4. SlaveStart
        BY <2>1, <3>3, <4>3, Changes
      <4>5. QED BY <3>3, <4>4 DEF SlaveStart
    <3>4. QED BY <1>3, <2>2, <3>1, <3>2, <3>3
  <2>5. QED BY <1>1, <1>6, <2>1, <2>3, <2>4 DEF Astray, slave
<1>7. CASE f.i \in 1 .. Width /\ f.step = 3
  <2>1. Access("scl1") /\ F(w)'.i = f.i /\ F(w)'.step = 4
    BY <1>7, BitSteps DEF To
  <2>2. scl' = 1 /\ dirOut'
    BY <1>1, <1>7, <2>1, Rises
  <2>3. \/ UNCHANGED slave /\ (mode = "take" => count < f.i)
        \/ mode' = "take" /\ role' = "dev" /\ count' < f.i /\ ~pull'
    <3>1. CASE scl = 1
      BY <1>1, <1>3, <1>7, <2>1, <3>1, Rises
    <3>2. CASE scl = 0
      <4>1. SlaveRise(SDA) /\ SDA \in {0, 1}
        BY <2>1, <3>2, Rises, SDAType
      <4>2. CASE mode = "idle"
        BY <4>1, <4>2, RiseWaits
      <4>3. CASE mode # "idle"
        <5>1. mode = "take" /\ role = "dev" /\ count + 1 < f.i /\ count < Width
          BY <1>1, <1>3, <1>7, <3>2, <4>3
        <5>2. mode' = "take" /\ role' = role /\ pull' = pull /\ count' = count + 1
          BY <4>1, <5>1, RiseTakes
        <5>3. QED BY <1>1, <5>1, <5>2
      <4>4. QED BY <4>2, <4>3
    <3>3. QED BY <1>3, <3>1, <3>2
  <2>4. QED BY <1>1, <1>7, <2>1, <2>2, <2>3 DEF Astray, slave
<1>8. CASE f.i \in 1 .. Width /\ f.step = 4
  <2>1. Access("scl0") /\ F(w)'.i = f.i + 1 /\ F(w)'.step = 1
    BY <1>8, BitSteps DEF To
  <2>2. scl' = 0 /\ dirOut' /\ SlaveFall
    BY <1>1, <1>8, <2>1, Falls
  <2>3. mode = "idle" \/ (mode = "take" /\ role = "dev" /\ count < f.i /\ count < Width)
    BY <1>1, <1>3, <1>8
  <2>4. UNCHANGED slave
    BY <2>2, <2>3, FallWaits
  <2>5. F(w)'.i = Width + 1 \/ F(w)'.i \in 2 .. Width
    BY <1>8, <2>1
  <2>6. mode' = "idle" \/ (mode' = "take" /\ role' = "dev" /\ count' + 1 < F(w)'.i /\ count' < Width)
    BY <1>3, <1>8, <2>1, <2>3, <2>4 DEF slave
  <2>7. ~pull' /\ ~AckRead(F(w)')
    BY <1>1, <2>1, <2>4 DEF slave, AckRead
  <2>8. QED BY <2>1, <2>2, <2>5, <2>6, <2>7 DEF Astray
<1>9. QED BY <1>2, <1>4, <1>5, <1>6, <1>7, <1>8

\* In step, the ACK is read: what a write returns is what the device did.
LEMMA AckInByte ==
  ASSUME NEW w \in Who, TypeOK, Moves(w), F(w).seg \in Bytes, F(w).i = Width + 1, F(w).step # 4,
         InByte(w), AtReg(w)
  PROVE  InByte(w)' /\ AtReg(w)' /\ (~F(w).ok => refused[w])'
<1>. DEFINE f == F(w)
            byte == ByteOf(F(w))
            r == RoleOf(F(w).seg)
<1>. Width \in Nat \ {0}
  BY CallAssumption
<1>1. /\ scl = (IF f.step <= 2 THEN 0 ELSE 1)
      /\ dirOut <=> f.step = 1
      /\ \/ mode = "ack" /\ role = r /\ pull /\ shift = byte
         \/ mode = "idle" /\ ~pull /\ refused[w]
      /\ f.step >= 3 /\ mode = "ack" =>
           /\ r = "reg" => ptr = byte
           /\ r = "val" => <<f.reg, f.val>> \in log[w]
  BY DEF InByte
<1>2. f.step \in 1 .. 3 /\ f.ok /\ (f.step # 3 => F(w)'.ok)
  BY AckSteps, AnySteps DEF AckRead, Bytes
<1>3. F(w)'.seg = f.seg /\ F(w)'.i = Width + 1 /\ F(w)'.step = f.step + 1 /\ SameCall(w)
  BY AckSteps, AnySteps DEF To
<1>4. ByteOf(F(w)') = byte /\ RoleOf(F(w)'.seg) = r
  BY <1>3, SameByte
<1>5. F(w)'.reg = f.reg /\ F(w)'.val = f.val
  BY <1>3 DEF SameCall
<1>6. (r = "val" => f.seg = "val" /\ byte = f.val) /\ (r = "reg" => f.seg = "reg")
  BY DEF RoleOf, ByteOf, Bytes
<1>7. ptr' = ptr \/ (f.seg = "reg" /\ r = "reg") => AtReg(w)'
  <2>1. ptr' = ptr => AtReg(w)'
    BY <1>2, <1>3, SameReg
  <2>2. f.seg = "reg" => AtReg(w)'
    BY <1>3 DEF AtReg
  <2>3. QED BY <2>1, <2>2
<1>. HIDE DEF byte, r
<1>8. CASE f.step = 1
  <2>1. Access("in")
    BY <1>8, AckSteps
  <2>2. scl' = 0 /\ ~dirOut' /\ UNCHANGED slave
    <3>1. scl = 0
      BY <1>1, <1>8
    <3>2. scl' = scl /\ dirOut' = FALSE
      BY <2>1, Puts
    <3>3. UNCHANGED slave
      BY <2>1, <3>1, Changes
    <3>4. QED BY <3>1, <3>2, <3>3
  <2>3. InByte(w)'
    BY <1>1, <1>3, <1>4, <1>8, <2>2 DEF InByte, slave
  <2>4. QED BY <1>2, <1>7, <1>8, <2>2, <2>3 DEF slave
<1>9. CASE f.step = 2
  <2>1. Access("scl1")
    BY <1>9, AckSteps
  <2>2. scl' = 1 /\ ~dirOut' /\ SlaveRise(SDA) /\ SDA \in {0, 1}
    BY <1>1, <1>9, <2>1, Rises, SDAType
  <2>3. CASE mode = "ack"
    <3>1. /\ mode' = "ack" /\ role' = r /\ shift' = byte /\ pull'
          /\ ptr' = IF r = "reg" THEN byte ELSE ptr
          /\ r = "val" => <<ptr, byte>> \in log'[w]
      BY <1>1, <2>2, <2>3, RiseAcks
    <3>2. r = "val" => ptr = f.reg
      BY <1>6 DEF AtReg
    <3>3. r = "val" => <<f.reg, f.val>> \in log'[w]
      BY <1>6, <3>1, <3>2
    <3>4. InByte(w)'
      BY <1>3, <1>4, <1>5, <1>9, <2>2, <3>1, <3>3 DEF InByte
    <3>5. AtReg(w)'
      BY <1>6, <1>7, <3>1
    <3>6. QED BY <1>2, <1>9, <3>4, <3>5
  <2>4. CASE mode = "idle"
    <3>1. UNCHANGED slave
      BY <2>2, <2>4, RiseWaits
    <3>2. InByte(w)'
      BY <1>1, <1>3, <1>4, <1>9, <2>2, <2>4, <3>1 DEF InByte, slave
    <3>3. QED BY <1>2, <1>7, <1>9, <3>1, <3>2 DEF slave
  <2>5. QED BY <1>1, <2>3, <2>4
<1>10. CASE f.step = 3
  <2>1. Access("ack") /\ F(w)'.ok = (SDA = 0)
    BY <1>10, AckSteps
  <2>2. UNCHANGED pins /\ UNCHANGED slave
    BY <2>1, Reads
  <2>3. SDA = 0 <=> mode = "ack"
    BY <1>1, <1>10 DEF SDA, Line
  <2>4. F(w)'.ok <=> mode' = "ack"
    BY <2>1, <2>2, <2>3 DEF slave
  <2>5. InByte(w)'
    BY <1>1, <1>3, <1>4, <1>5, <1>10, <2>2, <2>4 DEF InByte, slave, pins
  <2>6. QED BY <1>1, <1>7, <2>2, <2>4, <2>5 DEF slave
<1>11. QED BY <1>2, <1>8, <1>9, <1>10

\* In step, behind the ACK.
LEMMA BehindInByte ==
  ASSUME NEW w \in Who, TypeOK, Moves(w), F(w).seg \in Bytes, F(w).i = Width + 1, F(w).step = 4,
         InByte(w), AtReg(w), ~F(w).ok /\ ~Torn(w) => refused[w]
  PROVE  Shape(w)'
<1>. DEFINE f == F(w)
            byte == ByteOf(F(w))
            r == RoleOf(F(w).seg)
<1>. Width \in Nat \ {0}
  BY CallAssumption
<1>1. /\ scl = 1 /\ ~dirOut
      /\ \/ mode = "ack" /\ role = r /\ pull /\ shift = byte
         \/ mode = "idle" /\ ~pull /\ refused[w]
      /\ f.ok <=> mode = "ack"
      /\ mode = "ack" =>
           /\ r = "reg" => ptr = byte
           /\ r = "val" => <<f.reg, f.val>> \in log[w]
  BY DEF InByte
<1>2. /\ Access("scl0") /\ F(w)'.ok = f.ok /\ F(w)'.got = f.got
      /\ F(w)'.seg = After(f) /\ F(w)'.i = 0 /\ F(w)'.step = 1
  BY AckSteps DEF To
<1>3. /\ F(w)'.op = f.op /\ F(w)'.dev = f.dev /\ F(w)'.reg = f.reg /\ F(w)'.val = f.val
      /\ f \in FrameType /\ f.seg \in Segs(f.op) /\ f.dev[Width] = 0
  BY AnySteps DEF SameCall, Moves, PlaceOK
<1>4. Torn(w)' = Torn(w) /\ (~F(w).ok /\ ~Torn(w) => refused[w])'
  BY <1>2, SameTorn, RefusedKept
<1>5. scl' = 0 /\ SlaveFall
  BY <1>1, <1>2, Falls
<1>6. CASE ~f.ok
  <2>1. mode = "idle" /\ UNCHANGED slave
    BY <1>1, <1>5, <1>6, FallWaits
  <2>2. Quiet'
    BY <2>1 DEF Quiet, slave
  <2>3. F(w)'.seg = "restart" \/ F(w)'.seg = "stop"
    BY <1>2, <1>3, <1>6, Follows DEF Bytes
  <2>4. CASE F(w)'.seg = "restart"
    <3>1. Starting(w)' /\ AtReg(w)'
      BY <1>2, <1>6, <2>2, <2>4 DEF Starting, AtReg
    <3>2. QED BY <1>4, <2>4, <3>1 DEF Shape, Bytes
  <2>5. CASE F(w)'.seg = "stop"
    <3>1. Stopping(w)'
      BY <1>2, <2>2 DEF Stopping
    <3>2. (~Torn(w) => Truthful(F(w), w))'
      BY <1>2, <1>4, <1>6 DEF Truthful
    <3>3. QED BY <1>4, <2>5, <3>1, <3>2 DEF Shape, Bytes
  <2>6. QED BY <2>3, <2>4, <2>5
<1>7. CASE f.ok
  <2>1. mode = "ack" /\ role = r /\ shift = byte
    BY <1>1, <1>7
  <2>2. /\ ptr' = ptr /\ log' = log
        /\ r = "dev" /\ byte[Width] = 0 =>
             mode' = "take" /\ role' = "reg" /\ count' = 0 /\ ~pull'
        /\ r = "dev" /\ byte[Width] = 1 =>
             mode' = "send" /\ count' = 1 /\ pull' = (ptr[1] = 0)
        /\ r \in {"reg", "val"} => mode' = "take" /\ role' = "val" /\ count' = 0 /\ ~pull'
    BY <1>5, <2>1, FallGoesOn
  <2>3. CASE f.seg = "dev"
    <3>1. r = "dev" /\ byte = f.dev /\ F(w)'.seg = "reg"
      BY <1>2, <1>3, <1>7, <2>3, Follows DEF RoleOf, ByteOf
    <3>2. Begun("reg")'
      BY <1>3, <2>2, <3>1 DEF Begun
    <3>3. InByte(w)' /\ AtReg(w)'
      BY <1>2, <1>5, <3>1, <3>2 DEF InByte, AtReg, RoleOf
    <3>4. QED BY <1>4, <3>1, <3>3 DEF Shape, Sending, Bytes
  <2>4. CASE f.seg = "reg"
    <3>1. r = "reg" /\ byte = f.reg /\ F(w)'.seg = IF f.op = "write" THEN "val" ELSE "restart"
      BY <1>2, <1>3, <1>7, <2>4, Follows DEF RoleOf, ByteOf
    <3>2. Begun("val")' /\ ptr' = F(w)'.reg
      BY <1>1, <1>3, <2>1, <2>2, <3>1 DEF Begun
    <3>3. AtReg(w)'
      BY <3>2 DEF AtReg
    <3>4. CASE f.op = "write"
      <4>1. InByte(w)'
        BY <1>2, <1>5, <3>1, <3>2, <3>4 DEF InByte, RoleOf
      <4>2. QED BY <1>4, <3>1, <3>3, <3>4, <4>1 DEF Shape, Sending, Bytes
    <3>5. CASE f.op # "write"
      <4>1. Quiet'
        BY <3>2 DEF Quiet, Begun
      <4>2. Starting(w)'
        BY <1>2, <3>1, <3>5, <4>1 DEF Starting
      <4>3. QED BY <1>4, <3>1, <3>3, <3>5, <4>2 DEF Shape, Bytes
    <3>6. QED BY <3>4, <3>5
  <2>5. CASE f.seg = "val"
    <3>1. r = "val" /\ F(w)'.seg = "stop" /\ f.op = "write"
      BY <1>2, <1>3, <1>7, <2>5, Follows DEF RoleOf, Segs
    <3>2. Quiet'
      BY <2>2, <3>1 DEF Quiet
    <3>3. Stopping(w)'
      BY <1>2, <3>2 DEF Stopping
    <3>4. Truthful(F(w), w)'
      BY <1>1, <1>2, <1>3, <1>7, <2>1, <2>2, <3>1 DEF Truthful
    <3>5. QED BY <1>4, <3>1, <3>3, <3>4 DEF Shape, Bytes
  <2>6. CASE f.seg = "devR"
    <3>1. r = "dev" /\ byte[Width] = 1 /\ F(w)'.seg = "data" /\ f.op = "read"
      BY <1>2, <1>3, <1>7, <2>6, Follows DEF RoleOf, ByteOf, ToRead, FrameType, Byte, Segs
    <3>2. InData(w)'
      BY <1>2, <1>5, <2>2, <3>1 DEF InData
    <3>3. AtReg(w)'
      BY <1>3, <1>4, <1>7, <2>2, <2>6, <3>1 DEF AtReg
    <3>4. QED BY <1>4, <3>1, <3>2, <3>3 DEF Shape, Receiving, Bytes
  <2>7. QED BY <2>3, <2>4, <2>5, <2>6 DEF Bytes
<1>8. QED BY <1>6, <1>7

\* Out of step, the ACK is not there, or the device is deaf.
LEMMA AckAstray ==
  ASSUME NEW w \in Who, TypeOK, Moves(w), F(w).seg \in Bytes, F(w).i = Width + 1, F(w).step # 4,
         Astray(w)
  PROVE  Astray(w)'
<1>. DEFINE f == F(w)
<1>. Width \in Nat \ {0}
  BY CallAssumption
<1>1. /\ ~pull
      /\ f.step = 1 => scl = 0 \/ Free
      /\ f.step = 2 => (scl = 0 /\ ~dirOut) \/ Rest
      /\ f.step = 3 => SDA = 1
      /\ f.step >= 3 => scl = 1
      /\ mode = "idle" \/ (mode = "take" /\ role = "dev" /\ (f.step <= 2 => count < Width))
  <2>1. ~AckRead(f)
    BY DEF AckRead
  <2>2. QED BY <2>1 DEF Astray
<1>2. f.step \in 1 .. 3
  BY AckSteps
<1>3. F(w)'.seg = f.seg /\ F(w)'.i = Width + 1 /\ F(w)'.step = f.step + 1
  BY AckSteps DEF To
<1>4. count \in Nat /\ scl \in {0, 1}
  BY DEF TypeOK
<1>5. ~AckRead(F(w)') \/ f.step = 3
  BY <1>2, <1>3 DEF AckRead
<1>6. CASE f.step = 1
  <2>1. Access("in")
    BY <1>6, AckSteps
  <2>2. scl' = scl /\ dirOut' = FALSE
    BY <2>1, Puts
  <2>3. UNCHANGED slave
    <3>1. CASE scl = 0
      BY <2>1, <3>1, Changes
    <3>2. CASE Free
      <4>1. SDA = 1 /\ Line(dirOut', sdaOut', pull) = 1
        BY <1>1, <2>2, <3>2 DEF Free, Rest, Line
      <4>2. QED BY <2>1, <4>1, Changes
    <3>3. QED BY <1>1, <1>6, <3>1, <3>2
  <2>4. (scl' = 0 /\ ~dirOut') \/ Rest'
    BY <1>1, <1>6, <2>2, <2>3 DEF Free, Rest, SDA, Line, slave
  <2>5. ~pull' /\ (mode' = "idle" \/ (mode' = "take" /\ role' = "dev" /\ count' < Width))
    BY <1>1, <1>6, <2>3 DEF slave
  <2>6. QED BY <1>3, <1>5, <1>6, <2>4, <2>5 DEF Astray
<1>7. CASE f.step = 2
  <2>1. Access("scl1")
    BY <1>7, AckSteps
  <2>2. scl' = 1 /\ dirOut' = dirOut /\ sdaOut' = sdaOut
    BY <2>1, Rises
  <2>3. CASE scl = 0
    <3>1. ~dirOut /\ SlaveRise(SDA) /\ SDA \in {0, 1}
      BY <1>1, <1>7, <2>1, <2>3, Rises, SDAType DEF Rest
    <3>2. ~pull' /\ (mode' = "idle" \/ (mode' = "take" /\ role' = "dev"))
      <4>1. CASE mode = "idle"
        BY <1>1, <3>1, <4>1, RiseWaits DEF slave
      <4>2. CASE mode = "take" /\ role = "dev" /\ count < Width
        BY <1>1, <3>1, <4>2, RiseTakes
      <4>3. QED BY <1>1, <1>7, <4>1, <4>2
    <3>3. SDA' = 1
      BY <2>2, <3>1, <3>2 DEF SDA, Line
    <3>4. QED BY <1>3, <1>5, <1>7, <2>2, <3>2, <3>3 DEF Astray
  <2>4. CASE Rest
    <3>1. Rest'
      BY <2>1, <2>4, RiseRests
    <3>2. QED BY <1>3, <1>7, <2>2, <3>1 DEF Astray, Rest
  <2>5. QED BY <1>1, <1>7, <2>3, <2>4
<1>8. CASE f.step = 3
  <2>1. Access("ack") /\ F(w)'.ok = (SDA = 0)
    BY <1>8, AckSteps
  <2>2. UNCHANGED pins /\ UNCHANGED slave
    BY <2>1, Reads
  <2>3. ~F(w)'.ok
    BY <1>1, <1>8, <2>1
  <2>4. AckRead(F(w)')
    BY <1>3, <1>8 DEF AckRead
  <2>5. QED BY <1>1, <1>3, <1>8, <2>2, <2>3, <2>4 DEF Astray, slave, pins
<1>9. QED BY <1>2, <1>6, <1>7, <1>8

\* Out of step, behind the ACK: what follows finds the device deaf, or is no byte.
LEMMA BehindAstray ==
  ASSUME NEW w \in Who, TypeOK, Moves(w), F(w).seg \in Bytes, F(w).i = Width + 1, F(w).step = 4,
         Astray(w), Torn(w)
  PROVE  Shape(w)'
<1>. DEFINE f == F(w)
<1>. Width \in Nat \ {0}
  BY CallAssumption
<1>1. AckRead(f)
  BY DEF AckRead
<1>2. ~pull /\ scl = 1 /\ (mode = "idle" \/ (mode = "take" /\ role = "dev" /\ ~f.ok))
  BY <1>1 DEF Astray
<1>3. /\ Access("scl0") /\ F(w)'.ok = f.ok
      /\ F(w)'.seg = After(f) /\ F(w)'.i = 0 /\ F(w)'.step = 1
  BY AckSteps DEF To
<1>4. f \in FrameType /\ f.seg \in Segs(f.op) /\ F(w)'.op = f.op
  BY AnySteps DEF Moves, SameCall
<1>5. Torn(w)'
  BY SameTorn
<1>6. scl' = 0 /\ SlaveFall
  BY <1>2, <1>3, Falls
<1>7. mode = "idle" => UNCHANGED slave
  BY <1>6, FallWaits
<1>8. Quiet'
  <2>1. CASE mode = "idle"
    BY <1>7, <2>1 DEF Quiet, slave
  <2>2. CASE mode = "take" /\ role = "dev" /\ count < Width
    <3>1. UNCHANGED slave
      BY <1>6, <2>2, FallWaits
    <3>2. QED BY <2>2, <3>1 DEF Quiet, slave
  <2>3. CASE mode = "take" /\ role = "dev" /\ count = Width
    BY <1>6, <2>3, FallAnswers DEF Quiet
  <2>4. QED BY <1>2, <2>1, <2>2, <2>3 DEF TypeOK
<1>9. F(w)'.seg \in {"reg", "val", "restart", "data", "stop"}
  BY <1>3, <1>4, Follows DEF Bytes
<1>10. CASE F(w)'.seg \in {"restart", "stop"}
  <2>1. Starting(w)' /\ Stopping(w)' /\ (F(w)'.seg = "restart" => AtReg(w)')
    BY <1>3, <1>5, <1>8, <1>10 DEF Starting, Stopping, AtReg
  <2>2. QED BY <1>5, <1>10, <2>1 DEF Shape, Bytes
<1>11. CASE F(w)'.seg \in {"reg", "val", "data"}
  <2>1. f.ok
    BY <1>3, <1>4, <1>11, Follows DEF Bytes
  <2>2. mode' = "idle" /\ ~pull'
    BY <1>2, <1>7, <2>1 DEF slave
  <2>3. F(w)'.seg # "data" => Astray(w)'
    BY <1>3, <1>6, <2>2 DEF Astray
  <2>4. AstrayData(w)'
    BY <1>6, <2>2 DEF AstrayData
  <2>5. QED BY <1>5, <1>11, <2>3, <2>4 DEF Shape, Sending, Receiving, Bytes
<1>12. QED BY <1>9, <1>10, <1>11

-----------------------------------------------------------------------------
(***************************************************************************)
(* i2c_read.                                                               *)
(***************************************************************************)

\* The next bit of the register, behind those that have been read.
LEMMA NextReceived ==
  ASSUME NEW f \in FrameType, NEW h, NEW n \in 1 .. Width, Received(f, n - 1),
         h.got = Shifted(f.got, f.reg[n]), h.reg = f.reg
  PROVE  Received(h, n)
<1>. Width \in Nat
  BY CallAssumption
<1>1. SUFFICES ASSUME NEW j \in 1 .. n PROVE h.got[Width - n + j] = f.reg[j]
  BY DEF Received
<1>2. Width - n + j \in 1 .. Width
  OBVIOUS
<1>3. h.got[Width - n + j]
        = IF Width - n + j < Width THEN f.got[Width - n + j + 1] ELSE f.reg[n]
  BY <1>2 DEF Shifted
<1>4. CASE j = n
  <2>1. ~(Width - n + j < Width)
    BY <1>4
  <2>2. QED BY <1>3, <1>4, <2>1
<1>5. CASE j # n
  <2>1. j \in 1 .. n - 1 /\ Width - n + j < Width
    BY <1>5
  <2>2. f.got[Width - (n - 1) + j] = f.reg[j]
    BY <2>1 DEF Received
  <2>3. Width - (n - 1) + j = Width - n + j + 1
    BY <2>1
  <2>4. QED BY <1>3, <2>1, <2>2, <2>3
<1>6. QED BY <1>4, <1>5

LEMMA AllReceived ==
  ASSUME NEW f \in FrameType, Received(f, Width)
  PROVE  f.got = f.reg
<1>. Width \in Nat
  BY CallAssumption
<1>1. ASSUME NEW j \in 1 .. Width PROVE f.got[j] = f.reg[j]
  <2>1. f.got[Width - Width + j] = f.reg[j]
    BY DEF Received
  <2>2. Width - Width + j = j
    OBVIOUS
  <2>3. QED BY <2>1, <2>2
<1>2. QED BY <1>1 DEF FrameType, Byte

LEMMA DataInStep ==
  ASSUME NEW w \in Who, TypeOK, Moves(w), F(w).seg = "data", InData(w), AtReg(w),
         ~F(w).ok /\ ~Torn(w) => refused[w]
  PROVE  Shape(w)'
<1>. DEFINE f == F(w)
<1>. Width \in Nat \ {0}
  BY CallAssumption
<1>1. /\ f.i = 0 =>
           /\ scl = 0 /\ mode = "send" /\ count = 1 /\ pull = (ptr[1] = 0)
           /\ f.step = 2 => ~dirOut
      /\ f.i \in 1 .. Width =>
           /\ scl = (IF f.step = 1 THEN 0 ELSE 1) /\ ~dirOut
           /\ mode = "send" /\ count = f.i /\ pull = (ptr[f.i] = 0)
      /\ f.i = Width + 1 =>
           /\ scl = (IF f.step = 5 THEN 1 ELSE 0)
           /\ mode \in {"send", "sent", "idle"}
      /\ ~Torn(w) =>
           /\ f.i \in 1 .. Width => Received(f, IF f.step = 3 THEN f.i ELSE f.i - 1)
           /\ f.i = Width + 1 => f.got = f.reg
  BY DEF InData
<1>2. F(w)'.ok = f.ok /\ f.ok
  BY DataSteps
<1>3. /\ F(w)'.op = f.op /\ F(w)'.reg = f.reg /\ SameCall(w)
      /\ f \in FrameType /\ F(w)' \in FrameType /\ f.op = "read"
  BY AnySteps DEF SameCall, Moves, Segs, FrameType
<1>4. Torn(w)' = Torn(w)
  BY SameTorn
<1>5. ASSUME F(w)'.seg = "data", InData(w)', ptr' = ptr PROVE Shape(w)'
  <2>1. AtReg(w)'
    BY <1>2, <1>3, <1>5, SameReg
  <2>2. QED BY <1>2, <1>5, <2>1 DEF Shape, Receiving, Bytes
<1>6. CASE f.i = 0
  <2>1. CASE f.step = 1
    <3>1. Access("in") /\ To(w, "data", 0, 2)
      BY <1>6, <2>1, DataSteps
    <3>2. scl' = scl /\ dirOut' = FALSE
      BY <3>1, Puts
    <3>3. scl = 0
      BY <1>1, <1>6
    <3>4. UNCHANGED slave
      BY <3>1, <3>3, Changes
    <3>5. InData(w)'
      BY <1>1, <1>6, <3>1, <3>2, <3>3, <3>4 DEF InData, To, slave
    <3>6. QED BY <1>5, <3>1, <3>4, <3>5 DEF To, slave
  <2>2. CASE f.step = 2
    <3>1. Access("scl0") /\ To(w, "data", 1, 1)
      BY <1>6, <2>2, DataSteps
    <3>2. scl' = 0 /\ ~dirOut' /\ UNCHANGED slave
      BY <1>1, <1>6, <2>2, <3>1, Falls
    <3>3. Received(F(w)', 0)
      BY DEF Received
    <3>4. InData(w)'
      BY <1>1, <1>6, <3>1, <3>2, <3>3 DEF InData, To, slave
    <3>5. QED BY <1>5, <3>1, <3>2, <3>4 DEF To, slave
  <2>3. QED BY <1>6, <2>1, <2>2, DataSteps
<1>7. CASE f.i \in 1 .. Width
  <2>1. scl = (IF f.step = 1 THEN 0 ELSE 1) /\ ~dirOut /\ mode = "send" /\ count = f.i
        /\ pull = (ptr[f.i] = 0)
    BY <1>1, <1>7
  <2>2. CASE f.step = 1
    <3>1. Access("scl1") /\ To(w, "data", f.i, 2) /\ F(w)'.got = f.got
      BY <1>7, <2>2, DataSteps
    <3>2. scl' = 1 /\ ~dirOut' /\ SlaveRise(SDA) /\ SDA \in {0, 1}
      BY <2>1, <2>2, <3>1, Rises, SDAType
    <3>3. UNCHANGED slave
      BY <2>1, <3>2, RiseWaits
    <3>4. ~Torn(w) => Received(F(w)', f.i - 1)
      BY <1>1, <1>3, <1>7, <2>2, <3>1 DEF Received
    <3>5. InData(w)'
      BY <1>4, <1>7, <2>1, <3>1, <3>2, <3>3, <3>4 DEF InData, To, slave
    <3>6. QED BY <1>5, <3>1, <3>3, <3>5 DEF To, slave
  <2>3. CASE f.step = 2
    <3>1. Access("bit") /\ To(w, "data", f.i, 3) /\ F(w)'.got = Shifted(f.got, SDA)
      BY <1>7, <2>3, DataSteps
    <3>2. UNCHANGED pins /\ UNCHANGED slave
      BY <3>1, Reads
    <3>3. SDA = ptr[f.i]
      <4>1. ptr[f.i] \in {0, 1}
        BY <1>7 DEF TypeOK, Byte
      <4>2. QED BY <2>1, <4>1 DEF SDA, Line
    <3>4. ASSUME ~Torn(w) PROVE Received(F(w)', f.i)
      <4>1. ptr = f.reg
        BY <1>2, <1>3, <3>4 DEF AtReg
      <4>2. F(w)'.got = Shifted(f.got, f.reg[f.i])
        BY <3>1, <3>3, <4>1
      <4>3. Received(f, f.i - 1)
        BY <1>1, <1>7, <2>3, <3>4
      <4>4. QED BY <1>3, <1>7, <4>2, <4>3, NextReceived
    <3>5. InData(w)'
      BY <1>4, <1>7, <2>1, <2>3, <3>1, <3>2, <3>4 DEF InData, To, slave, pins
    <3>6. QED BY <1>5, <3>1, <3>2, <3>5 DEF To, slave
  <2>4. CASE f.step = 3
    <3>1. Access("scl0") /\ To(w, "data", f.i + 1, 1) /\ F(w)'.got = f.got
      BY <1>7, <2>4, DataSteps
    <3>2. scl' = 0 /\ ~dirOut' /\ SlaveFall
      BY <2>1, <2>4, <3>1, Falls
    <3>3. /\ ptr' = ptr /\ mode' \in {"send", "sent"}
          /\ f.i < Width => mode' = "send" /\ count' = f.i + 1 /\ pull' = (ptr[f.i + 1] = 0)
      BY <2>1, <3>2, FallSends
    <3>4. ~Torn(w) => Received(f, f.i)
      BY <1>1, <1>7, <2>4
    <3>5. ~Torn(w) => Received(F(w)', f.i)
      BY <1>3, <3>1, <3>4 DEF Received
    <3>6. CASE f.i < Width
      <4>1. F(w)'.i \in 1 .. Width /\ F(w)'.i = f.i + 1 /\ F(w)'.i - 1 = f.i /\ F(w)'.step = 1
        BY <1>7, <3>1, <3>6 DEF To
      <4>2. InData(w)'
        BY <1>4, <3>2, <3>3, <3>5, <3>6, <4>1 DEF InData
      <4>3. QED BY <1>5, <3>1, <3>3, <4>2 DEF To
    <3>7. CASE f.i = Width
      <4>1. F(w)'.i = Width + 1 /\ F(w)'.step = 1
        BY <3>1, <3>7 DEF To
      <4>2. ~Torn(w) => F(w)'.got = F(w)'.reg
        BY <1>3, <3>5, <3>7, AllReceived
      <4>3. InData(w)'
        BY <1>4, <3>2, <3>3, <4>1, <4>2 DEF InData
      <4>4. QED BY <1>5, <3>1, <3>3, <4>3 DEF To
    <3>8. QED BY <1>7, <3>6, <3>7
  <2>5. QED BY <1>7, <2>2, <2>3, <2>4, DataSteps
<1>8. CASE f.i = Width + 1
  <2>1. /\ scl = (IF f.step = 5 THEN 1 ELSE 0) /\ mode \in {"send", "sent", "idle"}
        /\ ~Torn(w) => f.got = f.reg
    BY <1>1, <1>8
  <2>2. f.step \in 1 .. 6 /\ F(w)'.got = f.got
    BY <1>8, DataSteps
  <2>3. ASSUME f.step # 6, scl' = (IF f.step = 4 THEN 1 ELSE 0),
               mode' \in {"send", "sent", "idle"}, ptr' = ptr
        PROVE  Shape(w)'
    <3>1. To(w, "data", Width + 1, f.step + 1)
      BY <1>8, <2>2, <2>3, DataSteps
    <3>2. F(w)'.step = 5 <=> f.step = 4
      BY <2>2, <3>1 DEF To
    <3>3. InData(w)'
      BY <1>3, <1>4, <2>1, <2>2, <2>3, <3>1, <3>2 DEF InData, To
    <3>4. QED BY <1>5, <2>3, <3>1, <3>3 DEF To
  <2>4. CASE f.step = 1
    <3>1. Access("scl0")
      BY <1>8, <2>4, DataSteps
    <3>2. scl' = 0 /\ UNCHANGED slave
      BY <2>1, <2>4, <3>1, Falls
    <3>3. QED BY <2>1, <2>3, <2>4, <3>2 DEF slave
  <2>5. CASE f.step \in {2, 3}
    <3>1. PICK a \in {"out", "sda1"} : Access(a)
      BY <1>8, <2>5, DataSteps
    <3>2. scl = 0
      BY <2>1, <2>5
    <3>3. scl' = scl
      BY <3>1, Puts
    <3>4. UNCHANGED slave
      BY <3>1, <3>2, Changes
    <3>5. QED BY <2>1, <2>3, <2>5, <3>2, <3>3, <3>4 DEF slave
  <2>6. CASE f.step = 4
    <3>1. Access("scl1")
      BY <1>8, <2>6, DataSteps
    <3>2. scl' = 1 /\ SlaveRise(SDA) /\ SDA \in {0, 1}
      BY <2>1, <2>6, <3>1, Rises, SDAType
    <3>3. mode' \in {"send", "sent", "idle"} /\ ptr' = ptr
      BY <2>1, <3>2, RiseWaits DEF slave
    <3>4. QED BY <2>3, <2>6, <3>2, <3>3
  <2>7. CASE f.step = 5
    <3>1. Access("scl0")
      BY <1>8, <2>7, DataSteps
    <3>2. scl' = 0 /\ SlaveFall
      BY <2>1, <2>7, <3>1, Falls
    <3>3. mode' \in {"send", "sent", "idle"} /\ ptr' = ptr
      BY <2>1, <3>2, FallWaits, FallSends DEF slave
    <3>4. QED BY <2>3, <2>7, <3>2, <3>3
  <2>8. CASE f.step = 6
    <3>1. Access("sda0") /\ To(w, "stop", 0, 1)
      BY <1>8, <2>8, DataSteps
    <3>2. UNCHANGED slave
      BY <2>1, <2>8, <3>1, Changes
    <3>3. Stopping(w)'
      BY <2>1, <3>1, <3>2 DEF Stopping, Quiet, To, slave
    <3>4. (~Torn(w) => Truthful(F(w), w))'
      BY <1>2, <1>3, <1>4, <2>1, <2>2 DEF Truthful, Content
    <3>5. QED BY <1>2, <3>1, <3>3, <3>4 DEF Shape, To, Bytes
  <2>9. QED BY <2>2, <2>4, <2>5, <2>6, <2>7, <2>8
<1>9. QED BY <1>3, <1>6, <1>7, <1>8, DataSteps

\* Out of step: the device is deaf, but the last fall of SDA may be a START to it.
LEMMA DataAstray ==
  ASSUME NEW w \in Who, TypeOK, Moves(w), F(w).seg = "data", AstrayData(w), Torn(w)
  PROVE  Shape(w)'
<1>. DEFINE f == F(w)
<1>. Width \in Nat \ {0}
  BY CallAssumption
<1>1. /\ mode = "idle" /\ ~pull
      /\ (f.i = 0 /\ f.step = 1) \/ (f.i = Width + 1 /\ f.step \in {2, 3, 6}) => scl = 0 \/ Free
  BY DEF AstrayData
<1>2. F(w)'.ok /\ Torn(w)'
  BY DataSteps, SameTorn
<1>3. ASSUME NEW n, NEW k, To(w, "data", n, k), UNCHANGED slave,
             (n = 0 /\ k = 1) \/ (n = Width + 1 /\ k \in {2, 3, 6}) => scl' = 0 \/ Free'
      PROVE  Shape(w)'
  <2>1. mode' = "idle" /\ ~pull'
    BY <1>1, <1>3 DEF slave
  <2>2. AstrayData(w)'
    BY <1>3, <2>1 DEF AstrayData, To
  <2>3. QED BY <1>2, <1>3, <2>2 DEF Shape, Receiving, Bytes, To
<1>4. ASSUME Access("scl0") PROVE scl' = 0 /\ UNCHANGED slave
  <2>1. scl' = 0 /\ (scl = 1 => SlaveFall) /\ (scl = 0 => UNCHANGED slave)
    BY <1>4, Falls
  <2>2. SlaveFall => UNCHANGED slave
    BY <1>1, FallWaits
  <2>3. QED BY <2>1, <2>2 DEF TypeOK
<1>5. ASSUME Access("scl1") PROVE UNCHANGED slave
  <2>1. (scl = 0 => SlaveRise(SDA)) /\ (scl = 1 => UNCHANGED slave) /\ SDA \in {0, 1}
    BY <1>5, Rises, SDAType
  <2>2. SlaveRise(SDA) => UNCHANGED slave
    <3>1. SUFFICES ASSUME SlaveRise(SDA) PROVE UNCHANGED slave
      OBVIOUS
    <3>2. QED BY <1>1, <2>1, <3>1, RiseWaits
  <2>3. QED BY <2>1, <2>2 DEF TypeOK
<1>6. ASSUME NEW a \in {"out", "sda1"}, Access(a), scl = 0 \/ Free
      PROVE  UNCHANGED slave /\ (scl' = 0 \/ Free')
  <2>1. CASE scl = 0
    <3>1. scl' = scl
      BY <1>6, Puts
    <3>2. UNCHANGED slave
      BY <1>6, <2>1, Changes
    <3>3. QED BY <2>1, <3>1, <3>2
  <2>2. CASE Free
    BY <1>6, <2>2, FreeStays
  <2>3. QED BY <1>6, <2>1, <2>2
<1>7. CASE f.i = 0 /\ f.step = 1
  <2>1. Access("in") /\ To(w, "data", 0, 2)
    BY <1>7, DataSteps
  <2>2. UNCHANGED slave
    <3>1. CASE scl = 0
      BY <2>1, <3>1, Changes
    <3>2. CASE Free
      <4>1. dirOut' = FALSE
        BY <2>1, Puts
      <4>2. SDA = 1 /\ Line(dirOut', sdaOut', pull) = 1
        BY <1>1, <3>2, <4>1 DEF Free, Rest, Line
      <4>3. QED BY <2>1, <4>2, Changes
    <3>3. QED BY <1>1, <1>7, <3>1, <3>2
  <2>3. QED BY <1>3, <2>1, <2>2
<1>8. CASE f.i = 0 /\ f.step = 2
  <2>1. Access("scl0") /\ To(w, "data", 1, 1)
    BY <1>8, DataSteps
  <2>2. QED BY <1>3, <1>4, <2>1
<1>9. CASE f.i \in 1 .. Width /\ f.step = 1
  <2>1. Access("scl1") /\ To(w, "data", f.i, 2)
    BY <1>9, DataSteps
  <2>2. ~(f.i = 0) /\ f.i # Width + 1
    BY <1>9
  <2>3. QED BY <1>3, <1>5, <2>1, <2>2
<1>10. CASE f.i \in 1 .. Width /\ f.step = 2
  <2>1. Access("bit") /\ To(w, "data", f.i, 3)
    BY <1>10, DataSteps
  <2>2. f.i # 0 /\ f.i # Width + 1 /\ UNCHANGED slave
    BY <1>10, <2>1, Reads
  <2>3. QED BY <1>3, <2>1, <2>2
<1>11. CASE f.i \in 1 .. Width /\ f.step = 3
  <2>1. Access("scl0") /\ To(w, "data", f.i + 1, 1)
    BY <1>11, DataSteps
  <2>2. QED BY <1>3, <1>4, <2>1
<1>12. CASE f.i = Width + 1 /\ f.step = 1
  <2>1. Access("scl0") /\ To(w, "data", Width + 1, 2)
    BY <1>12, DataSteps
  <2>2. QED BY <1>3, <1>4, <2>1
<1>13. CASE f.i = Width + 1 /\ f.step = 2
  <2>1. Access("out") /\ To(w, "data", Width + 1, 3)
    BY <1>13, DataSteps
  <2>2. scl = 0 \/ Free
    BY <1>1, <1>13
  <2>3. QED BY <1>3, <1>6, <2>1, <2>2
<1>14. CASE f.i = Width + 1 /\ f.step = 3
  <2>1. Access("sda1") /\ To(w, "data", Width + 1, 4)
    BY <1>14, DataSteps
  <2>2. scl = 0 \/ Free
    BY <1>1, <1>14
  <2>3. QED BY <1>3, <1>6, <2>1, <2>2
<1>15. CASE f.i = Width + 1 /\ f.step = 4
  <2>1. Access("scl1") /\ To(w, "data", Width + 1, 5)
    BY <1>15, DataSteps
  <2>2. UNCHANGED slave
    BY <1>5, <2>1
  <2>3. QED BY <1>3, <2>1, <2>2
<1>16. CASE f.i = Width + 1 /\ f.step = 5
  <2>1. Access("scl0") /\ To(w, "data", Width + 1, 6)
    BY <1>16, DataSteps
  <2>2. QED BY <1>3, <1>4, <2>1
<1>17. CASE f.i = Width + 1 /\ f.step = 6
  <2>1. Access("sda0") /\ To(w, "stop", 0, 1)
    BY <1>17, DataSteps
  <2>2. Quiet
    BY <1>1 DEF Quiet
  <2>3. Quiet'
    BY <2>1, <2>2, TurnsQuiet
  <2>4. Stopping(w)'
    BY <2>1, <2>3 DEF Stopping, To
  <2>5. QED BY <1>2, <2>1, <2>4 DEF Shape, To, Bytes
<1>18. QED BY <1>7, <1>8, <1>9, <1>10, <1>11, <1>12, <1>13, <1>14, <1>15, <1>16, <1>17, DataSteps

-----------------------------------------------------------------------------
(***************************************************************************)
(* Any access.                                                             *)
(***************************************************************************)
LEMMA ByteShape ==
  ASSUME NEW w \in Who, TypeOK, Moves(w), F(w).seg \in Bytes, Shape(w)
  PROVE  Shape(w)'
<1>. DEFINE f == F(w)
<1>. Width \in Nat \ {0}
  BY CallAssumption
<1>1. Sending(w) /\ (~f.ok /\ ~Torn(w) => refused[w]) /\ f.i \in 0 .. Width + 1
  BY AnySteps DEF Shape
<1>2. ASSUME F(w)'.seg \in Bytes, Sending(w)', (~F(w).ok /\ ~Torn(w) => refused[w])'
      PROVE  Shape(w)'
  BY <1>2 DEF Shape, Bytes
<1>3. SameCall(w) /\ Torn(w)' = Torn(w)
  BY AnySteps, SameTorn
<1>4. CASE f.i # Width + 1
  <2>1. F(w)'.seg = f.seg /\ F(w)'.ok = f.ok
    BY <1>4, BitSteps DEF To
  <2>2. (~F(w).ok /\ ~Torn(w) => refused[w])'
    BY <1>1, <2>1, RefusedKept
  <2>3. CASE InByte(w) /\ AtReg(w)
    <3>1. InByte(w)' /\ ptr' = ptr
      BY <1>4, <2>3, LoopInByte
    <3>2. AtReg(w)'
      BY <1>3, <2>1, <2>3, <3>1, SameReg
    <3>3. QED BY <1>2, <2>1, <2>2, <3>1, <3>2 DEF Sending
  <2>4. CASE Torn(w) /\ Astray(w)
    <3>1. Astray(w)'
      BY <1>4, <2>4, LoopAstray
    <3>2. QED BY <1>2, <1>3, <2>1, <2>2, <2>4, <3>1 DEF Sending
  <2>5. QED BY <1>1, <2>3, <2>4 DEF Sending
<1>5. CASE f.i = Width + 1 /\ f.step # 4
  <2>1. F(w)'.seg = f.seg
    BY <1>5, AckSteps DEF To
  <2>2. CASE InByte(w) /\ AtReg(w)
    <3>1. InByte(w)' /\ AtReg(w)' /\ (~F(w).ok => refused[w])'
      BY <1>5, <2>2, AckInByte
    <3>2. QED BY <1>2, <2>1, <3>1 DEF Sending
  <2>3. CASE Torn(w) /\ Astray(w)
    <3>1. Astray(w)'
      BY <1>5, <2>3, AckAstray
    <3>2. QED BY <1>2, <1>3, <2>1, <2>3, <3>1 DEF Sending
  <2>4. QED BY <1>1, <2>2, <2>3 DEF Sending
<1>6. CASE f.i = Width + 1 /\ f.step = 4
  <2>1. CASE InByte(w) /\ AtReg(w)
    BY <1>1, <1>6, <2>1, BehindInByte
  <2>2. CASE Torn(w) /\ Astray(w)
    BY <1>6, <2>2, BehindAstray
  <2>3. QED BY <1>1, <2>1, <2>2 DEF Sending
<1>7. QED BY <1>4, <1>5, <1>6

\* The frame that moves keeps to its shape.
LEMMA MoveShape ==
  ASSUME NEW w \in Who, TypeOK, Moves(w), Shape(w)
  PROVE  Shape(w)'
<1>1. F(w).seg \in {"start", "restart", "stop", "data"} \union Bytes
  BY DEF Moves, FrameType, Segment, Bytes
<1>2. CASE F(w).seg \in {"start", "restart"}
  BY <1>2, StartShape
<1>3. CASE F(w).seg = "stop"
  BY <1>3, StopShape
<1>4. CASE F(w).seg \in Bytes
  BY <1>4, ByteShape
<1>5. CASE F(w).seg = "data"
  <2>1. Receiving(w) /\ (~F(w).ok /\ ~Torn(w) => refused[w])
    BY <1>5 DEF Shape
  <2>2. CASE InData(w) /\ AtReg(w)
    BY <1>5, <2>1, <2>2, DataInStep
  <2>3. CASE Torn(w) /\ AstrayData(w)
    BY <1>5, <2>3, DataAstray
  <2>4. QED BY <2>1, <2>2, <2>3 DEF Receiving
<1>6. QED BY <1>1, <1>2, <1>3, <1>4, <1>5

-----------------------------------------------------------------------------
(***************************************************************************)
(* The accesses of the two callers keep the invariant.                     *)
(***************************************************************************)
LEMMA FrameIsNone ==
  ASSUME NEW f \in FrameType
  PROVE  f # NoFrame
BY DEF FrameType, NoFrame

LEMMA MainMoves ==
  ASSUME IInv, MainAccess
  PROVE  Moves("main") /\ Shape("main") /\ main \in FrameType /\ "main" \in Who
<1>1. main \in FrameType /\ PlaceOK(main) /\ Shape("main") /\ main.seg # "done"
  BY DEF IInv, TypeOK, MainAccess, Active, Placed, Runs, Who, F
<1>2. QED BY <1>1 DEF Moves, MainAccess, F, Who

LEMMA HandlerMoves ==
  ASSUME IInv, HandlerAccess
  PROVE  Moves("handler") /\ Shape("handler") /\ handler \in FrameType /\ "handler" \in Who
<1>1. /\ handler \in FrameType /\ PlaceOK(handler) /\ Shape("handler")
      /\ handler.seg # "done"
  BY DEF IInv, TypeOK, HandlerAccess, Active, Placed, Runs, Who, F
<1>2. QED BY <1>1 DEF Moves, HandlerAccess, F, Who

\* A value that the main loop takes for acknowledged has been stored.
LEMMA MainKeeps ==
  ASSUME IInv, MainAccess
  PROVE  Kept'
<1>1. /\ Moves("main") /\ Shape("main") /\ main \in FrameType /\ "main" \in Who /\ F("main") = main
      /\ F("main")' = main' /\ TypeOK /\ Kept
  BY MainMoves DEF IInv, F
<1>2. /\ main' \in FrameType /\ SameCall("main") /\ Grows /\ main.seg \in Segs(main.op)
      /\ AckRead(main) \/ main.ok \/ main.seg \in {"restart", "stop"}
  BY <1>1, AnySteps
<1>3. main'.op = main.op /\ main'.reg = main.reg /\ main'.val = main.val
  BY <1>1, <1>2 DEF SameCall
<1>4. Shape("main")'
  BY <1>1, MoveShape
<1>5. (Done(main) /\ ~torn => Truthful(main, "main"))'
  BY <1>4 DEF Shape, Done, Torn, F
<1>6. main # NoFrame
  BY <1>1, FrameIsNone
<1>7. SUFFICES ASSUME main'.op = "write", main'.ok,
                      \/ main'.seg \in {"stop", "done"}
                      \/ main'.seg = "val" /\ AckRead(main')
               PROVE  <<main'.reg, main'.val>> \in log'["main"]
  BY <1>5 DEF Kept
<1>8. CASE \/ main.ok /\ main.seg = "stop"
           \/ main.ok /\ main.seg = "val" /\ AckRead(main)
  <2>1. <<main.reg, main.val>> \in log["main"]
    BY <1>1, <1>3, <1>6, <1>7, <1>8 DEF Kept
  <2>2. QED BY <1>1, <1>2, <1>3, <2>1 DEF Grows
<1>9. CASE main.seg = "start"
  <2>1. main'.seg = "start" \/ (main'.seg = After(main) /\ main.ok)
    BY <1>1, <1>2, <1>9, StartSteps DEF To, AckRead, Bytes
  <2>2. main.ok => After(main) = "dev"
    BY <1>1, <1>2, <1>9, Follows
  <2>3. QED BY <1>7, <2>1, <2>2
<1>10. CASE main.seg = "stop"
  <2>1. main'.ok = main.ok
    BY <1>1, <1>10, StopSteps
  <2>2. QED BY <1>7, <1>8, <1>10, <2>1
<1>11. CASE main.seg \in Bytes /\ main.i # Width + 1
  <2>1. main'.seg = main.seg /\ main.i \in 0 .. Width /\ (main'.i = Width + 1 => main'.step = 1)
    BY <1>1, <1>11, BitSteps, CallAssumption DEF To
  <2>2. QED BY <1>7, <1>11, <2>1 DEF AckRead, Bytes
<1>12. CASE main.seg \in Bytes /\ main.i = Width + 1 /\ main.step = 4
  <2>1. main'.ok = main.ok /\ main'.seg = After(main) /\ main'.i = 0
    BY <1>1, <1>12, AckSteps DEF To
  <2>2. main.seg \in {"dev", "reg", "val"}
    BY <1>2, <1>3, <1>7, <1>12 DEF Segs, Bytes
  <2>3. main.seg # "val" => After(main) \in {"reg", "val"}
    BY <1>1, <1>2, <1>3, <1>7, <2>1, <2>2, Follows
  <2>4. main.seg = "val"
    BY <1>7, <2>1, <2>3, CallAssumption DEF AckRead
  <2>5. QED BY <1>7, <1>8, <1>12, <2>1, <2>4 DEF AckRead
<1>13. CASE main.seg \in Bytes /\ main.i = Width + 1 /\ main.step # 4
  <2>1. main'.seg = main.seg /\ main'.i = Width + 1 /\ (main'.step = 4 => main.step = 3)
    BY <1>1, <1>13, AckSteps DEF To
  <2>2. main.seg = "val" /\ main'.step = 4 /\ main.step = 3
    BY <1>7, <1>13, <2>1 DEF AckRead, Bytes
  <2>3. main'.ok = (SDA = 0)
    BY <1>1, <1>13, <2>2, AckSteps
  <2>4. CASE InByte("main") /\ AtReg("main")
    <3>1. InByte("main")'
      BY <1>1, <1>13, <2>4, AckInByte
    <3>2. RoleOf(main'.seg) = "val"
      BY <2>1, <2>2 DEF RoleOf
    <3>3. QED BY <1>1, <1>7, <2>1, <2>2, <3>1, <3>2, CallAssumption DEF InByte
  <2>5. CASE Astray("main")
    <3>1. F("main").i = Width + 1 => (F("main").step = 3 => SDA = 1)
      BY <2>5 DEF Astray
    <3>2. QED BY <1>1, <1>7, <1>13, <2>2, <2>3, <3>1
  <2>6. QED BY <1>1, <1>13, <2>4, <2>5 DEF Shape, Sending
<1>14. QED
  <2>1. main.seg \in {"start", "dev", "reg", "val", "stop", "done"}
    BY <1>2, <1>3, <1>7 DEF Segs
  <2>2. main.seg # "done"
    BY <1>1 DEF Moves
  <2>3. QED BY <2>1, <2>2, <1>9, <1>10, <1>11, <1>12, <1>13 DEF Bytes

LEMMA MainAccessInv ==
  ASSUME IInv, MainAccess
  PROVE  IInv'
<1>. DEFINE a == Accesses(main)[main.step]
<1>1. /\ Moves("main") /\ Shape("main") /\ main \in FrameType /\ "main" \in Who /\ F("main") = main
      /\ F("main")' = main' /\ TypeOK
  BY MainMoves DEF IInv, F
<1>2. Access(a) /\ handler = NoFrame /\ handler' = handler /\ torn' = torn /\ device' = device
  BY DEF MainAccess
<1>3. main' \in FrameType /\ PlaceOK(main')
  BY <1>1, AnySteps
<1>4. main' # NoFrame
  BY <1>3, FrameIsNone
<1>5. scl' \in {0, 1} /\ dirOut' \in BOOLEAN /\ sdaOut' \in {0, 1} /\ DeviceOK'
  BY <1>1, <1>2, AccessTypes
<1>6. TypeOK'
  BY <1>1, <1>2, <1>3, <1>5 DEF TypeOK, DeviceOK
<1>7. Placed'
  BY <1>2, <1>3 DEF Placed, Who, F
<1>8. Shape("main")'
  BY <1>1, MoveShape
<1>9. Interrupted' /\ Kept'
  BY <1>2, MainKeeps DEF Interrupted
<1>10. \A w \in Who : (Runs(w) => Shape(w))'
  BY <1>2, <1>8 DEF Runs, Who, F
<1>11. QED BY <1>4, <1>6, <1>7, <1>9, <1>10 DEF IInv

LEMMA HandlerAccessInv ==
  ASSUME IInv, HandlerAccess
  PROVE  IInv'
<1>. DEFINE a == Accesses(handler)[handler.step]
<1>1. /\ F("handler") = handler /\ F("handler")' = handler' /\ TypeOK /\ "handler" \in Who
      /\ handler \in FrameType /\ Moves("handler") /\ Shape("handler")
  BY HandlerMoves DEF IInv, F
<1>2. Access(a) /\ main' = main /\ torn' = torn /\ device' = device
  BY DEF HandlerAccess
<1>3. handler' \in FrameType /\ PlaceOK(handler') /\ Grows
  BY <1>1, AnySteps
<1>4. handler' # NoFrame /\ handler # NoFrame
  BY <1>1, <1>3, FrameIsNone
<1>5. scl' \in {0, 1} /\ dirOut' \in BOOLEAN /\ sdaOut' \in {0, 1} /\ DeviceOK'
  BY <1>1, <1>2, AccessTypes
<1>6. TypeOK'
  BY <1>1, <1>2, <1>3, <1>5 DEF TypeOK, DeviceOK
<1>7. Placed'
  <2>1. main # NoFrame => PlaceOK(main)
    BY DEF IInv, Placed, Who, F
  <2>2. main' # NoFrame => PlaceOK(main')
    BY <1>2, <2>1
  <2>3. QED BY <1>3, <2>2 DEF Placed, Who, F
<1>8. Shape("handler")'
  BY <1>1, MoveShape
<1>9. Kept'
  <2>1. log["main"] \subseteq log'["main"] /\ (refused["main"] => refused'["main"])
    BY <1>3 DEF Grows, Who
  <2>2. Truthful(main, "main") => Truthful(main, "main")'
    BY <1>2, <2>1 DEF Truthful, Content
  <2>3. AckRead(main)' = AckRead(main)
    BY <1>2 DEF AckRead
  <2>4. QED BY <1>2, <2>1, <2>2, <2>3 DEF IInv, Kept, Done
<1>10. Interrupted'
  BY <1>2, <1>4 DEF IInv, Interrupted, Active
<1>11. \A w \in Who : (Runs(w) => Shape(w))'
  BY <1>4, <1>8 DEF Runs, Who, F
<1>12. QED BY <1>4, <1>6, <1>7, <1>9, <1>10, <1>11 DEF IInv

-----------------------------------------------------------------------------
(***************************************************************************)
(* The calls and the returns.                                              *)
(***************************************************************************)
LEMMA FramePlaced ==
  ASSUME NEW c \in MainCalls \union HandlerCalls
  PROVE  /\ Frame(c) \in FrameType /\ PlaceOK(Frame(c)) /\ Frame(c) # NoFrame
         /\ Frame(c).seg = "start" /\ Frame(c).i = 0 /\ Frame(c).step = 1 /\ Frame(c).ok
<1>. Width \in Nat \ {0}
  BY CallAssumption
<1>1. c \in Call /\ c.dev[Width] = 0
  BY CallAssumption
<1>2. /\ Frame(c) \in FrameType
      /\ Frame(c).seg = "start" /\ Frame(c).i = 0 /\ Frame(c).step = 1 /\ Frame(c).ok
      /\ Frame(c).dev = c.dev
  BY <1>1, ZeroType DEF Frame, FrameType, Call, Segment
<1>. HIDE DEF Frame
<1>3. Last(Frame(c).seg) = 0 /\ Steps(Frame(c)) = 5
  BY <1>2, StartAccesses
<1>4. PlaceOK(Frame(c))
  BY <1>1, <1>2, <1>3 DEF PlaceOK, Segs
<1>5. QED BY <1>2, <1>4, FrameIsNone

LEMMA ForgetType ==
  ASSUME TypeOK, NEW w \in Who, Forget(w)
  PROVE  DeviceOK'
BY DEF TypeOK, Forget, DeviceOK

\* What the handler finds: whatever access of the main loop it comes after.
LEMMA LeftBehind ==
  ASSUME TypeOK, main \in FrameType, PlaceOK(main), Shape("main"),
         scl = 0, mode \in {"take", "ack"}, role = "val", mode = "take" => count = Width - 1
  PROVE  /\ main.op = "write" /\ ptr = main.reg
         /\ mode = "take" => Prefix(main.val)
         /\ mode = "ack" => shift = main.val
<1>. Width \in Nat \ {0, 1}
  BY CallAssumption
<1>1. F("main") = main
  BY DEF F
<1>2. ~Quiet
  <2>1. mode = "take" => count # 0
    OBVIOUS
  <2>2. QED BY <2>1 DEF Quiet
<1>3. ~Rest
  BY DEF Rest
<1>4. main.seg \notin {"start", "restart"}
  <2>1. Starting("main") /\ main.seg \in {"start", "restart"} => FALSE
    <3>1. SUFFICES ASSUME Starting("main"), main.seg \in {"start", "restart"} PROVE FALSE
      OBVIOUS
    <3>2. /\ main.step <= 3 => Quiet
          /\ main.step = 4 => scl = 1
          /\ main.step = 5 => scl = 1
      BY <1>1, <3>1 DEF Starting
    <3>3. main.step \in 1 .. 5
      BY <3>1, StartAccesses DEF PlaceOK
    <3>4. main.step \notin {1, 2, 3, 4, 5}
      BY <1>2, <3>2
    <3>5. QED BY <3>3, <3>4
  <2>2. QED BY <1>1, <2>1 DEF Shape
<1>5. main.seg # "stop"
  <2>1. SUFFICES ASSUME main.seg = "stop" PROVE FALSE
    OBVIOUS
  <2>2. main.step \in 1 .. 4
    BY <2>1, StopAccesses DEF PlaceOK
  <2>3. Stopping("main")
    BY <1>1, <2>1 DEF Shape
  <2>4. (main.step <= 3 => Quiet) /\ (main.step = 4 => scl = 1 \/ Rest)
    BY <1>1, <2>3 DEF Stopping
  <2>5. QED BY <1>2, <1>3, <2>2, <2>4
<1>6. main.seg # "done"
  BY <1>1, <1>3 DEF Shape, Free
<1>7. main.seg # "data"
  <2>1. SUFFICES ASSUME main.seg = "data" PROVE FALSE
    OBVIOUS
  <2>2. main.i \in 0 .. Width + 1
    BY DEF FrameType
  <2>3. InData("main") \/ AstrayData("main")
    BY <1>1, <2>1 DEF Shape, Receiving
  <2>4. mode \in {"send", "sent", "idle"}
    BY <1>1, <2>2, <2>3 DEF InData, AstrayData
  <2>5. QED BY <2>4
<1>8. main.seg \in Bytes
  BY <1>4, <1>5, <1>6, <1>7 DEF FrameType, Segment, Bytes
<1>9. main.i \in 0 .. Width + 1
  BY DEF FrameType
<1>10. ~Astray("main")
  <2>1. Astray("main") => mode = "idle" \/ role = "dev"
    BY <1>1, <1>9 DEF Astray
  <2>2. QED BY <2>1
<1>11. InByte("main") /\ AtReg("main")
  BY <1>1, <1>8, <1>10 DEF Shape, Sending
<1>12. RoleOf(main.seg) = "val" /\ main.i # 0 /\ (mode = "take" => Prefix(ByteOf(main)))
       /\ (mode = "ack" => shift = ByteOf(main))
  BY <1>1, <1>9, <1>11 DEF InByte, Begun
<1>13. main.seg = "val"
  BY <1>8, <1>12 DEF RoleOf, Bytes
<1>14. main.op = "write" /\ ptr = main.reg /\ ByteOf(main) = main.val
  BY <1>1, <1>11, <1>13 DEF PlaceOK, Segs, AtReg, ByteOf, FrameType
<1>15. QED BY <1>12, <1>14

\* What the main loop finds behind the handler: lines at rest, wherever it is.
LEMMA ResumeShape ==
  ASSUME main' \in FrameType, PlaceOK(main)', Free', TypeOK', torn'
  PROVE  Shape("main")'
<1>. Width \in Nat \ {0, 1}
  BY CallAssumption
<1>1. F("main")' = main' /\ Torn("main")'
  BY DEF F, Torn
<1>2. /\ scl' = 1 /\ dirOut' /\ SDA' = 1 /\ sdaOut' = 1 /\ mode' = "idle" /\ ~pull' /\ Rest'
      /\ main'.seg \in Segment
  BY DEF Free, Rest, SDA, Line, FrameType
<1>3. Quiet'
  BY <1>2 DEF Quiet
<1>4. main'.seg \in {"start", "restart"} => Starting("main")' /\ AtReg("main")'
  BY <1>1, <1>2, <1>3 DEF Starting, AtReg
<1>5. main'.seg \in Bytes => Sending("main")'
  <2>1. Astray("main")'
    BY <1>1, <1>2 DEF Astray
  <2>2. QED BY <1>1, <2>1 DEF Sending
<1>6. main'.seg = "data" => Receiving("main")'
  BY <1>1, <1>2 DEF AstrayData, Receiving
<1>7. main'.seg = "stop" => Stopping("main")'
  BY <1>1, <1>2, <1>3 DEF Stopping
<1>8. QED BY <1>1, <1>4, <1>5, <1>6, <1>7 DEF Shape

LEMMA MainCallInv ==
  ASSUME IInv, NEW c \in MainCalls, MainCall(c)
  PROVE  IInv'
<1>1. /\ TypeOK /\ Rest /\ main = NoFrame /\ handler = NoFrame
      /\ main' = Frame(c) /\ torn' = FALSE /\ Forget("main")
      /\ UNCHANGED <<pins, handler, device>>
  BY DEF IInv, MainCall
<1>2. /\ main' \in FrameType /\ PlaceOK(main') /\ main' # NoFrame
      /\ main'.seg = "start" /\ main'.i = 0 /\ main'.step = 1 /\ main'.ok
  BY <1>1, FramePlaced
<1>3. DeviceOK'
  BY <1>1, ForgetType DEF Who
<1>4. TypeOK'
  BY <1>1, <1>2, <1>3 DEF TypeOK, DeviceOK, pins
<1>5. Placed'
  BY <1>1, <1>2 DEF Placed, Who, F
<1>6. Kept' /\ Interrupted'
  BY <1>1, <1>2 DEF Kept, Interrupted, Done
<1>7. Quiet'
  BY <1>1 DEF Rest, Forget, Quiet
<1>8. Shape("main")'
  <2>1. F("main")' = main'
    BY DEF F
  <2>2. Starting("main")' /\ AtReg("main")'
    BY <1>2, <1>7, <2>1 DEF Starting, AtReg
  <2>3. QED BY <1>2, <2>1, <2>2 DEF Shape, Bytes
<1>9. QED BY <1>1, <1>2, <1>4, <1>5, <1>6, <1>8 DEF IInv, Runs, Who, F

LEMMA HandlerCallInv ==
  ASSUME IInv, NEW c \in HandlerCalls, HandlerCall(c)
  PROVE  IInv'
<1>1. /\ TypeOK /\ handler = NoFrame /\ handler' = Frame(c) /\ torn' = (torn \/ Active(main))
      /\ Forget("handler") /\ UNCHANGED <<pins, main, device>>
  BY DEF IInv, HandlerCall
<1>2. /\ handler' \in FrameType /\ PlaceOK(handler') /\ handler' # NoFrame
      /\ handler'.seg = "start" /\ handler'.i = 0 /\ handler'.step = 1 /\ handler'.ok
  BY <1>1, FramePlaced
<1>3. DeviceOK'
  BY <1>1, ForgetType DEF Who
<1>4. TypeOK'
  BY <1>1, <1>2, <1>3 DEF TypeOK, DeviceOK, pins
<1>5. Placed'
  <2>1. main # NoFrame => PlaceOK(main)
    BY DEF IInv, Placed, Who, F
  <2>2. main' # NoFrame => PlaceOK(main')
    BY <1>1, <2>1
  <2>3. QED BY <1>2, <2>2 DEF Placed, Who, F
<1>6. Kept'
  <2>1. log'["main"] = log["main"] /\ refused'["main"] = refused["main"]
    BY <1>1 DEF Forget, TypeOK, Who
  <2>2. Truthful(main, "main") => Truthful(main, "main")'
    BY <1>1, <2>1 DEF Truthful, Content
  <2>3. AckRead(main)' = AckRead(main)
    BY <1>1 DEF AckRead
  <2>4. torn \in BOOLEAN
    BY <1>1 DEF TypeOK
  <2>5. Done(main)' = Done(main) /\ (~torn' => ~torn)
    BY <1>1, <2>4 DEF Done
  <2>6. QED BY <1>1, <2>1, <2>2, <2>3, <2>5 DEF IInv, Kept
<1>7. Interrupted'
  BY <1>1 DEF Interrupted, Active
<1>8. Left'
  <2>1. /\ scl' = scl /\ mode' = mode /\ role' = role /\ shift' = shift /\ count' = count
        /\ ptr' = ptr
    BY <1>1 DEF Forget, pins
  <2>2. SUFFICES ASSUME scl = 0, mode \in {"take", "ack"}, role = "val",
                        mode = "take" => count = Width - 1
                 PROVE  /\ torn' /\ main.op = "write" /\ ptr = main.reg
                        /\ mode = "take" => Prefix(main.val)
                        /\ mode = "ack" => shift = main.val
    BY <1>1, <2>1 DEF Left, Prefix
  <2>3. main # NoFrame
    BY <1>1, <2>2 DEF IInv, Rest
  <2>4. main \in FrameType /\ PlaceOK(main) /\ Shape("main")
    BY <1>1, <2>3 DEF IInv, TypeOK, Placed, Runs, Who, F
  <2>5. Active(main)
    BY <2>2, <2>3, <2>4 DEF Shape, Free, Rest, F, Active
  <2>6. QED BY <1>1, <2>2, <2>4, <2>5, LeftBehind
<1>9. Shape("handler")'
  <2>1. F("handler")' = handler'
    BY DEF F
  <2>2. Starting("handler")' /\ AtReg("handler")'
    BY <1>2, <1>8, <2>1 DEF Starting, AtReg
  <2>3. QED BY <1>2, <2>1, <2>2 DEF Shape, Bytes
<1>10. QED BY <1>2, <1>4, <1>5, <1>6, <1>7, <1>9 DEF IInv, Runs, Who, F

LEMMA MainReturnInv ==
  ASSUME IInv, MainReturn
  PROVE  IInv'
<1>1. /\ TypeOK /\ handler = NoFrame /\ Done(main) /\ main' = NoFrame
      /\ UNCHANGED <<pins, handler, torn, device, slave>>
  BY DEF IInv, MainReturn
<1>2. Free
  BY <1>1 DEF IInv, Runs, Who, F, Shape, Done
<1>3. Rest'
  BY <1>1, <1>2 DEF Free, Rest, SDA, Line, pins, slave
<1>4. TypeOK'
  BY <1>1 DEF TypeOK, pins, slave
<1>5. Placed' /\ Kept' /\ Interrupted'
  BY <1>1 DEF Placed, Kept, Interrupted, Who, F, Done
<1>6. QED BY <1>1, <1>3, <1>4, <1>5 DEF IInv, Runs, Who, F

LEMMA HandlerReturnInv ==
  ASSUME IInv, HandlerReturn
  PROVE  IInv'
<1>1. /\ TypeOK /\ Done(handler) /\ handler' = NoFrame
      /\ UNCHANGED <<pins, main, torn, device, slave>>
  BY DEF IInv, HandlerReturn
<1>2. Free
  BY <1>1 DEF IInv, Runs, Who, F, Shape, Done
<1>3. Free' /\ Rest'
  BY <1>1, <1>2 DEF Free, Rest, SDA, Line, pins, slave
<1>4. TypeOK'
  BY <1>1 DEF TypeOK, pins, slave
<1>5. Placed' /\ Interrupted'
  <2>1. main # NoFrame => PlaceOK(main)
    BY DEF IInv, Placed, Who, F
  <2>2. main' # NoFrame => PlaceOK(main')
    BY <1>1, <2>1
  <2>3. QED BY <1>1, <2>2 DEF Placed, Interrupted, Who, F
<1>6. Kept'
  <2>1. Truthful(main, "main") => Truthful(main, "main")'
    BY <1>1 DEF Truthful, Content, slave
  <2>2. AckRead(main)' = AckRead(main)
    BY <1>1 DEF AckRead
  <2>3. QED BY <1>1, <2>1, <2>2 DEF IInv, Kept, Done, slave
<1>7. ASSUME main' # NoFrame PROVE Shape("main")'
  <2>1. main' \in FrameType /\ PlaceOK(main)'
    BY <1>4, <1>5, <1>7 DEF TypeOK, Placed, Who, F
  <2>2. CASE torn
    <3>1. torn'
      BY <1>1, <2>2
    <3>2. QED
      BY <1>3, <1>4, <2>1, <3>1, ResumeShape
  <2>3. CASE ~torn
    <3>1. Done(main)
      BY <1>1, <1>7, <2>3 DEF IInv, Interrupted, Done, Active
    <3>2. Truthful(main, "main")'
      BY <1>1, <1>6, <2>3, <3>1 DEF Kept, Done
    <3>3. main'.seg = "done" /\ F("main")' = main'
      BY <1>1, <3>1 DEF Done, F
    <3>4. ~main'.ok => refused'["main"]
      BY <3>2 DEF Truthful
    <3>5. QED BY <1>3, <3>2, <3>3, <3>4 DEF Shape, Bytes
  <2>4. QED BY <2>2, <2>3
<1>8. QED BY <1>1, <1>3, <1>4, <1>5, <1>6, <1>7 DEF IInv, Runs, Who, F

-----------------------------------------------------------------------------
(***************************************************************************)
(* The invariant, and what follows from it.                                *)
(***************************************************************************)
LEMMA InitInv ==
  ASSUME Init
  PROVE  IInv
<1>. Width \in Nat \ {0, 1}
  BY CallAssumption
<1>1. device \in Byte
  BY CallAssumption DEF Init
<1>2. DeviceOK
  <2>1. 0 \in 0 .. Width /\ Zero \in Byte
    BY ZeroType
  <2>2. log \in [Who -> SUBSET (Byte \X Byte)] /\ refused \in [Who -> BOOLEAN]
    BY DEF Init
  <2>3. QED BY <2>1, <2>2 DEF Init, DeviceOK
<1>3. TypeOK
  BY <1>1, <1>2 DEF Init, TypeOK, DeviceOK
<1>4. Rest
  BY DEF Init, Rest, SDA, Line
<1>5. Placed /\ Kept /\ Interrupted /\ \A w \in Who : ~Runs(w)
  BY DEF Init, Placed, Kept, Interrupted, Runs, Who, F, Done
<1>6. QED BY <1>3, <1>4, <1>5 DEF IInv

LEMMA StutterInv ==
  ASSUME IInv, UNCHANGED vars
  PROVE  IInv'
<1>1. UNCHANGED <<scl, dirOut, sdaOut, main, handler, torn, device,
                  mode, role, shift, count, ptr, pull, log, refused>>
  BY DEF vars, pins, slave
<1>2. /\ TypeOK' /\ Rest' = Rest /\ Free' = Free /\ Quiet' = Quiet /\ Left' = Left
      /\ Begun("dev")' = Begun("dev") /\ SDA' = SDA
  BY <1>1 DEF IInv, TypeOK, Free, Rest, SDA, Quiet, Left, Prefix, Begun
<1>3. Placed' /\ Interrupted'
  BY <1>1 DEF IInv, Placed, Interrupted, F, Who, Active
<1>4. Kept'
  <2>1. Truthful(main, "main")' = Truthful(main, "main") /\ AckRead(main)' = AckRead(main)
    BY <1>1 DEF Truthful, Content, AckRead
  <2>2. QED BY <1>1, <2>1 DEF IInv, Kept, Done
<1>5. ASSUME NEW w \in Who, Shape(w) PROVE Shape(w)'
  <2>1. F(w)' = F(w) /\ Torn(w)' = Torn(w) /\ Truthful(F(w), w)' = Truthful(F(w), w)
    BY <1>1 DEF F, Torn, Truthful, Content
  <2>2. Starting(w)' = Starting(w)
    BY <1>1, <1>2, <2>1 DEF Starting
  <2>3. InByte(w)' = InByte(w)
    BY <1>1, <2>1 DEF InByte, Prefix, Begun
  <2>4. Astray(w)' = Astray(w)
    <3>1. AckRead(F(w))' = AckRead(F(w))
      BY <2>1 DEF AckRead
    <3>2. QED BY <1>1, <1>2, <2>1, <3>1 DEF Astray
  <2>5. AtReg(w)' = AtReg(w)
    BY <1>1, <2>1 DEF AtReg
  <2>6. InData(w)' = InData(w)
    BY <1>1, <2>1 DEF InData, Received
  <2>7. AstrayData(w)' = AstrayData(w)
    BY <1>1, <1>2, <2>1 DEF AstrayData
  <2>8. Stopping(w)' = Stopping(w)
    BY <1>1, <1>2, <2>1 DEF Stopping
  <2>9. Sending(w)' = Sending(w) /\ Receiving(w)' = Receiving(w)
    BY <2>1, <2>3, <2>4, <2>5, <2>6, <2>7 DEF Sending, Receiving
  <2>10. QED BY <1>1, <1>2, <1>5, <2>1, <2>2, <2>5, <2>8, <2>9 DEF Shape
<1>6. \A w \in Who : (Runs(w) => Shape(w))'
  <2>1. \A w \in Who : Runs(w)' = Runs(w)
    BY <1>1 DEF Runs, F
  <2>2. QED BY <1>5, <2>1 DEF IInv
<1>7. QED BY <1>1, <1>2, <1>3, <1>4, <1>6 DEF IInv

LEMMA StepInv ==
  ASSUME IInv, [Next]_vars
  PROVE  IInv'
<1>1. ASSUME NEW c \in MainCalls, MainCall(c) PROVE IInv'
  BY <1>1, MainCallInv
<1>2. CASE MainAccess
  BY <1>2, MainAccessInv
<1>3. CASE MainReturn
  BY <1>3, MainReturnInv
<1>4. ASSUME NEW c \in HandlerCalls, HandlerCall(c) PROVE IInv'
  BY <1>4, HandlerCallInv
<1>5. CASE HandlerAccess
  BY <1>5, HandlerAccessInv
<1>6. CASE HandlerReturn
  BY <1>6, HandlerReturnInv
<1>7. CASE UNCHANGED vars
  BY <1>7, StutterInv
<1>8. QED BY <1>1, <1>2, <1>3, <1>4, <1>5, <1>6, <1>7 DEF Next

\* The frame that runs is in step with the device or, only when torn, out of step in one
\* of the ways that store nothing and read no ACK.
THEOREM Invariant == Spec => []IInv
<1>1. Init => IInv
  BY InitInv
<1>2. IInv /\ [Next]_vars => IInv'
  BY StepInv
<1>3. QED BY <1>1, <1>2, PTL DEF Spec

\* Whatever the two callers do, the variables of the buses, the frames and the device
\* keep their types: bytes stay bytes, counters in their range.
THEOREM TypeCorrect == Spec => []TypeOK
<1>1. IInv => TypeOK
  BY DEF IInv
<1>2. QED BY Invariant, <1>1, PTL

\* I2C_Write and I2C_Read of the main loop tell the truth when hdmi_isr did not come
\* between: TRUE for a value stored or a register read, FALSE only for a byte refused.
THEOREM WholeCalls == Spec => []WholeCallsAreTrue
<1>1. IInv => WholeCallsAreTrue
  BY DEF IInv, Kept, WholeCallsAreTrue
<1>2. QED BY Invariant, <1>1, PTL

\* The calls of hdmi_isr always tell the truth: i2c_start, which raises SDA and SCL
\* before it lets SDA fall, brings any device into step from wherever it was left.
THEOREM HandlerCallsTrue == Spec => []HandlerCallsAreTrue
<1>1. IInv => HandlerCallsAreTrue
  <2>1. SUFFICES ASSUME IInv, Done(handler) PROVE Truthful(handler, "handler")
    BY DEF HandlerCallsAreTrue
  <2>2. Shape("handler")
    BY <2>1 DEF IInv, Runs, Who, F, Done
  <2>3. QED BY <2>1, <2>2 DEF Shape, Torn, F, Done
<1>2. QED BY Invariant, <1>1, PTL

\* What I2C_Write of the main loop calls written is stored, even when hdmi_isr ran in
\* the middle of it: out of step, the ACK is never read as 0.
THEOREM Acknowledged == Spec => []AcknowledgedIsStored
<1>1. IInv => AcknowledgedIsStored
  BY DEF IInv, Kept, AcknowledgedIsStored, Done
<1>2. QED BY Invariant, <1>1, PTL

\* Behind every call, interrupted or not, i2c_stop has left both lines high and the
\* device waiting for a START.
THEOREM BusIsLeftFree == Spec => []BusFree
<1>1. IInv => BusFree
  BY DEF IInv, Rest, BusFree
<1>2. QED BY Invariant, <1>1, PTL

-----------------------------------------------------------------------------
(***************************************************************************)
(* What is stored.                                                         *)
(***************************************************************************)

\* The device is about to store a value, at the next rise of SCL.
Storing ==
  scl = 0 /\ mode \in {"take", "ack"} /\ role = "val" /\ (mode = "take" => count = Width - 1)

LEMMA RiseStores ==
  ASSUME TypeOK, scl = 0, NEW bit \in {0, 1}, SlaveRise(bit),
         NEW u \in Who, NEW e \in log'[u], e \notin log[u]
  PROVE  /\ Storing
         /\ mode = "take" => e = <<ptr, [shift EXCEPT ![count + 1] = bit]>>
         /\ mode = "ack" => e = <<ptr, shift>>
<1>. Width \in Nat \ {0, 1} /\ count \in 0 .. Width
  BY CallAssumption DEF TypeOK
<1>1. ASSUME NEW s, Stores(s) PROVE e \in s
  BY <1>1 DEF Stores
<1>2. CASE mode = "take" /\ count < Width
  <2>1. /\ shift' = [shift EXCEPT ![count + 1] = bit] /\ count' = count + 1
        /\ Stores({}) \/ (role = "val" /\ count' = Width /\ Stores({<<ptr, shift'>>}))
    BY <1>2 DEF SlaveRise
  <2>2. ~Stores({})
    BY <1>1
  <2>3. e \in {<<ptr, shift'>>} /\ role = "val" /\ count' = Width
    BY <1>1, <2>1, <2>2
  <2>4. count = Width - 1
    BY <2>1, <2>3
  <2>5. QED BY <1>2, <2>1, <2>3, <2>4 DEF Storing
<1>3. CASE mode = "ack"
  <2>1. Stores(IF role = "val" THEN {<<ptr, shift>>} ELSE {})
    BY <1>3 DEF SlaveRise
  <2>2. e \in IF role = "val" THEN {<<ptr, shift>>} ELSE {}
    BY <1>1, <2>1
  <2>3. QED BY <1>3, <2>2 DEF Storing
<1>4. CASE mode \in {"idle", "send", "sent"} \/ (mode = "take" /\ count = Width)
  <2>1. log' = log
    BY <1>4 DEF SlaveRise, slave
  <2>2. QED BY <2>1
<1>5. QED BY <1>2, <1>3, <1>4 DEF TypeOK

LEMMA AccessStores ==
  ASSUME TypeOK, NEW a, Access(a), NEW u \in Who, NEW e \in log'[u], e \notin log[u]
  PROVE  /\ a = "scl1" /\ Storing
         /\ mode = "take" => e = <<ptr, [shift EXCEPT ![count + 1] = SDA]>>
         /\ mode = "ack" => e = <<ptr, shift>>
<1>1. log' # log
  OBVIOUS
<1>2. a \notin {"out", "in", "sda0", "sda1"}
  <2>1. SUFFICES ASSUME a \in {"out", "in", "sda0", "sda1"} PROVE FALSE
    OBVIOUS
  <2>2. UNCHANGED slave \/ SlaveStart \/ SlaveStop
    BY <2>1, Turns
  <2>3. QED BY <1>1, <2>2 DEF slave, SlaveStart, SlaveStop
<1>3. a # "scl0"
  <2>1. SUFFICES ASSUME a = "scl0" PROVE FALSE
    OBVIOUS
  <2>2. UNCHANGED slave \/ SlaveFall
    BY <2>1, Falls DEF TypeOK
  <2>3. QED BY <1>1, <2>2, FallKeeps DEF slave
<1>4. a \notin {"ack", "bit"}
  BY <1>1, Reads DEF slave
<1>5. a = "scl1"
  BY <1>2, <1>3, <1>4, AccessKinds
<1>6. scl = 0 /\ SlaveRise(SDA) /\ SDA \in {0, 1}
  <2>1. (scl = 1 => UNCHANGED slave) /\ (scl = 0 => SlaveRise(SDA))
    BY <1>5, Rises
  <2>2. scl = 0
    BY <1>1, <2>1 DEF TypeOK, slave
  <2>3. QED BY <2>1, <2>2, SDAType
<1>7. QED BY <1>5, <1>6, RiseStores

\* A byte whose last bit is on the line.
LEMMA LastBit ==
  ASSUME TypeOK, NEW byte \in Byte, Prefix(byte), count = Width - 1, NEW bit \in {0, 1}
  PROVE  [shift EXCEPT ![count + 1] = bit] = [byte EXCEPT ![Width] = bit]
<1>. Width \in Nat \ {0, 1}
  BY CallAssumption
<1>1. shift \in Byte /\ count + 1 = Width
  BY DEF TypeOK
<1>2. ASSUME NEW j \in 1 .. Width
      PROVE  [shift EXCEPT ![Width] = bit][j] = [byte EXCEPT ![Width] = bit][j]
  <2>1. CASE j = Width
    BY <1>1, <2>1 DEF Byte
  <2>2. CASE j # Width
    <3>1. j \in 1 .. count
      BY <2>2
    <3>2. shift[j] = byte[j]
      BY <3>1 DEF Prefix
    <3>3. QED BY <1>1, <2>2, <3>2 DEF Byte
  <2>3. QED BY <2>1, <2>2
<1>3. QED BY <1>1, <1>2 DEF Byte

\* What an access of w stores: the value of its call or, with the START of the handler,
\* what the main loop had left in the device.
LEMMA MoveStores ==
  ASSUME NEW w \in Who, TypeOK, Moves(w), Shape(w),
         NEW u \in Who, NEW e \in log'[u], e \notin log[u]
  PROVE  \/ F(w).op = "write" /\ e = <<F(w).reg, F(w).val>>
         \/ /\ main.op = "write" /\ torn
            /\ e \in {<<main.reg, main.val>>, <<main.reg, ToRead(main.val)>>}
<1>. DEFINE f == F(w)
            a == Accesses(f)[f.step]
<1>. Width \in Nat \ {0, 1}
  BY CallAssumption
<1>1. Access(a) /\ f \in FrameType /\ f.seg # "done"
  BY DEF Moves
<1>2. /\ a = "scl1" /\ Storing
      /\ mode = "take" => e = <<ptr, [shift EXCEPT ![count + 1] = SDA]>>
      /\ mode = "ack" => e = <<ptr, shift>>
  BY <1>1, AccessStores
<1>3. ~Quiet /\ ~Rest /\ scl = 0 /\ (mode = "take" => count = Width - 1)
  BY <1>2 DEF Storing, Quiet, Rest
<1>4. SDA \in {0, 1} /\ f.i \in 0 .. Width + 1 /\ f.seg \in Segs(f.op) /\ f.step \in 1 .. Steps(f)
  BY SDAType, AnySteps
<1>. HIDE DEF f
<1>5. CASE f.seg \in {"start", "restart"}
  <2>1. f.step = 3
    BY <1>2, <1>4, <1>5, StartAccesses
  <2>2. Starting(w)
    BY <1>5 DEF Shape, f
  <2>3. w = "handler" /\ f.seg = "start" /\ Left /\ dirOut /\ sdaOut = 1
    BY <1>3, <2>1, <2>2 DEF Starting, f
  <2>4. /\ torn /\ main.op = "write" /\ ptr = main.reg
        /\ mode = "take" => Prefix(main.val)
        /\ mode = "ack" => shift = main.val
    BY <1>2, <2>3 DEF Left, Storing
  <2>5. SDA = 1
    BY <2>3 DEF SDA, Line
  <2>6. main \in FrameType
    BY <2>4 DEF TypeOK, NoFrame
  <2>7. CASE mode = "take"
    <3>1. main.val \in Byte
      BY <2>6 DEF FrameType
    <3>2. [shift EXCEPT ![count + 1] = SDA] = [main.val EXCEPT ![Width] = SDA]
      BY <1>3, <1>4, <2>4, <2>7, <3>1, LastBit
    <3>3. e = <<main.reg, ToRead(main.val)>>
      BY <1>2, <2>4, <2>5, <2>7, <3>2 DEF ToRead
    <3>4. QED BY <2>4, <3>3
  <2>8. CASE mode = "ack"
    BY <1>2, <2>4, <2>8
  <2>9. QED BY <1>2, <2>7, <2>8 DEF Storing
<1>6. CASE f.seg \in Bytes
  <2>1. ~Astray(w)
    <3>1. Astray(w) => mode = "idle" \/ role = "dev"
      BY <1>4 DEF Astray, f
    <3>2. QED BY <1>2, <3>1 DEF Storing
  <2>2. InByte(w) /\ AtReg(w)
    BY <1>6, <2>1 DEF Shape, Sending, f
  <2>3. RoleOf(f.seg) = "val" /\ f.i # 0
    BY <1>2, <1>4, <2>2 DEF InByte, Begun, Storing, f
  <2>4. f.seg = "val" /\ f.op = "write" /\ ptr = f.reg /\ ByteOf(f) = f.val
    BY <1>1, <1>4, <1>6, <2>2, <2>3 DEF RoleOf, Bytes, Segs, AtReg, ByteOf, FrameType, f
  <2>5. f.val \in Byte
    BY <1>1 DEF FrameType
  <2>6. CASE f.i \in 1 .. Width
    <3>1. f.step # 1 /\ f.step # 4
      BY <1>2, <1>4, <1>6, <2>6, ByteAccesses
    <3>2. /\ dirOut /\ mode = "take" /\ Prefix(f.val) /\ count = f.i - 1
          /\ f.step = 3 => sdaOut = f.val[f.i]
      BY <2>2, <2>4, <2>6, <3>1 DEF InByte, f
    <3>3. f.step = 3
      BY <1>2, <1>4, <1>6, <2>6, ByteAccesses DEF Put
    <3>4. f.i = Width /\ SDA = f.val[Width]
      BY <1>3, <2>6, <3>2, <3>3 DEF SDA, Line
    <3>5. [shift EXCEPT ![count + 1] = SDA] = [f.val EXCEPT ![Width] = SDA]
      BY <1>3, <1>4, <2>5, <3>2, LastBit
    <3>6. [f.val EXCEPT ![Width] = SDA] = f.val
      BY <2>5, <3>4 DEF Byte
    <3>7. QED BY <1>2, <2>4, <3>2, <3>5, <3>6 DEF f
  <2>7. CASE f.i = Width + 1
    <3>1. mode = "ack" /\ shift = f.val
      BY <1>2, <2>2, <2>4, <2>7 DEF InByte, Storing, f
    <3>2. QED BY <1>2, <2>4, <3>1 DEF f
  <2>8. QED BY <1>4, <2>3, <2>6, <2>7
<1>7. CASE f.seg = "data"
  <2>1. mode \in {"send", "sent", "idle"}
    BY <1>4, <1>7 DEF Shape, Receiving, InData, AstrayData, f
  <2>2. QED BY <1>2, <2>1 DEF Storing
<1>8. CASE f.seg = "stop"
  <2>1. f.step = 3
    BY <1>2, <1>4, <1>8, StopAccesses
  <2>2. Stopping(w)
    BY <1>8 DEF Shape, f
  <2>3. QED BY <1>3, <2>1, <2>2 DEF Stopping, f
<1>9. QED BY <1>1, <1>5, <1>6, <1>7, <1>8 DEF FrameType, Segment, Bytes

LEMMA ForgetStores ==
  ASSUME TypeOK, NEW w \in Who, Forget(w), NEW u \in Who
  PROVE  log'[u] \subseteq log[u]
BY DEF TypeOK, Forget

\* Whatever the interleaving of the main loop and hdmi_isr, the device stores nothing
\* that neither asked for, but for one value: that of the main loop with its last bit
\* set, when the START of the handler raises SDA and SCL behind the bit before the last.
THEOREM NothingElse == Spec => NothingElseStored
<1>1. ASSUME IInv, Next, NEW u \in Who, NEW e \in log'[u], e \notin log[u]
      PROVE  e \in Asked
  <2>1. TypeOK
    BY <1>1 DEF IInv
  <2>2. ASSUME NEW f \in {main, handler}, f.op = "write", e = <<f.reg, f.val>> PROVE e \in Asked
    BY <2>2 DEF Asked
  <2>3. ASSUME main.op = "write", torn,
               e \in {<<main.reg, main.val>>, <<main.reg, ToRead(main.val)>>}
        PROVE  e \in Asked
    BY <2>2, <2>3 DEF Asked
  <2>4. CASE MainAccess
    <3>1. Moves("main") /\ Shape("main") /\ "main" \in Who
      BY <1>1, <2>4, MainMoves
    <3>2. \/ main.op = "write" /\ e = <<main.reg, main.val>>
          \/ /\ main.op = "write" /\ torn
             /\ e \in {<<main.reg, main.val>>, <<main.reg, ToRead(main.val)>>}
      BY <1>1, <2>1, <3>1, MoveStores DEF F
    <3>3. QED BY <2>2, <2>3, <3>2
  <2>5. CASE HandlerAccess
    <3>1. Moves("handler") /\ Shape("handler") /\ "handler" \in Who
      BY <1>1, <2>5, HandlerMoves
    <3>2. \/ handler.op = "write" /\ e = <<handler.reg, handler.val>>
          \/ /\ main.op = "write" /\ torn
             /\ e \in {<<main.reg, main.val>>, <<main.reg, ToRead(main.val)>>}
      BY <1>1, <2>1, <3>1, MoveStores DEF F
    <3>3. QED BY <2>2, <2>3, <3>2
  <2>6. ASSUME NEW w \in Who, Forget(w) PROVE FALSE
    BY <1>1, <2>1, <2>6, ForgetStores
  <2>7. ~(UNCHANGED slave)
    BY <1>1 DEF slave
  <2>8. QED BY <1>1, <2>4, <2>5, <2>6, <2>7
       DEF Next, MainCall, HandlerCall, MainReturn, HandlerReturn, Who
<1>2. ASSUME IInv, [Next]_vars
      PROVE  [\A w \in Who : log'[w] \ log[w] \subseteq Asked]_vars
  <2>1. ASSUME Next PROVE \A w \in Who : log'[w] \ log[w] \subseteq Asked
    BY <1>1, <1>2, <2>1
  <2>2. QED BY <1>2, <2>1
<1>3. QED BY Invariant, <1>2, PTL DEF Spec, NothingElseStored
=============================================================================
