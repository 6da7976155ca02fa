---------------------------- MODULE RegroupProofs ----------------------------
(* What the regrouping thread does with its buffers, for every resolution, *)
(* layout, number of buffers and number of failing calls.                  *)
EXTENDS Regroup, TLAPS

(* What the thread holds at each place.  A handle it got may be stale only *)
(* where nothing is held of that kind.                                     *)
Holds ==
  /\ at \in {"setup", "select", "get", "dead"} => outHeld = {} /\ inHeld = {}
  /\ at \in {"getin", "putout"} => outHeld = {hHandle} /\ inHeld = {}
  /\ at = "copy" => outHeld = {hHandle} /\ inHeld = {hVencHandle}
  /\ at = "put" => outHeld = {hHandle} /\ inHeld \subseteq {hVencHandle}

(* A buffer waits only once at the output port.                            *)
WaitsOnce == \A j, k \in DOMAIN outQ : outQ[j] = outQ[k] => j = k

IInv == TypeOK /\ Holds /\ WaitsOnce

LEMMA InitIInv == Init => IInv
<1> SUFFICES ASSUME Init
             PROVE  IInv
  OBVIOUS
<1>1. TypeOK
  BY RegroupAssumption DEF Init, TypeOK
<1>2. Holds /\ WaitsOnce
  BY DEF Init, Holds, WaitsOnce
<1>3. QED
  BY <1>1, <1>2 DEF IInv

(* What appending to a queue and removing its head do.                     *)
LEMMA Appended ==
  ASSUME NEW S, NEW q \in Seq(S), NEW b \in S
  PROVE  /\ Append(q, b) \in Seq(S)
         /\ DOMAIN Append(q, b) = 1..(Len(q) + 1)
         /\ \A k \in DOMAIN q : Append(q, b)[k] = q[k]
         /\ Append(q, b)[Len(q) + 1] = b
         /\ Len(q) \in Nat /\ DOMAIN q = 1..Len(q)
  OBVIOUS

LEMMA Removed ==
  ASSUME NEW S, NEW q \in Seq(S), q # <<>>
  PROVE  /\ Tail(q) \in Seq(S)
         /\ Head(q) = q[1] /\ q[1] \in S /\ 1 \in DOMAIN q
         /\ Len(q) \in Nat /\ DOMAIN Tail(q) = 1..(Len(q) - 1)
         /\ \A k \in DOMAIN Tail(q) : Tail(q)[k] = q[k + 1] /\ k + 1 \in DOMAIN q
  OBVIOUS

(* The step of each action; only the conjuncts it disturbs take more than  *)
(* its definition.                                                         *)
LEMMA NextIInv == IInv /\ [Next]_vars => IInv'
<1> SUFFICES ASSUME IInv, [Next]_vars
             PROVE  IInv'
  OBVIOUS
<1> USE RegroupAssumption DEF IInv, WaitsOnce
<1>1. CASE Setup
  BY <1>1 DEF Setup, MayFail, TypeOK, Holds, outVars, inVars
<1>2. CASE Select
  BY <1>2 DEF Select, MayFail, TypeOK, Holds, outVars, inVars
<1>3. CASE GetOutput
  <2> USE <1>3 DEF GetOutput
  <2>1. /\ outQ' \in Seq(OutBufs) /\ hHandle' \in OutBufs
        /\ hHandle' = outQ[1] /\ 1 \in DOMAIN outQ
        /\ \A k \in DOMAIN outQ' : outQ'[k] = outQ[k + 1] /\ k + 1 \in DOMAIN outQ
        /\ DOMAIN outQ' \subseteq Nat \ {0}
    BY Removed DEF TypeOK
  <2>2. outHeld' = {hHandle'} /\ inHeld' = {}
    BY DEF Holds, inVars
  <2>3. \A k \in DOMAIN outQ' : outQ'[k] \notin outHeld'
    BY <2>1, <2>2
  <2>4. TypeOK'
    BY <2>1, <2>2, <2>3 DEF TypeOK, inVars
  <2>5. WaitsOnce'
    BY <2>1
  <2>6. QED
    BY <2>2, <2>4, <2>5 DEF Holds
<1>4. CASE GetOutputFails
  BY <1>4 DEF GetOutputFails, Fails, MayFail, ChnOutputPortPutBuf, TypeOK, Holds, inVars
<1>5. CASE GetInput
  <2> USE <1>5 DEF GetInput
  <2>1. PICK b \in FreeInBufs : hVencHandle' = b /\ inHeld' = inHeld \cup {b}
    OBVIOUS
  <2>2. b \in InBufs /\ \A k \in DOMAIN inQ : inQ[k] # b
    BY DEF FreeInBufs, ToSet
  <2>3. QED
    BY <2>1, <2>2 DEF TypeOK, Holds, outVars
<1>6. CASE GetInputFails
  BY <1>6 DEF GetInputFails, Fails, MayFail, TypeOK, Holds, outVars, inVars
<1>7. CASE CopyPosition
  BY <1>7 DEF CopyPosition, TypeOK, Holds, outVars
<1>8. CASE PutInput
  <2> USE <1>8 DEF PutInput, ChnInputPortPutBuf
  <2>1. inHeld' = {} /\ outHeld' = {hHandle}
    BY DEF Holds, outVars
  <2>2. inQ' \in Seq(InBufs)
    BY Appended DEF TypeOK
  <2>3. QED
    BY <2>1, <2>2 DEF TypeOK, Holds, outVars
<1>9. CASE PutOutput
  BY <1>9 DEF PutOutput, ChnOutputPortPutBuf, TypeOK, Holds, inVars
<1>10. CASE Capture
  <2> USE <1>10 DEF Capture
  <2>1. PICK b \in FreeOutBufs, f \in Frames :
           /\ outPix' = [outPix EXCEPT ![b] = f]
           /\ outQ' = Append(IF Len(outQ) < UserDepth THEN outQ ELSE Tail(outQ), b)
    OBVIOUS
  <2>2. b \in OutBufs /\ b \notin outHeld /\ \A k \in DOMAIN outQ : outQ[k] # b
    BY DEF FreeOutBufs, ToSet
  <2> DEFINE q == IF Len(outQ) < UserDepth THEN outQ ELSE Tail(outQ)
  <2>3. /\ q \in Seq(OutBufs)
        /\ \A k \in DOMAIN q : q[k] # b /\ q[k] \notin outHeld
        /\ \A j, k \in DOMAIN q : q[j] = q[k] => j = k
    <3>1. CASE Len(outQ) < UserDepth
      BY <3>1, <2>2 DEF TypeOK
    <3>2. CASE ~(Len(outQ) < UserDepth)
      <4>1. outQ # <<>>
        BY <3>2 DEF TypeOK
      <4>2. /\ Tail(outQ) \in Seq(OutBufs)
            /\ DOMAIN Tail(outQ) \subseteq Nat
            /\ \A k \in DOMAIN Tail(outQ) :
                 Tail(outQ)[k] = outQ[k + 1] /\ k + 1 \in DOMAIN outQ
        BY <4>1, Removed DEF TypeOK
      <4>3. QED
        BY <3>2, <4>2, <2>2 DEF TypeOK
    <3>3. QED
      BY <3>1, <3>2
  <2> HIDE DEF q
  <2>4. /\ outQ' \in Seq(OutBufs)
        /\ \A k \in DOMAIN outQ' : outQ'[k] \notin outHeld
        /\ \A j, k \in DOMAIN outQ' : outQ'[j] = outQ'[k] => j = k
    <3>1. outQ' = Append(q, b)
      BY <2>1 DEF q
    <3>2. /\ outQ' \in Seq(OutBufs) /\ DOMAIN outQ' = 1..(Len(q) + 1)
          /\ \A k \in DOMAIN q : outQ'[k] = q[k]
          /\ outQ'[Len(q) + 1] = b
          /\ Len(q) \in Nat /\ DOMAIN q = 1..Len(q)
      <4>1. q \in Seq(OutBufs) /\ b \in OutBufs
        BY <2>2, <2>3
      <4>2. /\ Append(q, b) \in Seq(OutBufs)
            /\ DOMAIN Append(q, b) = 1..(Len(q) + 1)
            /\ \A k \in DOMAIN q : Append(q, b)[k] = q[k]
            /\ Append(q, b)[Len(q) + 1] = b
            /\ Len(q) \in Nat /\ DOMAIN q = 1..Len(q)
        BY <4>1, Appended, Zenon
      <4>3. QED
        BY <3>1, <4>2, Zenon
    <3>3. \A k \in DOMAIN outQ' : k \in DOMAIN q \/ k = Len(q) + 1
      BY <3>2
    <3>4. QED
      BY <2>2, <2>3, <3>2, <3>3
  <2>5. QED
    BY <2>1, <2>2, <2>4 DEF TypeOK, Holds, inVars
<1>11. CASE Encode
  <2> USE <1>11 DEF Encode
  <2>1. /\ inQ' \in Seq(InBufs)
        /\ \A k \in DOMAIN inQ' : inQ'[k] = inQ[k + 1] /\ k + 1 \in DOMAIN inQ
    BY Removed DEF TypeOK
  <2>2. QED
    BY <2>1 DEF TypeOK, Holds, outVars
<1>12. CASE UNCHANGED vars
  BY <1>12 DEF vars, outVars, inVars, TypeOK, Holds
<1>13. QED
  BY <1>1, <1>2, <1>3, <1>4, <1>5, <1>6, <1>7, <1>8, <1>9, <1>10, <1>11, <1>12
     DEF Next, YUVdataProcess

LEMMA Invariance == Spec => []IInv
<1>1. QED
  BY InitIInv, NextIInv, PTL DEF Spec

(* The variables of the regrouping thread and its drivers keep their       *)
(* types, and a buffer always has one owner.                               *)
THEOREM TypeCorrect == Spec => []TypeOK
<1>1. IInv => TypeOK
  BY DEF IInv
<1>2. QED
  BY <1>1, Invariance, PTL

(* Whatever calls of the drivers fail, YUVdataProcess never keeps a buffer *)
(* into its next round: every path puts back what it got.                  *)
THEOREM NoLeak == Spec => []NothingLeaks
<1>1. IInv => NothingLeaks
  BY DEF IInv, Holds, NothingLeaks
<1>2. QED
  BY <1>1, Invariance, PTL

-----------------------------------------------------------------------------
(* Addresses, lines and columns. *)

LEMMA Division ==
  ASSUME NEW a \in Nat, NEW w \in Nat \ {0}
  PROVE  /\ a \div w \in Nat /\ a % w \in Nat /\ a % w < w
         /\ a = (a \div w) * w + (a % w)
<1>1. a \div w \in Nat
  OBVIOUS
<1>2. a % w \in 0..(w - 1)
  OBVIOUS
<1>3. a = w * (a \div w) + (a % w)
  OBVIOUS
<1>4. w * (a \div w) = (a \div w) * w
  BY <1>1
<1>5. QED
  BY <1>1, <1>2, <1>3, <1>4

LEMMA Distributes ==
  ASSUME NEW q \in Int, NEW d \in Int, NEW w \in Int
  PROVE  (q + d) * w = q * w + d * w
  OBVIOUS

LEMMA Product ==
  ASSUME NEW q \in Nat, NEW w \in Nat
  PROVE  q * w \in Nat
  OBVIOUS

LEMMA Monotone ==
  ASSUME NEW q \in Nat, NEW r \in Nat, NEW w \in Nat, q <= r
  PROVE  q * w <= r * w
<1>1. PICK d \in Nat : r = q + d
  <2>1. r - q \in Nat /\ r = q + (r - q)
    OBVIOUS
  <2>2. QED
    BY <2>1
<1>2. r * w = q * w + d * w
  BY <1>1, Distributes
<1>3. q * w \in Nat /\ d * w \in Nat
  BY Product
<1>4. QED
  BY <1>2, <1>3

(* A quotient and a remainder determine a number, and the other way round. *)
LEMMA Unique ==
  ASSUME NEW w \in Nat \ {0}, NEW q \in Nat, NEW r \in Nat, r < w,
         NEW s \in Nat, NEW t \in Nat, t < w, q * w + r = s * w + t
  PROVE  q = s /\ r = t
<1>1. q * w \in Nat /\ s * w \in Nat
  BY Product
<1>2. ASSUME NEW c \in Nat, NEW d \in Nat, NEW e \in Nat, NEW g \in Nat,
             d < w, g < w, c * w + d = e * w + g, c < e
      PROVE  FALSE
  <2>1. (c + 1) * w <= e * w
    BY <1>2, Monotone
  <2>2. (c + 1) * w = c * w + w
    BY Distributes
  <2>3. c * w \in Nat /\ e * w \in Nat
    BY Product
  <2>4. QED
    BY <1>2, <2>1, <2>2, <2>3
<1>3. ~(q < s) /\ ~(s < q)
  BY <1>2
<1>4. q = s
  BY <1>3
<1>5. QED
  BY <1>1, <1>4

LEMMA DivisionUnique ==
  ASSUME NEW w \in Nat \ {0}, NEW q \in Nat, NEW r \in Nat, r < w
  PROVE  (q * w + r) \div w = q /\ (q * w + r) % w = r
<1>1. PICK a \in Nat : a = q * w + r
  <2>1. q * w \in Nat
    BY Product
  <2>2. QED
    BY <2>1
<1>2. /\ a \div w \in Nat /\ a % w \in Nat /\ a % w < w
      /\ a = (a \div w) * w + (a % w)
  BY Division
<1>3. q = a \div w /\ r = a % w
  BY <1>1, <1>2, Unique
<1>4. QED
  BY <1>1, <1>3

(* The block in row r and column c: where it starts, the addresses copied  *)
(* to when its lines are copied to address to, and the address of the same *)
(* place, in it, as that of address a in the block a lies in.              *)
Start(W, bw, bh, r, c) == (r * bh) * W + c * bw
Copied(W, bw, bh, a, to) == a >= to /\ (a - to) % W < bw /\ (a - to) \div W < bh
Place(W, bw, bh, r, c, a) ==
  (r * bh + ((a \div W) % bh)) * W + c * bw + ((a % W) % bw)

(* reorganizeYUV copies to an address exactly when it lies in the block ... *)
LEMMA InBlock ==
  ASSUME NEW W \in Nat \ {0}, NEW bw \in Nat \ {0}, NEW bh \in Nat \ {0},
         NEW r \in Nat, NEW c \in Nat, (c + 1) * bw <= W, NEW a \in Nat
  PROVE  Copied(W, bw, bh, a, Start(W, bw, bh, r, c))
           <=> ((a % W) \div bw = c /\ (a \div W) \div bh = r)
<1>1. PICK x \in Nat, y \in Nat : x = a % W /\ y = a \div W /\ x < W /\ a = y * W + x
  BY Division
<1>2. PICK e \in Nat : e = r * bh
  BY Product
<1>3. PICK k \in Nat, u \in Nat : k = e * W /\ u = c * bw /\ u + bw <= W
  <2>1. (c + 1) * bw = c * bw + bw
    BY Distributes
  <2>2. QED
    BY <2>1, Product
<1>4. PICK to \in Nat : to = Start(W, bw, bh, r, c) /\ to = k + u
  BY <1>2, <1>3 DEF Start
<1>5. \A q \in Nat : (e + q) * W = k + q * W /\ q * W \in Nat
  BY <1>3, Distributes, Product
<1>6. ASSUME a >= to, (a - to) % W < bw, (a - to) \div W < bh
      PROVE  x \div bw = c /\ y \div bh = r
  <2>1. PICK d \in Nat : d = a - to
    BY <1>6
  <2>2. PICK q \in Nat, z \in Nat : q = d \div W /\ z = d % W /\ d = q * W + z
    BY Division
  <2>3. q < bh /\ z < bw
    BY <1>6, <2>1, <2>2
  <2>4. PICK m \in Nat : m = q * W /\ (e + q) * W = k + m
    BY <1>5
  <2>5. y * W + x = (e + q) * W + (u + z)
    BY <1>1, <1>4, <2>1, <2>2, <2>4
  <2>6. y = e + q /\ x = u + z
    BY <1>1, <1>3, <2>3, <2>5, Unique
  <2>7. x \div bw = c
    BY <1>3, <2>3, <2>6, DivisionUnique
  <2>8. y \div bh = r
    BY <1>2, <2>3, <2>6, DivisionUnique
  <2>9. QED
    BY <2>7, <2>8
<1>7. ASSUME x \div bw = c, y \div bh = r
      PROVE  a >= to /\ (a - to) % W < bw /\ (a - to) \div W < bh
  <2>1. PICK z \in Nat : x = u + z /\ z < bw
    BY <1>3, <1>7, Division
  <2>2. PICK q \in Nat : y = e + q /\ q < bh
    BY <1>2, <1>7, Division
  <2>3. PICK m \in Nat : m = q * W /\ (e + q) * W = k + m
    BY <1>5
  <2>4. a >= to /\ a - to = m + z
    <3>1. y * W = k + m
      BY <2>2, <2>3
    <3>2. a = y * W + x /\ x = u + z
      BY <1>1, <2>1
    <3>3. a = k + m + u + z
      BY <3>1, <3>2
    <3>4. to = k + u
      BY <1>4
    <3>5. QED
      BY <3>3, <3>4
  <2>5. (q * W + z) \div W = q /\ (q * W + z) % W = z
    BY <1>3, <2>1, DivisionUnique
  <2>6. QED
    BY <2>1, <2>2, <2>3, <2>4, <2>5
<1>8. QED
  BY <1>1, <1>4, <1>6, <1>7 DEF Copied

(* ... and it copies there from the same place of the block of the input.  *)
LEMMA SamePlace ==
  ASSUME NEW W \in Nat \ {0}, NEW bw \in Nat \ {0}, NEW bh \in Nat \ {0},
         NEW ri \in Nat, NEW ci \in Nat, NEW a \in Nat
  PROVE  Start(W, bw, bh, ri, ci) + a
           - Start(W, bw, bh, (a \div W) \div bh, (a % W) \div bw)
         = Place(W, bw, bh, ri, ci, a)
<1> DEFINE r == (a \div W) \div bh
           c == (a % W) \div bw
<1>0. r \in Nat /\ c \in Nat
  <2>1. a % W \in Nat /\ a \div W \in Nat
    BY Division
  <2>2. QED
    BY <2>1, Division
<1>1. PICK x \in Nat, y \in Nat : x = a % W /\ y = a \div W /\ a = y * W + x
  BY Division
<1>2. PICK z \in Nat : z = x % bw /\ x = c * bw + z
  BY <1>1, Division
<1>3. PICK q \in Nat : q = y % bh /\ y = r * bh + q
  BY <1>1, Division
<1> HIDE DEF r, c
<1>4. PICK e \in Nat, s \in Nat : e = r * bh /\ s = ri * bh
  BY <1>0, Product
<1>5. (e + q) * W = e * W + q * W /\ (s + q) * W = s * W + q * W
  BY Distributes
<1>6. PICK k \in Nat, l \in Nat, m \in Nat : k = e * W /\ l = s * W /\ m = q * W
  BY Product
<1>7. PICK u \in Nat, t \in Nat : u = c * bw /\ t = ci * bw
  BY <1>0, Product
<1>8. a = k + m + u + z
  <2>1. y = e + q
    BY <1>3, <1>4
  <2>2. y * W = k + m
    BY <1>5, <1>6, <2>1
  <2>3. a = y * W + x /\ x = u + z
    BY <1>1, <1>2, <1>7
  <2>4. QED
    BY <2>2, <2>3
<1>9. Start(W, bw, bh, r, c) = k + u /\ Start(W, bw, bh, ri, ci) = l + t
  BY <1>4, <1>6, <1>7 DEF Start
<1>10. Place(W, bw, bh, ri, ci, a) = l + m + t + z
  <2>1. ri * bh + ((a \div W) % bh) = s + q
    BY <1>1, <1>3, <1>4
  <2>2. (a % W) % bw = z
    BY <1>1, <1>2
  <2>3. QED
    BY <1>5, <1>6, <1>7, <2>1, <2>2 DEF Place
<1>11. QED
  BY <1>8, <1>9, <1>10 DEF r, c

-----------------------------------------------------------------------------
(* What a picture shows.  The layout l is a parameter, because it never    *)
(* changes: Sample(layout, f, p) is MosaicSample(f, p).                    *)
BlockW(l) == Width \div l.h
BlockH(l) == Height \div l.v
Cells(l) == 0..(l.h * l.v - 1)
Input(l, n) == IF n < LayNum THEN l.tab[n] ELSE 0

(* The lines of a block in the plane of p, and the block p lies in.        *)
Lines(l, p) == IF p[1] = "y" THEN BlockH(l) ELSE BlockH(l) \div 2
BlockColumn(l, p) == (p[2] % Width) \div BlockW(l)
BlockRow(l, p) == (p[2] \div Width) \div Lines(l, p)
Inside(l, p) == BlockColumn(l, p) < l.h /\ BlockRow(l, p) < l.v
Cell(l, p) == BlockRow(l, p) * l.h + BlockColumn(l, p)
Shows(l, p) == Inside(l, p) /\ Input(l, Cell(l, p)) # Empty

Sample(l, f, p) ==
  LET bh == Lines(l, p)
      id == Input(l, Cell(l, p))
  IN IF ~Shows(l, p) THEN Unwritten
     ELSE <<f, ((id \div l.h) * bh + ((p[2] \div Width) % bh)) * Width
               + (id % l.h) * BlockW(l) + ((p[2] % Width) % BlockW(l))>>

(* The samples the property is about.                                      *)
Whole(l) == IF BlockH(l) % 2 = 0 THEN Samples ELSE Luma

LEMMA SampleIsMosaicSample ==
  /\ Whole(layout) = IF BlkH % 2 = 0 THEN Samples ELSE Luma
  /\ \A f, p : MosaicSample(f, p) = Sample(layout, f, p)
<1>1. BlockH(layout) = BlkH /\ BlockW(layout) = BlkW
  BY DEF BlockH, BlockW, BlkH, BlkW
<1>2. \A n : Input(layout, n) = InputAt(n)
  BY DEF Input, InputAt
<1>3. ASSUME NEW f, NEW p
      PROVE  MosaicSample(f, p) = Sample(layout, f, p)
  BY <1>1, <1>2 DEF MosaicSample, Sample, Lines, Shows, Inside, Cell, BlockColumn,
     BlockRow, Row, Column
<1>4. QED
  BY <1>1, <1>3 DEF Whole

(* Sizes of the grid, the block and the address of a sample.               *)
LEMMA Grid ==
  ASSUME NEW l \in Layouts
  PROVE  /\ Width \in Nat \ {0} /\ Height \in Nat \ {0} /\ LayNum \in Nat
         /\ l.h \in Nat \ {0} /\ l.v \in Nat \ {0}
         /\ BlockW(l) \in Nat \ {0} /\ BlockH(l) \in Nat \ {0}
         /\ l.h * BlockW(l) <= Width
         /\ \A n \in Cells(l) : Input(l, n) \in {Empty} \cup Cells(l)
<1>1. /\ Width \in Nat \ {0} /\ Height \in Nat \ {0} /\ LayNum \in Nat
      /\ l.h \in 1..Width /\ l.v \in 1..Height
      /\ l.tab \in [Cells(l) -> {Empty} \cup Cells(l)]
  BY RegroupAssumption DEF Cells
<1>2. ASSUME NEW n \in Nat \ {0}, NEW d \in 1..n
      PROVE  n \div d \in Nat \ {0} /\ d * (n \div d) <= n
  <2>1. PICK q \in Nat, r \in Nat : q = n \div d /\ r < d /\ n = q * d + r
    BY Division
  <2>2. q # 0
    BY <2>1
  <2>3. q * d = d * q /\ q * d <= n
    <3>1. q * d = d * q /\ q * d \in Nat
      BY Product
    <3>2. QED
      BY <2>1, <3>1
  <2>4. QED
    BY <2>1, <2>2, <2>3
<1>3. BlockW(l) \in Nat \ {0} /\ l.h * BlockW(l) <= Width /\ BlockH(l) \in Nat \ {0}
  BY <1>1, <1>2 DEF BlockW, BlockH
<1>4. 0 \in Cells(l)
  <2>1. PICK h \in Nat \ {0}, v \in Nat \ {0} : h = l.h /\ v = l.v
    BY <1>1
  <2>2. 1 * v <= h * v
    BY <2>1, Monotone
  <2>3. h * v \in Nat
    BY Product
  <2>4. QED
    BY <2>1, <2>2, <2>3 DEF Cells
<1>5. ASSUME NEW n \in Cells(l)
      PROVE  Input(l, n) \in {Empty} \cup Cells(l)
  BY <1>1, <1>4 DEF Input
<1>6. QED
  BY <1>1, <1>3, <1>5

LEMMA Addresses ==
  ASSUME NEW l \in Layouts, NEW p \in Whole(l)
  PROVE  /\ p \in Samples /\ p[1] \in {"y", "uv"} /\ p[2] \in Nat
         /\ p[1] # "y" => BlockH(l) % 2 = 0
         /\ Lines(l, p) \in Nat \ {0}
<1>1. /\ Width \in Nat \ {0} /\ Height \in Nat \ {0} /\ BlockH(l) \in Nat \ {0}
  BY Grid
<1>2. p \in Samples /\ (BlockH(l) % 2 # 0 => p \in Luma)
  BY DEF Whole, Samples
<1>3. p[1] \in {"y", "uv"} /\ p[2] \in Nat /\ (p \in Luma => p[1] = "y")
  <2>1. ASSUME p \in Luma
        PROVE  p[1] = "y" /\ p[2] \in Nat
    BY <2>1 DEF Luma
  <2>2. ASSUME p \in Chroma
        PROVE  p[1] = "uv" /\ p[2] \in Nat
    BY <2>2 DEF Chroma
  <2>3. QED
    BY <1>2, <2>1, <2>2 DEF Samples
<1>4. p[1] # "y" => BlockH(l) % 2 = 0
  BY <1>2, <1>3
<1>5. Lines(l, p) \in Nat \ {0}
  <2>1. CASE p[1] = "y"
    BY <1>1, <2>1 DEF Lines
  <2>2. CASE p[1] # "y"
    <3>1. PICK b \in Nat \ {0} : b = BlockH(l) /\ b % 2 = 0
      BY <1>1, <1>4, <2>2
    <3>2. b \div 2 \in Nat \ {0}
      BY <3>1
    <3>3. QED
      BY <2>2, <3>1, <3>2 DEF Lines
  <2>3. QED
    BY <2>1, <2>2
<1>6. QED
  BY <1>2, <1>3, <1>4, <1>5

(* A position of the mosaic and its row and column.                        *)
LEMMA CellOf ==
  ASSUME NEW h \in Nat \ {0}, NEW v \in Nat, NEW n \in 0..(h * v - 1),
         NEW r \in Nat, NEW c \in Nat
  PROVE  /\ n \div h \in Nat /\ n \div h < v /\ n % h \in Nat /\ n % h < h
         /\ (c = n % h /\ r = n \div h) <=> (c < h /\ r < v /\ r * h + c = n)
<1>1. h * v \in Nat /\ h * v = v * h
  BY Product
<1>2. PICK q \in Nat, z \in Nat : q = n \div h /\ z = n % h /\ z < h /\ n = q * h + z
  BY <1>1, Division
<1>3. q < v
  <2>1. SUFFICES ASSUME v <= q
                 PROVE  FALSE
    BY <1>2
  <2>2. v * h <= q * h /\ q * h \in Nat
    BY <2>1, Monotone, Product
  <2>3. n < h * v
    BY <1>1
  <2>4. QED
    BY <1>1, <1>2, <2>2, <2>3
<1>4. ASSUME c < h, r * h + c = n
      PROVE  c = z /\ r = q
  BY <1>2, <1>4, Unique
<1>5. QED
  BY <1>2, <1>3, <1>4

(* Where the block of position n starts in the plane of p, and how many    *)
(* lines of it are copied.                                                 *)
LEMMA BlockStart ==
  ASSUME layout \in Layouts, NEW n \in Cells(layout), NEW p \in Whole(layout)
  PROVE  /\ (IF p[1] = "y" THEN LumaStart(n) ELSE ChromaStart(n))
              = ((n \div layout.h) * Lines(layout, p)) * Width
                + (n % layout.h) * BlockW(layout)
         /\ (IF p[1] = "y" THEN BlkH ELSE (BlkH + 1) \div 2) = Lines(layout, p)
<1>1. BlockH(layout) = BlkH /\ BlockW(layout) = BlkW
  BY DEF BlockH, BlockW, BlkH, BlkW
<1>2. CASE p[1] = "y"
  BY <1>1, <1>2 DEF LumaStart, Lines, Row, Column
<1>3. CASE p[1] # "y"
  <2>1. PICK b \in Nat \ {0} : b = BlkH /\ b % 2 = 0
    BY <1>1, <1>3, Addresses, Grid
  <2>2. PICK d \in Nat : d = b \div 2 /\ b = 2 * d /\ (b + 1) \div 2 = d
    <3>1. b \div 2 \in Nat /\ b = 2 * (b \div 2) /\ (b + 1) \div 2 = b \div 2
      BY <2>1
    <3>2. QED
      BY <3>1
  <2>3. Lines(layout, p) = d
    BY <1>1, <1>3, <2>1, <2>2 DEF Lines
  <2>4. PICK r \in Nat : r = n \div layout.h
    <3>1. n \in Nat /\ layout.h \in Nat \ {0}
      BY Grid DEF Cells
    <3>2. QED
      BY <3>1, Division
  <2>5. (r * b) \div 2 = r * d
    <3>1. PICK e \in Nat : e = r * d
      BY Product
    <3>2. r * b = e * 2 + 0
      BY <2>2, <3>1
    <3>3. QED
      BY <3>1, <3>2, DivisionUnique
  <2>6. ChromaStart(n) = ((r * b) \div 2) * Width + (n % layout.h) * BlkW
    BY <2>1, <2>4 DEF ChromaStart, Row, Column
  <2>7. QED
    BY <1>1, <1>3, <2>1, <2>2, <2>3, <2>4, <2>5, <2>6
<1>4. QED
  BY <1>2, <1>3

(* Copying one position puts its samples of the mosaic in place and leaves *)
(* every other sample as it was.                                           *)
LEMMA CopyOne ==
  ASSUME layout \in Layouts, NEW n \in Cells(layout), NEW id \in Cells(layout),
         id = Input(layout, n), NEW f, NEW pic, NEW p \in Whole(layout)
  PROVE  CopyBlock(pic, f, id, n)[p] =
           IF Inside(layout, p) /\ Cell(layout, p) = n THEN Sample(layout, f, p)
           ELSE pic[p]
<1>1. PICK W \in Nat \ {0}, h \in Nat \ {0}, v \in Nat \ {0},
           bw \in Nat \ {0}, bh \in Nat \ {0} :
        /\ W = Width /\ h = layout.h /\ v = layout.v
        /\ bw = BlockW(layout) /\ bh = Lines(layout, p) /\ h * bw <= W
  BY Grid, Addresses
<1>2. BlkW = bw /\ n \in 0..(h * v - 1) /\ id \in 0..(h * v - 1)
  BY <1>1 DEF BlkW, BlockW, Cells
<1>3. PICK r \in Nat, c \in Nat, ri \in Nat, ci \in Nat :
        /\ r = n \div h /\ c = n % h /\ ri = id \div h /\ ci = id % h
        /\ c < h
  <2>1. n \in Nat /\ id \in Nat
    BY <1>2
  <2>2. QED
    BY <2>1, <1>1, Division
<1>4. PICK a \in Nat : a = p[2]
  BY Addresses
<1>5. PICK to \in Nat :
        /\ to = Start(W, bw, bh, r, c)
        /\ to = IF p[1] = "y" THEN LumaStart(n) ELSE ChromaStart(n)
  <2>1. (r * bh) * W + c * bw \in Nat
    BY Product
  <2>2. QED
    BY <1>1, <1>3, <2>1, BlockStart DEF Start
<1>6. PICK from \in Nat :
        /\ from = Start(W, bw, bh, ri, ci)
        /\ from = IF p[1] = "y" THEN LumaStart(id) ELSE ChromaStart(id)
  <2>1. (ri * bh) * W + ci * bw \in Nat
    BY Product
  <2>2. QED
    BY <1>1, <1>3, <2>1, BlockStart DEF Start
<1>7. bh = IF p[1] = "y" THEN BlkH ELSE (BlkH + 1) \div 2
  BY <1>1, BlockStart
<1>8. CopyBlock(pic, f, id, n)[p] =
        IF IsCopied(a, to, bh) THEN <<f, from + a - to>> ELSE pic[p]
  <2>1. p \in Samples
    BY Addresses
  <2>2. CopyBlock(pic, f, id, n)[p] =
          IF IsCopied(p[2], IF p[1] = "y" THEN LumaStart(n) ELSE ChromaStart(n),
                      IF p[1] = "y" THEN BlkH ELSE (BlkH + 1) \div 2)
          THEN <<f, (IF p[1] = "y" THEN LumaStart(id) ELSE ChromaStart(id)) + p[2]
                    - (IF p[1] = "y" THEN LumaStart(n) ELSE ChromaStart(n))>>
          ELSE pic[p]
    BY <2>1 DEF CopyBlock
  <2>3. QED
    BY <1>4, <1>5, <1>6, <1>7, <2>2
<1>9. PICK x \in Nat, y \in Nat :
        /\ x = (a % W) \div bw /\ y = (a \div W) \div bh
        /\ BlockColumn(layout, p) = x /\ BlockRow(layout, p) = y
  <2>1. a % W \in Nat /\ a \div W \in Nat
    BY Division
  <2>2. (a % W) \div bw \in Nat /\ (a \div W) \div bh \in Nat
    BY <2>1, Division
  <2>3. QED
    BY <1>1, <1>4, <2>2 DEF BlockColumn, BlockRow
<1>10. IsCopied(a, to, bh) <=> (x = c /\ y = r)
  <2>1. IsCopied(a, to, bh) <=> Copied(W, bw, bh, a, to)
    BY <1>1, <1>2 DEF IsCopied, Copied
  <2>2. (c + 1) * bw <= W
    <3>1. (c + 1) * bw <= h * bw
      BY <1>3, Monotone
    <3>2. (c + 1) * bw \in Nat /\ h * bw \in Nat
      BY Product
    <3>3. QED
      BY <1>1, <3>1, <3>2
  <2>3. Copied(W, bw, bh, a, Start(W, bw, bh, r, c))
          <=> ((a % W) \div bw = c /\ (a \div W) \div bh = r)
    BY <2>2, InBlock
  <2>4. QED
    BY <1>5, <1>9, <2>1, <2>3
<1>11. Inside(layout, p) /\ Cell(layout, p) = n <=> (x = c /\ y = r)
  <2>1. Inside(layout, p) /\ Cell(layout, p) = n <=> (x < h /\ y < v /\ y * h + x = n)
    BY <1>1, <1>9 DEF Inside, Cell
  <2>2. (x = n % h /\ y = n \div h) <=> (x < h /\ y < v /\ y * h + x = n)
    BY <1>2, CellOf, Zenon
  <2>3. c = n % h /\ r = n \div h
    BY <1>3
  <2>4. (x = c /\ y = r) <=> (x < h /\ y < v /\ y * h + x = n)
    BY <2>2, <2>3, Zenon
  <2>5. QED
    BY <2>1, <2>4
<1>12. CASE x = c /\ y = r
  <2>1. from + a - to = Place(W, bw, bh, ri, ci, a)
    <3>1. Start(W, bw, bh, ri, ci) + a
            - Start(W, bw, bh, (a \div W) \div bh, (a % W) \div bw)
          = Place(W, bw, bh, ri, ci, a)
      BY SamePlace
    <3>2. QED
      BY <1>5, <1>6, <1>9, <1>12, <3>1
  <2>2. Inside(layout, p) /\ Cell(layout, p) = n
    BY <1>11, <1>12
  <2>3. Shows(layout, p)
    <3>1. id \in Nat
      BY <1>2
    <3>2. QED
      BY <2>2, <3>1 DEF Shows, Empty
  <2>4. Sample(layout, f, p) = <<f, Place(W, bw, bh, ri, ci, a)>>
    BY <1>1, <1>3, <1>4, <2>2, <2>3 DEF Sample, Place
  <2>5. QED
    BY <1>8, <1>10, <1>12, <2>1, <2>2, <2>4
<1>13. CASE ~(x = c /\ y = r)
  BY <1>8, <1>10, <1>11, <1>13
<1>14. QED
  BY <1>12, <1>13

LEMMA CellBounds ==
  ASSUME NEW l \in Layouts, NEW p \in Whole(l)
  PROVE  Cell(l, p) \in Nat /\ (Inside(l, p) => Cell(l, p) \in Cells(l))
<1>1. PICK h \in Nat \ {0}, v \in Nat \ {0}, bw \in Nat \ {0}, bh \in Nat \ {0},
           W \in Nat \ {0} :
        h = l.h /\ v = l.v /\ bw = BlockW(l) /\ bh = Lines(l, p) /\ W = Width
  BY Grid, Addresses
<1>2. PICK a \in Nat : a = p[2]
  BY Addresses
<1>3. PICK r \in Nat, c \in Nat : r = BlockRow(l, p) /\ c = BlockColumn(l, p)
  <2>1. a % W \in Nat /\ a \div W \in Nat
    BY Division
  <2>2. (a % W) \div bw \in Nat /\ (a \div W) \div bh \in Nat
    BY <2>1, Division
  <2>3. QED
    BY <1>1, <1>2, <2>2 DEF BlockRow, BlockColumn
<1>4. Cell(l, p) = r * h + c /\ r * h \in Nat
  BY <1>1, <1>3, Product DEF Cell
<1>5. ASSUME c < h, r < v
      PROVE  r * h + c < h * v
  <2>1. (r + 1) * h <= v * h
    BY <1>5, Monotone
  <2>2. (r + 1) * h = r * h + h
    BY Distributes
  <2>3. v * h = h * v /\ h * v \in Nat
    BY Product
  <2>4. QED
    BY <1>4, <1>5, <2>1, <2>2, <2>3
<1>6. PICK m \in Nat, n \in Nat : m = h * v /\ n = r * h + c
  <2>1. r * h + c \in Nat
    BY <1>4
  <2>2. QED
    BY <2>1, Product
<1>7. QED
  BY <1>1, <1>3, <1>4, <1>5, <1>6 DEF Inside, Cells

-----------------------------------------------------------------------------
(* Every picture is empty where no input is shown; the one being copied is *)
(* the mosaic of the thread's frame as far as the copy has come, and those *)
(* that wait to be encoded are the mosaic of one frame throughout.            *)
Mosaic(l, pic, f) == \A p \in Whole(l) : pic[p] = Sample(l, f, p)

Blank ==
  /\ inPix = [b \in InBufs |-> inPix[b]]
  /\ \A b \in InBufs : \A p \in Whole(layout) :
       ~Shows(layout, p) => inPix[b][p] = Unwritten

Copying ==
  at = "copy" =>
    \A p \in Whole(layout) :
      Shows(layout, p) /\ Cell(layout, p) < i =>
        inPix[hVencHandle][p] = Sample(layout, outPix[hHandle], p)

CopiedWhole ==
  at = "put" /\ inHeld # {} => \E f \in Frames : Mosaic(layout, inPix[hVencHandle], f)

Queued == \A k \in DOMAIN inQ : \E f \in Frames : Mosaic(layout, inPix[inQ[k]], f)

PicturesOK == Blank /\ Copying /\ CopiedWhole /\ Queued

LEMMA InitPicturesOK == Init => PicturesOK
<1> SUFFICES ASSUME Init
             PROVE  PicturesOK
  OBVIOUS
<1>1. Blank
  <2>1. \A b \in InBufs : inPix[b] = [p \in Samples |-> Unwritten]
    BY DEF Init
  <2>2. inPix = [b \in InBufs |-> inPix[b]]
    BY DEF Init
  <2>3. \A p \in Whole(layout) : p \in Samples
    BY DEF Whole, Samples
  <2>4. QED
    BY <2>1, <2>2, <2>3 DEF Blank
<1>2. QED
  BY <1>1 DEF Init, PicturesOK, Copying, CopiedWhole, Queued

LEMMA CopyStep ==
  ASSUME IInv, PicturesOK, CopyPosition
  PROVE  PicturesOK'
<1>1. /\ at = "copy" /\ layout \in Layouts /\ i \in Nat
      /\ hVencHandle \in inHeld /\ hVencHandle \in InBufs /\ hHandle \in OutBufs
      /\ outPix[hHandle] \in Frames
      /\ \A k \in DOMAIN inQ : inQ[k] \in InBufs /\ inQ[k] # hVencHandle
  BY DEF CopyPosition, IInv, TypeOK, Holds
<1>2. UNCHANGED <<layout, hHandle, hVencHandle, outPix, inQ, inHeld>>
  BY DEF CopyPosition, outVars
<1>3. \A p \in Whole(layout) :
        Cell(layout, p) \in Nat /\ (Inside(layout, p) => Cell(layout, p) \in Cells(layout))
  BY <1>1, CellBounds
<1>4. Positions = Cells(layout)
  BY DEF Positions, Cells
<1>5. CASE i \in Positions
  <2>1. PICK n \in Cells(layout) : n = i
    BY <1>4, <1>5
  <2>2. at' = "copy" /\ i' = n + 1 /\ n \in Nat
    BY <1>1, <1>5, <2>1 DEF CopyPosition
  <2>3. \A p \in Whole(layout) : Cell(layout, p) < i' => Cell(layout, p) < n \/ Cell(layout, p) = n
    BY <1>3, <2>2
  <2>4. InputAt(i) = Input(layout, n)
    BY <2>1 DEF InputAt, Input
  <2>5. CASE Input(layout, n) = Empty
    <3>1. inPix' = inPix
      BY <1>5, <2>4, <2>5 DEF CopyPosition
    <3>2. Copying'
      <4>1. ASSUME NEW p \in Whole(layout), Shows(layout, p), Cell(layout, p) < i'
            PROVE  inPix[hVencHandle][p] = Sample(layout, outPix[hHandle], p)
        <5>1. Cell(layout, p) # n
          BY <2>5, <4>1 DEF Shows
        <5>2. QED
          BY <1>1, <2>1, <2>3, <4>1, <5>1 DEF PicturesOK, Copying
      <4>2. QED
        BY <1>2, <3>1, <4>1 DEF Copying
    <3>3. QED
      BY <1>2, <2>2, <3>1, <3>2 DEF PicturesOK, Blank, CopiedWhole, Queued
  <2>6. CASE Input(layout, n) # Empty
    <3>1. PICK id \in Cells(layout) : id = Input(layout, n)
      BY <1>1, <2>6, Grid
    <3>2. PICK b \in InBufs, f \in Frames : b = hVencHandle /\ f = outPix[hHandle]
      BY <1>1
    <3>3. inPix' = [inPix EXCEPT ![b] = CopyBlock(inPix[b], f, id, n)]
      BY <1>5, <2>1, <2>4, <2>6, <3>1, <3>2 DEF CopyPosition
    <3>4. inPix = [c \in InBufs |-> inPix[c]]
      BY DEF PicturesOK, Blank
    <3>5. /\ inPix' = [c \in InBufs |-> inPix'[c]]
          /\ inPix'[b] = CopyBlock(inPix[b], f, id, n)
          /\ \A c \in InBufs : c # b => inPix'[c] = inPix[c]
      BY <3>3, <3>4
    <3>6. ASSUME NEW p \in Whole(layout)
          PROVE  inPix'[b][p] = IF Inside(layout, p) /\ Cell(layout, p) = n
                                THEN Sample(layout, f, p) ELSE inPix[b][p]
      BY <1>1, <3>1, <3>5, CopyOne
    <3>7. ASSUME NEW p \in Whole(layout), ~Shows(layout, p)
          PROVE  inPix'[b][p] = Unwritten
      <4>1. ~(Inside(layout, p) /\ Cell(layout, p) = n)
        BY <2>6, <3>7 DEF Shows
      <4>2. QED
        BY <3>6, <3>7, <4>1 DEF PicturesOK, Blank
    <3>8. Blank'
      BY <1>2, <3>5, <3>7 DEF PicturesOK, Blank
    <3>9. ASSUME NEW p \in Whole(layout), Shows(layout, p), Cell(layout, p) < i'
          PROVE  inPix'[b][p] = Sample(layout, f, p)
      <4>1. CASE Cell(layout, p) = n
        BY <3>6, <3>9, <4>1 DEF Shows
      <4>2. CASE Cell(layout, p) # n
        <5>1. inPix[b][p] = Sample(layout, f, p)
          BY <1>1, <2>1, <2>3, <3>2, <3>9, <4>2 DEF PicturesOK, Copying
        <5>2. QED
          BY <3>6, <4>2, <5>1
      <4>3. QED
        BY <4>1, <4>2
    <3>10. Copying'
      BY <1>2, <3>2, <3>9 DEF Copying
    <3>11. Queued'
      <4>1. ASSUME NEW k \in DOMAIN inQ
            PROVE  inPix'[inQ[k]] = inPix[inQ[k]]
        BY <1>1, <3>2, <3>5
      <4>2. QED
        BY <1>2, <4>1 DEF PicturesOK, Queued, Mosaic
    <3>12. QED
      BY <2>2, <3>8, <3>10, <3>11 DEF PicturesOK, CopiedWhole
  <2>7. QED
    BY <2>5, <2>6
<1>6. CASE i \notin Positions
  <2>1. inPix' = inPix /\ at' = "put"
    BY <1>6 DEF CopyPosition
  <2>2. PICK f \in Frames, b \in InBufs : f = outPix[hHandle] /\ b = hVencHandle
    BY <1>1
  <2>3. ASSUME NEW p \in Whole(layout)
        PROVE  inPix[b][p] = Sample(layout, f, p)
    <3>1. CASE Shows(layout, p)
      <4>1. Cell(layout, p) \in Cells(layout)
        BY <1>3, <3>1 DEF Shows
      <4>2. Cell(layout, p) < i
        <5>1. PICK m \in Nat : Cells(layout) = 0..(m - 1)
          <6>1. layout.h \in Nat /\ layout.v \in Nat
            BY <1>1, Grid
          <6>2. layout.h * layout.v \in Nat
            BY <6>1, Product
          <6>3. QED
            BY <6>2 DEF Cells
        <5>2. Cell(layout, p) \in 0..(m - 1) /\ i \notin 0..(m - 1)
          BY <1>4, <1>6, <4>1, <5>1
        <5>3. QED
          BY <1>1, <5>2
      <4>3. QED
        BY <1>1, <2>2, <3>1, <4>2 DEF PicturesOK, Copying
    <3>2. CASE ~Shows(layout, p)
      BY <3>2 DEF PicturesOK, Blank, Sample
    <3>3. QED
      BY <3>1, <3>2
  <2>4. Mosaic(layout, inPix[b], f)
    BY <2>3 DEF Mosaic
  <2>5. CopiedWhole'
    BY <1>2, <2>1, <2>2, <2>4 DEF CopiedWhole
  <2>6. QED
    BY <1>2, <2>1, <2>5 DEF PicturesOK, Blank, Copying, Queued
<1>7. QED
  BY <1>5, <1>6

LEMMA PictureStep == IInv /\ PicturesOK /\ [Next]_vars => PicturesOK'
<1> SUFFICES ASSUME IInv, PicturesOK, [Next]_vars
             PROVE  PicturesOK'
  OBVIOUS
<1> USE DEF inVars, PicturesOK
<1>1. CASE Setup \/ Select \/ GetOutput \/ GetOutputFails \/ PutOutput
  <2>1. /\ UNCHANGED <<layout, inPix, inQ>>
        /\ at' \notin {"copy", "put"}
    BY <1>1 DEF Setup, Select, GetOutput, GetOutputFails, PutOutput
  <2>2. QED
    BY <2>1 DEF Blank, Copying, CopiedWhole, Queued
<1>2. CASE GetInput
  <2>1. at' = "copy" /\ i' = 0 /\ UNCHANGED <<layout, inPix, inQ>>
    BY <1>2 DEF GetInput
  <2>2. \A p \in Whole(layout) : ~(Cell(layout, p) < 0)
    <3>1. layout \in Layouts
      BY DEF IInv, TypeOK
    <3>2. \A p \in Whole(layout) : Cell(layout, p) \in Nat
      BY <3>1, CellBounds
    <3>3. QED
      BY <3>2
  <2>3. QED
    BY <2>1, <2>2 DEF Blank, Copying, CopiedWhole, Queued
<1>3. CASE GetInputFails
  <2>1. /\ at' = "put" /\ inHeld' = {} /\ UNCHANGED <<layout, inPix, inQ>>
    BY <1>3 DEF GetInputFails, IInv, Holds
  <2>2. QED
    BY <2>1 DEF Blank, Copying, CopiedWhole, Queued
<1>4. CASE CopyPosition
  BY <1>4, CopyStep
<1>5. CASE PutInput
  <2>1. /\ at = "put" /\ at' = "putout" /\ UNCHANGED <<layout, inPix>>
        /\ inQ' = IF hVencHandle \in inHeld THEN Append(inQ, hVencHandle) ELSE inQ
    BY <1>5 DEF PutInput, ChnInputPortPutBuf
  <2>2. Queued'
    <3>1. CASE hVencHandle \in inHeld
      <4>1. PICK b \in InBufs : b = hVencHandle
        BY <3>1 DEF IInv, TypeOK
      <4>2. \E f \in Frames : Mosaic(layout, inPix[b], f)
        BY <2>1, <3>1, <4>1 DEF CopiedWhole
      <4>3. /\ DOMAIN inQ' = 1..(Len(inQ) + 1)
            /\ \A k \in DOMAIN inQ : inQ'[k] = inQ[k]
            /\ inQ'[Len(inQ) + 1] = b
            /\ Len(inQ) \in Nat /\ DOMAIN inQ = 1..Len(inQ)
        <5>1. inQ \in Seq(InBufs) /\ inQ' = Append(inQ, b)
          BY <2>1, <3>1, <4>1 DEF IInv, TypeOK
        <5>2. QED
          BY <5>1, Appended
      <4>4. \A k \in DOMAIN inQ' : k \in DOMAIN inQ \/ k = Len(inQ) + 1
        BY <4>3
      <4>5. ASSUME NEW k \in DOMAIN inQ'
            PROVE  \E f \in Frames : Mosaic(layout, inPix[inQ'[k]], f)
        BY <4>2, <4>3, <4>4 DEF Queued
      <4>6. QED
        BY <2>1, <4>5 DEF Queued
    <3>2. CASE hVencHandle \notin inHeld
      BY <2>1, <3>2 DEF Queued
    <3>3. QED
      BY <3>1, <3>2
  <2>3. QED
    BY <2>1, <2>2 DEF Blank, Copying, CopiedWhole
<1>6. CASE Capture
  <2>1. UNCHANGED <<layout, at, i, hHandle, hVencHandle, inVars>>
    BY <1>6 DEF Capture
  <2>2. at = "copy" => outPix'[hHandle] = outPix[hHandle]
    <3>1. PICK b \in FreeOutBufs, f \in Frames : outPix' = [outPix EXCEPT ![b] = f]
      BY <1>6 DEF Capture
    <3>2. at = "copy" => hHandle \in outHeld /\ b # hHandle /\ hHandle \in OutBufs
      BY DEF IInv, TypeOK, Holds, FreeOutBufs
    <3>3. QED
      BY <3>1, <3>2 DEF IInv, TypeOK
  <2>3. QED
    BY <2>1, <2>2 DEF Blank, Copying, CopiedWhole, Queued
<1>7. CASE Encode
  <2>1. /\ inQ # <<>> /\ inQ' = Tail(inQ) /\ inQ \in Seq(InBufs)
        /\ UNCHANGED <<layout, at, i, hHandle, hVencHandle, outPix, inPix, inHeld>>
    BY <1>7 DEF Encode, IInv, TypeOK, outVars
  <2>2. \A k \in DOMAIN inQ' : inQ'[k] = inQ[k + 1] /\ k + 1 \in DOMAIN inQ
    BY <2>1, Removed
  <2>3. Queued'
    BY <2>1, <2>2 DEF Queued
  <2>4. QED
    BY <2>1, <2>3 DEF Blank, Copying, CopiedWhole
<1>8. CASE UNCHANGED vars
  BY <1>8 DEF vars, outVars, Blank, Copying, CopiedWhole, Queued
<1>9. QED
  BY <1>1, <1>2, <1>3, <1>4, <1>5, <1>6, <1>7, <1>8 DEF Next, YUVdataProcess

LEMMA PictureInvariance == Spec => []PicturesOK
<1>1. QED
  BY Invariance, InitPicturesOK, PictureStep, PTL DEF Spec

(* Every picture that waits to be encoded is the mosaic of one frame, for  *)
(* every resolution, grid and table: the address arithmetic of             *)
(* reorganizeYUV puts each input in its place, and the drivers change      *)
(* neither the frame nor the picture while the thread copies.              *)
THEOREM EveryPictureIsMosaic == Spec => []PicturesAreMosaics
<1>1. PicturesOK => PicturesAreMosaics
  BY SampleIsMosaicSample DEF PicturesOK, Queued, Mosaic, PicturesAreMosaics
<1>2. QED
  BY PictureInvariance, <1>1, PTL
=============================================================================
