--------------------------- MODULE BrowserPlayerProofs ---------------------------
(* The order of the pictures on their way from the websocket to the        *)
(* canvases, and what the canvases show, for streams of any length, any    *)
(* grid and any calls of the page.                                         *)
EXTENDS BrowserPlayer, SequenceTheorems, FiniteSetTheorems,
        WellFoundedInduction, TLAPS

(* A picture that a FileReader overtook (one in L) owes no order to those  *)
(* before it.                                                              *)
Below(S, T, L) == \A x \in S : \A y \in T : x <= y \/ y \in L
Ascending(s, L) == \A i, j \in DOMAIN s : i < j => s[i] <= s[j] \/ s[j] \in L

(* What is behind each place of the way. *)
BehindWorker == packetReaders
BehindDecoder == ToSet(toWorker) \cup BehindWorker
BehindQueue == ToSet(delayed) \cup BehindDecoder
BehindReaders == ToSet(toPage) \cup BehindQueue
BehindImage == pictureReaders \cup BehindReaders

PipeTyped ==
  /\ sent \in Nat /\ src \in Nat /\ shown \in 0..sent
  /\ late \subseteq 1..sent
  /\ toWorker \in Seq(Nat) /\ delayed \in Seq(Nat) /\ toPage \in Seq(Nat)
  /\ BehindImage \subseteq 1..sent
  /\ src <= sent

(* Everything but what was overtaken is behind what is older, and each     *)
(* queue is in order.                                                      *)
PipeOrdered ==
  /\ Below({shown}, {src} \cup BehindImage, late)
  /\ Below({src}, BehindImage, late)
  /\ Below(pictureReaders, BehindReaders, late)
  /\ Below(ToSet(toPage), BehindQueue, late)
  /\ Below(ToSet(delayed), BehindDecoder, late)
  /\ Below(ToSet(toWorker), BehindWorker, late)
  /\ Ascending(toPage, late) /\ Ascending(delayed, late) /\ Ascending(toWorker, late)

(* What is behind a place is not at it.                                    *)
Apart ==
  /\ src \notin BehindImage
  /\ pictureReaders \cap BehindReaders = {}
  /\ ToSet(toPage) \cap BehindQueue = {}
  /\ ToSet(delayed) \cap BehindDecoder = {}
  /\ ToSet(toWorker) \cap BehindWorker = {}
  /\ IsInjective(toWorker) /\ IsInjective(delayed) /\ IsInjective(toPage)

IInv == PipeTyped /\ PipeOrdered /\ Apart /\ IdleIsExact

-----------------------------------------------------------------------------
(* Sequences of numbers in order: adding one at the end, taking the first, *)
(* appending a sequence and cutting one; nothing comes to be there twice.  *)
LEMMA AfterAppend ==
  ASSUME NEW s \in Seq(Nat), NEW e \in Nat, NEW L
  PROVE  /\ Append(s, e) \in Seq(Nat)
         /\ ToSet(Append(s, e)) = ToSet(s) \cup {e}
         /\ Ascending(s, L) /\ Below(ToSet(s), {e}, L) => Ascending(Append(s, e), L)
         /\ IsInjective(s) /\ e \notin ToSet(s) => IsInjective(Append(s, e))
<1> DEFINE t == Append(s, e)
<1>1. /\ t \in Seq(Nat) /\ Len(t) = Len(s) + 1 /\ Len(s) \in Nat
      /\ \A i \in 1..Len(s) : t[i] = s[i] /\ s[i] \in Nat
      /\ t[Len(s) + 1] = e
      /\ DOMAIN s = 1..Len(s) /\ DOMAIN t = 1..(Len(s) + 1)
  OBVIOUS
<1> HIDE DEF t
<1>2. \A i \in DOMAIN t : i \in DOMAIN s \/ i = Len(s) + 1
  BY <1>1
<1>3. ToSet(t) = ToSet(s) \cup {e}
  <2>1. ToSet(t) \subseteq ToSet(s) \cup {e}
    BY <1>1, <1>2 DEF ToSet
  <2>2. \A i \in DOMAIN s : i \in DOMAIN t
    BY <1>1
  <2>3. Len(s) + 1 \in DOMAIN t
    BY <1>1
  <2>4. ToSet(s) \cup {e} \subseteq ToSet(t)
    BY <1>1, <2>2, <2>3 DEF ToSet
  <2> QED
    BY <2>1, <2>4
<1>4. ASSUME Ascending(s, L), Below(ToSet(s), {e}, L)
      PROVE  Ascending(t, L)
  <2> SUFFICES ASSUME NEW i \in DOMAIN t, NEW j \in DOMAIN t, i < j
               PROVE  t[i] <= t[j] \/ t[j] \in L
    BY DEF Ascending
  <2>1. i \in DOMAIN s
    BY <1>1
  <2>2. CASE j \in DOMAIN s
    BY <1>1, <1>4, <2>1, <2>2 DEF Ascending
  <2>3. CASE j = Len(s) + 1
    <3>1. s[i] \in ToSet(s)
      BY <2>1 DEF ToSet
    <3> QED
      BY <1>1, <1>4, <2>1, <2>3, <3>1 DEF Below
  <2> QED
    BY <1>2, <2>2, <2>3
<1>5. ASSUME IsInjective(s), e \notin ToSet(s)
      PROVE  IsInjective(t)
  <2> SUFFICES ASSUME NEW i \in DOMAIN t, NEW j \in DOMAIN t, t[i] = t[j]
               PROVE  i = j
    BY DEF IsInjective
  <2>1. \A k \in DOMAIN s : t[k] = s[k] /\ s[k] # e
    BY <1>1, <1>5 DEF ToSet
  <2> QED
    BY <1>1, <1>2, <1>5, <2>1 DEF IsInjective
<1> QED
  BY <1>1, <1>3, <1>4, <1>5 DEF t

LEMMA AfterTail ==
  ASSUME NEW s \in Seq(Nat), s # <<>>, NEW L
  PROVE  /\ Tail(s) \in Seq(Nat) /\ Head(s) \in Nat
         /\ ToSet(s) = {Head(s)} \cup ToSet(Tail(s))
         /\ Ascending(s, L) => /\ Ascending(Tail(s), L)
                            /\ Below({Head(s)}, ToSet(Tail(s)), L)
         /\ IsInjective(s) => IsInjective(Tail(s)) /\ Head(s) \notin ToSet(Tail(s))
<1> DEFINE t == Tail(s)
<1>1. /\ t \in Seq(Nat) /\ Len(s) \in Nat /\ Len(s) >= 1 /\ Len(t) = Len(s) - 1
      /\ \A i \in 1..Len(t) : t[i] = s[i + 1]
      /\ DOMAIN s = 1..Len(s) /\ DOMAIN t = 1..Len(t)
      /\ Head(s) = s[1] /\ s[1] \in Nat
  OBVIOUS
<1> HIDE DEF t
<1>2. \A i \in DOMAIN t : i + 1 \in DOMAIN s /\ 1 < i + 1
  BY <1>1
<1>3. ASSUME NEW i \in DOMAIN s, i # 1
      PROVE  i - 1 \in DOMAIN t /\ s[i] = t[i - 1]
  <2>1. i - 1 \in 1..Len(t) /\ (i - 1) + 1 = i
    BY <1>1, <1>3
  <2> QED
    BY <1>1, <2>1
<1>4. 1 \in DOMAIN s
  BY <1>1
<1>5. ToSet(s) = {Head(s)} \cup ToSet(t)
  <2>1. \A i \in DOMAIN s : s[i] \in {Head(s)} \cup ToSet(t)
    BY <1>1, <1>3 DEF ToSet
  <2>2. \A i \in DOMAIN t : t[i] \in ToSet(s)
    BY <1>1, <1>2 DEF ToSet
  <2>3. ToSet(t) \subseteq ToSet(s)
    BY <2>2 DEF ToSet
  <2>4. Head(s) \in ToSet(s)
    BY <1>1, <1>4 DEF ToSet
  <2> QED
    BY <2>1, <2>3, <2>4 DEF ToSet
<1>6. ASSUME Ascending(s, L)
      PROVE  Ascending(t, L) /\ Below({Head(s)}, ToSet(t), L)
  <2>1. \A i \in DOMAIN t : s[1] <= t[i] \/ t[i] \in L
    BY <1>1, <1>2, <1>4, <1>6 DEF Ascending
  <2>2. \A i, j \in DOMAIN t : i < j => t[i] <= t[j] \/ t[j] \in L
    <3> TAKE i, j \in DOMAIN t
    <3> HAVE i < j
    <3>1. i + 1 < j + 1
      BY <1>1
    <3> QED
      BY <1>1, <1>2, <1>6, <3>1 DEF Ascending
  <2> QED
    BY <1>1, <2>1, <2>2 DEF Ascending, Below, ToSet
<1>7. ASSUME IsInjective(s)
      PROVE  IsInjective(t) /\ Head(s) \notin ToSet(t)
  <2>1. \A i \in DOMAIN t : t[i] = s[i + 1] /\ i + 1 \in DOMAIN s /\ i + 1 # 1
    BY <1>1, <1>2
  <2>2. ASSUME NEW i \in DOMAIN t, NEW j \in DOMAIN t, t[i] = t[j]
        PROVE  i = j
    <3>1. i + 1 = j + 1
      BY <1>7, <2>1, <2>2 DEF IsInjective
    <3> QED
      BY <1>1, <3>1
  <2>3. \A i \in DOMAIN t : t[i] # s[1]
    BY <1>4, <1>7, <2>1 DEF IsInjective
  <2> QED
    BY <1>1, <2>2, <2>3 DEF IsInjective, ToSet
<1> QED
  BY <1>1, <1>5, <1>6, <1>7 DEF t

LEMMA AfterConcat ==
  ASSUME NEW s \in Seq(Nat), NEW t \in Seq(Nat), NEW L
  PROVE  /\ s \o t \in Seq(Nat)
         /\ ToSet(s \o t) \subseteq ToSet(s) \cup ToSet(t)
         /\ Ascending(s, L) /\ Ascending(t, L) /\ Below(ToSet(s), ToSet(t), L)
              => Ascending(s \o t, L)
         /\ IsInjective(s) /\ IsInjective(t) /\ ToSet(s) \cap ToSet(t) = {}
              => IsInjective(s \o t)
<1> DEFINE u == s \o t
<1>1. /\ u \in Seq(Nat) /\ Len(s) \in Nat /\ Len(t) \in Nat
      /\ Len(u) = Len(s) + Len(t)
      /\ DOMAIN s = 1..Len(s) /\ DOMAIN t = 1..Len(t) /\ DOMAIN u = 1..Len(u)
  OBVIOUS
<1>2. \A i \in DOMAIN u : \/ i \in DOMAIN s /\ u[i] = s[i]
                          \/ i > Len(s) /\ i - Len(s) \in DOMAIN t /\ u[i] = t[i - Len(s)]
  <2>1. \A i \in 1..(Len(s) + Len(t)) :
          u[i] = IF i <= Len(s) THEN s[i] ELSE t[i - Len(s)]
    BY ConcatProperties
  <2> HIDE DEF u
  <2> QED
    BY <1>1, <2>1
<1> HIDE DEF u
<1>3. ToSet(u) \subseteq ToSet(s) \cup ToSet(t)
  BY <1>2 DEF ToSet
<1>4. ASSUME Ascending(s, L), Ascending(t, L), Below(ToSet(s), ToSet(t), L)
      PROVE  Ascending(u, L)
  <2> SUFFICES ASSUME NEW i \in DOMAIN u, NEW j \in DOMAIN u, i < j
               PROVE  u[i] <= u[j] \/ u[j] \in L
    BY DEF Ascending
  <2>1. CASE i \in DOMAIN s /\ u[i] = s[i] /\ j \in DOMAIN s /\ u[j] = s[j]
    BY <1>4, <2>1 DEF Ascending
  <2>2. CASE /\ i \in DOMAIN s /\ u[i] = s[i]
             /\ j - Len(s) \in DOMAIN t /\ u[j] = t[j - Len(s)]
    <3>1. u[i] \in ToSet(s) /\ u[j] \in ToSet(t)
      BY <2>2 DEF ToSet
    <3> QED
      BY <1>4, <3>1 DEF Below
  <2>3. CASE /\ i > Len(s) /\ i - Len(s) \in DOMAIN t /\ u[i] = t[i - Len(s)]
             /\ j - Len(s) \in DOMAIN t /\ u[j] = t[j - Len(s)]
    <3>1. i - Len(s) < j - Len(s)
      BY <1>1
    <3> QED
      BY <1>4, <2>3, <3>1 DEF Ascending
  <2>4. ~(i > Len(s) /\ j \in DOMAIN s)
    BY <1>1
  <2> QED
    BY <1>2, <2>1, <2>2, <2>3, <2>4
<1>5. ASSUME IsInjective(s), IsInjective(t), ToSet(s) \cap ToSet(t) = {}
      PROVE  IsInjective(u)
  <2> SUFFICES ASSUME NEW i \in DOMAIN u, NEW j \in DOMAIN u, u[i] = u[j]
               PROVE  i = j
    BY DEF IsInjective
  <2>1. \A k \in DOMAIN s : \A l \in DOMAIN t : s[k] # t[l]
    BY <1>5 DEF ToSet
  <2>2. CASE i \in DOMAIN s /\ u[i] = s[i] /\ j \in DOMAIN s /\ u[j] = s[j]
    BY <1>5, <2>2 DEF IsInjective
  <2>3. CASE /\ i - Len(s) \in DOMAIN t /\ u[i] = t[i - Len(s)]
             /\ j - Len(s) \in DOMAIN t /\ u[j] = t[j - Len(s)]
    <3>1. i - Len(s) = j - Len(s)
      BY <1>5, <2>3 DEF IsInjective
    <3> QED
      BY <1>1, <3>1
  <2> QED
    BY <1>2, <2>1, <2>2, <2>3
<1> QED
  BY <1>1, <1>3, <1>4, <1>5 DEF u

LEMMA AfterCut ==
  ASSUME NEW s \in Seq(Nat), NEW n \in 0..Len(s), NEW L
  PROVE  LET a == SubSeq(s, 1, n)
             b == SubSeq(s, n + 1, Len(s))
         IN /\ a \in Seq(Nat) /\ b \in Seq(Nat)
            /\ ToSet(a) \cup ToSet(b) \subseteq ToSet(s)
            /\ Ascending(s, L) => /\ Ascending(a, L) /\ Ascending(b, L)
                               /\ Below(ToSet(a), ToSet(b), L)
            /\ IsInjective(s) => /\ IsInjective(a) /\ IsInjective(b)
                                 /\ ToSet(a) \cap ToSet(b) = {}
<1> DEFINE a == SubSeq(s, 1, n)
           b == SubSeq(s, n + 1, Len(s))
<1>1. Len(s) \in Nat /\ DOMAIN s = 1..Len(s) /\ n \in Nat /\ n <= Len(s)
  OBVIOUS
<1>2. /\ a \in Seq(Nat) /\ Len(a) = n /\ DOMAIN a = 1..n
      /\ \A i \in 1..n : a[i] = s[i]
  BY <1>1
<1>3. /\ b \in Seq(Nat) /\ DOMAIN b = 1..(Len(s) - n)
      /\ \A i \in 1..(Len(s) - n) : b[i] = s[n + i]
  <2>1. \A i \in (n + 1)..Len(s) : s[i] \in Nat
    BY <1>1
  <2>2. /\ b \in Seq(Nat)
        /\ Len(b) = IF n + 1 <= Len(s) THEN Len(s) - (n + 1) + 1 ELSE 0
        /\ \A i \in 1..(Len(s) - (n + 1) + 1) : b[i] = s[(n + 1) + i - 1]
    BY <1>1, <2>1, SubSeqProperties
  <2> HIDE DEF b
  <2>3. Len(b) = Len(s) - n /\ DOMAIN b = 1..(Len(s) - n)
    <3>1. Len(b) = Len(s) - n
      BY <1>1, <2>2
    <3>2. DOMAIN b = 1..Len(b)
      BY <2>2, LenProperties
    <3> QED
      BY <3>1, <3>2
  <2>4. ASSUME NEW i \in 1..(Len(s) - n)
        PROVE  b[i] = s[n + i]
    <3>1. i \in 1..(Len(s) - (n + 1) + 1) /\ (n + 1) + i - 1 = n + i
      BY <1>1
    <3> QED
      BY <2>2, <3>1
  <2> QED
    BY <2>2, <2>3, <2>4
<1> HIDE DEF a, b
<1>4. \A i \in DOMAIN a : i \in DOMAIN s /\ i <= n /\ a[i] = s[i]
  BY <1>1, <1>2
<1>5. ASSUME NEW i \in DOMAIN b
      PROVE  n + i \in DOMAIN s /\ n + i > n /\ b[i] = s[n + i]
  <2>1. i \in 1..(Len(s) - n)
    BY <1>3
  <2> QED
    BY <1>1, <1>3, <2>1
<1>6. ToSet(a) \cup ToSet(b) \subseteq ToSet(s)
  <2>1. ToSet(a) \subseteq ToSet(s)
    BY <1>4 DEF ToSet
  <2>2. \A i \in DOMAIN b : b[i] \in ToSet(s)
    BY <1>5 DEF ToSet
  <2> QED
    BY <2>1, <2>2 DEF ToSet
<1>7. ASSUME Ascending(s, L)
      PROVE  Ascending(a, L) /\ Ascending(b, L) /\ Below(ToSet(a), ToSet(b), L)
  <2>1. Ascending(a, L)
    BY <1>4, <1>7 DEF Ascending
  <2>2. Ascending(b, L)
    <3> SUFFICES ASSUME NEW i \in DOMAIN b, NEW j \in DOMAIN b, i < j
                 PROVE  b[i] <= b[j] \/ b[j] \in L
      BY DEF Ascending
    <3>1. n + i < n + j
      BY <1>1, <1>3
    <3> QED
      BY <1>5, <1>7, <3>1 DEF Ascending
  <2>3. \A i \in DOMAIN a : \A j \in DOMAIN b : a[i] <= b[j] \/ b[j] \in L
    <3> TAKE i \in DOMAIN a
    <3> TAKE j \in DOMAIN b
    <3>1. i < n + j
      BY <1>1, <1>2, <1>3
    <3> QED
      BY <1>4, <1>5, <1>7, <3>1 DEF Ascending
  <2> QED
    BY <2>1, <2>2, <2>3 DEF Below, ToSet
<1>8. ASSUME IsInjective(s)
      PROVE  IsInjective(a) /\ IsInjective(b) /\ ToSet(a) \cap ToSet(b) = {}
  <2>1. IsInjective(a)
    BY <1>4, <1>8 DEF IsInjective
  <2>2. ASSUME NEW i \in DOMAIN b, NEW j \in DOMAIN b, b[i] = b[j]
        PROVE  i = j
    <3>1. n + i = n + j
      BY <1>5, <1>8, <2>2 DEF IsInjective
    <3> QED
      BY <1>1, <1>3, <3>1
  <2>3. \A i \in DOMAIN a : \A j \in DOMAIN b : a[i] # b[j]
    <3> TAKE i \in DOMAIN a
    <3> TAKE j \in DOMAIN b
    <3>1. i # n + j
      BY <1>1, <1>4, <1>5
    <3> QED
      BY <1>4, <1>5, <1>8, <3>1 DEF IsInjective
  <2> QED
    BY <2>1, <2>2, <2>3 DEF IsInjective, ToSet
<1> QED
  BY <1>2, <1>3, <1>6, <1>7, <1>8 DEF a, b

(* What the decoder gives out and keeps: of what it had and the packet, in *)
(* order.                                                                  *)
LEMMA Decoded ==
  ASSUME delayed \in Seq(Nat), NEW p \in Nat, NEW d \in Decodings(p), NEW L
  PROVE  /\ d[1] \in Seq(Nat) /\ d[2] \in Seq(Nat)
         /\ ToSet(d[1]) \cup ToSet(d[2]) \subseteq ToSet(delayed) \cup {p}
         /\ Ascending(delayed, L) /\ Below(ToSet(delayed), {p}, L) =>
              Ascending(d[1], L) /\ Ascending(d[2], L) /\ Below(ToSet(d[1]), ToSet(d[2]), L)
         /\ IsInjective(delayed) /\ p \notin ToSet(delayed) =>
              /\ IsInjective(d[1]) /\ IsInjective(d[2])
              /\ ToSet(d[1]) \cap ToSet(d[2]) = {}
<1>1. PICK ps \in {Append(delayed, p), delayed} : \E n \in 0..Len(ps) :
        d = <<SubSeq(ps, 1, n), SubSeq(ps, n + 1, Len(ps))>>
  BY DEF Decodings
<1>2. PICK n \in 0..Len(ps) : d = <<SubSeq(ps, 1, n), SubSeq(ps, n + 1, Len(ps))>>
  BY <1>1
<1>3. /\ ps \in Seq(Nat) /\ ToSet(ps) \subseteq ToSet(delayed) \cup {p}
      /\ Ascending(delayed, L) /\ Below(ToSet(delayed), {p}, L) => Ascending(ps, L)
      /\ IsInjective(delayed) /\ p \notin ToSet(delayed) => IsInjective(ps)
  BY AfterAppend
<1>4. d[1] = SubSeq(ps, 1, n) /\ d[2] = SubSeq(ps, n + 1, Len(ps))
  BY <1>2
<1>5. /\ d[1] \in Seq(Nat) /\ d[2] \in Seq(Nat)
      /\ ToSet(d[1]) \cup ToSet(d[2]) \subseteq ToSet(ps)
      /\ Ascending(ps, L) => /\ Ascending(d[1], L) /\ Ascending(d[2], L)
                             /\ Below(ToSet(d[1]), ToSet(d[2]), L)
      /\ IsInjective(ps) => /\ IsInjective(d[1]) /\ IsInjective(d[2])
                            /\ ToSet(d[1]) \cap ToSet(d[2]) = {}
  <2>1. ps \in Seq(Nat) /\ n \in 0..Len(ps)
    BY <1>3
  <2>2. LET a == SubSeq(ps, 1, n)
            b == SubSeq(ps, n + 1, Len(ps))
        IN /\ a \in Seq(Nat) /\ b \in Seq(Nat)
           /\ ToSet(a) \cup ToSet(b) \subseteq ToSet(ps)
           /\ Ascending(ps, L) => /\ Ascending(a, L) /\ Ascending(b, L)
                                  /\ Below(ToSet(a), ToSet(b), L)
           /\ IsInjective(ps) => /\ IsInjective(a) /\ IsInjective(b)
                                 /\ ToSet(a) \cap ToSet(b) = {}
    BY <2>1, AfterCut, Zenon
  <2> QED
    BY <1>4, <2>2, Zenon
<1> QED
  BY <1>3, <1>5

-----------------------------------------------------------------------------
LEMMA InitIInv == Init => IInv
<1> SUFFICES ASSUME Init
             PROVE  IInv
  OBVIOUS
<1>1. /\ toWorker = <<>> /\ delayed = <<>> /\ toPage = <<>> /\ sent = 0
      /\ packetReaders = {} /\ pictureReaders = {} /\ src = 0 /\ shown = 0
      /\ late = {}
  BY DEF Init, None
<1>2. ToSet(<<>>) = {} /\ Ascending(<<>>, late) /\ <<>> \in Seq(Nat)
  BY DEF ToSet, Ascending
<1>3. BehindImage = {}
  BY <1>1, <1>2 DEF BehindImage, BehindReaders, BehindQueue, BehindDecoder, BehindWorker
<1>4. PipeTyped
  BY <1>1, <1>2, <1>3 DEF PipeTyped
<1>5. PipeOrdered
  BY <1>1, <1>2, <1>3 DEF PipeOrdered, Below
<1>7. Apart
  BY <1>1, <1>2, <1>3 DEF Apart, IsInjective
<1>6. IdleIsExact
  BY DEF Init, IdleIsExact
<1> QED
  BY <1>4, <1>5, <1>6, <1>7 DEF IInv

(* The way of the pictures in a step that does not touch it.               *)
LEMMA PipeUnchanged ==
  ASSUME IInv, IdleIsExact',
         UNCHANGED <<late, sent, src, shown, packetReaders, toWorker, delayed, toPage,
                     pictureReaders>>
  PROVE  IInv'
<1>1. PipeTyped'
  BY DEF IInv, PipeTyped, BehindImage, BehindReaders, BehindQueue, BehindDecoder,
         BehindWorker
<1>2. PipeOrdered' /\ Apart'
  BY DEF IInv, PipeOrdered, Apart, BehindImage, BehindReaders, BehindQueue,
         BehindDecoder, BehindWorker
<1> QED
  BY <1>1, <1>2 DEF IInv

LEMMA NextIInv == IInv /\ [Next]_vars => IInv'
<1> SUFFICES ASSUME IInv, [Next]_vars
             PROVE  IInv'
  OBVIOUS
<1> USE DEF BehindImage, BehindReaders, BehindQueue, BehindDecoder, BehindWorker
<1>0. PipeTyped /\ IdleIsExact /\ PipeOrdered /\ Apart
  BY DEF IInv
<1>1. CASE on_packet
  <2>1. /\ sent' = sent + 1 /\ packetReaders' = packetReaders \cup {sent + 1}
        /\ UNCHANGED <<toWorker, delayed, toPage, pictureReaders, src, shown,
                       late, Idle, load>>
    BY <1>1 DEF on_packet, workerVars, imgVars, canvasVars
  <2>2. PipeTyped'
    BY <1>0, <2>1 DEF PipeTyped
  <2>3. \A x \in BehindImage \cup {src, shown} : x < sent + 1
    BY <1>0 DEF PipeTyped
  <2>4. PipeOrdered'
    <3>1. \A x \in BehindImage \cup {src, shown} : x <= sent + 1
      BY <1>0 DEF PipeTyped
    <3> QED
      BY <1>0, <2>1, <3>1 DEF PipeOrdered, Below
  <2>5. Apart'
    <3>1. sent + 1 \notin BehindImage \cup {src}
      BY <1>0, <2>3 DEF PipeTyped
    <3> QED
      BY <1>0, <2>1, <3>1 DEF Apart
  <2> QED
    BY <1>0, <2>1, <2>2, <2>4, <2>5 DEF IInv, IdleIsExact
<1>2. ASSUME NEW p \in Packets, PacketRead(p)
      PROVE  IInv'
  <2>1. /\ p \in packetReaders /\ packetReaders' = packetReaders \ {p}
        /\ toWorker' = Append(toWorker, p)
        /\ late' = late \cup {q \in packetReaders : q < p}
        /\ UNCHANGED <<sent, delayed, toPage, pictureReaders, src, shown, Idle, load>>
    BY <1>2 DEF PacketRead, workerVars, imgVars, canvasVars
  <2>2. p \in Nat /\ p \in 1..sent /\ toWorker \in Seq(Nat)
    BY <1>0, <2>1 DEF PipeTyped
  <2>3. /\ toWorker' \in Seq(Nat) /\ ToSet(toWorker') = ToSet(toWorker) \cup {p}
        /\ Ascending(toWorker, late') /\ Below(ToSet(toWorker), {p}, late')
             => Ascending(toWorker', late')
        /\ IsInjective(toWorker) /\ p \notin ToSet(toWorker) => IsInjective(toWorker')
    BY <2>1, <2>2, AfterAppend
  <2>4. BehindImage' = BehindImage /\ BehindReaders' = BehindReaders
        /\ BehindQueue' = BehindQueue /\ BehindDecoder' = BehindDecoder
    BY <2>1, <2>3
  <2>5. PipeTyped'
    <3>1. late' \subseteq 1..sent
      BY <1>0, <2>1 DEF PipeTyped
    <3> HIDE DEF BehindImage
    <3> QED
      BY <1>0, <2>1, <2>3, <2>4, <3>1 DEF PipeTyped
  <2>6. PipeOrdered'
    <3>1. PipeOrdered /\ late \subseteq late'
      BY <1>0, <2>1
    <3>2. \A q \in packetReaders : p <= q \/ q \in late'
      <4>1. \A q \in packetReaders : q \in Nat
        BY <1>0 DEF PipeTyped
      <4> QED
        BY <2>1, <2>2, <4>1
    <3>3. Below(ToSet(toWorker), {p}, late') /\ Ascending(toWorker, late')
      BY <2>1, <3>1 DEF PipeOrdered, Below, Ascending
    <3>4. Below(ToSet(toWorker'), packetReaders', late')
      BY <2>1, <2>3, <3>1, <3>2 DEF PipeOrdered, Below
    <3> HIDE DEF BehindImage, BehindReaders, BehindQueue, BehindDecoder
    <3>5. /\ Below({shown}, {src} \cup BehindImage, late') /\ Below({src}, BehindImage, late')
          /\ Below(pictureReaders, BehindReaders, late')
          /\ Below(ToSet(toPage), BehindQueue, late')
          /\ Below(ToSet(delayed), BehindDecoder, late')
          /\ Ascending(toPage, late') /\ Ascending(delayed, late')
      BY <3>1 DEF PipeOrdered, Below, Ascending
    <3> QED
      BY <2>1, <2>3, <2>4, <3>3, <3>4, <3>5 DEF PipeOrdered
  <2>7. Apart'
    <3>1. p \notin ToSet(toWorker) /\ IsInjective(toWorker')
      BY <1>0, <2>1, <2>3 DEF Apart
    <3>2. ToSet(toWorker') \cap packetReaders' = {}
      BY <1>0, <2>1, <2>3 DEF Apart
    <3> HIDE DEF BehindImage, BehindReaders, BehindQueue, BehindDecoder
    <3> QED
      BY <1>0, <2>1, <2>4, <3>1, <3>2 DEF Apart
  <2> QED
    BY <1>0, <2>1, <2>5, <2>6, <2>7 DEF IInv, IdleIsExact
<1>3. CASE waitWasmLoading \/ StartDecoding
  <2>1. UNCHANGED <<sent, src, shown, packetReaders, toWorker, delayed, toPage,
                    pictureReaders, late, Idle, load>>
    BY <1>3 DEF waitWasmLoading, StartDecoding, imgVars, canvasVars
  <2> QED
    BY <1>0, <2>1, PipeUnchanged DEF IdleIsExact
<1>4. CASE worker_onmessage
  <2>1. /\ toWorker # <<>> /\ toWorker' = Tail(toWorker)
        /\ UNCHANGED <<sent, src, shown, packetReaders, pictureReaders, late,
                       Idle, load>>
    BY <1>4 DEF worker_onmessage, imgVars, canvasVars
  <2> DEFINE p == Head(toWorker)
  <2>2. PICK out \in Seq(Nat), kept \in Seq(Nat) :
          /\ toPage' = toPage \o out /\ delayed' = kept
          /\ ToSet(out) \cup ToSet(kept) \subseteq ToSet(delayed) \cup {p}
          /\ Ascending(delayed, late) /\ Below(ToSet(delayed), {p}, late) =>
               Ascending(out, late) /\ Ascending(kept, late) /\ Below(ToSet(out), ToSet(kept), late)
          /\ IsInjective(delayed) /\ p \notin ToSet(delayed) =>
               IsInjective(out) /\ IsInjective(kept) /\ ToSet(out) \cap ToSet(kept) = {}
    <3>1. CASE start
      <4>1. PICK d \in Decodings(p) : toPage' = toPage \o d[1] /\ delayed' = d[2]
        BY <1>4, <3>1 DEF worker_onmessage, PostFrames
      <4>2. p \in Nat /\ delayed \in Seq(Nat)
        BY <1>0, <2>1, AfterTail DEF PipeTyped
      <4> HIDE DEF p
      <4>3. /\ d[1] \in Seq(Nat) /\ d[2] \in Seq(Nat)
            /\ ToSet(d[1]) \cup ToSet(d[2]) \subseteq ToSet(delayed) \cup {p}
            /\ Ascending(delayed, late) /\ Below(ToSet(delayed), {p}, late) =>
                 Ascending(d[1], late) /\ Ascending(d[2], late) /\ Below(ToSet(d[1]), ToSet(d[2]), late)
            /\ IsInjective(delayed) /\ p \notin ToSet(delayed) =>
                 IsInjective(d[1]) /\ IsInjective(d[2]) /\ ToSet(d[1]) \cap ToSet(d[2]) = {}
        BY <4>2, Decoded
      <4> QED
        BY <4>1, <4>3
    <3>2. CASE ~start
      <4>1. toPage' = toPage /\ delayed' = delayed
        BY <1>4, <3>2 DEF worker_onmessage
      <4>2. toPage \in Seq(Nat) /\ delayed \in Seq(Nat)
        BY <1>0 DEF PipeTyped
      <4>3. toPage \o <<>> = toPage /\ <<>> \in Seq(Nat) /\ ToSet(<<>>) = {}
            /\ Ascending(<<>>, late) /\ IsInjective(<<>>)
        BY <4>2, ConcatEmptySeq, EmptySeq DEF ToSet, Ascending, IsInjective
      <4>4. Below(ToSet(<<>>), ToSet(delayed), late)
        BY <4>3 DEF Below
      <4>5. ToSet(<<>>) \cup ToSet(delayed) \subseteq ToSet(delayed) \cup {p}
        BY <4>3
      <4> QED
        BY <4>1, <4>2, <4>3, <4>4, <4>5
    <3> QED
      BY <3>1, <3>2
  <2>3. /\ toWorker' \in Seq(Nat) /\ p \in Nat
        /\ ToSet(toWorker) = {p} \cup ToSet(toWorker')
        /\ Ascending(toWorker, late) => Ascending(toWorker', late) /\ Below({p}, ToSet(toWorker'), late)
        /\ IsInjective(toWorker) => IsInjective(toWorker') /\ p \notin ToSet(toWorker')
    BY <1>0, <2>1, AfterTail DEF PipeTyped
  <2>4. /\ toPage' \in Seq(Nat) /\ ToSet(toPage') \subseteq ToSet(toPage) \cup ToSet(out)
        /\ Ascending(toPage, late) /\ Ascending(out, late) /\ Below(ToSet(toPage), ToSet(out), late)
             => Ascending(toPage', late)
        /\ IsInjective(toPage) /\ IsInjective(out) /\ ToSet(toPage) \cap ToSet(out) = {}
             => IsInjective(toPage')
    BY <1>0, <2>2, AfterConcat DEF PipeTyped
  <2> HIDE DEF p
  <2>5. PipeTyped'
    BY <1>0, <2>1, <2>2, <2>3, <2>4 DEF PipeTyped
  <2>6. PipeOrdered'
    <3>1. PipeOrdered
      BY <1>0
    <3>2. Below(ToSet(delayed), {p}, late) /\ Ascending(delayed, late)
      BY <2>3, <3>1 DEF PipeOrdered, Below
    <3>3. Ascending(out, late) /\ Ascending(kept, late) /\ Below(ToSet(out), ToSet(kept), late)
      BY <2>2, <3>2
    <3>4. Below({p}, ToSet(toWorker') \cup packetReaders, late)
      BY <2>3, <3>1 DEF PipeOrdered, Below
    <3>5. Below(ToSet(delayed) \cup {p}, ToSet(toWorker') \cup packetReaders, late)
      BY <2>3, <3>1, <3>4 DEF PipeOrdered, Below
    <3>6. Below(ToSet(toPage), ToSet(delayed) \cup {p} \cup ToSet(toWorker') \cup packetReaders, late)
      BY <2>3, <3>1 DEF PipeOrdered, Below
    <3>7. Ascending(toPage', late)
      BY <2>2, <2>4, <3>1, <3>3, <3>6 DEF PipeOrdered, Below
    <3>8. Below(ToSet(toPage'), BehindQueue', late)
      BY <2>1, <2>2, <2>4, <3>3, <3>5, <3>6 DEF Below
    <3>9. Below(ToSet(delayed'), BehindDecoder', late)
      BY <2>1, <2>2, <3>5 DEF Below
    <3>10. BehindReaders' \subseteq BehindReaders
      BY <2>1, <2>2, <2>3, <2>4
    <3>11. /\ Below({src}, BehindImage', late) /\ Below(pictureReaders, BehindReaders', late)
           /\ Below({shown}, {src} \cup BehindImage', late)
      BY <2>1, <3>1, <3>10 DEF PipeOrdered, Below
    <3>12. Below(ToSet(toWorker'), packetReaders, late)
      BY <2>3, <3>1 DEF PipeOrdered, Below
    <3>13. Ascending(delayed', late) /\ Ascending(toWorker', late)
      BY <2>1, <2>2, <2>3, <3>1, <3>3 DEF PipeOrdered
    <3> QED
      BY <2>1, <3>7, <3>8, <3>9, <3>11, <3>12, <3>13 DEF PipeOrdered
  <2>7. Apart'
    <3>1. p \notin ToSet(delayed) /\ p \in BehindDecoder
      BY <1>0, <2>3 DEF Apart
    <3>2. IsInjective(out) /\ IsInjective(kept) /\ ToSet(out) \cap ToSet(kept) = {}
      BY <1>0, <2>2, <3>1 DEF Apart
    <3>3. /\ BehindDecoder' \subseteq BehindDecoder
          /\ p \notin BehindDecoder'
      BY <1>0, <2>1, <2>3 DEF Apart
    <3>4. ToSet(delayed) \cap BehindDecoder' = {} /\ ToSet(toPage) \cap BehindQueue = {}
      BY <1>0, <3>3 DEF Apart
    <3>5. ToSet(toPage) \cap ToSet(out) = {} /\ IsInjective(toPage')
      BY <1>0, <2>2, <2>4, <3>1, <3>4 DEF Apart
    <3>6. (ToSet(out) \cup ToSet(kept)) \cap BehindDecoder' = {}
      BY <2>2, <3>3, <3>4
    <3>7. BehindQueue' \subseteq BehindQueue
      BY <2>2, <3>1, <3>3
    <3>8. ToSet(toPage') \cap BehindQueue' = {}
      <4>1. ToSet(toPage) \cap BehindQueue' = {}
        BY <3>4, <3>7
      <4>2. ToSet(out) \cap BehindQueue' = {}
        BY <2>2, <3>2, <3>6
      <4> QED
        BY <2>4, <4>1, <4>2
    <3>9. BehindReaders' \subseteq BehindReaders /\ BehindImage' \subseteq BehindImage
      BY <2>1, <2>2, <2>4, <3>1, <3>7
    <3>10. ToSet(toWorker') \cap packetReaders' = {} /\ IsInjective(toWorker')
      BY <1>0, <2>1, <2>3 DEF Apart
    <3>11. ToSet(delayed') \cap BehindDecoder' = {}
      BY <2>2, <3>6
    <3>12. src' \notin BehindImage' /\ pictureReaders' \cap BehindReaders' = {}
      BY <1>0, <2>1, <3>9 DEF Apart
    <3> QED
      BY <2>2, <3>2, <3>5, <3>8, <3>10, <3>11, <3>12 DEF Apart
  <2> QED
    BY <1>0, <2>1, <2>5, <2>6, <2>7 DEF IInv, IdleIsExact
<1>5. CASE page_onmessage
  <2>1. /\ toPage # <<>> /\ toPage' = Tail(toPage)
        /\ pictureReaders' = pictureReaders \cup {Head(toPage)}
        /\ UNCHANGED <<sent, src, shown, packetReaders, toWorker, delayed, late,
                       Idle, load>>
    BY <1>5 DEF page_onmessage, workerVars, imgVars, canvasVars
  <2> DEFINE p == Head(toPage)
  <2>2. /\ toPage' \in Seq(Nat) /\ p \in Nat
        /\ ToSet(toPage) = {p} \cup ToSet(toPage')
        /\ Ascending(toPage, late) => Ascending(toPage', late) /\ Below({p}, ToSet(toPage'), late)
        /\ IsInjective(toPage) => IsInjective(toPage') /\ p \notin ToSet(toPage')
    BY <1>0, <2>1, AfterTail DEF PipeTyped
  <2> HIDE DEF p
  <2>3. pictureReaders' = pictureReaders \cup {p}
    BY <2>1 DEF p
  <2>4. BehindImage' = BehindImage
    BY <2>1, <2>2, <2>3
  <2>5. PipeTyped'
    <3> HIDE DEF BehindImage
    <3> QED
      BY <1>0, <2>1, <2>2, <2>4 DEF PipeTyped
  <2>6. PipeOrdered'
    <3>1. PipeOrdered
      BY <1>0
    <3>2. Below(pictureReaders', BehindReaders', late)
      BY <2>1, <2>2, <2>3, <3>1 DEF PipeOrdered, Below
    <3>3. Below(ToSet(toPage'), BehindQueue', late)
      BY <2>1, <2>2, <3>1 DEF PipeOrdered, Below
    <3>4. Below({src'}, BehindImage', late) /\ Below({shown'}, {src'} \cup BehindImage', late)
      BY <2>1, <2>4, <3>1 DEF PipeOrdered
    <3>5. /\ Ascending(toPage', late) /\ Ascending(delayed', late) /\ Ascending(toWorker', late)
          /\ Below(ToSet(delayed'), BehindDecoder', late) /\ Below(ToSet(toWorker'), BehindWorker', late)
      BY <2>1, <2>2, <3>1 DEF PipeOrdered
    <3> QED
      BY <2>1, <3>2, <3>3, <3>4, <3>5 DEF PipeOrdered
  <2>7. Apart'
    <3>1. p \notin ToSet(toPage') /\ p \notin BehindQueue /\ IsInjective(toPage')
      BY <1>0, <2>2 DEF Apart
    <3>2. BehindQueue' = BehindQueue
      BY <2>1
    <3>3. pictureReaders' \cap BehindReaders' = {}
      BY <1>0, <2>2, <2>3, <3>1, <3>2 DEF Apart
    <3>4. ToSet(toPage') \cap BehindQueue' = {}
      BY <1>0, <2>2, <3>2 DEF Apart
    <3>5. src' \notin BehindImage'
      BY <1>0, <2>1, <2>4 DEF Apart
    <3> QED
      BY <1>0, <2>1, <3>1, <3>3, <3>4, <3>5 DEF Apart
  <2> QED
    BY <1>0, <2>1, <2>5, <2>6, <2>7 DEF IInv, IdleIsExact
<1>6. ASSUME NEW p \in Packets, PictureRead(p)
      PROVE  IInv'
  <2>1. /\ p \in pictureReaders /\ pictureReaders' = pictureReaders \ {p}
        /\ src' \in {src, p}
        /\ late' = late \cup {q \in pictureReaders : q < p}
        /\ UNCHANGED <<sent, shown, packetReaders, toWorker, delayed, toPage>>
    BY <1>6 DEF PictureRead, SetSource, workerVars, imgVars, canvasVars
  <2>2. IdleIsExact'
    BY <1>0, <1>6 DEF PictureRead, SetSource, imgVars, IdleIsExact
  <2>3. PipeTyped'
    <3>0. pictureReaders \subseteq 1..sent /\ sent \in Nat
      BY <1>0 DEF PipeTyped
    <3>1. late' \subseteq 1..sent /\ src' \in Nat /\ src' <= sent
      <4>1. p \in Nat /\ p <= sent /\ src \in Nat /\ src <= sent /\ late \subseteq 1..sent
        BY <1>0, <2>1, <3>0 DEF PipeTyped
      <4> QED
        BY <2>1, <3>0, <4>1
    <3>2. BehindImage' \subseteq BehindImage
      BY <2>1
    <3> HIDE DEF BehindImage
    <3> QED
      BY <1>0, <2>1, <3>1, <3>2 DEF PipeTyped
  <2>4. PipeOrdered'
    <3>1. PipeOrdered /\ late \subseteq late'
      BY <1>0, <2>1
    <3>2. \A q \in pictureReaders : p <= q \/ q \in late'
      <4>1. p \in Nat /\ \A q \in pictureReaders : q \in Nat
        BY <1>0, <2>1 DEF PipeTyped
      <4> QED
        BY <2>1, <4>1
    <3>3. Below({p}, BehindImage, late')
      BY <2>1, <3>1, <3>2 DEF PipeOrdered, Below
    <3>4. p \in BehindImage /\ BehindImage' \subseteq BehindImage
      BY <2>1
    <3>5. BehindReaders' = BehindReaders /\ BehindQueue' = BehindQueue
          /\ BehindDecoder' = BehindDecoder /\ BehindWorker' = BehindWorker
      BY <2>1
    <3> HIDE DEF BehindImage, BehindReaders, BehindQueue, BehindDecoder, BehindWorker
    <3>6. Below({src'}, BehindImage', late') /\ Below({shown'}, {src'} \cup BehindImage', late')
      BY <2>1, <3>1, <3>3, <3>4 DEF PipeOrdered, Below
    <3>7. /\ Below(pictureReaders', BehindReaders, late')
          /\ Below(ToSet(toPage), BehindQueue, late')
          /\ Below(ToSet(delayed), BehindDecoder, late')
          /\ Below(ToSet(toWorker), BehindWorker, late')
          /\ Ascending(toPage, late') /\ Ascending(delayed, late')
          /\ Ascending(toWorker, late')
      BY <2>1, <3>1 DEF PipeOrdered, Below, Ascending
    <3> QED
      BY <2>1, <3>5, <3>6, <3>7 DEF PipeOrdered
  <2>5. Apart'
    <3>1. p \notin BehindReaders
      BY <1>0, <2>1 DEF Apart
    <3>2. src' \notin BehindImage' /\ pictureReaders' \cap BehindReaders' = {}
      BY <1>0, <2>1, <3>1 DEF Apart
    <3> QED
      BY <1>0, <2>1, <3>2 DEF Apart
  <2> QED
    BY <2>2, <2>3, <2>4, <2>5 DEF IInv
<1>7. CASE img_onload
  <2>1. /\ load = "loading" /\ load' = "complete" /\ Idle' = TRUE
        /\ shown' \in {shown, src}
        /\ UNCHANGED <<sent, packetReaders, toWorker, delayed, toPage,
                       pictureReaders, src, late>>
    BY <1>7 DEF img_onload, workerVars
  <2>2. PipeTyped'
    BY <1>0, <2>1 DEF PipeTyped
  <2>3. PipeOrdered'
    <3>1. Below({shown}, {src} \cup BehindImage, late) /\ Below({src}, BehindImage, late)
          /\ src <= src
      BY <1>0 DEF PipeOrdered, PipeTyped
    <3>2. Below({shown'}, {src} \cup BehindImage, late)
      <4> HIDE DEF BehindImage
      <4> QED
        BY <2>1, <3>1 DEF Below
    <3> QED
      BY <1>0, <2>1, <3>2 DEF PipeOrdered
  <2>4. Apart'
    BY <1>0, <2>1 DEF Apart
  <2> QED
    BY <2>1, <2>2, <2>3, <2>4 DEF IInv, IdleIsExact
<1>8. CASE img_onerror
  <2>1. /\ load = "loading" /\ load' = "broken"
        /\ UNCHANGED <<sent, src, shown, packetReaders, toWorker, delayed, toPage,
                       pictureReaders, late, Idle>>
    BY <1>8 DEF img_onerror, workerVars, canvasVars
  <2> QED
    BY <1>0, <2>1, PipeUnchanged DEF IdleIsExact
<1>9. CASE PageScript
  <2>1. UNCHANGED <<sent, src, shown, packetReaders, toWorker, delayed, toPage,
                    pictureReaders, late, Idle, load>>
    BY <1>9 DEF PageScript, registerCanvasSimple, registerCanvas, clearCanvas,
                workerVars, imgVars
  <2> QED
    BY <1>0, <2>1, PipeUnchanged DEF IdleIsExact
<1>10. CASE UNCHANGED vars
  <2>1. UNCHANGED <<sent, src, shown, packetReaders, toWorker, delayed, toPage,
                    pictureReaders, late, Idle, load>>
    BY <1>10 DEF vars, workerVars, imgVars, canvasVars
  <2> QED
    BY <1>0, <2>1, PipeUnchanged DEF IdleIsExact
<1> QED
  BY <1>1, <1>2, <1>3, <1>4, <1>5, <1>6, <1>7, <1>8, <1>9, <1>10
     DEF Next, PacketReaders, PictureReaders, Done

LEMMA Invariance == Spec => []IInv
  BY InitIInv, NextIInv, PTL DEF Spec

(* Idle of ffmpeg.js tells what the <img> does, whatever comes in between. *)
THEOREM IdleTellsTheImage == Spec => []IdleIsExact
<1>1. IInv => IdleIsExact
  BY DEF IInv
<1> QED
  BY Invariance, <1>1, PTL

(* For streams of any length: the canvases go back to no picture but one   *)
(* that a FileReader has overtaken, whatever else is overtaken or dropped  *)
(* (img.onload).                                                           *)
THEOREM ViewNeverGoesBack == Spec => NeverGoesBack
<1>1. IInv /\ [Next]_vars => [shown' < shown => shown' \in late]_vars
  <2> SUFFICES ASSUME IInv, Next, shown' < shown
               PROVE  shown' \in late
    OBVIOUS
  <2>1. shown \in Nat /\ src \in Nat
    BY DEF IInv, PipeTyped
  <2>2. CASE img_onload
    <3>1. shown' \in {shown, src}
      BY <2>2 DEF img_onload
    <3>2. shown <= src \/ src \in late
      BY DEF IInv, PipeOrdered, Below
    <3> QED
      BY <2>1, <3>1, <3>2
  <2>3. CASE ~img_onload
    <3>1. shown' = shown
      BY <2>3 DEF Next, on_packet, PacketReaders, PacketRead, waitWasmLoading, StartDecoding,
         worker_onmessage, page_onmessage, PictureReaders, PictureRead, img_onerror,
         PageScript, registerCanvasSimple, registerCanvas, clearCanvas, Done, vars,
         canvasVars
    <3> QED
      BY <2>1, <3>1
  <2> QED
    BY <2>2, <2>3
<1> QED
  BY Invariance, <1>1, PTL DEF Spec, NeverGoesBack
-----------------------------------------------------------------------------
(* What the canvases show.                                                 *)

(* An item says where its block lies, and a picture is being loaded only   *)
(* when there is one.                                                      *)
ItemsPlaced ==
  \A k \in DOMAIN canvasList :
    canvasList[k].y * NumCol + canvasList[k].x = canvasList[k].index

SomethingLoads == load = "loading" => src # None

ViewInv == TypeOK /\ SomethingLoads /\ ItemsPlaced /\ ViewIsWhole

(* A sequence of numbers whose elements are in a set is one over that set. *)
LEMMA Within ==
  ASSUME NEW s \in Seq(Nat), NEW S, ToSet(s) \subseteq S
  PROVE  s \in Seq(S)
<1>1. Len(s) \in Nat /\ DOMAIN s = 1..Len(s) /\ \A i \in 1..Len(s) : s[i] \in S
  BY DEF ToSet
<1>2. s = [i \in 1..Len(s) |-> s[i]]
  OBVIOUS
<1> QED
  BY <1>1, <1>2, IsASeq

(* The greatest of some indexes. *)
LEMMA GreatestIndex ==
  ASSUME NEW n \in Nat, NEW S, S \subseteq 1..n, S # {}
  PROVE  Max(S) \in S
<1> DEFINE T == {n - i : i \in S}
<1>1. T \subseteq Nat /\ T # {}
  <2>1. \A i \in S : i \in Nat /\ i <= n
    OBVIOUS
  <2>2. T # {}
    OBVIOUS
  <2>3. \A t \in T : t \in Nat
    BY <2>1
  <2> QED
    BY <2>2, <2>3
<1>2. PICK x \in T : \A y \in T : ~(<<y, x>> \in OpToRel(<, Nat))
  <2> HIDE DEF T
  <2> QED
    BY ONLY <1>1, NatLessThanWellFounded, WFMin
<1>3. \A y \in T : ~(y < x)
  BY <1>1, <1>2 DEF OpToRel
<1>4. PICK m \in S : x = n - m
  OBVIOUS
<1>5. \A i \in S : m >= i
  <2> TAKE i \in S
  <2>1. ~(n - i < n - m)
    BY <1>3, <1>4
  <2> QED
    BY <2>1
<1> QED
  BY <1>5 DEF Max

(* The item that registerCanvasSimple makes for a video index of the page: *)
(* its block lies in the mosaic, at the place of the index in row order.   *)
LEMMA BlockOfIndex ==
  ASSUME NEW idx \in Indexes
  PROVE  /\ idx % NumCol \in 0..(NumCol - 1)
         /\ idx \div NumRow \in 0..(NumRow - 1)
         /\ (idx \div NumRow) * NumCol + (idx % NumCol) = idx
<1> DEFINE N == NumRow
<1>1. N \in Nat /\ N > 0 /\ NumCol = N /\ idx \in Nat /\ idx < N * N
  <2>1. NumRow \in Nat \ {0} /\ NumCol = NumRow /\ Indexes \subseteq 0..(NumRow * NumCol - 1)
    BY BrowserAssumption
  <2>2. NumRow * NumRow \in Nat
    BY <2>1
  <2> QED
    BY <2>1, <2>2
<1> HIDE DEF N
<1>2. idx % N \in 0..(N - 1) /\ idx \div N \in Int
  BY <1>1
<1>3. idx = N * (idx \div N) + (idx % N)
  BY <1>1
<1>4. idx \div N >= 0 /\ idx \div N <= N - 1
  <2> DEFINE q == idx \div N
  <2>1. q \in Int /\ idx % N \in 0..(N - 1) /\ idx = N * q + (idx % N)
    BY <1>2, <1>3
  <2> HIDE DEF q
  <2>2. q >= 0
    <3>1. SUFFICES ASSUME q <= -1 PROVE FALSE
      BY <2>1
    <3>2. N * q <= N * (-1)
      BY <1>1, <2>1, <3>1
    <3> QED
      BY <1>1, <2>1, <3>2
  <2>3. q <= N - 1
    <3>1. SUFFICES ASSUME q >= N PROVE FALSE
      BY <1>1, <2>1
    <3>2. N * q >= N * N
      BY <1>1, <2>1, <3>1
    <3> QED
      BY <1>1, <2>1, <3>2
  <2> QED
    BY <2>2, <2>3 DEF q
<1> QED
  BY <1>1, <1>2, <1>3, <1>4 DEF N
-----------------------------------------------------------------------------
(* What is on the way are packets that were sent, each in one place.       *)
OnTheWay ==
  /\ sent \in Nat /\ packetReaders \subseteq 1..sent /\ pictureReaders \subseteq 1..sent
  /\ toWorker \in Seq(1..sent) /\ delayed \in Seq(1..sent) /\ toPage \in Seq(1..sent)
  /\ src \in 0..sent /\ late \subseteq 1..sent
  /\ OnePlace

LEMMA ApartIsOnePlace == Apart => OnePlace
<1> SUFFICES ASSUME Apart
             PROVE  OnePlace
  OBVIOUS
<1>1. SUFFICES ASSUME NEW i \in 1..6, NEW j \in 1..6, i < j
               PROVE  Places[i] \cap Places[j] = {}
  <2>1. DOMAIN Places = 1..6
    BY DEF Places
  <2>2. \A i, j \in 1..6 : i # j => i < j \/ j < i
    OBVIOUS
  <2>3. \A i, j \in 1..6 : Places[i] \cap Places[j] = Places[j] \cap Places[i]
    OBVIOUS
  <2> QED
    BY <1>1, <2>1, <2>2, <2>3 DEF OnePlace, Apart
<1>2. /\ src \notin pictureReaders /\ src \notin ToSet(toPage) /\ src \notin ToSet(delayed)
      /\ src \notin ToSet(toWorker) /\ src \notin packetReaders
  BY DEF Apart, BehindImage, BehindReaders, BehindQueue, BehindDecoder, BehindWorker
<1>3. /\ pictureReaders \cap ToSet(toPage) = {} /\ pictureReaders \cap ToSet(delayed) = {}
      /\ pictureReaders \cap ToSet(toWorker) = {} /\ pictureReaders \cap packetReaders = {}
  BY DEF Apart, BehindReaders, BehindQueue, BehindDecoder, BehindWorker
<1>4. /\ ToSet(toPage) \cap ToSet(delayed) = {} /\ ToSet(toPage) \cap ToSet(toWorker) = {}
      /\ ToSet(toPage) \cap packetReaders = {}
  BY DEF Apart, BehindQueue, BehindDecoder, BehindWorker
<1>5. /\ ToSet(delayed) \cap ToSet(toWorker) = {} /\ ToSet(delayed) \cap packetReaders = {}
      /\ ToSet(toWorker) \cap packetReaders = {}
  BY DEF Apart, BehindDecoder, BehindWorker
<1>6. /\ Places[1] = packetReaders /\ Places[2] = ToSet(toWorker)
      /\ Places[3] = ToSet(delayed) /\ Places[4] = ToSet(toPage)
      /\ Places[5] = pictureReaders /\ Places[6] = {src}
  BY DEF Places
<1>7. CASE i = 1
  BY <1>1, <1>2, <1>3, <1>4, <1>5, <1>6, <1>7
<1>8. CASE i = 2
  BY <1>1, <1>2, <1>3, <1>4, <1>5, <1>6, <1>8
<1>9. CASE i = 3
  BY <1>1, <1>2, <1>3, <1>4, <1>5, <1>6, <1>9
<1>10. CASE i = 4
  BY <1>1, <1>2, <1>3, <1>4, <1>5, <1>6, <1>10
<1>11. CASE i = 5
  BY <1>1, <1>2, <1>3, <1>4, <1>5, <1>6, <1>11
<1> QED
  BY <1>1, <1>7, <1>8, <1>9, <1>10, <1>11

LEMMA PipeHoldsSent == IInv => OnTheWay
<1> SUFFICES ASSUME IInv
             PROVE  OnTheWay
  OBVIOUS
<1>1. PipeTyped
  BY DEF IInv
<1>2. /\ ToSet(toWorker) \subseteq 1..sent /\ ToSet(delayed) \subseteq 1..sent
      /\ ToSet(toPage) \subseteq 1..sent
      /\ packetReaders \subseteq 1..sent /\ pictureReaders \subseteq 1..sent
  BY <1>1 DEF PipeTyped, BehindImage, BehindReaders, BehindQueue, BehindDecoder,
              BehindWorker
<1>3. toWorker \in Seq(1..sent) /\ delayed \in Seq(1..sent) /\ toPage \in Seq(1..sent)
  BY <1>1, <1>2, Within DEF PipeTyped
<1>4. OnePlace
  BY ApartIsOnePlace DEF IInv
<1> QED
  BY <1>1, <1>2, <1>3, <1>4 DEF PipeTyped, OnTheWay

View == [Canvases -> (0..sent) \X (0..(NumCol - 1)) \X (0..(NumRow - 1))]

LEMMA InitTypeOK == Init => TypeOK
<1> SUFFICES ASSUME Init
             PROVE  TypeOK
  OBVIOUS
<1>1. IInv
  BY InitIInv
<1>2. OnTheWay
  BY <1>1, PipeHoldsSent
<1>3. sent = 0 /\ calls = 0 /\ failures = 0 /\ shown = 0
  BY DEF Init, None
<1>4. 0 \in 0..MaxPackets /\ 0 \in 0..MaxCalls /\ 0 \in 0..MaxFailures /\ 0 \in 0..0
  BY BrowserAssumption
<1>5. 0 \in 0..(NumCol - 1) /\ 0 \in 0..(NumRow - 1)
  BY BrowserAssumption
<1>6. view = [c \in Canvases |-> <<0, 0, 0>>]
  BY DEF Init, None
<1>7. view \in View
  BY <1>3, <1>4, <1>5, <1>6 DEF View
<1>8. canvasList \in Seq(Item)
  BY EmptySeq DEF Init
<1>9. /\ width \in Widths /\ cxt \in BOOLEAN /\ start \in BOOLEAN /\ (start => cxt)
      /\ load \in {"none", "loading", "complete", "broken"}
      /\ Idle \in BOOLEAN /\ Valid \in BOOLEAN /\ stale \subseteq Canvases
      /\ owed \in BOOLEAN
  BY DEF Init
<1> QED
  BY <1>2, <1>3, <1>4, <1>7, <1>8, <1>9 DEF TypeOK, OnTheWay, View

(* What drawing with some exceptions leaves. *)
LEMMA DrawingTyped ==
  ASSUME TypeOK, NEW end \in 1..(Len(canvasList) + 1), NEW bad \in SUBSET (1..(end - 1)),
         DrawCanvases(bad, end)
  PROVE  /\ view' \in View
         /\ Exceptions(bad, end) \in Nat
         /\ stale' \subseteq Canvases
<1>1. /\ canvasList \in Seq(Item) /\ Len(canvasList) \in Nat
      /\ DOMAIN canvasList = 1..Len(canvasList)
      /\ \A k \in DOMAIN canvasList : canvasList[k] \in Item
  BY ElementOfSeq DEF TypeOK
<1>2. Exceptions(bad, end) \in Nat
  <2>1. IsFiniteSet(1..(end - 1))
    BY <1>1, FS_Interval
  <2>2. IsFiniteSet(bad)
    BY <2>1, FS_Subset
  <2>3. Cardinality(bad) \in Nat
    BY <2>2, FS_CardinalityType
  <2> QED
    BY <2>3 DEF Exceptions
<1>3. stale' \subseteq Canvases
  <2>1. Missed(bad, end) \subseteq DOMAIN canvasList
    <3>1. end \in Nat /\ end >= 1 /\ end <= Len(canvasList) + 1
      BY <1>1
    <3>2. bad \subseteq 1..Len(canvasList)
      BY <1>1, <3>1
    <3>3. end..Len(canvasList) \subseteq 1..Len(canvasList)
      BY <1>1, <3>1
    <3> QED
      BY <1>1, <3>2, <3>3 DEF Missed
  <2>2. \A k \in Missed(bad, end) : canvasList[k].canvas \in Canvases
    BY <1>1, <2>1 DEF Item
  <2> QED
    BY <2>2 DEF DrawCanvases
<1>4. view \in View /\ src \in 0..sent
  BY DEF TypeOK, View
<1> DEFINE Mine(c) == {k \in Drawn(bad, end) : canvasList[k].canvas = c}
           Shows(c) == IF Mine(c) = {} THEN view[c]
                       ELSE <<src, canvasList[Max(Mine(c))].x, canvasList[Max(Mine(c))].y>>
<1>5. view' = [c \in Canvases |-> Shows(c)]
  BY DEF DrawCanvases
<1>6. ASSUME NEW c \in Canvases
      PROVE  Shows(c) \in (0..sent) \X (0..(NumCol - 1)) \X (0..(NumRow - 1))
  <2>1. CASE Mine(c) = {}
    BY <1>4, <2>1 DEF View
  <2>2. CASE Mine(c) # {}
    <3>1. Max(Mine(c)) \in Mine(c)
      <4>1. Mine(c) \subseteq 1..Len(canvasList)
        BY <1>1 DEF Drawn
      <4> HIDE DEF Mine
      <4> QED
        BY <1>1, <2>2, <4>1, GreatestIndex
    <3>2. canvasList[Max(Mine(c))] \in Item
      BY <1>1, <3>1 DEF Drawn
    <3> HIDE DEF Mine
    <3>3. canvasList[Max(Mine(c))].x \in 0..(NumCol - 1) /\ canvasList[Max(Mine(c))].y \in 0..(NumRow - 1)
      BY <3>2 DEF Item
    <3> QED
      BY <1>4, <2>2, <3>3
  <2> QED
    BY <2>1, <2>2
<1> HIDE DEF Shows
<1> QED
  BY <1>2, <1>3, <1>5, <1>6 DEF View

(* A registered canvas. *)
LEMMA Registered ==
  ASSUME TypeOK, NEW c \in Canvases, NEW idx \in Indexes, registerCanvasSimple(c, idx)
  PROVE  \E e \in Item :
           /\ canvasList' = Append(canvasList, e) /\ stale' = stale \cup {c}
           /\ e.canvas = c /\ e.y * NumCol + e.x = e.index
           /\ UNCHANGED <<view, shown>>
<1> DEFINE e == [canvas |-> c, index |-> idx, x |-> idx % NumCol, y |-> idx \div NumRow]
<1>1. e \in Item /\ e.y * NumCol + e.x = e.index
  BY BlockOfIndex DEF Item
<1>2. canvasList' = Append(canvasList, e) /\ stale' = stale \cup {c} /\ UNCHANGED <<view, shown>>
  BY DEF registerCanvasSimple, registerCanvas
<1>3. e.canvas = c
  OBVIOUS
<1> HIDE DEF e
<1>4. e \in Item
  BY <1>1
<1> WITNESS e \in Item
<1> QED
  BY <1>1, <1>2, <1>3

LEMMA TypeOKStep == IInv /\ TypeOK /\ [Next]_vars => TypeOK'
<1> SUFFICES ASSUME IInv, TypeOK, [Next]_vars
             PROVE  TypeOK'
  OBVIOUS
<1>1. OnTheWay'
  <2>1. IInv'
    BY NextIInv
  <2> QED
    BY <2>1, PipeHoldsSent, PTL
<1>2. sent \in Nat /\ sent' \in Nat /\ sent' \in 0..MaxPackets /\ sent <= sent'
  <2>1. sent \in Nat /\ sent \in 0..MaxPackets /\ MaxPackets \in Nat
    BY BrowserAssumption DEF TypeOK
  <2>2. CASE on_packet
    BY <2>1, <2>2 DEF on_packet
  <2>3. CASE ~on_packet
    <3>1. sent' = sent
      BY <2>3 DEF Next, PacketReaders, PacketRead, waitWasmLoading, StartDecoding,
         worker_onmessage, page_onmessage, PictureReaders, PictureRead, img_onload,
         img_onerror, PageScript, Done, vars
    <3> QED
      BY <2>1, <3>1
  <2> QED
    BY <2>2, <2>3
<1>3. width' \in Widths
  BY DEF TypeOK, Next, on_packet, PacketReaders, PacketRead, waitWasmLoading,
     StartDecoding, worker_onmessage, page_onmessage, PictureReaders, PictureRead,
     img_onload, img_onerror, PageScript, Done, vars
<1>4. cxt' \in BOOLEAN /\ start' \in BOOLEAN /\ (start' => cxt')
  <2>1. cxt \in BOOLEAN /\ start \in BOOLEAN /\ (start => cxt)
    BY DEF TypeOK
  <2>2. CASE waitWasmLoading \/ StartDecoding
    BY <2>1, <2>2 DEF waitWasmLoading, StartDecoding
  <2>3. CASE ~waitWasmLoading /\ ~StartDecoding
    <3>1. cxt' = cxt /\ start' = start
      BY <2>3 DEF Next, on_packet, PacketReaders, PacketRead, worker_onmessage,
         page_onmessage, PictureReaders, PictureRead, img_onload, img_onerror,
         PageScript, Done, vars, workerVars
    <3> QED
      BY <2>1, <3>1
  <2> QED
    BY <2>2, <2>3
<1>5. load' \in {"none", "loading", "complete", "broken"}
  BY DEF TypeOK, Next, on_packet, PacketReaders, PacketRead, waitWasmLoading,
     StartDecoding, worker_onmessage, page_onmessage, PictureReaders, PictureRead,
     SetSource, img_onload, img_onerror, PageScript, Done, vars, imgVars
<1>6. Idle' \in BOOLEAN /\ Valid' \in BOOLEAN
  BY DEF TypeOK, Next, on_packet, PacketReaders, PacketRead, waitWasmLoading,
     StartDecoding, worker_onmessage, page_onmessage, PictureReaders, PictureRead,
     SetSource, DrawCanvases, img_onload, img_onerror, PageScript, Done, vars, imgVars
<1>7. owed' \in BOOLEAN
  BY DEF TypeOK, Next, on_packet, PacketReaders, PacketRead, waitWasmLoading,
     StartDecoding, worker_onmessage, page_onmessage, PictureReaders, PictureRead,
     img_onload, img_onerror, PageScript, Done, vars
<1>8. view \in View /\ View \subseteq View'
  <2>1. 0..sent \subseteq 0..sent'
    BY <1>2
  <2>2. view \in View
    BY DEF TypeOK, View
  <2>3. (0..sent) \X (0..(NumCol - 1)) \X (0..(NumRow - 1))
          \subseteq (0..sent') \X (0..(NumCol - 1)) \X (0..(NumRow - 1))
    BY <2>1
  <2> QED
    BY <2>2, <2>3 DEF View
<1>9. /\ view' \in View' /\ shown' \in 0..sent' /\ failures' \in 0..MaxFailures
      /\ canvasList' \in Seq(Item) /\ stale' \subseteq Canvases /\ calls' \in 0..MaxCalls
  <2>0. /\ shown \in 0..sent' /\ src \in 0..sent' /\ failures \in 0..MaxFailures
        /\ canvasList \in Seq(Item) /\ stale \subseteq Canvases /\ calls \in 0..MaxCalls
        /\ view \in View' /\ MaxFailures \in Nat /\ MaxCalls \in Nat
    BY <1>2, <1>8, BrowserAssumption DEF TypeOK
  <2>1. CASE img_onload
    <3>1. shown' \in {shown, src} /\ UNCHANGED <<canvasList, calls>>
      BY <2>1 DEF img_onload
    <3>2. CASE width = _frame_w
      <4>0. PICK end \in 1..(Len(canvasList) + 1) :
              \E bad \in SUBSET (1..(end - 1)) :
                /\ failures + Exceptions(bad, end) <= MaxFailures
                /\ failures' = failures + Exceptions(bad, end)
                /\ DrawCanvases(bad, end)
        BY <2>1, <3>2 DEF img_onload
      <4>1. PICK bad \in SUBSET (1..(end - 1)) :
              /\ failures + Exceptions(bad, end) <= MaxFailures
              /\ failures' = failures + Exceptions(bad, end)
              /\ DrawCanvases(bad, end)
        BY <4>0
      <4>2. /\ view' \in View /\ Exceptions(bad, end) \in Nat /\ stale' \subseteq Canvases
        BY <4>1, DrawingTyped
      <4> QED
        BY <1>8, <2>0, <3>1, <4>1, <4>2
    <3>3. CASE width # _frame_w
      BY <2>0, <2>1, <3>1, <3>3 DEF img_onload
    <3> QED
      BY <3>2, <3>3
  <2>2. CASE img_onerror
    BY <2>0, <2>2 DEF img_onerror, canvasVars
  <2>3. CASE PageScript
    <3>1. calls' \in 0..MaxCalls /\ failures' = failures
      BY <2>0, <2>3 DEF PageScript
    <3>2. ASSUME NEW c \in Canvases, NEW idx \in Indexes, registerCanvasSimple(c, idx)
          PROVE  /\ canvasList' \in Seq(Item) /\ stale' \subseteq Canvases
                 /\ UNCHANGED <<view, shown>>
      <4>1. PICK e \in Item : /\ canvasList' = Append(canvasList, e)
                              /\ stale' = stale \cup {c} /\ UNCHANGED <<view, shown>>
        BY <3>2, Registered
      <4> QED
        BY <2>0, <4>1, AppendProperties
    <3>3. CASE clearCanvas
      BY <2>0, <3>1, <3>3, EmptySeq DEF clearCanvas
    <3> QED
      BY <2>0, <2>3, <3>1, <3>2, <3>3 DEF PageScript
  <2>4. CASE ~img_onload /\ ~img_onerror /\ ~PageScript
    <3>1. UNCHANGED <<view, shown, failures, canvasList, stale, calls>>
      BY <2>4 DEF Next, on_packet, PacketReaders, PacketRead, waitWasmLoading,
         StartDecoding, worker_onmessage, page_onmessage, PictureReaders, PictureRead,
         Done, vars, canvasVars
    <3> QED
      BY <2>0, <3>1
  <2> QED
    BY <2>1, <2>2, <2>3, <2>4
<1> QED
  BY <1>1, <1>2, <1>3, <1>4, <1>5, <1>6, <1>7, <1>9 DEF TypeOK, OnTheWay, View

LEMMA TypeInvariance == Spec => []TypeOK
  BY InitTypeOK, TypeOKStep, Invariance, PTL DEF Spec

-----------------------------------------------------------------------------
LEMMA InitViewInv == Init => SomethingLoads /\ ItemsPlaced /\ ViewIsWhole
<1> SUFFICES ASSUME Init
             PROVE  SomethingLoads /\ ItemsPlaced /\ ViewIsWhole
  OBVIOUS
<1>1. load = "none" /\ canvasList = <<>> /\ DOMAIN canvasList = {}
  BY DEF Init
<1>2. \A c \in Canvases : ItemsOf(c) = {}
  BY <1>1 DEF ItemsOf
<1> QED
  BY <1>1, <1>2 DEF SomethingLoads, ItemsPlaced, ViewIsWhole

(* A drawing gives every canvas without a missed item its last block.      *)
LEMMA DrawingWhole ==
  ASSUME TypeOK, ItemsPlaced, src # None,
         NEW end \in 1..(Len(canvasList) + 1), NEW bad \in SUBSET (1..(end - 1)),
         DrawCanvases(bad, end),
         NEW c \in Canvases, ItemsOf(c) # {}, c \notin stale'
  PROVE  /\ view'[c][1] = src
         /\ view'[c][3] * NumCol + view'[c][2] = IndexOf(c)
<1>1. Len(canvasList) \in Nat /\ DOMAIN canvasList = 1..Len(canvasList)
  BY DEF TypeOK
<1>2. {k \in Drawn(bad, end) : canvasList[k].canvas = c} = ItemsOf(c)
  <2>1. \A k \in Missed(bad, end) : canvasList[k].canvas # c
    BY DEF DrawCanvases
  <2>2. \A k \in DOMAIN canvasList : k \in Drawn(bad, end) \/ k \in Missed(bad, end)
    BY <1>1 DEF Drawn, Missed
  <2>3. Drawn(bad, end) \subseteq DOMAIN canvasList
    BY <1>1 DEF Drawn
  <2> QED
    BY <2>1, <2>2, <2>3 DEF ItemsOf
<1> DEFINE m == Max(ItemsOf(c))
<1>3. m \in DOMAIN canvasList
  <2>1. ItemsOf(c) \subseteq DOMAIN canvasList
    BY DEF ItemsOf
  <2>2. m \in ItemsOf(c)
    BY <1>1, <2>1, GreatestIndex
  <2> QED
    BY <2>1, <2>2
<1>4. view'[c] = <<src, canvasList[m].x, canvasList[m].y>>
  BY <1>2 DEF DrawCanvases
<1>5. IndexOf(c) = canvasList[m].index
  BY DEF IndexOf
<1> HIDE DEF m
<1>6. canvasList[m].y * NumCol + canvasList[m].x = canvasList[m].index
  BY <1>3 DEF ItemsPlaced
<1>7. view'[c][1] = src /\ view'[c][2] = canvasList[m].x /\ view'[c][3] = canvasList[m].y
  BY <1>4
<1> QED
  BY <1>5, <1>6, <1>7

(* An item more changes only what its own canvas is to show. *)
LEMMA OthersKeepTheirItems ==
  ASSUME NEW e \in Item, canvasList \in Seq(Item), ItemsPlaced,
         canvasList' = Append(canvasList, e), e.y * NumCol + e.x = e.index
  PROVE  /\ ItemsPlaced'
         /\ \A c \in Canvases : c # e.canvas =>
              ItemsOf(c)' = ItemsOf(c)
<1>1. /\ Len(canvasList) \in Nat /\ DOMAIN canvasList = 1..Len(canvasList)
      /\ DOMAIN canvasList' = 1..(Len(canvasList) + 1)
      /\ \A k \in 1..Len(canvasList) : canvasList'[k] = canvasList[k]
      /\ canvasList'[Len(canvasList) + 1] = e
  BY AppendProperties
<1>2. \A k \in DOMAIN canvasList' : k \in DOMAIN canvasList \/ k = Len(canvasList) + 1
  BY <1>1
<1>3. ASSUME NEW k \in DOMAIN canvasList'
      PROVE  canvasList'[k].y * NumCol + canvasList'[k].x = canvasList'[k].index
  <2>1. CASE k \in DOMAIN canvasList
    <3>1. canvasList'[k] = canvasList[k]
      BY <1>1, <2>1
    <3>2. canvasList[k].y * NumCol + canvasList[k].x = canvasList[k].index
      BY <2>1 DEF ItemsPlaced
    <3> QED
      BY <3>1, <3>2
  <2>2. CASE k = Len(canvasList) + 1
    <3>1. canvasList'[k] = e
      BY <1>1, <2>2
    <3> QED
      BY <3>1
  <2> QED
    BY <1>2, <2>1, <2>2
<1>4. ASSUME NEW c \in Canvases, c # e.canvas
      PROVE  ItemsOf(c)' = ItemsOf(c)
  <2>1. \A k \in DOMAIN canvasList : k \in DOMAIN canvasList' /\ canvasList'[k] = canvasList[k]
    BY <1>1
  <2> QED
    BY <1>1, <1>2, <1>4, <2>1 DEF ItemsOf
<1> QED
  BY <1>3, <1>4 DEF ItemsPlaced

LEMMA ViewStep ==
  IInv /\ ViewInv /\ [Next]_vars => SomethingLoads' /\ ItemsPlaced' /\ ViewIsWhole'
<1> SUFFICES ASSUME IInv, ViewInv, [Next]_vars
             PROVE  SomethingLoads' /\ ItemsPlaced' /\ ViewIsWhole'
  OBVIOUS
<1>0. TypeOK /\ SomethingLoads /\ ItemsPlaced /\ ViewIsWhole /\ canvasList \in Seq(Item)
  BY DEF ViewInv, TypeOK
<1>1. SomethingLoads'
  <2>1. CASE PictureReaders
    <3>1. PICK p \in Packets : PictureRead(p)
      BY <2>1 DEF PictureReaders
    <3>2. p # None
      BY DEF Packets, None
    <3> QED
      BY <1>0, <3>1, <3>2 DEF PictureRead, SetSource, imgVars, SomethingLoads
  <2>2. CASE ~PictureReaders
    <3>1. src' = src /\ (load' = "loading" => load = "loading")
      BY <2>2 DEF Next, on_packet, PacketReaders, PacketRead, waitWasmLoading,
         StartDecoding, worker_onmessage, page_onmessage, img_onload, img_onerror,
         PageScript, Done, vars, imgVars
    <3> QED
      BY <1>0, <3>1 DEF SomethingLoads
  <2> QED
    BY <2>1, <2>2
<1>2. ASSUME UNCHANGED <<canvasList, view, shown, stale>>
      PROVE  ItemsPlaced' /\ ViewIsWhole'
  BY <1>0, <1>2 DEF ItemsPlaced, ViewIsWhole, ItemsOf, IndexOf
<1>3. CASE img_onload
  <2>1. load = "loading" /\ canvasList' = canvasList /\ src # None
    BY <1>0, <1>3 DEF img_onload, SomethingLoads
  <2>2. ItemsPlaced'
    BY <1>0, <2>1 DEF ItemsPlaced
  <2>3. CASE width = _frame_w
    <3>1. shown' = src
      BY <1>3, <2>3 DEF img_onload
    <3>0. PICK end \in 1..(Len(canvasList) + 1) :
            \E bad \in SUBSET (1..(end - 1)) : DrawCanvases(bad, end)
      BY <1>3, <2>3 DEF img_onload
    <3>2. PICK bad \in SUBSET (1..(end - 1)) : DrawCanvases(bad, end)
      BY <3>0
    <3>3. SUFFICES ASSUME NEW c \in Canvases, ItemsOf(c) # {}, c \notin stale'
                   PROVE  /\ view'[c][1] = shown' /\ shown' # None
                          /\ view'[c][3] * NumCol + view'[c][2] = IndexOf(c)
      BY <1>1, <2>1, <2>2 DEF ViewIsWhole, ItemsOf, IndexOf
    <3>4. view'[c][1] = src /\ view'[c][3] * NumCol + view'[c][2] = IndexOf(c)
      BY <1>0, <2>1, <3>2, <3>3, DrawingWhole
    <3> QED
      BY <2>1, <3>1, <3>4
  <2>4. CASE width # _frame_w
    BY <1>1, <1>2, <1>3, <2>1, <2>4 DEF img_onload
  <2> QED
    BY <2>2, <2>3, <2>4
<1>4. CASE PageScript
  <2>1. ASSUME NEW c \in Canvases, NEW idx \in Indexes, registerCanvasSimple(c, idx)
        PROVE  ItemsPlaced' /\ ViewIsWhole'
    <3>1. PICK e \in Item :
            /\ canvasList' = Append(canvasList, e) /\ stale' = stale \cup {c}
            /\ e.canvas = c /\ e.y * NumCol + e.x = e.index
            /\ UNCHANGED <<view, shown>>
      BY <1>0, <2>1, Registered
    <3>2. /\ ItemsPlaced'
          /\ \A d \in Canvases : d # c => ItemsOf(d)' = ItemsOf(d)
      BY <1>0, <3>1, OthersKeepTheirItems
    <3>3. SUFFICES ASSUME NEW d \in Canvases, ItemsOf(d)' # {}, d \notin stale'
                   PROVE  /\ view'[d][1] = shown' /\ shown' # None
                          /\ view'[d][3] * NumCol + view'[d][2] = IndexOf(d)'
      BY <3>2 DEF ViewIsWhole
    <3>4. d # c /\ d \notin stale
      BY <3>1, <3>3
    <3>5. ItemsOf(d)' = ItemsOf(d)
      BY <3>2, <3>4
    <3>6. IndexOf(d)' = IndexOf(d)
      <4>1. Len(canvasList) \in Nat /\ DOMAIN canvasList = 1..Len(canvasList)
        BY <1>0
      <4>2. ItemsOf(d) \subseteq 1..Len(canvasList) /\ ItemsOf(d) # {}
        BY <3>3, <3>5, <4>1 DEF ItemsOf
      <4>3. Max(ItemsOf(d)) \in 1..Len(canvasList)
        BY <4>1, <4>2, GreatestIndex
      <4>4. canvasList'[Max(ItemsOf(d))] = canvasList[Max(ItemsOf(d))]
        BY <1>0, <3>1, <4>3, AppendProperties
      <4> QED
        BY <3>5, <4>4 DEF IndexOf
    <3>7. /\ view[d][1] = shown /\ shown # None
          /\ view[d][3] * NumCol + view[d][2] = IndexOf(d)
      BY <1>0, <3>3, <3>4, <3>5 DEF ViewIsWhole
    <3> QED
      BY <3>1, <3>6, <3>7
  <2>2. CASE clearCanvas
    <3>1. canvasList' = <<>> /\ DOMAIN canvasList' = {}
      BY <2>2 DEF clearCanvas
    <3>2. \A c \in Canvases : ItemsOf(c)' = {}
      BY <3>1 DEF ItemsOf
    <3> QED
      BY <1>1, <3>1, <3>2 DEF ItemsPlaced, ViewIsWhole
  <2> QED
    BY <1>1, <1>4, <2>1, <2>2 DEF PageScript
<1>5. CASE ~img_onload /\ ~PageScript
  <2>1. UNCHANGED <<canvasList, view, shown, stale>>
    BY <1>5 DEF Next, on_packet, PacketReaders, PacketRead, waitWasmLoading,
       StartDecoding, worker_onmessage, page_onmessage, PictureReaders, PictureRead,
       img_onerror, Done, vars, canvasVars
  <2> QED
    BY <1>1, <1>2, <2>1
<1> QED
  BY <1>1, <1>3, <1>4, <1>5

LEMMA ViewInvariance == Spec => []ViewInv
<1>1. Init => ViewInv
  BY InitTypeOK, InitViewInv DEF ViewInv
<1>2. IInv /\ ViewInv /\ [Next]_vars => ViewInv'
  BY TypeOKStep, ViewStep DEF ViewInv
<1> QED
  BY <1>1, <1>2, Invariance, PTL DEF Spec

(* The variables keep their types: every picture anywhere on the way is    *)
(* one that was sent and in one place only, every block asked for lies in  *)
(* the mosaic, and the failures stay in their bound.                       *)
THEOREM TypeCorrect == Spec => []TypeOK
  BY TypeInvariance

(* After a drawing every canvas shows the block of its video index in row  *)
(* order, all of them of one picture, whatever canvases the page registers *)
(* and clears meanwhile and whichever drawImage or getContext throws       *)
(* (registerCanvasSimple, __drawCanvasOptimize4img).                       *)
THEOREM WholeView == Spec => []ViewIsWhole
<1>1. ViewInv => ViewIsWhole
  BY DEF ViewInv
<1> QED
  BY ViewInvariance, <1>1, PTL
=============================================================================
