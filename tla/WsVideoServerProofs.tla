------------------------- MODULE WsVideoServerProofs -------------------------
(* What the frame rate handler does for any number of pending packets and  *)
(* any rate, and what holds of the clients, the frame walk and the         *)
(* recorded maximum for any number of clients, any counters and any        *)
(* uninitialised memory.                                                   *)
EXTENDS WsVideoServer, TLAPS

-----------------------------------------------------------------------------
(* The frame rate handler. *)

Rates == MIN_FRAME_RATE..MAX_FRAME_RATE

(* A tenth is truncated to nothing for small rates only, and a step is     *)
(* always at least one frame.                                              *)
LEMMA StepsMove ==
  ASSUME NEW r \in Rates
  PROVE  Slower(r) \in Int /\ Slower(r) < r /\ Faster(r) \in Int /\ Faster(r) > r
<1>1. r \in {5, 6, 7, 8, 9, 10, 11, 12, 13, 14, 15}
  BY DEF Rates, MIN_FRAME_RATE, MAX_FRAME_RATE
<1>2. QED
  BY <1>1 DEF Slower, Faster

(* The steps of a rate that may lie out of bounds are integers, too.       *)
LEMMA StepsAreInt ==
  ASSUME NEW r \in Int
  PROVE  Slower(r) \in Int /\ Faster(r) \in Int
<1>1. (r * 9) \div 10 \in Int /\ (r * 11) \div 10 \in Int /\ r - 1 \in Int /\ r + 1 \in Int
  OBVIOUS
<1>2. QED
  BY <1>1 DEF Slower, Faster

(* Whatever a browser reports, uninitialised counters included, and        *)
(* whatever the attribute held, the handler sets a rate within the bounds. *)
THEOREM RateInBounds ==
  ASSUME NEW m \in Int, NEW r \in Int, NEW connected \in BOOLEAN
  PROVE  ws_cli_max_pending_changed_handler(m, r, connected) \in Rates
<1> DEFINE s == IF m > 8 THEN Slower(r) ELSE IF m < 2 THEN Faster(r) ELSE r
<1>1. s \in Int
  BY StepsAreInt
<1> HIDE DEF s
<1>2. Clamp(s) \in Rates /\ MIN_FRAME_RATE \in Rates
  BY <1>1 DEF Clamp, Rates, MIN_FRAME_RATE, MAX_FRAME_RATE
<1>3. AdaptedRate(m, r) = Clamp(s)
  BY DEF AdaptedRate, s
<1>4. QED
  BY <1>2, <1>3 DEF ws_cli_max_pending_changed_handler

(* Without an RTSP client the handler never steers the wrong way and never *)
(* stalls: more than 8 pending packets lower a rate that is not yet the    *)
(* lowest, fewer than 2 raise one that is not yet the highest, and the     *)
(* counts between leave it alone.                                          *)
THEOREM RateFollowsReports ==
  ASSUME NEW m \in Int, NEW r \in Rates
  PROVE  LET new == ws_cli_max_pending_changed_handler(m, r, FALSE)
         IN /\ m > 8 => new < r \/ new = MIN_FRAME_RATE
            /\ m < 2 => new > r \/ new = MAX_FRAME_RATE
            /\ m \in 2..8 => new = r
<1> USE DEF MIN_FRAME_RATE, MAX_FRAME_RATE
<1>1. ws_cli_max_pending_changed_handler(m, r, FALSE) = AdaptedRate(m, r)
  BY DEF ws_cli_max_pending_changed_handler
<1>2. r \in Int /\ 5 <= r /\ r <= 15
  BY DEF Rates
<1>3. ASSUME m > 8
      PROVE  AdaptedRate(m, r) < r \/ AdaptedRate(m, r) = MIN_FRAME_RATE
  <2>1. AdaptedRate(m, r) = Clamp(Slower(r))
    BY <1>3 DEF AdaptedRate
  <2>2. QED
    BY <1>2, <2>1, StepsMove DEF Clamp
<1>4. ASSUME m < 2
      PROVE  AdaptedRate(m, r) > r \/ AdaptedRate(m, r) = MAX_FRAME_RATE
  <2>1. AdaptedRate(m, r) = Clamp(Faster(r))
    BY <1>4 DEF AdaptedRate
  <2>2. QED
    BY <1>2, <2>1, StepsMove DEF Clamp
<1>5. ASSUME m \in 2..8
      PROVE  AdaptedRate(m, r) = r
  <2>1. AdaptedRate(m, r) = Clamp(r)
    BY <1>5 DEF AdaptedRate
  <2>2. QED
    BY <1>2, <2>1 DEF Clamp
<1>6. QED
  BY <1>1, <1>3, <1>4, <1>5

-----------------------------------------------------------------------------
(* The inductive invariant of the server. *)

(* A client that was heard and not removed since is still listed, and none *)
(* is heard before the callback is set.                                    *)
HeardListed == heard \subseteq Listed /\ (registered \/ heard = {})

(* max_element has looked at the clients before scan.at, and the one it    *)
(* remembers is the largest of them.                                       *)
BestSoFar ==
  scan # NoScan /\ ~undercut =>
    \A k \in 1..(scan.at - 1) :
      pending_h264[cli_list[k]] <= pending_h264[cli_list[scan.best]]

IInv == TypeOK /\ HeardListed /\ BestSoFar /\ NotUnderstated /\ WalkSafe

-----------------------------------------------------------------------------
(* Sequences: removing a position, taking the head, walking backwards.     *)
LEMMA AfterRemoveAt ==
  ASSUME NEW S, NEW s \in Seq(S), NEW k \in DOMAIN s
  PROVE  /\ RemoveAt(s, k) \in Seq(S)
         /\ ToSet(s) \ {s[k]} \subseteq ToSet(RemoveAt(s, k))
<1> DEFINE a == SubSeq(s, 1, k - 1)
           b == SubSeq(s, k + 1, Len(s))
<1>1. k \in 1..Len(s) /\ Len(s) \in Nat
  OBVIOUS
<1>2. /\ a \in Seq(S) /\ Len(a) = k - 1
      /\ \A i \in 1..(k - 1) : a[i] = s[i]
  BY <1>1
<1>3. /\ b \in Seq(S) /\ Len(b) = Len(s) - k
      /\ \A i \in 1..(Len(s) - k) : b[i] = s[i + k]
  BY <1>1
<1> DEFINE c == a \o b
<1>4. RemoveAt(s, k) = c
  BY DEF RemoveAt
<1> HIDE DEF a, b
<1>5. /\ c \in Seq(S) /\ Len(c) = Len(s) - 1
      /\ \A i \in 1..(k - 1) : c[i] = a[i]
      /\ \A i \in k..(Len(s) - 1) : c[i] = b[i - (k - 1)]
  BY <1>1, <1>2, <1>3
<1> HIDE DEF c
<1>6. ASSUME NEW j \in 1..Len(s), s[j] # s[k]
      PROVE  \E i \in 1..(Len(s) - 1) : c[i] = s[j]
  <2>1. CASE j < k
    <3>1. j \in 1..(k - 1) /\ j \in 1..(Len(s) - 1)
      BY <2>1, <1>1
    <3>2. c[j] = s[j]
      BY <3>1, <1>2, <1>5
    <3>3. QED
      BY <3>1, <3>2
  <2>2. CASE j > k
    <3>1. /\ j - 1 \in k..(Len(s) - 1) /\ j - 1 \in 1..(Len(s) - 1)
          /\ j - k \in 1..(Len(s) - k)
          /\ (j - 1) - (k - 1) = j - k /\ (j - k) + k = j
      BY <2>2, <1>1
    <3>2. c[j - 1] = b[j - k]
      BY <3>1, <1>5
    <3>3. b[j - k] = s[j]
      BY <3>1, <1>3
    <3>4. QED
      BY <3>1, <3>2, <3>3
  <2>3. QED
    BY <2>1, <2>2, <1>1, <1>6
<1>7. DOMAIN c = 1..(Len(s) - 1) /\ DOMAIN s = 1..Len(s)
  BY <1>1, <1>5
<1>8. ASSUME NEW x \in ToSet(s), x # s[k]
      PROVE  x \in ToSet(c)
  <2>1. PICK j \in 1..Len(s) : x = s[j]
    BY <1>7, <1>8 DEF ToSet
  <2>2. PICK i \in 1..(Len(s) - 1) : c[i] = s[j]
    BY <2>1, <1>6, <1>8
  <2>3. QED
    BY <2>1, <2>2, <1>7 DEF ToSet
<1>9. QED
  BY <1>4, <1>5, <1>8

LEMMA HeadAndTail ==
  ASSUME NEW S, NEW q \in Seq(S), q # <<>>
  PROVE  /\ Head(q) \in S /\ Tail(q) \in Seq(S)
         /\ ToSet(q) = {Head(q)} \cup ToSet(Tail(q))
<1>1. /\ Len(q) \in Nat \ {0} /\ DOMAIN q = 1..Len(q)
      /\ Head(q) = q[1] /\ Head(q) \in S
      /\ Tail(q) \in Seq(S) /\ DOMAIN Tail(q) = 1..(Len(q) - 1)
      /\ \A i \in 1..(Len(q) - 1) : Tail(q)[i] = q[i + 1]
  OBVIOUS
<1>2. ASSUME NEW j \in 1..Len(q)
      PROVE  q[j] \in {Head(q)} \cup ToSet(Tail(q))
  <2>1. CASE j = 1
    BY <2>1, <1>1
  <2>2. CASE j # 1
    <3>1. j - 1 \in 1..(Len(q) - 1) /\ (j - 1) + 1 = j
      BY <2>2, <1>1
    <3>2. Tail(q)[j - 1] = q[j]
      BY <3>1, <1>1
    <3>3. QED
      BY <3>1, <3>2, <1>1 DEF ToSet
  <2>3. QED
    BY <2>1, <2>2
<1>3. ASSUME NEW i \in 1..(Len(q) - 1)
      PROVE  Tail(q)[i] \in ToSet(q)
  BY <1>1 DEF ToSet
<1>4. Head(q) \in ToSet(q)
  BY <1>1 DEF ToSet
<1>5. QED
  BY <1>1, <1>2, <1>3, <1>4 DEF ToSet

LEMMA WalkOrder ==
  ASSUME NEW S, NEW l \in Seq(S)
  PROVE  /\ Newest(l) \in Seq(S)
         /\ AllButNewest(l) \in Seq(S)
         /\ ToSet(AllButNewest(l)) \subseteq ToSet(l)
<1>1. /\ Reverse(l) \in Seq(S) /\ Len(Reverse(l)) = Len(l)
      /\ \A i \in 1..Len(l) : Reverse(l)[i] = l[(Len(l) - i) + 1]
      /\ Len(l) \in Nat
  BY DEF Reverse
<1>2. ASSUME NEW i \in 1..Len(l)
      PROVE  Reverse(l)[i] \in ToSet(l)
  <2>1. (Len(l) - i) + 1 \in DOMAIN l
    BY <1>1
  <2>2. QED
    BY <2>1, <1>1 DEF ToSet
<1> DEFINE r == Reverse(l)
<1> HIDE DEF r
<1>3. Newest(l) \in Seq(S)
  BY <1>1 DEF Newest, r
<1>4. /\ AllButNewest(l) \in Seq(S)
      /\ \A i \in DOMAIN AllButNewest(l) :
           i + 2 \in 1..Len(l) /\ AllButNewest(l)[i] = r[i + 2]
  BY <1>1 DEF AllButNewest, r
<1>5. QED
  BY <1>2, <1>3, <1>4 DEF ToSet, r

-----------------------------------------------------------------------------
(* Counters are words, and those that read as negative are integers, too.  *)
LEMMA Words ==
  /\ Reports \subseteq Word /\ Garbage \subseteq Word
  /\ \A n \in Word : n \in Int /\ 0 \in Word /\ AsInt(n, Width) \in Int
<1>1. Width \in Nat /\ Width - 1 \in Nat
  BY WsAssumption
<1>2. 2^Width \in Int /\ 2^(Width - 1) \in Int
  BY <1>1
<1>3. Reports \subseteq Word /\ Garbage \subseteq Word
  BY WsAssumption DEF Word
<1>4. ASSUME NEW n \in Word
      PROVE  n \in Int /\ 0 \in Word /\ AsInt(n, Width) \in Int
  BY <1>2, <1>4 DEF Word, AsInt
<1>5. QED
  BY <1>3, <1>4

LEMMA InitIInv == Init => IInv
<1> SUFFICES ASSUME Init
             PROVE  IInv
  OBVIOUS
<1>1. TypeOK
  <2>1. m_max_pending \in Word /\ 0 \in Word
    BY Words DEF Init
  <2>2. MAX_FRAME_RATE \in MIN_FRAME_RATE..MAX_FRAME_RATE
    BY DEF MIN_FRAME_RATE, MAX_FRAME_RATE
  <2>3. pending_h264 \in [Clients -> Word]
    BY <2>1 DEF Init
  <2>4. /\ cli_list \in Seq(Clients) /\ to_reset \in Seq(Clients)
        /\ to_write \in Seq(Clients)
        /\ got \subseteq Clients /\ heard \subseteq Clients
    BY DEF Init
  <2>5. /\ registered \in BOOLEAN /\ user_data \in BOOLEAN /\ fault \in BOOLEAN
        /\ lock \in BOOLEAN
        /\ isConnected \in BOOLEAN /\ undercut \in BOOLEAN
        /\ scan = NoScan /\ frame_rate = MAX_FRAME_RATE
    BY DEF Init
  <2>6. QED
    BY <2>1, <2>2, <2>3, <2>4, <2>5 DEF TypeOK
<1>2. HeardListed /\ BestSoFar /\ NotUnderstated /\ WalkSafe
  BY DEF Init, HeardListed, BestSoFar, NotUnderstated, WalkSafe
<1>3. QED
  BY <1>1, <1>2 DEF IInv

(* A scan that is running looks at a client in the list.                   *)
LEMMA Scanning ==
  ASSUME TypeOK, scan # NoScan
  PROVE  /\ scan.best \in 1..Len(cli_list) /\ scan.at \in 2..(Len(cli_list) + 1)
         /\ Len(cli_list) \in Nat
         /\ cli_list[scan.best] \in Clients
         /\ pending_h264[cli_list[scan.best]] \in Word
<1>1. scan \in [best : 1..Len(cli_list), at : 2..(Len(cli_list) + 1)]
  BY DEF TypeOK
<1>2. cli_list \in Seq(Clients) /\ pending_h264 \in [Clients -> Word]
  BY DEF TypeOK
<1>3. scan.best \in 1..Len(cli_list) /\ scan.at \in 2..(Len(cli_list) + 1)
  BY <1>1
<1>4. Len(cli_list) \in Nat /\ cli_list[scan.best] \in Clients
  BY <1>2, <1>3
<1>5. QED
  BY <1>2, <1>3, <1>4

(* The conjuncts of the invariant are the same when their variables are.   *)
LEMMA Unchanged ==
  ASSUME IInv
  PROVE  /\ UNCHANGED <<cli_list, heard, registered>> => HeardListed'
         /\ UNCHANGED <<cli_list, pending_h264, scan, undercut>> => BestSoFar'
         /\ UNCHANGED <<heard, pending_h264, scan, undercut, m_max_pending>>
              => NotUnderstated'
         /\ UNCHANGED <<cli_list, lock, to_reset, to_write, got>> => WalkSafe'
<1> USE DEF IInv
<1>1. UNCHANGED <<cli_list, heard, registered>> => HeardListed'
  BY DEF HeardListed, Listed
<1>2. UNCHANGED <<cli_list, pending_h264, scan, undercut>> => BestSoFar'
  BY DEF BestSoFar
<1>3. UNCHANGED <<heard, pending_h264, scan, undercut, m_max_pending>>
        => NotUnderstated'
  BY DEF NotUnderstated
<1>4. UNCHANGED <<cli_list, lock, to_reset, to_write, got>> => WalkSafe'
  BY DEF WalkSafe, Listed
<1>5. QED
  BY <1>1, <1>2, <1>3, <1>4

-----------------------------------------------------------------------------
(* The steps of the server thread.                                         *)
LEMMA NewClient ==
  ASSUME IInv, NEW c \in Clients, on_new_websocket(c)
  PROVE  IInv'
<1> USE DEF IInv
<1>1. PICK g \in Garbage : pending_h264' = [pending_h264 EXCEPT ![c] = g]
  BY DEF on_new_websocket
<1>2. /\ cli_list' = Append(cli_list, c) /\ c \notin Listed
      /\ scan = NoScan /\ ~lock
      /\ UNCHANGED <<heard, lock, to_reset, to_write, got, undercut,
                     m_max_pending, frame_rate, registered, user_data, fault,
                     scan, isConnected>>
  BY DEF on_new_websocket, pushVars, rateVars, callbackVars
<1>3. cli_list' \in Seq(Clients) /\ Listed \subseteq Listed'
  <2>1. cli_list \in Seq(Clients)
    BY DEF TypeOK
  <2>2. /\ Append(cli_list, c) \in Seq(Clients)
        /\ DOMAIN cli_list \subseteq DOMAIN Append(cli_list, c)
        /\ \A i \in DOMAIN cli_list : Append(cli_list, c)[i] = cli_list[i]
    BY <2>1
  <2>3. QED
    BY <1>2, <2>2 DEF Listed, ToSet
<1>4. TypeOK'
  <2>1. pending_h264' \in [Clients -> Word]
    BY <1>1, Words DEF TypeOK
  <2>2. QED
    BY <1>2, <1>3, <2>1 DEF TypeOK
<1>5. HeardListed'
  BY <1>2, <1>3 DEF HeardListed
<1>6. BestSoFar' /\ WalkSafe'
  BY <1>2 DEF BestSoFar, WalkSafe
<1>7. NotUnderstated'
  <2>1. c \notin heard /\ heard \subseteq Clients
    BY <1>2 DEF HeardListed, TypeOK
  <2>2. \A d \in heard : pending_h264'[d] = pending_h264[d]
    BY <1>1, <2>1 DEF TypeOK
  <2>3. QED
    BY <1>2, <2>2 DEF NotUnderstated
<1>8. QED
  BY <1>4, <1>5, <1>6, <1>7

LEMMA ClientLeaves ==
  ASSUME IInv, NEW c \in Clients, on_disconnect(c)
  PROVE  IInv'
<1> USE DEF IInv
<1>1. PICK k \in DOMAIN cli_list : cli_list[k] = c /\ cli_list' = RemoveAt(cli_list, k)
  BY DEF on_disconnect
<1>2. /\ heard' = heard \ {c} /\ scan = NoScan /\ ~lock
      /\ UNCHANGED <<pending_h264, lock, to_reset, to_write, got, undercut,
                     m_max_pending, frame_rate, registered, user_data, fault,
                     scan, isConnected>>
  BY DEF on_disconnect, pushVars, rateVars, callbackVars
<1>3. cli_list' \in Seq(Clients) /\ Listed \ {c} \subseteq Listed'
  BY <1>1, AfterRemoveAt DEF TypeOK, Listed
<1>4. TypeOK'
  BY <1>2, <1>3 DEF TypeOK
<1>5. HeardListed'
  BY <1>2, <1>3 DEF HeardListed
<1>6. BestSoFar' /\ WalkSafe'
  BY <1>2 DEF BestSoFar, WalkSafe
<1>7. NotUnderstated'
  BY <1>2 DEF NotUnderstated
<1>8. QED
  BY <1>4, <1>5, <1>6, <1>7

LEMMA Report ==
  ASSUME IInv, NEW c \in Clients, NEW n \in Reports, on_cli_read(c, n)
  PROVE  IInv'
<1> USE DEF IInv
<1>1. /\ scan = NoScan /\ c \in Listed
      /\ pending_h264' = [pending_h264 EXCEPT ![c] = n]
      /\ undercut' = (undercut /\ ~registered)
      /\ UNCHANGED <<cli_list, lock, to_reset, to_write, got,
                     m_max_pending, frame_rate, registered, user_data, fault, isConnected>>
  BY DEF on_cli_read, pushVars, rateVars, callbackVars
<1>2. IF registered THEN scan' = [best |-> 1, at |-> 2] /\ heard' = heard \cup {c}
                    ELSE scan' = NoScan /\ heard' = heard
  BY DEF on_cli_read
<1>3. cli_list \in Seq(Clients) /\ Len(cli_list) \in Nat /\ Len(cli_list) >= 1
  BY <1>1 DEF TypeOK, Listed, ToSet
<1>4. pending_h264' \in [Clients -> Word]
  BY <1>1, Words DEF TypeOK
<1>5. scan' = NoScan \/ scan' \in [best : 1..Len(cli_list), at : 2..(Len(cli_list) + 1)]
  <2>1. 1 \in 1..Len(cli_list) /\ 2 \in 2..(Len(cli_list) + 1)
    BY <1>3
  <2>2. QED
    BY <1>2, <2>1
<1>6. TypeOK'
  BY <1>1, <1>2, <1>4, <1>5 DEF TypeOK
<1>7. HeardListed' /\ WalkSafe'
  BY <1>1, <1>2 DEF HeardListed, WalkSafe, Listed
<1>8. BestSoFar'
  <2>1. CASE registered
    <3>1. scan'.best = 1 /\ scan'.at - 1 = 1
      BY <2>1, <1>2
    <3>2. pending_h264'[cli_list[1]] \in Word
      BY <1>3, <1>4
    <3>3. pending_h264'[cli_list[1]] <= pending_h264'[cli_list[1]]
      BY <3>2, Words
    <3>4. QED
      BY <3>1, <3>3, <1>1 DEF BestSoFar
  <2>2. CASE ~registered
    BY <2>2, <1>2 DEF BestSoFar
  <2>3. QED
    BY <2>1, <2>2
<1>9. NotUnderstated'
  <2>1. CASE registered
    <3>1. scan'.at = 2 /\ NoScan.at = 0
      BY <2>1, <1>2 DEF NoScan
    <3>2. scan' # NoScan
      BY <3>1
    <3>3. QED
      BY <3>2 DEF NotUnderstated
  <2>2. CASE ~registered
    BY <2>2, <1>1, <1>2 DEF NotUnderstated, HeardListed
  <2>3. QED
    BY <2>1, <2>2
<1>10. QED
  BY <1>6, <1>7, <1>8, <1>9

LEMMA Compared ==
  ASSUME IInv, CompareNext
  PROVE  IInv'
<1> USE DEF IInv
<1>1. /\ scan # NoScan /\ scan.at <= Len(cli_list)
      /\ scan' = [best |-> IF pending_h264[cli_list[scan.best]]
                               < pending_h264[cli_list[scan.at]]
                           THEN scan.at ELSE scan.best,
                  at |-> scan.at + 1]
      /\ UNCHANGED <<cli_list, pending_h264, heard, lock, to_reset, to_write,
                     got, undercut, m_max_pending, frame_rate, registered,
                     user_data, fault,
                     isConnected>>
  BY DEF CompareNext, cliVars, pushVars, rateVars, callbackVars
<1>2. /\ scan.best \in 1..Len(cli_list) /\ scan.at \in 2..(Len(cli_list) + 1)
      /\ Len(cli_list) \in Nat
      /\ pending_h264[cli_list[scan.best]] \in Int
  BY <1>1, Scanning, Words
<1>3. /\ scan'.best \in {scan.best, scan.at} /\ scan'.at = scan.at + 1
      /\ scan'.best \in 1..Len(cli_list) /\ scan'.at \in 2..(Len(cli_list) + 1)
  BY <1>1, <1>2
<1>4. scan' # NoScan
  <2>1. NoScan.at = 0
    BY DEF NoScan
  <2>2. QED
    BY <2>1, <1>2, <1>3
<1>5. TypeOK'
  <2>1. scan' \in [best : 1..Len(cli_list), at : 2..(Len(cli_list) + 1)]
    BY <1>1, <1>3
  <2>2. QED
    BY <1>1, <2>1 DEF TypeOK
<1>6. BestSoFar'
  <2> SUFFICES ASSUME ~undercut, NEW k \in 1..scan.at
               PROVE  pending_h264[cli_list[k]] <= pending_h264[cli_list[scan'.best]]
    BY <1>1, <1>2, <1>3 DEF BestSoFar
  <2> DEFINE P(i) == pending_h264[cli_list[i]]
  <2>1. \A i \in 1..Len(cli_list) : P(i) \in Int
    BY Words DEF TypeOK
  <2>2. scan.at \in 1..Len(cli_list) /\ k \in 1..Len(cli_list)
    BY <1>1, <1>2
  <2>3. P(k) \in Int /\ P(scan.at) \in Int /\ P(scan.best) \in Int
    BY <1>2, <2>1, <2>2
  <2>4. \A i \in 1..(scan.at - 1) : P(i) <= P(scan.best)
    BY <1>1 DEF BestSoFar
  <2>5. k = scan.at \/ k \in 1..(scan.at - 1)
    BY <1>2
  <2>6. scan'.best = IF P(scan.best) < P(scan.at) THEN scan.at ELSE scan.best
    BY <1>1
  <2> HIDE DEF P
  <2>7. P(k) <= P(scan'.best)
    BY <2>3, <2>4, <2>5, <2>6
  <2>8. QED
    BY <2>7 DEF P
<1>7. NotUnderstated'
  BY <1>4 DEF NotUnderstated
<1>8. HeardListed' /\ WalkSafe'
  BY <1>1, Unchanged
<1>9. QED
  BY <1>5, <1>6, <1>7, <1>8

(* The scan ends with the largest counter of the list, so that it is not   *)
(* below that of any client that was heard.                                *)
LEMMA Notified ==
  ASSUME IInv, NotifyMax
  PROVE  IInv'
<1> USE DEF IInv
<1> DEFINE max == pending_h264[cli_list[scan.best]]
<1>1. /\ scan # NoScan /\ scan.at > Len(cli_list) /\ scan' = NoScan
      /\ UNCHANGED <<cli_list, pending_h264, heard, lock, to_reset, to_write,
                     got, undercut, registered, user_data, isConnected>>
  BY DEF NotifyMax, ScanEnds, cliVars, pushVars
<1>2. /\ m_max_pending' = max
      /\ fault' \in {fault, TRUE}
      /\ frame_rate' \in {frame_rate,
                          ws_cli_max_pending_changed_handler(
                            AsInt(max, Width), frame_rate, isConnected)}
  <2>1. CASE max # m_max_pending \/ max = 0
    BY <2>1 DEF NotifyMax, Found, CallHandler
  <2>2. CASE ~(max # m_max_pending \/ max = 0)
    BY <2>2 DEF NotifyMax, Found, KeepMax, rateVars
  <2>3. QED
    BY <2>1, <2>2
<1>3. max \in Word /\ AsInt(max, Width) \in Int
  BY <1>1, Scanning, Words
<1>4. scan.at - 1 = Len(cli_list) /\ Len(cli_list) \in Nat
  BY <1>1, Scanning
<1>5. TypeOK'
  <2>1. frame_rate \in Rates /\ frame_rate \in Int /\ isConnected \in BOOLEAN
    BY DEF TypeOK, Rates, MIN_FRAME_RATE, MAX_FRAME_RATE
  <2>2. frame_rate' \in Rates
    BY <1>2, <1>3, <2>1, RateInBounds
  <2>3. fault' \in BOOLEAN
    BY <1>2 DEF TypeOK
  <2>4. QED
    BY <1>1, <1>2, <1>3, <2>2, <2>3 DEF TypeOK, Rates
<1>6. BestSoFar' /\ HeardListed' /\ WalkSafe'
  BY <1>1, Unchanged DEF BestSoFar
<1>7. NotUnderstated'
  <2> SUFFICES ASSUME ~undercut, NEW c \in heard
               PROVE  pending_h264[c] <= max
    BY <1>1, <1>2 DEF NotUnderstated
  <2>1. PICK k \in DOMAIN cli_list : cli_list[k] = c
    BY DEF HeardListed, Listed, ToSet
  <2>2. k \in 1..(scan.at - 1)
    BY <2>1, <1>4 DEF TypeOK
  <2>3. QED
    BY <2>1, <2>2, <1>1 DEF BestSoFar
<1>8. QED
  BY <1>5, <1>6, <1>7

-----------------------------------------------------------------------------
(* The steps of the encoder's thread.                                      *)
LEMMA FrameBegins ==
  ASSUME IInv, pushData
  PROVE  IInv'
<1> USE DEF IInv
<1>1. /\ to_write' = Newest(cli_list) /\ got' = {} /\ lock' = TRUE
      /\ to_reset' \in {AllButNewest(cli_list), <<>>}
      /\ UNCHANGED <<cli_list, pending_h264, heard, m_max_pending, frame_rate,
                     registered, user_data, fault, scan, isConnected, undercut>>
  BY DEF pushData, cliVars, rateVars, callbackVars
<1>2. /\ Newest(cli_list) \in Seq(Clients) /\ AllButNewest(cli_list) \in Seq(Clients)
      /\ ToSet(AllButNewest(cli_list)) \subseteq Listed
  BY WalkOrder DEF TypeOK, Listed
<1>3. TypeOK'
  <2>1. <<>> \in Seq(Clients)
    OBVIOUS
  <2>2. to_reset' \in Seq(Clients) /\ to_write' \in Seq(Clients)
    BY <2>1, <1>1, <1>2
  <2>3. got' \subseteq Clients /\ lock' \in BOOLEAN
    BY <1>1
  <2>4. QED
    BY <1>1, <2>2, <2>3 DEF TypeOK
<1>4. WalkSafe'
  <2>1. ToSet(to_reset') \subseteq Listed
    <3>1. ToSet(<<>>) = {}
      BY DEF ToSet
    <3>2. QED
      BY <3>1, <1>1, <1>2
  <2>2. QED
    BY <1>1, <2>1 DEF WalkSafe, Listed
<1>5. HeardListed' /\ BestSoFar' /\ NotUnderstated'
  BY <1>1, Unchanged
<1>6. QED
  BY <1>3, <1>4, <1>5

(* A reset lowers the counter of one client.  If that is not the one the   *)
(* scan holds for the largest, it stays the largest.                       *)
LEMMA CounterReset ==
  ASSUME IInv, ResetCounter
  PROVE  IInv'
<1> USE DEF IInv
<1> DEFINE h == Head(to_reset)
<1>1. /\ lock /\ to_reset # <<>>
      /\ undercut' = (undercut \/ (scan # NoScan /\ h = cli_list[scan.best]))
      /\ pending_h264' = [pending_h264 EXCEPT ![h] = 0]
      /\ to_reset' = Tail(to_reset)
      /\ UNCHANGED <<cli_list, heard, lock, to_write, got, m_max_pending,
                     frame_rate, registered, user_data, fault, scan,
                     isConnected>>
  BY DEF ResetCounter, rateVars, callbackVars
<1>2. /\ Tail(to_reset) \in Seq(Clients)
      /\ ToSet(Tail(to_reset)) \subseteq ToSet(to_reset)
  BY <1>1, HeadAndTail DEF TypeOK
<1>3. ASSUME NEW c \in Clients
      PROVE  /\ pending_h264[c] \in Int /\ 0 <= pending_h264[c]
             /\ pending_h264'[c] \in {pending_h264[c], 0}
             /\ c # h => pending_h264'[c] = pending_h264[c]
  <2>1. pending_h264[c] \in Word /\ pending_h264[c] \in Int
    BY Words DEF TypeOK
  <2>2. QED
    BY <1>1, <2>1 DEF TypeOK, Word
<1>4. TypeOK'
  <2>1. 0 \in Word
    BY Words DEF TypeOK
  <2>2. pending_h264' \in [Clients -> Word]
    BY <2>1, <1>1 DEF TypeOK
  <2>3. undercut' \in BOOLEAN
    BY <1>1
  <2>4. QED
    BY <1>1, <1>2, <2>2, <2>3 DEF TypeOK
<1>5. WalkSafe' /\ HeardListed'
  BY <1>1, <1>2 DEF WalkSafe, HeardListed, Listed
<1>6. BestSoFar'
  <2> SUFFICES ASSUME scan # NoScan, ~undercut', NEW k \in 1..(scan.at - 1)
               PROVE  pending_h264'[cli_list[k]] <= pending_h264'[cli_list[scan.best]]
    BY <1>1 DEF BestSoFar
  <2> DEFINE b == cli_list[scan.best]
             c == cli_list[k]
  <2>1. ~undercut /\ h # b
    BY <1>1
  <2>2. b \in Clients /\ c \in Clients
    <3>1. k \in 1..Len(cli_list)
      BY Scanning
    <3>2. QED
      BY <3>1, Scanning DEF TypeOK
  <2>3. pending_h264[c] <= pending_h264[b]
    BY <2>1 DEF BestSoFar
  <2>4. pending_h264'[b] = pending_h264[b]
    BY <1>3, <2>1, <2>2
  <2> HIDE DEF b, c
  <2>5. pending_h264'[c] <= pending_h264'[b]
    BY <1>3, <2>2, <2>3, <2>4
  <2>6. QED
    BY <2>5 DEF b, c
<1>7. NotUnderstated'
  <2> SUFFICES ASSUME scan = NoScan, ~undercut', NEW c \in heard
               PROVE  pending_h264'[c] <= m_max_pending
    BY <1>1 DEF NotUnderstated
  <2>1. pending_h264[c] <= m_max_pending
    BY <1>1 DEF NotUnderstated
  <2>2. m_max_pending \in Int /\ 0 <= m_max_pending
    BY Words DEF TypeOK, Word
  <2>3. c \in Clients
    BY DEF TypeOK
  <2>4. QED
    BY <1>3, <2>1, <2>2, <2>3
<1>8. QED
  BY <1>4, <1>5, <1>6, <1>7

LEMMA FrameWritten ==
  ASSUME IInv, WriteFrame
  PROVE  IInv'
<1> USE DEF IInv
<1>1. /\ lock /\ to_write # <<>>
      /\ got' = got \cup {Head(to_write)} /\ to_write' = Tail(to_write)
      /\ UNCHANGED <<cli_list, pending_h264, heard, lock, to_reset, undercut,
                     m_max_pending, frame_rate, registered, user_data, fault,
                     scan, isConnected>>
  BY DEF WriteFrame, cliVars, rateVars, callbackVars
<1>2. /\ Head(to_write) \in Clients /\ Tail(to_write) \in Seq(Clients)
      /\ ToSet(to_write) = {Head(to_write)} \cup ToSet(Tail(to_write))
  BY <1>1, HeadAndTail DEF TypeOK
<1>3. TypeOK'
  BY <1>1, <1>2 DEF TypeOK
<1>4. WalkSafe'
  BY <1>1, <1>2 DEF WalkSafe, Listed
<1>5. HeardListed' /\ BestSoFar' /\ NotUnderstated'
  BY <1>1, Unchanged
<1>6. QED
  BY <1>3, <1>4, <1>5

LEMMA FrameEnds ==
  ASSUME IInv, Unlock
  PROVE  IInv'
<1> USE DEF IInv
<1>1. /\ lock' = FALSE /\ got' = {}
      /\ UNCHANGED <<cli_list, pending_h264, heard, to_reset, to_write, undercut,
                     m_max_pending, frame_rate, registered, user_data, fault,
                     scan, isConnected>>
  BY DEF Unlock, cliVars, rateVars, callbackVars
<1>2. TypeOK'
  BY <1>1 DEF TypeOK
<1>3. WalkSafe'
  BY <1>1 DEF WalkSafe
<1>4. HeardListed' /\ BestSoFar' /\ NotUnderstated'
  BY <1>1, Unchanged
<1>5. QED
  BY <1>2, <1>3, <1>4

-----------------------------------------------------------------------------
LEMMA NextIInv == IInv /\ [Next]_vars => IInv'
<1> SUFFICES ASSUME IInv, [Next]_vars
             PROVE  IInv'
  OBVIOUS
<1>1. ASSUME NEW c \in Clients, on_new_websocket(c)
      PROVE  IInv'
  BY <1>1, NewClient
<1>2. ASSUME NEW c \in Clients, on_disconnect(c)
      PROVE  IInv'
  BY <1>2, ClientLeaves
<1>3. ASSUME NEW c \in Clients, NEW n \in Reports, on_cli_read(c, n)
      PROVE  IInv'
  BY <1>3, Report
<1>4. CASE ServerThread
  BY <1>4, Compared, Notified DEF ServerThread
<1>5. CASE pushData
  BY <1>5, FrameBegins
<1>6. CASE EncoderThread
  BY <1>6, CounterReset, FrameWritten, FrameEnds DEF EncoderThread
<1>7. CASE setMaxPendingChangedCallback
  <2> USE DEF setMaxPendingChangedCallback, StoreCallback, StoreUserData
  <2>1. UNCHANGED <<cli_list, pending_h264, heard, lock, to_reset, to_write,
                    got, undercut, m_max_pending, frame_rate, fault, scan,
                    isConnected>>
    BY <1>7 DEF cliVars, pushVars, rateVars
  <2>2. CASE StoreCallback
    <3>1. registered' = TRUE /\ user_data' = user_data
      BY <2>2
    <3>2. TypeOK'
      BY <2>1, <3>1 DEF IInv, TypeOK
    <3>3. HeardListed'
      BY <2>1, <3>1 DEF IInv, HeardListed, Listed
    <3>4. QED
      BY <2>1, <3>2, <3>3, Unchanged DEF IInv
  <2>3. CASE StoreUserData
    <3>1. registered' = registered /\ user_data' = TRUE
      BY <2>3
    <3>2. TypeOK'
      BY <2>1, <3>1 DEF IInv, TypeOK
    <3>3. QED
      BY <2>1, <3>1, <3>2, Unchanged DEF IInv
  <2>4. QED
    BY <1>7, <2>2, <2>3
<1>8. CASE RtspAttribute
  <2>1. /\ isConnected' = ~isConnected
        /\ UNCHANGED <<cli_list, pending_h264, heard, lock, to_reset, to_write,
                       got, undercut, m_max_pending, frame_rate, scan,
                       registered, user_data, fault>>
    BY <1>8 DEF RtspAttribute, cliVars, pushVars, rateVars, callbackVars
  <2>2. TypeOK'
    BY <2>1 DEF IInv, TypeOK
  <2>3. QED
    BY <2>1, <2>2, Unchanged DEF IInv
<1>9. CASE UNCHANGED vars
  <2>1. UNCHANGED <<cli_list, pending_h264, heard, lock, to_reset, to_write,
                    got, undercut, m_max_pending, frame_rate, registered, user_data, fault,
                    scan, isConnected>>
    BY <1>9 DEF vars, cliVars, pushVars, rateVars, callbackVars
  <2>2. TypeOK'
    BY <2>1 DEF IInv, TypeOK
  <2>3. QED
    BY <2>1, <2>2, Unchanged DEF IInv
<1>10. QED
  BY <1>1, <1>2, <1>3, <1>4, <1>5, <1>6, <1>7, <1>8, <1>9 DEF Next, Dead

LEMMA Inductive == Spec => []IInv
<1>1. Init => IInv
  BY InitIInv
<1>2. IInv /\ [Next]_vars => IInv'
  BY NextIInv
<1>3. QED
  BY <1>1, <1>2, PTL DEF Spec

(* Every variable keeps its type and the frame rate its bounds, whatever   *)
(* the uninitialised counters of websocketserverimplcfwk.cpp hold.         *)
THEOREM TypeCorrect == Spec => []TypeOK
<1>1. IInv => TypeOK
  BY DEF IInv
<1>2. QED
  BY <1>1, Inductive, PTL

(* The walk of pushData never touches a client that was freed, and the     *)
(* frame goes to the two newest clients.                                   *)
THEOREM WalkIsSafe == Spec => []WalkSafe
<1>1. IInv => WalkSafe
  BY DEF IInv
<1>2. QED
  BY <1>1, Inductive, PTL

(* The scan of on_cli_read, which takes no lock, never records a maximum   *)
(* below the last report of a client that was heard, however pushData      *)
(* resets counters during it, unless it resets the one the scan holds.     *)
THEOREM NeverUnderstated == Spec => []NotUnderstated
<1>1. IInv => NotUnderstated
  BY DEF IInv
<1>2. QED
  BY <1>1, Inductive, PTL
=============================================================================
