--------------------------- MODULE LayoutConfigProofs ---------------------------
(* What holds of the layout for any table, any requests and any file, with *)
(* the two threads interleaved in any way and a crash at any step.         *)
EXTENDS LayoutConfig, SequenceTheorems, WellFoundedInduction, TLAPS

Stored == [rows : Nat, cols : Nat,
           items : Seq([row : Int, col : Int, id : Ids])]
Config == [mode : Modes, layout : Stored]

(* The table has room for the mosaic, also when the start-up replaces one  *)
(* of its two dimensions.                                                  *)
Room(h, w) ==
  h * w <= MAX_LAYER_NUMS /\ h * Blks <= MAX_LAYER_NUMS /\ Blks * w <= MAX_LAYER_NUMS

Sized(l) == l.cols # 0 /\ Room(l.rows, l.cols)

Accepting == {"cols", "clear", "place", "store", "put", "putcols", "collect",
              "item", "open", "save"}
Answering == {"dims", "dimcols", "fill", "send"}

DiskOK ==
  /\ file \in Config /\ conf \in Config /\ acked \in Config
  /\ file.layout = NoLayout \/ Sized(file.layout)
  /\ conf.layout = NoLayout \/ Sized(conf.layout)

DraftOK ==
  /\ draft \in Stored
  /\ ws \in {"putcols", "dimcols"} =>
       draft.rows * cols <= MAX_LAYER_NUMS /\ draft.rows * Blks <= MAX_LAYER_NUMS
  /\ ws \in {"collect", "item"} => Sized(draft)
  /\ ws \in {"fill", "send"} =>
       draft.cols # 0 /\ draft.rows * draft.cols <= MAX_LAYER_NUMS

(* Between the assignments of its two dimensions the mosaic may be too     *)
(* large, and nothing uses both.                                           *)
DimsOK ==
  /\ rows * Blks <= MAX_LAYER_NUMS /\ Blks * cols <= MAX_LAYER_NUMS
  /\ ws = "cols" => rows \in {req.rows, Blks}
  /\ ws # "cols" => rows * cols <= MAX_LAYER_NUMS

RequestOK ==
  /\ req # NoLayout => req \in Requests
  /\ ws \in Accepting => req # NoLayout
  /\ ws \in {"place", "store"} => wi # 0
  /\ ws = "store" => wi <= Len(req.items) /\ width # 0
  /\ ws = "item" => wi < MAX_LAYER_NUMS /\ tab[wi] # Empty /\ width # 0
  /\ boot = "down" => ws = "idle" /\ req = NoLayout

Typed == TypeOK /\ DiskOK /\ DraftOK /\ DimsOK /\ RequestOK

(* The mode that was installed is kept in memory, and what is confirmed at *)
(* the end of an exchange is what was saved in it.                         *)
SaveOK ==
  /\ conf.mode \in {"none", acked.mode}
  /\ ws \in Accepting => conf.mode = "unfixed"
  /\ ws = "save" => saving
  /\ ws \in Answering /\ req # NoLayout => file = conf /\ conf.mode = "unfixed"

(* How far the default layout has come, in the table as long as no request *)
(* was accepted, in the attributes also when one was accepted later.       *)
Looping == {"tab", "test", "attr"}

Quiet ==
  /\ changed = "never" => ws \notin Accepting
  /\ boot = "down" => changed = "never"
  /\ boot # "up" => changed # "running"

TableReset ==
  changed = "never" =>
    /\ boot \notin {"down", "cols"} => cols = Blks
    /\ boot \notin {"down", "cols", "rows"} => rows = Blks
    /\ boot \in Looping => \A p \in Positions : p < bi => tab[p] = p
    /\ boot \in {"test", "attr"} => tab[bi] = bi
    /\ boot = "up" => tab = Identity

AttrCopied ==
  changed # "starting" =>
    /\ boot \in Looping \cup {"attrrows", "up"} => attr.cols = Blks
    /\ boot \in Looping \cup {"up"} => attr.rows = Blks
    /\ boot \in Looping => \A p \in Shown : p < bi => attr.tab[p] = p
    /\ boot = "up" => attr = DefaultAttr

StartOK == Quiet /\ TableReset /\ AttrCopied

IInv == Typed /\ SaveOK /\ FileHoldsAcked /\ StartOK

-----------------------------------------------------------------------------
(* Facts about the constants. *)

LEMMA Sizes ==
  /\ MAX_LAYER_NUMS \in Nat \ {0} /\ Blks \in Nat \ {0}
  /\ LayNum \in Nat /\ LayNum <= MAX_LAYER_NUMS
  /\ Shown \subseteq Positions
  /\ 0 \in Positions /\ 0 \in 0..MAX_LAYER_NUMS
<1>1. Blks \in Nat \ {0} /\ MAX_LAYER_NUMS \in Nat
      /\ LayNum \in Nat /\ LayNum <= MAX_LAYER_NUMS
  BY LayoutAssumption
<1>2. MAX_LAYER_NUMS >= 1
  <2>1. Blks * Blks >= 1
    BY <1>1
  <2> QED
    BY <1>1, <2>1, LayoutAssumption
<1> QED
  BY <1>1, <1>2 DEF Shown, Positions

LEMMA IdsKnown ==
  /\ Positions \subseteq Ids
  /\ \A q \in Layouts : \A i \in DOMAIN q.items : q.items[i].id \in Ids
<1>1. ASSUME NEW q \in Layouts, NEW i \in DOMAIN q.items
      PROVE  q.items[i].id \in Ids
  <2>1. q.items[i] \in ToSet(q.items)
    BY DEF ToSet
  <2>2. q.items[i] \in UNION {ToSet(l.items) : l \in Layouts}
    BY <2>1
  <2> QED
    BY <2>2 DEF Ids
<1> QED
  BY <1>1 DEF Ids

(* A layout that fits may be stored and leaves room. *)
LEMMA FitsIsStored ==
  ASSUME NEW q \in Layouts, Fits(q)
  PROVE  q \in Stored /\ Sized(q) /\ q # NoLayout
<1>1. /\ q.rows \in Nat \ {0} /\ q.cols \in Nat \ {0}
      /\ q.items \in Seq(ItemType)
      /\ q = [rows |-> q.rows, cols |-> q.cols, items |-> q.items]
  BY DEF Fits
<1>2. q.items \in Seq([row : Int, col : Int, id : Ids])
  <2>1. ASSUME NEW i \in 1..Len(q.items)
        PROVE  q.items[i] \in [row : Int, col : Int, id : Ids]
    <3>1. q.items[i] \in [row : Nat, col : Nat, id : Nat]
      BY <1>1, ElementOfSeq DEF ItemType
    <3>2. DOMAIN q.items = 1..Len(q.items)
      BY <1>1, LenProperties
    <3>3. q.items[i].id \in Ids
      BY <3>2, IdsKnown
    <3> QED
      BY <3>1, <3>3
  <2>2. Len(q.items) \in Nat /\ q.items \in [1..Len(q.items) -> ItemType]
    BY <1>1, LenProperties
  <2>3. q.items \in [1..Len(q.items) -> [row : Int, col : Int, id : Ids]]
    BY <2>1, <2>2
  <2>4. q.items \in UNION {[1..n -> [row : Int, col : Int, id : Ids]] : n \in Nat}
    BY <2>2, <2>3
  <2> QED
    BY <2>4, SeqDef, Zenon
<1>3. Room(q.rows, q.cols)
  <2>1. \A w \in {q.cols, Blks} : \A h \in {q.rows, Blks} : h * w <= MAX_LAYER_NUMS
    BY DEF Fits
  <2> QED
    BY <2>1 DEF Room
<1> QED
  BY <1>1, <1>2, <1>3 DEF Stored, Sized, NoLayout

LEMMA RequestsAreStored ==
  ASSUME NEW q \in Requests
  PROVE  q \in Stored /\ Sized(q) /\ q # NoLayout
  BY LayoutAssumption, FitsIsStored DEF Layouts

(* A nonempty set of indexes of a sequence has a greatest element.         *)
LEMMA GreatestIndex ==
  ASSUME NEW n \in Nat, NEW S, S \subseteq 1..n, S # {}
  PROVE  Max(S) \in S
<1> DEFINE T == {n - i : i \in S}
<1>1. T \subseteq Nat /\ T # {}
  <2>1. \A i \in S : i \in Nat /\ i <= n
    OBVIOUS
  <2>2. T # {}
    OBVIOUS
  <2>3. \A t \in T : t \in Nat
    BY <2>1
  <2> QED
    BY <2>2, <2>3
<1>2. PICK x \in T : \A y \in T : ~(<<y, x>> \in OpToRel(<, Nat))
  <2> HIDE DEF T
  <2> QED
    BY ONLY <1>1, NatLessThanWellFounded, WFMin
<1>3. \A y \in T : ~(y < x)
  BY <1>1, <1>2 DEF OpToRel
<1>4. PICK m \in S : x = n - m
  OBVIOUS
<1>5. \A i \in S : m >= i
  <2> TAKE i \in S
  <2>1. ~(n - i < n - m)
    BY <1>3, <1>4
  <2> QED
    BY <2>1
<1> QED
  BY <1>5 DEF Max

(* What is read from a file is made of known inputs. *)
LEMMA PlacedType ==
  ASSUME NEW l \in Stored, NEW w
  PROVE  Placed(l.items, w) \in [Positions -> Ids \cup {Empty}]
<1> SUFFICES ASSUME NEW p \in Positions
             PROVE  LET here == {i \in DOMAIN l.items :
                                   l.items[i].row * w + l.items[i].col = p}
                    IN (IF here = {} THEN Empty ELSE l.items[Max(here)].id)
                         \in Ids \cup {Empty}
  BY DEF Placed
<1> DEFINE here == {i \in DOMAIN l.items : l.items[i].row * w + l.items[i].col = p}
<1>1. l.items \in Seq([row : Int, col : Int, id : Ids])
  BY DEF Stored
<1>2. Len(l.items) \in Nat /\ here \subseteq 1..Len(l.items)
  BY <1>1
<1>3. CASE here = {}
  BY <1>3
<1>4. CASE here # {}
  <2>1. Max(here) \in here
    <3> HIDE DEF here
    <3> QED
      BY <1>2, <1>4, GreatestIndex
  <2>2. l.items[Max(here)] \in [row : Int, col : Int, id : Ids]
    <3> HIDE DEF here
    <3> QED
      BY <1>1, <1>2, <2>1, ElementOfSeq
  <2> QED
    BY <2>2
<1> QED
  BY <1>3, <1>4

LEMMA NoLayoutStored == NoLayout \in Stored
<1>1. <<>> \in Seq([row : Int, col : Int, id : Ids])
  BY EmptySeq
<1> QED
  BY <1>1 DEF NoLayout, Stored

(* What the file holds between open and write, and what is in memory when  *)
(* nothing could be read.                                                  *)
LEMMA EmptyConfigs ==
  /\ Torn \in Config /\ Torn.layout = NoLayout
  /\ NoConf \in Config /\ NoConf.layout = NoLayout
<1>1. "torn" \in Modes /\ "none" \in Modes
  BY DEF Modes
<1> DEFINE L == NoLayout
<1>2. L \in Stored
  BY NoLayoutStored
<1>3. /\ Torn = [mode |-> "torn", layout |-> L]
      /\ NoConf = [mode |-> "none", layout |-> L]
  BY DEF Torn, NoConf
<1> HIDE DEF L
<1>4. /\ Torn \in Config /\ Torn.layout = L
      /\ NoConf \in Config /\ NoConf.layout = L
  BY <1>1, <1>2, <1>3 DEF Config
<1> QED
  BY <1>4 DEF L

LEMMA InitIInv == Init => IInv
<1> SUFFICES ASSUME Init
             PROVE  IInv
  OBVIOUS
<1> USE Sizes DEF Init
<1>1. TypeOK
  <2>1. tab \in [Positions -> Ids \cup {Empty}]
    BY IdsKnown
  <2>2. attr \in [cols : Nat, rows : Nat, tab : [Shown -> Ids \cup {0, Empty}]]
    BY DEF NoAttr
  <2> QED
    BY <2>1, <2>2 DEF TypeOK
<1>2. DiskOK
  <2>1. file \in [mode : Modes, layout : {file.layout}]
        /\ (file.layout = NoLayout \/ Fits(file.layout))
    BY LayoutAssumption
  <2>2. file.layout \in Stored /\ (file.layout = NoLayout \/ Sized(file.layout))
    BY <2>1, NoLayoutStored, FitsIsStored DEF Layouts
  <2>3. conf.layout = NoLayout /\ conf \in Config
    BY EmptyConfigs
  <2> QED
    BY <2>1, <2>2, <2>3 DEF DiskOK, Config
<1>3. DraftOK /\ RequestOK
  BY NoLayoutStored DEF DraftOK, RequestOK, Accepting
<1>4. DimsOK
  BY LayoutAssumption DEF DimsOK
<1>5. SaveOK
  BY DEF SaveOK, NoConf, Accepting, Answering
<1>6. FileHoldsAcked
  BY DEF FileHoldsAcked
<1>7. StartOK
  BY DEF StartOK, Quiet, TableReset, AttrCopied, Looping, Accepting
<1> QED
  BY <1>1, <1>2, <1>3, <1>4, <1>5, <1>6, <1>7 DEF IInv, Typed

-----------------------------------------------------------------------------
(* Types and sizes. *)

LEMMA ItemStored ==
  ASSUME TypeOK, draft \in Stored, NEW i \in Positions, tab[i] # Empty,
         NEW w \in Nat \ {0}, NEW v \in Nat \ {0},
         draft' = [draft EXCEPT !.items = Append(@, Item(i, w, v))]
  PROVE  /\ draft' \in Stored
         /\ draft'.rows = draft.rows /\ draft'.cols = draft.cols
         /\ draft'.items = Append(draft.items, Item(i, w, v))
         /\ Item(i, w, v) \in [row : Int, col : Int, id : Ids]
<1>1. tab[i] \in Ids
  BY DEF TypeOK
<1>2. Item(i, w, v) \in [row : Int, col : Int, id : Ids]
  <2>1. i \in Nat /\ i \div w \in Int /\ i % v \in Int
    BY DEF Positions
  <2> QED
    BY <1>1, <2>1 DEF Item
<1>3. Append(draft.items, Item(i, w, v)) \in Seq([row : Int, col : Int, id : Ids])
  BY <1>2 DEF Stored
<1>4. draft' = [rows |-> draft.rows, cols |-> draft.cols,
                items |-> Append(draft.items, Item(i, w, v))]
  BY DEF Stored
<1> QED
  BY <1>2, <1>3, <1>4 DEF Stored

LEMMA AddedStored ==
  ASSUME TypeOK, draft \in Stored, NEW i \in Positions,
         NEW w \in Nat \ {0}, AddItem(i, w)
  PROVE  /\ draft' \in Stored
         /\ draft'.rows = draft.rows /\ draft'.cols = draft.cols
  BY ItemStored DEF AddItem

LEMMA TypedStep == Typed /\ [Next]_vars => Typed'
<1> SUFFICES ASSUME Typed, [Next]_vars
             PROVE  Typed'
  OBVIOUS
<1> USE Sizes DEF Typed, tabVars, bootVars, wsVars, diskVars
<1>1. CASE read_layout_conf
  <2>1. /\ ws = "idle" /\ UNCHANGED <<file, acked, saving, attr, bi, wsVars>>
        /\ conf' \in Config /\ conf'.layout \in Stored
        /\ conf'.layout = NoLayout \/ Sized(conf'.layout)
        /\ boot' = "cols"
    BY <1>1, EmptyConfigs DEF read_layout_conf, RequestOK, DiskOK, Config
  <2>2. /\ tab' \in [Positions -> Ids \cup {Empty}]
        /\ rows' \in Nat /\ cols' \in Nat \ {0}
        /\ Room(rows', cols')
    <3>1. Identity \in [Positions -> Ids \cup {Empty}]
      BY IdsKnown DEF Identity
    <3>2. CASE ModeOf(conf') = "fixed"
      <4>1. rows' = 1 /\ cols' = 1 /\ tab' = Identity
        BY <1>1, <3>2 DEF read_layout_conf
      <4>2. Blks <= MAX_LAYER_NUMS
        <5>1. Blks <= Blks * Blks
          OBVIOUS
        <5> QED
          BY <5>1, LayoutAssumption
      <4> QED
        BY <3>1, <4>1, <4>2 DEF Room
    <3>3. CASE ModeOf(conf') # "fixed" /\ conf'.layout = NoLayout
      <4>1. rows' = Blks /\ cols' = Blks /\ tab' = Identity
        BY <1>1, <3>3 DEF read_layout_conf
      <4> QED
        BY <3>1, <4>1, LayoutAssumption DEF Room
    <3>4. CASE ModeOf(conf') # "fixed" /\ conf'.layout # NoLayout
      <4>1. /\ rows' = conf'.layout.rows /\ cols' = conf'.layout.cols
            /\ tab' = Placed(conf'.layout.items, cols')
        BY <1>1, <3>4 DEF read_layout_conf
      <4>2. tab' \in [Positions -> Ids \cup {Empty}]
        BY <2>1, <4>1, PlacedType
      <4> QED
        BY <2>1, <3>4, <4>1, <4>2 DEF Sized, Stored
    <3> QED
      BY <3>2, <3>3, <3>4
  <2>3. TypeOK'
    BY <1>1, <2>1, <2>2 DEF TypeOK, read_layout_conf
  <2>4. DiskOK'
    BY <2>1 DEF DiskOK
  <2>5. DraftOK' /\ RequestOK'
    BY <2>1 DEF DraftOK, RequestOK, Accepting
  <2>6. DimsOK'
    BY <2>1, <2>2 DEF DimsOK, Room
  <2> QED
    BY <2>3, <2>4, <2>5, <2>6
<1>2. CASE ResetCols
  <2>1. TypeOK' /\ DiskOK' /\ RequestOK'
    BY <1>2 DEF ResetCols, TypeOK, DiskOK, RequestOK, Accepting
  <2>2. DimsOK'
    BY <1>2, LayoutAssumption DEF ResetCols, DimsOK, TypeOK
  <2>3. DraftOK'
    BY <1>2 DEF ResetCols, DraftOK
  <2> QED
    BY <2>1, <2>2, <2>3
<1>3. CASE ResetRows
  <2>1. TypeOK' /\ DiskOK' /\ RequestOK'
    BY <1>3 DEF ResetRows, TypeOK, DiskOK, RequestOK, Accepting
  <2>2. DimsOK'
    BY <1>3, LayoutAssumption DEF ResetRows, DimsOK, TypeOK
  <2>3. DraftOK'
    BY <1>3 DEF ResetRows, DraftOK
  <2> QED
    BY <2>1, <2>2, <2>3
<1>4. CASE CopyCols
  <2>1. TypeOK' /\ DiskOK' /\ RequestOK'
    BY <1>4 DEF CopyCols, TypeOK, DiskOK, RequestOK, Accepting
  <2>2. DimsOK'
    BY <1>4 DEF CopyCols, DimsOK, TypeOK
  <2>3. DraftOK'
    BY <1>4 DEF CopyCols, DraftOK
  <2> QED
    BY <2>1, <2>2, <2>3
<1>5. CASE CopyRows
  <2>1. TypeOK'
    BY <1>5 DEF CopyRows, TypeOK, Positions
  <2> QED
    BY <1>5, <2>1 DEF CopyRows, DiskOK, DraftOK, DimsOK, RequestOK, Accepting
<1>6. CASE ResetTab
  <2>1. TypeOK'
    <3>1. CASE bi < MAX_LAYER_NUMS
      <4>1. /\ tab' = [tab EXCEPT ![bi] = bi] /\ boot' = "test"
            /\ UNCHANGED <<rows, cols, attr, bi, ws, wi, width, changed>> /\ alone' = FALSE
        BY <1>6, <3>1 DEF ResetTab
      <4>2. bi \in Ids
        BY <3>1, IdsKnown DEF TypeOK, Positions
      <4>3. tab' \in [Positions -> Ids \cup {Empty}]
        BY <4>1, <4>2 DEF TypeOK
      <4> QED
        BY <3>1, <4>1, <4>3 DEF TypeOK
    <3>2. CASE ~(bi < MAX_LAYER_NUMS)
      BY <1>6, <3>2 DEF ResetTab, TypeOK
    <3> QED
      BY <3>1, <3>2
  <2>2. ws = "item" => tab'[wi] # Empty
    <3>1. ws = "item" => wi \in Positions /\ tab[wi] # Empty
      BY DEF RequestOK, TypeOK, Positions
    <3>2. tab' = tab \/ (bi \in Nat /\ tab' = [tab EXCEPT ![bi] = bi])
      BY <1>6 DEF ResetTab, TypeOK
    <3>3. bi # Empty
      BY DEF TypeOK, Empty
    <3> QED
      BY <3>1, <3>2, <3>3 DEF TypeOK
  <2> QED
    BY <1>6, <2>1, <2>2 DEF ResetTab, DiskOK, DraftOK, DimsOK, RequestOK, Accepting
<1>7. CASE TestTab
  <2>1. TypeOK'
    BY <1>7 DEF TestTab, TypeOK, Positions
  <2> QED
    BY <1>7, <2>1 DEF TestTab, DiskOK, DraftOK, DimsOK, RequestOK, Accepting
<1>8. CASE CopyTab
  <2>1. TypeOK'
    <3>1. bi \in Positions /\ tab[bi] \in Ids \cup {Empty}
      BY <1>8 DEF CopyTab, TypeOK, Positions
    <3>2. attr' \in [cols : Nat, rows : Nat, tab : [Shown -> Ids \cup {0, Empty}]]
      BY <1>8, <3>1 DEF CopyTab, TypeOK
    <3>3. bi' \in 0..MAX_LAYER_NUMS
      BY <1>8 DEF CopyTab, TypeOK
    <3> QED
      BY <1>8, <3>2, <3>3 DEF CopyTab, TypeOK
  <2> QED
    BY <1>8, <2>1 DEF CopyTab, DiskOK, DraftOK, DimsOK, RequestOK, Accepting
<1>9. CASE send_layout_cfg_only
  BY <1>9 DEF send_layout_cfg_only, TypeOK, DiskOK, DraftOK, DimsOK, RequestOK,
     Accepting, Serving
<1>10. ASSUME NEW q \in Requests, layout_cfg(q)
       PROVE  Typed'
  <2>1. q \in Stored /\ Sized(q) /\ q # NoLayout
    BY RequestsAreStored
  <2> QED
    BY <1>10, <2>1 DEF layout_cfg, Accepts, Serving, TypeOK, DiskOK, DraftOK, DimsOK, RequestOK,
       Accepting, Sized, Room, Stored
<1>11. CASE SetCols
  <2>1. req \in Requests /\ req \in Stored /\ Sized(req)
    BY <1>11, RequestsAreStored DEF SetCols, RequestOK, Accepting
  <2> QED
    BY <1>11, <2>1 DEF SetCols, TypeOK, DiskOK, DraftOK, DimsOK, RequestOK,
       Accepting, Sized, Room, Stored
<1>12. CASE ClearTab
  BY <1>12 DEF ClearTab, TypeOK, DiskOK, DraftOK, DimsOK, RequestOK,
     Accepting
<1>13. CASE IndexItem
  <2>1. req \in Requests /\ req \in Stored
    BY <1>13, RequestsAreStored DEF IndexItem, RequestOK, Accepting
  <2> QED
    BY <1>13, <2>1 DEF IndexItem, TypeOK, DiskOK, DraftOK, DimsOK, RequestOK, Accepting
<1>14. CASE PlaceItem
  <2>1. req \in Requests /\ req \in Stored
    BY <1>14, RequestsAreStored DEF PlaceItem, RequestOK, Accepting
  <2>2. tab' \in [Positions -> Ids \cup {Empty}]
    <3>1. wi \in 1..Len(req.items)
      BY <1>14, <2>1 DEF PlaceItem, TypeOK, RequestOK, Stored
    <3>2. req.items[wi].id \in Ids
      BY <2>1, <3>1, IdsKnown, LenProperties DEF Layouts, Stored
    <3> QED
      BY <1>14, <3>2 DEF PlaceItem, TypeOK
  <2> QED
    BY <1>14, <2>1, <2>2 DEF PlaceItem, TypeOK, DiskOK, DraftOK, DimsOK, RequestOK,
       Accepting
<1>15. CASE PutRows
  <2>1. /\ draft' \in Stored /\ draft'.rows = rows
        /\ UNCHANGED <<rows, cols>>
    BY <1>15, NoLayoutStored DEF PutRows, TypeOK, Stored, NoLayout
  <2>2. rows * cols <= MAX_LAYER_NUMS /\ rows * Blks <= MAX_LAYER_NUMS
    BY <1>15 DEF PutRows, DimsOK
  <2> QED
    BY <1>15, <2>1, <2>2 DEF PutRows, TypeOK, DiskOK, DraftOK, DimsOK, RequestOK, Accepting
<1>16. CASE PutCols
  <2>1. draft' \in Stored /\ Sized(draft')
    BY <1>16 DEF PutCols, TypeOK, DraftOK, DimsOK, Stored, Sized, Room
  <2> QED
    BY <1>16, <2>1 DEF PutCols, TypeOK, DiskOK, DraftOK, DimsOK, RequestOK, Accepting
<1>17. CASE TestItem
  BY <1>17 DEF TestItem, TypeOK, DiskOK, DraftOK, DimsOK, RequestOK, Accepting
<1>18. CASE CollectItem
  <2>1. wi \in Positions /\ tab[wi] # Empty /\ draft \in Stored /\ Sized(draft)
    BY <1>18 DEF CollectItem, RequestOK, DraftOK, TypeOK, Positions
  <2>2. PICK v \in {width, cols} :
          draft' = [draft EXCEPT !.items = Append(@, Item(wi, width, v))]
    BY <1>18 DEF CollectItem
  <2>3. width \in Nat \ {0} /\ v \in Nat \ {0}
    BY <1>18 DEF CollectItem, RequestOK, TypeOK
  <2>4. /\ draft' \in Stored
        /\ draft'.rows = draft.rows /\ draft'.cols = draft.cols
    BY <2>1, <2>2, <2>3, ItemStored
  <2> QED
    BY <1>18, <2>1, <2>4 DEF CollectItem, TypeOK, DiskOK, DraftOK, DimsOK, RequestOK,
       Accepting, Sized
<1>19. CASE Install
  <2>1. conf' = [conf EXCEPT !.layout = draft] /\ draft' = NoLayout
        /\ ws' = "open" /\ wi' = 0
    BY <1>19 DEF Install
  <2>2. conf' \in Config /\ conf'.layout = draft /\ Sized(draft)
    BY <1>19, <2>1 DEF Install, DiskOK, DraftOK, Config
  <2> QED
    BY <1>19, <2>1, <2>2, NoLayoutStored DEF Install, TypeOK, DiskOK, DraftOK,
       DimsOK, RequestOK, Accepting
<1>20. CASE OpenFile
  <2>1. Torn \in Config /\ Torn.layout = NoLayout
    BY EmptyConfigs
  <2>2. acked' \in Config
    <3>1. acked' = [mode |-> acked.mode, layout |-> NoLayout]
      BY <1>20 DEF OpenFile, DiskOK, Config
    <3> QED
      BY <3>1, NoLayoutStored DEF DiskOK, Config
  <2> QED
    BY <1>20, <2>1, <2>2 DEF OpenFile, TypeOK, DiskOK, DraftOK, DimsOK, RequestOK, Accepting
<1>21. CASE WriteFile
  BY <1>21 DEF WriteFile, TypeOK, DiskOK, DraftOK, DimsOK, RequestOK,
     Accepting
<1>22. CASE DimRows \/ DimCols
  <2>1. CASE DimRows /\ ModeOf(conf) = "unfixed"
    <3>1. /\ draft' \in Stored /\ draft'.rows = rows
          /\ UNCHANGED <<rows, cols>> /\ ws' = "dimcols"
      BY <2>1, NoLayoutStored DEF DimRows, TypeOK, Stored, NoLayout
    <3>2. rows * cols <= MAX_LAYER_NUMS /\ rows * Blks <= MAX_LAYER_NUMS
      BY <2>1 DEF DimRows, DimsOK
    <3> QED
      BY <2>1, <3>1, <3>2 DEF DimRows, TypeOK, DiskOK, DraftOK, DimsOK, RequestOK,
         Accepting
  <2>2. CASE DimRows /\ ModeOf(conf) # "unfixed"
    <3>1. /\ FixedRows \in Nat /\ FixedCols \in Nat \ {0}
          /\ FixedRows * FixedCols <= MAX_LAYER_NUMS
      BY LayoutAssumption
    <3>2. /\ draft' \in Stored /\ draft'.cols # 0
          /\ draft'.rows * draft'.cols <= MAX_LAYER_NUMS
      <4>1. draft' = [rows |-> FixedRows, cols |-> FixedCols, items |-> <<>>]
        BY <2>2 DEF DimRows
      <4>2. <<>> \in Seq([row : Int, col : Int, id : Ids])
        BY EmptySeq
      <4> HIDE DEF Typed
      <4> QED
        BY ONLY <3>1, <4>1, <4>2 DEF Stored
    <3> QED
      BY <2>2, <3>2 DEF DimRows, TypeOK, DiskOK, DraftOK, DimsOK, RequestOK, Accepting
  <2>3. CASE DimCols
    <3>1. draft' \in Stored /\ draft'.cols = cols /\ draft'.rows = draft.rows
      BY <2>3 DEF DimCols, TypeOK, DraftOK, Stored
    <3>2. draft'.cols # 0 /\ draft'.rows * draft'.cols <= MAX_LAYER_NUMS
      BY <2>3, <3>1 DEF DimCols, TypeOK, DraftOK
    <3> QED
      BY <2>3, <3>1, <3>2 DEF DimCols, TypeOK, DiskOK, DraftOK, DimsOK, RequestOK,
         Accepting
  <2> QED
    BY <1>22, <2>1, <2>2, <2>3
<1>23. CASE FillFixed
  BY <1>23, IdsKnown DEF FillFixed, TypeOK, DiskOK, DraftOK, DimsOK, RequestOK,
     Accepting, Positions
<1>24. CASE SendItem
  <2>1. CASE wi < draft.rows * draft.cols
    <3>1. AddItem(wi, draft.cols) /\ UNCHANGED <<ws, reply, acked, saving>> /\ wi' = wi + 1
      BY <1>24, <2>1 DEF SendItem
    <3>2. wi \in Positions /\ draft.cols \in Nat \ {0} /\ draft \in Stored
      <4>1. draft \in Stored /\ draft.cols # 0 /\ draft.rows * draft.cols <= MAX_LAYER_NUMS
        BY <1>24 DEF SendItem, DraftOK
      <4>2. draft.rows * draft.cols \in Nat /\ draft.cols \in Nat
        BY <4>1 DEF Stored
      <4> QED
        BY <2>1, <4>1, <4>2 DEF Positions, TypeOK
    <3>3. /\ draft' \in Stored
          /\ draft'.rows = draft.rows /\ draft'.cols = draft.cols
      BY <3>1, <3>2, AddedStored
    <3> QED
      BY <1>24, <3>1, <3>3 DEF SendItem, TypeOK, DiskOK, DraftOK, DimsOK, RequestOK,
         Accepting
  <2>2. CASE ~(wi < draft.rows * draft.cols)
    BY <1>24, <2>2, NoLayoutStored DEF SendItem, TypeOK, DiskOK, DraftOK, DimsOK,
       RequestOK, Accepting
  <2> QED
    BY <2>1, <2>2
<1>25. CASE Crash
  <2>1. tab' \in [Positions -> Ids \cup {Empty}]
    BY <1>25, IdsKnown DEF Crash
  <2>2. attr' \in [cols : Nat, rows : Nat, tab : [Shown -> Ids \cup {0, Empty}]]
    BY <1>25 DEF Crash, NoAttr
  <2>3. conf' \in Config /\ conf'.layout = NoLayout
    BY <1>25, EmptyConfigs DEF Crash
  <2>4. TypeOK'
    <3>1. boot' = "down" /\ bi' = 0 /\ ws' = "idle" /\ wi' = 0 /\ width' = 0 /\ alone' = FALSE
          /\ changed' = "never" /\ rows' = Blks /\ cols' = Blks
      BY <1>25 DEF Crash
    <3> QED
      BY <3>1, <2>1, <2>2 DEF TypeOK
  <2>5. DimsOK'
    BY <1>25, LayoutAssumption DEF Crash, DimsOK
  <2> QED
    BY <1>25, <2>3, <2>4, <2>5, NoLayoutStored DEF Crash, DiskOK, DraftOK, RequestOK,
       Accepting
<1>26. CASE UNCHANGED vars
  BY <1>26 DEF vars, TypeOK, DiskOK, DraftOK, DimsOK, RequestOK
<1> QED
  BY <1>1, <1>2, <1>3, <1>4, <1>5, <1>6, <1>7, <1>8, <1>9, <1>10, <1>11, <1>12, <1>13,
     <1>14, <1>15, <1>16, <1>17, <1>18, <1>19, <1>20, <1>21, <1>22, <1>23, <1>24,
     <1>25, <1>26
     DEF Next, NovaEncoderInit, ws_on_cli_read_text

-----------------------------------------------------------------------------
(* What is saved and confirmed. *)

LEMMA SaveStep == IInv /\ [Next]_vars => SaveOK' /\ FileHoldsAcked'
<1> SUFFICES ASSUME IInv, [Next]_vars
             PROVE  SaveOK' /\ FileHoldsAcked'
  OBVIOUS
<1> USE DEF IInv, SaveOK, FileHoldsAcked, Accepting, Answering, diskVars, wsVars
<1>1. CASE read_layout_conf
  BY <1>1 DEF read_layout_conf, RequestOK, Typed, NoConf, Torn
<1>2. CASE ResetCols
  BY <1>2 DEF ResetCols
<1>3. CASE ResetRows
  BY <1>3 DEF ResetRows
<1>4. CASE CopyCols
  BY <1>4 DEF CopyCols
<1>5. CASE CopyRows
  BY <1>5 DEF CopyRows
<1>6. CASE ResetTab
  BY <1>6 DEF ResetTab
<1>7. CASE TestTab
  BY <1>7 DEF TestTab
<1>8. CASE CopyTab
  BY <1>8 DEF CopyTab
<1>9. CASE send_layout_cfg_only
  BY <1>9 DEF send_layout_cfg_only
<1>10. ASSUME NEW q \in Requests, layout_cfg(q)
       PROVE  SaveOK' /\ FileHoldsAcked'
  BY <1>10 DEF layout_cfg, Accepts
<1>11. CASE SetCols
  BY <1>11 DEF SetCols
<1>12. CASE ClearTab
  BY <1>12 DEF ClearTab
<1>13. CASE IndexItem \/ PlaceItem
  BY <1>13 DEF IndexItem, PlaceItem
<1>14. CASE PutRows \/ PutCols \/ TestItem \/ CollectItem
  BY <1>14 DEF PutRows, PutCols, TestItem, CollectItem
<1>15. CASE Install
  <2>1. conf'.mode = conf.mode
    BY <1>15 DEF Install, Typed, DiskOK, Config
  <2> QED
    BY <1>15, <2>1 DEF Install
<1>16. CASE OpenFile
  <2>1. acked'.mode = acked.mode
    BY <1>16 DEF OpenFile, Typed, DiskOK, Config
  <2> QED
    BY <1>16, <2>1 DEF OpenFile
<1>17. CASE WriteFile
  BY <1>17 DEF WriteFile
<1>18. CASE DimRows \/ DimCols
  BY <1>18 DEF DimRows, DimCols
<1>19. CASE FillFixed
  BY <1>19 DEF FillFixed
<1>20. CASE SendItem
  <2>1. CASE wi < draft.rows * draft.cols
    BY <1>20, <2>1 DEF SendItem
  <2>2. CASE ~(wi < draft.rows * draft.cols)
    BY <1>20, <2>2 DEF SendItem
  <2> QED
    BY <2>1, <2>2
<1>21. CASE Crash
  BY <1>21 DEF Crash, NoConf
<1>22. CASE UNCHANGED vars
  BY <1>22 DEF vars
<1> QED
  BY <1>1, <1>2, <1>3, <1>4, <1>5, <1>6, <1>7, <1>8, <1>9, <1>10, <1>11, <1>12, <1>13,
     <1>14, <1>15, <1>16, <1>17, <1>18, <1>19, <1>20, <1>21, <1>22
     DEF Next, NovaEncoderInit, ws_on_cli_read_text

-----------------------------------------------------------------------------
(* A save that was cut short: the tree in memory, which is read from the   *)
(* file, has no mode that lets a request through.                          *)
NothingAccepted ==
  CutShort => changed = "never" /\ conf.mode # "unfixed" /\ ws \notin Accepting

LEMMA CutShortStep ==
  IInv /\ NothingAccepted /\ [Next]_vars =>
    /\ NothingAccepted'
    /\ CutShort => CutShort' /\ changed' = "never"
<1> DEFINE Kept == NothingAccepted' /\ (CutShort => CutShort' /\ changed' = "never")
<1> SUFFICES ASSUME IInv, NothingAccepted, [Next]_vars
             PROVE  Kept
  OBVIOUS
<1> USE DEF NothingAccepted, CutShort, Accepting
<1>1. CASE read_layout_conf
  <2>1. file' = file /\ ws' = ws /\ changed' = changed /\ ws = "idle"
    BY <1>1 DEF read_layout_conf, wsVars, IInv, Typed, RequestOK
  <2>2. file = Torn => conf'.mode = "none"
    BY <1>1 DEF read_layout_conf, NoConf
  <2> QED
    BY <2>1, <2>2
<1>2. CASE ResetCols \/ ResetRows \/ CopyCols \/ CopyRows \/ ResetTab \/ TestTab \/ CopyTab
  BY <1>2 DEF ResetCols, ResetRows, CopyCols, CopyRows, ResetTab, TestTab, CopyTab,
     wsVars, diskVars
<1>3. CASE send_layout_cfg_only
  BY <1>3 DEF send_layout_cfg_only, diskVars
<1>4. ASSUME NEW q \in Requests, layout_cfg(q)
      PROVE  Kept
  BY <1>4 DEF layout_cfg, Accepts, diskVars
<1>5. CASE \/ SetCols \/ ClearTab \/ IndexItem \/ PlaceItem \/ PutRows \/ PutCols
           \/ TestItem \/ CollectItem \/ Install \/ OpenFile
  <2>1. ws \in Accepting \ {"save"}
    BY <1>5 DEF SetCols, ClearTab, IndexItem, PlaceItem, PutRows, PutCols, TestItem,
       CollectItem, Install, OpenFile
  <2>2. OpenFile => ws' = "save"
    BY DEF OpenFile
  <2>3. ~OpenFile => file' = file
    BY <1>5 DEF SetCols, ClearTab, IndexItem, PlaceItem, PutRows, PutCols, TestItem,
       CollectItem, Install, diskVars
  <2> QED
    BY <2>1, <2>2, <2>3
<1>6. CASE WriteFile
  <2>1. ws = "save" /\ file' = conf /\ conf' = conf
    BY <1>6 DEF WriteFile
  <2>2. conf.mode = "unfixed"
    BY <2>1 DEF IInv, SaveOK
  <2>3. file' # Torn
    BY <2>1, <2>2 DEF Torn
  <2> QED
    BY <2>1, <2>3
<1>7. CASE DimRows \/ DimCols \/ FillFixed \/ SendItem
  <2>1. /\ file' = file /\ conf' = conf /\ changed' = changed
        /\ ws \in {"dims", "dimcols", "fill", "send"}
        /\ ws' \in {"dimcols", "fill", "send", "idle"}
    BY <1>7 DEF DimRows, DimCols, FillFixed, SendItem, diskVars
  <2> QED
    BY <2>1
<1>8. CASE Crash
  <2>1. file' = file /\ ws' = "idle" /\ changed' = "never" /\ conf'.mode = "none"
    BY <1>8 DEF Crash, NoConf
  <2> QED
    BY <2>1
<1>9. CASE UNCHANGED vars
  BY <1>9 DEF vars, wsVars, diskVars
<1> QED
  BY <1>1, <1>2, <1>3, <1>4, <1>5, <1>6, <1>7, <1>8, <1>9
     DEF Next, NovaEncoderInit, ws_on_cli_read_text

-----------------------------------------------------------------------------
(* How far the default layout has come. *)

LEMMA StartStep == IInv /\ [Next]_vars => StartOK'
<1> SUFFICES ASSUME IInv, [Next]_vars
             PROVE  Quiet' /\ TableReset' /\ AttrCopied'
  BY DEF StartOK
<1> USE DEF IInv, StartOK, Typed, Looping, Accepting, tabVars, bootVars, wsVars
<1>1. CASE read_layout_conf
  BY <1>1 DEF read_layout_conf, Quiet, TableReset, AttrCopied, RequestOK
<1>2. CASE ResetCols
  BY <1>2 DEF ResetCols, Quiet, TableReset, AttrCopied
<1>3. CASE ResetRows
  BY <1>3 DEF ResetRows, Quiet, TableReset, AttrCopied
<1>4. CASE CopyCols
  <2>1. AttrCopied'
    BY <1>4 DEF CopyCols, Quiet, TableReset, AttrCopied, TypeOK
  <2> QED
    BY <1>4, <2>1 DEF CopyCols, Quiet, TableReset
<1>5. CASE CopyRows
  <2>1. boot' = "tab" /\ bi' = 0 /\ UNCHANGED <<tabVars, wsVars, changed>>
    BY <1>5 DEF CopyRows
  <2>2. Quiet'
    BY <1>5, <2>1 DEF CopyRows, Quiet
  <2>3. TableReset'
    BY <1>5, <2>1 DEF CopyRows, TableReset, Positions
  <2>4. AttrCopied'
    <3>1. changed # "starting" => attr.cols = Blks /\ rows = Blks
      BY <1>5 DEF CopyRows, Quiet, TableReset, AttrCopied, TypeOK
    <3>2. attr'.rows = rows /\ attr'.cols = attr.cols
      BY <1>5 DEF CopyRows, TypeOK
    <3>3. \A p \in Shown : ~(p < bi')
      BY <2>1, Sizes DEF Shown
    <3> QED
      BY <2>1, <3>1, <3>2, <3>3 DEF AttrCopied
  <2> QED
    BY <2>2, <2>3, <2>4
<1>6. CASE ResetTab
  <2>1. CASE bi < MAX_LAYER_NUMS
    <3>1. /\ boot = "tab" /\ boot' = "test" /\ tab' = [tab EXCEPT ![bi] = bi]
          /\ UNCHANGED <<rows, cols, attr, bi, wsVars, changed>>
      BY <1>6, <2>1 DEF ResetTab
    <3>2. bi \in Positions
      BY <2>1, Sizes DEF TypeOK, Positions
    <3>3. tab'[bi] = bi /\ \A p \in Positions : p # bi => tab'[p] = tab[p]
      BY <3>1, <3>2 DEF TypeOK
    <3> QED
      BY <3>1, <3>3 DEF Quiet, TableReset, AttrCopied
  <2>2. CASE ~(bi < MAX_LAYER_NUMS)
    <3>1. /\ boot = "tab" /\ boot' = "up"
          /\ UNCHANGED <<tabVars, attr, wsVars, changed>>
      BY <1>6, <2>2 DEF ResetTab
    <3>2. \A p \in Positions : p < bi
      BY <2>2, Sizes DEF TypeOK, Positions
    <3>3. TableReset'
      <4>1. ASSUME \A p \in Positions : tab[p] = p
            PROVE  tab = Identity
        BY <4>1 DEF TypeOK, Identity
      <4> QED
        BY <3>1, <3>2, <4>1 DEF TableReset
    <3>4. AttrCopied'
      <4>1. ASSUME changed # "starting"
            PROVE  attr = DefaultAttr
        <5>1. attr.cols = Blks /\ attr.rows = Blks
              /\ \A p \in Shown : attr.tab[p] = p
          BY <3>1, <3>2, <4>1, Sizes DEF AttrCopied
        <5>2. attr.tab = [p \in Shown |-> p]
          BY <5>1 DEF TypeOK
        <5> QED
          BY <5>1, <5>2 DEF TypeOK, DefaultAttr
      <4>2. DefaultAttr.cols = Blks /\ DefaultAttr.rows = Blks
        BY DEF DefaultAttr
      <4> QED
        BY <3>1, <4>1, <4>2 DEF AttrCopied
    <3> QED
      BY <3>1, <3>3, <3>4 DEF Quiet
  <2> QED
    BY <2>1, <2>2
<1>7. CASE TestTab
  <2>1. boot = "test" /\ UNCHANGED <<tabVars, attr, wsVars, changed>>
    BY <1>7 DEF TestTab
  <2>2. CASE tab[bi] # Empty
    <3>1. boot' = "attr" /\ bi' = bi
      BY <1>7, <2>2 DEF TestTab
    <3> QED
      BY <2>1, <3>1 DEF Quiet, TableReset, AttrCopied
  <2>3. CASE tab[bi] = Empty
    <3>1. changed = "starting"
      BY <2>1, <2>3 DEF Quiet, TableReset, TypeOK, Empty
    <3> QED
      BY <1>7, <2>1, <2>3, <3>1 DEF TestTab, Quiet, TableReset, AttrCopied
  <2> QED
    BY <2>2, <2>3
<1>8. CASE CopyTab
  <2>1. /\ boot = "attr" /\ boot' = "tab" /\ bi' = bi + 1
        /\ UNCHANGED <<tabVars, wsVars, changed>>
    BY <1>8 DEF CopyTab
  <2>2. \A p \in Positions : p < bi' => p < bi \/ p = bi
    BY <2>1, Sizes DEF TypeOK, Positions
  <2>3. TableReset'
    BY <2>1, <2>2 DEF TableReset
  <2>4. AttrCopied'
    <3>1. attr'.cols = attr.cols /\ attr'.rows = attr.rows
      BY <1>8 DEF CopyTab, TypeOK
    <3>2. \A p \in Shown : attr'.tab[p] = IF p = bi THEN tab[bi] ELSE attr.tab[p]
      BY <1>8 DEF CopyTab, TypeOK
    <3>3. changed # "starting" => tab[bi] = bi
      BY <2>1 DEF Quiet, TableReset, TypeOK
    <3>4. \A p \in Shown : p < bi' => p < bi \/ p = bi
      BY <2>2, Sizes
    <3>5. boot' = "tab" /\ boot = "attr" /\ changed' = changed
      BY <2>1
    <3>6. AttrCopied
      OBVIOUS
    <3> HIDE DEF IInv, StartOK, Typed
    <3>7. ASSUME changed # "starting"
          PROVE  /\ attr'.cols = Blks /\ attr'.rows = Blks
                 /\ \A p \in Shown : p < bi' => attr'.tab[p] = p
      BY <3>1, <3>2, <3>3, <3>4, <3>5, <3>6, <3>7 DEF AttrCopied
    <3> QED
      BY <3>5, <3>7 DEF AttrCopied
  <2> QED
    BY <2>1, <2>3, <2>4 DEF Quiet
<1>9. CASE send_layout_cfg_only
  BY <1>9 DEF send_layout_cfg_only, Quiet, TableReset, AttrCopied
<1>10. ASSUME NEW q \in Requests, layout_cfg(q)
       PROVE  Quiet' /\ TableReset' /\ AttrCopied'
  <2>1. /\ boot # "down" /\ changed' # "never" /\ UNCHANGED <<bootVars>>
        /\ changed' = "running" => boot = "up" /\ changed # "starting"
        /\ changed' \in {"starting", "running"}
    BY <1>10 DEF layout_cfg, Accepts, Serving
  <2> QED
    BY <2>1 DEF Quiet, TableReset, AttrCopied
<1>11. CASE SetCols
  BY <1>11 DEF SetCols, Quiet, TableReset, AttrCopied
<1>12. CASE ClearTab
  BY <1>12 DEF ClearTab, Quiet, TableReset, AttrCopied
<1>13. CASE IndexItem \/ PlaceItem
  BY <1>13 DEF IndexItem, PlaceItem, Quiet, TableReset, AttrCopied
<1>14. CASE PutRows \/ PutCols \/ TestItem
  BY <1>14 DEF PutRows, PutCols, TestItem, Quiet, TableReset, AttrCopied
<1>15. CASE CollectItem \/ Install
  BY <1>15 DEF CollectItem, Install, Quiet, TableReset, AttrCopied
<1>16. CASE OpenFile
  BY <1>16 DEF OpenFile, Quiet, TableReset, AttrCopied
<1>17. CASE WriteFile
  BY <1>17 DEF WriteFile, Quiet, TableReset, AttrCopied
<1>18. CASE DimRows \/ DimCols
  BY <1>18 DEF DimRows, DimCols, Quiet, TableReset, AttrCopied
<1>19. CASE FillFixed
  <2>1. ws = "fill" /\ ws' \in {"fill", "send"} /\ UNCHANGED <<rows, cols, bootVars, changed>>
    BY <1>19 DEF FillFixed
  <2>2. TableReset'
    <3>1. tab' = tab \/ tab' = [tab EXCEPT ![wi] = wi]
      BY <1>19 DEF FillFixed
    <3>2. \A p \in Positions : tab[p] = p => tab'[p] = p
      BY <3>1 DEF TypeOK
    <3>3. tab = Identity => tab' = Identity
      BY <3>1 DEF Identity
    <3>4. boot \in {"test", "attr"} => bi \in Positions
      BY Sizes DEF TypeOK, Positions
    <3> QED
      BY <2>1, <3>2, <3>3, <3>4 DEF TableReset
  <2> QED
    BY <2>1, <2>2 DEF Quiet, AttrCopied
<1>20. CASE SendItem
  <2>1. ws = "send" /\ ws' \in {"idle", "send"} /\ UNCHANGED <<tabVars, bootVars, changed>>
    BY <1>20 DEF SendItem
  <2> QED
    BY <2>1 DEF Quiet, TableReset, AttrCopied
<1>21. CASE Crash
  BY <1>21 DEF Crash, Quiet, TableReset, AttrCopied
<1>22. CASE UNCHANGED vars
  BY <1>22 DEF vars, Quiet, TableReset, AttrCopied
<1> QED
  BY <1>1, <1>2, <1>3, <1>4, <1>5, <1>6, <1>7, <1>8, <1>9, <1>10, <1>11, <1>12, <1>13,
     <1>14, <1>15, <1>16, <1>17, <1>18, <1>19, <1>20, <1>21, <1>22
     DEF Next, NovaEncoderInit, ws_on_cli_read_text

-----------------------------------------------------------------------------
(* Indexes and pairs of a row and a column. *)

LEMMA Division ==
  ASSUME NEW p \in Nat, NEW w \in Nat \ {0}
  PROVE  /\ p \div w \in Nat /\ p % w \in Nat /\ p % w < w
         /\ (p \div w) * w + (p % w) = p
<1>1. p \div w \in Nat
  OBVIOUS
<1>2. p % w \in 0..(w - 1)
  OBVIOUS
<1>3. p = w * (p \div w) + (p % w)
  OBVIOUS
<1>4. w * (p \div w) = (p \div w) * w
  BY <1>1
<1> QED
  BY <1>1, <1>2, <1>3, <1>4

LEMMA InsideRows ==
  ASSUME NEW p \in Nat, NEW w \in Nat \ {0}, NEW h \in Nat, p < h * w
  PROVE  p \div w < h
<1>1. /\ p \div w \in Nat /\ p % w \in Nat
      /\ (p \div w) * w + (p % w) = p
  BY Division
<1>2. PICK d \in Nat : d = p \div w
  BY <1>1
<1>3. d * w <= p
  BY <1>1, <1>2
<1>4. CASE d >= h
  <2>1. PICK e \in Nat : d = h + e
    <3>1. d - h \in Nat /\ d = h + (d - h)
      BY <1>4
    <3> QED
      BY <3>1
  <2>2. d * w = h * w + e * w
    BY <2>1
  <2>3. e * w \in Nat
    OBVIOUS
  <2> QED
    BY <1>3, <2>2, <2>3
<1> QED
  BY <1>2, <1>4

LEMMA AppendSet ==
  ASSUME NEW S, NEW s \in Seq(S), NEW e \in S
  PROVE  ToSet(Append(s, e)) = ToSet(s) \cup {e}
<1>1. /\ Len(s) \in Nat /\ DOMAIN s = 1..Len(s)
      /\ DOMAIN Append(s, e) = 1..(Len(s) + 1)
      /\ \A i \in 1..Len(s) : Append(s, e)[i] = s[i]
      /\ Append(s, e)[Len(s) + 1] = e
  BY AppendProperties, LenProperties
<1>2. ToSet(Append(s, e)) \subseteq ToSet(s) \cup {e}
  <2> SUFFICES ASSUME NEW i \in 1..(Len(s) + 1)
               PROVE  Append(s, e)[i] \in ToSet(s) \cup {e}
    BY <1>1 DEF ToSet
  <2> QED
    BY <1>1 DEF ToSet
<1>3. ToSet(s) \cup {e} \subseteq ToSet(Append(s, e))
  <2>1. \A i \in 1..Len(s) : i \in 1..(Len(s) + 1)
    BY <1>1
  <2>2. Len(s) + 1 \in 1..(Len(s) + 1)
    BY <1>1
  <2>3. ASSUME NEW i \in 1..Len(s)
        PROVE  s[i] \in ToSet(Append(s, e))
    <3>1. Append(s, e)[i] \in {Append(s, e)[j] : j \in DOMAIN Append(s, e)}
      BY <1>1, <2>1
    <3> QED
      BY <1>1, <3>1 DEF ToSet
  <2>4. e \in ToSet(Append(s, e))
    <3>1. Append(s, e)[Len(s) + 1] \in {Append(s, e)[j] : j \in DOMAIN Append(s, e)}
      BY <1>1, <2>2
    <3> QED
      BY <1>1, <3>1 DEF ToSet
  <2> QED
    BY <1>1, <2>3, <2>4 DEF ToSet
<1> QED
  BY <1>2, <1>3

(* The table after the first n items of a request. *)
PlacedSoFar(items, w, n) ==
  [p \in Positions |->
    LET here == {i \in 1..n : items[i].row * w + items[i].col = p}
    IN IF here = {} THEN Empty ELSE items[Max(here)].id]

(* items lists what table t, of width w, holds below position n.           *)
Filled(t, n) == {p \in 0..(n - 1) : t[p] # Empty}
Lists(items, t, w, n) ==
  ToSet(items) = {[row |-> p \div w, col |-> p % w, id |-> t[p]] : p \in Filled(t, n)}

LEMMA NothingPlaced ==
  ASSUME NEW items, NEW w
  PROVE  PlacedSoFar(items, w, 0) = [p \in Positions |-> Empty]
<1>1. \A p \in Positions : {i \in 1..0 : items[i].row * w + items[i].col = p} = {}
  OBVIOUS
<1> QED
  BY <1>1 DEF PlacedSoFar

LEMMA AllPlaced ==
  ASSUME NEW S, NEW items \in Seq(S), NEW w
  PROVE  PlacedSoFar(items, w, Len(items)) = Placed(items, w)
<1>1. DOMAIN items = 1..Len(items)
  BY LenProperties
<1> QED
  BY <1>1 DEF PlacedSoFar, Placed

LEMMA GreatestLast ==
  ASSUME NEW n \in Nat \ {0}, NEW S, S \subseteq 1..n, n \in S
  PROVE  Max(S) = n
<1>1. \A y \in S : n >= y
  OBVIOUS
<1>2. \A x \in S : (\A y \in S : x >= y) => x = n
  OBVIOUS
<1> QED
  BY <1>1, <1>2 DEF Max

LEMMA PlaceOneMore ==
  ASSUME NEW items, NEW w, NEW n \in Nat \ {0},
         items[n].row * w + items[n].col \in Positions
  PROVE  PlacedSoFar(items, w, n) =
           [PlacedSoFar(items, w, n - 1) EXCEPT
              ![items[n].row * w + items[n].col] = items[n].id]
<1> DEFINE here(m, p) == {i \in 1..m : items[i].row * w + items[i].col = p}
           at(m, p) == IF here(m, p) = {} THEN Empty ELSE items[Max(here(m, p))].id
           place == items[n].row * w + items[n].col
<1>1. \A m : PlacedSoFar(items, w, m) = [p \in Positions |-> at(m, p)]
  BY DEF PlacedSoFar
<1>2. at(n, place) = items[n].id
  <2>1. n \in here(n, place) /\ here(n, place) \subseteq 1..n
    OBVIOUS
  <2>2. Max(here(n, place)) = n
    <3> HIDE DEF here
    <3> QED
      BY <2>1, GreatestLast
  <2> QED
    BY <2>1, <2>2
<1>3. ASSUME NEW p \in Positions, p # place
      PROVE  at(n, p) = at(n - 1, p)
  <2>1. here(n, p) = here(n - 1, p)
    <3>1. \A i : i \in 1..n <=> i \in 1..(n - 1) \/ i = n
      OBVIOUS
    <3> QED
      BY <1>3, <3>1
  <2> QED
    BY <2>1
<1>4. place \in Positions
  OBVIOUS
<1> HIDE DEF at, place
<1>5. [p \in Positions |-> at(n, p)] =
        [[p \in Positions |-> at(n - 1, p)] EXCEPT ![place] = items[n].id]
  BY <1>2, <1>3, <1>4
<1> QED
  BY <1>1, <1>5 DEF place

(* Listing one position more. *)
LEMMA ListOneMore ==
  ASSUME NEW items, NEW l, NEW t, NEW w, NEW n \in Nat, Lists(items, t, w, n),
         ToSet(l) = IF t[n] = Empty THEN ToSet(items)
                    ELSE ToSet(items) \cup {[row |-> n \div w, col |-> n % w, id |-> t[n]]}
  PROVE  Lists(l, t, w, n + 1)
<1>1. Filled(t, n + 1) = Filled(t, n) \cup (IF t[n] = Empty THEN {} ELSE {n})
  <2>1. \A p : p \in 0..n <=> p \in 0..(n - 1) \/ p = n
    OBVIOUS
  <2>2. n + 1 - 1 = n
    OBVIOUS
  <2> QED
    BY <2>1, <2>2 DEF Filled
<1> QED
  BY <1>1 DEF Lists

LEMMA ListNone ==
  ASSUME NEW t, NEW w
  PROVE  Lists(<<>>, t, w, 0)
<1>1. Filled(t, 0) = {} /\ ToSet(<<>>) = {}
  BY DEF Filled, ToSet
<1> QED
  BY <1>1 DEF Lists

LEMMA PlaceIsNat ==
  ASSUME NEW r \in Nat, NEW c \in Nat, NEW w \in Nat
  PROVE  r * w + c \in Nat
<1>1. r * w \in Nat
  OBVIOUS
<1> QED
  BY <1>1

(* Every item of a list stands for one position of the table. *)
LEMMA ListedAt ==
  ASSUME NEW items, NEW t, NEW w \in Nat \ {0}, NEW n \in Nat,
         Lists(items, t, w, n), NEW it \in ToSet(items)
  PROVE  \E q \in Filled(t, n) :
           /\ it.row * w + it.col = q /\ it.id = t[q]
           /\ it.row = q \div w /\ it.col = q % w
<1>1. PICK q \in Filled(t, n) :
        it = [row |-> q \div w, col |-> q % w, id |-> t[q]]
  BY DEF Lists
<1>2. q \in Nat
  BY DEF Filled
<1>3. it.row * w + it.col = q
  BY <1>1, <1>2, Division
<1> QED
  BY <1>1, <1>3

(* read_layout_conf undoes write_layout_conf. *)
LEMMA ReadBack ==
  ASSUME NEW items \in Seq([row : Int, col : Int, id : Ids]),
         NEW t \in [Positions -> Ids \cup {Empty}], NEW w \in Nat \ {0},
         Lists(items, t, w, MAX_LAYER_NUMS)
  PROVE  Placed(items, w) = t
<1> DEFINE here(p) == {i \in DOMAIN items : items[i].row * w + items[i].col = p}
<1>1. SUFFICES ASSUME NEW p \in Positions
               PROVE  (IF here(p) = {} THEN Empty ELSE items[Max(here(p))].id) = t[p]
  BY DEF Placed
<1>2. Len(items) \in Nat /\ DOMAIN items = 1..Len(items)
  BY LenProperties
<1>3. ASSUME NEW i \in here(p)
      PROVE  t[p] # Empty /\ items[i].id = t[p]
  <2>1. PICK it \in ToSet(items) : it = items[i] /\ it.row * w + it.col = p
    BY DEF ToSet
  <2>2. MAX_LAYER_NUMS \in Nat
    BY Sizes
  <2>3. PICK q \in Filled(t, MAX_LAYER_NUMS) :
          /\ it.row * w + it.col = q /\ it.id = t[q]
          /\ it.row = q \div w /\ it.col = q % w
    BY <2>2, ListedAt
  <2> QED
    BY <2>1, <2>3 DEF Filled
<1>4. ASSUME t[p] # Empty
      PROVE  here(p) # {}
  <2>1. p \in Filled(t, MAX_LAYER_NUMS) /\ p \in Nat
    BY <1>4 DEF Filled, Positions
  <2>2. [row |-> p \div w, col |-> p % w, id |-> t[p]] \in ToSet(items)
    BY <2>1 DEF Lists
  <2>3. PICK i \in DOMAIN items :
          items[i] = [row |-> p \div w, col |-> p % w, id |-> t[p]]
    BY <2>2 DEF ToSet
  <2>4. items[i].row * w + items[i].col = p
    BY <2>1, <2>3, Division
  <2> QED
    BY <2>4
<1>5. here(p) \subseteq 1..Len(items)
  BY <1>2
<1> HIDE DEF here
<1>6. CASE here(p) = {}
  BY <1>4, <1>6
<1>7. CASE here(p) # {}
  <2>1. Max(here(p)) \in here(p)
    BY <1>2, <1>5, <1>7, GreatestIndex
  <2> QED
    BY <1>3, <1>7, <2>1
<1> QED
  BY <1>6, <1>7

(* A position some item of a request names is not empty. *)
LEMMA PlacedFills ==
  ASSUME NEW items \in Seq(ItemType), NEW w \in Nat \ {0},
         NEW i \in DOMAIN items,
         items[i].row * w + items[i].col \in Positions
  PROVE  Placed(items, w)[items[i].row * w + items[i].col] # Empty
<1> DEFINE p == items[i].row * w + items[i].col
           here == {j \in DOMAIN items : items[j].row * w + items[j].col = p}
<1>1. Len(items) \in Nat /\ DOMAIN items = 1..Len(items)
  BY LenProperties
<1>2. here \subseteq 1..Len(items) /\ here # {}
  BY <1>1
<1>3. Placed(items, w)[p] = IF here = {} THEN Empty ELSE items[Max(here)].id
  BY DEF Placed
<1>4. Max(here) \in 1..Len(items)
  <2> HIDE DEF here
  <2> QED
    BY <1>1, <1>2, GreatestIndex
<1>5. items[Max(here)] \in ItemType
  <2> HIDE DEF here
  <2> QED
    BY <1>4, ElementOfSeq
<1>6. items[Max(here)].id \in Nat
  BY <1>5 DEF ItemType
<1> QED
  BY <1>2, <1>3, <1>6 DEF Empty

(* What is sent shows what was asked for (ReplyMatches). *)
LEMMA ListShows ==
  ASSUME NEW items \in Seq(ItemType), NEW w \in Nat \ {0}, NEW h \in Nat,
         h * w <= MAX_LAYER_NUMS, NEW l, Lists(l, Placed(items, w), w, h * w)
  PROVE  /\ \A it \in ToSet(l) :
              /\ it.row < h /\ it.col < w
              /\ it.id # Empty /\ it.id = Placed(items, w)[it.row * w + it.col]
         /\ \A it \in ToSet(items) :
              it.row * w + it.col < h * w =>
                \E shown \in ToSet(l) : shown.row * w + shown.col = it.row * w + it.col
<1> DEFINE t == Placed(items, w)
           n == h * w
<1>1. n \in Nat /\ n <= MAX_LAYER_NUMS
  OBVIOUS
<1>2. Lists(l, t, w, n)
  OBVIOUS
<1>3. ASSUME NEW it \in ToSet(l)
      PROVE  /\ it.row < h /\ it.col < w
             /\ it.id # Empty /\ it.id = t[it.row * w + it.col]
  <2>1. PICK p \in Filled(t, n) :
          /\ it.row * w + it.col = p /\ it.id = t[p]
          /\ it.row = p \div w /\ it.col = p % w
    <3> HIDE DEF t, n
    <3>1. n \in Nat
      BY <1>1
    <3> QED
      BY <1>2, <3>1, ListedAt
  <2>2. p \in Nat /\ p < n /\ t[p] # Empty
    <3> HIDE DEF t, n
    <3> QED
      BY <1>1 DEF Filled
  <2>3. p \div w < h /\ p % w < w
    BY <2>2, Division, InsideRows
  <2> QED
    BY <2>1, <2>2, <2>3
<1>4. ASSUME NEW it \in ToSet(items), it.row * w + it.col < n
      PROVE  \E shown \in ToSet(l) : shown.row * w + shown.col = it.row * w + it.col
  <2> DEFINE p == it.row * w + it.col
  <2>1. PICK i \in DOMAIN items : items[i] = it
    BY DEF ToSet
  <2>2. p \in Nat
    <3>1. i \in 1..Len(items)
      BY <2>1, LenProperties
    <3>2. it \in ItemType
      BY <2>1, <3>1, ElementOfSeq
    <3> QED
      BY <3>2, PlaceIsNat DEF ItemType
  <2>3. p \in Positions /\ p \in 0..(n - 1)
    <3> HIDE DEF p, n
    <3>1. p < n
      BY <1>4 DEF p
    <3> QED
      BY <1>1, <2>2, <3>1, Sizes DEF Positions
  <2>4. t[p] # Empty
    BY <2>1, <2>3, PlacedFills
  <2> DEFINE shown == [row |-> p \div w, col |-> p % w, id |-> t[p]]
  <2>5. shown \in ToSet(l)
    <3> HIDE DEF p, t, n
    <3>1. p \in Filled(t, n)
      BY <2>3, <2>4 DEF Filled
    <3> QED
      BY <1>2, <3>1 DEF Lists
  <2>6. shown.row * w + shown.col = p
    <3> HIDE DEF p, t
    <3> QED
      BY <2>2, Division
  <2> HIDE DEF shown
  <2> QED
    BY <2>5, <2>6
<1> QED
  BY <1>3, <1>4

-----------------------------------------------------------------------------
(* An exchange that meets no step of the player's thread: at every step    *)
(* the table, the layout that is saved and the one that is sent are what   *)
(* the request makes of them, as far as the step has come.                 *)
Matches(l) == l.rows = rows /\ l.cols = cols

EnteredOK ==
  /\ boot = "up" /\ rows = req.rows
  /\ ws # "cols" => cols = req.cols

TableOK ==
  /\ ws = "clear" =>
       wi <= MAX_LAYER_NUMS /\ \A p \in Positions : p < wi => tab[p] = Empty
  /\ ws \in {"place", "store"} =>
       wi <= Len(req.items) + 1 /\ tab = PlacedSoFar(req.items, cols, wi - 1)
  /\ ws \in {"store", "item"} => width = cols
  /\ ws \notin {"cols", "clear", "place", "store"} => tab = Placed(req.items, cols)

SavedOK ==
  /\ ws = "put" => wi = 0
  /\ ws = "putcols" => draft.rows = rows /\ draft.items = <<>> /\ wi = 0
  /\ ws \in {"collect", "item"} =>
       Matches(draft) /\ wi <= MAX_LAYER_NUMS /\ Lists(draft.items, tab, cols, wi)
  /\ ws \in {"open", "save", "dims", "dimcols", "send", "idle"} =>
       Matches(conf.layout) /\ Lists(conf.layout.items, tab, cols, MAX_LAYER_NUMS)
  /\ ws \in {"dims", "dimcols", "send", "idle"} => file = conf

SentOK ==
  /\ ws # "fill"
  /\ ws = "dimcols" => draft.rows = rows /\ draft.items = <<>> /\ wi = 0
  /\ ws = "send" =>
       Matches(draft) /\ wi <= rows * cols /\ Lists(draft.items, tab, cols, wi)
  /\ ws = "idle" => Matches(reply) /\ Lists(reply.items, tab, cols, rows * cols)

ExchangeOK ==
  /\ alone => boot = "up"
  /\ alone /\ req # NoLayout => EnteredOK /\ TableOK /\ SavedOK /\ SentOK

LEMMA RequestFits ==
  ASSUME NEW q \in Requests
  PROVE  /\ q.rows \in Nat \ {0} /\ q.cols \in Nat \ {0} /\ q.items \in Seq(ItemType)
         /\ q.rows * q.cols <= MAX_LAYER_NUMS
         /\ \A i \in 1..Len(q.items) : q.items[i].row * q.cols + q.items[i].col \in Positions
<1>1. /\ q.rows \in Nat \ {0} /\ q.cols \in Nat \ {0} /\ q.items \in Seq(ItemType)
      /\ q.rows * q.cols <= MAX_LAYER_NUMS
      /\ \A i \in DOMAIN q.items :
           q.items[i].row * q.cols + q.items[i].col < MAX_LAYER_NUMS
  BY LayoutAssumption DEF Fits
<1>2. ASSUME NEW i \in 1..Len(q.items)
      PROVE  q.items[i].row * q.cols + q.items[i].col \in Positions
  <2>1. q.items[i] \in ItemType
    BY <1>1, ElementOfSeq
  <2>2. q.items[i].row * q.cols + q.items[i].col \in Nat
    BY <1>1, <2>1, PlaceIsNat DEF ItemType
  <2>3. i \in DOMAIN q.items
    BY <1>1, LenProperties
  <2>4. q.items[i].row * q.cols + q.items[i].col < MAX_LAYER_NUMS
    BY <1>1, <2>3
  <2> QED
    BY <2>2, <2>4, Sizes DEF Positions
<1> QED
  BY <1>1, <1>2

(* One step of write_layout_conf's or send_layout_cfg's loop. *)
LEMMA ItemListed ==
  ASSUME draft \in Stored, TypeOK, NEW n \in Positions, tab[n] # Empty,
         NEW w \in Nat \ {0}, Lists(draft.items, tab, w, n),
         draft' = [draft EXCEPT !.items = Append(@, Item(n, w, w))]
  PROVE  Lists(draft'.items, tab, w, n + 1)
<1> DEFINE e == [row |-> n \div w, col |-> n % w, id |-> tab[n]]
           S == [row : Int, col : Int, id : Ids]
<1>1. n \in Nat
  BY DEF Positions
<1>2. draft'.items = Append(draft.items, e) /\ e \in S
  BY ItemStored DEF Item
<1>3. ToSet(draft'.items) = ToSet(draft.items) \cup {e}
  <2>1. draft.items \in Seq(S)
    BY DEF Stored
  <2> HIDE DEF e, S
  <2> QED
    BY <1>2, <2>1, AppendSet
<1>4. ToSet(draft'.items) =
        IF tab[n] = Empty THEN ToSet(draft.items)
        ELSE ToSet(draft.items) \cup {e}
  BY <1>3
<1> QED
  BY <1>1, <1>4, ListOneMore

LEMMA SkippedListed ==
  ASSUME NEW items, NEW n \in Positions, tab[n] = Empty, NEW w \in Nat \ {0},
         Lists(items, tab, w, n)
  PROVE  Lists(items, tab, w, n + 1)
<1>1. n \in Nat
  BY DEF Positions
<1> QED
  BY <1>1, ListOneMore

LEMMA AddedListed ==
  ASSUME draft \in Stored, TypeOK, NEW n \in Positions, NEW w \in Nat \ {0},
         Lists(draft.items, tab, w, n), AddItem(n, w)
  PROVE  /\ Lists(draft'.items, tab, w, n + 1)
         /\ draft'.rows = draft.rows /\ draft'.cols = draft.cols
<1>1. CASE tab[n] = Empty
  BY <1>1, SkippedListed DEF AddItem
<1>2. CASE tab[n] # Empty
  <2>1. draft' = [draft EXCEPT !.items = Append(@, Item(n, w, w))]
    BY <1>2 DEF AddItem
  <2>2. draft'.rows = draft.rows /\ draft'.cols = draft.cols
    BY <1>2, <2>1, ItemStored
  <2> QED
    BY <1>2, <2>1, <2>2, ItemListed
<1> QED
  BY <1>1, <1>2

LEMMA HandlerStep ==
  ASSUME IInv, ExchangeOK, alone, req # NoLayout, ws_on_cli_read_text
  PROVE  EnteredOK' /\ TableOK' /\ SavedOK' /\ SentOK'
<1> USE DEF tabVars, bootVars, wsVars, diskVars
<1>a. TypeOK /\ DraftOK /\ DiskOK /\ RequestOK /\ SaveOK
  BY DEF IInv, Typed
<1>b. EnteredOK /\ TableOK /\ SavedOK /\ SentOK
  BY DEF ExchangeOK
<1>c. /\ req \in Requests
      /\ req.rows \in Nat \ {0} /\ req.cols \in Nat \ {0} /\ req.items \in Seq(ItemType)
      /\ req.rows * req.cols <= MAX_LAYER_NUMS
      /\ \A i \in 1..Len(req.items) :
           req.items[i].row * req.cols + req.items[i].col \in Positions
  BY <1>a, RequestFits DEF RequestOK
<1>d. /\ tab \in [Positions -> Ids \cup {Empty}] /\ wi \in Nat
      /\ rows \in Nat /\ cols \in Nat \ {0} /\ MAX_LAYER_NUMS \in Nat
      /\ Len(req.items) \in Nat
  BY <1>a, <1>c, Sizes, LenProperties DEF TypeOK
<1>1. CASE SetCols
  <2>1. /\ ws' = "clear" /\ wi' = 0 /\ cols' = req.cols
        /\ UNCHANGED <<boot, rows, req, tab>>
    BY <1>1 DEF SetCols
  <2>2. \A p \in Positions : ~(p < wi')
    BY <2>1 DEF Positions
  <2>3. EnteredOK' /\ SavedOK' /\ SentOK'
    BY <1>b, <2>1 DEF EnteredOK, SavedOK, SentOK
  <2>4. TableOK'
    BY <1>d, <2>1, <2>2 DEF TableOK
  <2> QED
    BY <2>3, <2>4
<1>2. CASE ClearTab
  <2>1. ws = "clear" /\ cols = req.cols
        /\ UNCHANGED <<boot, rows, cols, req>>
    BY <1>2, <1>b DEF ClearTab, EnteredOK
  <2>2. /\ wi <= MAX_LAYER_NUMS
        /\ \A p \in Positions : p < wi => tab[p] = Empty
    BY <1>b, <2>1 DEF TableOK
  <2>3. ws' \in {"clear", "place"}
    BY <1>2, <2>1 DEF ClearTab
  <2>4. EnteredOK' /\ SavedOK' /\ SentOK'
    BY <1>b, <2>1, <2>3 DEF EnteredOK, SavedOK, SentOK
  <2>5. CASE wi < MAX_LAYER_NUMS
    <3>1. tab' = [tab EXCEPT ![wi] = Empty] /\ wi' = wi + 1 /\ ws' = "clear"
      BY <1>2, <2>5 DEF ClearTab
    <3>2. \A p \in Positions : p < wi' => p < wi \/ p = wi
      BY <1>d, <3>1 DEF Positions
    <3>3. \A p \in Positions : p < wi' => tab'[p] = Empty
      BY <1>d, <2>2, <3>1, <3>2
    <3>4. wi' <= MAX_LAYER_NUMS
      BY <1>d, <2>5, <3>1
    <3> QED
      BY <2>4, <3>1, <3>3, <3>4 DEF TableOK
  <2>6. CASE ~(wi < MAX_LAYER_NUMS)
    <3>1. tab' = tab /\ wi' = 1 /\ ws' = "place"
      BY <1>2, <2>6 DEF ClearTab
    <3>2. \A p \in Positions : tab[p] = Empty
      BY <1>d, <2>2, <2>6 DEF Positions
    <3>3. tab = [p \in Positions |-> Empty]
      BY <1>d, <3>2
    <3>4. tab = PlacedSoFar(req.items, cols, 0)
      BY <3>3, NothingPlaced
    <3>5. wi' - 1 = 0 /\ wi' <= Len(req.items) + 1
      BY <1>d, <3>1
    <3>6. tab' = PlacedSoFar(req'.items, cols', wi' - 1) /\ wi' <= Len(req'.items) + 1
      BY <2>1, <3>1, <3>4, <3>5
    <3> QED
      BY <2>4, <3>1, <3>6 DEF TableOK
  <2> QED
    BY <2>5, <2>6
<1>3. CASE IndexItem
  <2>1. ws = "place" /\ cols = req.cols
        /\ UNCHANGED <<boot, rows, cols, req, tab>>
    BY <1>3, <1>b DEF IndexItem, EnteredOK
  <2>2. wi <= Len(req.items) + 1 /\ tab = PlacedSoFar(req.items, cols, wi - 1)
    BY <1>b, <2>1 DEF TableOK
  <2>3. CASE wi <= Len(req.items)
    <3>1. width' = cols /\ wi' = wi /\ ws' = "store"
      BY <1>3, <2>3 DEF IndexItem
    <3> QED
      BY <1>b, <2>1, <2>2, <3>1 DEF EnteredOK, TableOK, SavedOK, SentOK
  <2>4. CASE ~(wi <= Len(req.items))
    <3>1. wi' = 0 /\ ws' = "put"
      BY <1>3, <2>4 DEF IndexItem
    <3>2. wi - 1 = Len(req.items)
      BY <1>d, <2>2, <2>4
    <3>3. tab = Placed(req.items, cols)
      BY <1>c, <2>2, <3>2, AllPlaced
    <3> QED
      BY <1>b, <2>1, <3>1, <3>3 DEF EnteredOK, TableOK, SavedOK, SentOK
  <2> QED
    BY <2>3, <2>4
<1>11. CASE PlaceItem
  <2>1. /\ ws = "store" /\ ws' = "place" /\ wi' = wi + 1 /\ cols = req.cols
        /\ width = cols /\ UNCHANGED <<boot, rows, cols, req>>
    BY <1>11, <1>b DEF PlaceItem, EnteredOK, TableOK
  <2>2. tab = PlacedSoFar(req.items, cols, wi - 1)
    BY <1>b, <2>1 DEF TableOK
  <2>3. wi \in 1..Len(req.items) /\ wi \in Nat \ {0}
    BY <1>a, <1>d, <2>1 DEF RequestOK
  <2>4. tab' = [tab EXCEPT ![req.items[wi].row * cols + req.items[wi].col]
                              = req.items[wi].id]
    BY <1>11, <2>1 DEF PlaceItem
  <2>5. req.items[wi].row * cols + req.items[wi].col \in Positions
    BY <1>c, <2>1, <2>3
  <2>6. tab' = PlacedSoFar(req.items, cols, wi)
    BY <2>2, <2>3, <2>4, <2>5, PlaceOneMore
  <2>7. wi' - 1 = wi /\ wi' <= Len(req.items) + 1
    BY <1>d, <2>1, <2>3
  <2>8. tab' = PlacedSoFar(req'.items, cols', wi' - 1) /\ wi' <= Len(req'.items) + 1
    BY <2>1, <2>6, <2>7
  <2> QED
    BY <1>b, <2>1, <2>8 DEF EnteredOK, TableOK, SavedOK, SentOK
<1>12. CASE PutRows
  <2>1. /\ ws = "put" /\ ws' = "putcols" /\ wi' = wi
        /\ draft'.rows = rows /\ draft'.items = <<>>
        /\ UNCHANGED <<boot, rows, cols, req, tab>>
    BY <1>12 DEF PutRows, NoLayout
  <2> QED
    BY <1>b, <2>1 DEF EnteredOK, TableOK, SavedOK, SentOK
<1>4. CASE PutCols
  <2>1. /\ ws = "putcols" /\ ws' = "collect" /\ wi' = wi
        /\ draft'.rows = draft.rows /\ draft'.cols = cols /\ draft'.items = draft.items
        /\ UNCHANGED <<boot, rows, cols, req, tab>>
    BY <1>4, <1>a DEF PutCols, DraftOK, Stored
  <2>2. draft.rows = rows /\ draft.items = <<>> /\ wi = 0
    BY <1>b, <2>1 DEF SavedOK
  <2>3. Lists(draft'.items, tab', cols', wi')
    BY <2>1, <2>2, ListNone
  <2> QED
    BY <1>b, <1>d, <2>1, <2>2, <2>3 DEF EnteredOK, TableOK, SavedOK, SentOK, Matches
<1>13. CASE TestItem
  <2>1. /\ ws = "collect" /\ wi < MAX_LAYER_NUMS
        /\ UNCHANGED <<boot, rows, cols, req, tab, draft>>
    BY <1>13 DEF TestItem
  <2>2. Matches(draft) /\ Lists(draft.items, tab, cols, wi)
    BY <1>b, <2>1 DEF SavedOK
  <2>3. CASE tab[wi] = Empty
    <3>1. wi' = wi + 1 /\ ws' = "collect" /\ wi \in Positions
      BY <1>13, <1>d, <2>1, <2>3 DEF TestItem, Positions
    <3>2. Lists(draft.items, tab, cols, wi + 1) /\ wi' <= MAX_LAYER_NUMS
      BY <1>d, <2>1, <2>2, <2>3, <3>1, SkippedListed
    <3>3. Lists(draft'.items, tab', cols', wi')
      BY <2>1, <3>1, <3>2
    <3> QED
      BY <1>b, <2>1, <2>2, <3>1, <3>2, <3>3
         DEF EnteredOK, TableOK, SavedOK, SentOK, Matches
  <2>4. CASE tab[wi] # Empty
    <3>1. wi' = wi /\ ws' = "item" /\ width' = cols
      BY <1>13, <2>4 DEF TestItem
    <3> QED
      BY <1>b, <2>1, <3>1 DEF EnteredOK, TableOK, SavedOK, SentOK, Matches
  <2> QED
    BY <2>3, <2>4
<1>5. CASE CollectItem
  <2>1. /\ ws = "item" /\ ws' = "collect" /\ wi' = wi + 1 /\ width = cols
        /\ UNCHANGED <<boot, rows, cols, req, tab>>
    BY <1>5, <1>b DEF CollectItem, TableOK
  <2>2. Matches(draft) /\ Lists(draft.items, tab, cols, wi)
    BY <1>b, <2>1 DEF SavedOK
  <2>3. draft' = [draft EXCEPT !.items = Append(@, Item(wi, cols, cols))]
    BY <1>5, <2>1 DEF CollectItem
  <2>4. wi \in Positions /\ tab[wi] # Empty /\ wi + 1 <= MAX_LAYER_NUMS
    BY <1>a, <1>d, <2>1 DEF RequestOK, Positions
  <2>5. Lists(draft'.items, tab, cols, wi + 1)
    BY <1>a, <1>d, <2>2, <2>3, <2>4, ItemListed DEF DraftOK
  <2>6. draft'.rows = draft.rows /\ draft'.cols = draft.cols
    BY <1>a, <1>d, <2>3, <2>4, ItemStored DEF DraftOK
  <2>7. Lists(draft'.items, tab', cols', wi') /\ wi' <= MAX_LAYER_NUMS
    BY <2>1, <2>4, <2>5
  <2> QED
    BY <1>b, <2>1, <2>2, <2>6, <2>7 DEF EnteredOK, TableOK, SavedOK, SentOK, Matches
<1>14. CASE Install
  <2>1. /\ ws = "collect" /\ ws' = "open" /\ wi = MAX_LAYER_NUMS
        /\ conf' = [conf EXCEPT !.layout = draft]
        /\ UNCHANGED <<boot, rows, cols, req, tab>>
    BY <1>14 DEF Install
  <2>2. Matches(draft) /\ Lists(draft.items, tab, cols, MAX_LAYER_NUMS)
    BY <1>b, <2>1 DEF SavedOK
  <2>3. conf'.layout = draft
    BY <1>a, <2>1 DEF DiskOK, Config
  <2> QED
    BY <1>b, <2>1, <2>2, <2>3 DEF EnteredOK, TableOK, SavedOK, SentOK, Matches
<1>6. CASE OpenFile
  <2>1. ws = "open" /\ ws' = "save" /\ UNCHANGED <<boot, rows, cols, req, tab, conf>>
    BY <1>6 DEF OpenFile
  <2> QED
    BY <1>b, <2>1 DEF EnteredOK, TableOK, SavedOK, SentOK, Matches
<1>7. CASE WriteFile
  <2>1. /\ ws = "save" /\ ws' = "dims" /\ file' = conf
        /\ UNCHANGED <<boot, rows, cols, req, tab, conf>>
    BY <1>7 DEF WriteFile
  <2> QED
    BY <1>b, <2>1 DEF EnteredOK, TableOK, SavedOK, SentOK, Matches
<1>8. CASE DimRows
  <2>1. ws = "dims" /\ UNCHANGED <<boot, rows, cols, req, tab, conf, file>>
    BY <1>8 DEF DimRows
  <2>2. ModeOf(conf) = "unfixed"
    BY <1>a, <2>1 DEF SaveOK, Answering, ModeOf
  <2>3. ws' = "dimcols" /\ wi' = 0 /\ draft'.rows = rows /\ draft'.items = <<>>
    BY <1>8, <2>2 DEF DimRows, NoLayout
  <2> QED
    BY <1>b, <2>1, <2>3 DEF EnteredOK, TableOK, SavedOK, SentOK, Matches
<1>15. CASE DimCols
  <2>1. /\ ws = "dimcols" /\ ws' = "send" /\ wi' = wi
        /\ draft'.rows = draft.rows /\ draft'.cols = cols /\ draft'.items = draft.items
        /\ UNCHANGED <<boot, rows, cols, req, tab, conf, file>>
    BY <1>15, <1>a DEF DimCols, DraftOK, Stored
  <2>2. draft.rows = rows /\ draft.items = <<>> /\ wi = 0
    BY <1>b, <2>1 DEF SentOK
  <2>3. Lists(draft'.items, tab', cols', wi')
    BY <2>1, <2>2, ListNone
  <2>4. wi' <= rows' * cols'
    <3>1. rows * cols \in Nat
      BY <1>d
    <3> QED
      BY <2>1, <2>2, <3>1
  <2> QED
    BY <1>b, <2>1, <2>2, <2>3, <2>4 DEF EnteredOK, TableOK, SavedOK, SentOK, Matches
<1>9. CASE FillFixed
  BY <1>9, <1>b DEF FillFixed, SentOK
<1>10. CASE SendItem
  <2>1. ws = "send" /\ UNCHANGED <<boot, rows, cols, req, tab, conf, file>>
    BY <1>10 DEF SendItem
  <2>2. Matches(draft) /\ wi <= rows * cols /\ Lists(draft.items, tab, cols, wi)
    BY <1>b, <2>1 DEF SentOK
  <2>3. ws' \in {"send", "idle"}
    BY <1>10, <2>1 DEF SendItem
  <2>4. EnteredOK' /\ TableOK'
    BY <1>b, <2>1, <2>3 DEF EnteredOK, TableOK
  <2>5. SavedOK'
    BY <1>b, <2>1, <2>3 DEF SavedOK, Matches
  <2>6. PICK n \in Nat : n = rows * cols /\ n <= MAX_LAYER_NUMS
    BY <1>b, <1>c, <1>d, <2>1 DEF EnteredOK
  <2>7. CASE wi < draft.rows * draft.cols
    <3>1. AddItem(wi, cols) /\ wi' = wi + 1 /\ ws' = "send"
      BY <1>10, <2>1, <2>2, <2>7 DEF SendItem, Matches
    <3>2. wi \in Positions /\ wi' <= n
      BY <1>d, <2>2, <2>6, <2>7, <3>1 DEF Positions, Matches
    <3>3. /\ Lists(draft'.items, tab, cols, wi + 1)
          /\ draft'.rows = draft.rows /\ draft'.cols = draft.cols
      BY <1>a, <1>d, <2>2, <3>1, <3>2, AddedListed DEF DraftOK
    <3>4. wi' <= rows' * cols'
      BY <2>1, <2>6, <3>2
    <3>5. Lists(draft'.items, tab', cols', wi')
      BY <2>1, <3>1, <3>3
    <3>6. draft'.rows = rows' /\ draft'.cols = cols'
      BY <2>1, <2>2, <3>3 DEF Matches
    <3> QED
      BY <2>4, <2>5, <3>1, <3>4, <3>5, <3>6 DEF SentOK, Matches
  <2>8. CASE ~(wi < draft.rows * draft.cols)
    <3>1. ws' = "idle" /\ reply' = draft
      BY <1>10, <2>8 DEF SendItem
    <3>2. wi = rows * cols
      BY <1>d, <2>2, <2>6, <2>8 DEF Matches
    <3>3. Lists(reply'.items, tab', cols', rows' * cols')
      BY <2>1, <2>2, <3>1, <3>2
    <3>4. reply'.rows = rows' /\ reply'.cols = cols'
      BY <2>1, <2>2, <3>1 DEF Matches
    <3> QED
      BY <2>4, <2>5, <3>1, <3>3, <3>4 DEF SentOK, Matches
  <2> QED
    BY <2>7, <2>8
<1> QED
  BY <1>1, <1>2, <1>3, <1>4, <1>5, <1>6, <1>7, <1>8, <1>9, <1>10, <1>11, <1>12, <1>13,
     <1>14, <1>15
     DEF ws_on_cli_read_text

LEMMA ExchangeStep == IInv /\ ExchangeOK /\ [Next]_vars => ExchangeOK'
<1> SUFFICES ASSUME IInv, ExchangeOK, [Next]_vars
             PROVE  ExchangeOK'
  OBVIOUS
<1> USE DEF tabVars, bootVars, wsVars, diskVars
<1>1. CASE read_layout_conf
  <2>1. boot = "down" /\ alone' = alone
    BY <1>1 DEF read_layout_conf
  <2> QED
    BY <2>1 DEF ExchangeOK
<1>2. CASE \/ ResetCols \/ ResetRows \/ CopyCols \/ CopyRows
           \/ ResetTab \/ TestTab \/ CopyTab
  <2>1. alone' = FALSE
    BY <1>2 DEF ResetCols, ResetRows, CopyCols, CopyRows, ResetTab, TestTab, CopyTab
  <2> QED
    BY <2>1 DEF ExchangeOK
<1>3. CASE send_layout_cfg_only
  <2>1. req' = NoLayout /\ boot' = boot /\ (alone' => boot = "up")
    BY <1>3 DEF send_layout_cfg_only
  <2> QED
    BY <2>1 DEF ExchangeOK
<1>4. ASSUME NEW q \in Requests, layout_cfg(q)
      PROVE  ExchangeOK'
  <2>1. /\ rows' = q.rows /\ req' = q /\ ws' = "cols" /\ boot' = boot
        /\ alone' => boot = "up"
    BY <1>4 DEF layout_cfg, Accepts
  <2> QED
    BY <2>1 DEF ExchangeOK, EnteredOK, TableOK, SavedOK, SentOK
<1>5. CASE ws_on_cli_read_text
  <2>1. UNCHANGED <<alone, req, boot>>
    BY <1>5 DEF ws_on_cli_read_text, SetCols, ClearTab, IndexItem, PlaceItem, PutRows,
       PutCols, TestItem, CollectItem, Install, OpenFile, WriteFile, DimRows, DimCols,
       FillFixed, SendItem
  <2>2. alone /\ req # NoLayout => EnteredOK' /\ TableOK' /\ SavedOK' /\ SentOK'
    BY <1>5, HandlerStep
  <2> QED
    BY <2>1, <2>2 DEF ExchangeOK
<1>6. CASE Crash
  BY <1>6 DEF Crash, ExchangeOK
<1>7. CASE UNCHANGED vars
  BY <1>7 DEF vars, ExchangeOK, EnteredOK, TableOK, SavedOK, SentOK, Matches
<1> QED
  BY <1>1, <1>2, <1>3, <1>4, <1>5, <1>6, <1>7 DEF Next, NovaEncoderInit

-----------------------------------------------------------------------------
(* An exchange that the player's thread may meet at any step: the table,   *)
(* as far as it was emptied, and what is sent have at each place only what *)
(* is allowed there.                                                       *)
TableAllowed ==
  /\ ws # "cols" => cols \in {req.cols, Blks}
  /\ ws = "store" => width \in {req.cols, Blks}
  /\ ws # "cols" =>
       \A p \in Positions : (ws = "clear" => p < wi) =>
                              tab[p] \in Allowed(req, p) \cup {Empty}

AllAllowed(q, items, w) ==
  \A it \in ToSet(items) : it.id \in Allowed(q, it.row * w + it.col)

SentAllowed ==
  /\ ws \in {"dimcols", "fill"} => draft.items = <<>>
  /\ ws = "send" => AllAllowed(req, draft.items, draft.cols)
  /\ ws = "idle" => AllAllowed(req, reply.items, reply.cols)

StrayOK == req # NoLayout => TableAllowed /\ SentAllowed

(* The start-up stores no input but the default one, a handler none but    *)
(* the one that is asked for.                                              *)
LEMMA DefaultAllowed ==
  ASSUME NEW q, NEW p
  PROVE  p \in Allowed(q, p)
  BY DEF Allowed

LEMMA AskedAllowed ==
  ASSUME NEW q, NEW i \in DOMAIN q.items, NEW w \in {q.cols, Blks}
  PROVE  q.items[i].id \in Allowed(q, q.items[i].row * w + q.items[i].col)
<1>1. q.items[i] \in ToSet(q.items)
  BY DEF ToSet
<1> QED
  BY <1>1 DEF Allowed

LEMMA NoneAllowed ==
  ASSUME NEW q, NEW w
  PROVE  AllAllowed(q, <<>>, w)
  BY DEF AllAllowed, ToSet

(* An item that is sent stands for the position it was read from. *)
LEMMA AddedAllowed ==
  ASSUME TypeOK, draft \in Stored, NEW q, NEW i \in Positions, NEW w \in Nat \ {0},
         tab[i] \in Allowed(q, i) \cup {Empty},
         AllAllowed(q, draft.items, w), AddItem(i, w)
  PROVE  AllAllowed(q, draft'.items, w)
<1>1. CASE tab[i] = Empty
  BY <1>1 DEF AddItem
<1>2. CASE tab[i] # Empty
  <2> DEFINE e == Item(i, w, w)
             S == [row : Int, col : Int, id : Ids]
  <2>1. draft'.items = Append(draft.items, e) /\ e \in S
    BY <1>2, ItemStored DEF AddItem
  <2>2. ToSet(draft'.items) = ToSet(draft.items) \cup {e}
    <3>1. draft.items \in Seq(S)
      BY DEF Stored
    <3> HIDE DEF e, S
    <3> QED
      BY <2>1, <3>1, AppendSet
  <2>3. e.row * w + e.col = i /\ e.id = tab[i]
    <3>1. i \in Nat
      BY DEF Positions
    <3> QED
      BY <3>1, Division DEF Item
  <2>4. e.id \in Allowed(q, e.row * w + e.col)
    BY <1>2, <2>3
  <2> QED
    BY <2>2, <2>4 DEF AllAllowed
<1> QED
  BY <1>1, <1>2

(* What the picture takes: the position the start-up has just reset may be *)
(* changed by a request before it is copied.                               *)
Anywhere(p) == {p, Empty} \cup UNION {Allowed(q, p) : q \in Requests}

PictureOK ==
  /\ boot \in {"test", "attr"} => tab[bi] \in Anywhere(bi)
  /\ \A p \in Shown : attr.tab[p] \in Anywhere(p) \cup {0}

LEMMA PictureStep == IInv /\ StrayOK /\ PictureOK /\ [Next]_vars => PictureOK'
<1> SUFFICES ASSUME IInv, StrayOK, PictureOK, [Next]_vars
             PROVE  PictureOK'
  OBVIOUS
<1> USE DEF tabVars, bootVars, wsVars, diskVars
<1>a. TypeOK /\ RequestOK
  BY DEF IInv, Typed
<1>b. /\ tab \in [Positions -> Ids \cup {Empty}] /\ wi \in Nat
      /\ boot \in {"test", "attr"} => bi \in Positions
      /\ Shown \subseteq Positions
      /\ attr \in [cols : Nat, rows : Nat, tab : [Shown -> Ids \cup {0, Empty}]]
  BY <1>a, Sizes DEF TypeOK, Positions
(* Every change a handler makes of the table while the start-up is at a    *)
(* position leaves something allowed there.                                *)
<1>c. ASSUME UNCHANGED <<attr, boot, bi>>,
             \A p \in Positions : tab'[p] = tab[p] \/ tab'[p] \in Anywhere(p)
      PROVE  PictureOK'
  BY <1>b, <1>c DEF PictureOK
<1>1. CASE read_layout_conf \/ ResetCols \/ ResetRows
  BY <1>1 DEF read_layout_conf, ResetCols, ResetRows, PictureOK
<1>2. CASE CopyCols \/ CopyRows
  <2>1. attr'.tab = attr.tab /\ boot' \in {"attrrows", "tab"}
    BY <1>2, <1>b DEF CopyCols, CopyRows
  <2> QED
    BY <2>1 DEF PictureOK
<1>3. CASE ResetTab
  <2>1. attr' = attr
    BY <1>3 DEF ResetTab
  <2>2. boot' \in {"test", "attr"} => tab'[bi'] = bi'
    <3>1. CASE bi < MAX_LAYER_NUMS
      <4>1. tab' = [tab EXCEPT ![bi] = bi] /\ bi' = bi
        BY <1>3, <3>1 DEF ResetTab
      <4>2. bi \in Positions
        BY <1>a, <3>1, Sizes DEF TypeOK, Positions
      <4> QED
        BY <1>b, <4>1, <4>2
    <3>2. CASE ~(bi < MAX_LAYER_NUMS)
      BY <1>3, <3>2 DEF ResetTab
    <3> QED
      BY <3>1, <3>2
  <2> QED
    BY <2>1, <2>2 DEF PictureOK, Anywhere
<1>4. CASE TestTab
  BY <1>4 DEF TestTab, PictureOK
<1>5. CASE CopyTab
  <2>1. boot' = "tab" /\ tab[bi] \in Anywhere(bi)
    BY <1>5 DEF CopyTab, PictureOK
  <2>2. attr' = attr \/ attr' = [attr EXCEPT !.tab[bi] = tab[bi]]
    BY <1>5 DEF CopyTab
  <2>3. \A p \in Shown : attr'.tab[p] = attr.tab[p] \/ (p = bi /\ attr'.tab[p] = tab[bi])
    BY <1>b, <2>2
  <2> QED
    BY <2>1, <2>3 DEF PictureOK
<1>6. CASE send_layout_cfg_only \/ (\E q \in Requests : layout_cfg(q))
  <2>1. UNCHANGED <<attr, boot, bi, tab>>
    BY <1>6 DEF send_layout_cfg_only, layout_cfg
  <2> QED
    BY <1>c, <2>1
<1>7. CASE SetCols \/ IndexItem \/ PutRows \/ PutCols \/ TestItem \/ CollectItem
           \/ Install \/ OpenFile \/ WriteFile \/ DimRows \/ DimCols \/ SendItem
  <2>1. UNCHANGED <<attr, boot, bi, tab>>
    BY <1>7 DEF SetCols, IndexItem, PutRows, PutCols, TestItem, CollectItem, Install,
       OpenFile, WriteFile, DimRows, DimCols, SendItem
  <2> QED
    BY <1>c, <2>1
<1>8. CASE ClearTab
  <2>1. /\ UNCHANGED <<attr, boot, bi>>
        /\ tab' = tab \/ tab' = [tab EXCEPT ![wi] = Empty]
    BY <1>8 DEF ClearTab
  <2>2. \A p \in Positions : tab'[p] = tab[p] \/ tab'[p] = Empty
    BY <1>b, <2>1
  <2> QED
    BY <1>c, <2>1, <2>2 DEF Anywhere
<1>9. CASE PlaceItem
  <2> DEFINE place == req.items[wi].row * width + req.items[wi].col
             it == req.items[wi]
  <2>1. /\ ws = "store" /\ UNCHANGED <<attr, boot, bi>>
        /\ tab' = [tab EXCEPT ![place] = it.id]
    BY <1>9 DEF PlaceItem
  <2>2. req \in Requests /\ req # NoLayout /\ wi # 0 /\ wi <= Len(req.items)
    BY <1>a, <2>1 DEF RequestOK, Accepting
  <2>3. wi \in DOMAIN req.items
    <3>1. Len(req.items) \in Nat /\ DOMAIN req.items = 1..Len(req.items)
      BY <2>2, RequestFits, LenProperties
    <3> QED
      BY <1>b, <2>2, <3>1
  <2>4. width \in {req.cols, Blks}
    BY <2>1, <2>2 DEF StrayOK, TableAllowed
  <2>5. it.id \in Allowed(req, place)
    BY <2>3, <2>4, AskedAllowed
  <2>6. it.id \in Anywhere(place)
    BY <2>2, <2>5 DEF Anywhere
  <2>7. \A p \in Positions : tab'[p] = tab[p] \/ (p = place /\ tab'[p] = it.id)
    <3> HIDE DEF place, it
    <3> QED
      BY <1>b, <2>1
  <2> HIDE DEF place, it
  <2> QED
    BY <1>c, <2>1, <2>6, <2>7
<1>10. CASE FillFixed
  <2>1. /\ UNCHANGED <<attr, boot, bi>>
        /\ tab' = tab \/ tab' = [tab EXCEPT ![wi] = wi]
    BY <1>10 DEF FillFixed
  <2>2. \A p \in Positions : tab'[p] = tab[p] \/ tab'[p] = p
    BY <1>b, <2>1
  <2> QED
    BY <1>c, <2>1, <2>2 DEF Anywhere
<1>11. CASE Crash
  <2>1. boot' = "down" /\ \A p \in Shown : attr'.tab[p] = 0
    BY <1>11 DEF Crash, NoAttr
  <2> QED
    BY <2>1 DEF PictureOK
<1>12. CASE UNCHANGED vars
  BY <1>12 DEF vars, PictureOK
<1> QED
  BY <1>1, <1>2, <1>3, <1>4, <1>5, <1>6, <1>7, <1>8, <1>9, <1>10, <1>11, <1>12
     DEF Next, NovaEncoderInit, ws_on_cli_read_text

LEMMA StrayStep == IInv /\ StrayOK /\ [Next]_vars => StrayOK'
<1> SUFFICES ASSUME IInv, StrayOK, [Next]_vars, req' # NoLayout
             PROVE  TableAllowed' /\ SentAllowed'
  BY DEF StrayOK
<1> USE DEF tabVars, bootVars, wsVars, diskVars
<1>a. TypeOK /\ DraftOK /\ DimsOK /\ RequestOK
  BY DEF IInv, Typed
<1>b. ASSUME req' = req
      PROVE  TableAllowed /\ SentAllowed
  BY <1>b DEF StrayOK
<1>c. /\ tab \in [Positions -> Ids \cup {Empty}] /\ wi \in Nat
      /\ MAX_LAYER_NUMS \in Nat /\ Positions = 0..(MAX_LAYER_NUMS - 1)
  BY <1>a, Sizes DEF TypeOK, Positions
<1>1. CASE read_layout_conf
  BY <1>1, <1>a DEF read_layout_conf, RequestOK
<1>2. CASE ResetCols
  BY <1>2, <1>b DEF ResetCols, TableAllowed, SentAllowed
<1>3. CASE ResetRows \/ CopyCols \/ CopyRows \/ TestTab \/ CopyTab
  BY <1>3, <1>b DEF ResetRows, CopyCols, CopyRows, TestTab, CopyTab, TableAllowed,
     SentAllowed
<1>4. CASE ResetTab
  <2>1. UNCHANGED <<cols, ws, wi, req, width, draft, reply>>
    BY <1>4 DEF ResetTab
  <2>2. tab' = tab \/ tab' = [tab EXCEPT ![bi] = bi]
    BY <1>4 DEF ResetTab
  <2>3. \A p \in Positions : tab'[p] = tab[p] \/ tab'[p] = p
    BY <1>c, <2>2
  <2> QED
    BY <1>b, <2>1, <2>3, DefaultAllowed DEF TableAllowed, SentAllowed
<1>5. CASE send_layout_cfg_only \/ Crash
  BY <1>5 DEF send_layout_cfg_only, Crash
<1>6. ASSUME NEW q \in Requests, layout_cfg(q)
      PROVE  TableAllowed' /\ SentAllowed'
  BY <1>6 DEF layout_cfg, TableAllowed, SentAllowed
<1>7. CASE SetCols
  <2>1. ws' = "clear" /\ wi' = 0 /\ cols' = req.cols /\ req' = req
    BY <1>7 DEF SetCols
  <2>2. \A p \in Positions : ~(p < wi')
    BY <1>c, <2>1
  <2> QED
    BY <2>1, <2>2 DEF TableAllowed, SentAllowed
<1>8. CASE ClearTab
  <2>1. ws = "clear" /\ ws' \in {"clear", "place"} /\ UNCHANGED <<cols, req>>
    BY <1>8 DEF ClearTab
  <2>2. /\ cols \in {req.cols, Blks}
        /\ \A p \in Positions : p < wi => tab[p] \in Allowed(req, p) \cup {Empty}
    BY <1>b, <2>1 DEF TableAllowed
  <2>3. \A p \in Positions : (ws' = "clear" => p < wi') =>
                              tab'[p] \in Allowed(req, p) \cup {Empty}
    <3>1. CASE wi < MAX_LAYER_NUMS
      <4>1. tab' = [tab EXCEPT ![wi] = Empty] /\ wi' = wi + 1 /\ ws' = "clear"
        BY <1>8, <2>1, <3>1 DEF ClearTab
      <4>2. \A p \in Positions : p < wi' => p < wi \/ p = wi
        BY <1>c, <4>1
      <4> QED
        BY <1>c, <2>2, <4>1, <4>2
    <3>2. CASE ~(wi < MAX_LAYER_NUMS)
      <4>1. tab' = tab /\ \A p \in Positions : p < wi
        BY <1>8, <1>c, <3>2 DEF ClearTab
      <4> QED
        BY <2>2, <4>1
    <3> QED
      BY <3>1, <3>2
  <2> QED
    BY <2>1, <2>2, <2>3 DEF TableAllowed, SentAllowed
<1>9. CASE IndexItem
  <2>1. /\ ws = "place" /\ ws' \in {"store", "put"} /\ UNCHANGED <<tab, cols, req>>
        /\ ws' = "store" => width' = cols
    BY <1>9 DEF IndexItem
  <2> QED
    BY <1>b, <2>1 DEF TableAllowed, SentAllowed
<1>10. CASE PlaceItem
  <2>1. /\ ws = "store" /\ ws' = "place" /\ UNCHANGED <<cols, req>>
        /\ tab' = [tab EXCEPT ![req.items[wi].row * width + req.items[wi].col]
                                 = req.items[wi].id]
    BY <1>10 DEF PlaceItem
  <2>2. width \in {req.cols, Blks}
    BY <1>b, <2>1 DEF TableAllowed
  <2>3. wi \in DOMAIN req.items
    <3>1. req \in Requests /\ wi # 0 /\ wi <= Len(req.items)
      BY <1>a, <2>1 DEF RequestOK
    <3>2. Len(req.items) \in Nat /\ DOMAIN req.items = 1..Len(req.items)
      BY <3>1, RequestFits, LenProperties
    <3> QED
      BY <1>c, <3>1, <3>2
  <2> DEFINE place == req.items[wi].row * width + req.items[wi].col
  <2>4. req.items[wi].id \in Allowed(req, place)
    BY <2>2, <2>3, AskedAllowed
  <2>5. \A p \in Positions : tab[p] \in Allowed(req, p) \cup {Empty}
    BY <1>b, <2>1 DEF TableAllowed
  <2>6. \A p \in Positions : tab'[p] \in Allowed(req, p) \cup {Empty}
    <3>1. tab' = [tab EXCEPT ![place] = req.items[wi].id]
      BY <2>1
    <3> HIDE DEF place
    <3> QED
      BY <1>c, <2>4, <2>5, <3>1
  <2>7. cols \in {req.cols, Blks}
    BY <1>b, <2>1 DEF TableAllowed
  <2> QED
    BY <2>1, <2>6, <2>7 DEF TableAllowed, SentAllowed
<1>11. CASE PutRows \/ PutCols \/ TestItem \/ CollectItem \/ Install
            \/ OpenFile \/ WriteFile
  <2>1. /\ ws \notin {"cols", "clear"} /\ UNCHANGED <<tab, cols, req>>
        /\ ws' \notin {"cols", "clear", "store", "dimcols", "fill", "send", "idle"}
    BY <1>11 DEF PutRows, PutCols, TestItem, CollectItem, Install, OpenFile, WriteFile
  <2> QED
    BY <1>b, <2>1 DEF TableAllowed, SentAllowed
<1>12. CASE DimRows
  <2>1. /\ ws = "dims" /\ ws' \in {"dimcols", "fill"} /\ draft'.items = <<>>
        /\ UNCHANGED <<tab, cols, req>>
    BY <1>12 DEF DimRows, NoLayout
  <2> QED
    BY <1>b, <2>1 DEF TableAllowed, SentAllowed
<1>13. CASE DimCols
  <2>1. /\ ws = "dimcols" /\ ws' = "send" /\ draft'.items = draft.items
        /\ UNCHANGED <<tab, cols, req>>
    BY <1>13, <1>a DEF DimCols, DraftOK, Stored
  <2>2. draft'.items = <<>>
    BY <1>b, <2>1 DEF SentAllowed
  <2> QED
    BY <1>b, <2>1, <2>2, NoneAllowed DEF TableAllowed, SentAllowed
<1>14. CASE FillFixed
  <2>1. /\ ws = "fill" /\ ws' \in {"fill", "send"}
        /\ UNCHANGED <<cols, req, draft>>
        /\ tab' = tab \/ tab' = [tab EXCEPT ![wi] = wi]
    BY <1>14 DEF FillFixed
  <2>2. \A p \in Positions : tab'[p] = tab[p] \/ tab'[p] = p
    BY <1>c, <2>1
  <2>3. draft'.items = <<>>
    BY <1>b, <2>1 DEF SentAllowed
  <2> QED
    BY <1>b, <2>1, <2>2, <2>3, DefaultAllowed, NoneAllowed DEF TableAllowed, SentAllowed
<1>15. CASE SendItem
  <2>1. ws = "send" /\ ws' \in {"send", "idle"} /\ UNCHANGED <<tab, cols, req>>
    BY <1>15 DEF SendItem
  <2>2. AllAllowed(req, draft.items, draft.cols)
    BY <1>b, <2>1 DEF SentAllowed
  <2>3. TableAllowed'
    BY <1>b, <2>1 DEF TableAllowed
  <2>4. CASE wi < draft.rows * draft.cols
    <3>1. AddItem(wi, draft.cols) /\ ws' = "send"
      BY <1>15, <2>1, <2>4 DEF SendItem
    <3>2. /\ draft \in Stored /\ draft.cols # 0
          /\ draft.rows * draft.cols <= MAX_LAYER_NUMS
      BY <1>a, <2>1 DEF DraftOK
    <3>3. draft.cols \in Nat \ {0} /\ draft.rows * draft.cols \in Nat
      BY <3>2 DEF Stored
    <3>4. wi \in Positions
      BY <1>c, <2>4, <3>2, <3>3
    <3>5. tab[wi] \in Allowed(req, wi) \cup {Empty}
      BY <1>b, <2>1, <3>4 DEF TableAllowed
    <3>6. AllAllowed(req, draft'.items, draft.cols)
      BY <1>a, <2>2, <3>1, <3>2, <3>3, <3>4, <3>5, AddedAllowed
    <3>7. draft'.cols = draft.cols
      BY <1>a, <3>1, <3>2, <3>3, <3>4, AddedStored
    <3> QED
      BY <2>1, <2>3, <3>1, <3>6, <3>7 DEF SentAllowed
  <2>5. CASE ~(wi < draft.rows * draft.cols)
    <3>1. ws' = "idle" /\ reply' = draft
      BY <1>15, <2>5 DEF SendItem
    <3> QED
      BY <2>1, <2>2, <2>3, <3>1 DEF SentAllowed
  <2> QED
    BY <2>4, <2>5
<1>16. CASE UNCHANGED vars
  BY <1>16, <1>b DEF vars, TableAllowed, SentAllowed
<1> QED
  BY <1>1, <1>2, <1>3, <1>4, <1>5, <1>6, <1>7, <1>8, <1>9, <1>10, <1>11, <1>12, <1>13,
     <1>14, <1>15, <1>16
     DEF Next, NovaEncoderInit, ws_on_cli_read_text

-----------------------------------------------------------------------------
(* The inductive invariant holds however the player's thread, the handlers *)
(* and crashes interleave (NovaEncoderInit, ws_on_cli_read_text).          *)
THEOREM Invariance == Spec => []IInv
<1>1. IInv /\ [Next]_vars => IInv'
  BY TypedStep, SaveStep, StartStep DEF IInv
<1> QED
  BY InitIInv, <1>1, PTL DEF Spec

(* The types hold for every table, every set of requests that fit and      *)
(* every file the program may find.                                        *)
THEOREM TypeCorrect == Spec => []TypeOK
<1>1. IInv => TypeOK
  BY DEF IInv, Typed
<1> QED
  BY Invariance, <1>1, PTL

(* A confirmed layout stays in the file through crashes and restarts until *)
(* another save begins (write_layout_conf, send_layout_cfg).               *)
THEOREM ConfirmedSurvives == Spec => []FileHoldsAcked
<1>1. IInv => FileHoldsAcked
  BY DEF IInv
<1> QED
  BY Invariance, <1>1, PTL

(* A start without requests ends with the default table, and a layout      *)
(* accepted once the program is up never reaches the picture               *)
(* (NovaEncoderInit).                                                      *)
THEOREM StartsFromDefault == Spec => []BootsToDefault
<1>1. IInv => BootsToDefault
  BY DEF IInv, StartOK, TableReset, AttrCopied, BootsToDefault
<1> QED
  BY Invariance, <1>1, PTL

(* Once a save was cut short no layout is accepted or saved any more, not  *)
(* even after further restarts (Configer, ws_on_cli_read_text).            *)
THEOREM CutShortIsForGood == Spec => CutShortForGood
<1>1. Init => NothingAccepted
  BY DEF Init, NothingAccepted, NoConf, Accepting
<1>2. IInv /\ NothingAccepted /\ [Next]_vars => NothingAccepted'
  BY CutShortStep
<1>3. IInv /\ NothingAccepted /\ [Next]_vars =>
        [CutShort => CutShort' /\ changed' = "never"]_vars
  BY CutShortStep
<1> QED
  BY Invariance, <1>1, <1>2, <1>3, PTL DEF Spec, CutShortForGood

(* So does the invariant of an exchange that no step of the player's       *)
(* thread meets (layout_cfg, write_layout_conf, send_layout_cfg).          *)
THEOREM ExchangeInvariance == Spec => []ExchangeOK
<1>1. Init => ExchangeOK
  BY DEF Init, ExchangeOK
<1>2. IInv /\ ExchangeOK /\ [Next]_vars => ExchangeOK'
  BY ExchangeStep
<1> QED
  BY Invariance, <1>1, <1>2, PTL DEF Spec

(* The answer to an exchange that no step of the player's thread meets     *)
(* shows what was asked for (layout_cfg, send_layout_cfg).                 *)
THEOREM RepliesMatch == Spec => []ReplyMatches
<1>1. IInv /\ ExchangeOK => ReplyMatches
  <2> SUFFICES ASSUME IInv, ExchangeOK, ws = "idle", alone, req # NoLayout
               PROVE  ReplyMatches
    BY DEF ReplyMatches
  <2>1. PICK q \in Requests : q = req
    BY DEF IInv, Typed, RequestOK
  <2>2. /\ q.rows \in Nat \ {0} /\ q.cols \in Nat \ {0} /\ q.items \in Seq(ItemType)
        /\ q.rows * q.cols <= MAX_LAYER_NUMS
    BY RequestFits
  <2>3. /\ reply.rows = q.rows /\ reply.cols = q.cols
        /\ Lists(reply.items, Placed(q.items, q.cols), q.cols, q.rows * q.cols)
    BY <2>1 DEF ExchangeOK, EnteredOK, TableOK, SentOK, Matches
  <2>4. /\ \A it \in ToSet(reply.items) :
             /\ it.row < q.rows /\ it.col < q.cols
             /\ it.id # Empty /\ it.id = Placed(q.items, q.cols)[it.row * q.cols + it.col]
        /\ \A it \in ToSet(q.items) :
             it.row * q.cols + it.col < q.rows * q.cols =>
               \E shown \in ToSet(reply.items) :
                 shown.row * q.cols + shown.col = it.row * q.cols + it.col
    BY <2>2, <2>3, ListShows
  <2> QED
    BY <2>1, <2>3, <2>4 DEF ReplyMatches
<1> QED
  BY Invariance, ExchangeInvariance, <1>1, PTL

(* After such an exchange the file reads back as the table in memory       *)
(* (write_layout_conf, read_layout_conf).                                  *)
THEOREM ReadsBack == Spec => []SavedReadsBack
<1>1. IInv /\ ExchangeOK => SavedReadsBack
  <2> SUFFICES ASSUME IInv, ExchangeOK, ws = "idle", alone, req # NoLayout
               PROVE  SavedReadsBack
    BY DEF SavedReadsBack
  <2>1. /\ file = conf /\ conf.layout.rows = rows /\ conf.layout.cols = cols
        /\ Lists(conf.layout.items, tab, cols, MAX_LAYER_NUMS)
    BY DEF ExchangeOK, SavedOK, Matches
  <2>2. /\ conf.layout.items \in Seq([row : Int, col : Int, id : Ids])
        /\ tab \in [Positions -> Ids \cup {Empty}] /\ cols \in Nat \ {0}
    BY DEF IInv, Typed, TypeOK, DiskOK, Config, Stored
  <2>3. Placed(conf.layout.items, cols) = tab
    BY <2>1, <2>2, ReadBack
  <2> QED
    BY <2>1, <2>3 DEF SavedReadsBack
<1> QED
  BY Invariance, ExchangeInvariance, <1>1, PTL

(* Whatever step of an exchange the start-up meets, at each place there is *)
(* the default input, none, or one asked for there (NovaEncoderInit,       *)
(* layout_cfg, send_layout_cfg).                                           *)
THEOREM NoInputStrays == Spec => []NothingStrays
<1>1. Init => StrayOK /\ PictureOK
  BY DEF Init, NoAttr, StrayOK, PictureOK
<1>2. IInv /\ StrayOK /\ PictureOK /\ [Next]_vars => StrayOK' /\ PictureOK'
  BY StrayStep, PictureStep
<1>3. StrayOK /\ PictureOK => NothingStrays
  BY DEF StrayOK, TableAllowed, SentAllowed, AllAllowed, PictureOK, Anywhere,
     NothingStrays
<1> QED
  BY Invariance, <1>1, <1>2, <1>3, PTL DEF Spec
=============================================================================
