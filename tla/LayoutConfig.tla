---------------------------- MODULE LayoutConfig ----------------------------
(***************************************************************************)
(* The multi-viewer layout of player.cpp: which input is shown at which    *)
(* position of the mosaic, how browsers read and change it over the        *)
(* websocket of port 7999, and the file it is saved in (configer.h).       *)
(*                                                                         *)
(* Two threads share layer_layout_tab and the dst_*_blks variables without *)
(* a lock.                                                                 *)
(*   - the player's thread, in NovaEncoderInit(0), reads the file, starts  *)
(*     the websocket server and then sets everything back to the default;  *)
(*   - the server's thread runs one handler after the other.               *)
(* The process may die at any step and start again on what the file holds. *)
(*                                                                         *)
(* A loop over the table is a step for each position, and what a handler   *)
(* reads of dst_*_blks at two places it reads in two steps, so that the    *)
(* start-up can come between them.                                         *)
(***************************************************************************)
EXTENDS Integers, SequencesExt, FiniteSetsExt

CONSTANTS
  MAX_LAYER_NUMS,  (* positions of the table (128)                         *)
  Blks,            (* the default number of rows and of columns (8)        *)
  LayNum,          (* positions whose inputs the picture shows (64)        *)
  FixedRows,       (* rows and columns shown in "fixed" mode (16 and 8)    *)
  FixedCols,
  InitialFiles,    (* what the file may hold before the first start        *)
  Requests         (* the layouts browsers ask for                         *)

Positions == 0..(MAX_LAYER_NUMS - 1)
Empty == -1

(* A layout as it travels and as it is stored: items is the array of       *)
(* [row, col, id].  What a file may hold at first and what browsers ask    *)
(* for lies in the table whatever number of columns it is placed with.     *)
ItemType == [row : Nat, col : Nat, id : Nat]
NoLayout == [rows |-> 0, cols |-> 0, items |-> <<>>]

(* mvr_mode: "none" when the key is missing, "other" for any other string; *)
(* "torn" stands for a file that does not parse.                           *)
Modes == {"none", "fixed", "unfixed", "other", "torn"}

Fits(q) ==
  /\ q \in [rows : Nat \ {0}, cols : Nat \ {0}, items : Seq(ItemType)]
  /\ \A w \in {q.cols, Blks} :
       /\ \A h \in {q.rows, Blks} : h * w <= MAX_LAYER_NUMS
       /\ \A i \in DOMAIN q.items :
            q.items[i].row * w + q.items[i].col < MAX_LAYER_NUMS

ASSUME LayoutAssumption ==
  /\ MAX_LAYER_NUMS \in Nat
  /\ Blks \in Nat \ {0} /\ Blks * Blks <= MAX_LAYER_NUMS
  /\ LayNum \in Nat /\ LayNum <= MAX_LAYER_NUMS
  /\ FixedRows \in Nat /\ FixedCols \in Nat \ {0}
  /\ FixedRows * FixedCols = MAX_LAYER_NUMS
  /\ \A q \in Requests : Fits(q)
  /\ \A f \in InitialFiles : /\ f \in [mode : Modes, layout : {f.layout}]
                             /\ f.layout = NoLayout \/ Fits(f.layout)

VARIABLES
  file,      (* the file: its two keys, or Torn between open and write     *)
  conf,      (* global.conf: the same keys in memory                       *)
  tab,       (* layer_layout_tab                                           *)
  rows,      (* dst_vertical_blks                                          *)
  cols,      (* dst_horizontal_blks                                        *)
  attr,      (* the attributes of the vif element: what the picture shows  *)
  boot,      (* how far the player's thread has come                       *)
  bi,        (* its loop index                                             *)
  ws,        (* what the server's thread is doing                          *)
  wi,        (* its loop index                                             *)
  req,       (* the layout_cfg request it handles                          *)
  width,     (* dst_horizontal_blks as it has just read it                 *)
  draft,     (* the layout it collects, to be saved or to be sent          *)
  reply,     (* the layout sent at the end of the last exchange            *)
  acked,     (* history: file contents last confirmed by a reply; only the *)
             (* mode of them once another save was begun                   *)
  saving,    (* history: a save was begun since then                       *)
  alone,     (* history: no step of the other thread since the request     *)
  changed    (* history: when a request was accepted since the process     *)
             (* started: "never", "starting" or only once "running"        *)

tabVars == <<tab, rows, cols>>
bootVars == <<attr, boot, bi>>
wsVars == <<ws, wi, req, width, draft, reply>>
diskVars == <<file, conf, acked, saving>>
vars == <<tabVars, bootVars, wsVars, diskVars, alone, changed>>

Torn == [mode |-> "torn", layout |-> NoLayout]
NoConf == [mode |-> "none", layout |-> NoLayout]
Identity == [p \in Positions |-> p]

(* vif reads as many attributes of the table as layNum says.  An attribute *)
(* that is not set reads as 0.                                             *)
Shown == 0..(LayNum - 1)
NoAttr == [cols |-> 0, rows |-> 0, tab |-> [p \in Shown |-> 0]]
DefaultAttr == [cols |-> Blks, rows |-> Blks, tab |-> [p \in Shown |-> p]]

(* confPt.get("mvr_mode", "unfixed") *)
ModeOf(c) == IF c.mode = "none" THEN "unfixed" ELSE c.mode

Init ==
  /\ file \in InitialFiles
  /\ conf = NoConf
  /\ tab = [p \in Positions |-> 0]
  /\ rows = Blks
  /\ cols = Blks
  /\ attr = NoAttr
  /\ boot = "down"
  /\ bi = 0
  /\ ws = "idle"
  /\ wi = 0
  /\ req = NoLayout
  /\ width = 0
  /\ draft = NoLayout
  /\ reply = NoLayout
  /\ acked = file
  /\ saving = FALSE
  /\ alone = FALSE
  /\ changed = "never"

-----------------------------------------------------------------------------
(* The player's thread. *)

(* layer_layout_tab[row * dst_horizontal_blks + col] = inputId, item after *)
(* item: the last item of a position is the one that counts.               *)
(* A layout that the start-up tore while it was saved may have items       *)
(* beyond the table; what writing there destroys is not part of the model. *)
Placed(items, w) ==
  [p \in Positions |->
    LET here == {i \in DOMAIN items : items[i].row * w + items[i].col = p}
    IN IF here = {} THEN Empty ELSE items[Max(here)].id]

(* The constructor of Configer reads the file (a file that does not parse  *)
(* leaves the tree empty) and read_layout_conf fills the table from it.    *)
(* The server's thread does not exist yet.                                 *)
read_layout_conf ==
  /\ boot = "down"
  /\ conf' = IF file = Torn THEN NoConf ELSE file
  /\ IF ModeOf(conf') = "fixed"
     THEN rows' = 1 /\ cols' = 1 /\ tab' = Identity
     ELSE IF conf'.layout = NoLayout
     THEN rows' = Blks /\ cols' = Blks /\ tab' = Identity
     ELSE /\ rows' = conf'.layout.rows
          /\ cols' = conf'.layout.cols
          /\ tab' = Placed(conf'.layout.items, cols')
  /\ boot' = "cols"
  /\ UNCHANGED <<file, acked, saving, attr, bi, wsVars, alone, changed>>

(* From here on the websocket server runs. *)
ResetCols ==
  /\ boot = "cols"
  /\ cols' = Blks
  /\ boot' = "rows"
  /\ alone' = FALSE
  /\ UNCHANGED <<tab, rows, attr, bi, wsVars, diskVars, changed>>

ResetRows ==
  /\ boot = "rows"
  /\ rows' = Blks
  /\ boot' = "attrcols"
  /\ alone' = FALSE
  /\ UNCHANGED <<tab, cols, attr, bi, wsVars, diskVars, changed>>

(* What was just written is read again, to become an attribute of vif.     *)
CopyCols ==
  /\ boot = "attrcols"
  /\ attr' = [attr EXCEPT !.cols = cols]
  /\ boot' = "attrrows"
  /\ alone' = FALSE
  /\ UNCHANGED <<tabVars, bi, wsVars, diskVars, changed>>

CopyRows ==
  /\ boot = "attrrows"
  /\ attr' = [attr EXCEPT !.rows = rows]
  /\ boot' = "tab"
  /\ bi' = 0
  /\ alone' = FALSE
  /\ UNCHANGED <<tabVars, wsVars, diskVars, changed>>

(* Two bugs for the mutant runs: the loop runs one position too far, and   *)
(* it leaves positions that are not empty as they are.                     *)
ResetTooFar ==
  /\ boot = "tab"
  /\ IF bi <= MAX_LAYER_NUMS
     THEN tab' = [tab EXCEPT ![bi] = bi] /\ boot' = "test" /\ bi' = bi
     ELSE boot' = "up" /\ bi' = 0 /\ tab' = tab
  /\ alone' = FALSE
  /\ UNCHANGED <<rows, cols, attr, wsVars, diskVars, changed>>

ResetEmptyOnly ==
  /\ boot = "tab"
  /\ IF bi < MAX_LAYER_NUMS
     THEN /\ tab' = [tab EXCEPT ![bi] = IF @ = Empty THEN bi ELSE @]
          /\ bi' = bi
          /\ boot' = "test"
     ELSE boot' = "up" /\ bi' = 0 /\ tab' = tab
  /\ alone' = FALSE
  /\ UNCHANGED <<rows, cols, attr, wsVars, diskVars, changed>>

ResetTab ==
  /\ boot = "tab"
  /\ IF bi < MAX_LAYER_NUMS
     THEN tab' = [tab EXCEPT ![bi] = bi] /\ boot' = "test" /\ bi' = bi
     ELSE boot' = "up" /\ bi' = 0 /\ tab' = tab
  /\ alone' = FALSE
  /\ UNCHANGED <<rows, cols, attr, wsVars, diskVars, changed>>

(* The position is read again: the server's thread may have emptied it,    *)
(* and then the loop ends here ...                                         *)
TestTab ==
  /\ boot = "test"
  /\ IF tab[bi] # Empty THEN boot' = "attr" /\ bi' = bi
                        ELSE boot' = "up" /\ bi' = 0
  /\ alone' = FALSE
  /\ UNCHANGED <<tabVars, attr, wsVars, diskVars, changed>>

(* ... and read once more to become the attribute of the position.         *)
CopyTab ==
  /\ boot = "attr"
  /\ attr' = IF bi \in Shown THEN [attr EXCEPT !.tab[bi] = tab[bi]] ELSE attr
  /\ boot' = "tab"
  /\ bi' = bi + 1
  /\ alone' = FALSE
  /\ UNCHANGED <<tabVars, wsVars, diskVars, changed>>

NovaEncoderInit ==
  \/ read_layout_conf \/ ResetCols \/ ResetRows \/ CopyCols \/ CopyRows
  \/ ResetTab \/ TestTab \/ CopyTab

-----------------------------------------------------------------------------
(* The server's thread. *)

Serving == boot # "down"

(* A new browser, the topic "query_cfg", or a layout_cfg that is refused:  *)
(* only send_layout_cfg runs.                                              *)
send_layout_cfg_only ==
  /\ Serving
  /\ ws = "idle"
  /\ ws' = "dims"
  /\ req' = NoLayout
  /\ reply' = NoLayout
  /\ alone' = (boot = "up")
  /\ UNCHANGED <<tabVars, bootVars, wi, width, draft, diskVars, changed>>

(* A bug for the mutant runs: a mode that is missing counts as "unfixed",  *)
(* as it does wherever else the mode is read.                              *)
AcceptsByDefault == ModeOf(conf) = "unfixed"

(* The topic "layout_cfg": accepted only when the file that was read names *)
(* the mode and the mode is "unfixed".                                     *)
Accepts == conf.mode = "unfixed"

layout_cfg(q) ==
  /\ Serving
  /\ ws = "idle"
  /\ Accepts
  /\ rows' = q.rows
  /\ req' = q
  /\ ws' = "cols"
  /\ alone' = (boot = "up")
  /\ reply' = NoLayout
  /\ changed' = IF boot = "up" /\ changed # "starting" THEN "running"
                                                     ELSE "starting"
  /\ UNCHANGED <<tab, cols, bootVars, wi, width, draft, diskVars>>

SetCols ==
  /\ ws = "cols"
  /\ cols' = req.cols
  /\ ws' = "clear"
  /\ wi' = 0
  /\ UNCHANGED <<tab, rows, bootVars, req, width, draft, reply, diskVars, alone, changed>>

ClearTab ==
  /\ ws = "clear"
  /\ IF wi < MAX_LAYER_NUMS
     THEN tab' = [tab EXCEPT ![wi] = Empty] /\ wi' = wi + 1 /\ ws' = ws
     ELSE tab' = tab /\ wi' = 1 /\ ws' = "place"
  /\ UNCHANGED <<rows, cols, bootVars, req, width, draft, reply, diskVars,
                 alone, changed>>

(* A bug for the mutant runs: the row is multiplied by the number of rows. *)
IndexByRows ==
  /\ ws = "place"
  /\ IF wi <= Len(req.items)
     THEN width' = rows /\ wi' = wi /\ ws' = "store"
     ELSE width' = width /\ wi' = 0 /\ ws' = "put"
  /\ UNCHANGED <<tabVars, bootVars, req, draft, reply, diskVars, alone, changed>>

(* The index of an item is computed ...                                    *)
IndexItem ==
  /\ ws = "place"
  /\ IF wi <= Len(req.items)
     THEN width' = cols /\ wi' = wi /\ ws' = "store"
     ELSE width' = width /\ wi' = 0 /\ ws' = "put"
  /\ UNCHANGED <<tabVars, bootVars, req, draft, reply, diskVars, alone, changed>>

(* ... and its input stored there.                                         *)
PlaceItem ==
  /\ ws = "store"
  /\ LET it == req.items[wi]
     IN tab' = [tab EXCEPT ![it.row * width + it.col] = it.id]
  /\ wi' = wi + 1
  /\ width' = 0
  /\ ws' = "place"
  /\ UNCHANGED <<rows, cols, bootVars, req, draft, reply, diskVars, alone, changed>>

(* write_layout_conf starts a new layout with the current dimensions ...   *)
PutRows ==
  /\ ws = "put"
  /\ draft' = [NoLayout EXCEPT !.rows = rows]
  /\ ws' = "putcols"
  /\ UNCHANGED <<tabVars, bootVars, wi, req, width, reply, diskVars, alone, changed>>

PutCols ==
  /\ ws = "putcols"
  /\ draft' = [draft EXCEPT !.cols = cols]
  /\ ws' = "collect"
  /\ UNCHANGED <<tabVars, bootVars, wi, req, width, reply, diskVars, alone, changed>>

(* ... adds what is at each position: its row from one reading of the      *)
(* number of columns ...                                                   *)
TestItem ==
  /\ ws = "collect"
  /\ wi < MAX_LAYER_NUMS
  /\ IF tab[wi] = Empty
     THEN wi' = wi + 1 /\ UNCHANGED <<ws, width>>
     ELSE ws' = "item" /\ width' = cols /\ wi' = wi
  /\ UNCHANGED <<tabVars, bootVars, req, draft, reply, diskVars, alone, changed>>

Item(i, w, v) == [row |-> i \div w, col |-> i % v, id |-> tab[i]]

(* Two bugs for the mutant runs: positions are divided by the number of    *)
(* rows, and the new tree replaces the old one together with its mode.     *)
CollectByRows ==
  /\ ws = "item"
  /\ draft' = [draft EXCEPT !.items = Append(@, Item(wi, rows, rows))]
  /\ wi' = wi + 1
  /\ width' = 0
  /\ ws' = "collect"
  /\ UNCHANGED <<tabVars, bootVars, req, reply, diskVars, alone, changed>>

InstallDropsMode ==
  /\ ws = "collect"
  /\ wi = MAX_LAYER_NUMS
  /\ conf' = [NoConf EXCEPT !.layout = draft]
  /\ ws' = "open"
  /\ wi' = 0
  /\ draft' = NoLayout
  /\ UNCHANGED <<file, acked, saving, tabVars, bootVars, req, width, reply,
                 alone, changed>>

(* ... its column from a second one, before or after a change of it, and   *)
(* its input from a second reading of the table, last of all ...           *)
CollectItem ==
  /\ ws = "item"
  /\ \E v \in {width, cols} :
       draft' = [draft EXCEPT !.items = Append(@, Item(wi, width, v))]
  /\ wi' = wi + 1
  /\ width' = 0
  /\ ws' = "collect"
  /\ UNCHANGED <<tabVars, bootVars, req, reply, diskVars, alone, changed>>

(* ... and puts the new layout in the place of the old one ...             *)
Install ==
  /\ ws = "collect"
  /\ wi = MAX_LAYER_NUMS
  /\ conf' = [conf EXCEPT !.layout = draft]
  /\ ws' = "open"
  /\ wi' = 0
  /\ draft' = NoLayout
  /\ UNCHANGED <<file, acked, saving, tabVars, bootVars, req, width, reply,
                 alone, changed>>

(* ... and saves the tree: write_json opens the file, which empties it,    *)
(* and then writes.                                                        *)
OpenFile ==
  /\ ws = "open"
  /\ file' = Torn
  /\ saving' = TRUE
  /\ acked' = [acked EXCEPT !.layout = NoLayout]
  /\ ws' = "save"
  /\ UNCHANGED <<conf, tabVars, bootVars, wi, req, width, draft,
                 reply, alone, changed>>

WriteFile ==
  /\ ws = "save"
  /\ file' = conf
  /\ ws' = "dims"
  /\ UNCHANGED <<conf, acked, saving, tabVars, bootVars, wi, req, width, draft,
                 reply, alone, changed>>

(* send_layout_cfg: the dimensions and, in any mode but "unfixed", the     *)
(* table are replaced by fixed ones ...                                    *)
DimRows ==
  /\ ws = "dims"
  /\ IF ModeOf(conf) = "unfixed"
     THEN draft' = [NoLayout EXCEPT !.rows = rows] /\ ws' = "dimcols"
     ELSE /\ draft' = [rows |-> FixedRows, cols |-> FixedCols, items |-> <<>>]
          /\ ws' = "fill"
  /\ wi' = 0
  /\ UNCHANGED <<tabVars, bootVars, req, width, reply, diskVars, alone, changed>>

DimCols ==
  /\ ws = "dimcols"
  /\ draft' = [draft EXCEPT !.cols = cols]
  /\ ws' = "send"
  /\ UNCHANGED <<tabVars, bootVars, wi, req, width, reply, diskVars, alone, changed>>

FillFixed ==
  /\ ws = "fill"
  /\ IF wi < draft.rows * draft.cols
     THEN tab' = [tab EXCEPT ![wi] = wi] /\ wi' = wi + 1 /\ ws' = ws
     ELSE tab' = tab /\ wi' = 0 /\ ws' = "send"
  /\ UNCHANGED <<rows, cols, bootVars, req, width, draft, reply, diskVars,
                 alone, changed>>

(* ... what is at each position of the mosaic is added, and it is sent.    *)
(* The number of columns is its own copy, and no other thread empties a    *)
(* position between the two readings of it.                                *)
AddItem(i, w) ==
  draft' = IF tab[i] = Empty THEN draft
           ELSE [draft EXCEPT !.items = Append(@, Item(i, w, w))]

(* A bug for the mutant runs: the shared number of columns is used in the  *)
(* place of the copy.                                                      *)
SendShared ==
  /\ ws = "send"
  /\ IF wi < draft.rows * draft.cols
     THEN AddItem(wi, cols) /\ wi' = wi + 1 /\ UNCHANGED <<ws, reply, acked, saving>>
     ELSE /\ reply' = draft
          /\ IF req = NoLayout THEN UNCHANGED <<acked, saving>>
                              ELSE acked' = conf /\ saving' = FALSE
          /\ ws' = "idle"
          /\ wi' = 0
          /\ draft' = NoLayout
  /\ UNCHANGED <<file, conf, tabVars, bootVars, req, width, alone, changed>>

SendItem ==
  /\ ws = "send"
  /\ IF wi < draft.rows * draft.cols
     THEN AddItem(wi, draft.cols) /\ wi' = wi + 1 /\ UNCHANGED <<ws, reply, acked, saving>>
     ELSE /\ reply' = draft
          /\ IF req = NoLayout THEN UNCHANGED <<acked, saving>>
                              ELSE acked' = conf /\ saving' = FALSE
          /\ ws' = "idle"
          /\ wi' = 0
          /\ draft' = NoLayout
  /\ UNCHANGED <<file, conf, tabVars, bootVars, req, width, alone, changed>>

ws_on_cli_read_text ==
  \/ SetCols \/ ClearTab \/ IndexItem \/ PlaceItem
  \/ PutRows \/ PutCols \/ TestItem \/ CollectItem \/ Install
  \/ OpenFile \/ WriteFile
  \/ DimRows \/ DimCols \/ FillFixed \/ SendItem

-----------------------------------------------------------------------------
(* The process dies; only the file is left. *)
Crash ==
  /\ boot # "down"
  /\ boot' = "down"
  /\ bi' = 0
  /\ attr' = NoAttr
  /\ conf' = NoConf
  /\ tab' = [p \in Positions |-> 0]
  /\ rows' = Blks
  /\ cols' = Blks
  /\ ws' = "idle"
  /\ wi' = 0
  /\ req' = NoLayout
  /\ width' = 0
  /\ draft' = NoLayout
  /\ reply' = NoLayout
  /\ alone' = FALSE
  /\ changed' = "never"
  /\ UNCHANGED <<file, acked, saving>>

Next ==
  \/ NovaEncoderInit
  \/ send_layout_cfg_only
  \/ \E q \in Requests : layout_cfg(q)
  \/ ws_on_cli_read_text
  \/ Crash

Spec == Init /\ [][Next]_vars
-----------------------------------------------------------------------------
Layouts == Requests \cup {f.layout : f \in InitialFiles}
Ids == Positions \cup {it.id : it \in UNION {ToSet(q.items) : q \in Layouts}}

(* Types of the variables that index and fill the table. *)
TypeOK ==
  /\ tab \in [Positions -> Ids \cup {Empty}]
  /\ rows \in Nat /\ cols \in Nat \ {0}
  /\ attr \in [cols : Nat, rows : Nat, tab : [Shown -> Ids \cup {0, Empty}]]
  /\ boot \in {"down", "cols", "rows", "attrcols", "attrrows",
               "tab", "test", "attr", "up"}
  /\ bi \in 0..MAX_LAYER_NUMS
  /\ boot \in {"test", "attr"} => bi < MAX_LAYER_NUMS
  /\ ws \in {"idle", "cols", "clear", "place", "store", "put", "putcols",
             "collect", "item", "open", "save", "dims", "dimcols", "fill", "send"}
  /\ wi \in Nat /\ width \in Nat
  /\ alone \in BOOLEAN
  /\ changed \in {"never", "starting", "running"}

(* What a reply confirmed is in the file, through crashes and restarts,    *)
(* until another save begins, and a file that is not torn keeps the mode   *)
(* it was installed with.                                                  *)
FileHoldsAcked ==
  /\ ~saving => file = acked
  /\ file # Torn => file.mode = acked.mode

(* A save that was cut short is for good: the next start finds no mode in  *)
(* the file, so it refuses every layout (although it tells browsers that   *)
(* the mode is "unfixed"), never saves, and neither does any start after   *)
(* it.                                                                     *)
CutShort == file = Torn /\ ws # "save"
CutShortForGood == [][CutShort => CutShort' /\ changed' = "never"]_vars

(* An exchange that met no step of the player's thread is answered by the  *)
(* layout asked for: its dimensions, at each place of the mosaic the input *)
(* asked for there last, and no place that was asked for left out, after   *)
(* the conversions from (row, col) to index and back.  A column beyond the *)
(* last one is a place of a lower row.                                     *)
ReplyMatches ==
  ws = "idle" /\ alone /\ req # NoLayout =>
    LET w == req.cols
        table == Placed(req.items, w)
    IN /\ reply.rows = req.rows /\ reply.cols = w
       /\ \A it \in ToSet(reply.items) :
            /\ it.row < req.rows /\ it.col < w
            /\ it.id # Empty /\ it.id = table[it.row * w + it.col]
       /\ \A it \in ToSet(req.items) :
            it.row * w + it.col < req.rows * w =>
              \E shown \in ToSet(reply.items) :
                shown.row * w + shown.col = it.row * w + it.col

(* After such an exchange a restart would read back exactly the table in   *)
(* memory: read_layout_conf undoes write_layout_conf.                      *)
SavedReadsBack ==
  ws = "idle" /\ alone /\ req # NoLayout =>
    /\ file = conf
    /\ conf.layout.rows = rows /\ conf.layout.cols = cols
    /\ Placed(conf.layout.items, conf.layout.cols) = tab

(* Even an exchange that the start-up meets at any of its steps leaves at  *)
(* each place its default input, nothing, or an input asked for there, the *)
(* place counted with the columns asked for or with the default ones: no   *)
(* input strays to another place and none of the layout before remains.    *)
(* The answer shows no other either, whatever columns it was made with,    *)
(* nor do the attributes, but for those that were never set.               *)
Allowed(q, p) ==
  {p} \cup {it.id : it \in {i \in ToSet(q.items) :
                             \E w \in {q.cols, Blks} : i.row * w + i.col = p}}

NothingStrays ==
  /\ ws = "idle" /\ req # NoLayout =>
       /\ \A p \in Positions : tab[p] \in Allowed(req, p) \cup {Empty}
       /\ \A it \in ToSet(reply.items) :
            it.id \in Allowed(req, it.row * reply.cols + it.col)
  /\ \A p \in Shown :
       attr.tab[p] \in {0, p, Empty} \cup UNION {Allowed(q, p) : q \in Requests}

(* However the file was left, a start that no browser interferes with ends *)
(* with the default layout, never with the one that was saved.  And that   *)
(* is what the picture keeps: whatever is accepted, confirmed and saved    *)
(* once the program is up, vif has the attributes of the default layout.   *)
(* Only a request that meets the start-up itself can reach them, torn      *)
(* between its steps.                                                      *)
BootsToDefault ==
  boot = "up" =>
    /\ changed = "never" => tab = Identity /\ rows = Blks /\ cols = Blks
    /\ changed # "starting" => attr = DefaultAttr
=============================================================================
