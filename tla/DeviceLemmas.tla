---------------------------- MODULE DeviceLemmas ----------------------------
(***************************************************************************)
(* What the steps of the server's objects do, for every model, every       *)
(* number of associations and every workload.                              *)
(*                                                                         *)
(* The setting groups come first, from their own operations; then every    *)
(* step of the device is sorted by what it does to the connection table,   *)
(* and shown to keep the types, the reservations, the queue of block       *)
(* changes and to be one operation on the setting groups or none.          *)
(***************************************************************************)
EXTENDS Device, TLAPS

-----------------------------------------------------------------------------
(* Setting groups                                                          *)

\* What the operations keep by themselves; that the active group is served is
\* kept beside it, once a document has brought it about.
SgInv == SgTypeOK /\ EditViewIsGroup

\* A document serves the active group it declares: the group ActSG names starts
\* with the values served under SG.  Without a declared group the first is the
\* active one, and a value recorded for it alone does not reach the SG view.
LEMMA DeclaredIsServed ==
  ASSUME NEW d \in Document, materialise(d),
         d.act >= 1 \/ \A s \in Setting : d.rec[s][1] \in {NoVal, d.base[s]}
  PROVE  ActiveIsServed
<1>1. NumOfSG \in Nat /\ 1 \in 1 .. NumOfSG /\ d.act \in 0 .. NumOfSG
  BY SettingAssumption DEF Document
<1> DEFINE a == IF d.act >= 1 THEN d.act ELSE 1
<1>2. act_sg = a /\ a \in 1 .. NumOfSG
  BY <1>1 DEF materialise
<1> SUFFICES ASSUME NEW s \in Setting PROVE sg[s] = groups[s][act_sg]
  BY Zenon DEF ActiveIsServed
<1>3. groups[s][a] = IF d.rec[s][a] # NoVal THEN d.rec[s][a] ELSE apply_active_group(d, s)
  BY <1>1 DEF materialise, seed_groups
<1>4. sg[s] = apply_active_group(d, s)
  BY DEF materialise
<1> QED
  BY <1>1, <1>2, <1>3, <1>4 DEF apply_active_group

\* Any document gives the groups and their views values, and opens no edit.
LEMMA DocumentIsTyped ==
  ASSUME NEW d \in Document, materialise(d)
  PROVE  SgTypeOK /\ EditViewIsGroup
<1>1. NumOfSG \in Nat /\ 1 \in 1 .. NumOfSG /\ d.act \in 0 .. NumOfSG
  BY SettingAssumption DEF Document
<1>2. act_sg \in 1 .. NumOfSG /\ edit_sg = 0 /\ touched = {}
  BY <1>1 DEF materialise
<1>3. ASSUME NEW s \in Setting PROVE apply_active_group(d, s) \in SVal
  <2>1. d.base[s] \in SVal
    BY DEF Document
  <2>2. d.act >= 1 => d.rec[s][d.act] \in SVal \cup {NoVal}
    BY <1>1 DEF Document
  <2> QED
    BY <2>1, <2>2 DEF apply_active_group
<1>4. ASSUME NEW s \in Setting PROVE seed_groups(d, s) \in [1 .. NumOfSG -> SVal]
  <2>1. \A g \in 1 .. NumOfSG : d.rec[s][g] \in SVal \cup {NoVal}
    BY Zenon DEF Document
  <2>2. apply_active_group(d, s) \in SVal
    BY <1>3
  <2> QED
    BY <2>1, <2>2 DEF seed_groups
<1>5. groups \in [Setting -> [1 .. NumOfSG -> SVal]]
  BY <1>4 DEF materialise
<1>6. sg \in [Setting -> SVal]
  BY <1>3 DEF materialise
<1>7. se \in [Setting -> SVal]
  BY DEF materialise, Document
<1> QED
  BY <1>1, <1>2, <1>5, <1>6, <1>7 DEF SgTypeOK, EditViewIsGroup

\* Switching the active group.
LEMMA SelectActiveKeeps ==
  ASSUME SgInv, NEW g \in 1 .. NumOfSG, SelectActiveSG(g)
  PROVE  SgInv' /\ (ActiveIsServed => ActiveIsServed')
<1>1. SgTypeOK'
  BY Zenon DEF SgInv, SgTypeOK, SelectActiveSG
<1>2. ActiveIsServed => ActiveIsServed'
  BY DEF SelectActiveSG, ActiveIsServed
<1>3. EditViewIsGroup'
  BY DEF SelectActiveSG, EditViewIsGroup, SgInv
<1> QED
  BY <1>1, <1>2, <1>3 DEF SgInv

\* Selecting a group for editing, or none.
LEMMA SelectEditKeeps ==
  ASSUME SgInv, NEW g \in 0 .. NumOfSG, SelectEditSG(g)
  PROVE  SgInv' /\ (ActiveIsServed => ActiveIsServed')
<1>1. NumOfSG \in Nat
  BY SettingAssumption
<1>2. ASSUME NEW s \in Setting, g >= 1 PROVE groups[s][g] \in SVal
  BY <1>1, <1>2 DEF SgInv, SgTypeOK
<1>3. se' \in [Setting -> SVal]
  BY <1>2 DEF SelectEditSG, SgInv, SgTypeOK
<1>4. SgTypeOK'
  BY <1>3 DEF SgInv, SgTypeOK, SelectEditSG
<1>5. ActiveIsServed => ActiveIsServed'
  BY DEF SelectEditSG, ActiveIsServed, SgInv
<1>6. EditViewIsGroup'
  BY SettingAssumption DEF SelectEditSG, EditViewIsGroup
<1> QED
  BY <1>4, <1>5, <1>6 DEF SgInv

\* Confirming an edit.
LEMMA ConfirmKeeps ==
  ASSUME SgInv, edit_sg \in 1 .. NumOfSG, ConfirmEditSGValues
  PROVE  SgInv' /\ (ActiveIsServed => ActiveIsServed')
<1>1. /\ act_sg' = act_sg /\ se' = se /\ edit_sg' = 0 /\ touched' = {}
      /\ groups \in [Setting -> [1 .. NumOfSG -> SVal]] /\ act_sg \in 1 .. NumOfSG
      /\ sg \in [Setting -> SVal] /\ se \in [Setting -> SVal]
      /\ NumOfSG \in Nat
  BY SettingAssumption DEF ConfirmEditSGValues, SgInv, SgTypeOK
<1>2. ASSUME NEW s \in Setting
      PROVE  /\ groups'[s] \in [1 .. NumOfSG -> SVal]
             /\ groups'[s][act_sg] = IF s \in Editable /\ edit_sg = act_sg THEN se[s]
                                     ELSE groups[s][act_sg]
  BY <1>1 DEF ConfirmEditSGValues
<1>3. groups' \in [Setting -> [1 .. NumOfSG -> SVal]]
  <2>1. groups' = [s \in Setting |-> groups'[s]]
    BY DEF ConfirmEditSGValues
  <2> QED
    BY <1>2, <2>1
<1>4. sg' \in [Setting -> SVal]
  BY <1>1 DEF ConfirmEditSGValues
<1>5. SgTypeOK'
  BY <1>1, <1>3, <1>4 DEF SgTypeOK
<1>6. ActiveIsServed => ActiveIsServed'
  BY <1>1, <1>2 DEF ActiveIsServed, ConfirmEditSGValues, SgInv
<1>7. EditViewIsGroup'
  BY <1>1 DEF EditViewIsGroup
<1> QED
  BY <1>5, <1>6, <1>7 DEF SgInv

\* Writing the edit view.
LEMMA StoreKeeps ==
  ASSUME SgInv, NEW s \in Editable, NEW v \in SVal, StoreSE(s, v)
  PROVE  SgInv' /\ (ActiveIsServed => ActiveIsServed')
<1>1. SgTypeOK'
  BY SettingAssumption DEF SgInv, SgTypeOK, StoreSE
<1>2. ActiveIsServed => ActiveIsServed'
  BY DEF StoreSE, ActiveIsServed, SgInv
<1>3. EditViewIsGroup'
  BY SettingAssumption DEF StoreSE, EditViewIsGroup, SgInv, SgTypeOK
<1> QED
  BY <1>1, <1>2, <1>3 DEF SgInv

\* An admitted SGCB write is one of the three services, or changes nothing.
LEMMA SgcbWriteIsService ==
  ASSUME NEW attr, NEW v, sg_check_write(attr, v) = "ok", on_sgcb_write(attr, v),
         attr = "CnfEdit" => v \in BOOLEAN
  PROVE  \/ \E g \in 1 .. NumOfSG : SelectActiveSG(g)
         \/ \E g \in 0 .. NumOfSG : SelectEditSG(g)
         \/ edit_sg \in 1 .. NumOfSG /\ ConfirmEditSGValues
         \/ UNCHANGED sgVars
<1>1. CASE attr = "ActSG" /\ SelectActiveSG(v)
  <2>1. v \in 1 .. NumOfSG
    BY <1>1 DEF sg_check_write
  <2> QED
    BY <1>1, <2>1
<1>2. CASE attr = "EditSG" /\ SelectEditSG(v)
  <2>1. v \in 0 .. NumOfSG
    BY <1>2 DEF sg_check_write
  <2> QED
    BY <1>2, <2>1
<1>3. CASE attr = "CnfEdit" /\ v /\ ConfirmEditSGValues
  <2>1. edit_sg \in 1 .. NumOfSG
    BY <1>3 DEF sg_check_write
  <2> QED
    BY <1>3, <2>1
<1> QED
  BY <1>1, <1>2, <1>3 DEF on_sgcb_write

\* What a step of the setting groups may be.
SgStep ==
  \/ \E g \in 1 .. NumOfSG : SelectActiveSG(g)
  \/ \E g \in 0 .. NumOfSG : SelectEditSG(g)
  \/ edit_sg \in 1 .. NumOfSG /\ ConfirmEditSGValues
  \/ \E s \in Editable, v \in SVal : StoreSE(s, v)

\* Each of them keeps both views as they should be.
LEMMA SgStepKeeps ==
  ASSUME SgInv, [SgStep]_sgVars
  PROVE  SgInv' /\ (ActiveIsServed => ActiveIsServed')
<1>1. CASE UNCHANGED sgVars
  BY <1>1 DEF sgVars, SgInv, SgTypeOK, ActiveIsServed, EditViewIsGroup
<1> QED
  BY <1>1, SelectActiveKeeps, SelectEditKeeps, ConfirmKeeps, StoreKeeps DEF SgStep

\* Of these steps only a confirm changes a group, and only where the edit view
\* was written.
LEMMA SgStepStores ==
  ASSUME SgInv, [SgStep]_sgVars, NEW s \in Setting, NEW g \in 1 .. NumOfSG,
         groups'[s][g] # groups[s][g]
  PROVE  g = edit_sg /\ s \in touched /\ edit_sg' = 0
<1>1. edit_sg \in 1 .. NumOfSG /\ ConfirmEditSGValues
  BY DEF SgStep, sgVars, SelectActiveSG, SelectEditSG, StoreSE
<1>2. groups[s] \in [1 .. NumOfSG -> SVal]
  BY DEF SgInv, SgTypeOK
<1>3. groups'[s] = IF s \in Editable THEN [groups[s] EXCEPT ![edit_sg] = se[s]] ELSE groups[s]
  BY <1>1 DEF ConfirmEditSGValues
<1>4. s \in Editable /\ g = edit_sg /\ se[s] # groups[s][edit_sg]
  BY <1>1, <1>2, <1>3
<1>5. s \in touched
  BY <1>1, <1>4, SettingAssumption DEF SgInv, EditViewIsGroup
<1> QED
  BY <1>1, <1>4, <1>5 DEF ConfirmEditSGValues

-----------------------------------------------------------------------------
(* Types                                                                   *)

Pcs == {"none", "setup", "idle", "write", "queue", "lock", "flush", "cleanup", "slot", "done"}

\* Where an association is once it has left the connection table.
Ending == {"queue", "lock", "flush", "slot", "done"}

ConnRec == [pc : Pcs, todo : Seq(Asked), changes : [Member -> SUBSET Reasons],
            evs : Seq(SvEvent), ending : BOOLEAN]
SvRec == [owner : Conn \cup {NoConn}, Resv : BOOLEAN, SvEna : BOOLEAN]

ConnOK == conn \in [Conn -> ConnRec] /\ \A c \in Conn : conn[c].ending => conn[c].pc \in Ending

SvOK == svcb \in [SvBlk -> SvRec] /\ made \in [SvBlk -> Nat]

\* The blocks an association has reserved can be listed, whichever they are.
SvListed == \A bs \in SUBSET SvBlk : SetToSeq(bs) \in Seq(bs)

DevOK == dev \in Scenario /\ ConnOK /\ SvOK /\ SvListed

\* An event says what has become of a block.
LEMMA EventIsTyped ==
  ASSUME SvOK, NEW b \in SvBlk, NEW st, st.SvEna \in BOOLEAN, st.Resv \in BOOLEAN
  PROVE  event(b, st) \in SvEvent
<1>1. made[b] + 1 \in Nat
  BY DEF SvOK
<1>2. (b \in Unicast /\ st.Resv) \in BOOLEAN
  OBVIOUS
<1> QED
  BY <1>1, <1>2 DEF event, SvEvent

\* The events of the blocks an association that ends had reserved.
LEMMA ReleasedIsTyped ==
  ASSUME SvOK, SvListed, NEW c \in Conn
  PROVE  sv_released(c) \in Seq(SvEvent)
<1> DEFINE mine == {b \in SvBlk : svcb[b].owner = c}
           bs == SetToSeq(mine)
           st == [SvEna |-> FALSE, Resv |-> FALSE]
<1>1. mine \in SUBSET SvBlk
  OBVIOUS
<1>2. bs \in Seq(mine)
  BY <1>1 DEF SvListed
<1>3. \A i \in 1 .. Len(bs) : bs[i] \in SvBlk
  BY <1>2
<1>4. sv_released(c) = [i \in 1 .. Len(bs) |-> event(bs[i], st)]
  BY DEF sv_released
<1>5. st.SvEna \in BOOLEAN /\ st.Resv \in BOOLEAN
  OBVIOUS
<1> HIDE DEF bs, st
<1>6. \A x \in SvBlk : event(x, st) \in SvEvent
  BY <1>5, EventIsTyped
<1> QED
  BY <1>2, <1>3, <1>4, <1>6

\* What a request asks for is something the handler can decode.
LEMMA FirstIsDecoded ==
  ASSUME ConnOK, NEW c \in Conn, conn[c].todo # <<>>
  PROVE  /\ Head(conn[c].todo) \in Asked /\ Decoded(Head(conn[c].todo))
         /\ Tail(conn[c].todo) \in Seq(Asked)
<1>1. conn[c].todo \in Seq(Asked)
  BY DEF ConnOK, ConnRec
<1>2. Head(conn[c].todo) \in Asked /\ Tail(conn[c].todo) \in Seq(Asked)
  BY <1>1
<1> QED
  BY <1>2, DeviceAssumption

\* A written variable leaves its association writing.
LEMMA AnsweredKeeps ==
  ASSUME DevOK, NEW c \in Conn, conn[c].pc = "write", conn[c].todo # <<>>,
         NEW kind, NEW svc, NEW res, NEW evs \in Seq(SvEvent), Answered(c, kind, svc, res, evs)
  PROVE  /\ ConnOK'
         /\ \A d \in Conn : conn'[d].pc = conn[d].pc /\ conn'[d].ending = conn[d].ending
<1>1. conn[c] \in ConnRec /\ ~conn[c].ending
  BY DEF DevOK, ConnOK, Ending
<1> DEFINE tracked == kind \in Tracked /\ dev.tracks
           new == IF tracked THEN raised(conn[c].changes, kind) ELSE conn[c].changes
           rec == [conn[c] EXCEPT !.todo = Tail(@), !.evs = @ \o evs, !.changes = new]
<1>2. new \in [Member -> SUBSET Reasons]
  BY <1>1, DeviceAssumption DEF ConnRec, raised, Reasons
<1>3. Tail(conn[c].todo) \in Seq(Asked)
  BY FirstIsDecoded DEF DevOK
<1>4. conn[c].evs \o evs \in Seq(SvEvent)
  BY <1>1 DEF ConnRec
<1>5. conn' = [conn EXCEPT ![c] = rec]
  BY Zenon DEF Answered
<1> HIDE DEF new
<1>6. rec \in ConnRec /\ rec.pc = conn[c].pc /\ rec.ending = conn[c].ending
  BY <1>1, <1>2, <1>3, <1>4, Zenon DEF ConnRec
<1> HIDE DEF rec
<1> QED
  BY <1>1, <1>5, <1>6 DEF DevOK, ConnOK

\* An admitted write of a sampled-value control block, and its events.
LEMMA SvWriteKeeps ==
  ASSUME SvOK, NEW c \in Conn, NEW b \in SvBlk, NEW attr, NEW v,
         attr \in {"SvEna", "Resv"} => v \in BOOLEAN,
         sv_check_write(c, b, attr) = "ok", sv_on_write(c, b, attr, v)
  PROVE  /\ SvOK' /\ sv_events(c, b, attr, v) \in Seq(SvEvent)
         /\ \A x \in SvBlk : svcb'[x].owner \in {svcb[x].owner, c, NoConn}
<1>1. attr \in {"SvEna", "Resv"} /\ v \in BOOLEAN
  BY DEF sv_check_write
<1> DEFINE rec == sv_after(c, b, attr, v)
<1>2. svcb[b] \in SvRec
  BY DEF SvOK
<1>3. rec \in SvRec /\ rec.owner \in {svcb[b].owner, c, NoConn}
  BY <1>1, <1>2, Zenon DEF sv_after, SvRec
<1>4. rec.SvEna \in BOOLEAN /\ rec.Resv \in BOOLEAN
  BY <1>3 DEF SvRec
<1> HIDE DEF rec
<1>5. event(b, rec) \in SvEvent
  BY <1>4, EventIsTyped
<1>6. sv_events(c, b, attr, v) \in Seq(SvEvent)
  <2>1. sv_events(c, b, attr, v) = <<>> \/ sv_events(c, b, attr, v) = <<event(b, rec)>>
    BY Zenon DEF sv_events, rec
  <2>2. <<>> \in Seq(SvEvent) /\ <<event(b, rec)>> \in Seq(SvEvent)
    BY <1>5
  <2> QED
    BY <2>1, <2>2, Zenon
<1>7. svcb' = [svcb EXCEPT ![b] = rec]
  BY DEF sv_on_write, rec
<1>8. made' \in [SvBlk -> Nat]
  BY DEF SvOK, sv_on_write
<1> QED
  BY <1>3, <1>6, <1>7, <1>8, Zenon DEF SvOK

\* The writes of a request, one variable at a time: what they do to the table
\* and to the sampled-value control blocks.
LEMMA WriteKeeps ==
  ASSUME DevOK, NEW c \in Conn,
         WriteSgcb(c) \/ WriteSE(c) \/ WriteLcb(c) \/ WriteSvcb(c) \/ WriteRcb(c)
  PROVE  /\ DevOK'
         /\ conn[c].pc = "write" /\ open' = open /\ sv_queue' = sv_queue
         /\ \A d \in Conn : conn'[d].pc = conn[d].pc /\ conn'[d].ending = conn[d].ending
         /\ \A x \in SvBlk : svcb'[x].owner \in {svcb[x].owner, c, NoConn}
<1> DEFINE Same == \A d \in Conn : conn'[d].pc = conn[d].pc /\ conn'[d].ending = conn[d].ending
           w == Head(conn[c].todo)
<1>1. conn[c].pc = "write" /\ conn[c].todo # <<>>
  BY Zenon DEF WriteSgcb, WriteSE, WriteLcb, WriteSvcb, WriteRcb, Writing1
<1>2. ASSUME NEW kind, NEW svc, NEW res, Answered(c, kind, svc, res, <<>>)
      PROVE  ConnOK' /\ Same /\ dev' = dev /\ open' = open
  <2>1. <<>> \in Seq(SvEvent)
    OBVIOUS
  <2>2. ConnOK' /\ Same
    BY <1>1, <1>2, <2>1, AnsweredKeeps, Zenon
  <2> QED
    BY <1>2, <2>2, Zenon DEF Answered
<1>3. ASSUME UNCHANGED svVars PROVE SvOK' /\ svcb' = svcb /\ sv_queue' = sv_queue
  BY <1>3 DEF DevOK, SvOK, svVars
<1>4. CASE WriteSgcb(c)
  <2>1. \E res : Answered(c, sgcb_kind(w.attr), w.attr, res, <<>>)
    BY <1>4, Zenon DEF WriteSgcb
  <2>2. UNCHANGED svVars
    BY <1>4, Zenon DEF WriteSgcb
  <2> QED
    BY <1>1, <1>2, <1>3, <2>1, <2>2 DEF DevOK
<1>5. CASE WriteSE(c)
  <2>1. \E res : Answered(c, "none", w.attr, res, <<>>)
    BY <1>5, Zenon DEF WriteSE
  <2>2. UNCHANGED svVars
    BY <1>5, Zenon DEF WriteSE
  <2> QED
    BY <1>1, <1>2, <1>3, <2>1, <2>2 DEF DevOK
<1>6. CASE WriteLcb(c)
  <2>1. \E res : Answered(c, "LocbTrk", w.attr, res, <<>>)
    BY <1>6, Zenon DEF WriteLcb
  <2>2. UNCHANGED svVars
    BY <1>6, Zenon DEF WriteLcb
  <2> QED
    BY <1>1, <1>2, <1>3, <2>1, <2>2 DEF DevOK
<1>7. CASE WriteRcb(c)
  <2>1. \E res : Answered(c, "UrcbTrk", w.attr, res, <<>>)
    BY <1>7, Zenon DEF WriteRcb
  <2>2. UNCHANGED svVars
    BY <1>7, Zenon DEF WriteRcb
  <2> QED
    BY <1>1, <1>2, <1>3, <2>1, <2>2 DEF DevOK
<1>8. CASE WriteSvcb(c)
  <2>1. PICK res \in hooked(sv_check_write(c, w.blk, w.attr)) :
          IF res = "ok"
          THEN /\ sv_on_write(c, w.blk, w.attr, w.val)
               /\ Answered(c, "SvcbTrk", w.attr, res, sv_events(c, w.blk, w.attr, w.val))
          ELSE UNCHANGED <<svcb, made>> /\ Answered(c, "SvcbTrk", w.attr, res, <<>>)
    BY <1>8, Zenon DEF WriteSvcb
  <2>2. sv_queue' = sv_queue /\ w.kind = "svcb"
    BY <1>8, Zenon DEF WriteSvcb, Writing1
  <2>3. CASE res = "ok"
    <3>1. /\ sv_on_write(c, w.blk, w.attr, w.val)
          /\ Answered(c, "SvcbTrk", w.attr, res, sv_events(c, w.blk, w.attr, w.val))
      BY <2>1, <2>3, Zenon
    <3>2. sv_check_write(c, w.blk, w.attr) = "ok"
      BY <2>3 DEF hooked
    <3>3. w.blk \in SvBlk /\ (w.attr \in {"SvEna", "Resv"} => w.val \in BOOLEAN)
      BY <1>1, <2>2, FirstIsDecoded, Zenon DEF DevOK, Decoded
    <3>4. /\ SvOK' /\ sv_events(c, w.blk, w.attr, w.val) \in Seq(SvEvent)
          /\ \A x \in SvBlk : svcb'[x].owner \in {svcb[x].owner, c, NoConn}
      BY <3>1, <3>2, <3>3, SvWriteKeeps, Zenon DEF DevOK
    <3>5. ConnOK' /\ Same
      BY <1>1, <3>1, <3>4, AnsweredKeeps, Zenon
    <3> QED
      BY <1>1, <2>2, <3>1, <3>4, <3>5, Zenon DEF DevOK, Answered
  <2>4. CASE res # "ok"
    <3>1. UNCHANGED <<svcb, made>> /\ Answered(c, "SvcbTrk", w.attr, res, <<>>)
      BY <2>1, <2>4
    <3>2. SvOK' /\ svcb' = svcb
      BY <3>1 DEF DevOK, SvOK
    <3>3. ConnOK' /\ Same /\ dev' = dev /\ open' = open
      BY <1>2, <3>1, Zenon
    <3> QED
      BY <1>1, <2>2, <3>2, <3>3 DEF DevOK
  <2> QED
    BY <2>3, <2>4
<1> QED
  BY <1>4, <1>5, <1>6, <1>7, <1>8

\* An association moves on and the others stay where they are.
Moved(c, pc, ending) ==
  /\ conn'[c].pc = pc /\ conn'[c].ending = ending
  /\ \A d \in Conn : d # c => conn'[d].pc = conn[d].pc /\ conn'[d].ending = conn[d].ending

\* Writing one association's record moves that association alone.
LEMMA RecordMoves ==
  ASSUME ConnOK, NEW c \in Conn, NEW r \in ConnRec, conn' = [conn EXCEPT ![c] = r],
         r.ending => r.pc \in Ending
  PROVE  ConnOK' /\ Moved(c, r.pc, r.ending)
BY DEF ConnOK, Moved

\* So does a step that only changes where it is.
LEMMA PcMoves ==
  ASSUME ConnOK, NEW c \in Conn, NEW x \in Pcs, conn' = [conn EXCEPT ![c].pc = x],
         conn[c].ending => x \in Ending
  PROVE  ConnOK' /\ Moved(c, x, conn[c].ending)
<1> DEFINE r == [conn[c] EXCEPT !.pc = x]
<1>1. conn[c] \in ConnRec
  BY DEF ConnOK
<1>2. r \in ConnRec /\ r.pc = x /\ r.ending = conn[c].ending
  BY <1>1 DEF ConnRec
<1>3. conn' = [conn EXCEPT ![c] = r]
  OBVIOUS
<1> HIDE DEF r
<1> QED
  BY <1>2, <1>3, RecordMoves, Zenon

\* The life of an association, but for what it writes: where each step takes
\* it and what becomes of its slot.
LEMMA LifeMoves ==
  ASSUME ConnOK, NEW c \in Conn
  PROVE  /\ TakeSlot(c) =>
              /\ conn[c].pc = "none" /\ ConnOK'
              /\ \/ Moved(c, "done", conn[c].ending) /\ open' = open
                 \/ Moved(c, "setup", conn[c].ending) /\ open' = open + 1 /\ take_slot
         /\ Accept(c) =>
              /\ conn[c].pc = "setup" /\ ConnOK'
              /\ \/ Moved(c, "idle", conn[c].ending) /\ open' = open
                 \/ Moved(c, "done", conn[c].ending) /\ open' = release_slot
         /\ EndServe(c) => conn[c].pc = "idle" /\ ConnOK' /\ Moved(c, "cleanup", conn[c].ending)
         /\ ReleaseSlot(c) => conn[c].pc = "slot" /\ ConnOK' /\ Moved(c, "done", conn[c].ending)
         /\ FlushLock(c) => conn[c].pc = "lock" /\ ConnOK' /\ Moved(c, "flush", conn[c].ending)
         /\ FlushDone(c) =>
              /\ conn[c].pc = "flush" /\ ConnOK'
              /\ Moved(c, IF conn[c].ending THEN "slot" ELSE "idle", conn[c].ending)
<1>1. {"none", "setup", "idle", "cleanup", "done", "flush", "slot"} \subseteq Pcs /\ conn[c].ending \in BOOLEAN
  BY DEF Pcs, ConnOK, ConnRec
<1>2. conn[c].pc \in {"none", "setup", "idle"} => ~conn[c].ending
  BY DEF ConnOK, Ending
<1>3. {"done", "flush", "slot"} \subseteq Ending
  BY DEF Ending
<1>4. ASSUME TakeSlot(c)
      PROVE  /\ conn[c].pc = "none" /\ ConnOK'
             /\ \/ Moved(c, "done", conn[c].ending) /\ open' = open
                \/ Moved(c, "setup", conn[c].ending) /\ open' = open + 1 /\ take_slot
  BY <1>1, <1>2, <1>4, PcMoves DEF TakeSlot
<1>5. ASSUME Accept(c)
      PROVE  /\ conn[c].pc = "setup" /\ ConnOK'
             /\ \/ Moved(c, "idle", conn[c].ending) /\ open' = open
                \/ Moved(c, "done", conn[c].ending) /\ open' = release_slot
  BY <1>1, <1>2, <1>5, PcMoves DEF Accept
<1>6. ASSUME EndServe(c)
      PROVE  conn[c].pc = "idle" /\ ConnOK' /\ Moved(c, "cleanup", conn[c].ending)
  BY <1>1, <1>2, <1>6, PcMoves, Zenon DEF EndServe
<1>7. ASSUME ReleaseSlot(c)
      PROVE  conn[c].pc = "slot" /\ ConnOK' /\ Moved(c, "done", conn[c].ending)
  BY <1>1, <1>3, <1>7, PcMoves, Zenon DEF ReleaseSlot
<1>8. ASSUME FlushLock(c)
      PROVE  conn[c].pc = "lock" /\ ConnOK' /\ Moved(c, "flush", conn[c].ending)
  BY <1>1, <1>3, <1>8, PcMoves, Zenon DEF FlushLock
<1>9. ASSUME FlushDone(c)
      PROVE  /\ conn[c].pc = "flush" /\ ConnOK'
             /\ Moved(c, IF conn[c].ending THEN "slot" ELSE "idle", conn[c].ending)
  BY <1>1, <1>3, <1>9, PcMoves, Zenon DEF FlushDone
<1> QED
  BY <1>4, <1>5, <1>6, <1>7, <1>8, <1>9

\* The steps that take up a request, end it or end the association.
LEMMA RequestMoves ==
  ASSUME DevOK, NEW c \in Conn
  PROVE  /\ Receive(c) => conn[c].pc = "idle" /\ ConnOK' /\ Moved(c, "write", conn[c].ending)
         /\ ReportChanges(c) => conn[c].pc = "write" /\ ConnOK' /\ Moved(c, "queue", conn[c].ending)
         /\ QueueSv(c) => conn[c].pc = "queue" /\ ConnOK' /\ Moved(c, "lock", conn[c].ending)
         /\ Cleanup(c) => conn[c].pc = "cleanup" /\ ConnOK' /\ Moved(c, "queue", TRUE)
<1>1. ConnOK /\ conn[c] \in ConnRec /\ SvOK
  BY DEF DevOK, ConnOK
<1>2. {"write", "queue", "lock"} \subseteq Pcs /\ {"queue", "lock"} \subseteq Ending
  BY DEF Pcs, Ending
<1>3. ASSUME Receive(c)
      PROVE  conn[c].pc = "idle" /\ ConnOK' /\ Moved(c, "write", conn[c].ending)
  <2>1. conn[c].pc = "idle" /\ ~conn[c].ending
    BY <1>1, <1>3 DEF Receive, ConnOK, Ending
  <2>2. PICK q \in dev.requests : conn' = [conn EXCEPT ![c].pc = "write", ![c].todo = q]
    BY <1>3, Zenon DEF Receive
  <2>3. q \in Seq(Asked)
    BY DEF DevOK, Scenario
  <2> DEFINE r == [conn[c] EXCEPT !.pc = "write", !.todo = q]
  <2>4. r \in ConnRec /\ r.pc = "write" /\ r.ending = conn[c].ending
    BY <1>1, <1>2, <2>3, Zenon DEF ConnRec
  <2>5. conn' = [conn EXCEPT ![c] = r]
    BY <1>1, <2>2, Zenon DEF ConnOK, ConnRec
  <2> HIDE DEF r
  <2> QED
    BY <1>1, <2>1, <2>4, <2>5, RecordMoves, Zenon
<1>4. ASSUME ReportChanges(c)
      PROVE  conn[c].pc = "write" /\ ConnOK' /\ Moved(c, "queue", conn[c].ending)
  <2> DEFINE r == [conn[c] EXCEPT !.pc = "queue", !.changes = NoChanges]
  <2>1. NoChanges \in [Member -> SUBSET Reasons]
    BY DEF NoChanges
  <2>2. r \in ConnRec /\ r.pc = "queue" /\ r.ending = conn[c].ending
    BY <1>1, <1>2, <2>1, Zenon DEF ConnRec
  <2>3. conn' = [conn EXCEPT ![c] = r] /\ conn[c].pc = "write"
    BY <1>1, <1>4, Zenon DEF ConnOK, ConnRec, ReportChanges
  <2> HIDE DEF r
  <2> QED
    BY <1>1, <1>2, <2>2, <2>3, RecordMoves, Zenon
<1>5. ASSUME QueueSv(c)
      PROVE  conn[c].pc = "queue" /\ ConnOK' /\ Moved(c, "lock", conn[c].ending)
  <2> DEFINE evs == <<>>
             r == [conn[c] EXCEPT !.pc = "lock", !.evs = evs]
  <2>0. evs \in Seq(SvEvent)
    OBVIOUS
  <2>1. r \in ConnRec /\ r.pc = "lock" /\ r.ending = conn[c].ending
    <3> HIDE DEF evs
    <3> QED
      BY <1>1, <1>2, <2>0, Zenon DEF ConnRec
  <2>2. conn' = [conn EXCEPT ![c] = r] /\ conn[c].pc = "queue"
    BY <1>1, <1>5, Zenon DEF ConnOK, ConnRec, QueueSv
  <2> HIDE DEF r
  <2> QED
    BY <1>1, <1>2, <2>1, <2>2, RecordMoves, Zenon
<1>6. ASSUME Cleanup(c)
      PROVE  conn[c].pc = "cleanup" /\ ConnOK' /\ Moved(c, "queue", TRUE)
  <2> DEFINE evs == sv_released(c)
             r == [conn[c] EXCEPT !.pc = "queue", !.ending = TRUE, !.evs = evs]
  <2>1. evs \in Seq(SvEvent)
    BY <1>1, ReleasedIsTyped DEF DevOK
  <2>2. conn' = [conn EXCEPT ![c].pc = "queue", ![c].ending = TRUE, ![c].evs = evs]
        /\ conn[c].pc = "cleanup"
    BY <1>6 DEF Cleanup
  <2> HIDE DEF evs
  <2>3. r \in ConnRec /\ r.pc = "queue" /\ r.ending = TRUE
    BY <1>1, <1>2, <2>1, Zenon DEF ConnRec
  <2>4. conn' = [conn EXCEPT ![c] = r]
    BY <1>1, <2>2, Zenon DEF ConnOK, ConnRec
  <2> HIDE DEF r
  <2> QED
    BY <1>1, <1>2, <2>2, <2>3, <2>4, RecordMoves, Zenon
<1> QED
  BY <1>3, <1>4, <1>5, <1>6, Zenon

\* The steps of the device, by what they do to the connection table.
WriteStep(c) == WriteSgcb(c) \/ WriteSE(c) \/ WriteLcb(c) \/ WriteSvcb(c) \/ WriteRcb(c)
LifeStep(c) ==
  TakeSlot(c) \/ Accept(c) \/ EndServe(c) \/ ReleaseSlot(c) \/ FlushLock(c) \/ FlushDone(c)
RequestStep(c) == Receive(c) \/ ReportChanges(c) \/ QueueSv(c) \/ Cleanup(c)
OtherStep ==
  \/ \E c \in Conn : DefineDataSet(c) \/ DeleteDataSets(c) \/ InitializeJournal(c) \/ FlushBatch(c)
  \/ Update \/ ReadJournal \/ IntegrityTask \/ Tick \/ CloseServer \/ UNCHANGED objVars

\* Every step of the device is of one of these kinds.
LEMMA StepsOfNext ==
  ASSUME [Next]_vars
  PROVE  (\E c \in Conn : WriteStep(c) \/ LifeStep(c) \/ RequestStep(c)) \/ OtherStep
<1>1. CASE UNCHANGED vars
  BY <1>1 DEF vars, OtherStep
<1>2. CASE ObjectNext
  BY <1>2, Zenon DEF ObjectNext, Progress, WriteStep, LifeStep, RequestStep, OtherStep
<1>3. CASE UNCHANGED objVars
  BY <1>3 DEF OtherStep
<1> QED
  BY <1>1, <1>2, <1>3 DEF Next

\* The last kind leaves the associations, their slots and their blocks alone.
LEMMA OthersKeep ==
  ASSUME OtherStep
  PROVE  /\ conn' = conn /\ open' = open /\ svcb' = svcb /\ made' = made
         /\ dev' = dev \/ dev' = [dev EXCEPT !.closes = FALSE]
         /\ sv_queue' = sv_queue \/ sv_queue' = <<>>
         /\ rcb' = rcb \/ rcb' = [rcb EXCEPT !.ena = FALSE]
<1> USE DEF svVars, devVars
<1>1. CASE \E c \in Conn : DefineDataSet(c) \/ DeleteDataSets(c) \/ InitializeJournal(c)
  BY <1>1 DEF DefineDataSet, DeleteDataSets, InitializeJournal
<1>2. CASE \E c \in Conn : FlushBatch(c)
  BY <1>2 DEF FlushBatch, flush_batch
<1>3. CASE Update \/ ReadJournal \/ IntegrityTask \/ Tick
  BY <1>3 DEF Update, ReadJournal, IntegrityTask, Tick
<1>4. CASE CloseServer
  BY <1>4 DEF CloseServer
<1>5. CASE UNCHANGED objVars
  BY <1>5 DEF objVars
<1> QED
  BY <1>1, <1>2, <1>3, <1>4, <1>5 DEF OtherStep

\* Types are kept, and the configured limit of connections.
LEMMA DevStep ==
  ASSUME DevOK, [Next]_vars
  PROVE  DevOK' /\ dev'.max_conns = dev.max_conns
<1>1. ASSUME NEW c \in Conn, WriteStep(c)
      PROVE  DevOK' /\ dev' = dev
  <2>1. DevOK'
    BY <1>1, WriteKeeps DEF WriteStep
  <2>2. dev' = dev
    BY <1>1, Zenon DEF WriteStep, WriteSgcb, WriteSE, WriteLcb, WriteSvcb, WriteRcb, Answered
  <2> QED
    BY <2>1, <2>2
<1>2. ASSUME NEW c \in Conn, LifeStep(c)
      PROVE  DevOK' /\ dev' = dev
  <2>1. ConnOK'
    BY <1>2, LifeMoves DEF LifeStep, DevOK
  <2>2. dev' = dev /\ svcb' = svcb /\ made' = made
    BY <1>2 DEF LifeStep, TakeSlot, Accept, EndServe, ReleaseSlot, FlushLock, FlushDone, svVars
  <2> QED
    BY <2>1, <2>2 DEF DevOK, SvOK
<1>3. ASSUME NEW c \in Conn, RequestStep(c)
      PROVE  DevOK' /\ dev' = dev
  <2>1. ConnOK'
    BY <1>3, RequestMoves, Zenon DEF RequestStep
  <2>2. dev' = dev
    BY <1>3 DEF RequestStep, Receive, ReportChanges, QueueSv, Cleanup
  <2>3. SvOK'
    <3>1. CASE Cleanup(c)
      BY <3>1 DEF Cleanup, sv_release, DevOK, SvOK, SvRec
    <3>2. CASE Receive(c) \/ ReportChanges(c) \/ QueueSv(c)
      BY <3>2 DEF Receive, ReportChanges, QueueSv, svVars, DevOK, SvOK
    <3> QED
      BY <1>3, <3>1, <3>2 DEF RequestStep
  <2> QED
    BY <2>1, <2>2, <2>3 DEF DevOK
<1>4. ASSUME OtherStep
      PROVE  DevOK' /\ dev'.max_conns = dev.max_conns
  <2>1. ConnOK' /\ SvOK'
    BY <1>4, OthersKeep DEF DevOK, ConnOK, SvOK
  <2>2. dev' = dev \/ dev' = [dev EXCEPT !.closes = FALSE]
    BY <1>4, OthersKeep
  <2>3. dev' \in Scenario /\ dev'.max_conns = dev.max_conns
    BY <2>2, Zenon DEF DevOK, Scenario
  <2> QED
    BY <2>1, <2>3 DEF DevOK
<1> QED
  BY <1>1, <1>2, <1>3, <1>4, StepsOfNext

\* The connections that hold a slot.
Up == {c \in Conn : conn[c].pc \notin {"none", "done"}}
SlotInv == IsFiniteSet(Up) /\ SlotsCounted

-----------------------------------------------------------------------------
(* Data sets and report control blocks                                     *)

RcbRec == [ena : BOOLEAN, datSet : DsName \cup {NoDs}, owner : Conn \cup {NoConn}]
ObjOK == DevOK /\ DsTypeOK /\ rcb \in RcbRec

\* Only the two data set services change what data sets there are.
LEMMA DataSetSteps ==
  ASSUME [Next]_vars
  PROVE  dsets' = dsets \/ \E c \in Conn : DefineDataSet(c) \/ DeleteDataSets(c)
<1>1. ASSUME NEW c \in Conn, WriteStep(c) PROVE dsets' = dsets
  BY <1>1, Zenon DEF WriteStep, WriteSgcb, WriteSE, WriteLcb, WriteSvcb, WriteRcb
<1>2. ASSUME NEW c \in Conn, LifeStep(c) PROVE dsets' = dsets
  BY <1>2 DEF LifeStep, TakeSlot, Accept, EndServe, ReleaseSlot, FlushLock, FlushDone
<1>3. ASSUME NEW c \in Conn, RequestStep(c) PROVE dsets' = dsets
  BY <1>3 DEF RequestStep, Receive, ReportChanges, QueueSv, Cleanup
<1>4. ASSUME NEW c \in Conn, InitializeJournal(c) PROVE dsets' = dsets
  BY <1>4, Zenon DEF InitializeJournal, initialize_journal
<1>5. ASSUME Update \/ Tick \/ CloseServer \/ UNCHANGED objVars PROVE dsets' = dsets
  BY <1>5 DEF Update, Tick, ClockTick, CloseServer, objVars
<1>6. ASSUME ReadJournal PROVE dsets' = dsets
  BY <1>6, Zenon DEF ReadJournal, ReadPage, BeginRead
<1>7. ASSUME IntegrityTask PROVE dsets' = dsets
  BY <1>7 DEF IntegrityTask, IntegrityDue, IntegrityLog
<1>8. ASSUME NEW c \in Conn, FlushBatch(c) PROVE dsets' = dsets
  BY <1>8 DEF FlushBatch
<1> QED
  BY <1>1, <1>2, <1>3, <1>4, <1>5, <1>6, <1>7, <1>8, StepsOfNext DEF OtherStep

\* A write of the report control block: who has it then and what it names.
LEMMA RcbWriteKeeps ==
  ASSUME ObjOK, NEW c \in Conn, WriteRcb(c)
  PROVE  /\ rcb' \in RcbRec
         /\ rcb'.owner \in {rcb.owner, c}
         /\ rcb'.datSet \in {rcb.datSet, NoDs} \cup dsets
<1> DEFINE w == Head(conn[c].todo)
<1>1. PICK res \in hooked(rcb_check(c, w.attr, w.val)) :
        rcb' = IF res # "ok" THEN rcb
               ELSE IF w.attr = "RptEna" THEN [rcb EXCEPT !.ena = w.val, !.owner = c]
               ELSE [rcb EXCEPT !.datSet = w.val, !.owner = c]
  BY Zenon DEF WriteRcb
<1>2. conn[c].todo # <<>> /\ w.kind = "rcb"
  BY Zenon DEF WriteRcb, Writing1
<1>3. w.attr = "RptEna" => w.val \in BOOLEAN
  BY <1>2, FirstIsDecoded, Zenon DEF ObjOK, DevOK, Decoded
<1>4. rcb \in RcbRec /\ dsets \subseteq DsName
  BY DEF ObjOK, DsTypeOK
<1>5. CASE res # "ok"
  BY <1>1, <1>4, <1>5
<1>6. CASE res = "ok"
  <2>1. rcb_check(c, w.attr, w.val) = "ok"
    BY <1>6 DEF hooked
  <2>2. w.attr # "RptEna" => w.val \in dsets \cup {NoDs}
    BY <2>1 DEF rcb_check, resolves
  <2> HIDE DEF w
  <2> QED
    BY <1>1, <1>3, <1>4, <1>6, <2>2, Zenon DEF RcbRec
<1> QED
  BY <1>5, <1>6

\* What a step does to the report control block.
LEMMA RcbSteps ==
  ASSUME ObjOK, [Next]_vars
  PROVE  \/ rcb' = rcb \/ rcb' = [rcb EXCEPT !.ena = FALSE]
         \/ \E c \in Conn : WriteRcb(c)
         \/ \E c \in Conn : Cleanup(c) /\ rcb.owner = c /\ rcb' = [rcb EXCEPT !.ena = FALSE, !.owner = NoConn]
<1>1. ASSUME NEW c \in Conn, WriteStep(c) PROVE rcb' = rcb \/ WriteRcb(c)
  BY <1>1, Zenon DEF WriteStep, WriteSgcb, WriteSE, WriteLcb, WriteSvcb
<1>2. ASSUME NEW c \in Conn, LifeStep(c) PROVE rcb' = rcb
  BY <1>2 DEF LifeStep, TakeSlot, Accept, EndServe, ReleaseSlot, FlushLock, FlushDone
<1>3. ASSUME NEW c \in Conn, RequestStep(c)
      PROVE  rcb' = rcb \/ (Cleanup(c) /\ rcb.owner = c /\ rcb' = [rcb EXCEPT !.ena = FALSE, !.owner = NoConn])
  BY <1>3 DEF RequestStep, Receive, ReportChanges, QueueSv, Cleanup
<1> QED
  BY <1>1, <1>2, <1>3, OthersKeep, StepsOfNext

\* Types are kept, those of the data sets and the report control block too.
LEMMA ObjStep ==
  ASSUME ObjOK, [Next]_vars
  PROVE  ObjOK'
<1>1. DevOK'
  BY DevStep DEF ObjOK
<1>2. DsTypeOK'
  <2>1. ASSUME NEW c \in Conn, DefineDataSet(c) PROVE DsTypeOK'
    BY <2>1 DEF DefineDataSet, define_nvl, ObjOK, DevOK, Scenario, DsTypeOK
  <2>2. ASSUME NEW c \in Conn, DeleteDataSets(c) PROVE DsTypeOK'
    BY <2>2 DEF DeleteDataSets, delete_nvl, ObjOK, DsTypeOK
  <2> QED
    BY <2>1, <2>2, DataSetSteps DEF ObjOK, DsTypeOK
<1>3. rcb' \in RcbRec
  BY RcbSteps, RcbWriteKeeps, Zenon DEF ObjOK, RcbRec
<1> QED
  BY <1>1, <1>2, <1>3 DEF ObjOK

-----------------------------------------------------------------------------
(* What an association leaves behind                                       *)

\* Only a writer reserves a block, and an association frees its blocks in the
\* step that takes it out of the table.
LEMMA ReservedStep ==
  ASSUME ObjOK, ReservedByOpen, [Next]_vars
  PROVE  ReservedByOpen'
<1>1. DevOK /\ ConnOK /\ rcb \in RcbRec
  BY DEF ObjOK, DevOK
<1>2. \A b \in SvBlk : svcb[b].owner # NoConn => svcb[b].owner \in conns
  BY DEF ReservedByOpen
<1>3. rcb.owner # NoConn => rcb.owner \in conns
  BY DEF ReservedByOpen
<1>4. ASSUME conns \subseteq conns', svcb' = svcb, rcb'.owner = rcb.owner PROVE ReservedByOpen'
  BY <1>2, <1>3, <1>4 DEF ReservedByOpen
<1>5. ASSUME NEW c \in Conn, WriteStep(c) PROVE ReservedByOpen'
  <2>1. /\ conn[c].pc = "write"
        /\ \A d \in Conn : conn'[d].pc = conn[d].pc /\ conn'[d].ending = conn[d].ending
        /\ \A x \in SvBlk : svcb'[x].owner \in {svcb[x].owner, c, NoConn}
    BY <1>1, <1>5, WriteKeeps DEF WriteStep
  <2>2. c \in conns /\ conns' = conns
    BY <1>1, <2>1 DEF conns, ConnOK, Ending
  <2>3. rcb'.owner \in {rcb.owner, c}
    BY <1>5, RcbWriteKeeps, Zenon DEF WriteStep, WriteSgcb, WriteSE, WriteLcb, WriteSvcb
  <2> QED
    BY <1>2, <1>3, <2>1, <2>2, <2>3 DEF ReservedByOpen
<1>6. ASSUME NEW c \in Conn, LifeStep(c) PROVE ReservedByOpen'
  <2>1. svcb' = svcb /\ rcb' = rcb
    BY <1>6 DEF LifeStep, TakeSlot, Accept, EndServe, ReleaseSlot, FlushLock, FlushDone, svVars
  <2>2. conns \subseteq conns'
    BY <1>1, <1>6, LifeMoves, Zenon DEF LifeStep, conns, Moved
  <2> QED
    BY <1>4, <2>1, <2>2
<1>7. ASSUME NEW c \in Conn, Receive(c) \/ ReportChanges(c) \/ QueueSv(c) PROVE ReservedByOpen'
  <2>1. svcb' = svcb /\ rcb' = rcb
    BY <1>7 DEF Receive, ReportChanges, QueueSv, svVars
  <2>2. conns \subseteq conns'
    BY <1>1, <1>7, RequestMoves, Zenon DEF conns, Moved
  <2> QED
    BY <1>4, <2>1, <2>2
<1>8. ASSUME NEW c \in Conn, Cleanup(c) PROVE ReservedByOpen'
  <2>1. conns \ {c} \subseteq conns'
    BY <1>1, <1>8, RequestMoves, Zenon DEF conns, Moved
  <2>2. \A b \in SvBlk : svcb'[b].owner # NoConn => svcb'[b].owner = svcb[b].owner /\ svcb[b].owner # c
    BY <1>8 DEF Cleanup, sv_release
  <2>3. rcb'.owner # NoConn => rcb'.owner = rcb.owner /\ rcb.owner # c
    BY <1>1, <1>8 DEF Cleanup, RcbRec
  <2> QED
    BY <1>2, <1>3, <2>1, <2>2, <2>3, Zenon DEF ReservedByOpen
<1>9. ASSUME OtherStep PROVE ReservedByOpen'
  <2>1. conns' = conns /\ svcb' = svcb
    BY <1>9, OthersKeep DEF conns
  <2>2. rcb'.owner = rcb.owner
    BY <1>1, <1>9, OthersKeep DEF RcbRec
  <2> QED
    BY <1>4, <2>1, <2>2
<1> QED
  BY <1>5, <1>6, <1>7, <1>8, <1>9, StepsOfNext DEF RequestStep

\* Events are queued by an association that will take the delivery lock next,
\* and the one that gives the lock back has found the queue empty.
LEMMA QueueStep ==
  ASSUME ObjOK, QueueIsServed, [Next]_vars
  PROVE  QueueIsServed'
<1> DEFINE Serves(c) == conn[c].pc \in {"lock", "flush"}
<1>1. DevOK /\ ConnOK /\ (sv_queue # <<>> => \E c \in Conn : Serves(c))
  BY DEF ObjOK, DevOK, QueueIsServed
<1>2. ASSUME sv_queue' = sv_queue, \A d \in Conn : Serves(d) => Serves(d)'
      PROVE  QueueIsServed'
  BY <1>1, <1>2 DEF QueueIsServed
<1>3. ASSUME NEW c \in Conn, WriteStep(c) PROVE QueueIsServed'
  BY <1>1, <1>2, <1>3, WriteKeeps DEF WriteStep
<1>4. ASSUME NEW c \in Conn, LifeStep(c) PROVE QueueIsServed'
  <2>1. CASE FlushDone(c)
    BY <2>1 DEF FlushDone, flush_done, QueueIsServed
  <2>2. CASE ~FlushDone(c)
    <3>1. sv_queue' = sv_queue
      BY <1>4, <2>2 DEF LifeStep, TakeSlot, Accept, EndServe, ReleaseSlot, FlushLock, svVars
    <3>2. \A d \in Conn : Serves(d) => Serves(d)'
      BY <1>1, <1>4, <2>2, LifeMoves, Zenon DEF LifeStep, Moved
    <3> QED
      BY <1>2, <3>1, <3>2
  <2> QED
    BY <2>1, <2>2
<1>5. ASSUME NEW c \in Conn, QueueSv(c) PROVE QueueIsServed'
  <2>1. Serves(c)'
    BY <1>1, <1>5, RequestMoves, Zenon DEF Moved
  <2> QED
    BY <2>1 DEF QueueIsServed
<1>6. ASSUME NEW c \in Conn, Receive(c) \/ ReportChanges(c) \/ Cleanup(c) PROVE QueueIsServed'
  <2>1. sv_queue' = sv_queue
    BY <1>6 DEF Receive, ReportChanges, Cleanup, svVars
  <2>2. \A d \in Conn : Serves(d) => Serves(d)'
    BY <1>1, <1>6, RequestMoves, Zenon DEF Moved
  <2> QED
    BY <1>2, <2>1, <2>2
<1>7. ASSUME OtherStep PROVE QueueIsServed'
  BY <1>1, <1>2, <1>7, OthersKeep DEF QueueIsServed
<1> QED
  BY <1>3, <1>4, <1>5, <1>6, <1>7, StepsOfNext DEF RequestStep

-----------------------------------------------------------------------------
(* The device serves its setting groups                                    *)

\* A step of the device does one thing to the setting groups or nothing.
LEMMA SgOfNext ==
  ASSUME ConnOK, [Next]_vars
  PROVE  [SgStep]_sgVars
<1>1. ASSUME NEW c \in Conn, WriteSgcb(c) PROVE [SgStep]_sgVars
  <2> DEFINE w == Head(conn[c].todo)
  <2>1. PICK res \in hooked(sg_check_write(w.attr, w.val)) :
          IF res = "ok" THEN on_sgcb_write(w.attr, w.val) ELSE UNCHANGED sgVars
    BY <1>1, Zenon DEF WriteSgcb
  <2>2. conn[c].todo # <<>> /\ w.kind = "sgcb"
    BY <1>1, Zenon DEF WriteSgcb, Writing1
  <2>3. w.attr = "CnfEdit" => w.val \in BOOLEAN
    BY <2>2, FirstIsDecoded DEF Decoded
  <2>4. res = "ok" => sg_check_write(w.attr, w.val) = "ok"
    BY DEF hooked
  <2> HIDE DEF w
  <2> QED
    BY <2>1, <2>3, <2>4, SgcbWriteIsService DEF SgStep
<1>2. ASSUME NEW c \in Conn, WriteSE(c) PROVE [SgStep]_sgVars
  <2> DEFINE w == Head(conn[c].todo)
  <2>1. StoreSE(w.attr, w.val) \/ UNCHANGED sgVars
    BY <1>2, Zenon DEF WriteSE
  <2>2. conn[c].todo # <<>> /\ w.kind = "se"
    BY <1>2, Zenon DEF WriteSE, Writing1
  <2>3. w.attr \in Editable /\ w.val \in SVal
    BY <2>2, FirstIsDecoded DEF Decoded
  <2> HIDE DEF w
  <2> QED
    BY <2>1, <2>3 DEF SgStep
<1>3. ASSUME NEW c \in Conn, WriteLcb(c) \/ WriteSvcb(c) \/ WriteRcb(c) PROVE UNCHANGED sgVars
  BY <1>3, Zenon DEF WriteLcb, WriteSvcb, WriteRcb
<1>4. ASSUME NEW c \in Conn, LifeStep(c) \/ RequestStep(c) PROVE UNCHANGED sgVars
  BY <1>4, Zenon DEF LifeStep, RequestStep, TakeSlot, Accept, EndServe, ReleaseSlot, FlushLock, FlushDone,
                     Receive, ReportChanges, QueueSv, Cleanup
<1>5. ASSUME OtherStep PROVE UNCHANGED sgVars
  BY <1>5, Zenon DEF OtherStep, DefineDataSet, DeleteDataSets, InitializeJournal, FlushBatch, Update,
                     ReadJournal, IntegrityTask, Tick, CloseServer, objVars
<1> QED
  BY <1>1, <1>2, <1>3, <1>4, <1>5, StepsOfNext DEF WriteStep

\* Every document considered says which group is active, or records nothing for
\* the first group that its attributes do not have by themselves.
ActiveIsDeclared ==
  \A d \in SgConfig : d.act >= 1 \/ \A s \in Setting : d.rec[s][1] \in {NoVal, d.base[s]}

\* What a document makes of the setting groups.
LEMMA GroupsStart ==
  ASSUME DeviceInit
  PROVE  SgInv /\ (ActiveIsDeclared => ActiveIsServed)
<1>1. PICK d \in dev.documents : materialise(d)
  BY Zenon DEF DeviceInit
<1>2. d \in SgConfig /\ d \in Document
  BY DeviceAssumption, SgConfigAssumption, Zenon DEF DeviceInit, Scenario
<1> QED
  BY <1>1, <1>2, DeclaredIsServed, DocumentIsTyped DEF SgInv, ActiveIsDeclared
=============================================================================
