--------------------------- MODULE SettingGroups ---------------------------
(***************************************************************************)
(* The setting groups of a logical device (server/settinggroup.rs) and the *)
(* initial values an SCL document gives them (scl/build.rs).               *)
(*                                                                         *)
(* A setting has one value per group and is served twice: under SG with    *)
(* the active group's value, and, where the model has it, under SE with    *)
(* the value being edited.  The edit view and EditSG are one per device:   *)
(* neither belongs to the association that opened the edit.                *)
(***************************************************************************)
EXTENDS Integers

CONSTANTS
  Setting,   \* the settings, each a leaf attribute under SG
  Editable,  \* the settings that also have an SE view
  SVal,      \* setting values
  NumOfSG,   \* groups
  SgConfig   \* the configurations: what a document may declare

NoVal == "none"

\* A document: the active group SettingControl declares (0 when actSG is left
\* out), the value each attribute has by itself, and the values recorded for a
\* group by Val@sGroup.
Document == [act : 0 .. NumOfSG, base : [Setting -> SVal],
             rec : [Setting -> [1 .. NumOfSG -> SVal \cup {NoVal}]]]

ASSUME SettingAssumption == Editable \subseteq Setting /\ NumOfSG \in 1 .. 255
ASSUME SValAssumption == NoVal \notin SVal
ASSUME SgConfigAssumption == SgConfig \subseteq Document

VARIABLES
  act_sg,   \* the active group
  edit_sg,  \* the group being edited, 0 when none is
  groups,   \* groups[s][g]: the value of s in group g
  sg,       \* the SG view
  se,       \* the SE view
  touched   \* observation: the settings written since EditSG selected a group

sgVars == <<act_sg, edit_sg, groups, sg, se, touched>>

\* apply_active_group: the declared active group's values become the
\* attributes' own.
apply_active_group(d, s) ==
  IF d.act >= 1 /\ d.rec[s][d.act] # NoVal THEN d.rec[s][d.act] ELSE d.base[s]

\* build_manager gives every group the attribute's value; seed_groups then
\* puts the recorded values in.
seed_groups(d, s) ==
  [g \in 1 .. NumOfSG |-> IF d.rec[s][g] # NoVal THEN d.rec[s][g] ELSE apply_active_group(d, s)]

\* materialise_sgcbs_with: a declared active group replaces the first.
materialise(d) ==
  /\ act_sg = IF d.act \in 1 .. NumOfSG THEN d.act ELSE 1
  /\ edit_sg = 0
  /\ groups = [s \in Setting |-> seed_groups(d, s)]
  /\ sg = [s \in Setting |-> apply_active_group(d, s)]
  /\ se = [s \in Setting |-> d.base[s]]
  /\ touched = {}

SgInit == \E d \in SgConfig : materialise(d)

\* Validates an SGCB write before it is stored.
sg_check_write(attr, v) ==
  CASE attr = "ActSG" -> IF v \in 1 .. NumOfSG THEN "ok" ELSE "ObjectValueInvalid"
    [] attr = "EditSG" -> IF v \in 0 .. NumOfSG THEN "ok" ELSE "ObjectValueInvalid"
    [] attr = "CnfEdit" -> IF v /\ edit_sg \notin 1 .. NumOfSG THEN "TemporarilyUnavailable"
                           ELSE "ok"
    [] OTHER -> "ObjectAccessDenied"

\* The chosen group's values become the ones in effect.
SelectActiveSG(g) ==
  /\ act_sg' = g
  /\ sg' = [s \in Setting |-> groups[s][g]]
  /\ UNCHANGED <<edit_sg, groups, se, touched>>

\* A bug: the edit view keeps what an earlier edit left in it.
SelectEditSG_KeepsView(g) ==
  /\ edit_sg' = g
  /\ touched' = {}
  /\ UNCHANGED <<act_sg, groups, sg, se>>

\* The edit view shows the selected group's values; 0 ends editing and leaves
\* the view as it is.
SelectEditSG(g) ==
  /\ edit_sg' = g
  /\ se' = [s \in Setting |-> IF g >= 1 /\ s \in Editable THEN groups[s][g] ELSE se[s]]
  /\ touched' = {}
  /\ UNCHANGED <<act_sg, groups, sg>>

\* A bug: the values in effect stay those of before the edit.
ConfirmEditSGValues_NotInEffect ==
  /\ groups' = [s \in Setting |->
                  IF s \in Editable THEN [groups[s] EXCEPT ![edit_sg] = se[s]] ELSE groups[s]]
  /\ edit_sg' = 0
  /\ touched' = {}
  /\ UNCHANGED <<act_sg, sg, se>>

\* Commits the edit view into its group, and into the active view when that
\* is the group in effect.
ConfirmEditSGValues ==
  /\ groups' = [s \in Setting |->
                  IF s \in Editable THEN [groups[s] EXCEPT ![edit_sg] = se[s]] ELSE groups[s]]
  /\ sg' = [s \in Setting |-> IF s \in Editable /\ edit_sg = act_sg THEN se[s] ELSE sg[s]]
  /\ edit_sg' = 0
  /\ touched' = {}
  /\ UNCHANGED <<act_sg, se>>

\* An SGCB write that sg_check_write admitted, stored and applied.  CnfEdit
\* written FALSE changes nothing.
on_sgcb_write(attr, v) ==
  \/ attr = "ActSG" /\ SelectActiveSG(v)
  \/ attr = "EditSG" /\ SelectEditSG(v)
  \/ attr = "CnfEdit" /\ v /\ ConfirmEditSGValues
  \/ attr = "CnfEdit" /\ ~v /\ UNCHANGED sgVars

\* write_permitted for an SE attribute: only while a group is being edited.
se_permitted == edit_sg >= 1

\* A client's write of an SE attribute, stored in the view all share.
StoreSE(s, v) ==
  /\ se' = [se EXCEPT ![s] = v]
  /\ touched' = touched \cup {s}
  /\ UNCHANGED <<act_sg, edit_sg, groups, sg>>

SgcbWrite == [attr : {"ActSG", "EditSG"}, val : 0 .. NumOfSG + 1]
             \cup [attr : {"CnfEdit"}, val : BOOLEAN]

SgNext ==
  \/ \E w \in SgcbWrite : sg_check_write(w.attr, w.val) = "ok" /\ on_sgcb_write(w.attr, w.val)
  \/ \E s \in Editable, v \in SVal : se_permitted /\ StoreSE(s, v)

SgSpec == SgInit /\ [][SgNext]_sgVars

-----------------------------------------------------------------------------
SgTypeOK ==
  /\ act_sg \in 1 .. NumOfSG
  /\ edit_sg \in 0 .. NumOfSG
  /\ groups \in [Setting -> [1 .. NumOfSG -> SVal]]
  /\ sg \in [Setting -> SVal]
  /\ se \in [Setting -> SVal]
  /\ touched \subseteq Editable

\* While a group is being edited, a setting no client has written since the
\* edit began shows the value that group holds: neither another association's
\* switch of the active group nor an earlier edit leaves its values in the
\* view a confirm would commit.
EditViewIsGroup ==
  edit_sg >= 1 => \A s \in Editable \ touched : se[s] = groups[s][edit_sg]

\* The values served under SG are those of the group ActSG names, whatever
\* associations switch groups and confirm edits in between.
ActiveIsServed == \A s \in Setting : sg[s] = groups[s][act_sg]

\* What settinggroup.rs promises of its two views at any time.
GroupsServed == ActiveIsServed /\ EditViewIsGroup

\* A group's stored value changes only when an edit of that group is confirmed,
\* and only for settings some client wrote during that edit.
ConfirmStoresTheEdit ==
  [][\A s \in Setting, g \in 1 .. NumOfSG :
       groups'[s][g] # groups[s][g] => g = edit_sg /\ s \in touched /\ edit_sg' = 0]_sgVars
=============================================================================
