---------------------------- MODULE YamlEditProofs ----------------------------
(***************************************************************************)
(* Proofs about YamlEdit, for any number of fields, values, versions,      *)
(* edits and calls.                                                        *)
(*                                                                         *)
(* The argument follows the texts.  Whatever pair of baseline and draft is *)
(* under way (in the editor, in the ownership dialog, in a merge or save   *)
(* that was sent, in the answer of a merge) is coherent: the draft differs *)
(* from its baseline only by values the user typed or chose.  A patch of   *)
(* such a pair can write nothing else, whatever the object has become.     *)
(***************************************************************************)
EXTENDS YamlEdit, SequenceTheorems, TLAPS

Coherent(base, draft, a) ==
  \A f \in Fields : draft.spec[f] # base.spec[f] => draft.spec[f] \in a[f]

\* The editor's part of the invariant; a is the history variable authored.
EdTyped(e) == e \in Editors({e.recent})
Editing(e, a) ==
  e.isEditing => /\ e.draft \in Docs /\ e.base \in [id : Ids, doc : Docs]
                 /\ Coherent(e.base.doc, e.draft, a)
Chosen(e, a) == \A f \in Fields : e.choices[f] # Nil => e.choices[f].yours \in a[f]
Warned(e, a) == e.warning # Nil => Coherent(e.warning.base, e.warning.draft, a)

GoodEd(e, a) == EdTyped(e) /\ Editing(e, a) /\ Chosen(e, a) /\ Warned(e, a)

\* The part of a merge or save.
GoodCall(x, a) ==
  /\ x \in Calls
  /\ Coherent(x.base, x.draft, a)
  /\ x.kind = "merge" => x.own = Edited(x.base, x.draft)
  /\ x.pc \in {"answered", "verified"} => x.answer \in Answers
  /\ x.kind = "merge" /\ x.pc = "answered" /\ x.answer.kind = "merged" =>
       x.answer.draft = [x.answer.doc EXCEPT !.spec = Patched(x.answer.doc, x.base, x.draft)]

GoodCalls(cs, a) ==
  /\ cs \in Seq(Calls \cup {Nil})
  /\ \A c \in DOMAIN cs : cs[c] # Nil => GoodCall(cs[c], a)

Busy(cs) == \E c \in DOMAIN cs : cs[c] # Nil /\ cs[c].kind = "save"

\* The inductive invariant.
EditInv ==
  /\ live \in Docs /\ watched \in Docs
  /\ read \in {Nil, <<>>} \cup {<<doc>> : doc \in Docs}
  /\ authored \in [Fields -> SUBSET Values]
  /\ GoodEd(ed, authored)
  /\ GoodCalls(calls, authored)
  /\ ed.isSaving => Busy(calls)

-----------------------------------------------------------------------------
\* The effects keep the editor's part.

LEMMA EffectiveTyped ==
  ASSUME NEW e, NEW w \in Docs, EdTyped(e)
  PROVE  Effective(e, w) \in Docs
BY DEF EdTyped, Editors, Effective

LEMMA IdTyped ==
  ASSUME NEW doc \in Docs
  PROVE  IdOf(doc) \in Ids
BY DEF Docs, Ids, IdOf

\* What the invariant says of the editor depends on five fields.
LEMMA FrameGood ==
  ASSUME NEW e, NEW p, NEW a, GoodEd(e, a), EdTyped(p),
         p.isEditing = e.isEditing, p.draft = e.draft, p.base = e.base,
         p.choices = e.choices, p.warning = e.warning
  PROVE  GoodEd(p, a)
BY DEF GoodEd, Editing, Chosen, Warned

\* AdoptSnapshot touches only the override, the pending text and the identity.
LEMMA AdoptGood ==
  ASSUME NEW e, NEW w \in Docs, NEW a, GoodEd(e, a)
  PROVE  /\ GoodEd(AdoptSnapshot(e, w), a)
         /\ AdoptSnapshot(e, w).isSaving = e.isSaving
         /\ AdoptSnapshot(e, w).isEditing = e.isEditing
         /\ AdoptSnapshot(e, w).draft = e.draft
<1> DEFINE p == [e EXCEPT !.latest = IdOf(w)]
           q == [e EXCEPT !.override = Nil, !.pending = Nil, !.latest = IdOf(w)]
<1>1. IdOf(w) \in Ids  BY IdTyped
<1>2. AdoptSnapshot(e, w) \in {e, p, q}  BY DEF AdoptSnapshot
<1>3. EdTyped(p) /\ EdTyped(q)  BY <1>1, ZenonT(60) DEF GoodEd, EdTyped, Editors
<1>4. /\ p.isSaving = e.isSaving /\ p.isEditing = e.isEditing /\ p.draft = e.draft
      /\ p.base = e.base /\ p.choices = e.choices /\ p.warning = e.warning
  BY DEF GoodEd, EdTyped, Editors
<1>5. /\ q.isSaving = e.isSaving /\ q.isEditing = e.isEditing /\ q.draft = e.draft
      /\ q.base = e.base /\ q.choices = e.choices /\ q.warning = e.warning
  BY DEF GoodEd, EdTyped, Editors
<1> HIDE DEF p, q
<1>6. GoodEd(p, a) /\ GoodEd(q, a)  BY <1>3, <1>4, <1>5, FrameGood
<1> QED  BY <1>2, <1>4, <1>5, <1>6

LEMMA ForgetGood ==
  ASSUME NEW e, NEW w \in Docs, NEW a, GoodEd(e, a)
  PROVE  LET p == ForgetDrift(ForgetVerified(e, w)) IN
         /\ GoodEd(p, a) /\ p.isSaving = e.isSaving /\ p.isEditing = e.isEditing
         /\ p.draft = e.draft
<1> DEFINE v == ForgetVerified(e, w)
           p == [e EXCEPT !.verified = Nil]
           q == [v EXCEPT !.conflictLive = Nil, !.driftForced = FALSE]
<1>1. EdTyped(v)
      /\ v.isSaving = e.isSaving /\ v.isEditing = e.isEditing /\ v.draft = e.draft
      /\ v.base = e.base /\ v.choices = e.choices /\ v.warning = e.warning
  <2>1. v \in {e, p}  BY DEF ForgetVerified
  <2>2. EdTyped(p)  BY DEF GoodEd, EdTyped, Editors
  <2>3. /\ p.isSaving = e.isSaving /\ p.isEditing = e.isEditing /\ p.draft = e.draft
        /\ p.base = e.base /\ p.choices = e.choices /\ p.warning = e.warning
    BY DEF GoodEd, EdTyped, Editors
  <2> HIDE DEF p, v
  <2> QED  BY <2>1, <2>2, <2>3 DEF GoodEd
<1>2. ForgetDrift(v) \in {v, q}  BY DEF ForgetDrift
<1> HIDE DEF v
<1>3. EdTyped(q)  BY <1>1 DEF EdTyped, Editors
<1>4. /\ q.isSaving = v.isSaving /\ q.isEditing = v.isEditing /\ q.draft = v.draft
      /\ q.base = v.base /\ q.choices = v.choices /\ q.warning = v.warning
  BY <1>1 DEF EdTyped, Editors
<1> HIDE DEF q
<1>5. GoodEd(v, a) /\ GoodEd(q, a)  BY <1>1, <1>3, <1>4, FrameGood
<1>6. GoodEd(ForgetDrift(v), a) /\ ForgetDrift(v).isSaving = e.isSaving
      /\ ForgetDrift(v).isEditing = e.isEditing /\ ForgetDrift(v).draft = e.draft
  BY <1>1, <1>2, <1>4, <1>5
<1> QED  BY <1>6 DEF v

\* A session starts with its baseline as its draft.
LEMMA EnterGood ==
  ASSUME NEW e, NEW w \in Docs, NEW a, GoodEd(e, a)
  PROVE  GoodEd(Enter(e, w), a) /\ Enter(e, w).isSaving = e.isSaving
<1> DEFINE p == Enter(e, w)
           t == Effective(e, w)
<1>1. t \in Docs  BY EffectiveTyped DEF GoodEd
<1> HIDE DEF t
<1>2. NoChoices \in [Fields -> Choices \cup {Nil}]  BY DEF NoChoices
<1>3. p = [e EXCEPT !.isEditing = TRUE, !.draft = t, !.base = [id |-> e.latest, doc |-> t],
            !.driftForced = FALSE, !.conflictLive = Nil, !.replacedByConflict = FALSE,
            !.choices = NoChoices, !.pending = Nil, !.override = t]
  BY DEF Enter, t
<1>4. EdTyped(p)
  <2> HIDE DEF p
  <2> QED  BY <1>1, <1>2, <1>3, ZenonT(60) DEF GoodEd, EdTyped, Editors
<1>5. /\ p.isSaving = e.isSaving /\ p.draft = t /\ p.base = [id |-> e.latest, doc |-> t]
      /\ p.choices = NoChoices /\ p.warning = e.warning
  <2> HIDE DEF p
  <2> QED  BY <1>3 DEF GoodEd, EdTyped, Editors
<1>6. e.latest \in Ids  BY DEF GoodEd, EdTyped, Editors
<1> HIDE DEF p
<1>7. Editing(p, a)  BY <1>1, <1>5, <1>6 DEF Editing, Coherent
<1>8. Chosen(p, a)  BY <1>5 DEF Chosen, NoChoices
<1>9. Warned(p, a)  BY <1>5 DEF Warned, GoodEd
<1>10. GoodEd(p, a) /\ p.isSaving = e.isSaving  BY <1>4, <1>5, <1>7, <1>8, <1>9 DEF GoodEd
<1> QED  BY <1>10 DEF p

LEMMA ExitGood ==
  ASSUME NEW e, NEW a, EdTyped(e)
  PROVE  /\ GoodEd(Exit(e), a) /\ ~Exit(e).isSaving /\ ~Exit(e).isEditing
         /\ Exit(e).recent = e.recent
<1> DEFINE p == Exit(e)
<1>1. NoChoices \in [Fields -> Choices \cup {Nil}]  BY DEF NoChoices
<1>2. EdTyped(p)  BY <1>1, ZenonT(60) DEF EdTyped, Editors, Exit
<1>3. /\ p.isSaving = FALSE /\ p.isEditing = FALSE /\ p.choices = NoChoices /\ p.warning = Nil
      /\ p.recent = e.recent
  BY DEF EdTyped, Editors, Exit
<1> HIDE DEF p
<1>4. Editing(p, a) /\ Chosen(p, a) /\ Warned(p, a)
  BY <1>3 DEF Editing, Chosen, Warned, NoChoices
<1>5. GoodEd(p, a) /\ ~p.isSaving /\ ~p.isEditing /\ p.recent = e.recent
  BY <1>2, <1>3, <1>4 DEF GoodEd
<1> QED  BY <1>5 DEF p

LEMMA RestartGood ==
  ASSUME NEW e, NEW w \in Docs, NEW a, GoodEd(e, a)
  PROVE  /\ GoodEd(Restart(e, w), a)
         /\ Restart(e, w).isSaving = e.isSaving
         /\ e.isEditing => Restart(e, w) = e
<1> DEFINE p == [e EXCEPT !.restartFrom = Nil]
<1>1. EdTyped(p) /\ p.isSaving = e.isSaving /\ p.isEditing = e.isEditing /\ p.draft = e.draft
      /\ p.base = e.base /\ p.choices = e.choices /\ p.warning = e.warning
  <2>1. EdTyped(p)  BY DEF GoodEd, EdTyped, Editors
  <2>2. p.isSaving = e.isSaving /\ p.isEditing = e.isEditing /\ p.draft = e.draft
        /\ p.base = e.base /\ p.choices = e.choices /\ p.warning = e.warning
    BY DEF GoodEd, EdTyped, Editors
  <2> QED  BY <2>1, <2>2
<1> HIDE DEF p
<1>2. GoodEd(p, a)  BY <1>1, FrameGood
<1>3. GoodEd(Enter(p, w), a) /\ Enter(p, w).isSaving = e.isSaving  BY <1>1, <1>2, EnterGood
<1>4. /\ GoodEd(AdoptSnapshot(Enter(p, w), w), a)
      /\ AdoptSnapshot(Enter(p, w), w).isSaving = e.isSaving
  BY <1>3, AdoptGood
<1>5. /\ Restart(e, w) \in {e, AdoptSnapshot(Enter(p, w), w)}
      /\ e.isEditing => Restart(e, w) = e
  BY DEF Restart, p
<1> QED  BY <1>4, <1>5

\* The effects, run to their fixpoint, keep the editor's part, whether a save
\* is out, and the draft of an open session.
LEMMA SettleGood ==
  ASSUME NEW e, NEW w \in Docs, NEW a, GoodEd(e, a)
  PROVE  /\ GoodEd(Settle(e, w), a)
         /\ Settle(e, w).isSaving = e.isSaving
         /\ e.isEditing => Settle(e, w).draft = e.draft
<1> DEFINE p == AdoptSnapshot(e, w)
           q == ForgetDrift(ForgetVerified(p, w))
<1>1. GoodEd(p, a) /\ p.isSaving = e.isSaving /\ p.isEditing = e.isEditing /\ p.draft = e.draft
  BY AdoptGood
<1> HIDE DEF p
<1>2. GoodEd(q, a) /\ q.isSaving = p.isSaving /\ q.isEditing = p.isEditing /\ q.draft = p.draft
  BY <1>1, ForgetGood
<1> HIDE DEF q
<1>3. /\ GoodEd(Restart(q, w), a) /\ Restart(q, w).isSaving = q.isSaving
      /\ q.isEditing => Restart(q, w) = q
  BY <1>2, RestartGood
<1>4. Settle(e, w) = Restart(q, w)  BY DEF Settle, p, q
<1> QED  BY <1>1, <1>2, <1>3, <1>4

-----------------------------------------------------------------------------
\* Merges and saves.

\* The user only adds to what was typed or chosen.
Grows(a, b) == \A f \in Fields : a[f] \subseteq b[f]

LEMMA CallsGrow ==
  ASSUME NEW cs, NEW a, NEW b, GoodCalls(cs, a), Grows(a, b)
  PROVE  GoodCalls(cs, b)
BY DEF GoodCalls, GoodCall, Coherent, Grows

LEMMA AppendCall ==
  ASSUME NEW cs, NEW a, NEW x, GoodCalls(cs, a), GoodCall(x, a)
  PROVE  /\ GoodCalls(Append(cs, x), a)
         /\ Busy(cs) \/ x.kind = "save" => Busy(Append(cs, x))
<1> DEFINE ds == Append(cs, x)
<1>1. cs \in Seq(Calls \cup {Nil}) /\ x \in Calls /\ x # Nil
  BY NilAssumption DEF GoodCalls, GoodCall
<1>2. /\ ds \in Seq(Calls \cup {Nil}) /\ DOMAIN cs = 1..Len(cs) /\ Len(cs) \in Nat
      /\ DOMAIN ds = 1..(Len(cs) + 1) /\ ds[Len(cs) + 1] = x
      /\ \A c \in 1..Len(cs) : ds[c] = cs[c]
  BY <1>1
<1> HIDE DEF ds
<1>3. \A c \in DOMAIN ds : c = Len(cs) + 1 \/ c \in DOMAIN cs  BY <1>2
<1>4. GoodCalls(ds, a)  BY <1>2, <1>3 DEF GoodCalls
<1>5. Busy(cs) => Busy(ds)  BY <1>2 DEF Busy
<1>6. x.kind = "save" => Busy(ds)  BY <1>1, <1>2 DEF Busy
<1> QED  BY <1>4, <1>5, <1>6 DEF ds

LEMMA PutCall ==
  ASSUME NEW cs, NEW a, NEW y, NEW c \in DOMAIN cs, GoodCalls(cs, a),
         y = Nil \/ GoodCall(y, a)
  PROVE  LET ds == [cs EXCEPT ![c] = y] IN
         /\ GoodCalls(ds, a)
         /\ y # Nil /\ y.kind = "save" => Busy(ds)
         /\ Busy(cs) /\ cs[c] # Nil /\ cs[c].kind # "save" => Busy(ds)
<1> DEFINE ds == [cs EXCEPT ![c] = y]
<1>1. /\ cs \in Seq(Calls \cup {Nil}) /\ y \in Calls \cup {Nil}
  BY DEF GoodCalls, GoodCall
<1>2. /\ ds \in Seq(Calls \cup {Nil}) /\ DOMAIN ds = DOMAIN cs /\ ds[c] = y
      /\ \A d \in DOMAIN cs : d # c => ds[d] = cs[d]
  BY <1>1
<1> HIDE DEF ds
<1>3. GoodCalls(ds, a)  BY <1>2 DEF GoodCalls
<1>4. y # Nil /\ y.kind = "save" => Busy(ds)  BY <1>2 DEF Busy
<1>5. Busy(cs) /\ cs[c] # Nil /\ cs[c].kind # "save" => Busy(ds)  BY <1>2 DEF Busy
<1> QED  BY <1>3, <1>4, <1>5 DEF ds

\* The steps of a call other than its end: it keeps what it captured.
GoodAnswer(x, pc, ans) ==
  /\ pc \in {"apply", "patch", "answered", "verify", "verified", "refresh"}
  /\ IF pc \in {"answered", "verified"} THEN ans \in Answers ELSE ans = Nil
  /\ x.kind = "merge" /\ pc = "answered" /\ ans.kind = "merged" =>
       ans.draft = [ans.doc EXCEPT !.spec = Patched(ans.doc, x.base, x.draft)]

WithAnswer(x, pc, ans) == [x EXCEPT !.pc = pc, !.answer = ans]

LEMMA AnswerCall ==
  ASSUME NEW x, NEW a, NEW pc, NEW ans, GoodCall(x, a), GoodAnswer(x, pc, ans)
  PROVE  /\ GoodCall(WithAnswer(x, pc, ans), a) /\ WithAnswer(x, pc, ans) # Nil
         /\ WithAnswer(x, pc, ans).kind = x.kind
<1> DEFINE y == WithAnswer(x, pc, ans)
<1>1. ans \in Answers \cup {Nil}  BY DEF GoodAnswer
<1>2. y \in Calls  BY <1>1 DEF GoodCall, Calls, GoodAnswer, WithAnswer
<1>3. /\ y.kind = x.kind /\ y.base = x.base /\ y.draft = x.draft /\ y.own = x.own
      /\ y.pc = pc /\ y.answer = ans
  BY DEF GoodCall, Calls, WithAnswer
<1>4. y # Nil  BY <1>2, NilAssumption
<1> HIDE DEF y
<1>5. GoodCall(y, a)  BY <1>2, <1>3 DEF GoodCall, GoodAnswer
<1> QED  BY <1>3, <1>4, <1>5 DEF y

-----------------------------------------------------------------------------
\* The texts of merges and patches.

LEMMA DriftLiveTyped ==
  ASSUME NEW e, NEW w \in Docs, EdTyped(e)
  PROVE  DriftLive(e, w) \in Docs \cup {Nil}
<1>1. Effective(e, w) \in Docs  BY EffectiveTyped
<1>2. e.conflictLive \in [doc : Docs, watched : Docs] \cup {Nil}  BY DEF EdTyped, Editors
<1>3. CASE e.conflictLive # Nil /\ e.conflictLive.watched = w
  <2>1. DriftLive(e, w) = e.conflictLive.doc  BY <1>3 DEF DriftLive
  <2> QED  BY <1>2, <1>3, <2>1
<1>4. CASE ~(e.conflictLive # Nil /\ e.conflictLive.watched = w)
  BY <1>1, <1>4 DEF DriftLive
<1> QED  BY <1>3, <1>4

LEMMA PatchedTyped ==
  ASSUME NEW doc \in Docs, NEW base \in Docs, NEW draft \in Docs
  PROVE  /\ Patched(doc, base, draft) \in Specs
         /\ [doc EXCEPT !.spec = Patched(doc, base, draft)] \in Docs
         /\ [doc EXCEPT !.spec = Patched(doc, base, draft)].spec = Patched(doc, base, draft)
<1>1. Patched(doc, base, draft) \in Specs  BY DEF Patched, Specs, Docs
<1> QED  BY <1>1 DEF Docs

\* A patch of a coherent pair writes only what the user typed or chose.
LEMMA PatchedAuthored ==
  ASSUME NEW doc, NEW base, NEW draft, NEW a, Coherent(base, draft, a), NEW f \in Fields
  PROVE  /\ Patched(doc, base, draft)[f] # doc.spec[f] => Patched(doc, base, draft)[f] \in a[f]
         /\ Patched(doc, base, draft)[f] = IF f \in Edited(base, draft) THEN draft.spec[f]
                                           ELSE doc.spec[f]
BY DEF Patched, Edited, Coherent

\* The baseline a merge sends differs from the draft in exactly the fields the
\* user edited: a field whose choice is yours is a conflict, in which the draft
\* differs from both sides.
LEMMA MergeBaseGood ==
  ASSUME NEW a, GoodEd(ed, a), watched \in Docs, ed.isEditing
  PROVE  /\ MergeBase \in Docs
         /\ Edited(MergeBase, ed.draft) = Edited(ed.base.doc, ed.draft)
<1> DEFINE yours == YoursFields(ed, watched)
           theirs == DriftLive(ed, watched)
           merged == [f \in Fields |-> IF f \in yours THEN theirs.spec[f]
                                       ELSE ed.base.doc.spec[f]]
<1>1. ed.draft \in Docs /\ ed.base.doc \in Docs  BY DEF GoodEd, Editing
<1>2. theirs \in Docs \cup {Nil}  BY DriftLiveTyped DEF GoodEd
<1>3. \A f \in yours : /\ theirs # Nil /\ f \in Fields
                       /\ ed.draft.spec[f] # ed.base.doc.spec[f]
                       /\ ed.draft.spec[f] # theirs.spec[f]
  BY DEF YoursFields, DriftFields, ChoiceHolds, InConflict
<1>4. MergeBase = [ed.base.doc EXCEPT !.spec = merged]  BY <1>1 DEF MergeBase, Docs
<1> HIDE DEF yours, theirs
<1>5. merged \in Specs  BY <1>1, <1>2, <1>3 DEF Docs, Specs
<1>6. MergeBase \in Docs /\ MergeBase.spec = merged  BY <1>1, <1>4, <1>5 DEF Docs
<1>7. \A f \in Fields : ed.draft.spec[f] # merged[f] <=> ed.draft.spec[f] # ed.base.doc.spec[f]
  BY <1>3
<1> HIDE DEF merged
<1> QED  BY <1>6, <1>7 DEF Edited

-----------------------------------------------------------------------------
\* The actions, in the groups of the module.

LEMMA InitInv == Init => EditInv
<1> SUFFICES ASSUME Init PROVE EditInv  OBVIOUS
<1>1. live \in Docs /\ watched \in Docs
  BY ConstAssumption DEF Init, Docs, Uids, Rvs, Specs, Spec0, ConstAssumption
<1>2. IdOf(live) \in Ids  BY <1>1, IdTyped
<1>3. EdTyped(ed)  BY <1>2 DEF Init, EdTyped, Editors, NoChoices
<1>4. ed.isEditing = FALSE /\ ed.isSaving = FALSE /\ ed.warning = Nil /\ ed.choices = NoChoices
  BY DEF Init
<1>5. GoodEd(ed, authored)
  BY <1>3, <1>4 DEF GoodEd, Editing, Chosen, Warned, NoChoices
<1>6. GoodCalls(calls, authored)  BY DEF Init, GoodCalls
<1>7. authored \in [Fields -> SUBSET Values] /\ read = Nil  BY DEF Init
<1> QED  BY <1>1, <1>4, <1>5, <1>6, <1>7 DEF EditInv

LEMMA ClusterSteps ==
  EditInv /\ (OtherWrites \/ Recreated \/ ReadStarts \/ ReadAnswered) => EditInv'
<1> SUFFICES ASSUME EditInv, OtherWrites \/ Recreated \/ ReadStarts \/ ReadAnswered
             PROVE  EditInv'
  OBVIOUS
<1>1. live' \in Docs
  <2>1. live \in Docs  BY DEF EditInv
  <2>2. CASE OtherWrites
    <3>1. PICK f \in Fields, v \in OthersSet : live' = [live EXCEPT !.rv = @ + 1, !.spec[f] = v]
      BY <2>2 DEF OtherWrites
    <3>2. live.rv < MaxRv  BY <2>2 DEF OtherWrites
    <3>3. live.rv + 1 \in Rvs
      BY <2>1, <3>2, ConstAssumption DEF Docs, Rvs, ConstAssumption
    <3>4. [live.spec EXCEPT ![f] = v] \in Specs
      BY <2>1, ConstAssumption DEF Docs, Specs, ConstAssumption
    <3> QED  BY <2>1, <3>1, <3>3, <3>4 DEF Docs
  <2>3. CASE Recreated
    <3>1. live.rv + 1 \in Rvs /\ live.uid + 1 \in Uids
      BY <2>1, <2>3, ConstAssumption DEF Recreated, Docs, Rvs, Uids, ConstAssumption
    <3>2. Spec0 \in Specs  BY ConstAssumption DEF Spec0, Specs, ConstAssumption
    <3> QED  BY <2>3, <3>1, <3>2 DEF Recreated, Docs
  <2>4. CASE ReadStarts \/ ReadAnswered  BY <2>1, <2>4 DEF ReadStarts, ReadAnswered
  <2> QED  BY <2>2, <2>3, <2>4
<1>2. read' \in {Nil, <<>>} \cup {<<doc>> : doc \in Docs}
  BY DEF EditInv, OtherWrites, Recreated, ReadStarts, ReadAnswered
<1>3. UNCHANGED <<watched, ed, calls, authored>>
  BY DEF OtherWrites, Recreated, ReadStarts, ReadAnswered
<1> QED  BY <1>1, <1>2, <1>3 DEF EditInv

\* Steps of the tab alone that end a session, start one or show another text.
LEMMA ReadLandsKeeps == EditInv /\ ReadLands => EditInv'
<1> SUFFICES ASSUME EditInv, ReadLands PROVE EditInv'  OBVIOUS
<1>1. Head(read) \in Docs
  <2>1. read \in {<<doc>> : doc \in Docs}  BY DEF EditInv, ReadLands
  <2>2. PICK doc \in Docs : read = <<doc>>  BY <2>1
  <2> QED  BY <2>2
<1>2. GoodEd(ed', authored) /\ ed'.isSaving = ed.isSaving
  BY <1>1, SettleGood DEF EditInv, ReadLands
<1> QED  BY <1>1, <1>2 DEF EditInv, ReadLands

LEMMA EnterEditKeeps == EditInv /\ EnterEdit => EditInv'
<1> SUFFICES ASSUME EditInv, EnterEdit PROVE EditInv'  OBVIOUS
<1>1. GoodEd(Enter(ed, watched), authored) /\ Enter(ed, watched).isSaving = ed.isSaving
  BY EnterGood DEF EditInv
<1>2. GoodEd(ed', authored) /\ ed'.isSaving = ed.isSaving
  BY <1>1, SettleGood DEF EditInv, EnterEdit
<1> QED  BY <1>2 DEF EditInv, EnterEdit

LEMMA CancelKeeps == EditInv /\ Cancel => EditInv'
<1> SUFFICES ASSUME EditInv, Cancel PROVE EditInv'  OBVIOUS
<1>1. GoodEd(Exit(ed), authored) /\ ~Exit(ed).isSaving  BY ExitGood DEF EditInv, GoodEd
<1>2. GoodEd(ed', authored) /\ ~ed'.isSaving  BY <1>1, SettleGood DEF EditInv, Cancel
<1> QED  BY <1>2 DEF EditInv, Cancel

LEMMA EditNewObjectKeeps == EditInv /\ EditNewObject => EditInv'
<1> SUFFICES ASSUME EditInv, EditNewObject PROVE EditInv'  OBVIOUS
<1> DEFINE x == Exit(ed)
           p == [x EXCEPT !.restartFrom = ed.base.id.uid]
<1>1. GoodEd(x, authored) /\ ~x.isSaving  BY ExitGood DEF EditInv, GoodEd
<1>2. ed.base.id.uid \in Uids
  BY DEF EditInv, EditNewObject, ObjectReplaced, GoodEd, Editing, Ids
<1> HIDE DEF x
<1>3. EdTyped(p)  BY <1>1, <1>2 DEF GoodEd, EdTyped, Editors
<1>4. /\ p.isSaving = x.isSaving /\ p.isEditing = x.isEditing /\ p.draft = x.draft
      /\ p.base = x.base /\ p.choices = x.choices /\ p.warning = x.warning
  BY <1>1 DEF GoodEd, EdTyped, Editors
<1>5. ed' = Settle(p, watched)  BY DEF EditNewObject, x
<1> HIDE DEF p
<1>6. GoodEd(p, authored)  BY <1>1, <1>3, <1>4, FrameGood
<1>7. GoodEd(ed', authored) /\ ~ed'.isSaving  BY <1>1, <1>4, <1>5, <1>6, SettleGood DEF EditInv
<1> QED  BY <1>7 DEF EditInv, EditNewObject, ReadAgain

LEMMA CancelWarningKeeps == EditInv /\ CancelOwnershipWarning => EditInv'
<1> SUFFICES ASSUME EditInv, CancelOwnershipWarning PROVE EditInv'  OBVIOUS
<1> DEFINE p == [ed EXCEPT !.warning = Nil]
<1>1. EdTyped(p)  BY DEF EditInv, GoodEd, EdTyped, Editors
<1>2. /\ p.isSaving = ed.isSaving /\ p.isEditing = ed.isEditing /\ p.draft = ed.draft
      /\ p.base = ed.base /\ p.choices = ed.choices /\ p.warning = Nil
  BY DEF EditInv, GoodEd, EdTyped, Editors
<1>3. ed' = p  BY DEF CancelOwnershipWarning
<1> HIDE DEF p
<1>4. GoodEd(p, authored)  BY <1>1, <1>2 DEF EditInv, GoodEd, Editing, Chosen, Warned
<1> QED  BY <1>2, <1>3, <1>4 DEF EditInv, CancelOwnershipWarning

\* A value is put in the draft: one in the history, or the one that was there.
Written(e, f, v) == [e EXCEPT !.draft.spec[f] = v]
Recorded(a, f, v) == [a EXCEPT ![f] = @ \cup {v}]

LEMMA DraftWritten ==
  ASSUME NEW e, NEW a, NEW b, GoodEd(e, a), Grows(a, b), e.isEditing,
         NEW f \in Fields, NEW v \in Values, v \in b[f] \/ v = e.draft.spec[f],
         NEW p, p = Written(e, f, v)
  PROVE  GoodEd(p, b) /\ p.isSaving = e.isSaving
<1> DEFINE d == [e.draft EXCEPT !.spec[f] = v]
<1>1. e.draft \in Docs /\ e.base \in [id : Ids, doc : Docs]  BY DEF GoodEd, Editing
<1>2. d \in Docs /\ d.spec = [e.draft.spec EXCEPT ![f] = v]  BY <1>1 DEF Docs, Specs
<1>3. p = [e EXCEPT !.draft = d]  BY DEF Written
<1>4. Coherent(e.base.doc, d, b)
  BY <1>1, <1>2 DEF GoodEd, Editing, Coherent, Grows, Docs, Specs
<1> HIDE DEF d
<1>5. EdTyped(p)  BY <1>2, <1>3 DEF GoodEd, EdTyped, Editors
<1>6. /\ p.isSaving = e.isSaving /\ p.isEditing = e.isEditing /\ p.draft = d
      /\ p.base = e.base /\ p.choices = e.choices /\ p.warning = e.warning
  BY <1>3 DEF GoodEd, EdTyped, Editors
<1>7. Editing(p, b)  BY <1>1, <1>2, <1>4, <1>6 DEF Editing
<1>8. Chosen(p, b)  BY <1>6 DEF Chosen, GoodEd, Grows
<1>9. Warned(p, b)  BY <1>6 DEF Warned, GoodEd, Grows, Coherent
<1> QED  BY <1>5, <1>6, <1>7, <1>8, <1>9 DEF GoodEd

LEMMA HistoryRecorded ==
  ASSUME NEW a \in [Fields -> SUBSET Values], NEW f \in Fields, NEW v \in Values
  PROVE  /\ Recorded(a, f, v) \in [Fields -> SUBSET Values]
         /\ Grows(a, Recorded(a, f, v)) /\ v \in Recorded(a, f, v)[f]
BY DEF Recorded, Grows

\* Recording a choice: yours is the draft's value of a conflict, which the user
\* typed or chose, or the value recorded before.
LEMMA ChoiceRecorded ==
  ASSUME NEW a, GoodEd(ed, a), watched \in Docs, NEW f \in Fields,
         NEW choice \in {"theirs", "yours"}, Offers(f, choice)
  PROVE  LET p == [ed EXCEPT !.choices = WithChoice(f, choice)] IN
         GoodEd(p, a) /\ p.isSaving = ed.isSaving /\ p.isEditing /\ p.draft = ed.draft
<1> DEFINE theirs == DriftLive(ed, watched)
           yours == IF InConflict(ed, watched, f) \/ ed.choices[f] = Nil
                    THEN ed.draft.spec[f] ELSE ed.choices[f].yours
           chosen == [choice |-> choice, now |-> theirs.spec[f], yours |-> yours]
           p == [ed EXCEPT !.choices = WithChoice(f, choice)]
<1>1. ed.isEditing /\ f \in DriftFields(ed, watched)  BY DEF Offers, Free
<1>2. theirs \in Docs
  <2>1. theirs # Nil  BY <1>1 DEF DriftFields
  <2> QED  BY <2>1, DriftLiveTyped DEF GoodEd
<1>3. ed.draft \in Docs /\ ed.base \in [id : Ids, doc : Docs] /\ Coherent(ed.base.doc, ed.draft, a)
  BY <1>1 DEF GoodEd, Editing
<1>4. ed.choices \in [Fields -> Choices \cup {Nil}]  BY DEF GoodEd, EdTyped, Editors
<1>5. yours \in Values /\ yours \in a[f]
  <2>1. InConflict(ed, watched, f) \/ ed.choices[f] # Nil  BY DEF Offers, ChoiceHolds
  <2>2. InConflict(ed, watched, f) => ed.draft.spec[f] # ed.base.doc.spec[f]  BY DEF InConflict
  <2>3. ed.draft.spec[f] \in Values  BY <1>3 DEF Docs, Specs
  <2>4. ed.choices[f] # Nil => ed.choices[f].yours \in Values /\ ed.choices[f].yours \in a[f]
    BY <1>4 DEF Choices, GoodEd, Chosen
  <2> QED  BY <1>3, <2>1, <2>2, <2>3, <2>4 DEF Coherent
<1>6. WithChoice(f, choice) = [ed.choices EXCEPT ![f] = chosen]  BY DEF WithChoice
<1>7. theirs.spec[f] \in Values  BY <1>2 DEF Docs, Specs
<1> HIDE DEF yours, theirs
<1>8. chosen \in Choices /\ chosen.yours = yours  BY <1>5, <1>7 DEF Choices
<1> HIDE DEF chosen
<1>9. /\ WithChoice(f, choice) \in [Fields -> Choices \cup {Nil}]
      /\ WithChoice(f, choice)[f] = chosen
      /\ \A g \in Fields : g # f => WithChoice(f, choice)[g] = ed.choices[g]
  BY <1>4, <1>6, <1>8
<1>10. EdTyped(p)  BY <1>9 DEF GoodEd, EdTyped, Editors
<1>11. /\ p.isSaving = ed.isSaving /\ p.isEditing = ed.isEditing /\ p.draft = ed.draft
       /\ p.base = ed.base /\ p.choices = WithChoice(f, choice) /\ p.warning = ed.warning
  BY DEF GoodEd, EdTyped, Editors
<1> HIDE DEF p
<1>12. Chosen(p, a)  BY <1>5, <1>8, <1>9, <1>11 DEF Chosen, GoodEd
<1>13. Editing(p, a) /\ Warned(p, a)  BY <1>11 DEF GoodEd, Editing, Warned
<1>14. GoodEd(p, a) /\ p.isSaving = ed.isSaving /\ p.isEditing /\ p.draft = ed.draft
  BY <1>1, <1>10, <1>11, <1>12, <1>13 DEF GoodEd
<1> QED  BY <1>14 DEF p

\* Typing and choosing theirs add the value to the history.
LEMMA TypesKeeps == EditInv /\ Types => EditInv'
<1> SUFFICES ASSUME EditInv, Types PROVE EditInv'  OBVIOUS
<1>1. PICK f \in Fields, v \in UserTypes :
        ed' = Written(ed, f, v) /\ authored' = Recorded(authored, f, v)
  BY DEF Types, Written, Recorded
<1>2. v \in Values  BY ConstAssumption DEF ConstAssumption
<1>3. ed.isEditing  BY DEF Types, Free
<1>4. /\ authored' \in [Fields -> SUBSET Values] /\ Grows(authored, authored')
      /\ v \in authored'[f]
  BY <1>1, <1>2, HistoryRecorded DEF EditInv
<1>5. GoodEd(ed', authored') /\ ed'.isSaving = ed.isSaving
  <2>1. GoodEd(ed, authored)  BY DEF EditInv
  <2> QED  BY <1>1, <1>2, <1>3, <1>4, <2>1, DraftWritten
<1>6. GoodCalls(calls, authored')  BY <1>4, CallsGrow DEF EditInv
<1> QED  BY <1>4, <1>5, <1>6 DEF EditInv, Types

LEMMA ChooseTheirsKeeps == EditInv /\ ChooseTheirs => EditInv'
<1> SUFFICES ASSUME EditInv, ChooseTheirs PROVE EditInv'  OBVIOUS
<1> DEFINE theirs(f) == DriftLive(ed, watched).spec[f]
           p(f) == [ed EXCEPT !.choices = WithChoice(f, "theirs")]
<1>1. PICK f \in Fields :
        /\ Offers(f, "theirs")
        /\ ed' = [ed EXCEPT !.choices = WithChoice(f, "theirs"), !.draft.spec[f] = theirs(f)]
        /\ authored' = Recorded(authored, f, theirs(f))
  BY DEF ChooseTheirs, Recorded
<1>2. GoodEd(ed, authored) /\ watched \in Docs /\ authored \in [Fields -> SUBSET Values]
  BY DEF EditInv
<1>3. theirs(f) \in Values
  <2>1. DriftLive(ed, watched) # Nil  BY <1>1 DEF Offers, DriftFields
  <2>2. DriftLive(ed, watched) \in Docs  BY <1>2, <2>1, DriftLiveTyped DEF GoodEd
  <2> QED  BY <2>2 DEF Docs, Specs
<1>4. GoodEd(p(f), authored) /\ p(f).isSaving = ed.isSaving /\ p(f).isEditing
  BY <1>1, <1>2, ChoiceRecorded
<1>5. ed' = Written(p(f), f, theirs(f))
  BY <1>1, <1>2 DEF Written, GoodEd, EdTyped, Editors
<1> HIDE DEF p, theirs
<1>6. /\ authored' \in [Fields -> SUBSET Values] /\ Grows(authored, authored')
      /\ theirs(f) \in authored'[f]
  BY <1>1, <1>2, <1>3, HistoryRecorded
<1>7. GoodEd(ed', authored') /\ ed'.isSaving = ed.isSaving
  BY <1>3, <1>4, <1>5, <1>6, DraftWritten
<1>8. GoodCalls(calls, authored')  BY <1>6, CallsGrow DEF EditInv
<1> QED  BY <1>6, <1>7, <1>8 DEF EditInv, ChooseTheirs

LEMMA ChooseYoursKeeps == EditInv /\ ChooseYours => EditInv'
<1> SUFFICES ASSUME EditInv, ChooseYours PROVE EditInv'  OBVIOUS
<1> DEFINE yours(f) == IF InConflict(ed, watched, f) THEN ed.draft.spec[f]
                       ELSE ed.choices[f].yours
           p(f) == [ed EXCEPT !.choices = WithChoice(f, "yours")]
<1>1. PICK f \in Fields :
        /\ Offers(f, "yours")
        /\ ed' = [ed EXCEPT !.choices = WithChoice(f, "yours"),
                            !.draft.spec[f] = IF InConflict(ed, watched, f) THEN @
                                              ELSE ed.choices[f].yours]
  BY DEF ChooseYours
<1>2. GoodEd(ed, authored) /\ watched \in Docs /\ authored \in [Fields -> SUBSET Values]
  BY DEF EditInv
<1>3. /\ GoodEd(p(f), authored) /\ p(f).isSaving = ed.isSaving /\ p(f).isEditing
      /\ p(f).draft = ed.draft
  BY <1>1, <1>2, ChoiceRecorded
<1>4. ed' = Written(p(f), f, yours(f))
  BY <1>1, <1>2 DEF Written, GoodEd, EdTyped, Editors
<1>5. yours(f) \in authored[f] \/ yours(f) = p(f).draft.spec[f]
  <2>1. InConflict(ed, watched, f) \/ ed.choices[f] # Nil  BY <1>1 DEF Offers, ChoiceHolds
  <2>2. ed.choices[f] # Nil => ed.choices[f].yours \in authored[f]  BY <1>2 DEF GoodEd, Chosen
  <2>3. p(f).draft.spec[f] = ed.draft.spec[f]  BY <1>3
  <2> HIDE DEF p
  <2> QED  BY <2>1, <2>2, <2>3
<1>6. yours(f) \in Values
  <2>1. ed.draft \in Docs  BY <1>1, <1>2 DEF Offers, Free, GoodEd, Editing
  <2>2. p(f).draft.spec[f] \in Values  BY <1>3, <2>1 DEF Docs, Specs
  <2> HIDE DEF p, yours
  <2> QED  BY <1>2, <1>5, <2>2
<1> HIDE DEF p, yours
<1>7. Grows(authored, authored)  BY DEF Grows
<1>8. GoodEd(ed', authored) /\ ed'.isSaving = ed.isSaving
  BY <1>3, <1>4, <1>5, <1>6, <1>7, DraftWritten
<1> QED  BY <1>8 DEF EditInv, ChooseYours

-----------------------------------------------------------------------------
\* Clicks that send a merge or a save.

LEMMA MergeClickKeeps == EditInv /\ MergeClick => EditInv'
<1> SUFFICES ASSUME EditInv, MergeClick PROVE EditInv'  OBVIOUS
<1>1. ed.isEditing /\ GoodEd(ed, authored) /\ watched \in Docs  BY DEF EditInv, MergeClick, Free
<1>2. /\ ed.draft \in Docs /\ ed.base \in [id : Ids, doc : Docs]
      /\ Coherent(ed.base.doc, ed.draft, authored)
  BY <1>1 DEF GoodEd, Editing
<1>3. MergeBase \in Docs /\ Edited(MergeBase, ed.draft) = Edited(ed.base.doc, ed.draft)
  BY <1>1, MergeBaseGood
<1>4. Coherent(MergeBase, ed.draft, authored)
  BY <1>2, <1>3 DEF Coherent, Edited
<1>5. GoodCall(Merging, authored)
  <2>1. Merging \in Calls  BY <1>2, <1>3 DEF Merging, Calls, Edited
  <2>2. /\ Merging.base = MergeBase /\ Merging.draft = ed.draft /\ Merging.pc = "sent"
        /\ Merging.own = Edited(ed.base.doc, ed.draft)
    BY DEF Merging
  <2> QED  BY <1>3, <1>4, <2>1, <2>2 DEF GoodCall
<1>6. GoodCalls(calls', authored) /\ (Busy(calls) => Busy(calls'))
  BY <1>5, AppendCall DEF EditInv, MergeClick
<1> QED  BY <1>6 DEF EditInv, MergeClick

\* The call of a save is as good as the pair it sends.
LEMMA SavingGood ==
  ASSUME NEW a, NEW pc \in {"owner", "apply"}, NEW id \in Ids, NEW base \in Docs,
         NEW draft \in Docs, Coherent(base, draft, a), watched \in Docs, EdTyped(ed)
  PROVE  GoodCall(Saving(pc, id, base, draft), a) /\ Saving(pc, id, base, draft).kind = "save"
<1>1. ed.verified \in VerifiedStates \cup {Nil}  BY DEF EdTyped, Editors
<1>2. Saving(pc, id, base, draft) \in Calls  BY <1>1 DEF Saving, Calls
<1>3. /\ Saving(pc, id, base, draft).base = base /\ Saving(pc, id, base, draft).draft = draft
      /\ Saving(pc, id, base, draft).pc = pc /\ Saving(pc, id, base, draft).kind = "save"
  BY DEF Saving
<1> QED  BY <1>2, <1>3 DEF GoodCall

LEMMA SaveClickKeeps == EditInv /\ SaveClick => EditInv'
<1> SUFFICES ASSUME EditInv, SaveClick PROVE EditInv'  OBVIOUS
<1>1. ed.isEditing /\ GoodEd(ed, authored) /\ watched \in Docs  BY DEF EditInv, SaveClick, Free
<1>2. /\ ed.draft \in Docs /\ ed.base \in [id : Ids, doc : Docs]
      /\ Coherent(ed.base.doc, ed.draft, authored) /\ EdTyped(ed)
  BY <1>1 DEF GoodEd, Editing
<1>3. GoodCalls(calls', authored) /\ Busy(calls')
  <2>1. ed.base.id \in Ids /\ ed.base.doc \in Docs  BY <1>2
  <2>2. /\ GoodCall(Saving("owner", ed.base.id, ed.base.doc, ed.draft), authored)
        /\ Saving("owner", ed.base.id, ed.base.doc, ed.draft).kind = "save"
    BY <1>1, <1>2, <2>1, SavingGood
  <2> QED  BY <2>2, AppendCall DEF EditInv, SaveClick
<1> DEFINE p == [ed EXCEPT !.isSaving = TRUE]
<1>4. EdTyped(p)  BY <1>2 DEF EdTyped, Editors
<1>5. /\ p.isEditing = ed.isEditing /\ p.draft = ed.draft
      /\ p.base = ed.base /\ p.choices = ed.choices /\ p.warning = ed.warning
  BY <1>2 DEF EdTyped, Editors
<1>6. ed' = p  BY DEF SaveClick
<1> HIDE DEF p
<1>7. GoodEd(ed', authored)  BY <1>1, <1>4, <1>5, <1>6, FrameGood
<1> QED  BY <1>3, <1>7 DEF EditInv, SaveClick

\* performSave marks the save and remembers the snapshot.
LEMMA PerformingGood ==
  ASSUME NEW e, NEW a, NEW w \in Docs \cup {Nil}, GoodEd(e, a)
  PROVE  GoodEd(Performing(e, w), a)
<1> DEFINE p == Performing(e, w)
<1>1. EdTyped(p)  BY DEF GoodEd, EdTyped, Editors, Performing
<1>2. /\ p.isEditing = e.isEditing /\ p.draft = e.draft
      /\ p.base = e.base /\ p.choices = e.choices /\ p.warning = e.warning
  BY DEF GoodEd, EdTyped, Editors, Performing
<1> HIDE DEF p
<1>3. GoodEd(p, a)  BY <1>1, <1>2, FrameGood
<1> QED  BY <1>3 DEF p

LEMMA ConfirmKeeps == EditInv /\ ConfirmOwnershipAndSave => EditInv'
<1> SUFFICES ASSUME EditInv, ConfirmOwnershipAndSave PROVE EditInv'  OBVIOUS
<1> DEFINE p == [ed EXCEPT !.warning = Nil]
<1>1. GoodEd(ed, authored) /\ EdTyped(ed) /\ watched \in Docs  BY DEF EditInv, GoodEd
<1>2. ed.warning \in Warnings /\ Coherent(ed.warning.base, ed.warning.draft, authored)
  BY <1>1 DEF ConfirmOwnershipAndSave, GoodEd, EdTyped, Editors, Warned
<1>3. GoodCalls(calls', authored) /\ Busy(calls')
  <2>1. ed.warning.id \in Ids /\ ed.warning.base \in Docs /\ ed.warning.draft \in Docs
    BY <1>2 DEF Warnings
  <2>2. /\ GoodCall(Saving("apply", ed.warning.id, ed.warning.base, ed.warning.draft), authored)
        /\ Saving("apply", ed.warning.id, ed.warning.base, ed.warning.draft).kind = "save"
    BY <1>1, <1>2, <2>1, SavingGood
  <2> QED  BY <2>2, AppendCall DEF EditInv, ConfirmOwnershipAndSave
<1>4. EdTyped(p)  BY <1>1 DEF EdTyped, Editors
<1>5. /\ p.isEditing = ed.isEditing /\ p.draft = ed.draft
      /\ p.base = ed.base /\ p.choices = ed.choices /\ p.warning = Nil
  BY <1>1 DEF EdTyped, Editors
<1>6. ed' = Settle(Performing(p, watched), watched)  BY DEF ConfirmOwnershipAndSave
<1> HIDE DEF p
<1>7. GoodEd(p, authored)  BY <1>1, <1>4, <1>5 DEF GoodEd, Editing, Chosen, Warned
<1>8. GoodEd(Performing(p, watched), authored)  BY <1>1, <1>7, PerformingGood
<1>9. GoodEd(ed', authored)  BY <1>1, <1>6, <1>8, SettleGood
<1> QED  BY <1>3, <1>9 DEF EditInv, ConfirmOwnershipAndSave

-----------------------------------------------------------------------------
\* Steps of a merge or save under way.

\* A call that goes on.
LEMMA AnsweredGood ==
  ASSUME EditInv, NEW c \in DOMAIN calls, calls[c] # Nil, NEW pc, NEW ans,
         GoodAnswer(calls[c], pc, ans)
  PROVE  /\ GoodCalls(Answered(c, pc, ans), authored)
         /\ Busy(calls) \/ calls[c].kind = "save" => Busy(Answered(c, pc, ans))
<1> DEFINE y == WithAnswer(calls[c], pc, ans)
<1>1. GoodCalls(calls, authored) /\ GoodCall(calls[c], authored)  BY DEF EditInv, GoodCalls
<1>2. GoodCall(y, authored) /\ y.kind = calls[c].kind /\ y # Nil  BY <1>1, AnswerCall
<1>3. Answered(c, pc, ans) = [calls EXCEPT ![c] = y]  BY DEF Answered, WithAnswer
<1> HIDE DEF y
<1> DEFINE ds == [calls EXCEPT ![c] = y]
<1>4. /\ GoodCalls(ds, authored)
      /\ y # Nil /\ y.kind = "save" => Busy(ds)
      /\ Busy(calls) /\ calls[c] # Nil /\ calls[c].kind # "save" => Busy(ds)
  BY <1>1, <1>2, PutCall
<1> QED  BY <1>2, <1>3, <1>4

\* A call that ends.
LEMMA EndedGood ==
  ASSUME EditInv, NEW c \in DOMAIN calls, calls[c] # Nil
  PROVE  /\ GoodCalls(Ended(c), authored)
         /\ Busy(calls) /\ calls[c].kind # "save" => Busy(Ended(c))
<1> DEFINE ds == [calls EXCEPT ![c] = Nil]
<1>1. GoodCalls(calls, authored)  BY DEF EditInv
<1>2. /\ GoodCalls(ds, authored)
      /\ Busy(calls) /\ calls[c] # Nil /\ calls[c].kind # "save" => Busy(ds)
  BY <1>1, PutCall
<1> QED  BY <1>2 DEF Ended

LEMMA AnswerTyped ==
  ASSUME NEW kind \in {"merged", "overlap", "replaced", "applied", "stored", "error"},
         NEW doc \in Docs, NEW draft \in Docs
  PROVE  /\ Answer(kind, doc, draft) \in Answers
         /\ Answer(kind, doc, draft).kind = kind /\ Answer(kind, doc, draft).doc = doc
         /\ Answer(kind, doc, draft).draft = draft
BY DEF Answer, Answers

LEMMA MergeAnsweredKeeps ==
  ASSUME EditInv, NEW c \in DOMAIN calls, MergeAnswered(c)
  PROVE  EditInv'
<1> DEFINE m == calls[c]
           merged == [live EXCEPT !.spec = Patched(live, m.base, m.draft)]
<1>1. m # Nil /\ m.kind = "merge" /\ live \in Docs  BY DEF EditInv, MergeAnswered, At
<1>2. m.base \in Docs /\ m.draft \in Docs  BY <1>1 DEF EditInv, GoodCalls, GoodCall, Calls
<1>3. merged \in Docs  BY <1>1, <1>2, PatchedTyped
<1>4. \/ calls' = Answered(c, "answered", Answer("replaced", live, live))
      \/ calls' = Answered(c, "answered", Answer("overlap", live, live))
      \/ calls' = Answered(c, "answered", Answer("merged", live, merged))
      \/ calls' = Ended(c)
  BY DEF MergeAnswered
<1>5. UNCHANGED <<live, watched, read, ed, authored>>  BY DEF MergeAnswered
<1>6. GoodCalls(calls', authored) /\ (Busy(calls) => Busy(calls'))
  <2>1. ASSUME NEW kind \in {"replaced", "overlap"}
        PROVE  GoodAnswer(m, "answered", Answer(kind, live, live))
    BY <1>1, AnswerTyped DEF GoodAnswer
  <2>2. GoodAnswer(m, "answered", Answer("merged", live, merged))
    <3> DEFINE ans == Answer("merged", live, merged)
    <3>1. ans \in Answers /\ ans.doc = live /\ ans.draft = merged  BY <1>1, <1>3, AnswerTyped
    <3>2. ans.draft = [ans.doc EXCEPT !.spec = Patched(ans.doc, m.base, m.draft)]  BY <3>1
    <3> HIDE DEF ans
    <3>3. GoodAnswer(m, "answered", ans)  BY <3>1, <3>2 DEF GoodAnswer
    <3> QED  BY <3>3 DEF ans
  <2>3. CASE calls' = Ended(c)  BY <1>1, <2>3, EndedGood
  <2>4. CASE \E ans : GoodAnswer(m, "answered", ans) /\ calls' = Answered(c, "answered", ans)
    BY <1>1, <2>4, AnsweredGood
  <2> QED  BY <1>4, <2>1, <2>2, <2>3, <2>4
<1> QED  BY <1>5, <1>6 DEF EditInv

LEMMA AdoptConflictGood ==
  ASSUME NEW e, NEW a, GoodEd(e, a), watched \in Docs, NEW ans \in Answers
  PROVE  /\ GoodEd(AdoptConflict(e, ans), a)
         /\ AdoptConflict(e, ans).isSaving = e.isSaving
<1> DEFINE r == e.replacedByConflict \/ ans.kind = "replaced"
           l == [doc |-> ans.doc, watched |-> watched]
           p == [e EXCEPT !.driftForced = TRUE, !.replacedByConflict = r, !.conflictLive = l]
<1>1. r \in BOOLEAN  OBVIOUS
<1>2. l \in [doc : Docs, watched : Docs]  BY DEF Answers
<1>3. AdoptConflict(e, ans) = p  BY DEF AdoptConflict
<1> HIDE DEF r, l
<1>4. EdTyped(p)  BY <1>1, <1>2 DEF GoodEd, EdTyped, Editors
<1>5. /\ p.isSaving = e.isSaving /\ p.isEditing = e.isEditing /\ p.draft = e.draft
      /\ p.base = e.base /\ p.choices = e.choices /\ p.warning = e.warning
  BY DEF GoodEd, EdTyped, Editors
<1> HIDE DEF p
<1>6. GoodEd(p, a)  BY <1>4, <1>5, FrameGood
<1> QED  BY <1>3, <1>5, <1>6

\* What MergeReturns puts in the place of baseline and draft.
Merged(e, ans) ==
  [e EXCEPT !.base = [id |-> IdOf(ans.doc), doc |-> ans.doc],
            !.draft = ans.draft, !.latest = IdOf(ans.doc), !.override = ans.doc,
            !.driftForced = FALSE, !.conflictLive = Nil, !.replacedByConflict = FALSE,
            !.choices = NoChoices, !.verified = Nil, !.pending = Nil]

LEMMA MergedGood ==
  ASSUME NEW e, NEW a, GoodEd(e, a), NEW ans \in Answers, Coherent(ans.doc, ans.draft, a)
  PROVE  /\ GoodEd(Merged(e, ans), a)
         /\ Merged(e, ans).isSaving = e.isSaving
         /\ Merged(e, ans).isEditing = e.isEditing
         /\ Merged(e, ans).draft = ans.draft
<1> DEFINE b == [id |-> IdOf(ans.doc), doc |-> ans.doc]
           p == Merged(e, ans)
<1>1. ans.doc \in Docs /\ ans.draft \in Docs  BY DEF Answers
<1>2. IdOf(ans.doc) \in Ids /\ b \in [id : Ids, doc : Docs]  BY <1>1, IdTyped
<1>3. NoChoices \in [Fields -> Choices \cup {Nil}]  BY DEF NoChoices
<1>4. EdTyped(p)  BY <1>1, <1>2, <1>3, ZenonT(60) DEF GoodEd, EdTyped, Editors, Merged
<1>5. /\ p.isSaving = e.isSaving /\ p.isEditing = e.isEditing /\ p.draft = ans.draft
      /\ p.base = b /\ p.choices = NoChoices /\ p.warning = e.warning
  BY DEF GoodEd, EdTyped, Editors, Merged
<1> HIDE DEF p
<1>6. Editing(p, a)  BY <1>1, <1>2, <1>5 DEF Editing
<1>7. Chosen(p, a) /\ Warned(p, a)  BY <1>5 DEF GoodEd, Chosen, Warned, NoChoices
<1>8. GoodEd(p, a)  BY <1>4, <1>6, <1>7 DEF GoodEd
<1> QED  BY <1>5, <1>8 DEF p

LEMMA MergeReturnsKeeps ==
  ASSUME EditInv, NEW c \in DOMAIN calls, MergeReturns(c)
  PROVE  /\ EditInv'
         /\ calls[c].answer.kind = "merged" /\ ed.isEditing => ed'.draft = calls[c].answer.draft
<1> DEFINE m == calls[c]
           ans == calls[c].answer
<1>1. /\ m # Nil /\ m.kind = "merge" /\ m.pc = "answered" /\ GoodCall(m, authored)
      /\ GoodEd(ed, authored) /\ watched \in Docs
  BY DEF EditInv, GoodCalls, MergeReturns, At
<1>2. ans \in Answers  BY <1>1 DEF GoodCall
<1>3. GoodCalls(calls', authored) /\ (Busy(calls) => Busy(calls'))
  BY <1>1, EndedGood DEF MergeReturns
<1>4. CASE ans.kind = "merged"
  <2>1. ed' = Settle(Merged(ed, ans), watched)  BY <1>4 DEF MergeReturns, Merged
  <2>2. Coherent(ans.doc, ans.draft, authored)
    <3>1. m.base \in Docs /\ m.draft \in Docs /\ ans.doc \in Docs
          /\ Coherent(m.base, m.draft, authored)
      BY <1>1, <1>2 DEF GoodCall, Calls, Answers
    <3>2. ans.draft = [ans.doc EXCEPT !.spec = Patched(ans.doc, m.base, m.draft)]
      BY <1>1, <1>4 DEF GoodCall
    <3>3. ans.draft.spec = Patched(ans.doc, m.base, m.draft)  BY <3>1, <3>2 DEF Docs
    <3> QED  BY <3>1, <3>3, PatchedAuthored DEF Coherent
  <2>3. /\ GoodEd(Merged(ed, ans), authored) /\ Merged(ed, ans).isSaving = ed.isSaving
        /\ Merged(ed, ans).isEditing = ed.isEditing /\ Merged(ed, ans).draft = ans.draft
    BY <1>1, <1>2, <2>2, MergedGood
  <2>4. /\ GoodEd(ed', authored) /\ ed'.isSaving = ed.isSaving
        /\ ed.isEditing => ed'.draft = ans.draft
    BY <1>1, <2>1, <2>3, SettleGood
  <2> QED  BY <1>3, <2>4 DEF EditInv, MergeReturns, ReadAgain
<1>5. CASE ans.kind # "merged"
  <2>1. ed' = Settle(AdoptConflict(ed, ans), watched)  BY <1>5 DEF MergeReturns
  <2>2. GoodEd(ed', authored) /\ ed'.isSaving = ed.isSaving
    BY <1>1, <1>2, <2>1, AdoptConflictGood, SettleGood
  <2> QED  BY <1>3, <1>5, <2>2 DEF EditInv, MergeReturns, ReadAgain
<1> QED  BY <1>4, <1>5

\* The ownership check lets the save go on, or opens the dialog.
LEMMA OwnershipAnsweredKeeps ==
  ASSUME EditInv, NEW c \in DOMAIN calls, OwnershipAnswered(c)
  PROVE  EditInv'
<1> DEFINE x == calls[c]
<1>1. /\ x # Nil /\ x.kind = "save" /\ GoodCall(x, authored)
      /\ GoodEd(ed, authored) /\ watched \in Docs
  BY DEF EditInv, GoodCalls, OwnershipAnswered, At
<1>2. /\ x.id \in Ids /\ x.base \in Docs /\ x.draft \in Docs /\ x.snapshot \in Docs \cup {Nil}
      /\ Coherent(x.base, x.draft, authored)
  BY <1>1 DEF GoodCall, Calls
<1>3. UNCHANGED <<live, watched, read, authored>>  BY DEF OwnershipAnswered
<1>4. CASE ed' = Settle(Performing(ed, x.snapshot), watched) /\ calls' = Advance(c, "apply")
  <2>1. GoodAnswer(x, "apply", Nil)  BY DEF GoodAnswer
  <2>2. GoodCalls(calls', authored) /\ Busy(calls')
    BY <1>1, <1>4, <2>1, AnsweredGood DEF Advance
  <2>3. GoodEd(ed', authored)  BY <1>1, <1>2, <1>4, PerformingGood, SettleGood
  <2> QED  BY <1>3, <2>2, <2>3 DEF EditInv
<1> DEFINE w == [id |-> x.id, base |-> x.base, draft |-> x.draft]
           p == [ed EXCEPT !.isSaving = FALSE, !.warning = w]
<1>5. CASE ed' = p /\ calls' = Ended(c)
  <2>1. w \in Warnings /\ w.base = x.base /\ w.draft = x.draft  BY <1>2 DEF Warnings
  <2> HIDE DEF w
  <2>2. EdTyped(p)  BY <1>1, <2>1, ZenonT(60) DEF GoodEd, EdTyped, Editors
  <2>3. /\ p.isSaving = FALSE /\ p.isEditing = ed.isEditing /\ p.draft = ed.draft
        /\ p.base = ed.base /\ p.choices = ed.choices /\ p.warning = w
    BY <1>1 DEF GoodEd, EdTyped, Editors
  <2> HIDE DEF p
  <2>4. GoodEd(p, authored)
    BY <1>1, <1>2, <2>1, <2>2, <2>3 DEF GoodEd, Editing, Chosen, Warned
  <2>5. GoodCalls(calls', authored)  BY <1>1, <1>5, EndedGood
  <2> QED  BY <1>3, <1>5, <2>3, <2>4, <2>5 DEF EditInv
<1> QED  BY <1>4, <1>5 DEF OwnershipAnswered

LEMMA ApplyCheckedKeeps ==
  ASSUME EditInv, NEW c \in DOMAIN calls, ApplyChecked(c)
  PROVE  EditInv'
<1> DEFINE x == calls[c]
<1>1. x # Nil /\ x.kind = "save" /\ live \in Docs  BY DEF EditInv, ApplyChecked, At
<1>2. GoodAnswer(x, "patch", Nil)  BY DEF GoodAnswer
<1>3. ASSUME NEW kind \in {"replaced", "error"}
      PROVE  GoodAnswer(x, "answered", Answer(kind, live, live))
  BY <1>1, AnswerTyped DEF GoodAnswer
<1>4. \E pc, ans : GoodAnswer(x, pc, ans) /\ calls' = Answered(c, pc, ans)
  BY <1>2, <1>3 DEF ApplyChecked, Advance
<1>5. GoodCalls(calls', authored) /\ Busy(calls')  BY <1>1, <1>4, AnsweredGood
<1> QED  BY <1>5 DEF EditInv, ApplyChecked

LEMMA VerifyAnsweredKeeps ==
  ASSUME EditInv, NEW c \in DOMAIN calls, VerifyAnswered(c)
  PROVE  EditInv'
<1> DEFINE x == calls[c]
<1>1. x # Nil /\ x.kind = "save" /\ live \in Docs  BY DEF EditInv, VerifyAnswered, At
<1>2. ASSUME NEW kind \in {"stored", "error"}
      PROVE  GoodAnswer(x, "verified", Answer(kind, live, live))
  BY <1>1, AnswerTyped DEF GoodAnswer
<1>3. \E ans : GoodAnswer(x, "verified", ans) /\ calls' = Answered(c, "verified", ans)
  BY <1>2 DEF VerifyAnswered
<1>4. GoodCalls(calls', authored) /\ Busy(calls')  BY <1>1, <1>3, AnsweredGood
<1> QED  BY <1>4 DEF EditInv, VerifyAnswered

\* The patch writes what it sends, and nothing the user did not type or choose.
LEMMA ApplyLandsKeeps ==
  ASSUME EditInv, NEW c \in DOMAIN calls, ApplyLands(c)
  PROVE  /\ EditInv'
         /\ \A f \in Fields : live'.spec[f] # live.spec[f] => live'.spec[f] \in authored[f]
<1> DEFINE x == calls[c]
           spec == Patched(live, x.base, x.draft)
<1>1. /\ x # Nil /\ x.kind = "save" /\ live \in Docs /\ GoodCall(x, authored)
  BY DEF EditInv, GoodCalls, ApplyLands, At
<1>2. x.base \in Docs /\ x.draft \in Docs /\ Coherent(x.base, x.draft, authored)
  BY <1>1 DEF GoodCall, Calls
<1>3. spec \in Specs  BY <1>1, <1>2, PatchedTyped
<1>4. \A f \in Fields : spec[f] # live.spec[f] => spec[f] \in authored[f]
  BY <1>2, PatchedAuthored
<1>5. /\ spec = live.spec \/ live.rv < MaxRv
      /\ live' = IF spec = live.spec THEN live ELSE [live EXCEPT !.rv = @ + 1, !.spec = spec]
  BY DEF ApplyLands
<1> HIDE DEF spec
<1>6. live' \in Docs /\ live'.spec = spec
  <2>1. CASE spec = live.spec  BY <1>1, <1>5, <2>1
  <2>2. CASE spec # live.spec
    <3>1. live.rv < MaxRv  BY <1>5, <2>2
    <3>2. live.rv + 1 \in Rvs  BY <1>1, <3>1, ConstAssumption DEF Docs, Rvs, ConstAssumption
    <3> QED  BY <1>1, <1>3, <1>5, <2>2, <3>2 DEF Docs
  <2> QED  BY <2>1, <2>2
<1>7. GoodCalls(calls', authored) /\ Busy(calls')
  <2>1. PICK kind \in {"applied", "error"} :
          calls' = Answered(c, "answered", Answer(kind, live', live'))
    BY DEF ApplyLands
  <2>2. GoodAnswer(x, "answered", Answer(kind, live', live'))
    BY <1>1, <1>6, AnswerTyped DEF GoodAnswer
  <2> QED  BY <1>1, <2>1, <2>2, AnsweredGood
<1> QED  BY <1>4, <1>6, <1>7 DEF EditInv, ApplyLands

LEMMA UnsavedGood ==
  ASSUME NEW e, NEW a, GoodEd(e, a)
  PROVE  /\ GoodEd(Unsaved(e), a) /\ ~Unsaved(e).isSaving
         /\ GoodEd([Unsaved(e) EXCEPT !.verified = Nil], a)
         /\ ~[Unsaved(e) EXCEPT !.verified = Nil].isSaving
<1> DEFINE p == Unsaved(e)
           q == [p EXCEPT !.verified = Nil]
<1>1. EdTyped(p)  BY DEF GoodEd, EdTyped, Editors, Unsaved
<1>2. /\ p.isSaving = FALSE /\ p.isEditing = e.isEditing /\ p.draft = e.draft
      /\ p.base = e.base /\ p.choices = e.choices /\ p.warning = e.warning
  BY DEF GoodEd, EdTyped, Editors, Unsaved
<1> HIDE DEF p
<1>3. EdTyped(q)  BY <1>1 DEF EdTyped, Editors
<1>4. /\ q.isSaving = p.isSaving /\ q.isEditing = p.isEditing /\ q.draft = p.draft
      /\ q.base = p.base /\ q.choices = p.choices /\ q.warning = p.warning
  BY <1>1 DEF EdTyped, Editors
<1> HIDE DEF q
<1>5. GoodEd(p, a) /\ GoodEd(q, a)  BY <1>1, <1>2, <1>3, <1>4, FrameGood
<1> QED  BY <1>2, <1>4, <1>5 DEF p, q

LEMMA ApplyReturnsKeeps ==
  ASSUME EditInv, NEW c \in DOMAIN calls, ApplyReturns(c)
  PROVE  EditInv'
<1> DEFINE x == calls[c]
           ans == calls[c].answer
           id == [uid |-> x.id.uid, rv |-> ans.doc.rv]
           doc == [x.draft EXCEPT !.rv = ans.doc.rv]
           p == [ed EXCEPT !.latest = id, !.override = doc]
<1>1. /\ x # Nil /\ x.kind = "save" /\ x.pc = "answered" /\ GoodCall(x, authored)
      /\ GoodEd(ed, authored) /\ watched \in Docs
  BY DEF EditInv, GoodCalls, ApplyReturns, At
<1>2. ans \in Answers  BY <1>1 DEF GoodCall
<1>3. UNCHANGED <<live, watched, authored>> /\ read' \in {read, <<>>}
  BY DEF ApplyReturns, ReadAgain
<1>4. CASE ed' = Settle(p, watched) /\ calls' = Advance(c, "verify")
  <2>1. x.id \in Ids /\ x.draft \in Docs /\ ans.doc \in Docs
    BY <1>1, <1>2 DEF GoodCall, Calls, Answers
  <2>2. id \in Ids /\ doc \in Docs  BY <2>1 DEF Ids, Docs
  <2> HIDE DEF id, doc
  <2>3. EdTyped(p)  BY <1>1, <2>2 DEF GoodEd, EdTyped, Editors
  <2>4. /\ p.isEditing = ed.isEditing /\ p.draft = ed.draft
        /\ p.base = ed.base /\ p.choices = ed.choices /\ p.warning = ed.warning
    BY <1>1 DEF GoodEd, EdTyped, Editors
  <2> HIDE DEF p
  <2>5. GoodEd(p, authored)  BY <1>1, <2>3, <2>4, FrameGood
  <2>6. GoodEd(ed', authored)  BY <1>1, <1>4, <2>5, SettleGood
  <2>7. GoodAnswer(x, "verify", Nil)  BY DEF GoodAnswer
  <2>8. GoodCalls(calls', authored) /\ Busy(calls')
    BY <1>1, <1>4, <2>7, AnsweredGood DEF Advance
  <2> QED  BY <1>3, <2>6, <2>8 DEF EditInv
<1>5. CASE /\ calls' = Ended(c)
           /\ ed' \in {Settle(Unsaved(AdoptConflict(ed, ans)), watched),
                       Settle([Unsaved(ed) EXCEPT !.verified = Nil], watched)}
  <2>1. GoodCalls(calls', authored)  BY <1>1, <1>5, EndedGood
  <2>2. GoodEd(AdoptConflict(ed, ans), authored)  BY <1>1, <1>2, AdoptConflictGood
  <2>3. CASE ed' = Settle(Unsaved(AdoptConflict(ed, ans)), watched)
    <3>1. GoodEd(ed', authored) /\ ~ed'.isSaving  BY <1>1, <2>2, <2>3, UnsavedGood, SettleGood
    <3> QED  BY <1>3, <2>1, <3>1 DEF EditInv
  <2>4. CASE ed' = Settle([Unsaved(ed) EXCEPT !.verified = Nil], watched)
    <3> DEFINE q == [Unsaved(ed) EXCEPT !.verified = Nil]
    <3>1. GoodEd(q, authored) /\ ~q.isSaving  BY <1>1, UnsavedGood
    <3> HIDE DEF q
    <3>2. ed' = Settle(q, watched)  BY <2>4 DEF q
    <3>3. GoodEd(ed', authored) /\ ~ed'.isSaving  BY <1>1, <3>1, <3>2, SettleGood
    <3> QED  BY <1>3, <2>1, <3>3 DEF EditInv
  <2> QED  BY <1>5, <2>3, <2>4
<1> QED  BY <1>4, <1>5 DEF ApplyReturns

LEMMA VerifyReturnsKeeps ==
  ASSUME EditInv, NEW c \in DOMAIN calls, VerifyReturns(c)
  PROVE  EditInv'
<1> DEFINE x == calls[c]
           ans == calls[c].answer
           r == WithRecent(ed.recent, x.seen)
           v == [id |-> IdOf(ans.doc), spec |-> ans.doc.spec]
           p == [ed EXCEPT !.latest = IdOf(ans.doc), !.override = ans.doc,
                           !.recent = r, !.verified = v]
           q == [ed EXCEPT !.verified = Nil]
           checked == IF ans.kind = "stored" THEN p ELSE q
           k == [Exit(checked) EXCEPT !.pending = x.snapshot]
<1>1. /\ x # Nil /\ x.kind = "save" /\ x.pc = "verified" /\ GoodCall(x, authored)
      /\ GoodEd(ed, authored) /\ watched \in Docs
  BY DEF EditInv, GoodCalls, VerifyReturns, At
<1>2. ans.doc \in Docs /\ x.snapshot \in Docs \cup {Nil}
  BY <1>1 DEF GoodCall, Calls, Answers
<1>3. EdTyped(checked)
  <2>1. IdOf(ans.doc) \in Ids /\ v \in VerifiedStates
    BY <1>2, IdTyped DEF VerifiedStates, Docs
  <2> HIDE DEF v, r
  <2>2. EdTyped(p)  BY <1>1, <1>2, <2>1 DEF GoodEd, EdTyped, Editors
  <2>3. EdTyped(q)  BY <1>1 DEF GoodEd, EdTyped, Editors
  <2> HIDE DEF p, q
  <2> QED  BY <2>2, <2>3
<1>4. ed' = Settle(k, watched)  BY DEF VerifyReturns
<1> HIDE DEF checked
<1>5. GoodEd(Exit(checked), authored) /\ ~Exit(checked).isSaving  BY <1>3, ExitGood
<1> DEFINE g == Exit(checked)
<1>6. k = [g EXCEPT !.pending = x.snapshot]  OBVIOUS
<1> HIDE DEF g, k
<1>7. GoodEd(g, authored) /\ ~g.isSaving  BY <1>5 DEF g
<1>8. EdTyped(k)  BY <1>2, <1>6, <1>7 DEF GoodEd, EdTyped, Editors
<1>9. /\ k.isSaving = g.isSaving /\ k.isEditing = g.isEditing /\ k.draft = g.draft
      /\ k.base = g.base /\ k.choices = g.choices /\ k.warning = g.warning
  BY <1>6, <1>7 DEF GoodEd, EdTyped, Editors
<1>10. GoodEd(k, authored)  BY <1>7, <1>8, <1>9, FrameGood
<1>11. GoodEd(ed', authored) /\ ~ed'.isSaving  BY <1>1, <1>4, <1>7, <1>9, <1>10, SettleGood
<1>12. GoodAnswer(x, "refresh", Nil)  BY DEF GoodAnswer
<1>13. GoodCalls(calls', authored)
  BY <1>1, <1>12, AnsweredGood DEF VerifyReturns, Advance
<1> QED  BY <1>11, <1>13 DEF EditInv, VerifyReturns, ReadAgain

LEMMA SaveEndsKeeps ==
  ASSUME EditInv, NEW c \in DOMAIN calls, SaveEnds(c)
  PROVE  EditInv'
<1> DEFINE p == [ed EXCEPT !.isSaving = FALSE]
<1>1. calls[c] # Nil /\ GoodEd(ed, authored)  BY DEF EditInv, SaveEnds, At
<1>2. GoodCalls(calls', authored)  BY <1>1, EndedGood DEF SaveEnds
<1>3. EdTyped(p)  BY <1>1, ZenonT(60) DEF GoodEd, EdTyped, Editors
<1>4. /\ p.isSaving = FALSE /\ p.isEditing = ed.isEditing /\ p.draft = ed.draft
      /\ p.base = ed.base /\ p.choices = ed.choices /\ p.warning = ed.warning
  BY <1>1 DEF GoodEd, EdTyped, Editors
<1>5. ed' = p  BY DEF SaveEnds
<1> HIDE DEF p
<1>6. GoodEd(p, authored)  BY <1>1, <1>3, <1>4, FrameGood
<1> QED  BY <1>2, <1>4, <1>5, <1>6 DEF EditInv, SaveEnds

-----------------------------------------------------------------------------
LEMMA NextInv == EditInv /\ [Next]_vars => EditInv'
<1> SUFFICES ASSUME EditInv, [Next]_vars PROVE EditInv'  OBVIOUS
<1>1. CASE UNCHANGED vars  BY <1>1 DEF vars, EditInv
<1>2. CASE OtherWrites \/ Recreated \/ ReadStarts \/ ReadAnswered  BY <1>2, ClusterSteps
<1>3. CASE ReadLands \/ EnterEdit \/ Cancel \/ EditNewObject \/ CancelOwnershipWarning
  BY <1>3, ReadLandsKeeps, EnterEditKeeps, CancelKeeps, EditNewObjectKeeps, CancelWarningKeeps
<1>4. CASE Types \/ ChooseTheirs \/ ChooseYours
  BY <1>4, TypesKeeps, ChooseTheirsKeeps, ChooseYoursKeeps
<1>5. CASE MergeClick \/ SaveClick \/ ConfirmOwnershipAndSave
  BY <1>5, MergeClickKeeps, SaveClickKeeps, ConfirmKeeps
<1>6. ASSUME NEW c \in DOMAIN calls,
             \/ MergeAnswered(c) \/ MergeReturns(c)
             \/ OwnershipAnswered(c) \/ ApplyChecked(c) \/ ApplyLands(c) \/ ApplyReturns(c)
             \/ VerifyAnswered(c) \/ VerifyReturns(c) \/ SaveEnds(c)
      PROVE  EditInv'
  BY <1>6, MergeAnsweredKeeps, MergeReturnsKeeps, OwnershipAnsweredKeeps, ApplyCheckedKeeps,
     ApplyLandsKeeps, ApplyReturnsKeeps, VerifyAnsweredKeeps, VerifyReturnsKeeps, SaveEndsKeeps
<1> QED  BY <1>1, <1>2, <1>3, <1>4, <1>5, <1>6 DEF Next

\* Every text under way, in the editor, in the ownership dialog, in a merge or
\* in a save, differs from its baseline only by what the user typed or chose.
THEOREM EditInvariant == Spec => []EditInv
BY InitInv, NextInv, PTL DEF Spec

\* performSave and exitEditMode never leave the editor disabled without a save.
THEOREM SavingAlwaysEnds == Spec => []SavingEnds
<1>1. EditInv => SavingEnds  BY DEF EditInv, SavingEnds, Busy
<1> QED  BY <1>1, EditInvariant, PTL

\* A step that changes the object is another client's, which leaves the calls
\* alone, or a patch that lands.
LEMMA SaveStep ==
  ASSUME EditInv, [Next]_vars, NEW c \in DOMAIN calls, calls'[c] # calls[c], NEW f \in Fields,
         live'.spec[f] # live.spec[f]
  PROVE  live'.spec[f] \in authored[f]
<1>1. ~(OtherWrites \/ Recreated)  BY DEF OtherWrites, Recreated
<1>2. live' # live  OBVIOUS
<1>3. PICK d \in DOMAIN calls : ApplyLands(d)
  BY <1>1, <1>2 DEF Next, vars, ReadStarts, ReadAnswered, ReadLands, EnterEdit, Types, ChooseTheirs,
     ChooseYours, Cancel, EditNewObject, MergeClick, SaveClick, ConfirmOwnershipAndSave,
     CancelOwnershipWarning, MergeAnswered, MergeReturns, OwnershipAnswered, ApplyChecked,
     ApplyReturns, VerifyAnswered, VerifyReturns, SaveEnds
<1> QED  BY <1>3, ApplyLandsKeeps

\* Whatever applyObjectYaml's patch changes in the object as it has become, the
\* user typed or chose: others' changes to other fields survive every save.
THEOREM SavesKeepOthers == Spec => SaveKeepsOthers
<1> DEFINE A == \A c \in DOMAIN calls :
                  At(c, "save", "patch") /\ calls'[c] # calls[c] =>
                    \A f \in Fields :
                      live'.spec[f] # live.spec[f] => live'.spec[f] \in authored[f]
<1>1. EditInv /\ [Next]_vars => [A]_vars  BY SaveStep
<1>2. Spec => [][A]_vars
  <2> HIDE DEF A
  <2> QED  BY <1>1, EditInvariant, PTL DEF Spec
<1> QED  BY <1>2 DEF SaveKeepsOthers

\* Only MergeReturns(c) ends a merge that was answered.
LEMMA OnlyMergeReturns ==
  ASSUME EditInv, [Next]_vars, NEW c \in DOMAIN calls, At(c, "merge", "answered"), calls'[c] = Nil
  PROVE  MergeReturns(c)
<1>1. calls[c] # Nil /\ calls[c].kind = "merge" /\ calls[c].pc = "answered"  BY DEF At
<1>2. calls \in Seq(Calls \cup {Nil})  BY DEF EditInv, GoodCalls
<1>3. ASSUME NEW x, calls' = Append(calls, x) PROVE FALSE
  BY <1>1, <1>2, <1>3
<1>4. ASSUME NEW d \in DOMAIN calls, NEW y, calls' = [calls EXCEPT ![d] = y], d # c PROVE FALSE
  BY <1>1, <1>4
<1>5. calls' # calls  BY <1>1
<1>6. ~(MergeClick \/ SaveClick \/ ConfirmOwnershipAndSave)
  BY <1>3 DEF MergeClick, SaveClick, ConfirmOwnershipAndSave
<1>7. PICK d \in DOMAIN calls :
             \/ MergeAnswered(d) \/ MergeReturns(d)
             \/ OwnershipAnswered(d) \/ ApplyChecked(d) \/ ApplyLands(d) \/ ApplyReturns(d)
             \/ VerifyAnswered(d) \/ VerifyReturns(d) \/ SaveEnds(d)
  BY <1>5, <1>6 DEF Next, vars, OtherWrites, Recreated, ReadStarts, ReadAnswered, ReadLands,
     EnterEdit, Types, ChooseTheirs, ChooseYours, Cancel, EditNewObject, CancelOwnershipWarning
<1>8. \E y : calls' = [calls EXCEPT ![d] = y]
  <2>1. \/ \E pc, ans : calls' = Answered(d, pc, ans)
        \/ calls' = Ended(d)
    BY <1>7 DEF MergeAnswered, MergeReturns, OwnershipAnswered, ApplyChecked, ApplyLands,
       ApplyReturns, VerifyAnswered, VerifyReturns, SaveEnds, Advance
  <2> QED  BY <2>1 DEF Answered, Ended
<1>9. d = c  BY <1>4, <1>8
<1> QED
  BY <1>1, <1>7, <1>9 DEF At, MergeAnswered, OwnershipAnswered, ApplyChecked, ApplyLands,
     ApplyReturns, VerifyAnswered, VerifyReturns, SaveEnds

\* A merge brings back the live object with exactly the edits the draft had at
\* the click, those where the user chose yours included.
THEOREM MergesKeepEdits == Spec => MergeKeepsEdits
<1> DEFINE Returned(c, f) ==
             ed'.draft.spec[f] = IF f \in calls[c].own THEN calls[c].draft.spec[f]
                                 ELSE calls[c].answer.doc.spec[f]
           A == \A c \in DOMAIN calls :
                  /\ At(c, "merge", "answered") /\ calls[c].answer.kind = "merged"
                  /\ ed.isEditing /\ calls'[c] = Nil
                  => \A f \in Fields : Returned(c, f)
<1>1. ASSUME EditInv, [Next]_vars, NEW c \in DOMAIN calls, At(c, "merge", "answered"),
             calls[c].answer.kind = "merged", ed.isEditing, calls'[c] = Nil, NEW f \in Fields
      PROVE  Returned(c, f)
  <2> DEFINE m == calls[c]
             ans == calls[c].answer
  <2>1. MergeReturns(c)  BY <1>1, OnlyMergeReturns
  <2>2. ed'.draft = ans.draft  BY <1>1, <2>1, MergeReturnsKeeps
  <2>3. GoodCall(m, authored) /\ m.kind = "merge" /\ m.pc = "answered"
    BY <1>1 DEF EditInv, GoodCalls, At
  <2>4. /\ m.own = Edited(m.base, m.draft) /\ ans \in Answers
        /\ ans.draft = [ans.doc EXCEPT !.spec = Patched(ans.doc, m.base, m.draft)]
        /\ Coherent(m.base, m.draft, authored)
    BY <1>1, <2>3 DEF GoodCall
  <2>5. ans.draft.spec = Patched(ans.doc, m.base, m.draft)  BY <2>4 DEF Answers, Docs
  <2> QED  BY <2>2, <2>4, <2>5, PatchedAuthored
<1>2. EditInv /\ [Next]_vars => [A]_vars  BY <1>1
<1>3. Spec => [][A]_vars
  <2> HIDE DEF A
  <2> QED  BY <1>2, EditInvariant, PTL DEF Spec
<1> QED  BY <1>3 DEF MergeKeepsEdits
-----------------------------------------------------------------------------
\* What the draft is compared with.

\* A conflict is remembered only in an open editor that shows drift, and neither the
\* snapshot that has replaced the one it was met with nor the read under way is older
\* than its object; answers never run ahead of the object.
Late(x) == x # Nil /\ x.pc \in {"answered", "verified"}
ConflictInv ==
  /\ \A c \in DOMAIN calls : Late(calls[c]) => calls[c].answer.doc.rv <= live.rv
  /\ ed.conflictLive # Nil =>
       /\ ed.isEditing /\ ed.driftForced
       /\ ed.conflictLive.doc.rv <= live.rv
       /\ ed.conflictLive.watched = watched \/ ed.conflictLive.doc.rv <= watched.rv
       /\ \A doc \in Docs : read = <<doc>> /\ read # Nil => ed.conflictLive.doc.rv <= doc.rv

\* p remembers no conflict but that of e.
Keeps(p, e) == p.conflictLive # Nil => p.conflictLive = e.conflictLive /\ p.isEditing /\ p.driftForced
Flagged(e) == e.conflictLive # Nil => e.driftForced

\* The fields the conflict is about.
Tracked == {"isEditing", "driftForced", "conflictLive"}
Alike(p, e) ==
  /\ Tracked \subseteq DOMAIN p
  /\ p.conflictLive = e.conflictLive /\ p.driftForced = e.driftForced /\ p.isEditing = e.isEditing
Dropped(p) == Tracked \subseteq DOMAIN p /\ p.conflictLive = Nil

LEMMA AdoptFrame ==
  ASSUME NEW e, NEW w, Tracked \subseteq DOMAIN e
  PROVE  Alike(AdoptSnapshot(e, w), e)
BY DEF AdoptSnapshot, Alike, Tracked

LEMMA SettleConflict ==
  ASSUME NEW e, NEW w, Tracked \subseteq DOMAIN e, Flagged(e)
  PROVE  Keeps(Settle(e, w), e)
<1> DEFINE p == AdoptSnapshot(e, w)
           v == ForgetVerified(p, w)
           q == ForgetDrift(v)
           t == [q EXCEPT !.restartFrom = Nil]
           n == Enter(t, w)
<1>1. Alike(p, e)  BY AdoptFrame
<1> HIDE DEF p
<1>2. Alike(v, p)  BY <1>1 DEF ForgetVerified, Alike, Tracked
<1> HIDE DEF v
<1>3. Tracked \subseteq DOMAIN q /\ Keeps(q, v)
  <2>1. CASE v.isEditing  BY <1>1, <1>2, <2>1 DEF ForgetDrift, Keeps, Flagged, Alike
  <2>2. CASE ~v.isEditing
    <3>1. Tracked \subseteq DOMAIN q /\ q.conflictLive = Nil  BY <1>2, <2>2 DEF ForgetDrift, Alike, Tracked
    <3> QED  BY <3>1 DEF Keeps
  <2> QED  BY <2>1, <2>2
<1> HIDE DEF q
<1>4. Tracked \subseteq DOMAIN t  BY <1>3
<1> HIDE DEF t
<1>5. Dropped(n)  BY <1>4 DEF Enter, Tracked, Dropped
<1> HIDE DEF n
<1>6. AdoptSnapshot(n, w).conflictLive = Nil  BY <1>5, AdoptFrame DEF Alike, Dropped
<1>7. Settle(e, w) \in {q, AdoptSnapshot(n, w)}  BY DEF Settle, Restart, p, v, q, t, n
<1> QED  BY <1>1, <1>2, <1>3, <1>6, <1>7 DEF Keeps, Alike

LEMMA ConflictFrom ==
  ASSUME EditInv, EditInv', ConflictInv,
         live'.rv >= live.rv,
         \/ watched' = watched /\ read' \in {read, Nil, <<>>, <<live>>}
         \/ read' = Nil /\ read = <<watched'>> /\ read # Nil,
         ed'.conflictLive # Nil =>
           /\ ed'.isEditing /\ ed'.driftForced
           /\ \/ ed'.conflictLive = ed.conflictLive
              \/ /\ read' = <<>> /\ watched' = watched
                 /\ ed'.conflictLive.watched = watched /\ ed'.conflictLive.doc.rv <= live.rv,
         \A c \in DOMAIN calls' :
           Late(calls'[c]) => \/ calls'[c].answer.doc.rv <= live'.rv
                              \/ c \in DOMAIN calls /\ calls'[c] = calls[c]
  PROVE  ConflictInv'
<1>1. /\ live \in Docs /\ live' \in Docs /\ watched \in Docs /\ watched' \in Docs
      /\ GoodCalls(calls, authored) /\ GoodEd(ed, authored)
  BY DEF EditInv
<1>2. \A doc \in Docs : doc.rv \in Nat  BY ConstAssumption DEF Docs, Rvs
<1>3. \A c \in DOMAIN calls : Late(calls[c]) => calls[c].answer.doc \in Docs
  BY <1>1 DEF GoodCalls, GoodCall, Late, Answers
<1>4. \A c \in DOMAIN calls' : Late(calls'[c]) => calls'[c].answer.doc.rv <= live'.rv
  BY <1>1, <1>2, <1>3 DEF ConflictInv
<1>5. ASSUME ed'.conflictLive # Nil
      PROVE  /\ ed'.isEditing /\ ed'.driftForced
             /\ ed'.conflictLive.doc.rv <= live'.rv
             /\ ed'.conflictLive.watched = watched' \/ ed'.conflictLive.doc.rv <= watched'.rv
             /\ \A doc \in Docs : read' = <<doc>> /\ read' # Nil => ed'.conflictLive.doc.rv <= doc.rv
  <2>1. CASE ed'.conflictLive = ed.conflictLive
    <3>1. ed.conflictLive.doc \in Docs  BY <1>1, <1>5, <2>1 DEF GoodEd, EdTyped, Editors
    <3>2. ed.conflictLive # Nil  BY <1>5, <2>1
    <3>3. ed.conflictLive.doc.rv <= live'.rv  BY <1>1, <1>2, <3>1, <3>2 DEF ConflictInv
    <3>4. ed.conflictLive.watched = watched' \/ ed.conflictLive.doc.rv <= watched'.rv
      BY <1>1, <3>2 DEF ConflictInv
    <3>5. \A doc \in Docs : read' = <<doc>> /\ read' # Nil => ed.conflictLive.doc.rv <= doc.rv
      BY <3>2 DEF ConflictInv
    <3> QED  BY <1>5, <2>1, <3>3, <3>4, <3>5
  <2>2. CASE ed'.conflictLive # ed.conflictLive
    <3>1. ed'.conflictLive.doc \in Docs
      <4>1. GoodEd(ed', authored')  BY DEF EditInv
      <4> QED  BY <4>1, <1>5 DEF GoodEd, EdTyped, Editors
    <3>2. read' = <<>> /\ ed'.conflictLive.watched = watched' /\ ed'.conflictLive.doc.rv <= live.rv
      BY <1>5, <2>2
    <3>3. ed'.conflictLive.doc.rv <= live'.rv  BY <1>1, <1>2, <3>1, <3>2
    <3>4. \A doc \in Docs : read' # <<doc>>  BY <3>2
    <3> QED  BY <1>5, <3>2, <3>3, <3>4
  <2> QED  BY <2>1, <2>2
<1> QED  BY <1>4, <1>5 DEF ConflictInv


\* The calls of a step: a call that answers answers with the object of version r at most.
Answering(ds, r) ==
  \A d \in DOMAIN ds : Late(ds[d]) => \/ ds[d].answer.doc.rv <= r
                                      \/ d \in DOMAIN calls /\ ds[d] = calls[d]

LEMMA AnsweredRv ==
  ASSUME EditInv, NEW c \in DOMAIN calls, calls[c] # Nil, NEW pc, NEW ans, NEW r,
         pc \in {"answered", "verified"} => ans.doc.rv <= r
  PROVE  Answering(Answered(c, pc, ans), r)
<1> DEFINE y == WithAnswer(calls[c], pc, ans)
           ds == [calls EXCEPT ![c] = y]
<1>1. calls[c] \in Calls  BY DEF EditInv, GoodCalls, GoodCall
<1>2. y.pc = pc /\ y.answer = ans  BY <1>1 DEF Calls, WithAnswer
<1>3. Answered(c, pc, ans) = ds  BY DEF Answered, WithAnswer
<1> HIDE DEF y
<1>4. DOMAIN ds = DOMAIN calls /\ ds[c] = y /\ \A d \in DOMAIN calls : d # c => ds[d] = calls[d]
  BY DEF EditInv, GoodCalls
<1> HIDE DEF ds
<1> QED  BY <1>2, <1>3, <1>4 DEF Answering, Late

LEMMA EndedRv ==
  ASSUME EditInv, NEW c \in DOMAIN calls, NEW r
  PROVE  Answering(Ended(c), r)
<1> DEFINE ds == [calls EXCEPT ![c] = Nil]
<1>1. DOMAIN ds = DOMAIN calls /\ ds[c] = Nil /\ \A d \in DOMAIN calls : d # c => ds[d] = calls[d]
  BY DEF EditInv, GoodCalls
<1>2. Ended(c) = ds  BY DEF Ended
<1> HIDE DEF ds
<1> QED  BY <1>1, <1>2 DEF Answering, Late

LEMMA AppendedRv ==
  ASSUME EditInv, NEW x, x.pc \in {"sent", "owner", "apply"}, NEW r
  PROVE  Answering(Append(calls, x), r)
<1> DEFINE ds == Append(calls, x)
<1>1. calls \in Seq(Calls \cup {Nil})  BY DEF EditInv, GoodCalls
<1>2. /\ DOMAIN calls = 1..Len(calls) /\ Len(calls) \in Nat
      /\ DOMAIN ds = 1..(Len(calls) + 1) /\ ds[Len(calls) + 1] = x
      /\ \A c \in 1..Len(calls) : ds[c] = calls[c]
  BY <1>1
<1> HIDE DEF ds
<1>3. \A c \in DOMAIN ds : c = Len(calls) + 1 \/ c \in DOMAIN calls  BY <1>2
<1>4. Answering(ds, r)  BY <1>2, <1>3 DEF Answering, Late
<1> QED  BY <1>4 DEF ds

\* A step that leaves the object, the snapshot and the conflict alone, or settles.
LEMMA SettledConflict ==
  ASSUME EditInv, EditInv', ConflictInv, live' = live, watched' = watched,
         read' \in {read, <<>>}, NEW e, Alike(e, ed) \/ Dropped(e),
         ed' = Settle(e, watched), Answering(calls', live.rv)
  PROVE  ConflictInv'
<1>1. watched \in Docs /\ live \in Docs /\ live.rv \in Nat
  BY ConstAssumption DEF EditInv, Docs, Rvs
<1>2. Flagged(e) /\ Tracked \subseteq DOMAIN e  BY DEF ConflictInv, Flagged, Alike, Dropped
<1>3. Keeps(ed', e)  BY <1>2, SettleConflict
<1>4. ed'.conflictLive # Nil => /\ ed'.isEditing /\ ed'.driftForced
                                /\ ed'.conflictLive = ed.conflictLive
  BY <1>3 DEF Keeps, Alike, Dropped
<1>5. live'.rv >= live.rv  BY <1>1
<1>6. \A c \in DOMAIN calls' :
        Late(calls'[c]) => \/ calls'[c].answer.doc.rv <= live'.rv
                           \/ c \in DOMAIN calls /\ calls'[c] = calls[c]
  BY DEF Answering
<1> QED  BY <1>4, <1>5, <1>6, ConflictFrom

LEMMA FramedConflict ==
  ASSUME EditInv, EditInv', ConflictInv, live' = live, watched' = watched, read' = read,
         Alike(ed', ed), Answering(calls', live.rv)
  PROVE  ConflictInv'
<1>1. live.rv \in Nat  BY ConstAssumption DEF EditInv, Docs, Rvs
<1>2. ed'.conflictLive # Nil => ed'.isEditing /\ ed'.driftForced  BY DEF ConflictInv, Alike
<1>3. live'.rv >= live.rv  BY <1>1
<1>4. \A c \in DOMAIN calls' :
        Late(calls'[c]) => \/ calls'[c].answer.doc.rv <= live'.rv
                           \/ c \in DOMAIN calls /\ calls'[c] = calls[c]
  BY DEF Answering
<1> QED  BY <1>2, <1>3, <1>4, ConflictFrom DEF Alike

\* A conflict that is met now.
LEMMA MetConflict ==
  ASSUME EditInv, EditInv', ConflictInv, live' = live, watched' = watched, read' = <<>>,
         NEW ans \in Answers, ans.doc.rv <= live.rv,
         NEW e, Tracked \subseteq DOMAIN e, e.driftForced,
         e.conflictLive = [doc |-> ans.doc, watched |-> watched],
         ed' = Settle(e, watched), Answering(calls', live.rv)
  PROVE  ConflictInv'
<1>1. watched \in Docs /\ live \in Docs /\ live.rv \in Nat
  BY ConstAssumption DEF EditInv, Docs, Rvs
<1>2. Keeps(ed', e)  BY SettleConflict DEF Flagged
<1>3. ed'.conflictLive # Nil =>
        /\ ed'.isEditing /\ ed'.driftForced
        /\ ed'.conflictLive.watched = watched /\ ed'.conflictLive.doc.rv <= live.rv
  BY <1>2 DEF Keeps
<1>4. live'.rv >= live.rv  BY <1>1
<1>5. \A c \in DOMAIN calls' :
        Late(calls'[c]) => \/ calls'[c].answer.doc.rv <= live'.rv
                           \/ c \in DOMAIN calls /\ calls'[c] = calls[c]
  BY DEF Answering
<1> QED  BY <1>3, <1>4, <1>5, ConflictFrom

LEMMA TrackedEd ==
  ASSUME EditInv
  PROVE  /\ Tracked \subseteq DOMAIN ed /\ live \in Docs /\ watched \in Docs
         /\ \A doc \in Docs : doc.rv \in Nat
         /\ \A r : Answering(calls, r)
<1>1. ed \in Editors({ed.recent}) /\ live \in Docs /\ watched \in Docs  BY DEF EditInv, GoodEd, EdTyped
<1>2. Tracked \subseteq DOMAIN ed  BY <1>1 DEF Editors, Tracked
<1>3. \A doc \in Docs : doc.rv \in Nat  BY ConstAssumption DEF Docs, Rvs
<1>4. \A r : Answering(calls, r)  BY DEF Answering
<1> QED  BY <1>1, <1>2, <1>3, <1>4

\* The object and its reads.
LEMMA ClusterConflict ==
  ASSUME EditInv, EditInv', ConflictInv, OtherWrites \/ Recreated \/ ReadStarts \/ ReadAnswered
  PROVE  ConflictInv'
<1>1. /\ ed' = ed /\ calls' = calls /\ watched' = watched
      /\ read' \in {read, Nil, <<>>, <<live>>}
  BY DEF OtherWrites, Recreated, ReadStarts, ReadAnswered
<1>2. live'.rv >= live.rv
  <2>1. live \in Docs /\ live.rv \in Nat  BY TrackedEd
  <2>2. ASSUME OtherWrites PROVE live'.rv = live.rv + 1
    <3>1. PICK f \in Fields, v \in OthersSet : live' = [live EXCEPT !.rv = @ + 1, !.spec[f] = v]
      BY <2>2 DEF OtherWrites
    <3> QED  BY <2>1, <3>1 DEF Docs
  <2>3. ASSUME Recreated PROVE live'.rv = live.rv + 1  BY <2>3 DEF Recreated
  <2>4. ASSUME ReadStarts \/ ReadAnswered PROVE live' = live  BY <2>4 DEF ReadStarts, ReadAnswered
  <2> QED  BY <2>1, <2>2, <2>3, <2>4
<1>3. ed'.conflictLive # Nil =>
        ed'.isEditing /\ ed'.driftForced /\ ed'.conflictLive = ed.conflictLive
  BY <1>1 DEF ConflictInv
<1> QED  BY <1>1, <1>2, <1>3, ConflictFrom

LEMMA LandsConflict ==
  ASSUME EditInv, EditInv', ConflictInv, ReadLands
  PROVE  ConflictInv'
<1>1. PICK doc \in Docs : read = <<doc>> /\ read # Nil  BY DEF EditInv, ReadLands
<1>2. /\ watched' = doc /\ read' = Nil /\ read = <<watched'>> /\ live' = live /\ calls' = calls
      /\ ed' = Settle(ed, doc)
  BY <1>1 DEF ReadLands
<1>3. Keeps(ed', ed)  BY <1>2, TrackedEd, SettleConflict DEF ConflictInv, Flagged
<1>4. live'.rv >= live.rv  BY <1>2, TrackedEd
<1> QED  BY <1>1, <1>2, <1>3, <1>4, ConflictFrom DEF Keeps

\* Steps that leave the conflict alone, and do not settle.
LEMMA PlainConflict ==
  ASSUME EditInv, EditInv', ConflictInv,
         Types \/ ChooseTheirs \/ ChooseYours \/ CancelOwnershipWarning \/ MergeClick \/ SaveClick
  PROVE  ConflictInv'
<1>1. live' = live /\ watched' = watched /\ read' = read
  BY DEF Types, ChooseTheirs, ChooseYours, CancelOwnershipWarning, MergeClick, SaveClick
<1>2. Alike(ed', ed)
  <2>1. Tracked \subseteq DOMAIN ed  BY TrackedEd
  <2>2. CASE Types  BY <2>1, <2>2 DEF Types, Alike, Tracked
  <2>3. CASE ChooseTheirs  BY <2>1, <2>3 DEF ChooseTheirs, Alike, Tracked
  <2>4. CASE ChooseYours  BY <2>1, <2>4 DEF ChooseYours, Alike, Tracked
  <2>5. CASE CancelOwnershipWarning \/ MergeClick \/ SaveClick
    BY <2>1, <2>5 DEF CancelOwnershipWarning, MergeClick, SaveClick, Alike, Tracked
  <2> QED  BY <2>2, <2>3, <2>4, <2>5
<1>3. Answering(calls', live.rv)
  <2>1. CASE MergeClick
    <3>1. Merging.pc = "sent" /\ calls' = Append(calls, Merging)  BY <2>1 DEF MergeClick, Merging
    <3> QED  BY <3>1, AppendedRv
  <2>2. CASE SaveClick
    <3> DEFINE x == Saving("owner", ed.base.id, ed.base.doc, ed.draft)
    <3>1. x.pc = "owner" /\ calls' = Append(calls, x)  BY <2>2 DEF SaveClick, Saving
    <3> HIDE DEF x
    <3> QED  BY <3>1, AppendedRv
  <2>3. CASE calls' = calls  BY <2>3, TrackedEd
  <2> QED  BY <2>1, <2>2, <2>3 DEF Types, ChooseTheirs, ChooseYours, CancelOwnershipWarning
<1> QED  BY <1>1, <1>2, <1>3, FramedConflict

LEMMA ExitDrops ==
  ASSUME NEW e, Tracked \subseteq DOMAIN e
  PROVE  Dropped(Exit(e)) /\ DOMAIN Exit(e) = DOMAIN e
BY DEF Exit, Dropped, Tracked

\* Sessions that begin and end.
LEMMA SessionConflict ==
  ASSUME EditInv, EditInv', ConflictInv, EnterEdit \/ Cancel \/ EditNewObject
  PROVE  ConflictInv'
<1>1. live' = live /\ watched' = watched /\ read' \in {read, <<>>} /\ calls' = calls
  BY DEF EnterEdit, Cancel, EditNewObject, ReadAgain
<1>2. PICK e : Dropped(e) /\ ed' = Settle(e, watched)
  <2>1. Tracked \subseteq DOMAIN ed  BY TrackedEd
  <2>2. Dropped(Enter(ed, watched))  BY <2>1 DEF Enter, Dropped, Tracked
  <2>3. Dropped(Exit(ed))  BY <2>1, ExitDrops
  <2> DEFINE x == Exit(ed)
             y == [x EXCEPT !.restartFrom = ed.base.id.uid]
  <2>4. ed' \in {Settle(Enter(ed, watched), watched), Settle(x, watched), Settle(y, watched)}
    BY DEF EnterEdit, Cancel, EditNewObject
  <2>5. Dropped(x)  BY <2>3
  <2> HIDE DEF x
  <2>6. Dropped(y)  BY <2>5 DEF Dropped, Tracked
  <2> HIDE DEF y
  <2> QED  BY <2>2, <2>4, <2>5, <2>6
<1>3. Answering(calls', live.rv)  BY <1>1, TrackedEd
<1> QED  BY <1>1, <1>2, <1>3, SettledConflict

LEMMA ConfirmConflict ==
  ASSUME EditInv, EditInv', ConflictInv, ConfirmOwnershipAndSave
  PROVE  ConflictInv'
<1> DEFINE e == Performing([ed EXCEPT !.warning = Nil], watched)
           x == Saving("apply", ed.warning.id, ed.warning.base, ed.warning.draft)
<1>1. live' = live /\ watched' = watched /\ read' = read /\ ed' = Settle(e, watched)
      /\ calls' = Append(calls, x)
  BY DEF ConfirmOwnershipAndSave
<1>2. Alike(e, ed)  BY TrackedEd DEF Performing, Alike, Tracked
<1>3. x.pc = "apply"  BY DEF Saving
<1> HIDE DEF e, x
<1>4. Answering(calls', live.rv)  BY <1>1, <1>3, AppendedRv
<1> QED  BY <1>1, <1>2, <1>4, SettledConflict

\* The gateway answers with the object as it is.
LEMMA GatewayConflict ==
  ASSUME EditInv, EditInv', ConflictInv, NEW c \in DOMAIN calls,
         MergeAnswered(c) \/ ApplyChecked(c) \/ VerifyAnswered(c) \/ SaveEnds(c)
  PROVE  ConflictInv'
<1>1. live' = live /\ watched' = watched /\ read' = read /\ calls[c] # Nil
  BY DEF MergeAnswered, ApplyChecked, VerifyAnswered, SaveEnds, At
<1>2. Alike(ed', ed)
  BY TrackedEd DEF MergeAnswered, ApplyChecked, VerifyAnswered, SaveEnds, Alike, Tracked
<1>3. live.rv <= live.rv  BY TrackedEd
<1>4. \A kind, draft : Answer(kind, live, draft).doc.rv <= live.rv  BY <1>3 DEF Answer
<1>5. \/ calls' = Ended(c) \/ calls' = Advance(c, "patch")
      \/ \E pc, kind, draft : calls' = Answered(c, pc, Answer(kind, live, draft))
  BY DEF MergeAnswered, ApplyChecked, VerifyAnswered, SaveEnds
<1>6. Answering(calls', live.rv)
  <2>1. Answering(Ended(c), live.rv)  BY EndedRv
  <2>2. Answering(Advance(c, "patch"), live.rv)  BY <1>1, AnsweredRv DEF Advance
  <2>3. ASSUME NEW pc, NEW kind, NEW draft
        PROVE  Answering(Answered(c, pc, Answer(kind, live, draft)), live.rv)
    BY <1>1, <1>4, AnsweredRv
  <2> QED  BY <1>5, <2>1, <2>2, <2>3
<1> QED  BY <1>1, <1>2, <1>6, FramedConflict

LEMMA LandConflict ==
  ASSUME EditInv, EditInv', ConflictInv, NEW c \in DOMAIN calls, ApplyLands(c)
  PROVE  ConflictInv'
<1>1. watched' = watched /\ read' = read /\ ed' = ed /\ calls[c] # Nil  BY DEF ApplyLands, At
<1>2. live \in Docs /\ live.rv \in Nat /\ live' \in Docs /\ live'.rv \in Nat
  <2>1. live' \in Docs  BY DEF EditInv
  <2> QED  BY <2>1, TrackedEd
<1>3. live'.rv >= live.rv
  <2>1. live' = live \/ \E spec : live' = [live EXCEPT !.rv = @ + 1, !.spec = spec]
    BY DEF ApplyLands
  <2>2. ASSUME NEW spec, live' = [live EXCEPT !.rv = @ + 1, !.spec = spec] PROVE live'.rv = live.rv + 1
    BY <1>2, <2>2 DEF Docs
  <2>3. live' = live \/ live'.rv = live.rv + 1  BY <2>1, <2>2, Zenon
  <2> QED  BY <1>2, <2>3
<1>4. PICK kind : calls' = Answered(c, "answered", Answer(kind, live', live'))  BY DEF ApplyLands
<1> DEFINE ans == Answer(kind, live', live')
<1>5. ans.doc.rv <= live'.rv  BY <1>2 DEF Answer
<1> HIDE DEF ans
<1>6. Answering(Answered(c, "answered", ans), live'.rv)  BY <1>1, <1>5, AnsweredRv
<1>7. \A d \in DOMAIN calls' :
        Late(calls'[d]) => \/ calls'[d].answer.doc.rv <= live'.rv
                           \/ d \in DOMAIN calls /\ calls'[d] = calls[d]
  BY <1>4, <1>6 DEF Answering, ans
<1>8. ed'.conflictLive # Nil =>
        ed'.isEditing /\ ed'.driftForced /\ ed'.conflictLive = ed.conflictLive
  BY <1>1 DEF ConflictInv
<1> QED  BY <1>1, <1>3, <1>7, <1>8, ConflictFrom

LEMMA OwnershipConflict ==
  ASSUME EditInv, EditInv', ConflictInv, NEW c \in DOMAIN calls, OwnershipAnswered(c)
  PROVE  ConflictInv'
<1>1. live' = live /\ watched' = watched /\ read' = read /\ calls[c] # Nil
  BY DEF OwnershipAnswered, At
<1>2. Tracked \subseteq DOMAIN ed  BY TrackedEd
<1>3. CASE ed' = Settle(Performing(ed, calls[c].snapshot), watched) /\ calls' = Advance(c, "apply")
  <2>1. Alike(Performing(ed, calls[c].snapshot), ed)  BY <1>2 DEF Performing, Alike, Tracked
  <2>2. Answering(calls', live.rv)  BY <1>1, <1>3, AnsweredRv DEF Advance
  <2> QED  BY <1>1, <1>3, <2>1, <2>2, SettledConflict
<1>4. CASE /\ ed' = [ed EXCEPT !.isSaving = FALSE,
                               !.warning = [id |-> calls[c].id, base |-> calls[c].base,
                                            draft |-> calls[c].draft]]
           /\ calls' = Ended(c)
  <2>1. Alike(ed', ed)  BY <1>2, <1>4 DEF Alike, Tracked
  <2>2. Answering(calls', live.rv)  BY <1>4, EndedRv
  <2> QED  BY <1>1, <2>1, <2>2, FramedConflict
<1> QED  BY <1>3, <1>4 DEF OwnershipAnswered

LEMMA AdoptedConflict ==
  ASSUME NEW e, Tracked \subseteq DOMAIN e, NEW ans
  PROVE  LET p == AdoptConflict(e, ans) IN
         /\ Tracked \subseteq DOMAIN p /\ p.driftForced = TRUE
         /\ p.conflictLive = [doc |-> ans.doc, watched |-> watched]
<1> DEFINE l == [doc |-> ans.doc, watched |-> watched]
           r == e.replacedByConflict \/ ans.kind = "replaced"
           p == [e EXCEPT !.driftForced = TRUE, !.replacedByConflict = r, !.conflictLive = l]
<1>1. AdoptConflict(e, ans) = p  BY DEF AdoptConflict
<1> HIDE DEF l, r
<1>2. Tracked \subseteq DOMAIN p /\ p.driftForced = TRUE /\ p.conflictLive = l  BY DEF Tracked
<1> QED  BY <1>1, <1>2 DEF l

LEMMA MergedConflict ==
  ASSUME EditInv, EditInv', ConflictInv, NEW c \in DOMAIN calls, MergeReturns(c)
  PROVE  ConflictInv'
<1> DEFINE ans == calls[c].answer
<1>1. live' = live /\ watched' = watched /\ read' = <<>> /\ calls' = Ended(c)
  BY DEF MergeReturns, ReadAgain
<1>2. Tracked \subseteq DOMAIN ed  BY TrackedEd
<1>3. Answering(calls', live.rv)  BY <1>1, EndedRv
<1>4. calls[c] # Nil /\ calls[c].pc = "answered" /\ ans \in Answers /\ ans.doc.rv <= live.rv
  BY DEF MergeReturns, At, EditInv, GoodCalls, GoodCall, ConflictInv, Late
<1>5. CASE ans.kind = "merged"
  <2>1. ed' = Settle(Merged(ed, ans), watched)  BY <1>5 DEF MergeReturns, Merged
  <2>2. Dropped(Merged(ed, ans))  BY <1>2 DEF Merged, Dropped, Tracked
  <2> QED  BY <1>1, <1>3, <2>1, <2>2, SettledConflict
<1>6. CASE ans.kind # "merged"
  <2> DEFINE e == AdoptConflict(ed, ans)
  <2>1. ed' = Settle(e, watched)  BY <1>6 DEF MergeReturns
  <2>2. Tracked \subseteq DOMAIN e /\ e.driftForced /\ e.conflictLive = [doc |-> ans.doc, watched |-> watched]
    BY <1>2, AdoptedConflict
  <2> HIDE DEF e, ans
  <2> QED  BY <1>1, <1>3, <1>4, <2>1, <2>2, MetConflict
<1> QED  BY <1>5, <1>6

LEMMA AppliedConflict ==
  ASSUME EditInv, EditInv', ConflictInv, NEW c \in DOMAIN calls, ApplyReturns(c)
  PROVE  ConflictInv'
<1> DEFINE ans == calls[c].answer
           id == [uid |-> calls[c].id.uid, rv |-> ans.doc.rv]
           doc == [calls[c].draft EXCEPT !.rv = ans.doc.rv]
           p == [ed EXCEPT !.latest = id, !.override = doc]
           q == AdoptConflict(ed, ans)
           t == [Unsaved(ed) EXCEPT !.verified = Nil]
<1>1. live' = live /\ watched' = watched /\ read' \in {read, <<>>}  BY DEF ApplyReturns, ReadAgain
<1>2. Tracked \subseteq DOMAIN ed  BY TrackedEd
<1>3. calls[c] # Nil /\ calls[c].pc = "answered" /\ ans \in Answers /\ ans.doc.rv <= live.rv
  BY DEF ApplyReturns, At, EditInv, GoodCalls, GoodCall, ConflictInv, Late
<1>4. \/ ed' = Settle(p, watched) /\ calls' = Advance(c, "verify")
      \/ ed' = Settle(Unsaved(q), watched) /\ calls' = Ended(c) /\ read' = <<>>
      \/ ed' = Settle(t, watched) /\ calls' = Ended(c)
  BY DEF ApplyReturns, ReadAgain
<1>5. Answering(calls', live.rv)  BY <1>3, <1>4, AnsweredRv, EndedRv DEF Advance
<1> HIDE DEF id, doc
<1>6. Alike(p, ed)  BY <1>2 DEF Alike, Tracked
<1>7. Alike(t, ed)  BY <1>2 DEF Alike, Tracked, Unsaved
<1>8. Tracked \subseteq DOMAIN q /\ q.driftForced /\ q.conflictLive = [doc |-> ans.doc, watched |-> watched]
  BY <1>2, AdoptedConflict
<1> HIDE DEF p, q, t, ans
<1>9. /\ Tracked \subseteq DOMAIN Unsaved(q) /\ Unsaved(q).driftForced
      /\ Unsaved(q).conflictLive = [doc |-> ans.doc, watched |-> watched]
  BY <1>8 DEF Unsaved, Tracked
<1>10. CASE ed' \in {Settle(p, watched), Settle(t, watched)}
  BY <1>1, <1>5, <1>6, <1>7, <1>10, SettledConflict
<1>11. CASE ed' = Settle(Unsaved(q), watched) /\ read' = <<>>
  BY <1>1, <1>3, <1>5, <1>9, <1>11, MetConflict
<1> QED  BY <1>4, <1>10, <1>11

LEMMA VerifiedConflict ==
  ASSUME EditInv, EditInv', ConflictInv, NEW c \in DOMAIN calls, VerifyReturns(c)
  PROVE  ConflictInv'
<1> DEFINE ans == calls[c].answer
           p == [ed EXCEPT !.latest = IdOf(ans.doc), !.override = ans.doc,
                           !.recent = WithRecent(ed.recent, calls[c].seen),
                           !.verified = [id |-> IdOf(ans.doc), spec |-> ans.doc.spec]]
           q == [ed EXCEPT !.verified = Nil]
           checked == IF ans.kind = "stored" THEN p ELSE q
           x == Exit(checked)
           k == [x EXCEPT !.pending = calls[c].snapshot]
<1>1. live' = live /\ watched' = watched /\ read' = <<>> /\ calls' = Advance(c, "refresh")
      /\ calls[c] # Nil /\ ed' = Settle(k, watched)
  BY DEF VerifyReturns, ReadAgain, At
<1>2. DOMAIN checked = DOMAIN ed  OBVIOUS
<1> HIDE DEF checked
<1>3. Dropped(x)  BY <1>2, TrackedEd, ExitDrops
<1> HIDE DEF x
<1>4. Dropped(k)  BY <1>3 DEF Dropped, Tracked
<1> HIDE DEF k
<1>5. Answering(calls', live.rv)  BY <1>1, AnsweredRv DEF Advance
<1> QED  BY <1>1, <1>4, <1>5, SettledConflict

LEMMA NextConflict == EditInv /\ ConflictInv /\ [Next]_vars => ConflictInv'
<1> SUFFICES ASSUME EditInv, ConflictInv, [Next]_vars PROVE ConflictInv'  OBVIOUS
<1>0. EditInv'  BY NextInv
<1>1. CASE UNCHANGED vars  BY <1>1 DEF vars, ConflictInv
<1>2. CASE OtherWrites \/ Recreated \/ ReadStarts \/ ReadAnswered  BY <1>0, <1>2, ClusterConflict
<1>3. CASE ReadLands  BY <1>0, <1>3, LandsConflict
<1>4. CASE EnterEdit \/ Cancel \/ EditNewObject  BY <1>0, <1>4, SessionConflict
<1>5. CASE Types \/ ChooseTheirs \/ ChooseYours \/ CancelOwnershipWarning \/ MergeClick \/ SaveClick
  BY <1>0, <1>5, PlainConflict
<1>6. CASE ConfirmOwnershipAndSave  BY <1>0, <1>6, ConfirmConflict
<1>7. ASSUME NEW c \in DOMAIN calls,
             \/ MergeAnswered(c) \/ MergeReturns(c)
             \/ OwnershipAnswered(c) \/ ApplyChecked(c) \/ ApplyLands(c) \/ ApplyReturns(c)
             \/ VerifyAnswered(c) \/ VerifyReturns(c) \/ SaveEnds(c)
      PROVE  ConflictInv'
  BY <1>0, <1>7, GatewayConflict, LandConflict, OwnershipConflict, MergedConflict, AppliedConflict,
     VerifiedConflict
<1> QED  BY <1>1, <1>2, <1>3, <1>4, <1>5, <1>6, <1>7 DEF Next

\* With no text of its own to show, the tab compares the draft with the object a conflict
\* brought or a newer one, whatever reads were under way when the conflict was met
\* (adoptConflictLiveObject, driftLiveYamlOf).
THEOREM ConflictStaysCurrent == Spec => []ConflictNotOutdated
<1>1. Init => ConflictInv  BY DEF Init, ConflictInv
<1>2. EditInv /\ ConflictInv => ConflictNotOutdated
  <2> SUFFICES ASSUME EditInv, ConflictInv, ed.conflictLive # Nil, ed.override = Nil
               PROVE  DriftLive(ed, watched) # Nil /\ DriftLive(ed, watched).rv >= ed.conflictLive.doc.rv
    BY DEF ConflictNotOutdated
  <2>1. ed.conflictLive.doc \in Docs  BY DEF EditInv, GoodEd, EdTyped, Editors
  <2>2. /\ watched \in Docs /\ watched.rv \in Nat /\ ed.conflictLive.doc.rv \in Nat
        /\ watched # Nil /\ ed.conflictLive.doc # Nil
    BY <2>1, TrackedEd, NilAssumption
  <2>3. CASE ed.conflictLive.watched = watched
    <3>1. DriftLive(ed, watched) = ed.conflictLive.doc  BY <2>3 DEF DriftLive
    <3> QED  BY <2>2, <3>1
  <2>4. CASE ed.conflictLive.watched # watched
    <3>1. DriftLive(ed, watched) = watched
      BY <2>4 DEF DriftLive, ConflictInv, HasRemoteDrift, Effective
    <3>2. ed.conflictLive.doc.rv <= watched.rv  BY <2>4 DEF ConflictInv
    <3> QED  BY <2>2, <3>1, <3>2
  <2> QED  BY <2>3, <2>4
<1> QED  BY <1>1, <1>2, NextConflict, EditInvariant, PTL DEF Spec

-----------------------------------------------------------------------------
\* What the tab remembers of earlier saves, and the bounds of a run.

Entries == [uid : Uids, spec : Specs]
Remembered(s) ==
  /\ s \in Seq(Entries) /\ Len(s) <= 4
  /\ \A i, j \in DOMAIN s : s[i] = s[j] => i = j

\* p remembers what e does.
Recalls(p, e) == "recent" \in DOMAIN p /\ p.recent = e.recent

LEMMA AdoptRecalls ==
  ASSUME NEW e, NEW w, "recent" \in DOMAIN e
  PROVE  Recalls(AdoptSnapshot(e, w), e)
BY DEF AdoptSnapshot, Recalls

LEMMA EnterRecalls ==
  ASSUME NEW e, NEW w, "recent" \in DOMAIN e
  PROVE  Recalls(Enter(e, w), e)
BY DEF Enter, Recalls

LEMMA ExitRecalls ==
  ASSUME NEW e, "recent" \in DOMAIN e
  PROVE  Recalls(Exit(e), e)
BY DEF Exit, Recalls

\* The effects change nothing in what is remembered.
LEMMA SettleRecalls ==
  ASSUME NEW e, NEW w, "recent" \in DOMAIN e
  PROVE  Recalls(Settle(e, w), e)
<1> DEFINE p == AdoptSnapshot(e, w)
           v == ForgetVerified(p, w)
           q == ForgetDrift(v)
           t == [q EXCEPT !.restartFrom = Nil]
           n == Enter(t, w)
<1>1. Recalls(p, e)  BY AdoptRecalls
<1> HIDE DEF p
<1>2. Recalls(v, p)  BY <1>1 DEF ForgetVerified, Recalls
<1> HIDE DEF v
<1>3. Recalls(q, v)  BY <1>2 DEF ForgetDrift, Recalls
<1> HIDE DEF q
<1>4. Recalls(t, q)  BY <1>3 DEF Recalls
<1> HIDE DEF t
<1>5. Recalls(n, t)  BY <1>4, EnterRecalls DEF Recalls
<1> HIDE DEF n
<1>6. Recalls(AdoptSnapshot(n, w), n)  BY <1>5, AdoptRecalls DEF Recalls
<1>7. Settle(e, w) \in {q, AdoptSnapshot(n, w)}  BY DEF Settle, Restart, p, v, q, t, n
<1> QED  BY <1>1, <1>2, <1>3, <1>4, <1>5, <1>6, <1>7 DEF Recalls

\* An entry that is filtered out leaves the others in their order.
LEMMA WithoutEntry ==
  ASSUME NEW s, Remembered(s), NEW entry \in Entries
  PROVE  LET k == Without(s, entry) IN
         Remembered(k) /\ \A i \in DOMAIN k : k[i] # entry
<1> DEFINE hit == CHOOSE i \in DOMAIN s : s[i] = entry
           n == Len(s)
           a == SubSeq(s, 1, hit - 1)
           b == SubSeq(s, hit + 1, n)
<1>1. /\ s \in Seq(Entries) /\ n \in Nat /\ n <= 4 /\ DOMAIN s = 1 .. n
      /\ \A i \in 1 .. n : s[i] \in Entries
      /\ \A i, j \in 1 .. n : s[i] = s[j] => i = j
  BY DEF Remembered
<1>2. CASE ~\E i \in DOMAIN s : s[i] = entry
  BY <1>2 DEF Without
<1>3. CASE \E i \in DOMAIN s : s[i] = entry
  <2>1. hit \in 1 .. n /\ s[hit] = entry  BY <1>1, <1>3
  <2>2. Without(s, entry) = a \o b  BY <1>3 DEF Without
  <2> HIDE DEF hit, n
  <2>3. /\ a \in Seq(Entries) /\ Len(a) = hit - 1
        /\ \A i \in 1 .. hit - 1 : a[i] = s[i]
    <3>1. 1 \in Int /\ hit - 1 \in Int /\ \A i \in 1 .. hit - 1 : s[i] \in Entries  BY <1>1, <2>1
    <3> QED  BY <1>1, <2>1, <3>1, SubSeqProperties
  <2>4. /\ b \in Seq(Entries) /\ Len(b) = n - hit
        /\ \A i \in 1 .. n - hit : b[i] = s[hit + i]
    <3>1. hit + 1 \in Int /\ n \in Int /\ \A i \in hit + 1 .. n : s[i] \in Entries  BY <1>1, <2>1
    <3> QED  BY <1>1, <2>1, <3>1, SubSeqProperties
  <2> DEFINE k == a \o b
  <2> HIDE DEF a, b
  <2>5. /\ k \in Seq(Entries) /\ Len(k) = n - 1 /\ DOMAIN k = 1 .. n - 1
        /\ \A i \in 1 .. n - 1 : k[i] = IF i <= hit - 1 THEN a[i] ELSE b[i - (hit - 1)]
    <3>1. /\ k \in Seq(Entries) /\ Len(k) = Len(a) + Len(b)
          /\ \A i \in 1 .. Len(a) + Len(b) : k[i] = IF i <= Len(a) THEN a[i] ELSE b[i - Len(a)]
      BY <2>3, <2>4, ConcatProperties
    <3>2. n \in Nat /\ hit \in 1 .. n /\ (hit - 1) + (n - hit) = n - 1  BY <1>1, <2>1
    <3> HIDE DEF k
    <3>3. DOMAIN k = 1 .. Len(k)  BY <3>1
    <3>4. Len(a) = hit - 1 /\ Len(b) = n - hit  BY <2>3, <2>4
    <3> QED  BY <3>1, <3>2, <3>3, <3>4
  <2> HIDE DEF k
  <2>6. \A i \in 1 .. n - 1 : k[i] = s[IF i < hit THEN i ELSE i + 1]
    <3> TAKE i \in 1 .. n - 1
    <3>1. CASE i < hit
      <4>1. i \in 1 .. hit - 1 /\ i <= hit - 1  BY <1>1, <2>1, <3>1
      <4> QED  BY <2>3, <2>5, <3>1, <4>1
    <3>2. CASE ~(i < hit)
      <4>1. i - (hit - 1) \in 1 .. n - hit /\ hit + (i - (hit - 1)) = i + 1 /\ ~(i <= hit - 1)
        BY <1>1, <2>1, <3>2
      <4> QED  BY <2>4, <2>5, <3>2, <4>1
    <3> QED  BY <3>1, <3>2
  <2> DEFINE from(i) == IF i < hit THEN i ELSE i + 1
  <2>7. \A i \in 1 .. n - 1 : from(i) \in 1 .. n /\ from(i) # hit /\ k[i] = s[from(i)]
    BY <1>1, <2>1, <2>6
  <2>8. \A i, j \in 1 .. n - 1 : from(i) = from(j) => i = j  BY <1>1, <2>1
  <2> HIDE DEF from
  <2>9. \A i, j \in 1 .. n - 1 : k[i] = k[j] => i = j  BY <1>1, <2>7, <2>8
  <2>10. \A i \in 1 .. n - 1 : k[i] # entry  BY <1>1, <2>1, <2>7
  <2>11. Len(k) <= 4  BY <1>1, <2>5
  <2>12. Remembered(k) /\ \A i \in DOMAIN k : k[i] # entry
    BY <2>5, <2>9, <2>10, <2>11 DEF Remembered
  <2> QED  BY <2>2, <2>12 DEF k
<1> QED  BY <1>2, <1>3

\* addRecentVerifiedYaml: at most four saves, the newest first and none twice.
LEMMA RecentRemembered ==
  ASSUME NEW s, Remembered(s), NEW seen \in VerifiedStates \cup {Nil}
  PROVE  Remembered(WithRecent(s, seen))
<1> DEFINE entry == [uid |-> seen.id.uid, spec |-> seen.spec]
           k == Without(s, entry)
           all == <<entry>> \o k
<1>1. CASE seen = Nil  BY <1>1 DEF WithRecent
<1>2. CASE seen # Nil
  <2>1. entry \in Entries  BY <1>2 DEF VerifiedStates, Ids, Entries
  <2>2. WithRecent(s, seen) = IF Len(all) > 4 THEN SubSeq(all, 1, 4) ELSE all
    BY <1>2 DEF WithRecent
  <2> HIDE DEF entry
  <2>3. Remembered(k) /\ \A i \in DOMAIN k : k[i] # entry  BY <2>1, WithoutEntry
  <2> HIDE DEF k
  <2>4. /\ k \in Seq(Entries) /\ Len(k) \in Nat /\ DOMAIN k = 1 .. Len(k)
        /\ \A i \in 1 .. Len(k) : k[i] # entry
        /\ \A i, j \in 1 .. Len(k) : k[i] = k[j] => i = j
    BY <2>3 DEF Remembered
  <2>5. /\ all \in Seq(Entries) /\ Len(all) = Len(k) + 1 /\ DOMAIN all = 1 .. Len(k) + 1
        /\ \A i \in 1 .. Len(k) + 1 : all[i] = IF i = 1 THEN entry ELSE k[i - 1]
    <3>1. /\ <<entry>> \in Seq(Entries) /\ Len(<<entry>>) = 1 /\ <<entry>>[1] = entry  BY <2>1
    <3>2. /\ all \in Seq(Entries) /\ Len(all) = 1 + Len(k)
          /\ \A i \in 1 .. 1 + Len(k) : all[i] = IF i <= 1 THEN <<entry>>[i] ELSE k[i - 1]
      BY <2>4, <3>1, ConcatProperties
    <3> HIDE DEF all
    <3> QED  BY <2>4, <3>1, <3>2
  <2> HIDE DEF all
  <2>6. \A i, j \in 1 .. Len(k) + 1 : all[i] = all[j] => i = j
    <3> SUFFICES ASSUME NEW i \in 1 .. Len(k) + 1, NEW j \in 1 .. Len(k) + 1, all[i] = all[j]
                 PROVE  i = j
      OBVIOUS
    <3>1. \A m \in 1 .. Len(k) + 1 : m = 1 \/ m - 1 \in 1 .. Len(k)  BY <2>4
    <3>2. CASE i = 1  BY <2>4, <2>5, <3>1, <3>2
    <3>3. CASE j = 1  BY <2>4, <2>5, <3>1, <3>3
    <3>4. CASE i # 1 /\ j # 1
      <4>1. k[i - 1] = k[j - 1] /\ i - 1 \in 1 .. Len(k) /\ j - 1 \in 1 .. Len(k)
        BY <2>5, <3>1, <3>4
      <4>2. i - 1 = j - 1  BY <2>4, <4>1
      <4> QED  BY <2>4, <4>2
    <3> QED  BY <3>2, <3>3, <3>4
  <2>7. CASE ~(Len(all) > 4)  BY <2>2, <2>4, <2>5, <2>6, <2>7 DEF Remembered
  <2>8. CASE Len(all) > 4
    <3> DEFINE r == SubSeq(all, 1, 4)
    <3>1. \A i \in 1 .. 4 : all[i] \in Entries /\ i \in 1 .. Len(k) + 1  BY <2>4, <2>5, <2>8
    <3>2. /\ r \in Seq(Entries) /\ Len(r) = 4 /\ DOMAIN r = 1 .. 4
          /\ \A i \in 1 .. 4 : r[i] = all[i]
      BY <3>1, SubSeqProperties
    <3> HIDE DEF r
    <3>3. Remembered(r)  BY <2>6, <3>1, <3>2 DEF Remembered
    <3> QED  BY <2>2, <2>8, <3>3 DEF r
  <2> QED  BY <2>7, <2>8
<1> QED  BY <1>1, <1>2

-----------------------------------------------------------------------------
\* The inductive invariant of the types: nothing but a verified save adds to what
\* is remembered, and calls and edits stay in their bounds.
TabInv ==
  /\ Remembered(ed.recent)
  /\ Len(calls) <= MaxCalls
  /\ edits \in 0 .. MaxEdits

LEMMA RecentIn ==
  ASSUME EditInv
  PROVE  "recent" \in DOMAIN ed
BY DEF EditInv, GoodEd, EdTyped, Editors

\* Steps that only read or write the object, and clicks.
LEMMA FramesRecall ==
  ASSUME EditInv,
         \/ OtherWrites \/ Recreated \/ ReadStarts \/ ReadAnswered
         \/ Types \/ ChooseTheirs \/ ChooseYours
         \/ MergeClick \/ SaveClick \/ CancelOwnershipWarning
  PROVE  ed'.recent = ed.recent
<1>1. "recent" \in DOMAIN ed  BY RecentIn
<1>2. CASE OtherWrites \/ Recreated \/ ReadStarts \/ ReadAnswered \/ MergeClick
  BY <1>2 DEF OtherWrites, Recreated, ReadStarts, ReadAnswered, MergeClick
<1>3. CASE SaveClick \/ CancelOwnershipWarning  BY <1>1, <1>3 DEF SaveClick, CancelOwnershipWarning
<1>4. CASE Types
  <2>1. PICK f \in Fields, v \in UserTypes : ed' = [ed EXCEPT !.draft.spec[f] = v]
    BY <1>4 DEF Types
  <2> QED  BY <1>1, <2>1
<1>5. CASE ChooseTheirs
  <2>1. PICK f \in Fields :
          ed' = [ed EXCEPT !.choices = WithChoice(f, "theirs"),
                           !.draft.spec[f] = DriftLive(ed, watched).spec[f]]
    BY <1>5 DEF ChooseTheirs
  <2> QED  BY <1>1, <2>1
<1>6. CASE ChooseYours
  <2>1. PICK f \in Fields :
          ed' = [ed EXCEPT !.choices = WithChoice(f, "yours"),
                           !.draft.spec[f] = IF InConflict(ed, watched, f) THEN @
                                             ELSE ed.choices[f].yours]
    BY <1>6 DEF ChooseYours
  <2> QED  BY <1>1, <2>1
<1> QED  BY <1>2, <1>3, <1>4, <1>5, <1>6

\* Steps that settle what another snapshot or the end of a session left.
LEMMA SessionsRecall ==
  ASSUME EditInv,
         ReadLands \/ EnterEdit \/ Cancel \/ EditNewObject \/ ConfirmOwnershipAndSave
  PROVE  ed'.recent = ed.recent
<1>1. "recent" \in DOMAIN ed  BY RecentIn
<1>2. CASE ReadLands  BY <1>1, <1>2, SettleRecalls DEF ReadLands, Recalls
<1>3. CASE EnterEdit  BY <1>1, <1>3, EnterRecalls, SettleRecalls DEF EnterEdit, Recalls
<1>4. CASE Cancel  BY <1>1, <1>4, ExitRecalls, SettleRecalls DEF Cancel, Recalls
<1>5. CASE EditNewObject
  <2> DEFINE x == Exit(ed)
             p == [x EXCEPT !.restartFrom = ed.base.id.uid]
  <2>1. ed' = Settle(p, watched)  BY <1>5 DEF EditNewObject
  <2>2. Recalls(x, ed)  BY <1>1, ExitRecalls
  <2> HIDE DEF x
  <2>3. Recalls(p, x)  BY <2>2 DEF Recalls
  <2> HIDE DEF p
  <2> QED  BY <2>1, <2>2, <2>3, SettleRecalls DEF Recalls
<1>6. CASE ConfirmOwnershipAndSave
  <2> DEFINE p == Performing([ed EXCEPT !.warning = Nil], watched)
  <2>1. ed' = Settle(p, watched)  BY <1>6 DEF ConfirmOwnershipAndSave
  <2>2. Recalls(p, ed)  BY <1>1 DEF Recalls, Performing
  <2> HIDE DEF p
  <2> QED  BY <2>1, <2>2, SettleRecalls DEF Recalls
<1> QED  BY <1>2, <1>3, <1>4, <1>5, <1>6

\* Steps of a merge or save, but for the one that adds to what is remembered.
LEMMA CallsRecall ==
  ASSUME EditInv, NEW c \in DOMAIN calls,
         \/ MergeAnswered(c) \/ MergeReturns(c) \/ OwnershipAnswered(c) \/ ApplyChecked(c)
         \/ ApplyLands(c) \/ ApplyReturns(c) \/ VerifyAnswered(c) \/ SaveEnds(c)
  PROVE  ed'.recent = ed.recent
<1> DEFINE ans == calls[c].answer
           met == AdoptConflict(ed, ans)
<1>1. "recent" \in DOMAIN ed  BY RecentIn
<1>2. CASE MergeAnswered(c) \/ ApplyChecked(c) \/ ApplyLands(c) \/ VerifyAnswered(c)
  BY <1>2 DEF MergeAnswered, ApplyChecked, ApplyLands, VerifyAnswered
<1>3. CASE SaveEnds(c)  BY <1>1, <1>3 DEF SaveEnds
<1>4. Recalls(met, ed)  BY <1>1 DEF AdoptConflict, Recalls
<1> HIDE DEF met
<1>5. CASE MergeReturns(c)
  <2>1. CASE ans.kind = "merged"
    <3>1. ed' = Settle(Merged(ed, ans), watched)  BY <1>5, <2>1 DEF MergeReturns, Merged
    <3>2. Recalls(Merged(ed, ans), ed)  BY <1>1 DEF Merged, Recalls
    <3> QED  BY <3>1, <3>2, SettleRecalls DEF Recalls
  <2>2. CASE ans.kind # "merged"
    <3>1. ed' = Settle(met, watched)  BY <1>5, <2>2 DEF MergeReturns, met
    <3> QED  BY <1>4, <3>1, SettleRecalls DEF Recalls
  <2> QED  BY <2>1, <2>2
<1>6. CASE OwnershipAnswered(c)
  <2>1. CASE ed' = Settle(Performing(ed, calls[c].snapshot), watched)
    <3>1. Recalls(Performing(ed, calls[c].snapshot), ed)  BY <1>1 DEF Performing, Recalls
    <3> QED  BY <2>1, <3>1, SettleRecalls DEF Recalls
  <2>2. CASE ed' = [ed EXCEPT !.isSaving = FALSE,
                              !.warning = [id |-> calls[c].id, base |-> calls[c].base,
                                           draft |-> calls[c].draft]]
    BY <1>1, <2>2
  <2> QED  BY <1>6, <2>1, <2>2 DEF OwnershipAnswered
<1>7. CASE ApplyReturns(c)
  <2> DEFINE shown == [ed EXCEPT !.latest = [uid |-> calls[c].id.uid, rv |-> ans.doc.rv],
                                 !.override = [calls[c].draft EXCEPT !.rv = ans.doc.rv]]
             failed == [Unsaved(ed) EXCEPT !.verified = Nil]
  <2>1. ed' \in {Settle(shown, watched), Settle(Unsaved(met), watched), Settle(failed, watched)}
    BY <1>7 DEF ApplyReturns, met
  <2>2. Recalls(shown, ed) /\ Recalls(failed, ed)  BY <1>1 DEF Unsaved, Recalls
  <2>3. Recalls(Unsaved(met), met)  BY <1>4 DEF Unsaved, Recalls
  <2> HIDE DEF shown, failed
  <2> QED  BY <1>4, <2>1, <2>2, <2>3, SettleRecalls DEF Recalls
<1> QED  BY <1>2, <1>3, <1>5, <1>6, <1>7

LEMMA VerifyRemembers ==
  ASSUME EditInv, Remembered(ed.recent), NEW c \in DOMAIN calls, VerifyReturns(c)
  PROVE  Remembered(ed'.recent)
<1> DEFINE x == calls[c]
           ans == calls[c].answer
           r == WithRecent(ed.recent, x.seen)
           v == [id |-> IdOf(ans.doc), spec |-> ans.doc.spec]
           p == [ed EXCEPT !.latest = IdOf(ans.doc), !.override = ans.doc,
                           !.recent = r, !.verified = v]
           q == [ed EXCEPT !.verified = Nil]
           checked == IF ans.kind = "stored" THEN p ELSE q
           g == Exit(checked)
           k == [g EXCEPT !.pending = x.snapshot]
<1>1. "recent" \in DOMAIN ed  BY RecentIn
<1>2. x.seen \in VerifiedStates \cup {Nil}
  <2>1. x \in Calls  BY DEF EditInv, GoodCalls, GoodCall, VerifyReturns, At
  <2> QED  BY <2>1 DEF Calls
<1>3. Remembered(r)  BY <1>2, RecentRemembered
<1> HIDE DEF r, v
<1>4. p.recent = r /\ q.recent = ed.recent /\ "recent" \in DOMAIN p /\ "recent" \in DOMAIN q
  BY <1>1
<1>5. ed' = Settle(k, watched)  BY DEF VerifyReturns, r, v
<1> HIDE DEF p, q
<1>6. "recent" \in DOMAIN checked /\ checked.recent \in {r, ed.recent}  BY <1>4
<1> HIDE DEF checked
<1>7. Recalls(g, checked)  BY <1>6, ExitRecalls
<1> HIDE DEF g
<1>8. Recalls(k, g)  BY <1>7 DEF Recalls
<1> HIDE DEF k
<1>9. Recalls(ed', k)  BY <1>5, <1>8, SettleRecalls DEF Recalls
<1>10. ed'.recent \in {r, ed.recent}  BY <1>6, <1>7, <1>8, <1>9 DEF Recalls
<1> QED  BY <1>3, <1>10

\* A click on Merge or Save, or a confirmation, adds a call; nothing else does.
LEMMA CallsBounded ==
  ASSUME EditInv, [Next]_vars, Len(calls) <= MaxCalls
  PROVE  Len(calls') <= MaxCalls
<1>1. calls \in Seq(Calls \cup {Nil}) /\ Len(calls) \in Nat /\ MaxCalls \in Nat
  BY ConstAssumption DEF EditInv, GoodCalls, ConstAssumption
<1>2. CASE MergeClick \/ SaveClick \/ ConfirmOwnershipAndSave
  <2>1. Len(calls) < MaxCalls /\ \E x : calls' = Append(calls, x)
    BY <1>2 DEF MergeClick, SaveClick, ConfirmOwnershipAndSave
  <2>2. PICK x : calls' = Append(calls, x)  BY <2>1
  <2>3. Len(calls') = Len(calls) + 1  BY <1>1, <2>2
  <2> QED  BY <1>1, <2>1, <2>3
<1>3. ASSUME NEW c \in DOMAIN calls,
             \/ MergeAnswered(c) \/ MergeReturns(c)
             \/ OwnershipAnswered(c) \/ ApplyChecked(c) \/ ApplyLands(c) \/ ApplyReturns(c)
             \/ VerifyAnswered(c) \/ VerifyReturns(c) \/ SaveEnds(c)
      PROVE  Len(calls') <= MaxCalls
  <2>1. \E y : calls' = [calls EXCEPT ![c] = y]
    BY <1>3 DEF MergeAnswered, MergeReturns, OwnershipAnswered, ApplyChecked, ApplyLands,
       ApplyReturns, VerifyAnswered, VerifyReturns, SaveEnds, Advance, Answered, Ended
  <2>2. Len(calls') = Len(calls)  BY <1>1, <2>1
  <2> QED  BY <2>2
<1>4. CASE \/ UNCHANGED vars \/ OtherWrites \/ Recreated \/ ReadStarts \/ ReadAnswered \/ ReadLands
           \/ EnterEdit \/ Types \/ ChooseTheirs \/ ChooseYours \/ Cancel \/ EditNewObject
           \/ CancelOwnershipWarning
  BY <1>4 DEF vars, OtherWrites, Recreated, ReadStarts, ReadAnswered, ReadLands, EnterEdit, Types,
     ChooseTheirs, ChooseYours, Cancel, EditNewObject, CancelOwnershipWarning
<1> QED  BY <1>2, <1>3, <1>4 DEF Next

LEMMA EditsBounded ==
  ASSUME [Next]_vars, edits \in 0 .. MaxEdits
  PROVE  edits' \in 0 .. MaxEdits
<1>1. MaxEdits \in Nat  BY ConstAssumption DEF ConstAssumption
<1>2. edits' = edits \/ (edits < MaxEdits /\ edits' = edits + 1)
  BY DEF Next, vars, OtherWrites, Recreated, ReadStarts, ReadAnswered, ReadLands, EnterEdit, Types,
     ChooseTheirs, ChooseYours, Offers, Cancel, EditNewObject, CancelOwnershipWarning, MergeClick,
     SaveClick, ConfirmOwnershipAndSave, MergeAnswered, MergeReturns, OwnershipAnswered,
     ApplyChecked, ApplyLands, ApplyReturns, VerifyAnswered, VerifyReturns, SaveEnds
<1> QED  BY <1>1, <1>2

LEMMA NextTab == EditInv /\ TabInv /\ [Next]_vars => TabInv'
<1> SUFFICES ASSUME EditInv, TabInv, [Next]_vars PROVE TabInv'  OBVIOUS
<1>1. Len(calls') <= MaxCalls /\ edits' \in 0 .. MaxEdits
  BY CallsBounded, EditsBounded DEF TabInv
<1>2. Remembered(ed.recent)  BY DEF TabInv
<1>3. Remembered(ed'.recent)
  <2>1. CASE UNCHANGED vars  BY <1>2, <2>1 DEF vars
  <2>2. CASE \/ OtherWrites \/ Recreated \/ ReadStarts \/ ReadAnswered
             \/ Types \/ ChooseTheirs \/ ChooseYours
             \/ MergeClick \/ SaveClick \/ CancelOwnershipWarning
    BY <1>2, <2>2, FramesRecall
  <2>3. CASE ReadLands \/ EnterEdit \/ Cancel \/ EditNewObject \/ ConfirmOwnershipAndSave
    BY <1>2, <2>3, SessionsRecall
  <2>4. ASSUME NEW c \in DOMAIN calls,
               \/ MergeAnswered(c) \/ MergeReturns(c)
               \/ OwnershipAnswered(c) \/ ApplyChecked(c) \/ ApplyLands(c) \/ ApplyReturns(c)
               \/ VerifyAnswered(c) \/ VerifyReturns(c) \/ SaveEnds(c)
        PROVE  Remembered(ed'.recent)
    BY <1>2, <2>4, CallsRecall, VerifyRemembers
  <2> QED  BY <2>1, <2>2, <2>3, <2>4 DEF Next
<1> QED  BY <1>1, <1>3 DEF TabInv

\* The tab's state, the calls and the remembered saves keep their types: four saves at
\* most, none twice (addRecentVerifiedYaml), and an open editor has its draft and baseline.
THEOREM TypeCorrect == Spec => []TypeOK
<1>1. Init => TabInv
  <2> SUFFICES ASSUME Init PROVE TabInv  OBVIOUS
  <2>1. ed.recent = <<>> /\ calls = <<>> /\ edits = 0  BY DEF Init
  <2>2. MaxCalls \in Nat /\ MaxEdits \in Nat  BY ConstAssumption DEF ConstAssumption
  <2>3. Remembered(<<>>)  BY DEF Remembered
  <2> QED  BY <2>1, <2>2, <2>3 DEF TabInv
<1>2. EditInv /\ TabInv => TypeOK
  <2> SUFFICES ASSUME EditInv, TabInv PROVE TypeOK  OBVIOUS
  <2>1. EdTyped(ed) /\ Editing(ed, authored)  BY DEF EditInv, GoodEd
  <2>2. ed.recent \in Seq(Entries)  BY DEF TabInv, Remembered
  <2>3. ed \in Editors(Seq(Entries))  BY <2>1, <2>2 DEF EdTyped, Editors
  <2>4. ed.isEditing => ed.draft # Nil /\ ed.base # Nil  BY <2>1, NilAssumption DEF Editing
  <2>5. calls \in Seq(Calls \cup {Nil})  BY DEF EditInv, GoodCalls
  <2> QED  BY <2>3, <2>4, <2>5 DEF EditInv, TabInv, Remembered, TypeOK, Entries
<1> QED  BY <1>1, <1>2, NextTab, EditInvariant, PTL DEF Spec
=============================================================================
