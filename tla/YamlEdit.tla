------------------------------- MODULE YamlEdit -------------------------------
(***************************************************************************)
(* The edit transaction of the object panel's YAML tab (yamlTransaction.ts *)
(* with the controls YamlTab.tsx offers) against the object it edits and   *)
(* the gateway's Merge, CheckOwnership and Apply (object_yaml_*.go).       *)
(*                                                                         *)
(* A YAML text is what the tab reads in it: the object's uid, its          *)
(* resourceVersion and the value of each editable field.  The semantic     *)
(* compare of the field policy drops the first two.  A handler reads the   *)
(* state of the render it was created in; what it still uses after an      *)
(* await travels in its call.  React effects run to their fixpoint after   *)
(* every handler (Settle).  Notices and messages are not modelled.         *)
(***************************************************************************)
EXTENDS Naturals, Sequences

CONSTANTS
  Fields,     \* editable fields of the object
  Values,     \* values of a field
  Original,   \* the value every field has in a new object
  UserTypes,  \* values the user types
  OthersSet,  \* values other clients write
  Nil,        \* null
  MaxRv,      \* bound on resourceVersions: on what happens to the object
  MaxUid,     \* bound on recreations
  MaxEdits,   \* bound on keystrokes, choices and clicks on Edit
  MaxCalls    \* bound on merges and saves

VARIABLES
  live,      \* the object in the cluster
  watched,   \* yamlContent: the object-yaml snapshot the tab watches
  read,      \* the domain's read: Nil, or <<>> until it is answered with <<object>>
  ed,        \* the state of useYamlTransaction
  calls,     \* merges and saves, in the order of their clicks
  authored,  \* for each field the values the user typed or chose (history)
  edits      \* number of keystrokes, choices and clicks on Edit

vars == <<live, watched, read, ed, calls, authored, edits>>

Uids == 1..MaxUid
Rvs == 1..MaxRv
Spec0 == [f \in Fields |-> Original]
Specs == [Fields -> Values]
Docs == [uid : Uids, rv : Rvs, spec : Specs]
Ids == [uid : Uids, rv : Rvs]
Choices == [choice : {"theirs", "yours"}, now : Values, yours : Values]
Warnings == [id : Ids, base : Docs, draft : Docs]
Answers == [kind : {"merged", "overlap", "replaced", "applied", "stored", "error"},
            doc : Docs, draft : Docs]
VerifiedStates == [id : Ids, spec : Specs]
Calls == [kind : {"merge", "save"},
          pc : {"sent", "owner", "apply", "patch", "answered", "verify", "verified", "refresh"},
          id : Ids, base : Docs, draft : Docs, own : SUBSET Fields, snapshot : Docs \cup {Nil},
          seen : VerifiedStates \cup {Nil}, answer : Answers \cup {Nil}]
\* The states of the tab that remember earlier saves in remembered.
Editors(remembered) ==
  [isEditing : BOOLEAN, isSaving : BOOLEAN, draft : Docs \cup {Nil},
   base : [id : Ids, doc : Docs] \cup {Nil}, override : Docs \cup {Nil},
   latest : Ids, driftForced : BOOLEAN,
   conflictLive : [doc : Docs, watched : Docs] \cup {Nil},
   replacedByConflict : BOOLEAN, choices : [Fields -> Choices \cup {Nil}],
   restartFrom : Uids \cup {Nil}, verified : VerifiedStates \cup {Nil},
   recent : remembered, pending : Docs \cup {Nil}, warning : Warnings \cup {Nil}]

ASSUME ConstAssumption ==
  /\ MaxRv \in Nat \ {0} /\ MaxUid \in Nat \ {0} /\ MaxEdits \in Nat /\ MaxCalls \in Nat
  /\ Original \in Values /\ UserTypes \subseteq Values /\ OthersSet \subseteq Values

ASSUME NilAssumption == Nil \notin Calls \cup Docs \cup [id : Ids, doc : Docs]

\* parseObjectIdentity of a text.
IdOf(doc) == [uid |-> doc.uid, rv |-> doc.rv]

-----------------------------------------------------------------------------
\* What the tab derives from its state in a render.

Effective(e, w) == IF e.override = Nil THEN w ELSE e.override

\* An identity of the same name and another uid.
ObjectReplaced(e) ==
  e.isEditing /\ (e.replacedByConflict \/ e.base.id.uid # e.latest.uid)

\* hasRemoteDrift once its effect has run.
HasRemoteDrift(e, w) ==
  /\ e.isEditing
  /\ \/ e.driftForced
     \/ /\ e.latest.rv # e.base.id.rv
        /\ e.base.doc.spec # Effective(e, w).spec

\* driftLiveYamlOf: the text the drift notice compares with.
DriftLive(e, w) ==
  IF e.conflictLive # Nil /\ e.conflictLive.watched = w THEN e.conflictLive.doc
  ELSE IF HasRemoteDrift(e, w) \/ ObjectReplaced(e) THEN Effective(e, w)
  ELSE Nil

\* compareDriftFields: the fields someone else changed since the edit began.
DriftFields(e, w) ==
  IF e.isEditing /\ DriftLive(e, w) # Nil
  THEN {f \in Fields : e.base.doc.spec[f] # DriftLive(e, w).spec[f]}
  ELSE {}

\* The draft changed the field too, to another value.
InConflict(e, w, f) ==
  /\ e.draft.spec[f] # e.base.doc.spec[f]
  /\ e.draft.spec[f] # DriftLive(e, w).spec[f]

\* choiceOf: a choice holds while their value is the one it was made against
\* and the draft still matches it.
ChoiceHolds(e, w, f) ==
  /\ e.choices[f] # Nil
  /\ e.choices[f].now = DriftLive(e, w).spec[f]
  /\ (e.choices[f].choice = "yours") = InConflict(e, w, f)

\* resolveDriftGates.
Undecided(e, w) ==
  {f \in DriftFields(e, w) : InConflict(e, w, f) /\ ~ChoiceHolds(e, w, f)}

YoursFields(e, w) ==
  {f \in DriftFields(e, w) : ChoiceHolds(e, w, f) /\ e.choices[f].choice = "yours"}

-----------------------------------------------------------------------------
\* The effects.

\* matchesVerifiedSnapshot: the snapshot holds what this save or one of the
\* saves before it stored.
MatchesVerified(e, w) ==
  \/ w.spec = e.verified.spec
  \/ \E i \in DOMAIN e.recent :
       e.recent[i] = [uid |-> e.verified.id.uid, spec |-> w.spec]

\* shouldClearManualYamlOverride: the watched snapshot takes over again.
SnapshotTakesOver(e, w) ==
  IF w.uid = e.override.uid
  THEN /\ e.pending # w
       /\ \/ w.rv = e.latest.rv
          \/ e.verified # Nil /\ ~MatchesVerified(e, w)
          \/ e.verified = Nil /\ e.pending # Nil
  ELSE w.rv = e.latest.rv

AdoptSnapshot(e, w) ==
  IF e.override = Nil THEN [e EXCEPT !.latest = IdOf(w)]
  ELSE IF SnapshotTakesOver(e, w)
       THEN [e EXCEPT !.override = Nil, !.pending = Nil, !.latest = IdOf(w)]
       ELSE e

\* The reset decision of classifyPostApplySnapshot: another object is shown.
ForgetVerified(e, w) ==
  IF ~e.isEditing /\ e.override = Nil /\ e.verified # Nil /\ e.verified.id.uid # w.uid
  THEN [e EXCEPT !.verified = Nil]
  ELSE e

\* The drift effect outside edit mode.
ForgetDrift(e) ==
  IF e.isEditing THEN e ELSE [e EXCEPT !.conflictLive = Nil, !.driftForced = FALSE]

NoChoices == [f \in Fields |-> Nil]

\* handleEnterEdit.
Enter(e, w) ==
  [e EXCEPT !.isEditing = TRUE, !.draft = Effective(e, w),
            !.base = [id |-> e.latest, doc |-> Effective(e, w)],
            !.driftForced = FALSE, !.conflictLive = Nil, !.replacedByConflict = FALSE,
            !.choices = NoChoices, !.pending = Nil, !.override = Effective(e, w)]

\* Mutation: the editor stays open without its draft.
ExitHalf(e) ==
  [e EXCEPT !.draft = Nil, !.base = Nil, !.driftForced = FALSE, !.conflictLive = Nil,
            !.replacedByConflict = FALSE, !.choices = NoChoices, !.isSaving = FALSE,
            !.pending = Nil, !.warning = Nil]

\* exitEditMode.
Exit(e) ==
  [e EXCEPT !.isEditing = FALSE, !.draft = Nil, !.base = Nil, !.driftForced = FALSE,
            !.conflictLive = Nil, !.replacedByConflict = FALSE, !.choices = NoChoices,
            !.isSaving = FALSE, !.pending = Nil, !.warning = Nil]

\* The restart after Edit the new object, once another object is shown.
Restart(e, w) ==
  IF e.restartFrom # Nil /\ ~e.isEditing /\ e.latest.uid # e.restartFrom
  THEN AdoptSnapshot(Enter([e EXCEPT !.restartFrom = Nil], w), w)
  ELSE e

Settle(e, w) == Restart(ForgetDrift(ForgetVerified(AdoptSnapshot(e, w), w)), w)

-----------------------------------------------------------------------------
\* The gateway and the cluster.

\* buildKubectlEditPatch and buildReloadMergePatch: the fields the draft
\* changed from its baseline.
Edited(base, draft) == {f \in Fields : draft.spec[f] # base.spec[f]}

\* Mutation: the whole draft is written, as a replace would.
PatchedWhole(doc, base, draft) == draft.spec

\* The patch applied to an object: its own fields only.
Patched(doc, base, draft) ==
  [f \in Fields |-> IF f \in Edited(base, draft) THEN draft.spec[f] ELSE doc.spec[f]]

\* requireReloadMergeEditsApply: an edit meets a live change to another value.
Overlaps(doc, base, draft) ==
  \E f \in Edited(base, draft) :
    doc.spec[f] # base.spec[f] /\ doc.spec[f] # draft.spec[f]

Init ==
  /\ live = [uid |-> 1, rv |-> 1, spec |-> Spec0]
  /\ watched = live
  /\ read = Nil
  /\ ed = [isEditing |-> FALSE, isSaving |-> FALSE, draft |-> Nil, base |-> Nil,
           override |-> Nil, latest |-> IdOf(live), driftForced |-> FALSE,
           conflictLive |-> Nil, replacedByConflict |-> FALSE, choices |-> NoChoices,
           restartFrom |-> Nil, verified |-> Nil, recent |-> <<>>, pending |-> Nil,
           warning |-> Nil]
  /\ calls = <<>>
  /\ authored = [f \in Fields |-> {}]
  /\ edits = 0

\* Another client writes a field, or only the server's own fields (the same
\* value again): a new resourceVersion either way.
OtherWrites ==
  /\ live.rv < MaxRv
  /\ \E f \in Fields, v \in OthersSet :
       live' = [live EXCEPT !.rv = @ + 1, !.spec[f] = v]
  /\ UNCHANGED <<watched, read, ed, calls, authored, edits>>

\* The object is deleted and created again under its name.
Recreated ==
  /\ live.rv < MaxRv /\ live.uid < MaxUid
  /\ live' = [uid |-> live.uid + 1, rv |-> live.rv + 1, spec |-> Spec0]
  /\ UNCHANGED <<watched, read, ed, calls, authored, edits>>

\* The object-yaml domain reads the object; one read is out at a time.  A read
\* the tab asks for (reason user) takes the place of one that is out.

\* Mutation: the request joins the read that is out.
JoinRead == read' = IF read = Nil THEN <<>> ELSE read

ReadAgain == read' = <<>>

ReadStarts ==
  /\ read = Nil
  /\ read' = <<>>
  /\ UNCHANGED <<live, watched, ed, calls, authored, edits>>

ReadAnswered ==
  /\ read = <<>>
  /\ read' \in {<<live>>, Nil}
  /\ UNCHANGED <<live, watched, ed, calls, authored, edits>>

ReadLands ==
  /\ read # Nil /\ read # <<>>
  /\ watched' = Head(read) /\ read' = Nil
  /\ ed' = Settle(ed, Head(read))
  /\ UNCHANGED <<live, calls, authored, edits>>

-----------------------------------------------------------------------------
\* The user.

\* The ownership dialog is modal, and the editor is disabled while saving.
Free == ed.isEditing /\ ~ed.isSaving /\ ed.warning = Nil

EnterEdit ==
  /\ ~ed.isEditing /\ ed.warning = Nil /\ edits < MaxEdits
  /\ ed' = Settle(Enter(ed, watched), watched)
  /\ edits' = edits + 1
  /\ UNCHANGED <<live, watched, read, calls, authored>>

\* handleEditorChange.
Types ==
  /\ Free /\ edits < MaxEdits
  /\ \E f \in Fields, v \in UserTypes :
       /\ v # ed.draft.spec[f]
       /\ ed' = [ed EXCEPT !.draft.spec[f] = v]
       /\ authored' = [authored EXCEPT ![f] = @ \cup {v}]
  /\ edits' = edits + 1
  /\ UNCHANGED <<live, watched, read, calls>>

\* withChoice: your value is the draft's while the field is a conflict, else
\* the one recorded when theirs replaced it.
WithChoice(f, choice) ==
  [ed.choices EXCEPT ![f] =
     [choice |-> choice, now |-> DriftLive(ed, watched).spec[f],
      yours |-> IF InConflict(ed, watched, f) \/ @ = Nil THEN ed.draft.spec[f] ELSE @.yours]]

\* The row of a field both sides changed offers the value that is not chosen.
Offers(f, choice) ==
  /\ Free /\ edits < MaxEdits
  /\ ~ObjectReplaced(ed)
  /\ f \in DriftFields(ed, watched)
  /\ InConflict(ed, watched, f) \/ ChoiceHolds(ed, watched, f)
  /\ ChoiceHolds(ed, watched, f) => ed.choices[f].choice # choice

ChooseTheirs ==
  \E f \in Fields :
    LET theirs == DriftLive(ed, watched).spec[f] IN
      /\ Offers(f, "theirs")
      /\ ed' = [ed EXCEPT !.choices = WithChoice(f, "theirs"), !.draft.spec[f] = theirs]
      /\ authored' = [authored EXCEPT ![f] = @ \cup {theirs}]
      /\ edits' = edits + 1
      /\ UNCHANGED <<live, watched, read, calls>>

ChooseYours ==
  \E f \in Fields :
    /\ Offers(f, "yours")
    /\ ed' = [ed EXCEPT !.choices = WithChoice(f, "yours"),
                        !.draft.spec[f] = IF InConflict(ed, watched, f) THEN @
                                          ELSE ed.choices[f].yours]
    /\ edits' = edits + 1
    /\ UNCHANGED <<live, watched, read, calls, authored>>

\* handleCancelClick, from the toolbar, the notice or the ownership dialog.
Cancel ==
  /\ ed.isEditing /\ ~ed.isSaving
  /\ ed' = Settle(Exit(ed), watched)
  /\ UNCHANGED <<live, watched, read, calls, authored, edits>>

\* editNewObject: its button stays enabled while a save is out.
EditNewObject ==
  /\ ObjectReplaced(ed) /\ ed.warning = Nil
  /\ ed' = Settle([Exit(ed) EXCEPT !.restartFrom = ed.base.id.uid], watched)
  /\ ReadAgain
  /\ UNCHANGED <<live, watched, calls, authored, edits>>

-----------------------------------------------------------------------------
\* Merges and saves.  A call keeps what its handler captured at the click: the
\* identity, the texts it sends, the snapshot and the verified state then.

Answer(kind, doc, draft) == [kind |-> kind, doc |-> doc, draft |-> draft]

Answered(c, pc, answer) == [calls EXCEPT ![c] = [@ EXCEPT !.pc = pc, !.answer = answer]]
Advance(c, pc) == Answered(c, pc, Nil)
Ended(c) == [calls EXCEPT ![c] = Nil]
At(c, kind, pc) == calls[c] # Nil /\ calls[c].kind = kind /\ calls[c].pc = pc

\* Mutation: their value of every field someone else changed.
MergeBaseTheirs ==
  [ed.base.doc EXCEPT !.spec = [f \in Fields |->
     IF f \in DriftFields(ed, watched) THEN DriftLive(ed, watched).spec[f] ELSE @[f]]]

\* The baseline of a merge request: their value where yours was chosen, so that
\* the merge applies yours instead of stopping on it.
MergeBase ==
  [ed.base.doc EXCEPT !.spec = [f \in Fields |->
     IF f \in YoursFields(ed, watched) THEN DriftLive(ed, watched).spec[f] ELSE @[f]]]

Merging ==
  [kind |-> "merge", pc |-> "sent", id |-> ed.base.id, base |-> MergeBase,
   draft |-> ed.draft, own |-> Edited(ed.base.doc, ed.draft),
   snapshot |-> Nil, seen |-> Nil, answer |-> Nil]

Saving(pc, id, base, draft) ==
  [kind |-> "save", pc |-> pc, id |-> id, base |-> base, draft |-> draft, own |-> {},
   snapshot |-> watched, seen |-> ed.verified, answer |-> Nil]

\* adoptConflictLiveObject: compare with the conflict's object from now on, and
\* read again, cancelling the read that is out.
AdoptConflict(e, answer) ==
  [e EXCEPT !.driftForced = TRUE,
            !.replacedByConflict = @ \/ answer.kind = "replaced",
            !.conflictLive = [doc |-> answer.doc, watched |-> watched]]

\* handleReloadAndMerge.  Nothing marks the merge as out: editing goes on.
MergeClick ==
  /\ Free /\ Len(calls) < MaxCalls
  /\ HasRemoteDrift(ed, watched) /\ ~ObjectReplaced(ed)
  /\ Undecided(ed, watched) = {}
  /\ calls' = Append(calls, Merging)
  /\ UNCHANGED <<live, watched, read, ed, authored, edits>>

\* MergeObjectYamlWithLatest, or its failure.
MergeAnswered(c) ==
  /\ At(c, "merge", "sent")
  /\ LET m == calls[c]
         merged == [live EXCEPT !.spec = Patched(live, m.base, m.draft)] IN
       \/ /\ live.uid # m.id.uid
          /\ calls' = Answered(c, "answered", Answer("replaced", live, live))
       \/ /\ live.uid = m.id.uid /\ Overlaps(live, m.base, m.draft)
          /\ calls' = Answered(c, "answered", Answer("overlap", live, live))
       \/ /\ live.uid = m.id.uid /\ ~Overlaps(live, m.base, m.draft)
          /\ calls' = Answered(c, "answered", Answer("merged", live, merged))
       \/ calls' = Ended(c)
  /\ UNCHANGED <<live, watched, read, ed, authored, edits>>

\* The answer replaces baseline and draft, whatever happened since the click.
MergeReturns(c) ==
  /\ At(c, "merge", "answered")
  /\ LET answer == calls[c].answer IN
       IF answer.kind = "merged"
       THEN ed' = Settle([ed EXCEPT !.base = [id |-> IdOf(answer.doc), doc |-> answer.doc],
                                    !.draft = answer.draft, !.latest = IdOf(answer.doc),
                                    !.override = answer.doc, !.driftForced = FALSE,
                                    !.conflictLive = Nil, !.replacedByConflict = FALSE,
                                    !.choices = NoChoices, !.verified = Nil,
                                    !.pending = Nil], watched)
       ELSE ed' = Settle(AdoptConflict(ed, answer), watched)
  /\ ReadAgain
  /\ calls' = Ended(c)
  /\ UNCHANGED <<live, watched, authored, edits>>

\* handleSaveClick up to the ownership check.
SaveClick ==
  /\ Free /\ Len(calls) < MaxCalls
  /\ ~ObjectReplaced(ed) /\ Undecided(ed, watched) = {}
  /\ ed.draft.uid = ed.base.id.uid
  /\ ed' = [ed EXCEPT !.isSaving = TRUE]
  /\ calls' = Append(calls, Saving("owner", ed.base.id, ed.base.doc, ed.draft))
  /\ UNCHANGED <<live, watched, read, authored, edits>>

\* performSave up to its request.
Performing(e, snapshot) == [e EXCEPT !.isSaving = TRUE, !.pending = snapshot]

\* checkYamlOwnershipFailOpen: no conflict, and a failure or a replaced object,
\* let the save go on; a conflict needs an edit.
OwnershipAnswered(c) ==
  /\ At(c, "save", "owner")
  /\ \/ /\ ed' = Settle(Performing(ed, calls[c].snapshot), watched)
        /\ calls' = Advance(c, "apply")
     \/ /\ live.uid = calls[c].id.uid /\ Edited(calls[c].base, calls[c].draft) # {}
        /\ ed' = [ed EXCEPT !.isSaving = FALSE,
                            !.warning = [id |-> calls[c].id, base |-> calls[c].base,
                                         draft |-> calls[c].draft]]
        /\ calls' = Ended(c)
  /\ UNCHANGED <<live, watched, read, authored, edits>>

ConfirmOwnershipAndSave ==
  /\ ed.warning # Nil /\ ~ed.isSaving /\ Len(calls) < MaxCalls
  /\ ed' = Settle(Performing([ed EXCEPT !.warning = Nil], watched), watched)
  /\ calls' = Append(calls, Saving("apply", ed.warning.id, ed.warning.base, ed.warning.draft))
  /\ UNCHANGED <<live, watched, read, authored, edits>>

CancelOwnershipWarning ==
  /\ ed.warning # Nil
  /\ ed' = [ed EXCEPT !.warning = Nil]
  /\ UNCHANGED <<live, watched, read, calls, authored, edits>>

\* prepareAuthorizedYAMLMutation reads the object and compares the uid.
ApplyChecked(c) ==
  /\ At(c, "save", "apply")
  /\ \/ /\ live.uid # calls[c].id.uid
        /\ calls' = Answered(c, "answered", Answer("replaced", live, live))
     \/ /\ live.uid = calls[c].id.uid
        /\ calls' = Advance(c, "patch")
     \/ calls' = Answered(c, "answered", Answer("error", live, live))
  /\ UNCHANGED <<live, watched, read, ed, authored, edits>>

\* The PATCH request of applyObjectYaml: a new version if it changes anything;
\* its answer may be lost after it landed.
ApplyLands(c) ==
  /\ At(c, "save", "patch")
  /\ LET spec == Patched(live, calls[c].base, calls[c].draft) IN
       /\ spec = live.spec \/ live.rv < MaxRv
       /\ live' = IF spec = live.spec THEN live
                  ELSE [live EXCEPT !.rv = @ + 1, !.spec = spec]
  /\ \E kind \in {"applied", "error"} :
       calls' = Answered(c, "answered", Answer(kind, live', live'))
  /\ UNCHANGED <<watched, read, ed, authored, edits>>

\* Mutation: the save stays marked as out.
UnsavedBusy(e) == [e EXCEPT !.pending = Nil]

\* handleSaveConflict, handleSaveError and the finally that follows them.
Unsaved(e) == [e EXCEPT !.isSaving = FALSE, !.pending = Nil]

\* performSave after the request: show the draft as stored and read it back,
\* keep editing on a conflict, or report the error.
ApplyReturns(c) ==
  /\ At(c, "save", "answered")
  /\ LET answer == calls[c].answer IN
       \/ /\ answer.kind = "applied"
          /\ ed' = Settle([ed EXCEPT !.latest = [uid |-> calls[c].id.uid, rv |-> answer.doc.rv],
                                     !.override = [calls[c].draft EXCEPT !.rv = answer.doc.rv]],
                          watched)
          /\ calls' = Advance(c, "verify")
          /\ UNCHANGED read
       \/ /\ answer.kind = "replaced"
          /\ ed' = Settle(Unsaved(AdoptConflict(ed, answer)), watched)
          /\ ReadAgain
          /\ calls' = Ended(c)
       \/ /\ answer.kind = "error"
          /\ ed' = Settle([Unsaved(ed) EXCEPT !.verified = Nil], watched)
          /\ calls' = Ended(c)
          /\ UNCHANGED read
  /\ UNCHANGED <<live, watched, authored, edits>>

\* verifyAppliedYaml reads the stored object, which may fail.
VerifyAnswered(c) ==
  /\ At(c, "save", "verify")
  /\ \E kind \in {"stored", "error"} :
       calls' = Answered(c, "verified", Answer(kind, live, live))
  /\ UNCHANGED <<live, watched, read, ed, authored, edits>>

\* The filter of addRecentVerifiedYaml: an entry is remembered once, so at most
\* one goes.
Without(recent, entry) ==
  IF \E i \in DOMAIN recent : recent[i] = entry
  THEN LET at == CHOOSE i \in DOMAIN recent : recent[i] = entry
       IN SubSeq(recent, 1, at - 1) \o SubSeq(recent, at + 1, Len(recent))
  ELSE recent

\* addRecentVerifiedYaml: the last four texts earlier saves stored.
WithRecent(recent, seen) ==
  IF seen = Nil THEN recent
  ELSE LET entry == [uid |-> seen.id.uid, spec |-> seen.spec]
           all == <<entry>> \o Without(recent, entry) IN
       IF Len(all) > 4 THEN SubSeq(all, 1, 4) ELSE all

\* Leave edit mode and read again, whichever session is being edited by now.
VerifyReturns(c) ==
  /\ At(c, "save", "verified")
  /\ LET answer == calls[c].answer
         checked == IF answer.kind = "stored"
                    THEN [ed EXCEPT !.latest = IdOf(answer.doc), !.override = answer.doc,
                                    !.recent = WithRecent(@, calls[c].seen),
                                    !.verified = [id |-> IdOf(answer.doc), spec |-> answer.doc.spec]]
                    ELSE [ed EXCEPT !.verified = Nil] IN
       ed' = Settle([Exit(checked) EXCEPT !.pending = calls[c].snapshot], watched)
  /\ ReadAgain
  /\ calls' = Advance(c, "refresh")
  /\ UNCHANGED <<live, watched, authored, edits>>

\* The finally of performSave, once the read it waits for has ended.
SaveEnds(c) ==
  /\ At(c, "save", "refresh")
  /\ ed' = [ed EXCEPT !.isSaving = FALSE]
  /\ calls' = Ended(c)
  /\ UNCHANGED <<live, watched, read, authored, edits>>

Next ==
  \/ OtherWrites \/ Recreated
  \/ ReadStarts \/ ReadAnswered \/ ReadLands
  \/ EnterEdit \/ Types \/ ChooseTheirs \/ ChooseYours \/ Cancel \/ EditNewObject
  \/ MergeClick \/ SaveClick \/ ConfirmOwnershipAndSave \/ CancelOwnershipWarning
  \/ \E c \in DOMAIN calls :
       \/ MergeAnswered(c) \/ MergeReturns(c)
       \/ OwnershipAnswered(c) \/ ApplyChecked(c) \/ ApplyLands(c) \/ ApplyReturns(c)
       \/ VerifyAnswered(c) \/ VerifyReturns(c) \/ SaveEnds(c)

Spec == Init /\ [][Next]_vars

-----------------------------------------------------------------------------
\* The tab's state keeps its types, an open editor has its draft and baseline,
\* and no more than four saves are remembered, none of them twice.
TypeOK ==
  /\ live \in Docs /\ watched \in Docs
  /\ read \in {Nil, <<>>} \cup {<<doc>> : doc \in Docs}
  /\ ed \in Editors(Seq([uid : Uids, spec : Specs]))
  /\ ed.isEditing => ed.draft # Nil /\ ed.base # Nil
  /\ Len(ed.recent) <= 4
  /\ \A i, j \in DOMAIN ed.recent : ed.recent[i] = ed.recent[j] => i = j
  /\ calls \in Seq(Calls \cup {Nil}) /\ Len(calls) <= MaxCalls
  /\ authored \in [Fields -> SUBSET Values]
  /\ edits \in 0..MaxEdits

\* Saving keeps others' changes to fields the user did not edit: whatever a
\* patch changes in the object as it then is, the user typed or chose.
SaveKeepsOthers ==
  [][\A c \in DOMAIN calls :
       At(c, "save", "patch") /\ calls'[c] # calls[c] =>
         \A f \in Fields :
           live'.spec[f] # live.spec[f] => live'.spec[f] \in authored[f]]_vars

\* The editor is disabled for saving only while a save is really out.
SavingEnds ==
  ed.isSaving => \E c \in DOMAIN calls : calls[c] # Nil /\ calls[c].kind = "save"

\* A merge returns the live object with every edit the draft had at the click,
\* on top of what others changed.
MergeKeepsEdits ==
  [][\A c \in DOMAIN calls :
       /\ At(c, "merge", "answered") /\ calls[c].answer.kind = "merged"
       /\ ed.isEditing /\ calls'[c] = Nil
       =>
         \A f \in Fields :
           ed'.draft.spec[f] = IF f \in calls[c].own THEN calls[c].draft.spec[f]
                               ELSE calls[c].answer.doc.spec[f]]_vars

\* With no text of its own to show, the tab never compares the draft with an
\* object older than the one a conflict brought.
ConflictNotOutdated ==
  ed.conflictLive # Nil /\ ed.override = Nil =>
    DriftLive(ed, watched) # Nil /\ DriftLive(ed, watched).rv >= ed.conflictLive.doc.rv

\* "a remote change shows as drift right away": a watched snapshot newer than
\* the baseline and different from it is shown as drift or as a replacement.
DriftShownRightAway ==
  /\ ed.isEditing /\ ~ed.isSaving
  /\ watched.rv > ed.base.id.rv /\ watched.spec # ed.base.doc.spec
  => HasRemoteDrift(ed, watched) \/ ObjectReplaced(ed)
=============================================================================
