------------------------- MODULE IndexBuilderProofs -------------------------
(***************************************************************************)
(* For any wallets, configs, assets and drafts, and any number of          *)
(* callbacks in progress: a save stays on its draft, and what is           *)
(* registered is what was checked.  Two separate arguments.                *)
(*                                                                         *)
(* Everything the page or a callback says of a draft -- what is shown as   *)
(* its work, what a request is about to write, what an answer carries --   *)
(* was true once.  It stays true: a row changes only by a save, which      *)
(* writes what was true already, and an id is never given out twice.       *)
(*                                                                         *)
(* A result on show that is not overtaken is of the basket on show, and no *)
(* proposal is awaited that could replace that basket; and the session is  *)
(* compared with the account in the step that signs, unless the network    *)
(* was switched in between.                                                *)
(***************************************************************************)
EXTENDS IndexBuilder, TLAPS

Works == 1..Own
DraftRow == [is : {"row"}, owner : Wallets, work : Works]
Listing == [Ids -> Works \union {None}]

\* The answers to one of the four requests: what they say when they are ok.
Answers(body) ==
    {Waiting, Alone} \union [status : {"ok"}, body : body]
        \union [status : {"401", "404", "500"}, body : {None}]

Ops == {"mount", "save", "load", "delete", "import"}
FlowsThatAsk(asks, id, w, body) ==
    [op : Ops, asks : {asks}, id : id, work : w, home : Ids \union {None},
     ans : Answers(body)]
ListFlows == FlowsThatAsk("list", {None}, {None}, Listing)
LoadFlows == FlowsThatAsk("draft", Ids, Works, Works)
SaveFlows == FlowsThatAsk("save", Ids \union {None}, Works, Ids)
DeleteFlows == FlowsThatAsk("delete", Ids, {None}, Ids)
AnyFlows == ListFlows \union LoadFlows \union SaveFlows \union DeleteFlows

\* What the drafts panel needs of the types.
DraftTypeOK ==
    /\ account \in Wallets /\ cookie \in Wallets \union {None}
    /\ guard.is = "signing" => guard.by \in Wallets
    /\ rows \in [Ids -> {Unused, Gone} \union DraftRow]
    /\ work \in Works
    /\ drafts \in Listing
    /\ currentDraftId \in Ids \union {None}
    /\ flows \in [Slots -> {Idle} \union AnyFlows]

\* Draft id was issued and holds work w as long as it exists, or is a stray.
Holds(rs, ss, id, w) ==
    /\ rs[id] # Unused
    /\ rs[id].is = "row" /\ id \notin ss => rs[id].work = w

\* What a callback says of a draft, in its request or in the answer.
Truthful(rs, ss, f) ==
    f # Idle =>
        /\ f.asks = "save" /\ f.id # None => Holds(rs, ss, f.id, f.work)
        /\ f.asks = "save" /\ f.id = None /\ f.op = "save" /\ f.ans.status = "ok"
              => Holds(rs, ss, f.ans.body, f.work)
        /\ f.asks = "draft" => Holds(rs, ss, f.id, f.work)
        /\ f.asks = "draft" /\ f.ans.status = "ok" => Holds(rs, ss, f.id, f.ans.body)
        /\ f.asks = "list" /\ f.ans.status = "ok"
              => \A id \in Ids : f.ans.body[id] # None
                                   => Holds(rs, ss, id, f.ans.body[id])

DraftsInv ==
    /\ DraftTypeOK
    /\ currentDraftId # None => Holds(rows, strays, currentDraftId, work)
    /\ \A id \in Ids : drafts[id] # None => Holds(rows, strays, id, drafts[id])
    /\ \A i \in Slots : Truthful(rows, strays, flows[i])

-----------------------------------------------------------------------------
(* What is known of a draft stays true                                      *)

\* Rows change like this: an id is given out, a row is deleted, and only a
\* stray's work is ever replaced by other work.
Evolves(rs, ss, rt) ==
    \A id \in Ids :
        rs[id] # Unused =>
            /\ rt[id] # Unused
            /\ rt[id].is = "row" /\ id \notin ss
                  => rs[id].is = "row" /\ rt[id].work = rs[id].work

LEMMA HoldsOn ==
    ASSUME NEW rs, NEW rt, NEW ss, NEW st, Evolves(rs, ss, rt), ss \subseteq st,
           NEW id \in Ids, NEW w, Holds(rs, ss, id, w)
    PROVE  Holds(rt, st, id, w)
BY DEF Evolves, Holds

LEMMA OwnIsNat == /\ Own \in Nat /\ Ids \subseteq Works /\ None \notin Works
                  /\ None \notin Ids /\ Own \in Works
                  /\ \A n \in 1..NumLegacy : LegacyWork(n) \in Works
BY BuilderAssumption DEF Own, Ids, Works, None, LegacyWork

\* A flow that asks for something is one of the four kinds.
LEMMA Kinds ==
    ASSUME NEW f \in {Idle} \union AnyFlows, f # Idle
    PROVE  /\ f.asks \in {"list", "draft", "save", "delete"}
           /\ f.asks = "list" => f \in ListFlows
           /\ f.asks = "draft" => f \in LoadFlows
           /\ f.asks = "save" => f \in SaveFlows
           /\ f.asks = "delete" => f \in DeleteFlows
           /\ f.op \in Ops
BY DEF AnyFlows, ListFlows, LoadFlows, SaveFlows, DeleteFlows, FlowsThatAsk

\* An answered flow keeps what it asked for.
LEMMA Answered ==
    ASSUME NEW asks, NEW ids, NEW works, NEW body,
           NEW f \in FlowsThatAsk(asks, ids, works, body), NEW a \in Answers(body)
    PROVE  LET g == [f EXCEPT !.ans = a]
           IN  /\ g \in FlowsThatAsk(asks, ids, works, body)
               /\ g.asks = asks /\ g.op = f.op /\ g.id = f.id /\ g.work = f.work
               /\ g.ans = a
BY DEF FlowsThatAsk

LEMMA TruthfulOn ==
    ASSUME NEW rs, NEW rt, NEW ss, NEW st, Evolves(rs, ss, rt), ss \subseteq st,
           NEW f \in {Idle} \union AnyFlows, Truthful(rs, ss, f)
    PROVE  Truthful(rt, st, f)
<1> SUFFICES ASSUME f # Idle
             PROVE  Truthful(rt, st, f)
  BY DEF Truthful
<1>1. ASSUME f.asks = "save", f.id # None
      PROVE  Holds(rt, st, f.id, f.work)
  <2>1. f.id \in Ids
    BY <1>1, Kinds DEF SaveFlows, FlowsThatAsk
  <2> QED
    BY <1>1, <2>1, HoldsOn DEF Truthful
<1>2. ASSUME f.asks = "save", f.id = None, f.op = "save", f.ans.status = "ok"
      PROVE  Holds(rt, st, f.ans.body, f.work)
  <2>1. f.ans.body \in Ids
    BY <1>2, Kinds DEF SaveFlows, FlowsThatAsk, Answers, Waiting, Alone
  <2> QED
    BY <1>2, <2>1, HoldsOn DEF Truthful
<1>3. ASSUME f.asks = "draft"
      PROVE  /\ Holds(rt, st, f.id, f.work)
             /\ f.ans.status = "ok" => Holds(rt, st, f.id, f.ans.body)
  <2>1. f.id \in Ids
    BY <1>3, Kinds DEF LoadFlows, FlowsThatAsk
  <2> QED
    BY <1>3, <2>1, HoldsOn DEF Truthful
<1>4. ASSUME f.asks = "list", f.ans.status = "ok", NEW id \in Ids,
             f.ans.body[id] # None
      PROVE  Holds(rt, st, id, f.ans.body[id])
  BY <1>4, HoldsOn DEF Truthful
<1> QED
  BY <1>1, <1>2, <1>3, <1>4 DEF Truthful

\* The frame of every step: one slot changes, or none, and the rest of the
\* page's knowledge is still true.
LEMMA SlotMoves ==
    ASSUME DraftsInv, NEW i \in Slots, NEW g \in {Idle} \union AnyFlows,
           Evolves(rows, strays, rows'), strays \subseteq strays',
           flows' = [flows EXCEPT ![i] = g], Truthful(rows', strays', g)
    PROVE  /\ flows' \in [Slots -> {Idle} \union AnyFlows]
           /\ \A j \in Slots : Truthful(rows', strays', flows'[j])
<1>1. flows' \in [Slots -> {Idle} \union AnyFlows]
  BY DEF DraftsInv, DraftTypeOK
<1>2. ASSUME NEW j \in Slots
      PROVE  Truthful(rows', strays', flows'[j])
  <2>1. CASE j = i
    BY <2>1 DEF DraftsInv, DraftTypeOK
  <2>2. CASE j # i
    <3>1. flows'[j] = flows[j] /\ flows[j] \in {Idle} \union AnyFlows
      BY <2>2 DEF DraftsInv, DraftTypeOK
    <3>2. Truthful(rows, strays, flows[j])
      BY DEF DraftsInv
    <3> QED
      BY <3>1, <3>2, TruthfulOn
  <2> QED
    BY <2>1, <2>2
<1> QED
  BY <1>1, <1>2

LEMMA FlowsStay ==
    ASSUME DraftsInv, Evolves(rows, strays, rows'), strays \subseteq strays',
           UNCHANGED flows
    PROVE  \A j \in Slots : Truthful(rows', strays', flows'[j])
BY TruthfulOn DEF DraftsInv, DraftTypeOK

\* What the page shows stays true while it shows the same.
LEMMA PageStays ==
    ASSUME DraftsInv, Evolves(rows, strays, rows'), strays \subseteq strays'
    PROVE  /\ UNCHANGED <<currentDraftId, work>> /\ currentDraftId # None
                => Holds(rows', strays', currentDraftId', work')
           /\ UNCHANGED drafts
                => \A id \in Ids : drafts'[id] # None
                                     => Holds(rows', strays', id, drafts'[id])
<1>1. ASSUME UNCHANGED <<currentDraftId, work>>, currentDraftId # None
      PROVE  Holds(rows', strays', currentDraftId', work')
  <2>1. currentDraftId \in Ids /\ Holds(rows, strays, currentDraftId, work)
    BY <1>1 DEF DraftsInv, DraftTypeOK
  <2> QED
    BY <1>1, <2>1, HoldsOn
<1>2. ASSUME UNCHANGED drafts, NEW id \in Ids, drafts'[id] # None
      PROVE  Holds(rows', strays', id, drafts'[id])
  BY <1>2, HoldsOn DEF DraftsInv
<1> QED
  BY <1>1, <1>2

LEMMA RowsStay == UNCHANGED <<rows, strays>> =>
                      Evolves(rows, strays, rows') /\ strays \subseteq strays'
BY DEF Evolves

\* A step that leaves the panel, its callbacks and the rows alone.
LEMMA PanelUntouched ==
    ASSUME DraftsInv, UNCHANGED <<rows, work, drafts, currentDraftId, flows, strays>>,
           account' \in Wallets, cookie' \in Wallets \union {None},
           guard'.is = "signing" => guard'.by \in Wallets
    PROVE  DraftsInv'
BY DEF DraftsInv, DraftTypeOK

-----------------------------------------------------------------------------
(* Initial states                                                           *)

\* A list that is asked for says nothing yet.
LEMMA ListAsked ==
    ASSUME NEW op \in Ops, NEW rs, NEW ss
    PROVE  RefreshDrafts(op) \in ListFlows /\ Truthful(rs, ss, RefreshDrafts(op))
BY DEF RefreshDrafts, Flow, ListFlows, FlowsThatAsk, Answers, Truthful, Waiting

LEMMA DraftsInit == BuilderInit => DraftsInv
<1> SUFFICES ASSUME BuilderInit
             PROVE  DraftsInv
  OBVIOUS
<1>1. \A id \in Ids : rows[id] = IF id <= NumSaved THEN Row(cookie, id) ELSE Unused
  BY DEF BuilderInit
<1>2. rows \in [Ids -> {Unused, Gone} \union DraftRow]
  <2>1. \A id \in Ids : Row(cookie, id) \in DraftRow
    BY OwnIsNat DEF BuilderInit, Row, DraftRow
  <2> QED
    BY <2>1 DEF BuilderInit
<1>3. flows \in [Slots -> {Idle} \union AnyFlows]
  BY ListAsked DEF BuilderInit, AnyFlows, Ops
<1>4. ASSUME NEW i \in Slots
      PROVE  Truthful(rows, strays, flows[i])
  <2>1. flows[i] = IF i = 1 THEN RefreshDrafts("mount") ELSE Idle
    BY DEF BuilderInit
  <2> QED
    BY <2>1, ListAsked DEF Truthful, Ops
<1>5. DraftTypeOK
  BY <1>2, <1>3, OwnIsNat
     DEF BuilderInit, DraftTypeOK, NoDrafts, Listing, Loading
<1> QED
  BY <1>4, <1>5 DEF DraftsInv, BuilderInit, NoDrafts

-----------------------------------------------------------------------------
(* Clicks of the drafts panel                                               *)

LEMMA StartKeeps ==
    ASSUME DraftsInv, NEW flow \in AnyFlows, Truthful(rows, strays, flow),
           Starts(flow)
    PROVE  DraftsInv'
<1>1. PICK i \in Slots : flows' = [flows EXCEPT ![i] = flow]
  BY DEF Starts, GoOn
<1>2. UNCHANGED <<account, cookie, guard, rows, work, drafts, currentDraftId, strays>>
  BY DEF Starts, identity, form
<1>3. /\ flows' \in [Slots -> {Idle} \union AnyFlows]
      /\ \A j \in Slots : Truthful(rows', strays', flows'[j])
  BY <1>1, <1>2, RowsStay, SlotMoves
<1> QED
  BY <1>2, <1>3 DEF DraftsInv, DraftTypeOK

LEMMA DraftsSaveDraft == DraftsInv /\ SaveDraft => DraftsInv'
<1> SUFFICES ASSUME DraftsInv, SaveDraft
             PROVE  DraftsInv'
  OBVIOUS
<1> DEFINE flow == Flow("save", "save", currentDraftId, work, None)
<1>1. flow \in AnyFlows
  BY DEF DraftsInv, DraftTypeOK, Flow, AnyFlows, SaveFlows, FlowsThatAsk, Answers, Ops
<1>2. Truthful(rows, strays, flow)
  BY DEF DraftsInv, Truthful, Flow, Waiting
<1> QED
  BY <1>1, <1>2, StartKeeps DEF SaveDraft

LEMMA DraftsLoadDraft ==
    ASSUME DraftsInv, NEW id \in Ids, LoadDraft(id)
    PROVE  DraftsInv'
<1> DEFINE flow == Flow("load", "draft", id, drafts[id], None)
<1>1. drafts[id] \in Works /\ Holds(rows, strays, id, drafts[id])
  BY DEF LoadDraft, Listed, DraftsInv, DraftTypeOK, Listing
<1>2. flow \in AnyFlows
  BY <1>1 DEF Flow, AnyFlows, LoadFlows, FlowsThatAsk, Answers, Ops
<1>3. Truthful(rows, strays, flow)
  BY <1>1 DEF Truthful, Flow, Waiting
<1> QED
  BY <1>2, <1>3, StartKeeps DEF LoadDraft

LEMMA DraftsDeleteDraft ==
    ASSUME DraftsInv, NEW id \in Ids, DeleteDraft(id)
    PROVE  DraftsInv'
<1> DEFINE flow == Flow("delete", "delete", id, None, currentDraftId)
<1>1. flow \in AnyFlows
  BY DEF DraftsInv, DraftTypeOK, Flow, AnyFlows, DeleteFlows, FlowsThatAsk, Answers, Ops
<1>2. Truthful(rows, strays, flow)
  BY DEF Truthful, Flow
<1> QED
  BY <1>1, <1>2, StartKeeps DEF DeleteDraft

\* An import asks for new rows, so it speaks of no draft.
LEMMA ImportAsked ==
    ASSUME NEW w \in Works, NEW rs, NEW ss
    PROVE  /\ Flow("import", "save", None, w, None) \in AnyFlows
           /\ Truthful(rs, ss, Flow("import", "save", None, w, None))
BY DEF Flow, AnyFlows, SaveFlows, FlowsThatAsk, Answers, Ops, Truthful

LEMMA DraftsImport == DraftsInv /\ ImportLegacyDrafts => DraftsInv'
<1>1. LegacyWork(1) \in Works
  BY BuilderAssumption DEF LegacyWork, Works, Own
<1> QED
  BY <1>1, ImportAsked, StartKeeps DEF ImportLegacyDrafts

LEMMA DraftsDiscard == DraftsInv /\ DiscardLegacyDrafts => DraftsInv'
BY PanelUntouched DEF DiscardLegacyDrafts, identity, form, DraftsInv, DraftTypeOK

\* A draft deleted by another device: what is said of it no longer matters.
LEMMA DraftsDeletedElsewhere ==
    ASSUME DraftsInv, NEW id \in Ids, DeletedElsewhere(id)
    PROVE  DraftsInv'
<1>1. UNCHANGED <<account, cookie, guard, work, drafts, currentDraftId, flows, strays>>
  BY DEF DeletedElsewhere, identity, form, panel
<1>2. /\ rows' = [rows EXCEPT ![id] = Gone] /\ rows[id].is = "row"
      /\ rows' \in [Ids -> {Unused, Gone} \union DraftRow]
  BY DEF DeletedElsewhere, DraftsInv, DraftTypeOK
<1>3. Evolves(rows, strays, rows')
  BY <1>2 DEF Evolves, Unused, Gone, DraftsInv, DraftTypeOK
<1> QED
  BY <1>1, <1>2, <1>3, FlowsStay, PageStays DEF DraftsInv, DraftTypeOK

-----------------------------------------------------------------------------
(* The drafts routes                                                        *)

LEMMA ReplyKeeps ==
    ASSUME DraftsInv, NEW i \in Slots, NEW s, NEW body, Reply(i, s, body), ServeFrame,
           rows' \in [Ids -> {Unused, Gone} \union DraftRow],
           Evolves(rows, strays, rows'),
           LET g == [flows[i] EXCEPT !.ans = [status |-> s, body |-> body]]
           IN  g \in AnyFlows /\ Truthful(rows', strays', g)
    PROVE  DraftsInv'
<1> DEFINE g == [flows[i] EXCEPT !.ans = [status |-> s, body |-> body]]
<1>1. UNCHANGED <<account, cookie, guard, work, drafts, currentDraftId, strays>>
  BY DEF ServeFrame, identity, form, panel
<1>2. \E h \in {Idle} \union AnyFlows :
         flows' = [flows EXCEPT ![i] = h] /\ Truthful(rows', strays', h)
  <2>1. CASE flows[i].ans = Alone
    <3>1. flows' = [flows EXCEPT ![i] = Idle]
      BY <2>1 DEF Reply, DraftsInv, DraftTypeOK
    <3> QED
      BY <3>1 DEF Truthful
  <2>2. CASE flows[i].ans # Alone
    <3>1. flows' = [flows EXCEPT ![i] = g]
      BY <2>2 DEF Reply, DraftsInv, DraftTypeOK
    <3> QED
      BY <3>1
  <2> QED
    BY <2>1, <2>2
<1>3. /\ flows' \in [Slots -> {Idle} \union AnyFlows]
      /\ \A j \in Slots : Truthful(rows', strays', flows'[j])
  BY <1>1, <1>2, SlotMoves
<1> QED
  BY <1>1, <1>3, PageStays DEF DraftsInv, DraftTypeOK

\* What any answer but an ok one says: nothing new.
LEMMA RefusalKeeps ==
    ASSUME DraftsInv, NEW i \in Slots, flows[i] # Idle,
           NEW s \in {"401", "404", "500"}, Reply(i, s, None), UNCHANGED rows,
           ServeFrame
    PROVE  DraftsInv'
<1> DEFINE f == flows[i]
           a == [status |-> s, body |-> None]
           g == [f EXCEPT !.ans = a]
<1>1. f \in AnyFlows
  BY DEF DraftsInv, DraftTypeOK
<1>2. \A body : a \in Answers(body)
  BY DEF Answers
<1>3. /\ g \in AnyFlows
      /\ g.asks = f.asks /\ g.op = f.op /\ g.id = f.id /\ g.work = f.work /\ g.ans = a
  <2>1. CASE f \in ListFlows
    BY <1>2, <2>1, Answered DEF ListFlows, FlowsThatAsk, AnyFlows
  <2>2. CASE f \in LoadFlows
    BY <1>2, <2>2, Answered DEF LoadFlows, FlowsThatAsk, AnyFlows
  <2>3. CASE f \in SaveFlows
    BY <1>2, <2>3, Answered DEF SaveFlows, FlowsThatAsk, AnyFlows
  <2>4. CASE f \in DeleteFlows
    BY <1>2, <2>4, Answered DEF DeleteFlows, FlowsThatAsk, AnyFlows
  <2> QED
    BY <1>1, <2>1, <2>2, <2>3, <2>4 DEF AnyFlows
<1>4. Truthful(rows, strays, g)
  BY <1>3 DEF Truthful, DraftsInv
<1>5. UNCHANGED strays
  BY DEF ServeFrame
<1>6. rows' \in [Ids -> {Unused, Gone} \union DraftRow]
  BY DEF DraftsInv, DraftTypeOK
<1> QED
  BY <1>3, <1>4, <1>5, <1>6, RowsStay, ReplyKeeps

LEMMA DraftsServeRefusal ==
    ASSUME DraftsInv, NEW i \in Slots, ServeRefusal(i)
    PROVE  DraftsInv'
BY RefusalKeeps DEF ServeRefusal, Pending

LEMMA DraftsServeList ==
    ASSUME DraftsInv, NEW i \in Slots, ServeList(i), ServeFrame
    PROVE  DraftsInv'
<1> DEFINE body == [id \in Ids |-> IF Mine(id) THEN rows[id].work ELSE None]
           a == [status |-> "ok", body |-> body]
           g == [flows[i] EXCEPT !.ans = a]
<1>1. flows[i] \in ListFlows
  BY Kinds DEF ServeList, Pending, DraftsInv, DraftTypeOK
<1>2. \A id \in Ids : Mine(id) => rows[id] \in DraftRow /\ rows[id] # Unused
  BY DEF Mine, DraftsInv, DraftTypeOK, Unused, Gone
<1>3. body \in Listing
  BY <1>2 DEF Listing, DraftRow
<1>4. a \in Answers(Listing)
  BY <1>3 DEF Answers
<1>5. g \in ListFlows /\ g.asks = "list" /\ g.ans = a
  BY <1>1, <1>4, Answered DEF ListFlows
<1>6. Truthful(rows, strays, g)
  <2>1. \A id \in Ids : body[id] # None => Holds(rows, strays, id, body[id])
    BY <1>2 DEF Holds
  <2> QED
    BY <1>5, <2>1 DEF Truthful
<1>7. Reply(i, "ok", body) /\ UNCHANGED <<rows, strays>>
  BY DEF ServeList, ServeFrame
<1>8. rows' \in [Ids -> {Unused, Gone} \union DraftRow]
  BY <1>7 DEF DraftsInv, DraftTypeOK
<1> QED
  BY <1>5, <1>6, <1>7, <1>8, RowsStay, ReplyKeeps DEF AnyFlows

LEMMA DraftsServeDraft ==
    ASSUME DraftsInv, NEW i \in Slots, ServeDraft(i), ServeFrame
    PROVE  DraftsInv'
<1> DEFINE f == flows[i]
           w == rows[f.id].work
           a == [status |-> "ok", body |-> w]
           g == [f EXCEPT !.ans = a]
<1>1. f # Idle /\ f \in LoadFlows /\ f.asks = "draft"
  BY Kinds DEF ServeDraft, Pending, DraftsInv, DraftTypeOK
<1>2. f.id \in Ids
  BY <1>1 DEF LoadFlows, FlowsThatAsk
<1>3. CASE Mine(f.id)
  <2>1. rows[f.id] \in DraftRow /\ rows[f.id] # Unused
    BY <1>2, <1>3 DEF Mine, DraftsInv, DraftTypeOK, Unused, Gone
  <2>2. a \in Answers(Works)
    BY <2>1 DEF Answers, DraftRow
  <2>3. /\ g \in LoadFlows /\ g.asks = "draft" /\ g.ans = a /\ g.id = f.id
        /\ g.work = f.work
    BY <1>1, <2>2, Answered DEF LoadFlows
  <2>4. Truthful(rows, strays, g)
    <3>1. Holds(rows, strays, f.id, w)
      BY <2>1 DEF Holds
    <3>2. Holds(rows, strays, f.id, f.work)
      BY <1>1 DEF DraftsInv, Truthful
    <3> QED
      BY <2>3, <3>1, <3>2 DEF Truthful
  <2>5. Reply(i, "ok", w) /\ UNCHANGED <<rows, strays>>
    BY <1>3 DEF ServeDraft, ServeFrame
  <2>6. rows' \in [Ids -> {Unused, Gone} \union DraftRow]
    BY <2>5 DEF DraftsInv, DraftTypeOK
  <2> QED
    BY <2>3, <2>4, <2>5, <2>6, RowsStay, ReplyKeeps DEF AnyFlows
<1>4. CASE ~ Mine(f.id)
  BY <1>1, <1>4, RefusalKeeps DEF ServeDraft
<1> QED
  BY <1>3, <1>4

\* The answer to a save: the id of the draft that now holds its work.
LEMMA SaveAnswered ==
    ASSUME NEW f \in SaveFlows, f # Idle, NEW id \in Ids, NEW rs, NEW ss,
           f.id # None => Holds(rs, ss, f.id, f.work),
           f.id = None => Holds(rs, ss, id, f.work)
    PROVE  LET g == [f EXCEPT !.ans = [status |-> "ok", body |-> id]]
           IN  g \in AnyFlows /\ Truthful(rs, ss, g)
<1> DEFINE a == [status |-> "ok", body |-> id]
           g == [f EXCEPT !.ans = a]
<1>1. a \in Answers(Ids)
  BY DEF Answers
<1>2. /\ g \in SaveFlows /\ g.asks = "save" /\ g.ans = a /\ g.id = f.id
      /\ g.work = f.work
  BY <1>1, Answered DEF SaveFlows
<1> QED
  BY <1>2 DEF AnyFlows, Truthful

\* A save writes what its draft holds already, or begins a new one.
LEMMA SaveEvolves ==
    ASSUME DraftsInv, NEW i \in Slots, ServeSave(i)
    PROVE  /\ rows' \in [Ids -> {Unused, Gone} \union DraftRow]
           /\ Evolves(rows, strays, rows')
<1> DEFINE f == flows[i]
<1>1. f # Idle /\ f \in SaveFlows /\ f.asks = "save" /\ f.work \in Works
  BY Kinds DEF ServeSave, Pending, DraftsInv, DraftTypeOK, SaveFlows, FlowsThatAsk
<1>2. CASE f.id # None /\ Mine(f.id) /\ rows' = [rows EXCEPT ![f.id].work = f.work]
  <2>1. f.id \in Ids /\ rows[f.id] \in DraftRow
    BY <1>1, <1>2 DEF SaveFlows, FlowsThatAsk, Mine, DraftsInv, DraftTypeOK, Unused, Gone
  <2>2. Holds(rows, strays, f.id, f.work)
    BY <1>1, <1>2 DEF DraftsInv, Truthful
  <2>3. rows'[f.id] = [rows[f.id] EXCEPT !.work = f.work]
    BY <1>2, <2>1 DEF DraftsInv, DraftTypeOK
  <2>4. /\ rows'[f.id] \in DraftRow /\ rows'[f.id].is = "row"
        /\ rows'[f.id].work = f.work
    BY <1>1, <2>1, <2>3 DEF DraftRow
  <2>5. \A id \in Ids \ {f.id} : rows'[id] = rows[id]
    BY <1>2 DEF DraftsInv, DraftTypeOK
  <2>6. rows' \in [Ids -> {Unused, Gone} \union DraftRow]
    BY <1>2, <2>4, <2>5 DEF DraftsInv, DraftTypeOK
  <2>7. Evolves(rows, strays, rows')
    BY <2>1, <2>2, <2>4, <2>5 DEF Evolves, Holds, DraftRow, Unused
  <2> QED
    BY <2>6, <2>7
<1>3. CASE \E id \in Unissued : rows' = [rows EXCEPT ![id] = Row(cookie, f.work)]
  <2>1. PICK id \in Unissued : rows' = [rows EXCEPT ![id] = Row(cookie, f.work)]
    BY <1>3
  <2>2. id \in Ids /\ rows[id] = Unused
    BY DEF Unissued
  <2>3. Row(cookie, f.work) \in DraftRow
    BY <1>1 DEF ServeSave, DraftsInv, DraftTypeOK, Row, DraftRow
  <2>4. rows' \in [Ids -> {Unused, Gone} \union DraftRow]
    BY <2>1, <2>2, <2>3 DEF DraftsInv, DraftTypeOK
  <2>5. \A other \in Ids \ {id} : rows'[other] = rows[other]
    BY <2>1 DEF DraftsInv, DraftTypeOK
  <2>6. Evolves(rows, strays, rows')
    BY <2>2, <2>5 DEF Evolves
  <2> QED
    BY <2>4, <2>6
<1>4. CASE UNCHANGED rows
  BY <1>4 DEF Evolves, DraftsInv, DraftTypeOK
<1> QED
  BY <1>2, <1>3, <1>4 DEF ServeSave

LEMMA DraftsServeSave ==
    ASSUME DraftsInv, NEW i \in Slots, ServeSave(i), ServeFrame
    PROVE  DraftsInv'
<1> DEFINE f == flows[i]
<1>1. f # Idle /\ f \in SaveFlows /\ f.asks = "save"
  BY Kinds DEF ServeSave, Pending, DraftsInv, DraftTypeOK
<1>2. UNCHANGED strays
  BY DEF ServeFrame
<1>3. CASE f.id # None /\ Mine(f.id) /\ Reply(i, "ok", f.id)
  <2>1. f.id \in Ids /\ Holds(rows, strays, f.id, f.work)
    BY <1>1, <1>3 DEF SaveFlows, FlowsThatAsk, DraftsInv, Truthful
  <2>2. Holds(rows', strays', f.id, f.work)
    BY <1>2, <2>1, SaveEvolves, HoldsOn
  <2> QED
    BY <1>1, <1>3, <2>1, <2>2, SaveEvolves, SaveAnswered, ReplyKeeps
<1>4. CASE UNCHANGED rows /\ Reply(i, "404", None)
  BY <1>1, <1>4, RefusalKeeps
<1>5. CASE /\ f.id = None
           /\ \E id \in Unissued :
                 /\ rows' = [rows EXCEPT ![id] = Row(cookie, f.work)]
                 /\ Reply(i, "ok", id)
  <2>1. PICK id \in Unissued :
           rows' = [rows EXCEPT ![id] = Row(cookie, f.work)] /\ Reply(i, "ok", id)
    BY <1>5
  <2>2. id \in Ids /\ rows'[id] = Row(cookie, f.work)
    BY <2>1 DEF Unissued, DraftsInv, DraftTypeOK
  <2>3. Holds(rows', strays', id, f.work)
    BY <2>2 DEF Holds, Row, Unused
  <2> QED
    BY <1>1, <1>5, <2>1, <2>2, <2>3, SaveEvolves, SaveAnswered, ReplyKeeps
<1> QED
  BY <1>3, <1>4, <1>5 DEF ServeSave

LEMMA DraftsServeDelete ==
    ASSUME DraftsInv, NEW i \in Slots, ServeDelete(i), ServeFrame
    PROVE  DraftsInv'
<1> DEFINE f == flows[i]
           a == [status |-> "ok", body |-> f.id]
           g == [f EXCEPT !.ans = a]
<1>1. f # Idle /\ f \in DeleteFlows /\ f.id \in Ids
  BY Kinds DEF ServeDelete, Pending, DraftsInv, DraftTypeOK, DeleteFlows, FlowsThatAsk
<1>2. CASE Mine(f.id)
  <2>1. rows' = [rows EXCEPT ![f.id] = Gone] /\ Reply(i, "ok", f.id)
    BY <1>2 DEF ServeDelete
  <2>2. rows' \in [Ids -> {Unused, Gone} \union DraftRow]
    BY <2>1 DEF DraftsInv, DraftTypeOK
  <2>3. Evolves(rows, strays, rows')
    BY <1>1, <2>1 DEF Evolves, Unused, Gone, DraftsInv, DraftTypeOK
  <2>4. a \in Answers(Ids)
    BY <1>1 DEF Answers
  <2>5. g \in DeleteFlows /\ g.asks = "delete"
    BY <1>1, <2>4, Answered DEF DeleteFlows
  <2>6. Truthful(rows', strays', g)
    BY <2>5 DEF Truthful
  <2> QED
    BY <2>1, <2>2, <2>3, <2>5, <2>6, ReplyKeeps DEF AnyFlows
<1>3. CASE ~ Mine(f.id)
  BY <1>1, <1>3, RefusalKeeps DEF ServeDelete
<1> QED
  BY <1>2, <1>3

LEMMA DraftsServe ==
    ASSUME DraftsInv, NEW i \in Slots, Serve(i)
    PROVE  DraftsInv'
BY DraftsServeList, DraftsServeDraft, DraftsServeSave, DraftsServeDelete DEF Serve

-----------------------------------------------------------------------------
(* What the page does with the answers                                      *)

\* A callback that ends, or goes on to list the drafts, says nothing new.
LEMMA Ended ==
    ASSUME DraftsInv, NEW i \in Slots, flows[i] # Idle, UNCHANGED rows,
           strays \subseteq strays', End(i)
    PROVE  /\ flows' \in [Slots -> {Idle} \union AnyFlows]
           /\ \A j \in Slots : Truthful(rows', strays', flows'[j])
<1>1. Evolves(rows, strays, rows')
  BY DEF Evolves
<1>2. CASE GoOn(i, Idle)
  <2>1. Truthful(rows', strays', Idle)
    BY DEF Truthful
  <2> QED
    BY <1>1, <1>2, <2>1, SlotMoves DEF GoOn
<1>3. CASE /\ flows[i].asks \in {"save", "delete"}
           /\ flows' = [flows EXCEPT ![i].ans = Alone]
  <2> DEFINE f == flows[i]
             g == [f EXCEPT !.ans = Alone]
  <2>1. f \in SaveFlows \/ f \in DeleteFlows
    BY <1>3, Kinds DEF DraftsInv, DraftTypeOK
  <2>2. /\ g \in SaveFlows \/ g \in DeleteFlows
        /\ g.asks = f.asks /\ g.op = f.op /\ g.id = f.id /\ g.work = f.work
        /\ g.ans = Alone
    <3>1. \A body : Alone \in Answers(body)
      BY DEF Answers
    <3>2. CASE f \in SaveFlows
      BY <3>1, <3>2, Answered DEF SaveFlows, FlowsThatAsk
    <3>3. CASE f \in DeleteFlows
      BY <3>1, <3>3, Answered DEF DeleteFlows, FlowsThatAsk
    <3> QED
      BY <2>1, <3>2, <3>3
  <2>3. Truthful(rows, strays, f)
    BY DEF DraftsInv
  <2>4. Truthful(rows, strays, g)
    BY <1>3, <2>2, <2>3 DEF Truthful, Alone
  <2>5. flows' = [flows EXCEPT ![i] = g]
    BY <1>3
  <2>6. Truthful(rows', strays', g)
    BY <1>1, <2>2, <2>4, TruthfulOn DEF AnyFlows
  <2> QED
    BY <1>1, <2>2, <2>5, <2>6, SlotMoves DEF AnyFlows
<1> QED
  BY <1>2, <1>3 DEF End

LEMMA Relisted ==
    ASSUME DraftsInv, NEW i \in Slots, flows[i] # Idle, UNCHANGED rows,
           strays \subseteq strays', ThenList(i)
    PROVE  /\ flows' \in [Slots -> {Idle} \union AnyFlows]
           /\ \A j \in Slots : Truthful(rows', strays', flows'[j])
<1>1. Evolves(rows, strays, rows')
  BY DEF Evolves
<1>2. flows[i].op \in Ops
  BY Kinds DEF DraftsInv, DraftTypeOK
<1>3. /\ RefreshDrafts(flows[i].op) \in AnyFlows
      /\ Truthful(rows', strays', RefreshDrafts(flows[i].op))
  BY <1>2, ListAsked DEF AnyFlows
<1> QED
  BY <1>1, <1>3, SlotMoves DEF ThenList, GoOn

\* An answer that is ok came from the server.
LEMMA OutcomeOk ==
    ASSUME DraftsInv, NEW i \in Slots, Outcome(i, "ok")
    PROVE  /\ flows[i] # Idle /\ flows[i].ans.status = "ok"
           /\ flows[i].asks = "list" => flows[i].ans.body \in Listing
           /\ flows[i].asks = "draft" => flows[i].ans.body \in Works
           /\ flows[i].asks = "save" => flows[i].ans.body \in Ids
<1>1. flows[i] # Idle /\ flows[i].ans.status = "ok"
  BY DEF Outcome
<1>2. flows[i] \in {Idle} \union AnyFlows
  BY DEF DraftsInv, DraftTypeOK
<1> QED
  BY <1>1, <1>2, Kinds
     DEF ListFlows, LoadFlows, SaveFlows, FlowsThatAsk, Answers, Waiting, Alone

LEMMA DraftsListArrives ==
    ASSUME DraftsInv, NEW i \in Slots, NEW s, Outcome(i, s), ListArrives(i, s),
           ArriveFrame
    PROVE  DraftsInv'
<1>1. UNCHANGED <<account, cookie, guard, rows, work, currentDraftId, strays>>
  BY DEF ArriveFrame, ListArrives, identity, form
<1>2. /\ flows' \in [Slots -> {Idle} \union AnyFlows]
      /\ \A j \in Slots : Truthful(rows', strays', flows'[j])
  BY <1>1, Ended DEF ListArrives, Outcome
<1>3. /\ drafts' \in Listing
      /\ \A id \in Ids : drafts'[id] # None => Holds(rows, strays, id, drafts'[id])
  <2>1. CASE s = "ok"
    <3>1. drafts' = flows[i].ans.body /\ flows[i].asks = "list"
      BY <2>1 DEF ListArrives
    <3> QED
      BY <2>1, <3>1, OutcomeOk DEF DraftsInv, Truthful
  <2>2. CASE s = "lost"
    <3>1. drafts' = drafts
      BY <2>2 DEF ListArrives
    <3> QED
      BY <3>1 DEF DraftsInv, DraftTypeOK
  <2>3. CASE s # "ok" /\ s # "lost"
    <3>1. drafts' = NoDrafts
      BY <2>3 DEF ListArrives
    <3> QED
      BY <3>1 DEF NoDrafts, Listing
  <2> QED
    BY <2>1, <2>2, <2>3
<1> QED
  BY <1>1, <1>2, <1>3 DEF DraftsInv, DraftTypeOK

\* The draft shown is the one loaded, with what was known of it.
LEMMA DraftsLoadArrives ==
    ASSUME DraftsInv, NEW i \in Slots, NEW s, Outcome(i, s), LoadArrives(i, s),
           ArriveFrame
    PROVE  DraftsInv'
<1> DEFINE f == flows[i]
<1>1. UNCHANGED <<account, cookie, guard, rows, drafts, strays>>
  BY DEF ArriveFrame, LoadArrives, identity
<1>2. /\ flows' \in [Slots -> {Idle} \union AnyFlows]
      /\ \A j \in Slots : Truthful(rows', strays', flows'[j])
  BY <1>1, Ended DEF LoadArrives, Outcome
<1>3. f # Idle /\ f.asks = "draft" /\ f.id \in Ids /\ f.work \in Works
  BY Kinds DEF LoadArrives, Outcome, DraftsInv, DraftTypeOK, LoadFlows, FlowsThatAsk
<1>4. Truthful(rows, strays, f)
  BY DEF DraftsInv
<1>5. /\ currentDraftId' = f.id /\ work' \in Works
      /\ Holds(rows, strays, f.id, work')
  <2>1. CASE s = "ok"
    BY <1>3, <1>4, <2>1, OutcomeOk DEF LoadArrives, TakeDraft, Truthful
  <2>2. CASE s # "ok"
    BY <1>3, <1>4, <2>2 DEF LoadArrives, TakeDraft, Truthful
  <2> QED
    BY <2>1, <2>2
<1> QED
  BY <1>1, <1>2, <1>3, <1>5 DEF DraftsInv, DraftTypeOK

\* A new draft's id is taken.  If other work is shown by now, it is a stray.
LEMMA DraftsSaveArrives ==
    ASSUME DraftsInv, NEW i \in Slots, NEW s, Outcome(i, s), SaveArrives(i, s),
           ArriveFrame
    PROVE  DraftsInv'
<1> DEFINE f == flows[i]
<1>1. UNCHANGED <<account, cookie, guard, rows, work, drafts>>
  BY DEF ArriveFrame, SaveArrives, identity, form
<1>2. f # Idle /\ f.asks = "save" /\ f.op = "save"
  BY DEF Outcome, SaveArrives
<1>3. CASE UNCHANGED <<currentDraftId, strays>> /\ (ThenList(i) \/ End(i))
  <2>1. /\ flows' \in [Slots -> {Idle} \union AnyFlows]
        /\ \A j \in Slots : Truthful(rows', strays', flows'[j])
    BY <1>1, <1>2, <1>3, Ended, Relisted
  <2> QED
    BY <1>1, <1>3, <2>1 DEF DraftsInv, DraftTypeOK
<1>4. CASE /\ s = "ok" /\ ThenList(i) /\ f.id = None
           /\ currentDraftId' = f.ans.body
           /\ strays' = IF work = f.work THEN strays ELSE strays \union {f.ans.body}
  <2> DEFINE id == f.ans.body
  <2>1. id \in Ids /\ Holds(rows, strays, id, f.work)
    BY <1>2, <1>4, OutcomeOk DEF DraftsInv, Truthful
  <2>2. strays \subseteq strays'
    BY <1>4
  <2>3. Evolves(rows, strays, rows')
    BY <1>1 DEF Evolves
  <2>4. /\ flows' \in [Slots -> {Idle} \union AnyFlows]
        /\ \A j \in Slots : Truthful(rows', strays', flows'[j])
    BY <1>1, <1>2, <1>4, <2>2, Relisted
  <2>5. Holds(rows', strays', id, work)
    BY <1>1, <1>4, <2>1 DEF Holds
  <2>6. \A n \in Ids : drafts'[n] # None => Holds(rows', strays', n, drafts'[n])
    BY <1>1, <2>2, <2>3, PageStays
  <2> QED
    BY <1>1, <1>4, <2>1, <2>4, <2>5, <2>6 DEF DraftsInv, DraftTypeOK
<1> QED
  BY <1>3, <1>4 DEF SaveArrives

LEMMA DraftsDeleteArrives ==
    ASSUME DraftsInv, NEW i \in Slots, NEW s, Outcome(i, s), DeleteArrives(i, s),
           ArriveFrame
    PROVE  DraftsInv'
<1>1. UNCHANGED <<account, cookie, guard, rows, work, drafts, strays>>
  BY DEF ArriveFrame, DeleteArrives, identity, form
<1>2. currentDraftId' \in {None, currentDraftId}
  BY DEF DeleteArrives
<1>3. /\ flows' \in [Slots -> {Idle} \union AnyFlows]
      /\ \A j \in Slots : Truthful(rows', strays', flows'[j])
  BY <1>1, Ended, Relisted DEF DeleteArrives, Outcome
<1> QED
  BY <1>1, <1>2, <1>3 DEF DraftsInv, DraftTypeOK

LEMMA DraftsImportArrives ==
    ASSUME DraftsInv, NEW i \in Slots, NEW s, Outcome(i, s), ImportArrives(i, s),
           ArriveFrame
    PROVE  DraftsInv'
<1>1. UNCHANGED <<account, cookie, guard, rows, work, drafts, currentDraftId, strays>>
  BY DEF ArriveFrame, ImportArrives, identity, form
<1>2. CASE End(i) \/ ThenList(i)
  <2>1. /\ flows' \in [Slots -> {Idle} \union AnyFlows]
        /\ \A j \in Slots : Truthful(rows', strays', flows'[j])
    BY <1>1, <1>2, Ended, Relisted DEF Outcome
  <2> QED
    BY <1>1, <2>1 DEF DraftsInv, DraftTypeOK
<1>3. CASE /\ flows[i].work < LegacyWork(NumLegacy)
           /\ GoOn(i, Flow("import", "save", None, flows[i].work + 1, None))
  <2>1. flows[i].work \in Works
    BY Kinds DEF ImportArrives, Outcome, DraftsInv, DraftTypeOK, SaveFlows, FlowsThatAsk
  <2>2. flows[i].work + 1 \in Works
    BY <1>3, <2>1, BuilderAssumption DEF Works, Own, LegacyWork
  <2>3. /\ flows' \in [Slots -> {Idle} \union AnyFlows]
        /\ \A j \in Slots : Truthful(rows', strays', flows'[j])
    BY <1>1, <1>3, <2>2, ImportAsked, RowsStay, SlotMoves DEF GoOn
  <2> QED
    BY <1>1, <2>3 DEF DraftsInv, DraftTypeOK
<1> QED
  BY <1>2, <1>3 DEF ImportArrives

LEMMA DraftsArrives ==
    ASSUME DraftsInv, NEW i \in Slots, Arrives(i)
    PROVE  DraftsInv'
BY DraftsListArrives, DraftsLoadArrives, DraftsSaveArrives, DraftsDeleteArrives,
   DraftsImportArrives DEF Arrives

-----------------------------------------------------------------------------
(* A save stays on its draft                                                *)

LEMMA DraftsIdentityStep == DraftsInv /\ IdentityStep => DraftsInv'
<1> SUFFICES ASSUME DraftsInv, IdentityStep
             PROVE  DraftsInv'
  OBVIOUS
<1>1. UNCHANGED <<rows, work, drafts, currentDraftId, flows, strays>>
  BY DEF IdentityStep, SwitchAccount, OtherTabSignsIn, SessionRead, Recheck, SignIn,
         SignedIn, SignInFails, IdentityFrame, form, panel
<1>2. /\ account' \in Wallets /\ cookie' \in Wallets \union {None}
      /\ guard'.is = "signing" => guard'.by \in Wallets
  BY DEF IdentityStep, SwitchAccount, OtherTabSignsIn, SessionRead, Recheck, SignIn,
         SignedIn, SignInFails, DraftsInv, DraftTypeOK, Loading, Known
<1> QED
  BY <1>1, <1>2, PanelUntouched

LEMMA DraftsBasketStep == DraftsInv /\ BasketStep => DraftsInv'
<1> SUFFICES ASSUME DraftsInv, BasketStep
             PROVE  DraftsInv'
  OBVIOUS
<1>1. BasketFrame
  BY DEF BasketStep, ChooseConfig, Reload, EditBasket, Simulate, SimulationArrives,
         ProposalArrives
<1> QED
  BY <1>1, PanelUntouched DEF BasketFrame, identity, panel, DraftsInv, DraftTypeOK

LEMMA DraftsDeployStep == DraftsInv /\ DeployStep => DraftsInv'
<1> SUFFICES ASSUME DraftsInv, DeployStep
             PROVE  DraftsInv'
  OBVIOUS
<1>1. DeployFrame /\ UNCHANGED account
  BY DEF DeployStep, Deploy, ChainSwitched, DeployFails, Registers
<1> QED
  BY <1>1, PanelUntouched DEF DeployFrame, form, panel, DraftsInv, DraftTypeOK

LEMMA DraftsStep == DraftsInv /\ [BuilderNext]_builderVars => DraftsInv'
<1> SUFFICES ASSUME DraftsInv, [BuilderNext]_builderVars
             PROVE  DraftsInv'
  OBVIOUS
<1>1. CASE IdentityStep
  BY <1>1, DraftsIdentityStep
<1>2. CASE BasketStep
  BY <1>2, DraftsBasketStep
<1>3. CASE DeployStep
  BY <1>3, DraftsDeployStep
<1>4. CASE DraftStep
  BY <1>4, DraftsSaveDraft, DraftsImport, DraftsDiscard, DraftsLoadDraft,
     DraftsDeleteDraft, DraftsDeletedElsewhere DEF DraftStep
<1>5. CASE FlowStep
  BY <1>5, DraftsServe, DraftsServeRefusal, DraftsArrives DEF FlowStep
<1>6. CASE UNCHANGED builderVars
  BY <1>6, PanelUntouched
     DEF builderVars, identity, form, panel, DraftsInv, DraftTypeOK
<1> QED
  BY <1>1, <1>2, <1>3, <1>4, <1>5, <1>6 DEF BuilderNext

\* Only the routes and another device write rows.
LEMMA RowsEvolve ==
    ASSUME DraftsInv, [BuilderNext]_builderVars
    PROVE  Evolves(rows, strays, rows')
<1>1. CASE UNCHANGED rows
  BY <1>1 DEF Evolves
<1>2. CASE \E id \in Ids : rows' = [rows EXCEPT ![id] = Gone]
  BY <1>2 DEF Evolves, Unused, Gone, DraftsInv, DraftTypeOK
<1>3. CASE \E i \in Slots : ServeSave(i)
  BY <1>3, SaveEvolves
<1>4. CASE IdentityStep \/ BasketStep \/ DeployStep
  BY <1>1, <1>4
     DEF IdentityStep, SwitchAccount, OtherTabSignsIn, SessionRead, Recheck, SignIn,
         SignedIn, SignInFails, IdentityFrame, BasketStep, ChooseConfig, Reload,
         EditBasket, Simulate, SimulationArrives, ProposalArrives, BasketFrame,
         DeployStep, Deploy, ChainSwitched, DeployFails, Registers, DeployFrame
<1>5. CASE DraftStep
  BY <1>1, <1>2, <1>5
     DEF DraftStep, SaveDraft, ImportLegacyDrafts, DiscardLegacyDrafts, LoadDraft,
         DeleteDraft, DeletedElsewhere, Starts
<1>6. CASE \E i \in Slots : ServeDelete(i)
  <2>1. PICK i \in Slots : ServeDelete(i)
    BY <1>6
  <2>2. flows[i].id \in Ids
    BY <2>1, Kinds DEF ServeDelete, Pending, DraftsInv, DraftTypeOK, DeleteFlows,
                       FlowsThatAsk
  <2> QED
    BY <1>1, <1>2, <2>1, <2>2 DEF ServeDelete
<1>7. CASE FlowStep
  BY <1>1, <1>3, <1>6, <1>7
     DEF FlowStep, Serve, ServeList, ServeDraft, ServeRefusal, Arrives, ArriveFrame
<1>8. CASE UNCHANGED builderVars
  BY <1>1, <1>8 DEF builderVars
<1> QED
  BY <1>4, <1>5, <1>7, <1>8 DEF BuilderNext

LEMMA DraftsAlways == BuilderSpec => []DraftsInv
BY DraftsInit, DraftsStep, PTL DEF BuilderSpec

\* No interleaving of saves, loads, deletes, imports and lost answers writes
\* one piece of work over another's draft (page.tsx L437-534).
THEOREM SavesKept == BuilderSpec => SavesStayOnTheirDraft
<1>1. ASSUME DraftsInv, [BuilderNext]_builderVars
      PROVE  [\A id \in Ids :
                 rows[id].is = "row" /\ rows'[id].is = "row" /\ id \notin strays
                    => rows'[id].work = rows[id].work]_builderVars
  BY <1>1, RowsEvolve DEF Evolves, Unused
<1> QED
  BY <1>1, DraftsAlways, PTL DEF BuilderSpec, SavesStayOnTheirDraft

-----------------------------------------------------------------------------
(* What is registered is what was checked                                   *)

\* A simulation that is not overtaken is of the basket shown, and no proposal
\* is awaited that could replace it.
Current(s) ==
    /\ s.overtaken \in BOOLEAN
    /\ ~ s.overtaken => s.basket = EffectiveBasket /\ \A c \in Configs : asked[c] = 0

Checked(d) ==
    /\ d.basket = d.simulated \/ d.overtaken
    /\ d.creator = d.session \/ d.switched

\* The guard's states, and what is on show or simulated.
BasketInv ==
    /\ guard.is \in {"loading", "known", "signing"}
    /\ config \in Configs /\ asked \in [Configs -> Nat]
    /\ simulating # NoSimulation =>
          /\ simulating = [is |-> "asked", basket |-> simulating.basket,
                           overtaken |-> simulating.overtaken]
          /\ Current(simulating)
    /\ simulateResult # NoResult => Current(simulateResult)

\* The deployment under way, from the click that checked it.
DeploymentInv ==
    /\ deployment.phase \in {"switching", "signing"} =>
          /\ deployment = [phase |-> deployment.phase, creator |-> deployment.creator,
                           session |-> deployment.session,
                           switched |-> deployment.switched,
                           basket |-> deployment.basket,
                           simulated |-> deployment.simulated,
                           overtaken |-> deployment.overtaken]
          /\ deployment.basket = deployment.simulated \/ deployment.overtaken
    /\ deployment.phase = "switching" => deployment.switched = TRUE
    /\ deployment.phase = "signing" => Checked(deployment)
    /\ DeployedAsChecked

LEMMA DeployInit == BuilderInit => BasketInv /\ DeploymentInv
<1> SUFFICES ASSUME BuilderInit
             PROVE  BasketInv /\ DeploymentInv
  OBVIOUS
<1>1. BasketInv
  BY DEF BuilderInit, BasketInv, NoSimulation, NoResult, Loading
<1>2. DeploymentInv
  BY DEF BuilderInit, DeploymentInv, DeployedAsChecked
<1> QED
  BY <1>1, <1>2

LEMMA BasketStays ==
    ASSUME BasketInv, guard'.is \in {"loading", "known", "signing"},
           UNCHANGED <<basket, config, extraAssets, removedIds>>
    PROVE  BasketInv'
<1>1. UNCHANGED <<asked, simulating, simulateResult, EffectiveBasket>>
  BY DEF basket, EffectiveBasket
<1> QED
  BY <1>1 DEF BasketInv, Current

\* A change of the basket overtakes the simulation; the result on show is
\* taken away or was overtaken already.
LEMMA BasketChanges ==
    ASSUME BasketInv, UNCHANGED guard, config' \in Configs,
           asked' \in [Configs -> Nat], simulating' = Overtaken,
           \/ simulateResult' = NoResult
           \/ /\ UNCHANGED simulateResult
              /\ simulateResult # NoResult => simulateResult.overtaken = TRUE
    PROVE  BasketInv'
<1>1. simulating' # NoSimulation =>
          /\ simulating' = [is |-> "asked", basket |-> simulating'.basket,
                            overtaken |-> TRUE]
          /\ simulating'.overtaken = TRUE
  <2>1. CASE simulating = NoSimulation
    BY <2>1 DEF Overtaken
  <2>2. CASE simulating # NoSimulation
    <3> DEFINE b == simulating.basket
               o == simulating.overtaken
    <3>1. simulating = [is |-> "asked", basket |-> b, overtaken |-> o]
      BY <2>2 DEF BasketInv
    <3> HIDE DEF b, o
    <3>2. simulating' = [is |-> "asked", basket |-> b, overtaken |-> TRUE]
      BY <2>2, <3>1 DEF Overtaken
    <3> QED
      BY <3>2
  <2> QED
    BY <2>1, <2>2
<1> QED
  BY <1>1 DEF BasketInv, Current

LEMMA Asks ==
    ASSUME BasketInv, NEW c \in Configs, LoadProposal(c), UNCHANGED guard,
           config' \in Configs
    PROVE  BasketInv'
<1>1. asked' \in [Configs -> Nat]
  BY DEF LoadProposal, BasketInv
<1> QED
  BY <1>1, BasketChanges DEF LoadProposal, Invalidate

LEMMA BasketInvBasketStep == BasketInv /\ BasketStep => BasketInv'
<1> SUFFICES ASSUME BasketInv, BasketStep
             PROVE  BasketInv'
  OBVIOUS
<1>1. UNCHANGED guard
  BY DEF BasketStep, ChooseConfig, Reload, EditBasket, Simulate, SimulationArrives,
         ProposalArrives, BasketFrame, identity
<1>2. CASE ChooseConfig \/ Reload
  BY <1>1, <1>2, Asks DEF ChooseConfig, Reload, BasketInv
<1>3. CASE EditBasket
  BY <1>1, <1>3, BasketChanges DEF EditBasket, Invalidate, BasketInv
<1>4. ASSUME NEW c \in Configs, ProposalArrives(c)
      PROVE  BasketInv'
  <2>1. asked[c] > 0 /\ asked' \in [Configs -> Nat]
    BY <1>4 DEF ProposalArrives, BasketInv
  <2>2. simulateResult # NoResult => simulateResult.overtaken = TRUE
    BY <2>1 DEF BasketInv, Current
  <2> QED
    BY <1>1, <1>4, <2>1, <2>2, BasketChanges DEF ProposalArrives, BasketInv
<1>5. CASE Simulate
  <2> DEFINE o == \E c \in Configs : asked[c] > 0
  <2>1. /\ simulating' = [is |-> "asked", basket |-> EffectiveBasket, overtaken |-> o]
        /\ UNCHANGED <<config, asked, simulateResult, EffectiveBasket>>
    BY <1>5 DEF Simulate, EffectiveBasket, form
  <2>2. ~ o => \A c \in Configs : asked[c] = 0
    BY DEF BasketInv
  <2>3. o \in BOOLEAN
    OBVIOUS
  <2> HIDE DEF o
  <2> QED
    BY <1>1, <2>1, <2>2, <2>3 DEF BasketInv, Current
<1>6. CASE SimulationArrives
  <2>1. UNCHANGED <<config, asked, EffectiveBasket>> /\ simulating' = NoSimulation
    BY <1>6 DEF SimulationArrives, EffectiveBasket, form
  <2>2. simulateResult' # NoResult => Current(simulateResult)'
    <3>1. CASE simulateResult' = [simulating EXCEPT !.is = "ok"]
      <4> DEFINE b == simulating.basket
                 o == simulating.overtaken
      <4>1. /\ simulating = [is |-> "asked", basket |-> b, overtaken |-> o]
            /\ Current(simulating)
        BY <1>6 DEF SimulationArrives, BasketInv
      <4>2. simulateResult'.basket = b /\ simulateResult'.overtaken = o
        BY <3>1, <4>1
      <4> QED
        BY <2>1, <4>1, <4>2 DEF Current
    <3>2. CASE UNCHANGED simulateResult
      BY <2>1, <3>2 DEF BasketInv, Current
    <3> QED
      BY <1>6, <3>1, <3>2 DEF SimulationArrives
  <2> QED
    BY <1>1, <2>1, <2>2 DEF BasketInv
<1> QED
  BY <1>2, <1>3, <1>4, <1>5, <1>6 DEF BasketStep

LEMMA BasketInvIdentityStep == BasketInv /\ IdentityStep => BasketInv'
<1> SUFFICES ASSUME BasketInv, IdentityStep
             PROVE  BasketInv'
  OBVIOUS
<1>1. UNCHANGED <<basket, config, extraAssets, removedIds>>
  BY DEF IdentityStep, SwitchAccount, OtherTabSignsIn, SessionRead, Recheck, SignIn,
         SignedIn, SignInFails, IdentityFrame, form
<1>2. guard'.is \in {"loading", "known", "signing"}
  BY DEF IdentityStep, SwitchAccount, OtherTabSignsIn, SessionRead, Recheck, SignIn,
         SignedIn, SignInFails, Loading, Known, BasketInv
<1> QED
  BY <1>1, <1>2, BasketStays

LEMMA BasketInvOtherStep ==
    ASSUME BasketInv, UNCHANGED <<guard, form, basket>>
    PROVE  BasketInv'
BY BasketStays DEF form, BasketInv

\* A loaded draft takes the result away like any other change.
LEMMA BasketInvArrives ==
    ASSUME BasketInv, NEW i \in Slots, Arrives(i)
    PROVE  BasketInv'
<1>1. UNCHANGED guard
  BY DEF Arrives, ArriveFrame, identity
<1>2. ASSUME NEW s, LoadArrives(i, s)
      PROVE  BasketInv'
  <2>1. config' \in Configs
    BY <1>2 DEF LoadArrives
  <2>2. CASE config' = config
    BY <1>1, <1>2, <2>1, <2>2, BasketChanges DEF LoadArrives, Invalidate, BasketInv
  <2>3. CASE config' # config
    BY <1>1, <1>2, <2>1, <2>3, Asks DEF LoadArrives
  <2> QED
    BY <2>2, <2>3
<1>3. CASE UNCHANGED <<form, basket>>
  BY <1>1, <1>3, BasketInvOtherStep
<1> QED
  BY <1>2, <1>3
     DEF Arrives, ListArrives, SaveArrives, DeleteArrives, ImportArrives

LEMMA BasketInvStep == BasketInv /\ [BuilderNext]_builderVars => BasketInv'
<1> SUFFICES ASSUME BasketInv, [BuilderNext]_builderVars
             PROVE  BasketInv'
  OBVIOUS
<1>1. CASE IdentityStep
  BY <1>1, BasketInvIdentityStep
<1>2. CASE BasketStep
  BY <1>2, BasketInvBasketStep
<1>3. CASE DeployStep
  BY <1>3, BasketInvOtherStep
     DEF DeployStep, Deploy, ChainSwitched, DeployFails, Registers, DeployFrame
<1>4. CASE DraftStep
  BY <1>4, BasketInvOtherStep
     DEF DraftStep, SaveDraft, ImportLegacyDrafts, DiscardLegacyDrafts, LoadDraft,
         DeleteDraft, DeletedElsewhere, Starts, identity
<1>5. CASE FlowStep
  BY <1>5, BasketInvArrives, BasketInvOtherStep
     DEF FlowStep, Serve, ServeRefusal, ServeFrame, identity
<1>6. CASE UNCHANGED builderVars
  BY <1>6, BasketInvOtherStep DEF builderVars, identity
<1> QED
  BY <1>1, <1>2, <1>3, <1>4, <1>5, <1>6 DEF BuilderNext

\* Nothing but the deployment's own steps touches it.
LEMMA DeploysKept ==
    ASSUME [BuilderNext]_builderVars, ~ DeployStep
    PROVE  UNCHANGED deploys
<1>1. CASE IdentityStep
  BY <1>1 DEF IdentityStep, SwitchAccount, OtherTabSignsIn, SessionRead, Recheck,
              SignIn, SignedIn, SignInFails, IdentityFrame
<1>2. CASE BasketStep
  BY <1>2 DEF BasketStep, ChooseConfig, Reload, EditBasket, Simulate,
              SimulationArrives, ProposalArrives, BasketFrame
<1>3. CASE DraftStep
  BY <1>3 DEF DraftStep, SaveDraft, ImportLegacyDrafts, DiscardLegacyDrafts,
              LoadDraft, DeleteDraft, DeletedElsewhere, Starts
<1>4. CASE FlowStep
  BY <1>4 DEF FlowStep, Serve, ServeRefusal, ServeFrame, Arrives, ArriveFrame
<1>5. CASE UNCHANGED builderVars
  BY <1>5 DEF builderVars
<1> QED
  BY <1>1, <1>2, <1>3, <1>4, <1>5 DEF BuilderNext

\* The click that deploys has a result on show, of the basket on show unless
\* it is overtaken, and the session's wallet selected.
LEMMA DeployClicked ==
    ASSUME BasketInv, DeploymentInv, Deploy
    PROVE  DeploymentInv'
<1> DEFINE d == [phase |-> "switching", creator |-> None, session |-> session,
                 switched |-> TRUE, basket |-> EffectiveBasket,
                 simulated |-> simulateResult.basket,
                 overtaken |-> simulateResult.overtaken]
<1>1. d.basket = d.simulated \/ d.overtaken
  BY DEF Deploy, MayDeploy, BasketInv, Current
<1>2. session = account
  BY DEF Deploy, MayDeploy, Status, BasketInv
<1>3. UNCHANGED registered /\ DeployedAsChecked
  BY DEF Deploy, DeploymentInv
<1>4. CASE deployment' = d
  BY <1>1, <1>3, <1>4 DEF DeploymentInv, DeployedAsChecked
<1>5. CASE Write([d EXCEPT !.switched = FALSE])
  <2>1. deployment' = [phase |-> "signing", creator |-> account, session |-> session,
                       switched |-> FALSE, basket |-> d.basket,
                       simulated |-> d.simulated, overtaken |-> d.overtaken]
    BY <1>5 DEF Write
  <2> QED
    BY <1>1, <1>2, <1>3, <2>1 DEF DeploymentInv, Checked, DeployedAsChecked
<1> QED
  BY <1>4, <1>5 DEF Deploy

LEMMA DeploymentStep ==
    ASSUME BasketInv, DeploymentInv, [BuilderNext]_builderVars
    PROVE  DeploymentInv'
<1>1. CASE ~ DeployStep
  BY <1>1, DeploysKept DEF deploys, DeploymentInv, DeployedAsChecked, Checked
<1>2. CASE Deploy
  BY <1>2, DeployClicked
<1>3. CASE ChainSwitched
  <2> DEFINE d == deployment
  <2>1. deployment' = [d EXCEPT !.phase = "signing", !.creator = account]
    BY <1>3 DEF ChainSwitched, Write
  <2>2. deployment' = [phase |-> "signing", creator |-> account,
                       session |-> d.session, switched |-> d.switched,
                       basket |-> d.basket, simulated |-> d.simulated,
                       overtaken |-> d.overtaken]
    BY <1>3, <2>1 DEF ChainSwitched, DeploymentInv
  <2>3. d.switched = TRUE /\ (d.basket = d.simulated \/ d.overtaken)
    BY <1>3 DEF ChainSwitched, DeploymentInv
  <2>4. UNCHANGED registered /\ DeployedAsChecked
    BY <1>3 DEF ChainSwitched, DeploymentInv
  <2> HIDE DEF d
  <2> QED
    BY <2>2, <2>3, <2>4 DEF DeploymentInv, Checked, DeployedAsChecked
<1>4. CASE DeployFails
  BY <1>4 DEF DeployFails, DeploymentInv, DeployedAsChecked
<1>5. CASE Registers
  <2>1. registered' = registered \union {deployment} /\ Checked(deployment)
    BY <1>5 DEF Registers, DeploymentInv
  <2>2. DeployedAsChecked'
    BY <2>1 DEF DeployedAsChecked, Checked, DeploymentInv
  <2>3. deployment'.phase \in {"deployed", "idle"}
    BY <1>5 DEF Registers
  <2> QED
    BY <2>2, <2>3 DEF DeploymentInv
<1> QED
  BY <1>1, <1>2, <1>3, <1>4, <1>5 DEF DeployStep

\* Whatever loads, edits, proposals and wallets do between the simulation
\* and the transaction, the index registered is the basket simulated, by who
\* was signed in, but for the two exceptions of the code (L295-317, L640-745).
THEOREM DeployChecked == BuilderSpec => []DeployedAsChecked
<1> DEFINE Inv == BasketInv /\ DeploymentInv
<1>1. BuilderInit => Inv
  BY DeployInit
<1>2. Inv /\ [BuilderNext]_builderVars => Inv'
  BY BasketInvStep, DeploymentStep
<1>3. Inv => DeployedAsChecked
  BY DEF DeploymentInv
<1> QED
  BY <1>1, <1>2, <1>3, PTL DEF BuilderSpec

=============================================================================
