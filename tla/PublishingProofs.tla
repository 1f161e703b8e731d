-------------------------- MODULE PublishingProofs --------------------------
(***************************************************************************)
(* For any proposals, tabs, creators, tickers, openings and bounds: the    *)
(* three invariants of publishing.  They are not inductive alone, because  *)
(* what a row says was read from other places some time ago.  Of these the *)
(* strengthening keeps only what outlives every race:                      *)
(*                                                                         *)
(*   - whoever names a proposal and its ticker (a tab, a wallet window, a  *)
(*     transaction, an answer under way) still names its ticker, or the    *)
(*     proposal is deleted for good (Names);                               *)
(*                                                                         *)
(*   - whoever names a transaction of a proposal that had a receipt still  *)
(*     does (Backs);                                                       *)
(*                                                                         *)
(*   - a checked patch to "live" or "paused" meets a row that names such a *)
(*     transaction, or one that was created as "paused" (PublishedOnce).   *)
(*                                                                         *)
(* All three only ever grow (Grows), so the lemmas on requests, tabs and   *)
(* wallet windows are about any earlier and later state.                   *)
(***************************************************************************)
EXTENDS Publishing, TLAPS

Slots == 1..MaxInFlight

Names(R, D, id, t) == id \in D \/ (R[id] # Absent /\ R[id].ticker = t)

Backs(T, i, id) == i \in 1..Len(T) /\ T[i].id = id /\ T[i].state \in Receipted

PublishedOnce(R, D, P, T, id) ==
    id \in D \/ id \in P \/ (R[id] # Absent /\ Backs(T, R[id].tx, id))

Kinds == {"get", "create", "transition", "publish", "delete", "deleteRow"}
OfTheRow == {"get", "transition", "publish"}

IsRequest(r) ==
    r = [kind |-> r.kind, page |-> r.page, user |-> r.user, id |-> r.id,
         body |-> r.body, phase |-> r.phase, base |-> r.base, row |-> r.row]

RequestOK(r, R, D, P, T) ==
    /\ IsRequest(r)
    /\ r.kind \in Kinds /\ r.page \in Pages \union {0}
    /\ r.phase \in {"sent", "checked", "ok", "failed"}
    /\ r.phase = "checked" => r.kind \in {"transition", "publish"}
    /\ r.phase \in {"ok", "failed"} => r.page \in Pages
    /\ r.kind # "create" => r.id \in Proposals
    /\ r.kind = "create" =>
         /\ r.body.ticker \in Tickers /\ r.body.weighted \in BOOLEAN
         /\ r.body.status \in RequestedStatuses /\ r.body.tx \in Nat
    /\ r.kind = "transition" =>
         r.body.tx = 0 /\ r.body.status \in Statuses \ {"published"}
    /\ r.kind = "publish" =>
         r.body.status = "published" /\ Backs(T, r.body.tx, r.id)
    /\ r.phase = "ok" /\ r.kind \in OfTheRow =>
         r.row \in RowSet /\ r.row # Absent /\ Names(R, D, r.id, r.row.ticker)
    /\ r.phase = "checked" /\ r.body.status \in {"live", "paused"} =>
         PublishedOnce(R, D, P, T, r.id)

\* A request of a tab about its row is about the row the tab has open.
Heard(r, g) == r.kind \in OfTheRow => g.open = r.id

NetOK(N, R, D, P, T, G) ==
    /\ N = [k \in Slots |-> N[k]]
    /\ \A k \in Slots :
         N[k] = Idle \/ RequestOK(N[k], R, D, P, T)
    /\ \A k \in Slots :
         N[k] # Idle /\ N[k].page # 0 => Heard(N[k], G[N[k].page])

IsPage(g) ==
    /\ g = [view |-> g.view, open |-> g.open, row |-> g.row, chain |-> g.chain]
    /\ g.chain = [phase |-> g.chain.phase, tx |-> g.chain.tx]

PageOK(g, R, D, T) ==
    /\ IsPage(g)
    /\ g.view = "shown" =>
         /\ g.open \in Proposals
         /\ g.row \in RowSet /\ g.row # Absent /\ Names(R, D, g.open, g.row.ticker)
    /\ g.chain.phase = "confirming" =>
         /\ g.open \in Proposals
         /\ g.chain.tx \in 1..Len(T) /\ T[g.chain.tx].id = g.open

PagesOK(G, R, D, T) ==
    /\ G = [p \in Pages |-> G[p]]
    /\ \A p \in Pages : PageOK(G[p], R, D, T)

PromptOK(w, R, D) ==
    /\ w.page \in Pages /\ w.id \in Proposals /\ w.ticker \in Tickers
    /\ Names(R, D, w.id, w.ticker)

TxsOK(R, D, T) ==
    /\ T \in Seq(TxSet)
    /\ \A i \in 1..Len(T) : T[i].id # 0 => Names(R, D, T[i].id, T[i].ticker)
    /\ \A i, j \in 1..Len(T) :
         /\ T[i].state \in Registering /\ T[j].state \in Registering
         /\ T[i].ticker = T[j].ticker
         => i = j

RowsOK(R, D, P, T) ==
    /\ R \in [Proposals -> RowSet] /\ D \subseteq Proposals
    /\ \A id \in D : R[id] = Absent
    /\ \A id \in Proposals :
         R[id].status \in OnChain => id \in P \/ Backs(T, R[id].tx, id)

PublishingInv ==
    /\ RowsOK(rows, deleted, postedPaused, txs)
    /\ TxsOK(rows, deleted, txs)
    /\ NetOK(net, rows, deleted, postedPaused, txs, pages)
    /\ PagesOK(pages, rows, deleted, txs)
    /\ \A w \in prompts : PromptOK(w, rows, deleted)

\* What the other parts need of a step of the server or of the chain.
Grows(R, D, P, T, R1, D1, P1, T1) ==
    /\ \A id \in Proposals : \A t \in Tickers :
         Names(R, D, id, t) => Names(R1, D1, id, t)
    /\ \A id \in Proposals :
         PublishedOnce(R, D, P, T, id) => PublishedOnce(R1, D1, P1, T1, id)
    /\ \A i \in 1..Len(T) : i \in 1..Len(T1) /\ T1[i].id = T[i].id
    /\ \A i \in 1..Len(T) : T[i].state \in Receipted => T1[i].state \in Receipted

------------------------------------------------------------------------------
(* What only grows                                                            *)

LEMMA RowFacts ==
    \A r \in RowSet :
      /\ r # Absent <=> r.status # "absent"
      /\ r # Absent =>
           /\ r \in [creator : Users, ticker : Tickers, weighted : BOOLEAN,
                     status : Statuses, tx : Nat]
           /\ r.ticker \in Tickers /\ r.status \in Statuses /\ r.tx \in Nat
           /\ r.creator \in Users /\ r.weighted \in BOOLEAN
BY DEF RowSet, Absent, Statuses

LEMMA RequestKept ==
    ASSUME NEW r, NEW R, NEW D, NEW P, NEW T, NEW R1, NEW D1, NEW P1, NEW T1,
           RequestOK(r, R, D, P, T), Grows(R, D, P, T, R1, D1, P1, T1)
    PROVE  RequestOK(r, R1, D1, P1, T1)
<1>1. r.phase = "ok" /\ r.kind \in OfTheRow => Names(R1, D1, r.id, r.row.ticker)
  BY RowFacts DEF RequestOK, Grows, OfTheRow
<1>2. r.kind = "publish" => Backs(T1, r.body.tx, r.id)
  BY DEF RequestOK, Grows, Backs
<1>3. r.phase = "checked" /\ r.body.status \in {"live", "paused"} =>
        PublishedOnce(R1, D1, P1, T1, r.id)
  <2>1. r.id \in Proposals \/ r.kind = "create"
    BY DEF RequestOK
  <2> QED
    BY <2>1 DEF RequestOK, Grows
<1> QED
  BY <1>1, <1>2, <1>3 DEF RequestOK

LEMMA PageKept ==
    ASSUME NEW g, NEW R, NEW D, NEW P, NEW T, NEW R1, NEW D1, NEW P1, NEW T1,
           PageOK(g, R, D, T), Grows(R, D, P, T, R1, D1, P1, T1)
    PROVE  PageOK(g, R1, D1, T1)
<1>1. g.view = "shown" => Names(R1, D1, g.open, g.row.ticker)
  BY RowFacts DEF PageOK, Grows
<1> QED
  BY <1>1 DEF PageOK, Grows

LEMMA PromptKept ==
    ASSUME NEW w, NEW R, NEW D, NEW P, NEW T, NEW R1, NEW D1, NEW P1, NEW T1,
           PromptOK(w, R, D), Grows(R, D, P, T, R1, D1, P1, T1)
    PROVE  PromptOK(w, R1, D1)
BY DEF PromptOK, Grows

LEMMA GrowsNot ==
    ASSUME NEW R, NEW D, NEW P, NEW T PROVE Grows(R, D, P, T, R, D, P, T)
BY DEF Grows

LEMMA NetKept ==
    ASSUME NEW N, NEW N1, NEW R, NEW D, NEW P, NEW T, NEW R1, NEW D1, NEW P1, NEW T1,
           NEW G, NEW G1,
           NetOK(N, R, D, P, T, G), Grows(R, D, P, T, R1, D1, P1, T1),
           N1 = [k \in Slots |-> N1[k]],
           \A k \in Slots :
             \/ N1[k] = Idle
             \/ /\ N1[k] = N[k]
                /\ N[k].page # 0 => G1[N[k].page].open = G[N[k].page].open
             \/ /\ RequestOK(N1[k], R1, D1, P1, T1)
                /\ N1[k].page # 0 => Heard(N1[k], G1[N1[k].page])
    PROVE  NetOK(N1, R1, D1, P1, T1, G1)
<1>1. ASSUME NEW k \in Slots, N1[k] # Idle, N1[k] = N[k]
      PROVE  RequestOK(N1[k], R1, D1, P1, T1)
  BY <1>1, RequestKept DEF NetOK
<1>2. ASSUME NEW k \in Slots PROVE N1[k] = Idle \/ RequestOK(N1[k], R1, D1, P1, T1)
  BY <1>1
<1>3. ASSUME NEW k \in Slots, N1[k] # Idle, N1[k].page # 0
      PROVE  Heard(N1[k], G1[N1[k].page])
  BY <1>3 DEF NetOK, Heard
<1> QED
  BY <1>2, <1>3 DEF NetOK

LEMMA PagesKept ==
    ASSUME NEW G, NEW G1, NEW R, NEW D, NEW P, NEW T, NEW R1, NEW D1, NEW P1, NEW T1,
           PagesOK(G, R, D, T), Grows(R, D, P, T, R1, D1, P1, T1),
           G1 = [p \in Pages |-> G1[p]],
           \A p \in Pages : G1[p] = G[p] \/ PageOK(G1[p], R1, D1, T1)
    PROVE  PagesOK(G1, R1, D1, T1)
<1>1. ASSUME NEW p \in Pages PROVE PageOK(G1[p], R1, D1, T1)
  BY PageKept DEF PagesOK
<1> QED
  BY <1>1 DEF PagesOK

\* A step that leaves rows, deletions and transactions alone.
LEMMA ServerIdle ==
    ASSUME PublishingInv, UNCHANGED <<server, txs>>
    PROVE  /\ Grows(rows, deleted, postedPaused, txs, rows', deleted', postedPaused', txs')
           /\ RowsOK(rows', deleted', postedPaused', txs') /\ TxsOK(rows', deleted', txs')
BY GrowsNot DEF PublishingInv, server

------------------------------------------------------------------------------
(* Requests that leave a tab, answers that come back                          *)

\* A request that a tab has just made.
Fresh(r, R, D, P, T, G) ==
    RequestOK(r, R, D, P, T) /\ r.page \in Pages /\ Heard(r, G[r.page])

LEMMA OpenTab ==
    ASSUME PublishingInv, NEW p \in Pages
    PROVE  /\ IsPage(pages[p])
           /\ pages[p].view = "shown" =>
                 /\ pages[p].open \in Proposals /\ pages[p].row # Absent
                 /\ pages[p].row \in RowSet
                 /\ Names(rows, deleted, pages[p].open, pages[p].row.ticker)
BY DEF PublishingInv, PagesOK, PageOK

LEMMA SendStep ==
    ASSUME PublishingInv, NEW r, Sends(r),
           Fresh(r, rows', deleted', postedPaused', txs', pages'),
           Grows(rows, deleted, postedPaused, txs, rows', deleted', postedPaused', txs'),
           \A p \in Pages : pages'[p].open = pages[p].open
    PROVE  NetOK(net', rows', deleted', postedPaused', txs', pages')
<1>1. NetOK(net, rows, deleted, postedPaused, txs, pages)
  BY DEF PublishingInv
<1>2. /\ net' = [k \in Slots |-> net'[k]]
      /\ \A k \in Slots : net'[k] = net[k] \/ net'[k] = r
  BY <1>1 DEF Sends, NetOK
<1>3. ASSUME NEW k \in Slots, net[k] # Idle, net[k].page # 0
      PROVE  pages'[net[k].page].open = pages[net[k].page].open
  BY <1>1, <1>3 DEF NetOK, RequestOK
<1> QED
  BY <1>1, <1>2, <1>3, NetKept DEF Fresh

LEMMA OrphanStep ==
    ASSUME PublishingInv, NEW p \in Pages, NEW k \in Slots
    PROVE  LET r == Orphaned(p)[k]
           IN  \/ r = Idle
               \/ r = net[k] /\ net[k].page # p
               \/ RequestOK(r, rows, deleted, postedPaused, txs) /\ r.page = 0
<1>1. net[k] = Idle \/ RequestOK(net[k], rows, deleted, postedPaused, txs)
  BY DEF PublishingInv, NetOK
<1>2. Orphaned(p)[k] =
        IF net[k] = Idle \/ net[k].page # p THEN net[k]
        ELSE IF net[k].phase \in {"ok", "failed"} THEN Idle
        ELSE [net[k] EXCEPT !.page = 0]
  BY DEF Orphaned, Slots
<1>3. CASE /\ net[k] # Idle /\ net[k].page = p
           /\ net[k].phase \notin {"ok", "failed"}
  <2> DEFINE r == [net[k] EXCEPT !.page = 0]
  <2>1. /\ IsRequest(r) /\ r.page = 0
        /\ r.kind = net[k].kind /\ r.phase = net[k].phase /\ r.id = net[k].id
        /\ r.body = net[k].body /\ r.row = net[k].row
    BY <1>1, <1>3 DEF RequestOK, IsRequest
  <2>2. RequestOK(r, rows, deleted, postedPaused, txs)
    BY <1>1, <1>3, <2>1 DEF RequestOK
  <2> QED
    BY <1>2, <1>3, <2>1, <2>2
<1> QED
  BY <1>2, <1>3

LEMMA AnswerStep ==
    ASSUME PublishingInv, NEW k \in Slots, NEW phase \in {"ok", "failed"}, NEW row,
           net[k] # Idle, Answer(k, phase, row), UNCHANGED pages,
           Grows(rows, deleted, postedPaused, txs, rows', deleted', postedPaused', txs'),
           phase = "ok" /\ net[k].kind \in OfTheRow =>
             row \in RowSet /\ row # Absent /\ Names(rows', deleted', net[k].id, row.ticker)
    PROVE  NetOK(net', rows', deleted', postedPaused', txs', pages')
<1> DEFINE r == [net[k] EXCEPT !.phase = phase, !.row = row]
<1>1. /\ NetOK(net, rows, deleted, postedPaused, txs, pages)
      /\ RequestOK(net[k], rows, deleted, postedPaused, txs)
      /\ RequestOK(net[k], rows', deleted', postedPaused', txs')
  BY RequestKept DEF PublishingInv, NetOK
<1>2. /\ net' = [j \in Slots |-> net'[j]]
      /\ \A j \in Slots \ {k} : net'[j] = net[j]
      /\ net'[k] = IF net[k].page = 0 THEN Idle ELSE r
  BY <1>1 DEF Answer, NetOK
<1>3. /\ IsRequest(r) /\ r.phase = phase /\ r.row = row
      /\ r.kind = net[k].kind /\ r.page = net[k].page /\ r.id = net[k].id
      /\ r.body = net[k].body
  <2>1. IsRequest(net[k])
    BY <1>1 DEF RequestOK
  <2> DEFINE c == [net[k] EXCEPT !.phase = phase]
             d == [c EXCEPT !.row = row]
  <2>2. /\ IsRequest(c) /\ c.phase = phase
        /\ c.kind = net[k].kind /\ c.page = net[k].page /\ c.id = net[k].id
        /\ c.body = net[k].body
    BY <2>1 DEF IsRequest
  <2>3. r = d
    OBVIOUS
  <2> HIDE DEF c
  <2>4. /\ IsRequest(d) /\ d.phase = c.phase /\ d.row = row
        /\ d.kind = c.kind /\ d.page = c.page /\ d.id = c.id /\ d.body = c.body
    BY <2>2 DEF IsRequest
  <2> HIDE DEF d
  <2> QED
    BY <2>2, <2>3, <2>4
<1>4. net[k].page # 0 => RequestOK(r, rows', deleted', postedPaused', txs')
  BY <1>1, <1>3 DEF RequestOK
<1>5. net[k].page # 0 => Heard(r, pages'[r.page])
  BY <1>1, <1>3 DEF NetOK, Heard
<1>6. ASSUME NEW j \in Slots
      PROVE  \/ net'[j] = Idle
             \/ net'[j] = net[j]
             \/ RequestOK(net'[j], rows', deleted', postedPaused', txs') /\ Heard(net'[j], pages'[net'[j].page])
  BY <1>2, <1>4, <1>5
<1> QED
  BY <1>1, <1>2, <1>6, NetKept

\* The request behind a slot in use.
LEMMA InFlight ==
    ASSUME PublishingInv, NEW k \in Slots, net[k] # Idle
    PROVE  RequestOK(net[k], rows, deleted, postedPaused, txs)
BY DEF PublishingInv, NetOK

------------------------------------------------------------------------------
(* The routes                                                                 *)

LEMMA StepServeGet ==
    ASSUME PublishingInv, NEW k \in Slots, ServeGet(k) PROVE PublishingInv'
<1>1. /\ Grows(rows, deleted, postedPaused, txs, rows', deleted', postedPaused', txs')
      /\ RowsOK(rows', deleted', postedPaused', txs') /\ TxsOK(rows', deleted', txs')
  BY ServerIdle DEF ServeGet
<1>2. NetOK(net', rows', deleted', postedPaused', txs', pages')
  <2>1. RequestOK(net[k], rows, deleted, postedPaused, txs) /\ net[k].kind = "get"
    BY InFlight DEF ServeGet
  <2>2. rows[net[k].id] \in RowSet
    BY <2>1 DEF PublishingInv, RowsOK, RequestOK
  <2>3. CASE CanRead(net[k].user, rows[net[k].id])
    <3>1. Answer(k, "ok", rows[net[k].id]) /\ rows[net[k].id] # Absent
      BY <2>3 DEF ServeGet, CanRead
    <3>2. Names(rows', deleted', net[k].id, rows[net[k].id].ticker)
      BY <3>1 DEF Names, ServeGet, server
    <3> QED
      BY <1>1, <2>2, <3>1, <3>2, AnswerStep DEF ServeGet
  <2>4. CASE ~ CanRead(net[k].user, rows[net[k].id])
    BY <1>1, <2>4, AnswerStep DEF ServeGet
  <2> QED
    BY <2>3, <2>4
<1> QED
  BY <1>1, <1>2 DEF ServeGet, PublishingInv, server

LEMMA StepCheckPatch ==
    ASSUME PublishingInv, NEW k \in Slots, CheckPatch(k) PROVE PublishingInv'
<1>1. /\ Grows(rows, deleted, postedPaused, txs, rows', deleted', postedPaused', txs')
      /\ RowsOK(rows', deleted', postedPaused', txs') /\ TxsOK(rows', deleted', txs')
  BY ServerIdle DEF CheckPatch
<1>2. RequestOK(net[k], rows, deleted, postedPaused, txs) /\ net[k].kind \in {"transition", "publish"}
  BY InFlight DEF CheckPatch
<1> DEFINE row == rows[net[k].id]
<1>3. row \in RowSet
  BY <1>2 DEF PublishingInv, RowsOK, RequestOK
<1>4. CASE Owns(net[k].user, row) /\ Allowed(row, net[k].body)
  <2> DEFINE r == [net[k] EXCEPT !.phase = "checked", !.base = row.status]
  <2>1. net' = [net EXCEPT ![k] = r]
    BY <1>2, <1>4 DEF CheckPatch
  <2>2. /\ IsRequest(r) /\ r.phase = "checked"
        /\ r.kind = net[k].kind /\ r.page = net[k].page /\ r.id = net[k].id
        /\ r.body = net[k].body /\ r.row = net[k].row
    <3>1. IsRequest(net[k])
      BY <1>2 DEF RequestOK
    <3> DEFINE c == [net[k] EXCEPT !.phase = "checked"]
               d == [c EXCEPT !.base = row.status]
    <3>2. /\ IsRequest(c) /\ c.phase = "checked"
          /\ c.kind = net[k].kind /\ c.page = net[k].page /\ c.id = net[k].id
          /\ c.body = net[k].body /\ c.row = net[k].row
      BY <3>1 DEF IsRequest
    <3>3. r = d
      OBVIOUS
    <3> HIDE DEF c
    <3>4. /\ IsRequest(d) /\ d.phase = c.phase /\ d.row = c.row
          /\ d.kind = c.kind /\ d.page = c.page /\ d.id = c.id /\ d.body = c.body
      BY <3>2 DEF IsRequest
    <3> HIDE DEF d
    <3> QED
      BY <3>2, <3>3, <3>4
  <2>3. row # Absent /\ row.status \in Statuses
    BY <1>3, <1>4, RowFacts DEF Owns
  <2>4. r.body.status \in {"live", "paused"} => row.status \in OnChain
    BY <1>2, <1>4, <2>2, <2>3 DEF Allowed, STATUS_GRAPH, OnChain, RequestOK, Statuses
  <2>5. r.body.status \in {"live", "paused"} => PublishedOnce(rows, deleted, postedPaused, txs, r.id)
    BY <1>2, <2>2, <2>3, <2>4 DEF PublishedOnce, PublishingInv, RowsOK, RequestOK
  <2>6. RequestOK(r, rows', deleted', postedPaused', txs')
    BY <1>2, <2>2, <2>5 DEF RequestOK, CheckPatch, server
  <2>7. NetOK(net, rows, deleted, postedPaused, txs, pages)
    BY DEF PublishingInv
  <2>8. r.page # 0 => Heard(r, pages'[r.page])
    BY <2>2, <2>7 DEF NetOK, Heard, CheckPatch
  <2>9. /\ net' = [j \in Slots |-> net'[j]]
        /\ \A j \in Slots : net'[j] = net[j] \/ net'[j] = r
    BY <2>1, <2>7 DEF NetOK
  <2>10. UNCHANGED pages
    BY DEF CheckPatch
  <2>11. ASSUME NEW j \in Slots
         PROVE  \/ net'[j] = net[j]
                \/ /\ RequestOK(net'[j], rows', deleted', postedPaused', txs')
                   /\ net'[j].page # 0 => Heard(net'[j], pages'[net'[j].page])
    BY <2>6, <2>8, <2>9
  <2>12. NetOK(net', rows', deleted', postedPaused', txs', pages')
    BY <1>1, <2>7, <2>9, <2>10, <2>11, NetKept
  <2> QED
    BY <1>1, <2>12 DEF CheckPatch, PublishingInv, server
<1>5. CASE ~ (Owns(net[k].user, row) /\ Allowed(row, net[k].body))
  <2>1. NetOK(net', rows', deleted', postedPaused', txs', pages')
    BY <1>1, <1>5, AnswerStep DEF CheckPatch
  <2> QED
    BY <1>1, <2>1 DEF CheckPatch, PublishingInv, server
<1> QED
  BY <1>4, <1>5

LEMMA TxsKept ==
    ASSUME NEW R, NEW D, NEW P, NEW T, NEW R1, NEW D1, NEW P1,
           TxsOK(R, D, T), Grows(R, D, P, T, R1, D1, P1, T)
    PROVE  TxsOK(R1, D1, T)
<1>1. ASSUME NEW i \in 1..Len(T), T[i].id # 0 PROVE Names(R1, D1, T[i].id, T[i].ticker)
  <2>1. T[i] \in TxSet
    BY DEF TxsOK
  <2> QED
    BY <1>1, <2>1 DEF TxsOK, Grows, TxSet
<1> QED
  BY <1>1 DEF TxsOK

\* What a step of the server that keeps the transactions leaves to show.
LEMMA ServerStep ==
    ASSUME PublishingInv, Grows(rows, deleted, postedPaused, txs, rows', deleted', postedPaused', txs'),
           RowsOK(rows', deleted', postedPaused', txs'),
           NetOK(net', rows', deleted', postedPaused', txs', pages'),
           UNCHANGED <<txs, prompts, pages>>
    PROVE  PublishingInv'
<1>1. TxsOK(rows', deleted', txs')
  BY TxsKept DEF PublishingInv
<1>2. PagesOK(pages', rows', deleted', txs')
  BY PagesKept DEF PublishingInv, PagesOK
<1>3. \A w \in prompts' : PromptOK(w, rows', deleted')
  BY PromptKept DEF PublishingInv
<1> QED
  BY <1>1, <1>2, <1>3 DEF PublishingInv

LEMMA StepServeCreate ==
    ASSUME PublishingInv, NEW k \in Slots, ServeCreate(k) PROVE PublishingInv'
<1>1. RequestOK(net[k], rows, deleted, postedPaused, txs) /\ net[k].kind = "create"
  BY InFlight DEF ServeCreate
<1>2. CASE CanWrite(net[k].user)
  <2>1. PICK id \in Proposals \ deleted :
          /\ rows[id] = Absent
          /\ rows' = [rows EXCEPT ![id] =
                Row(net[k].user, net[k].body.ticker, net[k].body.weighted,
                    CreatedStatus(net[k].body.status), net[k].body.tx)]
          /\ postedPaused' = IF CreatedStatus(net[k].body.status) = "paused"
                             THEN postedPaused \union {id} ELSE postedPaused
          /\ Answer(k, "ok", Absent)
    BY <1>2 DEF ServeCreate
  <2> DEFINE row == Row(net[k].user, net[k].body.ticker, net[k].body.weighted,
                        CreatedStatus(net[k].body.status), net[k].body.tx)
  <2>2. /\ row \in RowSet /\ row # Absent
        /\ row.status \in OnChain => id \in postedPaused'
        /\ postedPaused \subseteq postedPaused'
    <3>1. /\ CreatedStatus(net[k].body.status) \in Statuses
          /\ CreatedStatus(net[k].body.status) \in OnChain =>
               CreatedStatus(net[k].body.status) = "paused"
      BY <1>1 DEF RequestOK, CreatedStatus, Statuses, OnChain
    <3>2. row \in RowSet /\ row # Absent /\ row.status = CreatedStatus(net[k].body.status)
      BY <1>1, <1>2, <3>1 DEF RequestOK, Row, RowSet, Absent, CanWrite
    <3> HIDE DEF row
    <3> QED
      BY <2>1, <3>1, <3>2
  <2>3. /\ rows \in [Proposals -> RowSet] /\ UNCHANGED <<deleted, txs, prompts, pages>>
        /\ rows' = [rows EXCEPT ![id] = row]
    BY <2>1 DEF PublishingInv, RowsOK, ServeCreate
  <2> HIDE DEF row
  <2>4. Grows(rows, deleted, postedPaused, txs, rows', deleted', postedPaused', txs')
    BY <2>1, <2>2, <2>3 DEF Grows, Names, PublishedOnce
  <2>5. RowsOK(rows', deleted', postedPaused', txs')
    BY <2>2, <2>3 DEF PublishingInv, RowsOK
  <2>6. NetOK(net', rows', deleted', postedPaused', txs', pages')
    BY <1>1, <2>1, <2>3, <2>4, AnswerStep DEF OfTheRow, ServeCreate
  <2> QED
    BY <2>3, <2>4, <2>5, <2>6, ServerStep
<1>3. CASE ~ CanWrite(net[k].user)
  <2>1. UNCHANGED <<server, txs, prompts, pages>> /\ Answer(k, "failed", Absent)
    BY <1>3 DEF ServeCreate, server
  <2>2. /\ Grows(rows, deleted, postedPaused, txs, rows', deleted', postedPaused', txs')
        /\ RowsOK(rows', deleted', postedPaused', txs')
    BY <2>1, ServerIdle DEF server
  <2>3. NetOK(net', rows', deleted', postedPaused', txs', pages')
    BY <2>1, <2>2, AnswerStep DEF ServeCreate
  <2> QED
    BY <2>1, <2>2, <2>3, ServerStep DEF server
<1> QED
  BY <1>2, <1>3

LEMMA StepServeDelete ==
    ASSUME PublishingInv, NEW k \in Slots, ServeDelete(k) PROVE PublishingInv'
<1>1. /\ RequestOK(net[k], rows, deleted, postedPaused, txs) /\ net[k].kind \in {"delete", "deleteRow"}
      /\ UNCHANGED <<txs, prompts, pages>>
  BY InFlight DEF ServeDelete
<1> DEFINE id == net[k].id
<1>2. id \in Proposals /\ net[k].kind \notin OfTheRow
  BY <1>1 DEF RequestOK, OfTheRow
<1>3. Grows(rows, deleted, postedPaused, txs, rows', deleted', postedPaused', txs') /\ RowsOK(rows', deleted', postedPaused', txs')
  <2>1. CASE /\ rows' = [rows EXCEPT ![id] = Absent] /\ deleted' = deleted \union {id}
             /\ UNCHANGED postedPaused
    <3>1. rows \in [Proposals -> RowSet] /\ Absent \in RowSet /\ Absent.status \notin OnChain
      BY DEF PublishingInv, RowsOK, RowSet, Absent, OnChain
    <3>2. Grows(rows, deleted, postedPaused, txs, rows', deleted', postedPaused', txs')
      BY <1>1, <1>2, <2>1, <3>1 DEF Grows, Names, PublishedOnce
    <3> QED
      BY <1>1, <1>2, <2>1, <3>1, <3>2 DEF PublishingInv, RowsOK
  <2>2. CASE UNCHANGED server
    BY <1>1, <2>2, ServerIdle
  <2> QED
    BY <2>1, <2>2 DEF ServeDelete
<1>4. NetOK(net', rows', deleted', postedPaused', txs', pages')
  BY <1>1, <1>2, <1>3, AnswerStep DEF ServeDelete
<1> QED
  BY <1>1, <1>3, <1>4, ServerStep

\* The row that a checked patch leaves.
LEMMA PatchedRow ==
    ASSUME NEW row \in RowSet, row # Absent, NEW base, NEW body,
           body.status \in Statuses, body.tx \in Nat
    PROVE  LET new == Patched(row, base, body)
           IN  /\ new \in RowSet /\ new # Absent /\ new.ticker = row.ticker
               /\ new.status = IF body.status # base THEN body.status ELSE row.status
               /\ new.tx = IF body.tx # 0 THEN body.tx ELSE row.tx
<1> DEFINE st == IF body.status # base THEN body.status ELSE row.status
           tx == IF body.tx # 0 THEN body.tx ELSE row.tx
           c == [row EXCEPT !.status = st]
           d == [c EXCEPT !.tx = tx]
           Rec == [creator : Users, ticker : Tickers, weighted : BOOLEAN,
                   status : Statuses, tx : Nat]
<1>1. row \in Rec /\ st \in Statuses /\ tx \in Nat
  BY RowFacts
<1>2. Patched(row, base, body) = d
  BY DEF Patched
<1> HIDE DEF st, tx
<1>3. c \in Rec /\ c.ticker = row.ticker /\ c.status = st /\ c.tx = row.tx
  BY <1>1
<1> HIDE DEF c
<1>4. d \in Rec /\ d.ticker = c.ticker /\ d.status = c.status /\ d.tx = tx
  BY <1>1, <1>3
<1> HIDE DEF d
<1>5. d \in RowSet /\ d # Absent
  BY <1>4 DEF RowSet, Absent, Statuses
<1> QED
  BY <1>2, <1>3, <1>4, <1>5 DEF st, tx

LEMMA StepWritePatch ==
    ASSUME PublishingInv, NEW k \in Slots, WritePatch(k) PROVE PublishingInv'
<1> DEFINE id == net[k].id
           body == net[k].body
           row == Patched(rows[id], net[k].base, body)
<1>1. /\ RequestOK(net[k], rows, deleted, postedPaused, txs) /\ net[k].phase = "checked"
      /\ net[k].kind \in {"transition", "publish"}
      /\ id \in Proposals /\ net[k] # Idle
      /\ UNCHANGED <<deleted, txs, prompts, pages>>
  <2>1. RequestOK(net[k], rows, deleted, postedPaused, txs)
    BY InFlight DEF WritePatch
  <2> QED
    BY <2>1 DEF RequestOK, WritePatch
<1>2. CASE rows[id] # Absent
  <2>1. /\ rows' = [rows EXCEPT ![id] = row] /\ Answer(k, "ok", row)
        /\ postedPaused' = IF net[k].kind = "publish" THEN postedPaused \ {id} ELSE postedPaused
    BY <1>2 DEF WritePatch, Found
  <2>2. /\ rows \in [Proposals -> RowSet] /\ rows[id] \in RowSet /\ id \notin deleted
        /\ rows[id].status \in OnChain => id \in postedPaused \/ Backs(txs, rows[id].tx, id)
    BY <1>1, <1>2 DEF PublishingInv, RowsOK
  <2>3. /\ body.status \in Statuses /\ body.tx \in Nat
        /\ IF net[k].kind = "publish" THEN body.tx # 0 /\ Backs(txs, body.tx, id)
           ELSE body.tx = 0 /\ body.status # "published"
    <3>1. CASE net[k].kind = "transition"
      BY <1>1, <3>1 DEF RequestOK
    <3>2. CASE net[k].kind = "publish"
      <4>1. body.status = "published" /\ Backs(txs, body.tx, id)
        BY <1>1, <3>2 DEF RequestOK
      <4>2. Len(txs) \in Nat
        BY DEF PublishingInv, TxsOK
      <4> QED
        BY <3>2, <4>1, <4>2 DEF Backs, Statuses
    <3> QED
      BY <1>1, <3>1, <3>2
  <2>4. /\ row \in RowSet /\ row # Absent /\ row.ticker = rows[id].ticker
        /\ row.status = IF body.status # net[k].base THEN body.status
                        ELSE rows[id].status
        /\ row.tx = IF body.tx # 0 THEN body.tx ELSE rows[id].tx
    BY <1>2, <2>2, <2>3, PatchedRow
  <2>5. body.status \in {"live", "paused"} =>
          id \in postedPaused \/ Backs(txs, rows[id].tx, id)
    BY <1>1, <2>2 DEF RequestOK, PublishedOnce
  <2> HIDE DEF row
  <2>6. /\ row.status \in OnChain => id \in postedPaused' \/ Backs(txs, row.tx, id)
        /\ Backs(txs, rows[id].tx, id) => Backs(txs, row.tx, id)
        /\ id \in postedPaused \ postedPaused' => Backs(txs, row.tx, id)
        /\ \A other \in Proposals \ {id} :
             other \in postedPaused <=> other \in postedPaused'
    <3>1. CASE net[k].kind = "publish"
      BY <2>1, <2>3, <2>4, <3>1
    <3>2. CASE net[k].kind # "publish"
      BY <2>1, <2>2, <2>3, <2>4, <2>5, <3>2 DEF OnChain
    <3> QED
      BY <3>1, <3>2
  <2>7. Grows(rows, deleted, postedPaused, txs, rows', deleted', postedPaused', txs')
    <3>1. ASSUME NEW j \in Proposals, PublishedOnce(rows, deleted, postedPaused, txs, j)
          PROVE  PublishedOnce(rows', deleted', postedPaused', txs', j)
      BY <1>1, <2>1, <2>2, <2>4, <2>6, <3>1 DEF PublishedOnce
    <3> QED
      BY <1>1, <1>2, <2>1, <2>2, <2>4, <3>1 DEF Grows, Names
  <2>8. RowsOK(rows', deleted', postedPaused', txs')
    BY <1>1, <2>1, <2>2, <2>4, <2>6 DEF PublishingInv, RowsOK
  <2>9. Names(rows', deleted', id, row.ticker)
    BY <1>1, <2>1, <2>2, <2>4 DEF Names
  <2>10. NetOK(net', rows', deleted', postedPaused', txs', pages')
    BY <1>1, <2>1, <2>4, <2>7, <2>9, AnswerStep
  <2> QED
    BY <1>1, <2>7, <2>8, <2>10, ServerStep
<1>3. CASE rows[id] = Absent
  <2>1. Answer(k, "failed", Absent) /\ UNCHANGED <<rows, postedPaused>>
    BY <1>3 DEF WritePatch, Found
  <2>2. /\ Grows(rows, deleted, postedPaused, txs, rows', deleted', postedPaused', txs')
        /\ RowsOK(rows', deleted', postedPaused', txs')
    BY <1>1, <2>1, ServerIdle DEF server
  <2>3. NetOK(net', rows', deleted', postedPaused', txs', pages')
    BY <1>1, <2>1, <2>2, AnswerStep
  <2> QED
    BY <1>1, <2>1, <2>2, <2>3, ServerStep
<1> QED
  BY <1>2, <1>3

------------------------------------------------------------------------------
(* The tabs                                                                   *)

\* What a step of the tabs, the wallet windows or the network leaves to show.
LEMMA TabStep ==
    ASSUME PublishingInv, UNCHANGED <<server, txs>>,
           NetOK(net', rows, deleted, postedPaused, txs, pages'),
           PagesOK(pages', rows, deleted, txs),
           \A w \in prompts' : PromptOK(w, rows, deleted)
    PROVE  PublishingInv'
BY DEF PublishingInv, server

LEMMA OnePage ==
    ASSUME PublishingInv, NEW p \in Pages, NEW g,
           pages' = [pages EXCEPT ![p] = g], PageOK(g, rows, deleted, txs)
    PROVE  /\ PagesOK(pages', rows, deleted, txs) /\ pages'[p] = g
           /\ \A q \in Pages \ {p} : pages'[q] = pages[q]
BY DEF PublishingInv, PagesOK

LEMMA ShowsFields ==
    ASSUME NEW g, IsPage(g), NEW row
    PROVE  LET s == Shows(g, row)
           IN  /\ IsPage(s) /\ s.view = "shown" /\ s.row = row
               /\ s.open = g.open /\ s.chain \in {g.chain, NoChain}
<1> DEFINE ch == IF g.row.status = "signed" /\ row.status = "signed"
                 THEN g.chain ELSE NoChain
           a == [g EXCEPT !.view = "shown"]
           b == [a EXCEPT !.row = row]
           c == [b EXCEPT !.chain = ch]
<1>1. Shows(g, row) = c
  BY DEF Shows
<1>2. ch \in {g.chain, NoChain} /\ ch = [phase |-> ch.phase, tx |-> ch.tx]
  BY DEF NoChain, IsPage
<1> HIDE DEF ch
<1>3. a = [view |-> "shown", open |-> g.open, row |-> g.row, chain |-> g.chain]
  BY DEF IsPage
<1> HIDE DEF a
<1>4. b = [view |-> "shown", open |-> g.open, row |-> row, chain |-> g.chain]
  BY <1>3
<1> HIDE DEF b
<1>5. c = [view |-> "shown", open |-> g.open, row |-> row, chain |-> ch]
  BY <1>4
<1> QED
  BY <1>1, <1>2, <1>5 DEF IsPage

LEMMA ListViewOK ==
    \A R, D, T : PageOK(ListView, R, D, T)
BY DEF PageOK, IsPage, ListView, NoChain

\* A tab that handles the answer to a request it waits for.
LEMMA HandledOK ==
    ASSUME NEW g, NEW r, NEW R, NEW D, NEW P, NEW T, PageOK(g, R, D, T), Heard(r, g),
           r.phase = "ok" /\ r.kind \in OfTheRow =>
             /\ r.id \in Proposals /\ r.row \in RowSet /\ r.row # Absent
             /\ Names(R, D, r.id, r.row.ticker)
    PROVE  /\ PageOK(Handled(g, r), R, D, T)
           /\ \/ Handled(g, r).open = g.open
              \/ /\ r.phase = "ok" /\ r.kind = "delete" /\ Handled(g, r) = ListView
<1>1. CASE r.phase = "ok" /\ r.kind \in OfTheRow
  <2>1. Handled(g, r) = Shows(g, r.row)
    BY <1>1 DEF Handled, OfTheRow
  <2> DEFINE s == Shows(g, r.row)
  <2>2. /\ IsPage(s) /\ s.view = "shown" /\ s.row = r.row
        /\ s.open = g.open /\ s.chain \in {g.chain, NoChain}
    BY ShowsFields DEF PageOK
  <2> HIDE DEF s
  <2>3. g.open = r.id
    BY <1>1 DEF Heard
  <2>4. PageOK(s, R, D, T)
    BY <1>1, <2>2, <2>3 DEF PageOK, NoChain
  <2> QED
    BY <2>1, <2>2, <2>4 DEF s
<1>2. CASE r.phase = "failed" /\ r.kind = "get"
  <2> DEFINE e == [g EXCEPT !.view = "error"]
  <2>1. Handled(g, r) = e
    BY <1>2 DEF Handled
  <2>2. e = [view |-> "error", open |-> g.open, row |-> g.row, chain |-> g.chain]
    BY DEF PageOK, IsPage
  <2> HIDE DEF e
  <2>3. PageOK(e, R, D, T)
    BY <2>2 DEF PageOK, IsPage
  <2> QED
    BY <2>1, <2>2, <2>3
<1>3. CASE r.phase = "ok" /\ r.kind = "delete"
  BY <1>3, ListViewOK DEF Handled
<1>4. CASE /\ ~ (r.phase = "ok" /\ r.kind \in OfTheRow)
           /\ ~ (r.phase = "failed" /\ r.kind = "get")
           /\ ~ (r.phase = "ok" /\ r.kind = "delete")
  <2>1. Handled(g, r) = g
    BY <1>4 DEF Handled, OfTheRow
  <2> QED
    BY <2>1
<1> QED
  BY <1>1, <1>2, <1>3, <1>4

LEMMA StepDeliver ==
    ASSUME PublishingInv, NEW k \in Slots, Deliver(k) PROVE PublishingInv'
<1> DEFINE r == net[k]
           p == net[k].page
           g == Handled(pages[p], r)
<1>1. /\ RequestOK(r, rows, deleted, postedPaused, txs) /\ r # Idle /\ p \in Pages /\ p # 0
      /\ r.phase \in {"ok", "failed"}
      /\ UNCHANGED <<server, txs, prompts>>
  <2>1. RequestOK(r, rows, deleted, postedPaused, txs)
    BY InFlight DEF Deliver, Answered
  <2> QED
    BY <2>1, PublishingAssumption DEF RequestOK, Deliver, Answered
<1>2. /\ NetOK(net, rows, deleted, postedPaused, txs, pages) /\ PageOK(pages[p], rows, deleted, txs)
      /\ Heard(r, pages[p])
  BY <1>1 DEF PublishingInv, NetOK, PagesOK
<1>3. /\ PageOK(g, rows, deleted, txs)
      /\ \/ g.open = pages[p].open
         \/ r.phase = "ok" /\ r.kind = "delete" /\ g = ListView
  <2>1. r.kind \in OfTheRow => r.id \in Proposals
    BY <1>1 DEF RequestOK, OfTheRow
  <2> QED
    BY <1>1, <1>2, <2>1, HandledOK DEF RequestOK
<1> HIDE DEF g
<1>4. pages' = [pages EXCEPT ![p] = g]
  <2>1. p \in DOMAIN pages
    BY <1>1 DEF PublishingInv, PagesOK
  <2> QED
    BY <2>1 DEF Deliver, g
<1>5. /\ PagesOK(pages', rows, deleted, txs) /\ pages'[p] = g
      /\ \A q \in Pages \ {p} : pages'[q] = pages[q]
  BY <1>1, <1>3, <1>4, OnePage
<1>6. Grows(rows, deleted, postedPaused, txs, rows, deleted, postedPaused, txs)
  BY GrowsNot
<1>7. CASE g.view = "list" /\ r.kind = "delete"
  <2>1. net' = [Orphaned(p) EXCEPT ![k] = Idle]
    BY <1>5, <1>7 DEF Deliver
  <2>2. /\ net' = [j \in Slots |-> net'[j]]
        /\ \A j \in Slots : net'[j] = Idle \/ net'[j] = Orphaned(p)[j]
    BY <2>1 DEF Orphaned, Slots
  <2>3. ASSUME NEW j \in Slots
        PROVE  \/ net'[j] = Idle
               \/ /\ net'[j] = net[j]
                  /\ net[j].page # 0 => pages'[net[j].page].open = pages[net[j].page].open
               \/ RequestOK(net'[j], rows, deleted, postedPaused, txs) /\ net'[j].page = 0
    <3>1. net[j] = Idle \/ RequestOK(net[j], rows, deleted, postedPaused, txs)
      BY <1>2 DEF NetOK
    <3>2. CASE net[j] = Idle
      BY <2>2, <3>2 DEF Orphaned, Slots
    <3>3. CASE RequestOK(net[j], rows, deleted, postedPaused, txs)
      <4>1. net[j].page \in Pages \union {0}
        BY <3>3 DEF RequestOK
      <4> QED
        BY <1>1, <1>5, <2>2, <4>1, OrphanStep
    <3> QED
      BY <3>1, <3>2, <3>3
  <2>4. NetOK(net', rows, deleted, postedPaused, txs, pages')
    BY <1>2, <1>6, <2>2, <2>3, NetKept
  <2> QED
    BY <1>1, <1>5, <2>4, TabStep DEF PublishingInv
<1>8. CASE ~ (g.view = "list" /\ r.kind = "delete")
  <2>1. /\ net' = [net EXCEPT ![k] = Idle]
        /\ g.open = pages[p].open
    BY <1>3, <1>5, <1>8 DEF Deliver, ListView
  <2>2. /\ net' = [j \in Slots |-> net'[j]]
        /\ \A j \in Slots : net'[j] = Idle \/ net'[j] = net[j]
    BY <1>2, <2>1 DEF NetOK
  <2>3. ASSUME NEW j \in Slots, net[j] # Idle, net[j].page # 0
        PROVE  pages'[net[j].page].open = pages[net[j].page].open
    <3>1. net[j].page \in Pages
      BY <1>2, <2>3 DEF NetOK, RequestOK
    <3> QED
      BY <1>5, <2>1, <3>1
  <2>4. NetOK(net', rows, deleted, postedPaused, txs, pages')
    BY <1>2, <1>6, <2>2, <2>3, NetKept
  <2> QED
    BY <1>1, <1>5, <2>4, TabStep DEF PublishingInv
<1> QED
  BY <1>7, <1>8

LEMMA StepDisconnect ==
    ASSUME PublishingInv, NEW k \in Slots, Disconnect(k) PROVE PublishingInv'
<1> DEFINE r == net[k]
           p == net[k].page
           lost == [net[k] EXCEPT !.phase = "failed"]
           g == Handled(pages[p], lost)
<1>1. /\ RequestOK(r, rows, deleted, postedPaused, txs) /\ r # Idle /\ p \in Pages /\ p # 0
      /\ UNCHANGED <<server, txs, prompts>>
  <2>1. RequestOK(r, rows, deleted, postedPaused, txs)
    BY InFlight DEF Disconnect
  <2> QED
    BY <2>1 DEF RequestOK, Disconnect
<1>2. /\ NetOK(net, rows, deleted, postedPaused, txs, pages) /\ PageOK(pages[p], rows, deleted, txs)
      /\ Heard(r, pages[p])
  BY <1>1 DEF PublishingInv, NetOK, PagesOK
<1>3. lost.phase = "failed" /\ lost.kind = r.kind /\ lost.id = r.id
  BY <1>1 DEF RequestOK, IsRequest
<1> HIDE DEF lost
<1>4. PageOK(g, rows, deleted, txs) /\ g.open = pages[p].open
  <2>1. Heard(lost, pages[p])
    BY <1>2, <1>3 DEF Heard
  <2> QED
    BY <1>2, <1>3, <2>1, HandledOK
<1> HIDE DEF g
<1>5. pages' = [pages EXCEPT ![p] = g]
  <2>1. p \in DOMAIN pages
    BY <1>1 DEF PublishingInv, PagesOK
  <2> QED
    BY <2>1 DEF Disconnect, g, lost
<1>6. /\ PagesOK(pages', rows, deleted, txs) /\ pages'[p] = g
      /\ \A q \in Pages \ {p} : pages'[q] = pages[q]
  BY <1>1, <1>4, <1>5, OnePage
<1> DEFINE s == [r EXCEPT !.page = 0]
<1>7. /\ r.phase \in {"sent", "checked"} => RequestOK(s, rows, deleted, postedPaused, txs)
      /\ s.page = 0
  <2>1. /\ IsRequest(s) /\ s.page = 0
        /\ s.kind = r.kind /\ s.phase = r.phase /\ s.id = r.id
        /\ s.body = r.body /\ s.row = r.row
    BY <1>1 DEF RequestOK, IsRequest
  <2> QED
    BY <1>1, <2>1 DEF RequestOK
<1>8. /\ net' = [j \in Slots |-> net'[j]]
      /\ \A j \in Slots \ {k} : net'[j] = net[j]
      /\ \/ net'[k] = Idle
         \/ net'[k] = s /\ r.phase \in {"sent", "checked"}
  <2>1. \/ net' = [net EXCEPT ![k] = s] /\ r.phase \in {"sent", "checked"}
        \/ net' = [net EXCEPT ![k] = Idle]
    BY DEF Disconnect
  <2> HIDE DEF s
  <2> QED
    BY <1>2, <2>1 DEF NetOK
<1> HIDE DEF s
<1>9. ASSUME NEW j \in Slots, net[j] # Idle, net[j].page # 0
      PROVE  pages'[net[j].page].open = pages[net[j].page].open
  <2>1. net[j].page \in Pages
    BY <1>2, <1>9 DEF NetOK, RequestOK
  <2> QED
    BY <1>4, <1>6, <2>1
<1>10. ASSUME NEW j \in Slots
       PROVE  \/ net'[j] = Idle
              \/ /\ net'[j] = net[j]
                 /\ net[j].page # 0 => pages'[net[j].page].open = pages[net[j].page].open
              \/ RequestOK(net'[j], rows, deleted, postedPaused, txs) /\ net'[j].page = 0
  BY <1>7, <1>8, <1>9
<1>11. NetOK(net', rows, deleted, postedPaused, txs, pages')
  BY <1>2, <1>8, <1>10, GrowsNot, NetKept
<1> QED
  BY <1>1, <1>6, <1>11, TabStep DEF PublishingInv

\* A tab that leaves what it shows: nobody hears its requests any more.
LEMMA LeaveStep ==
    ASSUME PublishingInv, NEW p \in Pages, NEW g, NEW N,
           pages' = [pages EXCEPT ![p] = g], PageOK(g, rows, deleted, txs),
           N = [k \in Slots |-> N[k]],
           \A k \in Slots :
             \/ N[k] = Orphaned(p)[k]
             \/ RequestOK(N[k], rows, deleted, postedPaused, txs) /\ N[k].page = p /\ Heard(N[k], g)
    PROVE  /\ NetOK(N, rows, deleted, postedPaused, txs, pages')
           /\ PagesOK(pages', rows, deleted, txs)
<1>1. /\ PagesOK(pages', rows, deleted, txs) /\ pages'[p] = g
      /\ \A q \in Pages \ {p} : pages'[q] = pages[q]
  BY OnePage
<1>2. ASSUME NEW k \in Slots
      PROVE  \/ N[k] = Idle
             \/ /\ N[k] = net[k]
                /\ net[k].page # 0 => pages'[net[k].page].open = pages[net[k].page].open
             \/ /\ RequestOK(N[k], rows, deleted, postedPaused, txs)
                /\ N[k].page # 0 => Heard(N[k], pages'[N[k].page])
  <2>1. net[k] = Idle \/ RequestOK(net[k], rows, deleted, postedPaused, txs)
    BY DEF PublishingInv, NetOK
  <2>2. net[k] = Idle \/ net[k].page \in Pages \union {0}
    BY <2>1 DEF RequestOK
  <2>3. CASE N[k] = Orphaned(p)[k]
    <3>1. CASE net[k] = Idle
      BY <2>3, <3>1 DEF Orphaned, Slots
    <3>2. CASE net[k] # Idle
      BY <1>1, <2>2, <2>3, <3>2, OrphanStep
    <3> QED
      BY <3>1, <3>2
  <2>4. CASE RequestOK(N[k], rows, deleted, postedPaused, txs) /\ N[k].page = p /\ Heard(N[k], g)
    BY <1>1, <2>4
  <2> QED
    BY <2>3, <2>4
<1>3. /\ NetOK(net, rows, deleted, postedPaused, txs, pages)
      /\ Grows(rows, deleted, postedPaused, txs, rows, deleted, postedPaused, txs)
  BY GrowsNot DEF PublishingInv
<1>4. NetOK(N, rows, deleted, postedPaused, txs, pages')
  BY ONLY <1>2, <1>3, NetKept, N = [k \in Slots |-> N[k]]
<1> QED
  BY <1>1, <1>4

LEMMA StepOpenDetail ==
    ASSUME PublishingInv, NEW p \in Pages, NEW id \in Proposals, OpenDetail(p, id)
    PROVE  PublishingInv'
<1> DEFINE g == [ListView EXCEPT !.view = "loading", !.open = id]
           r == Request("get", p, id, Idle)
           left == Orphaned(p)
           free == {k \in Slots : left[k] = Idle}
           at == CHOOSE k \in free : \A j \in free : k <= j
<1>1. /\ pages' = [pages EXCEPT ![p] = g]
      /\ net' = [left EXCEPT ![at] = r]
      /\ UNCHANGED <<server, txs, prompts>>
  BY DEF OpenDetail, Slots
<1>2. g = [view |-> "loading", open |-> id, row |-> Absent, chain |-> NoChain]
  <2> DEFINE a == [ListView EXCEPT !.view = "loading"]
             b == [a EXCEPT !.open = id]
  <2>1. a = [view |-> "loading", open |-> 0, row |-> Absent, chain |-> NoChain]
    BY DEF ListView
  <2> HIDE DEF a
  <2>2. b = [view |-> "loading", open |-> id, row |-> Absent, chain |-> NoChain]
    BY <2>1
  <2>3. g = b
    BY DEF a
  <2> HIDE DEF b, g
  <2> QED
    BY <2>2, <2>3
<1> HIDE DEF g
<1>3. PageOK(g, rows, deleted, txs) /\ g.open = id
  BY <1>2 DEF PageOK, IsPage, NoChain
<1>4. RequestOK(r, rows, deleted, postedPaused, txs) /\ r.page = p /\ r.id = id /\ r # Idle
  BY DEF Request, RequestOK, IsRequest, Kinds, OfTheRow, Idle
<1> HIDE DEF r
<1>5. /\ net' = [k \in Slots |-> net'[k]]
      /\ \A k \in Slots : net'[k] = Orphaned(p)[k] \/ net'[k] = r
  BY <1>1 DEF Orphaned, Slots
<1>6. ASSUME NEW k \in Slots
      PROVE  \/ net'[k] = Orphaned(p)[k]
             \/ RequestOK(net'[k], rows, deleted, postedPaused, txs) /\ net'[k].page = p /\ Heard(net'[k], g)
  BY <1>3, <1>4, <1>5 DEF Heard
<1>7. NetOK(net', rows, deleted, postedPaused, txs, pages') /\ PagesOK(pages', rows, deleted, txs)
  <2> HIDE DEF left, free, at
  <2>1. net' = [k \in Slots |-> net'[k]]
    BY <1>5
  <2>2. pages' = [pages EXCEPT ![p] = g]
    BY <1>1
  <2>3. PageOK(g, rows, deleted, txs)
    BY <1>3
  <2> QED
    BY ONLY PublishingInv, p \in Pages, <1>6, <2>1, <2>2, <2>3, LeaveStep
<1> QED
  BY <1>1, <1>7, TabStep DEF PublishingInv

LEMMA StepOpenList ==
    ASSUME PublishingInv, NEW p \in Pages, OpenList(p) PROVE PublishingInv'
<1>1. /\ pages' = [pages EXCEPT ![p] = ListView] /\ net' = Orphaned(p)
      /\ UNCHANGED <<server, txs, prompts>>
  BY DEF OpenList
<1>2. net' = [k \in Slots |-> net'[k]]
  BY <1>1 DEF Orphaned, Slots
<1>3. NetOK(net', rows, deleted, postedPaused, txs, pages') /\ PagesOK(pages', rows, deleted, txs)
  BY <1>1, <1>2, ListViewOK, LeaveStep
<1> QED
  BY <1>1, <1>3, TabStep DEF PublishingInv

\* A request that a tab sends while it stays as it is.
LEMMA AskStep ==
    ASSUME PublishingInv, NEW r, Sends(r),
           Fresh(r, rows, deleted, postedPaused, txs, pages),
           UNCHANGED <<server, txs, prompts, pages>>
    PROVE  PublishingInv'
<1>1. /\ Fresh(r, rows', deleted', postedPaused', txs', pages')
      /\ Grows(rows, deleted, postedPaused, txs, rows', deleted', postedPaused', txs')
  BY GrowsNot DEF server
<1>2. NetOK(net', rows', deleted', postedPaused', txs', pages')
  BY <1>1, SendStep
<1> QED
  BY <1>2, TabStep DEF PublishingInv, server

LEMMA StepSubmitProposal ==
    ASSUME PublishingInv, NEW p \in Pages, NEW t \in Tickers, NEW w \in BOOLEAN,
           NEW s \in RequestedStatuses, NEW i \in RequestedTxs,
           SubmitProposal(p, t, w, s, i)
    PROVE  PublishingInv'
<1> DEFINE r == Request("create", p, 0,
                        [ticker |-> t, weighted |-> w, status |-> s, tx |-> i])
<1>1. Fresh(r, rows, deleted, postedPaused, txs, pages)
  BY PublishingAssumption DEF Fresh, Request, RequestOK, IsRequest, Kinds, OfTheRow, Heard
<1>2. Sends(r) /\ UNCHANGED <<server, txs, prompts, pages>>
  BY DEF SubmitProposal
<1> QED
  BY <1>1, <1>2, AskStep

LEMMA StepDeleteRow ==
    ASSUME PublishingInv, NEW p \in Pages, NEW id \in Proposals, DeleteRow(p, id)
    PROVE  PublishingInv'
<1> DEFINE r == Request("deleteRow", p, id, Idle)
<1>1. Fresh(r, rows, deleted, postedPaused, txs, pages)
  BY DEF Fresh, Request, RequestOK, IsRequest, Kinds, OfTheRow, Heard
<1>2. Sends(r) /\ UNCHANGED <<server, txs, prompts, pages>>
  BY DEF DeleteRow
<1> QED
  BY <1>1, <1>2, AskStep

LEMMA StepDeleteProposal ==
    ASSUME PublishingInv, NEW p \in Pages, DeleteProposal(p) PROVE PublishingInv'
<1> DEFINE r == Request("delete", p, pages[p].open, Idle)
<1>1. Sends(r) /\ UNCHANGED <<server, txs, prompts, pages>> /\ pages[p].view = "shown"
  BY DEF DeleteProposal
<1>2. pages[p].open \in Proposals
  BY <1>1, OpenTab
<1>3. Fresh(r, rows, deleted, postedPaused, txs, pages)
  BY <1>2 DEF Fresh, Request, RequestOK, IsRequest, Kinds, OfTheRow, Heard
<1> QED
  BY <1>1, <1>3, AskStep

LEMMA StepTransition ==
    ASSUME PublishingInv, NEW p \in Pages, NEW to \in Statuses, Transition(p, to)
    PROVE  PublishingInv'
<1> DEFINE r == Request("transition", p, pages[p].open, [status |-> to, tx |-> 0])
<1>1. /\ Sends(r) /\ UNCHANGED <<server, txs, prompts, pages>>
      /\ pages[p].view = "shown" /\ to \in NEXT_STATES[pages[p].row.status]
  BY DEF Transition
<1>2. pages[p].open \in Proposals /\ pages[p].row.status \in Statuses
  BY <1>1, OpenTab, RowFacts
<1>3. to \in Statuses \ {"published"}
  BY <1>1, <1>2 DEF NEXT_STATES, Statuses
<1>4. Fresh(r, rows, deleted, postedPaused, txs, pages)
  BY <1>2, <1>3 DEF Fresh, Request, RequestOK, IsRequest, Kinds, OfTheRow, Heard
<1> QED
  BY <1>1, <1>4, AskStep

------------------------------------------------------------------------------
(* The wallet and the chain                                                   *)

\* What a step of a wallet window or of the chain leaves to show.
LEMMA ChainStep ==
    ASSUME PublishingInv, UNCHANGED <<server, net>>,
           Grows(rows, deleted, postedPaused, txs, rows', deleted', postedPaused', txs'),
           TxsOK(rows', deleted', txs'),
           pages' = [p \in Pages |-> pages'[p]],
           \A p \in Pages :
             /\ pages'[p].open = pages[p].open
             /\ pages'[p] = pages[p] \/ PageOK(pages'[p], rows', deleted', txs'),
           \A w \in prompts' : w \in prompts \/ PromptOK(w, rows', deleted')
    PROVE  PublishingInv'
<1>1. RowsOK(rows', deleted', postedPaused', txs')
  BY DEF PublishingInv, RowsOK, Backs, Grows, server
<1>2. PagesOK(pages', rows', deleted', txs')
  BY PagesKept DEF PublishingInv
<1>3. NetOK(net', rows', deleted', postedPaused', txs', pages')
  <2>1. NetOK(net, rows, deleted, postedPaused, txs, pages) /\ net' = net
    BY DEF PublishingInv
  <2>2. ASSUME NEW k \in Slots, net[k] # Idle, net[k].page # 0
        PROVE  pages'[net[k].page].open = pages[net[k].page].open
    <3>1. net[k].page \in Pages
      BY <2>1, <2>2 DEF NetOK, RequestOK
    <3> QED
      BY <3>1
  <2>3. net' = [k \in Slots |-> net'[k]]
    BY <2>1 DEF NetOK
  <2>4. ASSUME NEW k \in Slots
        PROVE  \/ net'[k] = Idle
               \/ /\ net'[k] = net[k]
                  /\ net[k].page # 0 => pages'[net[k].page].open = pages[net[k].page].open
    BY <2>1, <2>2
  <2> QED
    BY ONLY <2>1, <2>3, <2>4, NetKept, Grows(rows, deleted, postedPaused, txs, rows', deleted', postedPaused', txs')
<1>4. \A w \in prompts' : PromptOK(w, rows', deleted')
  BY PromptKept DEF PublishingInv
<1> QED
  BY <1>1, <1>2, <1>3, <1>4 DEF PublishingInv

\* A tab whose transaction gets another phase.
LEMMA ChainSet ==
    ASSUME PublishingInv, NEW p \in Pages, NEW c,
           c = [phase |-> c.phase, tx |-> c.tx],
           pages' = [pages EXCEPT ![p].chain = c],
           Grows(rows, deleted, postedPaused, txs, rows', deleted', postedPaused', txs'),
           c.phase = "confirming" =>
             /\ pages[p].open \in Proposals /\ c.tx \in 1..Len(txs')
             /\ txs'[c.tx].id = pages[p].open
    PROVE  /\ pages' = [q \in Pages |-> pages'[q]]
           /\ \A q \in Pages :
                /\ pages'[q].open = pages[q].open
                /\ pages'[q] = pages[q] \/ PageOK(pages'[q], rows', deleted', txs')
<1> DEFINE g == [pages[p] EXCEPT !.chain = c]
<1>1. pages = [q \in Pages |-> pages[q]] /\ PageOK(pages[p], rows, deleted, txs)
  BY DEF PublishingInv, PagesOK
<1>2. PageOK(pages[p], rows', deleted', txs')
  BY <1>1, PageKept
<1>3. g = [view |-> pages[p].view, open |-> pages[p].open, row |-> pages[p].row,
           chain |-> c]
  BY <1>1 DEF PageOK, IsPage
<1>4. pages' = [pages EXCEPT ![p] = g]
  OBVIOUS
<1> HIDE DEF g
<1>5. PageOK(g, rows', deleted', txs') /\ g.open = pages[p].open
  BY <1>2, <1>3 DEF PageOK, IsPage
<1> QED
  BY <1>1, <1>4, <1>5

LEMMA StepPublish ==
    ASSUME PublishingInv, NEW p \in Pages, Publish(p) PROVE PublishingInv'
<1> DEFINE c == [phase |-> "signing", tx |-> 0]
           w == [page |-> p, id |-> pages[p].open, ticker |-> pages[p].row.ticker]
<1>1. /\ pages' = [pages EXCEPT ![p].chain = c] /\ prompts' = prompts \union {w}
      /\ UNCHANGED <<server, txs, net>> /\ pages[p].view = "shown"
  BY DEF Publish
<1>2. /\ Grows(rows, deleted, postedPaused, txs, rows', deleted', postedPaused', txs')
      /\ TxsOK(rows', deleted', txs')
  BY <1>1, ServerIdle
<1>3. PromptOK(w, rows', deleted')
  BY <1>1, OpenTab, RowFacts DEF PromptOK, server
<1>4. /\ pages' = [q \in Pages |-> pages'[q]]
      /\ \A q \in Pages :
           /\ pages'[q].open = pages[q].open
           /\ pages'[q] = pages[q] \/ PageOK(pages'[q], rows', deleted', txs')
  <2>1. c = [phase |-> c.phase, tx |-> c.tx] /\ c.phase # "confirming"
    OBVIOUS
  <2> HIDE DEF c
  <2> QED
    BY <1>1, <1>2, <2>1, ChainSet
<1> QED
  BY <1>1, <1>2, <1>3, <1>4, ChainStep

LEMMA StepPublishFails ==
    ASSUME PublishingInv, NEW p \in Pages, PublishFails(p) PROVE PublishingInv'
<1> DEFINE c == [pages[p].chain EXCEPT !.phase = "failed"]
<1>1. pages' = [pages EXCEPT ![p].chain = c] /\ UNCHANGED <<server, txs, prompts, net>>
  BY DEF PublishFails
<1>2. /\ Grows(rows, deleted, postedPaused, txs, rows', deleted', postedPaused', txs')
      /\ TxsOK(rows', deleted', txs')
  BY <1>1, ServerIdle
<1>3. c = [phase |-> c.phase, tx |-> c.tx] /\ c.phase # "confirming"
  <2>1. IsPage(pages[p])
    BY OpenTab
  <2> QED
    BY <2>1 DEF IsPage
<1> HIDE DEF c
<1>4. /\ pages' = [q \in Pages |-> pages'[q]]
      /\ \A q \in Pages :
           /\ pages'[q].open = pages[q].open
           /\ pages'[q] = pages[q] \/ PageOK(pages'[q], rows', deleted', txs')
  BY <1>1, <1>2, <1>3, ChainSet
<1> QED
  BY <1>1, <1>2, <1>4, ChainStep

\* A transaction that is sent.
LEMMA TxSent ==
    ASSUME PublishingInv, NEW t, t \in TxSet, txs' = Append(txs, t), UNCHANGED server,
           t.id # 0 => Names(rows, deleted, t.id, t.ticker),
           t.state \in Registering => ~ Registered(t.ticker)
    PROVE  /\ Grows(rows, deleted, postedPaused, txs, rows', deleted', postedPaused', txs')
           /\ TxsOK(rows', deleted', txs')
<1>1. /\ txs \in Seq(TxSet) /\ txs' \in Seq(TxSet) /\ Len(txs') = Len(txs) + 1
      /\ txs'[Len(txs) + 1] = t
      /\ \A i \in 1..Len(txs) : txs'[i] = txs[i] /\ i \in 1..Len(txs')
      /\ Len(txs) \in Nat
  BY DEF PublishingInv, TxsOK
<1>2. Grows(rows, deleted, postedPaused, txs, rows', deleted', postedPaused', txs')
  BY <1>1 DEF Grows, PublishedOnce, Backs, server
<1>3. \A i \in 1..Len(txs') : i = Len(txs) + 1 \/ i \in 1..Len(txs)
  BY <1>1
<1>4. \A i \in 1..Len(txs') : txs'[i].id # 0 => Names(rows', deleted', txs'[i].id, txs'[i].ticker)
  BY <1>1, <1>3 DEF PublishingInv, TxsOK, server
<1>5. ASSUME NEW i \in 1..Len(txs'), NEW j \in 1..Len(txs'),
             txs'[i].state \in Registering, txs'[j].state \in Registering,
             txs'[i].ticker = txs'[j].ticker
      PROVE  i = j
  BY <1>1, <1>3, <1>5 DEF PublishingInv, TxsOK, Registered
<1> QED
  BY <1>1, <1>2, <1>4, <1>5 DEF TxsOK

LEMMA StepRegisteredElsewhere ==
    ASSUME PublishingInv, NEW t \in Tickers, RegisteredElsewhere(t)
    PROVE  PublishingInv'
<1> DEFINE tx == [ticker |-> t, id |-> 0, state |-> "success"]
<1>1. /\ txs' = Append(txs, tx) /\ UNCHANGED <<server, prompts, pages, net>>
      /\ ~ Registered(t)
  BY DEF RegisteredElsewhere
<1>2. tx \in TxSet /\ tx.id = 0 /\ tx.ticker = t
  BY DEF TxSet, Receipted, Registering
<1> HIDE DEF tx
<1>3. /\ Grows(rows, deleted, postedPaused, txs, rows', deleted', postedPaused', txs')
      /\ TxsOK(rows', deleted', txs')
  BY <1>1, <1>2, TxSent
<1>4. pages = [p \in Pages |-> pages[p]]
  BY DEF PublishingInv, PagesOK
<1> QED
  BY <1>1, <1>3, <1>4, ChainStep

\* A pending transaction gets its outcome, by itself or through what replaced it.
LEMMA OutcomeStep ==
    ASSUME PublishingInv, NEW i \in 1..Len(txs), txs[i].state = "pending",
           NEW st \in Receipted \union {"reverted"},
           st \in Registering => ~ Registered(txs[i].ticker),
           txs' = [txs EXCEPT ![i].state = st],
           UNCHANGED <<server, prompts, pages, net>>
    PROVE  PublishingInv'
<1> DEFINE c == [txs[i] EXCEPT !.state = st]
<1>1. txs \in Seq(TxSet) /\ txs[i] \in TxSet
  BY DEF PublishingInv, TxsOK
<1>2. txs' = [txs EXCEPT ![i] = c]
  OBVIOUS
<1>3. "pending" \notin Receipted
  BY DEF Receipted, Registering
<1>4. c \in TxSet /\ c.state = st /\ c.ticker = txs[i].ticker /\ c.id = txs[i].id
  BY <1>1, <1>3 DEF TxSet
<1> HIDE DEF c
<1>5. /\ txs' \in Seq(TxSet) /\ Len(txs') = Len(txs) /\ txs'[i] = c
      /\ \A j \in 1..Len(txs) \ {i} : txs'[j] = txs[j]
  BY <1>1, <1>2, <1>4
<1>6. Grows(rows, deleted, postedPaused, txs, rows', deleted', postedPaused', txs')
  BY <1>3, <1>4, <1>5 DEF Grows, PublishedOnce, Backs, server
<1>7. \A j \in 1..Len(txs') : txs'[j].id # 0 => Names(rows', deleted', txs'[j].id, txs'[j].ticker)
  BY <1>1, <1>4, <1>5 DEF PublishingInv, TxsOK, server
<1>8. ASSUME NEW j \in 1..Len(txs'), NEW k \in 1..Len(txs'),
             txs'[j].state \in Registering, txs'[k].state \in Registering,
             txs'[j].ticker = txs'[k].ticker
      PROVE  j = k
  BY <1>1, <1>3, <1>4, <1>5, <1>8 DEF PublishingInv, TxsOK, Registered
<1>9. TxsOK(rows', deleted', txs')
  BY <1>5, <1>7, <1>8 DEF TxsOK
<1>10. pages = [p \in Pages |-> pages[p]]
  BY DEF PublishingInv, PagesOK
<1> QED
  BY <1>1, <1>6, <1>9, <1>10, ChainStep

LEMMA StepMine ==
    ASSUME PublishingInv, NEW i, Mine(i) PROVE PublishingInv'
<1> DEFINE st == IF Registered(txs[i].ticker) THEN "reverted" ELSE "success"
<1>1. /\ i \in 1..Len(txs) /\ txs[i].state = "pending"
      /\ txs' = [txs EXCEPT ![i].state = st]
      /\ UNCHANGED <<server, prompts, pages, net>>
  BY DEF Mine
<1>2. /\ st \in Receipted \union {"reverted"}
      /\ st \in Registering => ~ Registered(txs[i].ticker)
  BY DEF Receipted, Registering
<1> HIDE DEF st
<1> QED
  BY <1>1, <1>2, OutcomeStep

LEMMA StepMineReplacement ==
    ASSUME PublishingInv, NEW i, NEW state \in {"repriced", "replaced"},
           MineReplacement(i, state)
    PROVE  PublishingInv'
<1> DEFINE st == IF state = "repriced" /\ Registered(txs[i].ticker)
                 THEN "reverted" ELSE state
<1>1. /\ i \in 1..Len(txs) /\ txs[i].state = "pending"
      /\ txs' = [txs EXCEPT ![i].state = st]
      /\ UNCHANGED <<server, prompts, pages, net>>
  BY DEF MineReplacement
<1>2. /\ st \in Receipted \union {"reverted"}
      /\ st \in Registering => ~ Registered(txs[i].ticker)
  BY DEF Receipted, Registering
<1> HIDE DEF st
<1> QED
  BY <1>1, <1>2, OutcomeStep

LEMMA StepWalletAccepts ==
    ASSUME PublishingInv, NEW w, WalletAccepts(w) PROVE PublishingInv'
<1> DEFINE tx == [ticker |-> w.ticker, id |-> w.id, state |-> "pending"]
           c == [phase |-> "confirming", tx |-> Len(txs) + 1]
<1>1. /\ w \in prompts /\ prompts' = prompts \ {w} /\ txs' = Append(txs, tx)
      /\ UNCHANGED <<server, net>>
      /\ pages' = IF Listening(w) THEN [pages EXCEPT ![w.page].chain = c] ELSE pages
  BY DEF WalletAccepts
<1>2. PromptOK(w, rows, deleted) /\ txs \in Seq(TxSet)
  BY <1>1 DEF PublishingInv, TxsOK
<1>3. /\ tx \in TxSet /\ tx.id = w.id /\ tx.ticker = w.ticker
      /\ tx.state \notin Registering
  BY <1>2 DEF TxSet, PromptOK, Receipted, Registering
<1> HIDE DEF tx
<1>4. /\ Grows(rows, deleted, postedPaused, txs, rows', deleted', postedPaused', txs')
      /\ TxsOK(rows', deleted', txs')
  BY <1>1, <1>2, <1>3, TxSent DEF PromptOK
<1>5. c = [phase |-> c.phase, tx |-> c.tx] /\ c.tx \in 1..Len(txs') /\ txs'[c.tx].id = w.id
  BY <1>1, <1>2, <1>3
<1> HIDE DEF c
<1>6. /\ pages' = [q \in Pages |-> pages'[q]]
      /\ \A q \in Pages :
           /\ pages'[q].open = pages[q].open
           /\ pages'[q] = pages[q] \/ PageOK(pages'[q], rows', deleted', txs')
  <2>1. CASE Listening(w)
    <3>1. /\ w.page \in Pages /\ pages[w.page].open = w.id /\ w.id \in Proposals
          /\ pages' = [pages EXCEPT ![w.page].chain = c]
      BY <1>1, <1>2, <2>1 DEF PromptOK, Listening
    <3> QED
      BY <1>4, <1>5, <3>1, ChainSet
  <2>2. CASE ~ Listening(w)
    BY <1>1, <2>2 DEF PublishingInv, PagesOK
  <2> QED
    BY <2>1, <2>2
<1> QED
  BY <1>1, <1>4, <1>6, ChainStep

LEMMA StepWalletRefuses ==
    ASSUME PublishingInv, NEW w, WalletRefuses(w) PROVE PublishingInv'
<1> DEFINE c == [phase |-> "failed", tx |-> 0]
<1>1. /\ w \in prompts /\ prompts' = prompts \ {w} /\ UNCHANGED <<server, txs, net>>
      /\ pages' = IF Listening(w) THEN [pages EXCEPT ![w.page].chain = c] ELSE pages
  BY DEF WalletRefuses
<1>2. w.page \in Pages
  BY <1>1 DEF PublishingInv, PromptOK
<1>3. /\ Grows(rows, deleted, postedPaused, txs, rows', deleted', postedPaused', txs')
      /\ TxsOK(rows', deleted', txs')
  BY <1>1, ServerIdle
<1>4. c = [phase |-> c.phase, tx |-> c.tx] /\ c.phase # "confirming"
  OBVIOUS
<1> HIDE DEF c
<1>5. /\ pages' = [q \in Pages |-> pages'[q]]
      /\ \A q \in Pages :
           /\ pages'[q].open = pages[q].open
           /\ pages'[q] = pages[q] \/ PageOK(pages'[q], rows', deleted', txs')
  <2>1. CASE Listening(w)
    BY <1>1, <1>2, <1>3, <1>4, <2>1, ChainSet
  <2>2. CASE ~ Listening(w)
    BY <1>1, <2>2 DEF PublishingInv, PagesOK
  <2> QED
    BY <2>1, <2>2
<1> QED
  BY <1>1, <1>3, <1>5, ChainStep

LEMMA StepConfirm ==
    ASSUME PublishingInv, NEW p \in Pages, Confirm(p) PROVE PublishingInv'
<1> DEFINE c == [pages[p].chain EXCEPT !.phase = "confirmed"]
           i == pages[p].chain.tx
           r == Request("publish", p, pages[p].open, [status |-> "published", tx |-> i])
<1>1. /\ pages' = [pages EXCEPT ![p].chain = c] /\ Sends(r)
      /\ UNCHANGED <<server, txs, prompts>>
      /\ pages[p].chain.phase = "confirming" /\ txs[i].state \in Receipted
  BY DEF Confirm, Confirmed
<1>2. pages[p].open \in Proposals /\ Backs(txs, i, pages[p].open)
  BY <1>1 DEF PublishingInv, PagesOK, PageOK, Backs
<1>3. c = [phase |-> c.phase, tx |-> c.tx] /\ c.phase # "confirming"
  <2>1. IsPage(pages[p])
    BY OpenTab
  <2> QED
    BY <2>1 DEF IsPage
<1> HIDE DEF c
<1>4. /\ Grows(rows, deleted, postedPaused, txs, rows', deleted', postedPaused', txs')
      /\ RowsOK(rows', deleted', postedPaused', txs') /\ TxsOK(rows', deleted', txs')
  BY <1>1, ServerIdle
<1>5. /\ pages' = [q \in Pages |-> pages'[q]]
      /\ \A q \in Pages :
           /\ pages'[q].open = pages[q].open
           /\ pages'[q] = pages[q] \/ PageOK(pages'[q], rows', deleted', txs')
  BY <1>1, <1>3, <1>4, ChainSet
<1>6. Fresh(r, rows', deleted', postedPaused', txs', pages')
  <2>1. Fresh(r, rows, deleted, postedPaused, txs, pages)
    BY <1>2 DEF Fresh, Request, RequestOK, IsRequest, Kinds, OfTheRow, Heard
  <2>2. r.page = p /\ Heard(r, pages'[p])
    BY <1>5, <2>1 DEF Heard, Fresh, Request
  <2> HIDE DEF r
  <2> QED
    BY <1>1, <2>1, <2>2 DEF Fresh, server
<1> HIDE DEF r, i
<1>7. NetOK(net', rows', deleted', postedPaused', txs', pages')
  BY <1>1, <1>4, <1>5, <1>6, SendStep
<1>8. PagesOK(pages', rows', deleted', txs')
  BY <1>4, <1>5, PagesKept DEF PublishingInv
<1> QED
  BY <1>1, <1>7, <1>8, TabStep DEF PublishingInv, server

------------------------------------------------------------------------------
(* The invariant and what follows from it                                     *)

LEMMA InvInit == PublishingInit => PublishingInv
<1> SUFFICES ASSUME PublishingInit PROVE PublishingInv
  OBVIOUS
<1>1. PICK o \in Openings : rows = o.rows /\ txs = o.txs
  BY DEF PublishingInit
<1>2. Consistent(rows, txs) /\ deleted = {}
  BY <1>1, PublishingAssumption DEF PublishingInit
<1>3. rows \in [Proposals -> RowSet] /\ txs \in Seq(TxSet)
  BY <1>2 DEF Consistent
<1>4. RowsOK(rows, deleted, postedPaused, txs)
  BY <1>2, <1>3 DEF Consistent, RowsOK, Backs
<1>5. \A i \in 1..Len(txs) : txs[i].id # 0 => Names(rows, deleted, txs[i].id, txs[i].ticker)
  BY <1>2, <1>3 DEF Consistent, Names, Absent
<1>6. TxsOK(rows, deleted, txs)
  BY <1>2, <1>3, <1>5 DEF Consistent, TxsOK
<1>7. NetOK(net, rows, deleted, postedPaused, txs, pages)
  BY DEF PublishingInit, NetOK, Slots
<1>8. PagesOK(pages, rows, deleted, txs)
  BY ListViewOK DEF PublishingInit, PagesOK
<1> QED
  BY <1>4, <1>6, <1>7, <1>8 DEF PublishingInv, PublishingInit

LEMMA InvStutter ==
    ASSUME PublishingInv, UNCHANGED vars PROVE PublishingInv'
BY DEF PublishingInv, vars

LEMMA InvStep == PublishingInv /\ [PublishingNext]_vars => PublishingInv'
<1> SUFFICES ASSUME PublishingInv, [PublishingNext]_vars PROVE PublishingInv'
  OBVIOUS
<1>1. ASSUME NEW k \in Slots,
             \/ ServeGet(k) \/ ServeCreate(k) \/ CheckPatch(k) \/ WritePatch(k)
             \/ ServeDelete(k) \/ Deliver(k) \/ Disconnect(k)
      PROVE  PublishingInv'
  BY <1>1, StepServeGet, StepServeCreate, StepCheckPatch, StepWritePatch,
     StepServeDelete, StepDeliver, StepDisconnect
<1>2. ASSUME NEW p \in Pages,
             \/ \E id \in Proposals : OpenDetail(p, id) \/ DeleteRow(p, id)
             \/ OpenList(p) \/ DeleteProposal(p) \/ Publish(p)
             \/ \E to \in Statuses : Transition(p, to)
             \/ \E t \in Tickers, w \in BOOLEAN, s \in RequestedStatuses,
                   i \in RequestedTxs : SubmitProposal(p, t, w, s, i)
             \/ Confirm(p) \/ PublishFails(p)
      PROVE  PublishingInv'
  BY <1>2, StepOpenDetail, StepDeleteRow, StepOpenList, StepDeleteProposal,
     StepPublish, StepTransition, StepSubmitProposal, StepConfirm, StepPublishFails
<1>3. ASSUME NEW w, WalletAccepts(w) \/ WalletRefuses(w) PROVE PublishingInv'
  BY <1>3, StepWalletAccepts, StepWalletRefuses
<1>4. ASSUME NEW i, Mine(i) \/ \E st \in {"repriced", "replaced"} : MineReplacement(i, st)
      PROVE  PublishingInv'
  BY <1>4, StepMine, StepMineReplacement
<1>5. ASSUME NEW t \in Tickers, RegisteredElsewhere(t) PROVE PublishingInv'
  BY <1>5, StepRegisteredElsewhere
<1>6. CASE UNCHANGED vars
  BY <1>6, InvStutter
<1> QED
  BY <1>1, <1>2, <1>3, <1>4, <1>5, <1>6 DEF PublishingNext, Slots

LEMMA InvBacks == PublishingInv => PublishedIsRegistered
<1> SUFFICES ASSUME PublishingInv, NEW id \in Proposals, rows[id].status \in OnChain,
                    id \notin postedPaused
             PROVE  /\ rows[id].tx \in 1..Len(txs)
                    /\ txs[rows[id].tx].ticker = rows[id].ticker
                    /\ txs[rows[id].tx].id = id
                    /\ txs[rows[id].tx].state \in Receipted
  BY DEF PublishedIsRegistered
<1> DEFINE i == rows[id].tx
<1>1. rows[id] # Absent /\ id \notin deleted
  BY DEF Absent, OnChain, PublishingInv, RowsOK
<1>2. Backs(txs, i, id) /\ id # 0
  BY PublishingAssumption DEF PublishingInv, RowsOK
<1>3. txs[i].ticker = rows[id].ticker
  BY <1>1, <1>2 DEF PublishingInv, TxsOK, Backs, Names
<1> QED
  BY <1>2, <1>3 DEF Backs

LEMMA InvOnce == PublishingInv => OneProposalPerIndex
<1> SUFFICES ASSUME PublishingInv, NEW a \in Proposals, NEW b \in Proposals,
                    rows[a].status \in OnChain, rows[b].status \in OnChain,
                    rows[a].ticker = rows[b].ticker,
                    ~ Unregistered(a), ~ Unregistered(b)
             PROVE  a = b
  BY DEF OneProposalPerIndex
<1> DEFINE i == rows[a].tx
           j == rows[b].tx
<1>1. /\ i \in 1..Len(txs) /\ txs[i].id = a /\ txs[i].ticker = rows[a].ticker
      /\ txs[i].state \in Registering
      /\ j \in 1..Len(txs) /\ txs[j].id = b /\ txs[j].ticker = rows[b].ticker
      /\ txs[j].state \in Registering
  BY InvBacks DEF PublishedIsRegistered, Unregistered, Receipted
<1> HIDE DEF i, j
<1>2. i = j
  BY <1>1 DEF PublishingInv, TxsOK
<1> QED
  BY <1>1, <1>2

LEMMA InvAlways == PublishingSpec => []PublishingInv
  BY InvInit, InvStep, PTL DEF PublishingSpec

\* For any number of creators, tabs and requests: a proposal the page calls
\* published, live or paused names a transaction sent to register its own ticker
\* that had a successful receipt, its own or that of its replacement, unless the
\* proposal was created as "paused"; whatever the tabs, the wallet and the network
\* raced.
THEOREM PublishedBacked == PublishingSpec => []PublishedIsRegistered
  BY InvAlways, InvBacks, PTL

\* For any number of creators: no two proposals are published as the same index,
\* because the registry accepts a symbol once and a row names only a transaction
\* sent for it; those created as "paused" and those whose transaction the user
\* cancelled are the only exemptions.
THEOREM IndexOnce == PublishingSpec => []OneProposalPerIndex
  BY InvAlways, InvOnce, PTL

\* A deleted proposal is gone for good: a patch that was checked before the
\* deletion and writes after it finds no row.
THEOREM DeletedForGood == PublishingSpec => []DeletedStaysDeleted
<1>1. PublishingInv => DeletedStaysDeleted
  BY DEF PublishingInv, RowsOK, DeletedStaysDeleted
<1> QED
  BY InvAlways, <1>1, PTL

=============================================================================
