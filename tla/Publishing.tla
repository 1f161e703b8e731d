----------------------------- MODULE Publishing -----------------------------
(***************************************************************************)
(* A proposal from draft to published index: app/api/proposals (create,    *)
(* read, patch, delete), the proposal page and list of app/publisher, the  *)
(* PublishActions component with the wallet, and the SSIRegistry contract. *)
(*                                                                         *)
(* Nothing ties these together: the page acts on the row it last received, *)
(* PATCH reads the row, checks the transition and updates by id in a       *)
(* second call, a transaction confirms whether or not a page still waits   *)
(* for it, and an answer that is lost leaves the row as the server wrote   *)
(* it.  Several pages (tabs, devices, visitors) are open at once.          *)
(***************************************************************************)
EXTENDS Integers, Sequences, FiniteSets

CONSTANTS
    Proposals,          \* ids a row of pb_proposals may get
    Tickers,
    Users,              \* wallets that can sign in
    Pages,              \* open browser tabs
    RequestedStatuses,  \* "status" of a POST body; "none" when left out
    RequestedTxs,       \* "on_chain_tx" of a POST body; 0 when left out
    Openings,           \* [rows, txs, session] the tabs find
    MaxInFlight,        \* BOUND: requests open at once
    MaxTxs,             \* BOUND: transactions
    MaxInputs           \* BOUND: clicks

Statuses == {"draft", "review", "signed", "published", "live", "paused", "rejected"}
PUBLIC_STATUSES == {"published", "live"}

STATUS_GRAPH ==
    [draft |-> {"review", "rejected"},
     review |-> {"draft", "signed", "rejected"},
     signed |-> {"published", "rejected"},
     published |-> {"live", "paused", "rejected"},
     live |-> {"paused", "rejected"},
     paused |-> {"live", "rejected"},
     rejected |-> {"draft"}]

\* The buttons of the page.  "Mark published" is hidden: a signed proposal is
\* published by registering the index.
NEXT_STATES ==
    [draft |-> {"review", "rejected"},
     review |-> {"signed", "draft", "rejected"},
     signed |-> {"rejected"},
     published |-> {"live", "paused"},
     live |-> {"paused"},
     paused |-> {"live"},
     rejected |-> {"draft"}]

VARIABLES
    rows,       \* pb_proposals
    deleted,    \* ids whose row was deleted (observed)
    postedPaused, \* rows created as "paused", until a page publishes them (observed)
    txs,        \* registerIndex transactions, in the order they were sent
    prompts,    \* wallet windows that wait for the user
    pages,      \* what each tab shows and waits for
    net,        \* requests in flight
    session,    \* who each tab is signed in as
    inputs      \* clicks so far

server == <<rows, deleted, postedPaused>>
vars == <<rows, deleted, postedPaused, txs, prompts, pages, net, session, inputs>>

Absent == [status |-> "absent"]
Row(creator, ticker, weighted, status, tx) ==
    [creator |-> creator, ticker |-> ticker, weighted |-> weighted,
     status |-> status, tx |-> tx]

Idle == [kind |-> "idle"]
Request(kind, p, id, body) ==
    [kind |-> kind, page |-> p, user |-> session[p], id |-> id, body |-> body,
     phase |-> "sent", base |-> "none", row |-> Absent]

RowSet == {Absent} \union
    [creator : Users, ticker : Tickers, weighted : BOOLEAN, status : Statuses, tx : Nat]

\* What a sent transaction became.  The wallet may replace a pending one under
\* its nonce: "repriced", the same call for a higher fee, or "replaced", another
\* transaction (a cancellation).  Its own hash is then never mined.
Registering == {"success", "repriced"}
Receipted == Registering \union {"replaced"}
TxSet == [ticker : Tickers, id : Proposals \union {0},
          state : Receipted \union {"pending", "reverted"}]

OnChain == {"published", "live", "paused"}

\* An opening a history of clicks could have left: registered once per symbol,
\* and a row on chain names a transaction that was sent for it.
Consistent(rs, ts) ==
    /\ rs \in [Proposals -> RowSet] /\ ts \in Seq(TxSet)
    /\ \A i \in 1..Len(ts) : ts[i].id = 0 \/ rs[ts[i].id].status # "absent"
    /\ \A i \in 1..Len(ts) : ts[i].id # 0 => ts[i].ticker = rs[ts[i].id].ticker
    /\ \A i, j \in 1..Len(ts) :
         /\ ts[i].state \in Registering /\ ts[j].state \in Registering
         /\ ts[i].ticker = ts[j].ticker
         => i = j
    /\ \A id \in Proposals :
         rs[id].status \in OnChain =>
           /\ rs[id].tx \in 1..Len(ts)
           /\ ts[rs[id].tx].id = id /\ ts[rs[id].tx].state \in Receipted

ASSUME PublishingAssumption ==
    /\ 0 \notin Proposals /\ 0 \notin Pages
    /\ MaxInFlight \in Nat
    /\ RequestedTxs \subseteq Nat
    /\ \A o \in Openings : Consistent(o.rows, o.txs)

NoChain == [phase |-> "idle", tx |-> 0]
ListView == [view |-> "list", open |-> 0, row |-> Absent, chain |-> NoChain]

PublishingInit ==
    /\ \E o \in Openings :
         rows = o.rows /\ txs = o.txs /\ session = o.session
    /\ deleted = {} /\ postedPaused = {} /\ prompts = {}
    /\ pages = [p \in Pages |-> ListView]
    /\ net = [k \in 1..MaxInFlight |-> Idle]
    /\ inputs = 0

\* requireUser and demoWriteBlocked
CanWrite(user) == user \in Users
CanRead(user, row) ==
    row # Absent /\ (row.status \in PUBLIC_STATUSES \/ row.creator = user)
Owns(user, row) == CanWrite(user) /\ row # Absent /\ row.creator = user

-----------------------------------------------------------------------------
(* Sending and answering requests *)

FreeSlots == {k \in 1..MaxInFlight : net[k] = Idle}
Sends(r) ==
    /\ FreeSlots # {}
    /\ net' = [net EXCEPT ![CHOOSE k \in FreeSlots :
                              \A j \in FreeSlots : k <= j] = r]

\* A tab that is left or reloaded no longer hears the answers.
Orphaned(p) ==
    [k \in 1..MaxInFlight |->
       IF net[k] = Idle \/ net[k].page # p THEN net[k]
       ELSE IF net[k].phase \in {"ok", "failed"} THEN Idle
       ELSE [net[k] EXCEPT !.page = 0]]

Awaits(p, kinds) ==
    \E k \in 1..MaxInFlight :
      net[k] # Idle /\ net[k].page = p /\ net[k].kind \in kinds

\* The "working" flag: a transition or a deletion is not answered yet.
Working(p) == Awaits(p, {"transition", "delete"})

Answer(k, phase, row) ==
    net' = [net EXCEPT ![k] =
              IF @.page = 0 THEN Idle
              ELSE [@ EXCEPT !.phase = phase, !.row = row]]

Answered(k) == net[k] # Idle /\ net[k].phase \in {"ok", "failed"}

-----------------------------------------------------------------------------
(* The routes *)

\* GET /api/proposals/[id]
ServeGet(k) ==
    /\ net[k] # Idle /\ net[k].kind = "get" /\ net[k].phase = "sent"
    /\ LET row == rows[net[k].id]
       IN  IF CanRead(net[k].user, row) THEN Answer(k, "ok", row)
           ELSE Answer(k, "failed", Absent)
    /\ UNCHANGED <<server, txs, prompts, pages, session, inputs>>

\* A published or live proposal cannot be created: it starts as a draft.
CreatedStatus(requested) ==
    IF requested \in Statuses \ {"published", "live"} THEN requested ELSE "draft"

\* POST /api/proposals.  The form of the page sends neither a status nor a
\* transaction; the route takes both from whoever does.
ServeCreate(k) ==
    /\ net[k] # Idle /\ net[k].kind = "create" /\ net[k].phase = "sent"
    /\ IF CanWrite(net[k].user)
       THEN \E id \in Proposals \ deleted :
              /\ rows[id] = Absent
              /\ rows' = [rows EXCEPT ![id] =
                    Row(net[k].user, net[k].body.ticker, net[k].body.weighted,
                        CreatedStatus(net[k].body.status), net[k].body.tx)]
              /\ postedPaused' = IF CreatedStatus(net[k].body.status) = "paused"
                                 THEN postedPaused \union {id} ELSE postedPaused
              /\ Answer(k, "ok", Absent)
       ELSE Answer(k, "failed", Absent) /\ UNCHANGED <<rows, postedPaused>>
    /\ UNCHANGED <<deleted, txs, prompts, pages, session, inputs>>

\* The patch after validation: a status that does not change is left out.
Allowed(row, body) ==
    \/ body.status \in STATUS_GRAPH[row.status]
    \/ body.status = row.status /\ body.tx # 0

\* PATCH /api/proposals/[id], first call to the database: the row is read,
\* its owner and the transition are checked.
CheckPatch(k) ==
    /\ net[k] # Idle /\ net[k].kind \in {"transition", "publish"}
    /\ net[k].phase = "sent"
    /\ LET row == rows[net[k].id]
       IN  IF Owns(net[k].user, row) /\ Allowed(row, net[k].body)
           THEN net' = [net EXCEPT ![k].phase = "checked",
                                   ![k].base = row.status]
           ELSE Answer(k, "failed", Absent)
    /\ UNCHANGED <<server, txs, prompts, pages, session, inputs>>

Patched(row, base, body) ==
    [row EXCEPT !.status = IF body.status # base THEN body.status ELSE @,
                !.tx = IF body.tx # 0 THEN body.tx ELSE @]

\* (faulty variant) a row that is gone is written again
FoundOrMade(id) ==
    IF rows[id] # Absent THEN rows[id]
    ELSE Row(CHOOSE u \in Users : TRUE, CHOOSE t \in Tickers : TRUE, TRUE, "draft", 0)

\* What update().eq(creator).eq(id) finds.
Found(id) == rows[id]

\* Second call: the row is updated by creator and id, whatever it is now.
WritePatch(k) ==
    /\ net[k] # Idle /\ net[k].phase = "checked"
    /\ LET id == net[k].id
           row == Patched(Found(id), net[k].base, net[k].body)
       IN  IF Found(id) # Absent
           THEN /\ rows' = [rows EXCEPT ![id] = row]
                /\ postedPaused' = IF net[k].kind = "publish"
                                   THEN postedPaused \ {id} ELSE postedPaused
                /\ Answer(k, "ok", row)
           ELSE Answer(k, "failed", Absent) /\ UNCHANGED <<rows, postedPaused>>
    /\ UNCHANGED <<deleted, txs, prompts, pages, session, inputs>>

\* DELETE /api/proposals/[id]
ServeDelete(k) ==
    /\ net[k] # Idle /\ net[k].kind \in {"delete", "deleteRow"}
    /\ net[k].phase = "sent"
    /\ IF Owns(net[k].user, rows[net[k].id])
       THEN /\ rows' = [rows EXCEPT ![net[k].id] = Absent]
            /\ deleted' = deleted \union {net[k].id}
            /\ UNCHANGED postedPaused
            /\ Answer(k, "ok", Absent)
       ELSE Answer(k, "failed", Absent) /\ UNCHANGED server
    /\ UNCHANGED <<txs, prompts, pages, session, inputs>>

-----------------------------------------------------------------------------
(* The page *)

Click == inputs < MaxInputs /\ inputs' = inputs + 1

\* PublishActions is there while the page shows a signed proposal; it loses
\* its transaction when the page shows anything else.
Shows(page, row) ==
    [page EXCEPT !.view = "shown", !.row = row,
                 !.chain = IF page.row.status = "signed" /\ row.status = "signed"
                           THEN @ ELSE NoChain]

\* Open or reload /publisher/proposals/[id].
OpenDetail(p, id) ==
    /\ Click
    /\ pages' = [pages EXCEPT ![p] = [ListView EXCEPT !.view = "loading", !.open = id]]
    /\ LET left == Orphaned(p)
           free == {k \in 1..MaxInFlight : left[k] = Idle}
       IN  /\ free # {}
           /\ net' = [left EXCEPT ![CHOOSE k \in free : \A j \in free : k <= j] =
                        Request("get", p, id, Idle)]
    /\ UNCHANGED <<server, txs, prompts, session>>

OpenList(p) ==
    /\ Click /\ pages[p].view # "list"
    /\ pages' = [pages EXCEPT ![p] = ListView]
    /\ net' = Orphaned(p)
    /\ UNCHANGED <<server, txs, prompts, session>>

\* CreateProposalForm, or a request made by hand with the same session.
SubmitProposal(p, ticker, weighted, status, tx) ==
    /\ Click /\ pages[p].view = "list" /\ ~ Awaits(p, {"create"})
    /\ Sends(Request("create", p, 0,
              [ticker |-> ticker, weighted |-> weighted, status |-> status, tx |-> tx]))
    /\ UNCHANGED <<server, txs, prompts, pages, session>>

\* The list offers each row its own delete button.
DeleteRow(p, id) ==
    /\ Click /\ pages[p].view = "list"
    /\ rows[id] # Absent /\ Owns(session[p], rows[id])
    /\ ~ \E k \in 1..MaxInFlight :
           net[k] # Idle /\ net[k].kind = "deleteRow" /\ net[k].page = p /\ net[k].id = id
    /\ Sends(Request("deleteRow", p, id, Idle))
    /\ UNCHANGED <<server, txs, prompts, pages, session>>

Transition(p, to) ==
    /\ Click /\ pages[p].view = "shown" /\ ~ Working(p)
    /\ to \in NEXT_STATES[pages[p].row.status]
    /\ Sends(Request("transition", p, pages[p].open, [status |-> to, tx |-> 0]))
    /\ UNCHANGED <<server, txs, prompts, pages, session>>

DeleteProposal(p) ==
    /\ Click /\ pages[p].view = "shown" /\ ~ Working(p)
    /\ Sends(Request("delete", p, pages[p].open, Idle))
    /\ UNCHANGED <<server, txs, prompts, pages, session>>

\* The page after the answer to one of its requests.
Handled(page, r) ==
    CASE r.phase = "ok" /\ r.kind \in {"get", "transition", "publish"}
            -> Shows(page, r.row)
      [] r.phase = "failed" /\ r.kind = "get" -> [page EXCEPT !.view = "error"]
      [] r.phase = "ok" /\ r.kind = "delete" -> ListView
      [] OTHER -> page

Deliver(k) ==
    /\ Answered(k)
    /\ LET p == net[k].page
       IN  /\ pages' = [pages EXCEPT ![p] = Handled(@, net[k])]
           /\ net' = IF pages'[p].view = "list" /\ net[k].kind = "delete"
                     THEN [Orphaned(p) EXCEPT ![k] = Idle]
                     ELSE [net EXCEPT ![k] = Idle]
    /\ UNCHANGED <<server, txs, prompts, session, inputs>>

\* The connection breaks: the page sees a failed request, the server may or
\* may not have received it, and goes on with what it has begun.
Disconnect(k) ==
    /\ net[k] # Idle /\ net[k].page # 0
    /\ pages' = [pages EXCEPT ![net[k].page] =
                   Handled(@, [net[k] EXCEPT !.phase = "failed"])]
    /\ \/ net[k].phase \in {"sent", "checked"}
          /\ net' = [net EXCEPT ![k].page = 0]
       \/ net[k].phase # "checked" /\ net' = [net EXCEPT ![k] = Idle]
    /\ UNCHANGED <<server, txs, prompts, session, inputs>>

-----------------------------------------------------------------------------
(* Publishing on chain *)

\* PublishActions.publish: the chain is switched if need be and the wallet
\* asks for a signature.  buildSpec needs weighted constituents.
Publish(p) ==
    /\ Click /\ pages[p].view = "shown" /\ pages[p].row.status = "signed"
    /\ pages[p].row.weighted /\ pages[p].chain.phase \in {"idle", "failed"}
    /\ pages' = [pages EXCEPT ![p].chain = [phase |-> "signing", tx |-> 0]]
    /\ prompts' = prompts \union
          {[page |-> p, id |-> pages[p].open, ticker |-> pages[p].row.ticker]}
    /\ UNCHANGED <<server, txs, net, session>>

\* The component that opened a wallet window may be gone by now.
Listening(w) ==
    pages[w.page].open = w.id /\ pages[w.page].chain.phase = "signing"

WalletAccepts(w) ==
    /\ w \in prompts /\ Len(txs) < MaxTxs
    /\ prompts' = prompts \ {w}
    /\ txs' = Append(txs, [ticker |-> w.ticker, id |-> w.id, state |-> "pending"])
    /\ pages' = IF Listening(w)
                THEN [pages EXCEPT ![w.page].chain =
                        [phase |-> "confirming", tx |-> Len(txs) + 1]]
                ELSE pages
    /\ UNCHANGED <<server, net, session, inputs>>

WalletRefuses(w) ==
    /\ w \in prompts
    /\ prompts' = prompts \ {w}
    /\ pages' = IF Listening(w)
                THEN [pages EXCEPT ![w.page].chain = [phase |-> "failed", tx |-> 0]]
                ELSE pages
    /\ UNCHANGED <<server, txs, net, session, inputs>>

\* (faulty variant) the contract overwrites an index
RegisteredNever(ticker) == FALSE

\* SSIRegistry: an index is registered exactly once, under its symbol.
Registered(ticker) ==
    \E i \in 1..Len(txs) :
      txs[i].state \in Registering /\ txs[i].ticker = ticker

\* SSIRegistry.registerIndex runs.
Mine(i) ==
    /\ i \in 1..Len(txs) /\ txs[i].state = "pending"
    /\ txs' = [txs EXCEPT ![i].state =
                 IF Registered(txs[i].ticker) THEN "reverted" ELSE "success"]
    /\ UNCHANGED <<server, prompts, pages, net, session, inputs>>

\* The user speeds a pending transaction up or puts another one in its place:
\* the replacement runs, the original never does.
MineReplacement(i, state) ==
    /\ i \in 1..Len(txs) /\ txs[i].state = "pending"
    /\ state \in {"repriced", "replaced"}
    /\ txs' = [txs EXCEPT ![i].state =
                 IF state = "repriced" /\ Registered(txs[i].ticker)
                 THEN "reverted" ELSE state]
    /\ UNCHANGED <<server, prompts, pages, net, session, inputs>>

\* Somebody else, or the index builder, registers the symbol.
RegisteredElsewhere(ticker) ==
    /\ Click /\ Len(txs) < MaxTxs /\ ~ Registered(ticker)
    /\ txs' = Append(txs, [ticker |-> ticker, id |-> 0, state |-> "success"])
    /\ UNCHANGED <<server, prompts, pages, net, session>>

\* (faulty variant) any receipt counts
ReceiptIn(i) == txs[i].state # "pending"

\* receipt?.status === "success".  useWaitForTransactionReceipt resolves with the
\* receipt of whatever was mined under the nonce, a replacement included.
Confirmed(i) == txs[i].state \in Receipted

\* The effect of PublishActions fires onPublished, once: the row is patched
\* with the status and the hash that was sent, mined or replaced.
Confirm(p) ==
    /\ pages[p].chain.phase = "confirming" /\ Confirmed(pages[p].chain.tx)
    /\ pages' = [pages EXCEPT ![p].chain.phase = "confirmed"]
    /\ Sends(Request("publish", p, pages[p].open,
              [status |-> "published", tx |-> pages[p].chain.tx]))
    /\ UNCHANGED <<server, txs, prompts, session, inputs>>

\* The transaction reverted, or its receipt could not be fetched: the button
\* is offered again.
PublishFails(p) ==
    /\ pages[p].chain.phase = "confirming"
    /\ pages' = [pages EXCEPT ![p].chain.phase = "failed"]
    /\ UNCHANGED <<server, txs, prompts, net, session, inputs>>

-----------------------------------------------------------------------------

PublishingNext ==
    \/ \E k \in 1..MaxInFlight :
         \/ ServeGet(k) \/ ServeCreate(k) \/ CheckPatch(k) \/ WritePatch(k)
         \/ ServeDelete(k) \/ Deliver(k) \/ Disconnect(k)
    \/ \E p \in Pages :
         \/ \E id \in Proposals : OpenDetail(p, id) \/ DeleteRow(p, id)
         \/ OpenList(p) \/ DeleteProposal(p) \/ Publish(p)
         \/ \E to \in Statuses : Transition(p, to)
         \/ \E t \in Tickers, w \in BOOLEAN, s \in RequestedStatuses, i \in RequestedTxs :
              SubmitProposal(p, t, w, s, i)
         \/ Confirm(p) \/ PublishFails(p)
    \/ \E w \in prompts : WalletAccepts(w) \/ WalletRefuses(w)
    \/ \E i \in 1..MaxTxs :
         Mine(i) \/ \E state \in {"repriced", "replaced"} : MineReplacement(i, state)
    \/ \E t \in Tickers : RegisteredElsewhere(t)

PublishingSpec == PublishingInit /\ [][PublishingNext]_vars

-----------------------------------------------------------------------------
(* Properties *)

\* Whatever the pages raced with each other, with the wallet or with lost
\* answers: a proposal that is published, live or paused names a transaction
\* that was sent to register this proposal under its own ticker, and that is
\* neither pending nor reverted.  Two things go on chain by other means, and are
\* exempt: a transaction the user cancelled in the wallet counts as confirmed,
\* and the route creates a proposal as "paused" for whoever asks.
PublishedIsRegistered ==
    \A id \in Proposals :
      rows[id].status \in OnChain =>
        \/ id \in postedPaused
        \/ /\ rows[id].tx \in 1..Len(txs)
           /\ txs[rows[id].tx].ticker = rows[id].ticker
           /\ txs[rows[id].tx].id = id
           /\ txs[rows[id].tx].state \in Receipted

\* A proposal no registration stands behind: created as "paused", or published
\* by a transaction that the user cancelled.
Unregistered(id) ==
    id \in postedPaused \/ txs[rows[id].tx].state = "replaced"

\* No two proposals are published as the same index: creators who drafted the
\* same ticker and publish at the same time end with one of them on chain, but
\* for the proposals that no registration stands behind.
OneProposalPerIndex ==
    \A a, b \in Proposals :
      /\ rows[a].status \in OnChain /\ rows[b].status \in OnChain
      /\ rows[a].ticker = rows[b].ticker
      /\ ~ Unregistered(a) /\ ~ Unregistered(b)
      => a = b

\* A proposal deleted in one tab stays deleted, with requests of other tabs
\* checked before the deletion and written after it.
DeletedStaysDeleted == \A id \in deleted : rows[id] = Absent

\* "Keeps a draft from jumping straight to "live" without going through
\* review/sign/publish": every change of a status is one the graph allows.
StatusFollowsGraph ==
    [][\A id \in Proposals :
         rows[id] # Absent /\ rows'[id] # Absent
           /\ rows'[id].status # rows[id].status
         => rows'[id].status \in STATUS_GRAPH[rows[id].status]]_vars

=============================================================================
