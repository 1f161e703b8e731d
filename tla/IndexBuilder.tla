---------------------------- MODULE IndexBuilder ----------------------------
(***************************************************************************)
(* The index builder (app/(indexer)/builder/page.tsx) with what it talks   *)
(* to: the drafts routes under /api/builder/drafts, the session behind     *)
(* useSessionGuard, the user's wallet, and the agent's proposals and       *)
(* backtests.                                                              *)
(*                                                                         *)
(* The page is one thread of JavaScript with many requests in flight, none *)
(* of which is ever aborted.  A callback keeps the state of the render it  *)
(* was made in, so what it captured is part of its flow: the request it    *)
(* waits for, and what it does with the answer.                            *)
(*                                                                         *)
(* Sector, size and weighting are one config.  Of a draft only the piece   *)
(* of work it holds is kept; whatever config and extra assets it was saved *)
(* with may come back when it is loaded.  Name, triggers and logos are     *)
(* left out, with the demo mode; the dialog for an extra asset is opened   *)
(* and used in one step, and a sector named in the link is a choice of the *)
(* user's.                                                                 *)
(***************************************************************************)
EXTENDS Naturals, FiniteSets

CONSTANTS
    Wallets,        \* accounts of the user's wallet
    Configs,        \* choices of sector, size and weighting
    Constituents,   \* assets of a proposal the user may remove
    Small,          \* those whose removal moves the total by less than 0.5%
    Extras,         \* assets the user may add
    MaxDrafts,      \* BOUND: ids of drafts
    NumSaved,       \* drafts saved earlier
    NumLegacy,      \* drafts the old page left in localStorage
    MaxFlows,       \* BOUND: draft callbacks in progress at once
    MaxAsked,       \* BOUND: proposals asked and not answered
    MaxClicks       \* BOUND: clicks, wallet actions, other tabs and faults

ASSUME BuilderAssumption ==
    /\ 0 \notin Wallets \union Configs /\ Wallets # {} /\ Configs # {}
    /\ Small \subseteq Constituents
    /\ MaxDrafts \in Nat /\ NumSaved \in 0..MaxDrafts /\ NumLegacy \in Nat
    /\ MaxFlows \in Nat \ {0} /\ MaxAsked \in Nat \ {0} /\ MaxClicks \in Nat

Ids == 1..MaxDrafts
Slots == 1..MaxFlows
None == 0
Own == MaxDrafts + NumLegacy + 1     \* the work begun on this page
LegacyWork(n) == MaxDrafts + n

VARIABLES
    cookie,         \* wallet the server takes the user for, or None
    account,        \* the wallet's account
    session, guard,                 \* useSessionGuard
    rows,           \* bd_drafts: id -> its owner and the work it holds
    config, extraAssets, removedIds, work,                   \* the form
    proposal, loadState, asked,
    simulating, simulateResult,
    deployment, registered,
    drafts, currentDraftId, savingDraft, draftsAuthRequired,
    legacyDrafts, migrating,
    flows,          \* callbacks about drafts in progress
    clicks,
    strays          \* drafts whose id arrived when other work was shown (observed)

identity == <<cookie, account, session, guard>>
form == <<config, extraAssets, removedIds, work>>
basket == <<proposal, loadState, asked, simulating, simulateResult>>
deploys == <<deployment, registered>>
panel == <<drafts, currentDraftId, savingDraft, draftsAuthRequired,
           legacyDrafts, migrating>>
builderVars == <<identity, rows, form, basket, deploys, panel, flows, clicks,
                 strays>>

Unused == [is |-> "unused"]
Gone == [is |-> "gone"]
Row(owner, w) == [is |-> "row", owner |-> owner, work |-> w]

\* A failed sign-in stays an error until the next one is begun.
Loading(error) == [is |-> "loading", error |-> error]
Known(error) == [is |-> "known", error |-> error]
NoSimulation == [is |-> "none"]
NoResult == [is |-> "none"]
NoDrafts == [id \in Ids |-> None]

Idle == [op |-> "idle"]
Waiting == [status |-> "waiting"]
Alone == [status |-> "alone"]        \* the page has given up on the request

\* A callback waiting for a request: what it asks for, of which draft, with
\* which work, and the current draft when it was called.
Flow(op, asks, id, w, home) ==
    [op |-> op, asks |-> asks, id |-> id, work |-> w, home |-> home, ans |-> Waiting]
RefreshDrafts(after) == Flow(after, "list", None, None, None)

\* The page as it is mounted: it asks who is signed in, for a proposal and
\* for the drafts.
BuilderInit ==
    /\ account \in Wallets /\ cookie \in Wallets
    /\ session = None /\ guard = Loading(FALSE)
    /\ rows = [id \in Ids |-> IF id <= NumSaved THEN Row(cookie, id) ELSE Unused]
    /\ config \in Configs /\ extraAssets = {} /\ removedIds = {} /\ work = Own
    /\ proposal = None /\ loadState = "loading"
    /\ asked = [c \in Configs |-> IF c = config THEN 1 ELSE 0]
    /\ simulating = NoSimulation /\ simulateResult = NoResult
    /\ deployment = [phase |-> "idle"] /\ registered = {}
    /\ drafts = NoDrafts /\ currentDraftId = None /\ savingDraft = FALSE
    /\ draftsAuthRequired = FALSE
    /\ legacyDrafts = (NumLegacy > 0) /\ migrating = FALSE
    /\ flows = [i \in Slots |-> IF i = 1 THEN RefreshDrafts("mount") ELSE Idle]
    /\ clicks = 0 /\ strays = {}

\* One more click, act of the wallet or of another tab, or fault.
Click == clicks < MaxClicks /\ clicks' = clicks + 1

-----------------------------------------------------------------------------
(* The wallet, the session and the guard that reconciles them *)

IdentityFrame == UNCHANGED <<rows, form, basket, deploys, panel, flows, strays>>

\* The user selects another account in the wallet.
SwitchAccount ==
    /\ Click
    /\ account' \in Wallets \ {account}
    /\ UNCHANGED <<cookie, session, guard>>
    /\ IdentityFrame

\* Another tab signs in with some wallet, or out.  This one is not told: the
\* event that says so stays in its window.
OtherTabSignsIn ==
    /\ Click
    /\ cookie' \in (Wallets \union {None}) \ {cookie}
    /\ UNCHANGED <<account, session, guard>>
    /\ IdentityFrame

Status ==
    IF guard.is # "known" THEN guard.is
    ELSE IF guard.error THEN "error"
    ELSE IF session = None THEN "no-session"
    ELSE IF session = account THEN "ok" ELSE "mismatch"

\* The answer of /api/auth/me; a failure reads as signed out.
SessionRead ==
    /\ guard.is = "loading"
    /\ \/ session' = cookie /\ UNCHANGED clicks
       \/ session' = None /\ Click
    /\ guard' = Known(guard.error)
    /\ UNCHANGED <<cookie, account>>
    /\ IdentityFrame

\* The banner's buttons: the session is read again, or a message is to be
\* signed by the account of this moment.
Recheck ==
    /\ Status \in {"mismatch", "error"}
    /\ Click
    /\ guard' = Loading(guard.error)
    /\ UNCHANGED <<cookie, account, session>>
    /\ IdentityFrame

SignIn ==
    /\ Status \in {"mismatch", "error"}
    /\ Click
    /\ guard' = [is |-> "signing", by |-> account]
    /\ UNCHANGED <<cookie, account, session>>
    /\ IdentityFrame

\* The signature is verified, and the event makes this tab read again.
SignedIn ==
    /\ guard.is = "signing"
    /\ cookie' = guard.by /\ session' = guard.by
    /\ guard' = Loading(FALSE)
    /\ UNCHANGED <<account, clicks>>
    /\ IdentityFrame

SignInFails ==
    /\ guard.is = "signing"
    /\ Click
    /\ guard' = Known(TRUE)
    /\ UNCHANGED <<cookie, account, session>>
    /\ IdentityFrame

-----------------------------------------------------------------------------
(* The basket: proposals, edits, and the simulation of what is shown *)

EffectiveBasket == [of |-> proposal, without |-> removedIds, with |-> extraAssets]
Empty(b) == b.of = None /\ b.with = {}

\* The weights add up to 100% but for half a percent, so deploy gets
\* arguments.
FullWeight(b) == b.of # None /\ b.without \subseteq Small

\* What is simulated is overtaken by a change of the basket.
Overtaken == IF simulating = NoSimulation THEN NoSimulation
             ELSE [simulating EXCEPT !.overtaken = TRUE]

\* (faulty variant) the result stays on show
KeepResult == UNCHANGED simulateResult

\* Every change the user makes takes the result away.
Invalidate == simulateResult' = NoResult

\* loadProposal for config c.
LoadProposal(c) ==
    /\ asked[c] < MaxAsked
    /\ asked' = [asked EXCEPT ![c] = @ + 1]
    /\ loadState' = "loading"
    /\ Invalidate
    /\ simulating' = Overtaken

BasketFrame == UNCHANGED <<identity, rows, deploys, panel, flows, strays, work>>

\* The effect of a new config.  A new sector starts without edits; a new
\* size or weighting keeps them.
ChooseConfig ==
    /\ Click
    /\ config' \in Configs \ {config}
    /\ LoadProposal(config')
    /\ \/ extraAssets' = {} /\ removedIds' = {}
       \/ UNCHANGED <<extraAssets, removedIds>>
    /\ UNCHANGED proposal
    /\ BasketFrame

\* The buttons that ask once more.
Reload ==
    /\ Click
    /\ LoadProposal(config)
    /\ UNCHANGED <<config, extraAssets, removedIds, proposal>>
    /\ BasketFrame

\* An answer, of whichever request: it is shown even if it is not the last
\* one asked for.
ProposalArrives(c) ==
    /\ asked[c] > 0
    /\ asked' = [asked EXCEPT ![c] = @ - 1]
    /\ \/ proposal' = c /\ loadState' = "ready" /\ UNCHANGED clicks
       \/ proposal' = None /\ loadState' = "error" /\ Click
    /\ simulating' = Overtaken
    /\ UNCHANGED <<simulateResult, config, extraAssets, removedIds>>
    /\ BasketFrame

\* An asset is added at any time, or taken out of the basket shown.
EditBasket ==
    /\ Click
    /\ \/ \E x \in Extras \ extraAssets : extraAssets' = extraAssets \union {x}
          /\ UNCHANGED removedIds
       \/ /\ loadState = "ready"
          /\ \E x \in extraAssets : extraAssets' = extraAssets \ {x}
          /\ UNCHANGED removedIds
       \/ /\ loadState = "ready"
          /\ \E c \in Constituents \ removedIds : removedIds' = removedIds \union {c}
          /\ UNCHANGED extraAssets
    /\ Invalidate
    /\ simulating' = Overtaken
    /\ UNCHANGED <<config, proposal, loadState, asked>>
    /\ BasketFrame

Simulate ==
    /\ Click
    /\ simulating = NoSimulation /\ ~ Empty(EffectiveBasket)
    /\ simulating' = [is |-> "asked", basket |-> EffectiveBasket,
                      overtaken |-> \E c \in Configs : asked[c] > 0]
    /\ UNCHANGED <<form, proposal, loadState, asked, simulateResult>>
    /\ BasketFrame

\* The answer.  Any but an ok result counts as none, except that the last
\* result stays when the network fails.
SimulationArrives ==
    /\ simulating # NoSimulation
    /\ \/ simulateResult' = [simulating EXCEPT !.is = "ok"] /\ UNCHANGED clicks
       \/ simulateResult' = NoResult /\ Click
       \/ UNCHANGED simulateResult /\ Click
    /\ simulating' = NoSimulation
    /\ UNCHANGED <<form, proposal, loadState, asked>>
    /\ BasketFrame

-----------------------------------------------------------------------------
(* Deploy *)

DeployFrame == UNCHANGED <<cookie, session, guard, rows, form, basket, panel, flows,
                           strays>>

\* The button is enabled, and the handler's own check.
MayDeploy ==
    /\ Status = "ok"
    /\ simulateResult # NoResult
    /\ deployment.phase = "idle"
    /\ FullWeight(EffectiveBasket)

\* writeContractAsync hands the transaction to the account of this moment.
Write(d) == deployment' = [d EXCEPT !.phase = "signing", !.creator = account]

\* Arguments and checks are of the click; if the wallet is on another
\* network it is asked to switch first.
Deploy ==
    /\ MayDeploy
    /\ LET d == [phase |-> "switching", creator |-> None, session |-> session,
                 switched |-> TRUE, basket |-> EffectiveBasket,
                 simulated |-> simulateResult.basket,
                 overtaken |-> simulateResult.overtaken]
       IN  \/ deployment' = d
           \/ Write([d EXCEPT !.switched = FALSE])
    /\ UNCHANGED <<account, registered, clicks>>
    /\ DeployFrame

ChainSwitched ==
    /\ deployment.phase = "switching"
    /\ Write(deployment)
    /\ UNCHANGED <<account, registered, clicks>>
    /\ DeployFrame

\* The user refuses to switch or to sign, or the transaction reverts.
DeployFails ==
    /\ deployment.phase \in {"switching", "signing"}
    /\ Click
    /\ deployment' = [phase |-> "idle"]
    /\ UNCHANGED <<account, registered>>
    /\ DeployFrame

\* The transaction is signed and mined and registers the index; the receipt
\* may be lost.
Registers ==
    /\ deployment.phase = "signing"
    /\ registered' = registered \union {deployment}
    /\ \/ deployment' = [phase |-> "deployed"] /\ UNCHANGED clicks
       \/ deployment' = [phase |-> "idle"] /\ Click
    /\ UNCHANGED account
    /\ DeployFrame

-----------------------------------------------------------------------------
(* The drafts routes.  Every query names the user of the session. *)

Mine(id) == rows[id].is = "row" /\ rows[id].owner = cookie
Unissued == {id \in Ids : rows[id] = Unused}

\* Nobody hears the answer to a request the page gave up on.
Reply(i, s, body) ==
    flows' = [flows EXCEPT ![i] =
                 IF @.ans = Alone THEN Idle
                 ELSE [@ EXCEPT !.ans = [status |-> s, body |-> body]]]

ServeFrame == UNCHANGED <<identity, form, basket, deploys, panel, strays>>

Pending(i, asks) ==
    /\ flows[i] # Idle /\ flows[i].asks = asks
    /\ flows[i].ans.status \in {"waiting", "alone"}

ServeList(i) ==
    /\ Pending(i, "list") /\ cookie # None
    /\ Reply(i, "ok", [id \in Ids |-> IF Mine(id) THEN rows[id].work ELSE None])
    /\ UNCHANGED rows

ServeDraft(i) ==
    /\ Pending(i, "draft") /\ cookie # None
    /\ LET id == flows[i].id
       IN  IF Mine(id) THEN Reply(i, "ok", rows[id].work) ELSE Reply(i, "404", None)
    /\ UNCHANGED rows

\* PUT of a draft that has an id, POST of one that has none.
ServeSave(i) ==
    /\ Pending(i, "save") /\ cookie # None
    /\ LET f == flows[i] IN
       \/ /\ f.id # None /\ Mine(f.id)
          /\ rows' = [rows EXCEPT ![f.id].work = f.work]
          /\ Reply(i, "ok", f.id)
       \/ f.id # None /\ ~ Mine(f.id) /\ Reply(i, "404", None) /\ UNCHANGED rows
       \/ /\ f.id = None
          /\ \E id \in Unissued :
                /\ \A other \in Unissued : id <= other
                /\ rows' = [rows EXCEPT ![id] = Row(cookie, f.work)]
                /\ Reply(i, "ok", id)

ServeDelete(i) ==
    /\ Pending(i, "delete") /\ cookie # None
    /\ LET id == flows[i].id IN
       IF Mine(id) THEN rows' = [rows EXCEPT ![id] = Gone] /\ Reply(i, "ok", id)
                   ELSE UNCHANGED rows /\ Reply(i, "404", None)

\* No session, or the database fails.
ServeRefusal(i) ==
    /\ \E asks \in {"list", "draft", "save", "delete"} : Pending(i, asks)
    /\ \/ cookie = None /\ Reply(i, "401", None) /\ UNCHANGED clicks
       \/ cookie # None /\ Reply(i, "500", None) /\ Click
    /\ UNCHANGED rows /\ ServeFrame

Serve(i) ==
    /\ ServeList(i) \/ ServeDraft(i) \/ ServeSave(i) \/ ServeDelete(i)
    /\ UNCHANGED clicks /\ ServeFrame

-----------------------------------------------------------------------------
(* What the page does with the answers *)

ArriveFrame == UNCHANGED <<identity, rows, deploys>>

\* The callback goes on with another request, or ends; a request that was
\* lost may still reach the server.
GoOn(i, flow) == flows' = [flows EXCEPT ![i] = flow]
End(i) ==
    \/ GoOn(i, Idle)
    \/ /\ flows[i].ans = Waiting /\ flows[i].asks \in {"save", "delete"}
       /\ flows' = [flows EXCEPT ![i].ans = Alone]

\* refreshDrafts, at its start.
ThenList(i) == GoOn(i, RefreshDrafts(flows[i].op)) /\ draftsAuthRequired' = FALSE

\* How the request of slot i ended for the page.
Outcome(i, s) ==
    /\ flows[i] # Idle
    /\ \/ s = flows[i].ans.status /\ s \notin {"waiting", "alone"} /\ UNCHANGED clicks
       \/ s = "lost" /\ flows[i].ans # Alone /\ Click

\* refreshDrafts, and the finally blocks of what awaited it.
ListArrives(i, s) ==
    /\ flows[i].asks = "list"
    /\ drafts' = CASE s = "ok" -> flows[i].ans.body
                   [] s = "lost" -> drafts
                   [] OTHER -> NoDrafts
    /\ draftsAuthRequired' = (draftsAuthRequired \/ s = "401")
    /\ savingDraft' = (savingDraft /\ flows[i].op # "save")
    /\ migrating' = (migrating /\ flows[i].op # "import")
    /\ End(i)
    /\ UNCHANGED <<form, basket, currentDraftId, legacyDrafts, strays>>

\* (faulty variant) the draft being edited is forgotten
KeepDraft(id) == UNCHANGED currentDraftId

TakeDraft(id) == currentDraftId' = id

\* loadDraft puts what it was answered into the form, or the row it had.  If
\* the config is another one, the effect asks for its proposal.
LoadArrives(i, s) ==
    /\ flows[i].asks = "draft"
    /\ work' = IF s = "ok" THEN flows[i].ans.body ELSE flows[i].work
    /\ TakeDraft(flows[i].id)
    /\ config' \in Configs /\ extraAssets' \in SUBSET Extras /\ removedIds' = {}
    /\ IF config' = config
       THEN Invalidate /\ simulating' = Overtaken /\ UNCHANGED <<loadState, asked>>
       ELSE LoadProposal(config')
    /\ End(i)
    /\ UNCHANGED <<proposal, drafts, savingDraft, draftsAuthRequired, legacyDrafts,
                   migrating, strays>>

\* saveCurrentDraft takes the id of a new row, whatever is shown by now.
SaveArrives(i, s) ==
    /\ flows[i].op = "save" /\ flows[i].asks = "save"
    /\ \/ /\ s = "ok" /\ ThenList(i)
          /\ IF flows[i].id # None THEN UNCHANGED <<currentDraftId, strays>>
             ELSE LET id == flows[i].ans.body
                  IN  /\ currentDraftId' = id
                      /\ strays' = IF work = flows[i].work THEN strays
                                   ELSE strays \union {id}
          /\ UNCHANGED savingDraft
       \/ /\ s # "ok" /\ End(i)
          /\ draftsAuthRequired' = (draftsAuthRequired \/ s = "401")
          /\ savingDraft' = FALSE
          /\ UNCHANGED <<currentDraftId, strays>>
    /\ UNCHANGED <<form, basket, drafts, legacyDrafts, migrating>>

\* deleteDraft: the current draft it compares with is the one of the click.
DeleteArrives(i, s) ==
    /\ flows[i].asks = "delete"
    /\ \/ /\ s \in {"ok", "404"} /\ ThenList(i)
          /\ currentDraftId' = IF flows[i].home = flows[i].id THEN None
                               ELSE currentDraftId
       \/ /\ s \notin {"ok", "404"} /\ End(i)
          /\ UNCHANGED <<currentDraftId, draftsAuthRequired>>
    /\ UNCHANGED <<form, basket, drafts, savingDraft, legacyDrafts, migrating, strays>>

\* importLegacyDrafts: only a 401 or a lost answer stops it; after the last
\* draft the local copies are dropped.
ImportArrives(i, s) ==
    /\ flows[i].op = "import" /\ flows[i].asks = "save"
    /\ \/ /\ s \in {"401", "lost"} /\ End(i)
          /\ draftsAuthRequired' = (draftsAuthRequired \/ s = "401")
          /\ migrating' = FALSE /\ UNCHANGED legacyDrafts
       \/ /\ s \notin {"401", "lost"} /\ flows[i].work < LegacyWork(NumLegacy)
          /\ GoOn(i, Flow("import", "save", None, flows[i].work + 1, None))
          /\ UNCHANGED <<draftsAuthRequired, migrating, legacyDrafts>>
       \/ /\ s \notin {"401", "lost"} /\ flows[i].work = LegacyWork(NumLegacy)
          /\ ThenList(i)
          /\ legacyDrafts' = FALSE /\ UNCHANGED migrating
    /\ UNCHANGED <<form, basket, drafts, currentDraftId, savingDraft, strays>>

Arrives(i) ==
    \E s \in {"ok", "401", "404", "500", "lost"} :
        /\ Outcome(i, s)
        /\ \/ ListArrives(i, s) \/ LoadArrives(i, s) \/ SaveArrives(i, s)
           \/ DeleteArrives(i, s) \/ ImportArrives(i, s)
        /\ ArriveFrame

-----------------------------------------------------------------------------
(* The drafts panel *)

Starts(flow) ==
    /\ Click
    /\ \E i \in Slots :
         /\ flows[i] = Idle /\ \A j \in 1..(i - 1) : flows[j] # Idle
         /\ GoOn(i, flow)
    /\ UNCHANGED <<identity, rows, form, basket, deploys, drafts, currentDraftId,
                   draftsAuthRequired, legacyDrafts, strays>>

SaveDraft ==
    /\ ~ savingDraft
    /\ savingDraft' = TRUE /\ UNCHANGED migrating
    /\ Starts(Flow("save", "save", currentDraftId, work, None))

Listed(id) == drafts[id] # None /\ ~ draftsAuthRequired

LoadDraft(id) ==
    /\ Listed(id)
    /\ Starts(Flow("load", "draft", id, drafts[id], None))
    /\ UNCHANGED <<savingDraft, migrating>>

DeleteDraft(id) ==
    /\ Listed(id)
    /\ Starts(Flow("delete", "delete", id, None, currentDraftId))
    /\ UNCHANGED <<savingDraft, migrating>>

ImportLegacyDrafts ==
    /\ legacyDrafts /\ ~ migrating /\ ~ draftsAuthRequired
    /\ migrating' = TRUE /\ UNCHANGED savingDraft
    /\ Starts(Flow("import", "save", None, LegacyWork(1), None))

DiscardLegacyDrafts ==
    /\ Click
    /\ legacyDrafts /\ ~ migrating
    /\ legacyDrafts' = FALSE
    /\ UNCHANGED <<identity, rows, form, basket, deploys, flows, strays, drafts,
                   currentDraftId, savingDraft, draftsAuthRequired, migrating>>

\* The same wallet's other device deletes a draft.
DeletedElsewhere(id) ==
    /\ Click
    /\ rows[id].is = "row"
    /\ rows' = [rows EXCEPT ![id] = Gone]
    /\ UNCHANGED <<identity, form, basket, deploys, panel, flows, strays>>

-----------------------------------------------------------------------------

IdentityStep ==
    \/ SwitchAccount \/ OtherTabSignsIn
    \/ SessionRead \/ Recheck \/ SignIn \/ SignedIn \/ SignInFails
BasketStep ==
    \/ ChooseConfig \/ Reload \/ EditBasket \/ Simulate \/ SimulationArrives
    \/ \E c \in Configs : ProposalArrives(c)
DeployStep == Deploy \/ ChainSwitched \/ DeployFails \/ Registers
DraftStep ==
    \/ SaveDraft \/ ImportLegacyDrafts \/ DiscardLegacyDrafts
    \/ \E id \in Ids : LoadDraft(id) \/ DeleteDraft(id) \/ DeletedElsewhere(id)
FlowStep == \E i \in Slots : Serve(i) \/ ServeRefusal(i) \/ Arrives(i)

BuilderNext == IdentityStep \/ BasketStep \/ DeployStep \/ DraftStep \/ FlowStep

BuilderSpec == BuilderInit /\ [][BuilderNext]_builderVars

-----------------------------------------------------------------------------
(* Properties *)

\* "Save draft" never writes one piece of work over the draft of another,
\* however loads, saves, deletes and imports overlap and whichever of their
\* answers is lost (page.tsx L437-534).  The one exception the code has: the
\* id of a new row may arrive when another draft is already shown (L475).
SavesStayOnTheirDraft ==
    [][\A id \in Ids :
          rows[id].is = "row" /\ rows'[id].is = "row" /\ id \notin strays
             => rows'[id].work = rows[id].work]_builderVars

\* What is registered is the basket that was simulated with an ok result, in
\* the name of the wallet signed in, although proposals, loaded drafts and
\* edits change the basket all the time (page.tsx L295-317, L494-520,
\* L640-745).  The exceptions the code has: a basket changed while its
\* simulation, or the proposal it replaced, was still awaited, and a
\* creator changed while the wallet was asked to switch networks.
DeployedAsChecked ==
    \A d \in registered :
        /\ d.basket = d.simulated \/ d.overtaken
        /\ d.creator = d.session \/ d.switched

=============================================================================
