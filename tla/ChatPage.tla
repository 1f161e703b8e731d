------------------------------ MODULE ChatPage ------------------------------
(***************************************************************************)
(* The chat page (app/(indexer)/chat/page.tsx) with the routes it talks    *)
(* to: /api/chat and its billing gate (module Billing), and the threads    *)
(* and messages under /api/chat/threads.                                   *)
(*                                                                         *)
(* The page is one thread of JavaScript with many requests in flight: a    *)
(* send, whatever the sidebar started, and the poll of the active thread.  *)
(* A callback keeps the state of the render it was made in, so what it     *)
(* captured (the turns it sends, the thread it saves to) is part of the    *)
(* request.  A flow is one sidebar callback: the request it waits for and  *)
(* what it does with the answer.                                           *)
(*                                                                         *)
(* A turn is named by the thread it was written in.  Text, titles, pins    *)
(* and the order of the sidebar are left out: the user may click any       *)
(* thread that was ever listed, and the first of a list is any of it.      *)
(***************************************************************************)
EXTENDS Billing, Sequences, FiniteSetsExt

CONSTANTS
    MaxThreads, MaxSends,
    Sessions,       \* kinds of session to start with
    Openings,       \* (threads, legacy turns) a user may start with
    MaxFlows,       \* BOUND: sidebar callbacks waiting at once
    MaxExtras,      \* BOUND: clicks, messages of other devices and faults
    MaxInputs       \* BOUND: sends and these together

ASSUME ChatAssumption ==
    /\ MaxThreads \in Nat /\ MaxSends \in Nat
    /\ Sessions \subseteq {"wallet", "demo", "none"}
    /\ Openings \subseteq (0..MaxThreads) \X {0, 1}
    /\ MaxFlows \in Nat /\ MaxExtras \in Nat /\ MaxInputs \in Nat
    /\ 1..MaxSends \subseteq Turns

Threads == 1..MaxThreads
NoThread == 0
Slots == 1..MaxFlows
Posters == {"send", "import", "other", "stray"}

VARIABLES
    session,        \* what the cookie says
    status,         \* ch_threads: thread -> unused, open, archived, deleted
    rows,           \* ch_messages: thread -> its rows
    posts,          \* handlers of POST .../messages in progress
    persistAuthed, activeThreadId, turns, legacyTurns, blocked,
    sending,        \* what a send in progress captured, and how far it is
    flows,          \* sidebar callbacks in progress
    poll,           \* the poll of the active thread's messages, in flight
    sends, extras,  \* how many there were
    acked           \* questions whose POST was answered 201 (observed)

server == <<session, status, rows>>
page == <<persistAuthed, activeThreadId, turns, legacyTurns, blocked>>
counters == <<sends, extras>>
chatVars == <<billingVars, server, posts, page, sending, flows, poll,
              counters, acked>>

Turn(by, n, role, home) == [by |-> by, n |-> n, role |-> role, home |-> home]
NoPost == [to |-> NoThread]
NoPoll == [of |-> NoThread]
NotSending == [step |-> "idle"]
Idle == [op |-> "idle"]
Unanswered == [is |-> "pending"]
Call(op, step, id, home) ==
    [op |-> op, step |-> step, id |-> id, home |-> home, read |-> <<>>]

\* The page as it is first rendered; mounting starts the list request.
ChatInit ==
    /\ BillingInit
    /\ session \in Sessions
    /\ \E o \in Openings :
         /\ status = [t \in Threads |-> IF t <= o[1] THEN "open" ELSE "unused"]
         /\ legacyTurns = o[2]
    /\ rows = [t \in Threads |-> {}]
    /\ posts = [p \in Posters |-> NoPost]
    /\ persistAuthed = FALSE /\ activeThreadId = NoThread /\ turns = <<>>
    /\ blocked = FALSE
    /\ sending = NotSending
    /\ flows = [i \in Slots |->
                  IF i = 1 THEN Call("mount", "list", NoThread, NoThread) ELSE Idle]
    /\ poll = NoPoll
    /\ sends = 0 /\ extras = 0 /\ acked = {}

\* One more click, remote message or fault.
Extra ==
    /\ extras < MaxExtras /\ sends + extras < MaxInputs
    /\ extras' = extras + 1

-----------------------------------------------------------------------------
(* The messages route *)

SignedIn == session # "none"
Exists(t) == status[t] \in {"open", "archived"}

\* (faulty variant) the new row gets the number of the last one
SameSeq(t) == Max({r.seq : r \in rows[t]} \union {1})

\* Number of the next row of thread t.
NextSeq(t) == Max({r.seq : r \in rows[t]} \union {0}) + 1

\* POST .../messages up to its insert: the thread must be the caller's, and
\* the highest seq is read.  (A request under way for a while is one sent
\* later: the page captured what it sends.)
Accepted(to) == SignedIn /\ Exists(to)
Begin(p, to, turn) ==
    posts' = [posts EXCEPT ![p] = [to |-> to, turn |-> turn, seq |-> NextSeq(to)]]

\* The insert.  It fails the foreign key when the thread was deleted
\* meanwhile; a number taken meanwhile does not make it fail.
Insert(p) ==
    /\ posts[p] # NoPost
    /\ rows' = IF Exists(posts[p].to)
               THEN [rows EXCEPT ![posts[p].to] =
                       @ \union {[seq |-> posts[p].seq, turn |-> posts[p].turn]}]
               ELSE rows
    /\ posts' = [posts EXCEPT ![p] = NoPost]

\* The same for requests whose answer nobody waits for.
InsertAlone(p) ==
    /\ p \in {"other", "stray"}
    /\ Insert(p)
    /\ UNCHANGED <<billingVars, session, status, page, sending, flows, poll,
                   extras, sends, acked>>

\* What messages of GET /api/chat/threads/[id] may be: all rows, ordered by
\* seq, those of one seq in any order.
Sorted(S) ==
    {s \in [1..Cardinality(S) -> S] :
        IsInjective(s) /\ \A i, j \in DOMAIN s : i < j => s[i].seq <= s[j].seq}
MessagesOf(t) == {[i \in DOMAIN s |-> s[i].turn] : s \in Sorted(rows[t])}

-----------------------------------------------------------------------------
(* The view: active thread, turns, and the poll that follows them *)

\* (faulty variant) whatever was polled last is merged into the view
MergeableAlways(payload, active) == payload.of # NoThread

\* Polled messages are merged only into the thread they belong to.
Mergeable(payload, active) == payload.of # NoThread /\ payload.of = active

\* The merge effect: append what the server has beyond our length.
Merged(active, local, payload) ==
    IF Mergeable(payload, active) /\ Len(payload.ans.val) > Len(local)
    THEN local \o SubSeq(payload.ans.val, Len(local) + 1, Len(payload.ans.val))
    ELSE local

\* useAutoRefetch: a poll is of one thread, and a new one aborts the last.
PollUrl(authed, active) == IF authed THEN active ELSE NoThread
Poll(t) == IF t = NoThread THEN NoPoll ELSE [of |-> t, ans |-> Unanswered]

\* setActiveThreadId, setTurns and setPersistAuthed: a changed url restarts
\* the poll.  (What was polled when the thread was shown before is not merged
\* again here: the restarted poll brings it.)
Render(authed, active, local) ==
    LET url == PollUrl(authed, active)
    IN  /\ persistAuthed' = authed
        /\ activeThreadId' = active
        /\ turns' = local
        /\ poll' = IF url = PollUrl(persistAuthed, activeThreadId)
                   THEN poll ELSE Poll(url)
        /\ UNCHANGED <<legacyTurns, blocked>>

\* The interval fires: a request in flight is aborted and a new one sent.
PollTick ==
    /\ PollUrl(persistAuthed, activeThreadId) # NoThread
    /\ poll' = Poll(activeThreadId)
    /\ UNCHANGED <<billingVars, server, posts, page, sending, flows,
                   counters, acked>>

PollServed ==
    /\ poll.of # NoThread /\ poll.ans = Unanswered
    /\ IF SignedIn /\ Exists(poll.of)
       THEN \E m \in MessagesOf(poll.of) :
               poll' = [poll EXCEPT !.ans = [is |-> "ok", val |-> m]]
       ELSE poll' = NoPoll
    /\ UNCHANGED <<billingVars, server, posts, page, sending, flows,
                   counters, acked>>

\* setData, then the merge effect.
PollArrives ==
    /\ poll.of # NoThread /\ poll.ans # Unanswered
    /\ turns' = Merged(activeThreadId, turns, poll)
    /\ poll' = NoPoll
    /\ UNCHANGED <<billingVars, server, posts, persistAuthed, activeThreadId,
                   legacyTurns, blocked, sending, flows, counters, acked>>

-----------------------------------------------------------------------------
(* send() *)

Question(n, home) == Turn("page", n, "user", home)
Answer(n, home) == Turn("page", n, "agent", home)

\* The optimistic turn is shown and the request sent.  A page that believes
\* the quota is used up opens the top-up dialog instead.
Send ==
    /\ sending = NotSending /\ ~ blocked
    /\ sends < MaxSends /\ sends + extras < MaxInputs
    /\ sends' = sends + 1
    /\ LET next == Append(turns, Question(sends + 1, activeThreadId))
       IN  /\ turns' = next
           /\ sending' = [step |-> "ask", n |-> sends + 1, before |-> turns,
                          next |-> next, home |-> activeThreadId,
                          authed |-> persistAuthed]
    /\ UNCHANGED <<billingVars, server, posts, persistAuthed, activeThreadId,
                   legacyTurns, blocked, flows, poll, extras,
                   acked>>

\* /api/chat lets the turn through to the agent.
ChatAdmitted ==
    /\ sending.step = "ask" /\ SignedIn
    /\ PassGate(sending.n)
    /\ sending' = [sending EXCEPT !.step = "asked"]
    /\ UNCHANGED <<server, posts, page, flows, poll, counters, acked>>

\* 402: the turn is taken back and the fresh snapshot shown.
ChatRefused ==
    /\ sending.step = "ask" /\ SignedIn
    /\ Blocked
    /\ blocked' = TRUE /\ turns' = sending.before
    /\ sending' = NotSending
    /\ UNCHANGED <<billingVars, server, posts, persistAuthed, activeThreadId,
                   legacyTurns, flows, poll, counters, acked>>

\* The answer of the chat route is shown, then both turns are to be saved.
ShowAnswer ==
    /\ turns' = Append(sending.next, Answer(sending.n, sending.home))
    /\ sending' = [sending EXCEPT !.step = "question"]
    /\ UNCHANGED <<persistAuthed, activeThreadId, legacyTurns>>

\* The agent's answer, charged or not, with a snapshot of the account.
ChatAnswered ==
    /\ sending.step = "asked"
    /\ \/ \E m \in Models, u \in Usages : AnswerCharged(sending.n, m, u)
       \/ AnswerUncharged(sending.n)
    /\ ShowAnswer
    /\ blocked' = Blocked'
    /\ UNCHANGED <<server, posts, flows, poll, counters, acked>>

\* 401: the body is shown as an answer all the same.
ChatUnauthenticated ==
    /\ sending.step = "ask" /\ ~ SignedIn
    /\ ShowAnswer
    /\ UNCHANGED <<billingVars, server, posts, blocked, flows, poll,
                   counters, acked>>

\* The request fails in the browser: an error is shown, nothing is saved.
\* The server may go on answering it.
ChatLost ==
    /\ sending.step \in {"ask", "asked"}
    /\ Extra
    /\ turns' = Append(sending.next, Answer(sending.n, sending.home))
    /\ sending' = NotSending
    /\ UNCHANGED <<billingVars, server, posts, persistAuthed, activeThreadId,
                   legacyTurns, blocked, flows, poll, sends,
                   acked>>

\* The agent answers a request nobody waits for any more.
LateAnswer ==
    \E n \in asked :
      /\ ~ (sending # NotSending /\ sending.n = n)
      /\ \/ \E m \in Models, u \in Usages : AnswerCharged(n, m, u)
         \/ AnswerUncharged(n)
      /\ UNCHANGED <<server, posts, page, sending, flows, poll, counters, acked>>

\* (faulty variant) the thread shown now, not the one captured
SaveToShown == activeThreadId

\* persistMessage belongs to the render send() was called in.
SaveTo == IF sending.authed THEN sending.home ELSE NoThread

\* What follows a saved turn: the answer after the question, and after the
\* answer the poll of the thread captured, which aborts the current one.
NextSave ==
    IF sending.step = "question"
    THEN /\ sending' = [sending EXCEPT !.step = "answer"]
         /\ UNCHANGED poll
    ELSE /\ sending' = NotSending
         /\ poll' = IF SaveTo = NoThread THEN poll ELSE Poll(SaveTo)

\* persistMessage without a session or a thread returns at once.
SkipSave ==
    /\ sending.step \in {"question", "answer"}
    /\ SaveTo = NoThread
    /\ NextSave
    /\ UNCHANGED <<billingVars, server, posts, page, flows, counters, acked>>

\* The POST of a turn.  Refused, it is answered at once, and whatever the
\* status, the page goes on.
StartSave ==
    /\ sending.step \in {"question", "answer"}
    /\ SaveTo # NoThread /\ posts["send"] = NoPost
    /\ IF Accepted(SaveTo)
       THEN /\ Begin("send", SaveTo, IF sending.step = "question"
                                     THEN Question(sending.n, sending.home)
                                     ELSE Answer(sending.n, sending.home))
            /\ UNCHANGED <<sending, poll>>
       ELSE NextSave /\ UNCHANGED posts
    /\ UNCHANGED <<billingVars, server, page, flows, extras, sends, acked>>

Saved ==
    /\ Insert("send")
    /\ acked' = IF sending.step = "question" /\ Exists(posts["send"].to)
                THEN acked \union {sending.n} ELSE acked
    /\ NextSave
    /\ UNCHANGED <<billingVars, session, status, page, flows, extras, sends>>

\* The connection drops: the request never arrives, or its handler goes on
\* alone.
Drop(p) ==
    \/ posts' = [posts EXCEPT ![p] = NoPost]
    \/ /\ posts["stray"] = NoPost
       /\ posts' = [posts EXCEPT ![p] = NoPost, !["stray"] = posts[p]]

\* persistMessage swallows the error.
SaveLost ==
    /\ sending.step \in {"question", "answer"}
    /\ posts["send"] # NoPost
    /\ Extra
    /\ Drop("send")
    /\ NextSave
    /\ UNCHANGED <<billingVars, server, page, flows, sends,
                   acked>>

-----------------------------------------------------------------------------
(* Sidebar callbacks.  Between a request's effect and what the page does    *)
(* next nothing can come that could not come just after, so the two are     *)
(* one step, except for the thread that is loaded: it may be old when shown. *)

Waits(i, step) == flows[i].op # "idle" /\ flows[i].step = step
Goto(i, step, id) == flows' = [flows EXCEPT ![i].step = step, ![i].id = id]
End(i) == flows' = [flows EXCEPT ![i] = Idle]
NoRender == UNCHANGED <<page, poll>>
FlowFrame == UNCHANGED <<billingVars, session, posts, sending, counters, acked>>
OpenThreads == {t \in Threads : status[t] = "open"}
MayWrite == session = "wallet"

\* Open a listed thread other than the one that went, or a new one.
OpenAnother(i, listed) ==
    IF listed \ {flows[i].home} # {}
    THEN \E t \in listed \ {flows[i].home} : Goto(i, "load", t)
    ELSE Goto(i, "create", NoThread)

\* GET /api/chat/threads: the list makes the page signed in.  Mounting opens
\* a thread, deleting and archiving do if the thread shown was the one.
List(i) ==
    /\ Waits(i, "list")
    /\ IF SignedIn
       THEN /\ Render(TRUE, activeThreadId, turns)
            /\ IF flows[i].op = "mount" \/ flows[i].home # NoThread
               THEN OpenAnother(i, OpenThreads) ELSE End(i)
       ELSE Render(FALSE, activeThreadId, turns) /\ End(i)
    /\ UNCHANGED <<status, rows>> /\ FlowFrame

\* POST /api/chat/threads (demo sessions are refused), then the new thread
\* is shown.
Create(i) ==
    /\ Waits(i, "create")
    /\ \/ /\ MayWrite
          /\ \E t \in Threads : status[t] = "unused"
          /\ LET t == Min({u \in Threads : status[u] = "unused"})
             IN  /\ status' = [status EXCEPT ![t] = "open"]
                 /\ Render(persistAuthed, t, <<>>)
                 /\ IF flows[i].op = "import" THEN Goto(i, "posts", t) ELSE End(i)
       \/ ~ MayWrite /\ End(i) /\ NoRender /\ UNCHANGED status
    /\ UNCHANGED rows /\ FlowFrame

\* GET /api/chat/threads/[id] reads the thread ...
Load(i) ==
    /\ Waits(i, "load")
    /\ IF SignedIn /\ Exists(flows[i].id)
       THEN \E m \in MessagesOf(flows[i].id) :
               flows' = [flows EXCEPT ![i].step = "loaded", ![i].read = m]
       ELSE End(i)
    /\ NoRender /\ UNCHANGED <<status, rows>> /\ FlowFrame

\* ... and when the answer arrives it is shown, whatever is shown now.
Loaded(i) ==
    /\ Waits(i, "loaded")
    /\ Render(persistAuthed, flows[i].id, flows[i].read)
    /\ End(i)
    /\ UNCHANGED <<status, rows>> /\ FlowFrame

\* DELETE (ch_messages cascades) and PATCH of a thread.  clearHistory goes
\* on to a new thread; handleDeleteThread goes on after a 404 as well, and
\* handleArchiveThread after any status.
Change(i) ==
    /\ Waits(i, "change")
    /\ LET f == flows[i]
           gone == IF f.op = "archive" THEN "archived" ELSE "deleted"
           done == MayWrite /\ Exists(f.id)
       IN  /\ IF done THEN status' = [status EXCEPT ![f.id] = gone]
                      ELSE UNCHANGED status
           /\ IF done /\ gone = "deleted" THEN rows' = [rows EXCEPT ![f.id] = {}]
                                          ELSE UNCHANGED rows
           /\ \/ f.op = "clear" /\ Goto(i, "create", NoThread)
              \/ f.op = "archive" /\ Goto(i, "list", f.id)
              \/ f.op = "delete" /\ MayWrite /\ Goto(i, "list", f.id)
              \/ f.op = "delete" /\ ~ MayWrite /\ End(i)
    /\ NoRender /\ FlowFrame

\* A request fails, before or after it had its effect.  loadThread,
\* createThread and the mount effect stop; a delete or an archive that lost
\* its list opens a new thread; clearHistory goes on, and handleArchiveThread
\* does after an HTTP error.
FlowFails(i) ==
    /\ flows[i].op # "idle" /\ flows[i].step # "posts"
    /\ Extra
    /\ LET f == flows[i] IN
       /\ \/ UNCHANGED <<status, rows>>
          \/ /\ f.step = "change" /\ MayWrite /\ Exists(f.id)
             /\ \/ /\ f.op = "archive"
                   /\ status' = [status EXCEPT ![f.id] = "archived"]
                   /\ UNCHANGED rows
                \/ /\ f.op \in {"delete", "clear"}
                   /\ status' = [status EXCEPT ![f.id] = "deleted"]
                   /\ rows' = [rows EXCEPT ![f.id] = {}]
       /\ LET cleared == f.op = "clear" /\ f.step = "change"
              listless == f.step = "list" /\ f.home # NoThread
          IN  \/ (cleared \/ listless) /\ Goto(i, "create", NoThread)
              \/ f.op = "archive" /\ f.step = "change" /\ Goto(i, "list", f.id)
              \/ ~ cleared /\ ~ listless /\ End(i)
    /\ NoRender
    /\ UNCHANGED <<billingVars, session, posts, sending, sends,
                   acked>>

\* importLegacyChat: the old turns are posted to the new thread one by one,
\* whatever the status; then the local copy is dropped.
Import(i) ==
    /\ Waits(i, "posts") /\ posts["import"] = NoPost
    /\ IF Accepted(flows[i].id)
       THEN /\ Begin("import", flows[i].id, Turn("legacy", 1, "user", flows[i].id))
            /\ UNCHANGED <<flows, legacyTurns>>
       ELSE Goto(i, "load", flows[i].id) /\ legacyTurns' = 0 /\ UNCHANGED posts
    /\ UNCHANGED <<billingVars, server, persistAuthed, activeThreadId, turns,
                   blocked, sending, poll, extras, sends, acked>>

Imported(i) ==
    /\ Waits(i, "posts")
    /\ Insert("import")
    /\ Goto(i, "load", flows[i].id) /\ legacyTurns' = 0
    /\ UNCHANGED <<billingVars, session, status, persistAuthed, activeThreadId,
                   turns, blocked, sending, poll, extras, sends, acked>>

ImportLost(i) ==
    /\ Waits(i, "posts") /\ posts["import"] # NoPost
    /\ Extra /\ Drop("import") /\ End(i)
    /\ UNCHANGED <<billingVars, server, page, sending, poll, sends, acked>>

-----------------------------------------------------------------------------
(* Clicks *)

Starts(call) ==
    /\ Extra
    /\ \E i \in Slots :
         /\ flows[i] = Idle /\ \A j \in 1..(i - 1) : flows[j] # Idle
         /\ flows' = [flows EXCEPT ![i] = call]
    /\ UNCHANGED <<billingVars, server, posts, page, sending, poll, sends, acked>>

\* Threads that were in some list.
Listable == {t \in Threads : status[t] # "unused"}
IfShown(t) == IF t = activeThreadId THEN t ELSE NoThread

PickThread(t) == t # activeThreadId /\ Starts(Call("pick", "load", t, NoThread))
NewThread == persistAuthed /\ Starts(Call("new", "create", NoThread, NoThread))
DeleteThread(t) == persistAuthed /\ Starts(Call("delete", "change", t, IfShown(t)))
ArchiveThread(t) ==
    persistAuthed /\ Starts(Call("archive", "change", t, IfShown(t)))
ClearHistory ==
    /\ persistAuthed
    /\ IF activeThreadId # NoThread
       THEN Starts(Call("clear", "change", activeThreadId, NoThread))
       ELSE Starts(Call("clear", "create", NoThread, NoThread))

\* Without a session "New chat" and "Clear" empty the view.
EmptyView ==
    /\ ~ persistAuthed /\ turns # <<>>
    /\ turns' = <<>>
    /\ UNCHANGED <<billingVars, server, posts, persistAuthed, activeThreadId,
                   legacyTurns, blocked, sending, flows, poll, counters, acked>>

Migrating == \E i \in Slots : flows[i].op = "import"
ImportLegacyChat ==
    /\ legacyTurns # 0 /\ persistAuthed /\ ~ Migrating
    /\ Starts(Call("import", "create", NoThread, NoThread))
DiscardLegacyChat ==
    /\ legacyTurns # 0 /\ ~ Migrating
    /\ legacyTurns' = 0
    /\ UNCHANGED <<billingVars, server, posts, persistAuthed, activeThreadId, turns,
                   blocked, sending, flows, poll, counters, acked>>

\* A top-up in the dialog, after which the snapshot is fetched again.
TopUpDone ==
    /\ blocked /\ MayWrite
    /\ \E n \in TopUps : TopUp(n)
    /\ blocked' = Blocked'
    /\ UNCHANGED <<server, posts, persistAuthed, activeThreadId, turns, legacyTurns,
                   sending, flows, poll, counters, acked>>

\* Another device of the same user writes to a thread.
RemotePost(t) ==
    /\ Extra
    /\ SignedIn /\ Exists(t) /\ posts["other"] = NoPost
    /\ Begin("other", t, Turn("other", extras, "user", t))
    /\ UNCHANGED <<billingVars, server, page, sending, flows, poll, sends, acked>>

-----------------------------------------------------------------------------

SendStep ==
    \/ Send \/ ChatAdmitted \/ ChatRefused \/ ChatAnswered \/ ChatUnauthenticated
    \/ ChatLost \/ LateAnswer \/ SkipSave \/ StartSave \/ Saved \/ SaveLost
PostStep == \E p \in Posters : InsertAlone(p)
PollStep == PollTick \/ PollServed \/ PollArrives
FlowStep ==
    \E i \in Slots :
      List(i) \/ Create(i) \/ Load(i) \/ Loaded(i) \/ Change(i) \/ FlowFails(i)
        \/ Import(i) \/ Imported(i) \/ ImportLost(i)
Click ==
    \/ \E t \in Listable : \/ PickThread(t) \/ DeleteThread(t) \/ ArchiveThread(t)
    \/ NewThread \/ ClearHistory \/ EmptyView \/ TopUpDone
    \/ ImportLegacyChat \/ DiscardLegacyChat
Elsewhere == \E t \in Threads : RemotePost(t)

ChatNext == SendStep \/ PostStep \/ PollStep \/ FlowStep \/ Click \/ Elsewhere

ChatSpec == ChatInit /\ [][ChatNext]_chatVars

-----------------------------------------------------------------------------
(* Properties *)

\* A message is saved in the thread it was written in, although the user may
\* open, delete or clear threads while the agent answers (page.tsx L460-481,
\* L842-843).
LandsWhereWritten ==
    \A t \in Threads : \A r \in rows[t] : r.turn.home = t

\* An answer has its question before it in the thread, whoever else writes
\* to the thread in between, if the POST of the question was acknowledged
\* (page.tsx L837-843, messages route L8-12).
AnswersFollowQuestions ==
    \A t \in Threads : \A r \in rows[t] :
        r.turn.by = "page" /\ r.turn.role = "agent" /\ r.turn.n \in acked
          => \E q \in rows[t] :
               q.turn = Question(r.turn.n, t) /\ q.seq < r.seq

\* Turns of another thread than the active one come into view only by the
\* answer of a send that was under way when the user switched: no poll and
\* no thread loaded late shows one conversation under another (page.tsx
\* L302-317, L428-441).
Foreign == {turn \in Range(turns) : turn.home # activeThreadId}
OnlyAnswersMix == [][sending' = sending => Foreign' \subseteq Foreign]_chatVars

=============================================================================
