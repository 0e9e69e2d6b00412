---------------------------- MODULE TabCreation ----------------------------
(***************************************************************************)
(* create_browser_tab and request_browser_workspace on one endpoint: the   *)
(* worker of a ticket, the attempts it journals, the extension that opens, *)
(* groups and remembers, and the inventories from which the broker keeps   *)
(* its rows.                                                               *)
(*                                                                         *)
(* One window is there throughout, and one workspace, Home, whose group is *)
(* never empty; a workspace is named by the group it was made with.  The   *)
(* other endpoints of a workspace request are one wait, `elsewhere'.  An   *)
(* inventory generation is modelled by who still knows the current one.    *)
(* What the broker does without awaiting is one step; an attempt is        *)
(* prepared and dispatched in one.                                         *)
(***************************************************************************)
EXTENDS Integers, Sequences, FiniteSetsExt

CONSTANTS
    Create,          \* the create_browser_tab tickets, for Home
    Allocate,        \* the request_browser_workspace tickets
    MaxAttempts,     \* of one ticket (3 in the code)
    Load,            \* the tickets to begin with, and the faults they meet
    MaxFaults        \* bound: outages, timers, restarts, failed calls, closed tabs

Ticket == Create \cup Allocate

ASSUME TabCreationAssumption ==
    /\ Create \cap Allocate = {}
    /\ {"none", "home"} \cap Ticket = {}
    /\ MaxAttempts \in Nat \ {0} /\ MaxFaults \in Nat
    /\ Load \subseteq [open : SUBSET Ticket, faults : 0 .. MaxFaults]

VARIABLES
    state,       \* request_tickets: "none" without one, "running" from acceptance,
    paused,      \* whether pause_condition is extension_disconnected,
    place,       \* the endpoint executionEndpointRef() finds,
    created,     \* and whether the checkpoint lists the workspace made here
    attempts,    \* request_attempts of a ticket, in order
    rows,        \* managed_tabs of a tab in a workspace, oldest first
    workspaces,  \* the active browser_workspaces
    missing,     \* those with cause workspace_missing_after_reconnect
    worker,      \* what a ticket's worker awaits, and the answer it has
    connected,   \* the endpoint is connected,
    pending,     \* and pendingEndpointReconciliation has it
    toExtension, \* messages on the socket
    toBroker,
    group,       \* Chrome's tabs, and the group each is in
    creating,    \* CREATE_TABs the extension has begun
    remembered,  \* outcomes in its attempt cache
    due,         \* inventoryPublishTimer is set
    current,     \* tickets whose inventoryGeneration is Chrome's
    misled,      \* history: attempts whose tab the broker is not told of
    stale,       \* history: the rows are from an older inventory than was read
    overtaken,   \* history: tickets about to reconcile an older one
    faults,      \* still to come
    restarts

tickets   == <<state, paused, place, created, attempts>>
browser   == <<rows, workspaces, missing>>
link      == <<connected, pending, toExtension, toBroker>>
extension == <<group, creating, remembered, due, current>>
counts    == <<faults, restarts>>
history   == <<misled, stale, overtaken>>
vars == <<tickets, browser, worker, link, extension, history, counts>>

Ungrouped == <<"none", 0>>
Home == <<"home", 0>>

(* A tab is named by the attempt that opened it, a group by the how-many-th *)
(* its ticket made.                                                         *)
TabOf(t, n) == <<t, n>>
AnyTab == {<<"home", 0>>} \cup (Ticket \X (1 .. MaxAttempts))
Workspace == {Home} \cup (Allocate \X (1 .. (MaxFaults + 1)))

(* A worker's operation, the tab and group it is about, and the answer.    *)
NoTabs == [tab \in {} |-> Ungrouped]
Idle == [at |-> "idle", tab |-> Home, group |-> Home, reply |-> "none", tabs |-> NoTabs]
Awaiting(at) == [Idle EXCEPT !.at = at]

Init ==
    /\ \E load \in Load :
          /\ state = [t \in Ticket |-> IF t \in load.open THEN "running" ELSE "none"]
          /\ faults = load.faults
    /\ paused = [t \in Ticket |-> FALSE]
    /\ place = [t \in Ticket |-> IF t \in Create THEN "here" ELSE "none"]
    /\ created = [t \in Ticket |-> FALSE]
    /\ attempts = [t \in Ticket |-> <<>>]
    /\ rows = [p \in {<<Home, Home>>} |-> <<"active">>]
    /\ workspaces = {Home} /\ missing = {}
    /\ worker = [t \in Ticket |-> Idle]
    /\ connected = TRUE /\ pending = FALSE
    /\ toExtension = <<>> /\ toBroker = <<>>
    /\ group = [tab \in {Home} |-> Home]
    /\ creating = {} /\ remembered = {} /\ due = FALSE /\ current = {}
    /\ restarts = 0
    /\ misled = {} /\ stale = FALSE /\ overtaken = {}

-----------------------------------------------------------------------------
(* reconcileInventory(): the tabs of each workspace's group become its     *)
(* active rows, and its other active rows are closed.  Of several rows of  *)
(* one tab only the newest is found.                                       *)
Found(tabs) == {w \in workspaces : \E tab \in DOMAIN tabs : tabs[tab] = w}

Reconcile(tabs) ==
    /\ rows' =
          [p \in DOMAIN rows \cup {<<tab, tabs[tab]>> : tab \in {x \in DOMAIN tabs : tabs[x] \in workspaces}} |->
              IF p \notin DOMAIN rows THEN <<"active">>
              ELSE IF p[2] \notin Found(tabs) THEN rows[p]
              ELSE [rows[p] EXCEPT ![Len(rows[p])] =
                       IF p[1] \in DOMAIN tabs /\ tabs[p[1]] = p[2] THEN "active" ELSE "closed"]]
    /\ missing' = workspaces \ Found(tabs)

(* addTab(): always a new row. *)
RowAdded(tab, w) ==
    [p \in DOMAIN rows \cup {<<tab, w>>} |->
        IF p # <<tab, w>> THEN rows[p]
        ELSE IF p \in DOMAIN rows THEN Append(rows[p], "active") ELSE <<"active">>]

ActiveIn(tab, w) ==
    /\ <<tab, w>> \in DOMAIN rows
    /\ \E i \in DOMAIN rows[<<tab, w>>] : rows[<<tab, w>>][i] = "active"

-----------------------------------------------------------------------------
(* The worker of a ticket.                                                 *)

Open(t) == state[t] = "running"

Holds(t) == worker[t].at \in {"look", "inventory"} /\ worker[t].reply = "ok"

ReconcileAgain(t) ==
    /\ Reconcile(worker[t].tabs)
    /\ stale' = (t \in overtaken)
    /\ overtaken' = overtaken \ {t}
    /\ UNCHANGED misled

Pending(t) == {n \in DOMAIN attempts[t] : attempts[t][n] = "dispatched"}

Ask(t, w, n) ==
    /\ worker' = [worker EXCEPT ![t] = w]
    /\ toExtension' = Append(toExtension,
          [op |-> IF w.at = "look" THEN "inventory" ELSE w.at, ticket |-> t, n |-> n,
           tab |-> w.tab, group |-> w.group])
    /\ UNCHANGED <<connected, pending, toBroker>>

Ends(t, how) ==
    /\ state' = [state EXCEPT ![t] = how]
    /\ worker' = [worker EXCEPT ![t] = Idle]
    /\ UNCHANGED <<paused, place, created, attempts, link, extension, counts>>

Startable(t) == Open(t) /\ ~paused[t] /\ worker[t].at = "idle"

(* Mutant: the workspaces already made are not looked at. *)
StartWorkAgain(t) ==
    /\ Startable(t)
    /\ place' = [place EXCEPT ![t] = "here"]
    /\ IF connected
       THEN Ask(t, Awaiting("look"), 0) /\ UNCHANGED paused
       ELSE paused' = [paused EXCEPT ![t] = TRUE] /\ UNCHANGED <<worker, link>>
    /\ UNCHANGED <<state, created, attempts, browser, extension, history, counts>>

(* runWorker() and the first inventory of executeWorkspaceRequest() and    *)
(* createManagedTabInWorkspace().                                          *)
StartWork(t) ==
    /\ Startable(t) /\ ~created[t]
    /\ place' = [place EXCEPT ![t] = "here"]
    /\ IF connected
       THEN Ask(t, Awaiting("look"), 0) /\ UNCHANGED paused
       ELSE paused' = [paused EXCEPT ![t] = TRUE] /\ UNCHANGED <<worker, link>>
    /\ UNCHANGED <<state, created, attempts, browser, extension, history, counts>>

(* completedNicknames: this endpoint is done. *)
StartElsewhere(t) ==
    /\ Startable(t) /\ created[t]
    /\ worker' = [worker EXCEPT ![t] = Awaiting("elsewhere")]
    /\ UNCHANGED <<tickets, browser, link, extension, history, counts>>

Answered(t, at, reply) == worker[t].at = at /\ worker[t].reply = reply

(* Every worker reconciles again the inventory that onInventory() has      *)
(* reconciled already; other messages may have been read in between.       *)
Looked(t) ==
    /\ Answered(t, "look", "ok")
    /\ ReconcileAgain(t)
    /\ Ask(t, Awaiting("inventory"), 0)
    /\ UNCHANGED <<tickets, workspaces, extension, counts>>

(* createTabReliably() after an inventory: the tab of an earlier attempt   *)
(* that succeeded, the reconciliation of a pending one, a new attempt, or  *)
(* the end.                                                                *)
Obtained(tab) == [Awaiting("obtained") EXCEPT !.tab = tab]

PriorSuccess(t) ==
    LET succeeded == {n \in DOMAIN attempts[t] : attempts[t][n] = "succeeded"} IN
    {n \in succeeded : n = Max(succeeded) /\ TabOf(t, n) \in DOMAIN worker[t].tabs}

UsePriorSuccess(t) ==
    /\ Answered(t, "inventory", "ok")
    /\ \E n \in PriorSuccess(t) :
          worker' = [worker EXCEPT ![t] = Obtained(TabOf(t, n))]
    /\ ReconcileAgain(t)
    /\ UNCHANGED <<tickets, workspaces, link, extension, counts>>

ReconcileAttempt(t) ==
    /\ Answered(t, "inventory", "ok")
    /\ PriorSuccess(t) = {} /\ Pending(t) # {}
    /\ ReconcileAgain(t)
    /\ Ask(t, Awaiting("reconcile"), Max(Pending(t)))
    /\ UNCHANGED <<tickets, workspaces, extension, counts>>

(* Mutant: one attempt too many. *)
AttemptOnceMore(t) ==
    /\ Answered(t, "inventory", "ok")
    /\ PriorSuccess(t) = {} /\ Pending(t) = {} /\ Len(attempts[t]) <= MaxAttempts
    /\ ReconcileAgain(t)
    /\ attempts' = [attempts EXCEPT ![t] = Append(@, "dispatched")]
    /\ Ask(t, Awaiting("create"), Len(attempts[t]) + 1)
    /\ UNCHANGED <<state, paused, place, created, workspaces, extension, counts>>

(* Mutant: the pending attempt is not looked at. *)
AttemptAnyway(t) ==
    /\ Answered(t, "inventory", "ok")
    /\ PriorSuccess(t) = {} /\ Len(attempts[t]) < MaxAttempts
    /\ ReconcileAgain(t)
    /\ attempts' = [attempts EXCEPT ![t] = Append(@, "dispatched")]
    /\ Ask(t, Awaiting("create"), Len(attempts[t]) + 1)
    /\ UNCHANGED <<state, paused, place, created, workspaces, extension, counts>>

Attempt(t) ==
    /\ Answered(t, "inventory", "ok")
    /\ PriorSuccess(t) = {} /\ Pending(t) = {} /\ Len(attempts[t]) < MaxAttempts
    /\ ReconcileAgain(t)
    /\ attempts' = [attempts EXCEPT ![t] = Append(@, "dispatched")]
    /\ Ask(t, Awaiting("create"), Len(attempts[t]) + 1)
    /\ UNCHANGED <<state, paused, place, created, workspaces, extension, counts>>

Exhausted(t) ==
    /\ Answered(t, "inventory", "ok")
    /\ PriorSuccess(t) = {} /\ Pending(t) = {} /\ Len(attempts[t]) >= MaxAttempts
    /\ ReconcileAgain(t)
    /\ Ends(t, "failed")
    /\ UNCHANGED workspaces

(* The answer to CREATE_TAB or RECONCILE_ATTEMPT finishes the attempt;     *)
(* without a tab the loop goes on.  A refused CREATE_TAB stays pending.    *)
Finishes(t, as) ==
    LET n == Max(Pending(t)) IN
    /\ attempts' = [attempts EXCEPT ![t][n] = as]
    /\ IF as = "succeeded"
       THEN worker' = [worker EXCEPT ![t] = Obtained(TabOf(t, n))] /\ UNCHANGED link
       ELSE Ask(t, Awaiting("inventory"), 0)
    /\ UNCHANGED <<state, paused, place, created, browser, extension, history, counts>>

AttemptEnds(t) ==
    \E at \in {"create", "reconcile"} :
        \/ Answered(t, at, "ok") /\ Finishes(t, "succeeded")
        \/ Answered(t, at, "failed") /\ Finishes(t, "failed")
        \/ Answered(t, at, "missing") /\ Finishes(t, "missing")

CreateRefused(t) ==
    /\ Answered(t, "create", "refused")
    /\ Ask(t, Awaiting("inventory"), 0)
    /\ UNCHANGED <<tickets, browser, extension, history, counts>>

(* Any other error ends the ticket of a connected endpoint. *)
OperationFails(t) ==
    /\ \/ Answered(t, "reconcile", "refused")
       \/ \E at \in {"group", "rename"}, r \in {"refused", "failed"} : Answered(t, at, r)
    /\ Ends(t, "failed")
    /\ UNCHANGED <<browser, history>>

(* Mutant: the row an inventory gave it is not looked for. *)
CreateSucceedsAnew(t) ==
    /\ t \in Create /\ worker[t].at = "obtained"
    /\ rows' = RowAdded(worker[t].tab, Home)
    /\ Ends(t, "succeeded")
    /\ UNCHANGED <<workspaces, missing, history>>

(* The new tab gets its row, unless an inventory gave it one.              *)
CreateSucceeds(t) ==
    /\ t \in Create /\ worker[t].at = "obtained"
    /\ rows' = IF ActiveIn(worker[t].tab, Home) THEN rows ELSE RowAdded(worker[t].tab, Home)
    /\ Ends(t, "succeeded")
    /\ UNCHANGED <<workspaces, missing, history>>

(* createWorkspaceInWindow(): a group of its own, its title, and then the  *)
(* rows and the checkpoint.                                                *)
AskGroup(t) ==
    /\ t \in Allocate /\ worker[t].at = "obtained"
    /\ Ask(t, [Awaiting("group") EXCEPT !.tab = worker[t].tab], 0)
    /\ UNCHANGED <<tickets, browser, extension, history, counts>>

AskTitle(t) ==
    /\ Answered(t, "group", "ok")
    /\ Ask(t, [Awaiting("rename") EXCEPT !.tab = worker[t].tab, !.group = worker[t].group], 0)
    /\ UNCHANGED <<tickets, browser, extension, history, counts>>

WorkspaceMade(t) ==
    LET w == worker[t].group IN
    /\ Answered(t, "rename", "ok")
    /\ workspaces' = workspaces \cup {w}
    /\ rows' = RowAdded(worker[t].tab, w)
    /\ created' = [created EXCEPT ![t] = TRUE]
    /\ place' = [place EXCEPT ![t] = "elsewhere"]
    /\ worker' = [worker EXCEPT ![t] = Awaiting("elsewhere")]
    /\ UNCHANGED <<state, paused, attempts, missing, link, extension, history, counts>>

(* The other endpoints: their workspaces are made, or not, or wait for an  *)
(* outage of theirs to end.                                                *)
ElsewhereEnds(t, how) ==
    /\ worker[t].at = "elsewhere"
    /\ Ends(t, how)
    /\ UNCHANGED <<browser, history>>

Fault == faults > 0 /\ faults' = faults - 1

Misleads(creations) ==
    /\ misled' = misled \cup {<<c.ticket, c.n>> : c \in creations}
    /\ UNCHANGED <<stale, overtaken>>

ElsewherePauses(t) ==
    /\ worker[t].at = "elsewhere"
    /\ Fault
    /\ paused' = [paused EXCEPT ![t] = TRUE]
    /\ worker' = [worker EXCEPT ![t] = Idle]
    /\ UNCHANGED <<state, place, created, attempts, browser, link, extension, history, restarts>>

ElsewhereResumes(t) ==
    /\ Open(t) /\ paused[t] /\ place[t] = "elsewhere"
    /\ paused' = [paused EXCEPT ![t] = FALSE]
    /\ UNCHANGED <<state, place, created, attempts, browser, worker, link, extension, history, counts>>

(* Mutant: an attempt that times out is given up. *)
TimesOutForGood(t) ==
    /\ worker[t].at \in {"look", "inventory", "create", "reconcile", "group", "rename"}
    /\ worker[t].reply = "none"
    /\ Fault
    /\ IF worker[t].at = "create"
       THEN Ask(t, Awaiting("inventory"), 0) /\ UNCHANGED state
            /\ attempts' = [attempts EXCEPT ![t][Max(Pending(t))] = "missing"]
       ELSE /\ state' = [state EXCEPT ![t] = "failed"]
            /\ worker' = [worker EXCEPT ![t] = Idle]
            /\ UNCHANGED <<link, attempts>>
    /\ UNCHANGED <<paused, place, created, browser, extension, history, restarts>>

(* The gateway's timer: a CREATE_TAB goes back to the loop. *)
TimesOut(t) ==
    /\ worker[t].at \in {"look", "inventory", "create", "reconcile", "group", "rename"}
    /\ worker[t].reply = "none"
    /\ Fault
    /\ IF worker[t].at = "create"
       THEN Ask(t, Awaiting("inventory"), 0) /\ UNCHANGED state
       ELSE /\ state' = [state EXCEPT ![t] = "failed"]
            /\ worker' = [worker EXCEPT ![t] = Idle]
            /\ UNCHANGED link
    /\ UNCHANGED <<paused, place, created, attempts, browser, extension, history, restarts>>

-----------------------------------------------------------------------------
(* What the gateway reads.                                                 *)

(* Mutant: rows are kept from the inventories somebody asked for. *)
ReadAnswerInventory ==
    /\ toBroker # <<>> /\ Head(toBroker).op = "inventory"
    /\ LET m == Head(toBroker) IN
       /\ (IF m.ticket = "none" THEN UNCHANGED <<rows, missing>> ELSE Reconcile(m.tabs))
       /\ worker' = [t \in Ticket |->
             IF t = m.ticket /\ worker[t].at \in {"look", "inventory"} /\ worker[t].reply = "none"
             THEN [worker[t] EXCEPT !.reply = "ok", !.tabs = m.tabs] ELSE worker[t]]
    /\ paused' = [t \in Ticket |-> paused[t] /\ ~(pending /\ Open(t) /\ place[t] = "here")]
    /\ pending' = FALSE
    /\ stale' = FALSE
    /\ overtaken' = overtaken \cup {t \in Ticket : Holds(t)}
    /\ toBroker' = Tail(toBroker)
    /\ UNCHANGED <<state, place, created, attempts, workspaces, connected, toExtension,
                   extension, misled, counts>>

(* Mutant: the paused tickets stay paused. *)
ReadInventoryOnly ==
    /\ toBroker # <<>> /\ Head(toBroker).op = "inventory"
    /\ LET m == Head(toBroker) IN
       /\ Reconcile(m.tabs)
       /\ worker' = [t \in Ticket |->
             IF t = m.ticket /\ worker[t].at \in {"look", "inventory"} /\ worker[t].reply = "none"
             THEN [worker[t] EXCEPT !.reply = "ok", !.tabs = m.tabs] ELSE worker[t]]
    /\ UNCHANGED paused
    /\ pending' = FALSE
    /\ stale' = FALSE
    /\ overtaken' = overtaken \cup {t \in Ticket : Holds(t)}
    /\ toBroker' = Tail(toBroker)
    /\ UNCHANGED <<state, place, created, attempts, workspaces, connected, toExtension,
                   extension, misled, counts>>

(* handleInventory() and onInventory(): rows, then the paused tickets of a *)
(* new connection, then the worker that asked.                             *)
ReadInventory ==
    /\ toBroker # <<>> /\ Head(toBroker).op = "inventory"
    /\ LET m == Head(toBroker) IN
       /\ Reconcile(m.tabs)
       /\ worker' = [t \in Ticket |->
             IF t = m.ticket /\ worker[t].at \in {"look", "inventory"} /\ worker[t].reply = "none"
             THEN [worker[t] EXCEPT !.reply = "ok", !.tabs = m.tabs] ELSE worker[t]]
    /\ paused' = [t \in Ticket |-> paused[t] /\ ~(pending /\ Open(t) /\ place[t] = "here")]
    /\ pending' = FALSE
    /\ stale' = FALSE
    /\ overtaken' = overtaken \cup {t \in Ticket : Holds(t)}
    /\ toBroker' = Tail(toBroker)
    /\ UNCHANGED <<state, place, created, attempts, workspaces, connected, toExtension,
                   extension, misled, counts>>

(* handleOperationResult() and handleV2Error(): the answer to what is      *)
(* pending; any other is dropped.                                          *)
Awaited(m) ==
    /\ m.ticket \in Ticket
    /\ worker[m.ticket].at = m.op /\ worker[m.ticket].reply = "none"
    /\ m.op \in {"create", "reconcile"} => m.n = Max(Pending(m.ticket))

ReadAnswer ==
    /\ toBroker # <<>> /\ Head(toBroker).op # "inventory"
    /\ LET m == Head(toBroker) IN
       worker' = IF Awaited(m)
                 THEN [worker EXCEPT ![m.ticket].reply = m.answer, ![m.ticket].group = m.group]
                 ELSE worker
    /\ toBroker' = Tail(toBroker)
    /\ UNCHANGED <<tickets, browser, connected, pending, toExtension, extension, history, counts>>

-----------------------------------------------------------------------------
(* The extension.                                                          *)

Reply(m, answer) ==
    [op |-> m.op, ticket |-> m.ticket, n |-> m.n, answer |-> answer, group |-> m.group, tabs |-> NoTabs]

Tell(m) == toBroker' = Append(toBroker, m)

(* snapshot(): the inventory and, when it answers a request, who knows it. *)
Capture(for) ==
    /\ Tell([op |-> "inventory", ticket |-> for, n |-> 0, answer |-> "ok", group |-> Home,
             tabs |-> group])
    /\ current' = {for} \cap Ticket

Takes(op) == toExtension # <<>> /\ Head(toExtension).op = op /\ toExtension' = Tail(toExtension)

TakeInventory ==
    /\ Takes("inventory")
    /\ Capture(Head(toExtension).ticket)
    /\ UNCHANGED <<tickets, browser, worker, connected, pending, group, creating, remembered, due,
                   history, counts>>

(* assertExpected(): an operation for an earlier generation is refused. *)
Refuse ==
    /\ toExtension # <<>>
    /\ LET m == Head(toExtension) IN
       /\ m.op # "inventory" /\ m.ticket \notin current
       /\ Tell(Reply(m, "refused"))
    /\ toExtension' = Tail(toExtension)
    /\ UNCHANGED <<tickets, browser, worker, connected, pending, extension, history, counts>>

TakeCreate ==
    /\ Takes("create")
    /\ LET m == Head(toExtension) IN
       /\ m.ticket \in current
       /\ creating' = creating \cup {[ticket |-> m.ticket, n |-> m.n, stage |-> "asked"]}
    /\ UNCHANGED <<tickets, browser, worker, connected, pending, toBroker, group, remembered, due,
                   current, history, counts>>

(* RECONCILE_ATTEMPT asks the cache, and nothing else. *)
Outcomes(t, n) == {o \in remembered : o.ticket = t /\ o.n = n}

TakeReconcile ==
    /\ Takes("reconcile")
    /\ LET m == Head(toExtension)
           found == Outcomes(m.ticket, m.n) IN
       /\ m.ticket \in current
       /\ Tell(Reply(m, IF found = {} THEN "missing"
                        ELSE IF \E o \in found : o.ok THEN "ok" ELSE "failed"))
       /\ Misleads({c \in creating : c.ticket = m.ticket /\ c.n = m.n})
    /\ UNCHANGED <<tickets, browser, worker, connected, pending, extension, faults, restarts>>

(* groupTabs() without a group makes one; one that is left empty is gone.  *)
Made(t) == {w \in workspaces : w[1] = t}
NewGroup(t) == <<t, Cardinality(Made(t)) + 1>>

TakeGroup ==
    /\ Takes("group")
    /\ LET m == Head(toExtension) IN
       /\ m.ticket \in current
       /\ IF m.tab \in DOMAIN group
          THEN /\ group' = [group EXCEPT ![m.tab] = NewGroup(m.ticket)]
               /\ Tell([Reply(m, "ok") EXCEPT !.group = NewGroup(m.ticket)])
               /\ current' = {m.ticket} /\ due' = TRUE
          ELSE Tell(Reply(m, "failed")) /\ UNCHANGED <<group, current, due>>
    /\ UNCHANGED <<tickets, browser, worker, connected, pending, creating, remembered, history, counts>>

TakeTitle ==
    /\ Takes("rename")
    /\ LET m == Head(toExtension) IN
       /\ m.ticket \in current
       /\ IF \E tab \in DOMAIN group : group[tab] = m.group
          THEN Tell(Reply(m, "ok")) /\ current' = {} /\ due' = TRUE
          ELSE Tell(Reply(m, "failed")) /\ UNCHANGED <<current, due>>
    /\ UNCHANGED <<tickets, browser, worker, connected, pending, group, creating, remembered, history, counts>>

Becomes(c, stage) == creating' = (creating \ {c}) \cup {[c EXCEPT !.stage = stage]}

(* TabGroupOperations.createTab(): the tab, then its group. *)
OpenTab(c) ==
    /\ c.stage = "asked"
    /\ Becomes(c, "opened")
    /\ group' = [tab \in DOMAIN group \cup {TabOf(c.ticket, c.n)} |->
                    IF tab = TabOf(c.ticket, c.n) THEN Ungrouped ELSE group[tab]]
    /\ due' = connected
    /\ UNCHANGED <<tickets, browser, worker, link, remembered, current, history, counts>>

GroupTab(c) ==
    /\ c.stage = "opened" /\ TabOf(c.ticket, c.n) \in DOMAIN group
    /\ Becomes(c, "made")
    /\ group' = IF c.ticket \in Create THEN [group EXCEPT ![TabOf(c.ticket, c.n)] = Home] ELSE group
    /\ due' = connected
    /\ current' = {}
    /\ UNCHANGED <<tickets, browser, worker, link, remembered, history, counts>>

(* Chrome fails a call, before the tab or after it; the group of a tab that *)
(* was closed meanwhile it always does.                                     *)
ChromeFails(c) ==
    /\ Fault
    /\ \/ c.stage = "asked" /\ UNCHANGED history
       \/ c.stage = "opened" /\ TabOf(c.ticket, c.n) \in DOMAIN group /\ Misleads({c})
    /\ Becomes(c, "error")
    /\ UNCHANGED <<tickets, browser, worker, link, group, remembered, due, current, restarts>>

GroupsNothing(c) ==
    /\ c.stage = "opened" /\ TabOf(c.ticket, c.n) \notin DOMAIN group
    /\ Becomes(c, "error")
    /\ UNCHANGED <<tickets, browser, worker, link, group, remembered, due, current, history, counts>>

(* The outcome is remembered and reported.  Without a connection building  *)
(* the report throws, and what is remembered then is that failure.         *)
Report(c) ==
    LET ok == c.stage = "made" /\ connected
        awaited == Awaited([op |-> "create", ticket |-> c.ticket, n |-> c.n]) IN
    /\ c.stage \in {"made", "error"}
    /\ creating' = creating \ {c}
    /\ remembered' = remembered \cup {[ticket |-> c.ticket, n |-> c.n, ok |-> ok]}
    /\ IF connected
       THEN /\ Tell([op |-> "create", ticket |-> c.ticket, n |-> c.n, group |-> Home, tabs |-> NoTabs,
                     answer |-> IF ok THEN "ok" ELSE "failed"])
            /\ current' = IF awaited THEN current \cup {c.ticket} ELSE current
            /\ UNCHANGED history
       ELSE /\ Misleads({c} \cap {d \in creating : d.stage = "made"})
            /\ UNCHANGED <<toBroker, current>>
    /\ UNCHANGED <<tickets, browser, worker, connected, pending, toExtension, group, due, faults,
                   restarts>>

(* scheduleInventoryPublish(), and the inventory that follows READY. *)
Publish ==
    /\ connected /\ due
    /\ due' = FALSE
    /\ Capture("none")
    /\ UNCHANGED <<tickets, browser, worker, connected, pending, toExtension, group, creating,
                   remembered, history, counts>>

(* Expired, evicted, or of a window whose generation has changed. *)
OutcomeForgotten(o) ==
    /\ Fault
    /\ remembered' = remembered \ {o}
    /\ Misleads({o})
    /\ UNCHANGED <<tickets, browser, worker, link, group, creating, due, current, restarts>>

-----------------------------------------------------------------------------
(* Connections, restarts and the user.                                     *)

(* An answer that was read is worked off before a close is. *)
Settled == \A t \in Ticket : worker[t].reply = "none" /\ worker[t].at # "obtained"

(* onDisconnected(): the pending operations are rejected and the tickets   *)
(* of this endpoint paused.                                                *)
Loses ==
    /\ connected' = FALSE
    /\ toExtension' = <<>> /\ toBroker' = <<>>
    /\ due' = FALSE
    /\ paused' = [t \in Ticket |-> paused[t] \/ (Open(t) /\ place[t] = "here")]
    /\ worker' = [t \in Ticket |-> IF place[t] = "here" THEN Idle ELSE worker[t]]

Disconnect ==
    /\ connected /\ Settled
    /\ Fault
    /\ Loses
    /\ UNCHANGED <<state, place, created, attempts, browser, pending, group, creating, remembered,
                   current, history, restarts>>

Connect ==
    /\ ~connected
    /\ connected' = TRUE /\ pending' = TRUE /\ due' = TRUE
    /\ UNCHANGED <<tickets, browser, worker, toExtension, toBroker, group, creating, remembered,
                   current, history, counts>>

(* The service worker ends: creations it had begun are never reported. *)
ExtensionRestarts ==
    /\ Settled
    /\ Fault
    /\ Misleads({c \in creating : c.stage # "asked"})
    /\ creating' = {} /\ current' = {}
    /\ Loses
    /\ UNCHANGED <<state, place, created, attempts, browser, pending, group, remembered, restarts>>

(* recover(): an unpaused ticket's checkpoint is replaced. *)
BrokerRestarts ==
    /\ Fault
    /\ restarts' = restarts + 1
    /\ connected' = FALSE /\ pending' = TRUE
    /\ toExtension' = <<>> /\ toBroker' = <<>>
    /\ due' = FALSE
    /\ worker' = [t \in Ticket |-> Idle]
    /\ created' = [t \in Ticket |-> created[t] /\ ~(Open(t) /\ ~paused[t])]
    /\ place' = [t \in Ticket |-> IF t \in Allocate /\ Open(t) /\ ~paused[t] THEN "none" ELSE place[t]]
    /\ paused' = [t \in Ticket |-> paused[t] \/ (Open(t) /\ t \in Create)]
    /\ overtaken' = {}
    /\ UNCHANGED <<state, attempts, browser, group, creating, remembered, current, misled, stale>>

UserCloses(tab) ==
    /\ tab # Home
    /\ Fault
    /\ group' = [x \in DOMAIN group \ {tab} |-> group[x]]
    /\ due' = connected
    /\ UNCHANGED <<tickets, browser, worker, link, creating, remembered, current, history, restarts>>

-----------------------------------------------------------------------------
WorkerStep(t) ==
    \/ StartWork(t) \/ StartElsewhere(t) \/ Looked(t)
    \/ UsePriorSuccess(t) \/ ReconcileAttempt(t) \/ Attempt(t) \/ Exhausted(t)
    \/ AttemptEnds(t) \/ CreateRefused(t) \/ OperationFails(t)
    \/ CreateSucceeds(t) \/ AskGroup(t) \/ AskTitle(t) \/ WorkspaceMade(t)
    \/ ElsewhereEnds(t, "succeeded") \/ ElsewhereEnds(t, "failed")
    \/ ElsewhereResumes(t)

Read == ReadInventory \/ ReadAnswer

Take == TakeInventory \/ Refuse \/ TakeCreate \/ TakeReconcile \/ TakeGroup \/ TakeTitle

Creation(c) == OpenTab(c) \/ GroupTab(c) \/ Report(c)

Trouble ==
    \/ \E t \in Ticket : ElsewherePauses(t) \/ TimesOut(t)
    \/ \E c \in creating : ChromeFails(c)
    \/ \E o \in remembered : OutcomeForgotten(o)
    \/ Disconnect \/ ExtensionRestarts \/ BrokerRestarts
    \/ \E tab \in DOMAIN group : UserCloses(tab)

(* What goes on by itself: workers, sockets, Chrome, and an extension that *)
(* connects again.                                                         *)
Progress ==
    \/ \E t \in Ticket : WorkerStep(t)
    \/ Read \/ Take \/ Publish \/ Connect
    \/ \E c \in creating : Creation(c) \/ GroupsNothing(c)

Next == Progress \/ Trouble

Spec == Init /\ [][Next]_vars

(* Some part of it goes on: no order among them is assumed. *)
FairSpec == Spec /\ WF_vars(Progress)

-----------------------------------------------------------------------------
Stage == {"asked", "opened", "made", "error"}

TypeOK ==
    /\ state \in [Ticket -> {"none", "running", "succeeded", "failed"}]
    /\ paused \in [Ticket -> BOOLEAN] /\ created \in [Ticket -> BOOLEAN]
    /\ place \in [Ticket -> {"none", "here", "elsewhere"}]
    /\ \A t \in Ticket : Len(attempts[t]) <= MaxAttempts
    /\ \A t \in Ticket : \A n \in DOMAIN attempts[t] :
          attempts[t][n] \in {"dispatched", "succeeded", "failed", "missing"}
    /\ DOMAIN rows \subseteq AnyTab \X Workspace
    /\ workspaces \subseteq Workspace /\ missing \subseteq workspaces
    /\ connected \in BOOLEAN /\ pending \in BOOLEAN /\ due \in BOOLEAN
    /\ DOMAIN group \subseteq AnyTab
    /\ creating \subseteq [ticket : Ticket, n : 1 .. MaxAttempts, stage : Stage]
    /\ remembered \subseteq [ticket : Ticket, n : 1 .. MaxAttempts, ok : BOOLEAN]
    /\ current \subseteq Ticket

(* Of a ticket's attempts at most the newest may have an effect nobody     *)
(* knows of: createTabReliably() starts no other before that one has ended, *)
(* over outages, restarts and refused reconciliations.                      *)
ReconciledBeforeRetry ==
    \A t \in Ticket : \A n \in Pending(t) : n = Len(attempts[t])

Retries(t) == Len(attempts'[t]) > Len(attempts[t])

(* Attempts before the newest whose tab is where it was wanted, or on its  *)
(* way there.                                                              *)
Wanted(t, tab) == tab \in DOMAIN group /\ (t \in Create => group[tab] = Home)

Effective(t) ==
    {n \in 1 .. (Len(attempts'[t]) - 1) :
        \/ Wanted(t, TabOf(t, n))
        \/ \E c \in creating : c.ticket = t /\ c.n = n /\ c.stage # "error"}

(* System-Architecture.md: a retry only "after proving the intended effect  *)
(* absent".  Not so: the extension's cache is asked, which does not know a  *)
(* creation that is still under way.                                        *)
RetryProvesAbsence == [][\A t \in Ticket : Retries(t) => Effective(t) = {}]_vars

(* A retry leaves the tab of an earlier attempt behind only where the       *)
(* extension answered for that attempt without knowing its tab: it was      *)
(* being made, its outcome was lost or forgotten, or Chrome failed after    *)
(* it.  Outages, timers, refusals and broker restarts alone never do.       *)
RetryUnlessMisled ==
    [][\A t \in Ticket : Retries(t) => \A n \in Effective(t) : <<t, n>> \in misled]_vars

(* The result of a creation and the inventories it sets off, in whatever    *)
(* order they are read, make one active managed tab of the browser's tab,   *)
(* and never two of one workspace.  Only recover(), which forgets the       *)
(* workspaces a request has made, leaves a tab in two.                      *)
Active(p, i) == rows[p][i] = "active"

OneRowPerTab ==
    \A p, q \in DOMAIN rows :
        p[1] = q[1] /\ (p = q \/ restarts = 0) =>
            \A i \in DOMAIN rows[p], j \in DOMAIN rows[q] :
                Active(p, i) /\ Active(q, j) => p = q /\ i = j

(* A request that is paused for another endpoint and begun again makes no   *)
(* second workspace here; each recover() may cost one more.                 *)
AllocatedOnce == \A t \in Allocate : Cardinality(Made(t)) <= restarts + 1

(* No inventory is on its way or about to be captured. *)
Quiet ==
    /\ connected /\ ~pending /\ ~due
    /\ \A i \in DOMAIN toBroker : toBroker[i].op # "inventory"

(* Once inventories are read every tab in a workspace's group, also one     *)
(* whose creation the broker gave up, has an active row: but while a worker *)
(* has reconciled an older inventory over a newer one.                      *)
RowsFollowBrowser ==
    (Quiet /\ ~stale) => \A tab \in DOMAIN group :
        group[tab] \in workspaces => ActiveIn(tab, group[tab])

(* Every request ends, whichever faults it meets: none waits for an answer  *)
(* that was lost or for an outage that is over, and no retry is endless.    *)
EveryRequestEnds == <>(\A t \in Ticket : ~Open(t))
=============================================================================
