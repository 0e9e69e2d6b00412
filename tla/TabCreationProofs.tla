------------------------- MODULE TabCreationProofs -------------------------
(***************************************************************************)
(* Proofs about TabCreation: for any tickets, any number of attempts and   *)
(* any faults.                                                             *)
(*                                                                         *)
(* The invariant is built in layers, each proved inductive with the help   *)
(* of those before it: the types and what a worker's operation tells of    *)
(* its ticket (Shape, Control), the one request it has under way           *)
(* (Outstanding), the groups a ticket makes (Grouped, Counted), the rows   *)
(* (RowsKept), the life of a creation from its message to what is          *)
(* remembered of it (Living, Judgements), the inventories a retry is       *)
(* decided from (Seen), the tab that is grouped (LatestOnly), and what the *)
(* newest inventory tells (Uptodate).                                      *)
(***************************************************************************)
EXTENDS TabCreation, FiniteSetTheorems, SequenceTheorems, TLAPS

-----------------------------------------------------------------------------
(* Types. *)
Named == {Home} \cup (Allocate \X (Nat \ {0}))
Group == Named \cup {Ungrouped}
Tabs == UNION {[D -> Group] : D \in SUBSET AnyTab}
RowState == {"active", "closed"}
Rows == UNION {[D -> Seq(RowState) \ {<<>>}] : D \in SUBSET (AnyTab \X Group)}

Op == {"inventory", "create", "reconcile", "group", "rename"}
Request == [op : Op, ticket : Ticket, n : 0 .. MaxAttempts, tab : AnyTab, group : Named]
Message ==
    [op : Op, ticket : Ticket \cup {"none"}, n : 0 .. MaxAttempts,
     answer : {"ok", "failed", "missing", "refused"}, group : Named, tabs : Tabs]
Work ==
    [at : {"idle", "look", "inventory", "create", "reconcile", "obtained", "group", "rename",
           "elsewhere"},
     tab : AnyTab, group : Named, reply : {"none", "ok", "failed", "missing", "refused"},
     tabs : Tabs]
Try == {"dispatched", "succeeded", "failed", "missing"}

Shape ==
    /\ state \in [Ticket -> {"none", "running", "succeeded", "failed"}]
    /\ paused \in [Ticket -> BOOLEAN] /\ created \in [Ticket -> BOOLEAN]
    /\ place \in [Ticket -> {"none", "here", "elsewhere"}]
    /\ attempts \in [Ticket -> Seq(Try)]
    /\ rows \in Rows
    /\ workspaces \subseteq Named /\ IsFiniteSet(workspaces)
    /\ Home \in workspaces /\ missing \subseteq workspaces
    /\ worker \in [Ticket -> Work]
    /\ connected \in BOOLEAN /\ pending \in BOOLEAN /\ due \in BOOLEAN
    /\ toExtension \in Seq(Request) /\ toBroker \in Seq(Message)
    /\ group \in Tabs
    /\ creating \subseteq [ticket : Ticket, n : 1 .. MaxAttempts, stage : Stage]
    /\ remembered \subseteq [ticket : Ticket, n : 1 .. MaxAttempts, ok : BOOLEAN]
    /\ current \subseteq Ticket
    /\ faults \in Nat /\ restarts \in Nat /\ faults + restarts <= MaxFaults

Newest(t) == Len(attempts[t])

(* What the operation a worker is at tells of its ticket. *)
AtWork(t) ==
    /\ worker[t].at # "idle" => Open(t) /\ ~paused[t]
    /\ worker[t].at \notin {"idle", "elsewhere"} => place[t] = "here" /\ ~created[t]
    /\ worker[t].at = "elsewhere" => created[t]
    /\ worker[t].at \in {"idle", "elsewhere", "obtained"} => worker[t].reply = "none"
    /\ worker[t].at \in {"create", "reconcile"} =>
          Newest(t) > 0 /\ attempts[t][Newest(t)] = "dispatched"
    /\ worker[t].at \in {"obtained", "group", "rename"} => worker[t].tab[1] = t
    /\ worker[t].at \in {"group", "rename"} => t \in Allocate

Control ==
    \A t \in Ticket :
        /\ AtWork(t)
        /\ created[t] => place[t] = "elsewhere" /\ t \in Allocate
        /\ Newest(t) <= MaxAttempts
        /\ \A n \in 1 .. Newest(t) : attempts[t][n] = "dispatched" => n = Newest(t)

(* What goes over the socket of one ticket's attempt or groups. *)
Sent(m) ==
    /\ m.op \in {"create", "reconcile"} => m.n \in 1 .. Newest(m.ticket)
    /\ m.op \in {"group", "rename"} => m.ticket \in Allocate

Addressed ==
    /\ \A i \in 1 .. Len(toExtension) :
          /\ Sent(toExtension[i])
          /\ toExtension[i].op \in {"group", "rename"} => toExtension[i].tab[1] = toExtension[i].ticket
    /\ \A i \in 1 .. Len(toBroker) :
          /\ Sent(toBroker[i])
          /\ toBroker[i].op # "inventory" => toBroker[i].ticket \in Ticket
    /\ \A c \in creating : c.n <= Newest(c.ticket)
    /\ \A o \in remembered : o.n <= Newest(o.ticket)

-----------------------------------------------------------------------------
(* A ticket that is open has at most one request under way, the one its     *)
(* worker waits for; a CREATE_TAB it may have given up.                     *)
Asks(m, t) == m.ticket = t /\ m.op # "create"

WaitsFor(t, op) ==
    /\ worker[t].reply = "none"
    /\ worker[t].at = op \/ (op = "inventory" /\ worker[t].at = "look")

OneAsked(t) ==
    /\ \A i \in 1 .. Len(toExtension) : Asks(toExtension[i], t) =>
          /\ WaitsFor(t, toExtension[i].op)
          /\ \A j \in 1 .. Len(toExtension) : Asks(toExtension[j], t) => j = i
          /\ \A j \in 1 .. Len(toBroker) : ~Asks(toBroker[j], t)
    /\ \A i \in 1 .. Len(toBroker) : Asks(toBroker[i], t) =>
          /\ WaitsFor(t, toBroker[i].op)
          /\ \A j \in 1 .. Len(toBroker) : Asks(toBroker[j], t) => j = i

Outstanding == \A t \in Ticket : Open(t) => OneAsked(t)

-----------------------------------------------------------------------------
(* The workspaces of a ticket are as many as its restarts have cost it, and *)
(* numbered.                                                                *)
Counted ==
    \A t \in Allocate :
        /\ Cardinality(Made(t)) <= restarts + (IF created[t] THEN 1 ELSE 0)
        /\ \A w \in Made(t) : w[2] <= Cardinality(Made(t))

(* The group it has made, and made no workspace of yet. *)
Grouped ==
    /\ \A i \in 1 .. Len(toExtension) :
          toExtension[i].op = "rename" => toExtension[i].group = NewGroup(toExtension[i].ticket)
    /\ \A i \in 1 .. Len(toBroker) :
          \/ toBroker[i].op = "group" /\ toBroker[i].answer = "ok"
          \/ toBroker[i].op = "rename"
          => toBroker[i].group = NewGroup(toBroker[i].ticket)
    /\ \A t \in Ticket :
          \/ worker[t].at = "group" /\ worker[t].reply = "ok"
          \/ worker[t].at = "rename"
          => worker[t].group = NewGroup(t)

(* A tab is in Home's group only if it was made for it, and in one of its   *)
(* ticket's groups otherwise.                                               *)
Belongs(tab, g) ==
    IF tab[1] \in Allocate THEN g = Ungrouped \/ g[1] = tab[1] ELSE g \in {Home, Ungrouped}

Owned(tabs) == \A tab \in DOMAIN tabs : Belongs(tab, tabs[tab])

Owners ==
    /\ Owned(group)
    /\ \A i \in 1 .. Len(toBroker) : Owned(toBroker[i].tabs)
    /\ \A t \in Ticket : Owned(worker[t].tabs)

(* A row is of a workspace, and only the newest of a tab's rows in one is   *)
(* active.                                                                  *)
RowsKept ==
    \A p \in DOMAIN rows :
        /\ p[2] \in workspaces /\ Belongs(p[1], p[2])
        /\ \A i \in 1 .. Len(rows[p]) : i # Len(rows[p]) => rows[p][i] = "closed"

-----------------------------------------------------------------------------
(* A creation is on its way to the extension, under way there, remembered,  *)
(* or lost.                                                                 *)
Creates(m, t, n) == m.op = "create" /\ m.ticket = t /\ m.n = n
Unsent(t, n) == \A i \in 1 .. Len(toExtension) : ~Creates(toExtension[i], t, n)
Under(t, n) == \E c \in creating : c.ticket = t /\ c.n = n
Known(t, n) == \E o \in remembered : o.ticket = t /\ o.n = n
There(t, n) == TabOf(t, n) \in DOMAIN group

Ordered ==
    \A i, j \in 1 .. Len(toExtension) :
        /\ toExtension[i].op = "create"
        /\ toExtension[j].op \in {"create", "reconcile"}
        /\ toExtension[i].ticket = toExtension[j].ticket /\ toExtension[i].n = toExtension[j].n
        => i <= j

Unbegun ==
    \A t \in Ticket, n \in 1 .. MaxAttempts :
        ~Unsent(t, n) => ~Under(t, n) /\ ~Known(t, n) /\ ~There(t, n)

Distinct ==
    /\ \A c, d \in creating : c.ticket = d.ticket /\ c.n = d.n => c = d
    /\ \A c \in creating : ~Known(c.ticket, c.n)
    /\ \A c \in creating : c.stage = "asked" => ~There(c.ticket, c.n)

Life == Ordered /\ Unbegun /\ Distinct

(* Who knows of a tab. *)
Accounted ==
    \A t \in Ticket, n \in 1 .. MaxAttempts : There(t, n) =>
        /\ n <= Newest(t)
        /\ \/ <<t, n>> \in misled
           \/ \E c \in creating : c.ticket = t /\ c.n = n /\ c.stage \in {"opened", "made"}
           \/ \E o \in remembered : o.ticket = t /\ o.n = n /\ o.ok

(* What an answer about an attempt means. *)
Judged(t, n, as) ==
    /\ Unsent(t, n)
    /\ as \in {"ok", "succeeded"} => ~Under(t, n)
    /\ as \in {"failed", "missing"} => <<t, n>> \in misled \/ (~Under(t, n) /\ ~There(t, n))

Answer == {"ok", "failed", "missing", "refused", "succeeded"}

Says(m, t, n, as) ==
    m.op \in {"create", "reconcile"} /\ m.ticket = t /\ m.n = n /\ m.answer = as

(* The answer is on the socket, with the worker, or in the journal. *)
Told(t, n, as) ==
    \/ \E i \in 1 .. Len(toBroker) : Says(toBroker[i], t, n, as)
    \/ worker[t].at \in {"create", "reconcile"} /\ worker[t].reply = as /\ n = Newest(t)
    \/ n \in 1 .. Newest(t) /\ attempts[t][n] = as

Judgements ==
    \A t \in Ticket, n \in 1 .. MaxAttempts, as \in Answer : Told(t, n, as) => Judged(t, n, as)

-----------------------------------------------------------------------------
(* The tab of an attempt that succeeded is gone before there is another, and *)
(* an inventory that was asked for since shows it if it is there.            *)
Succeeded(t, n) == attempts[t][n] = "succeeded"

Shows(tabs, t) ==
    \A n \in 1 .. Newest(t) : Succeeded(t, n) =>
        IF n = Newest(t) THEN There(t, n) => TabOf(t, n) \in DOMAIN tabs
                         ELSE TabOf(t, n) \notin DOMAIN tabs

(* What it asked for is on the socket, or with its worker. *)
Given(t, tabs) ==
    \/ Open(t) /\ \E i \in 1 .. Len(toBroker) :
          toBroker[i].op = "inventory" /\ toBroker[i].ticket = t /\ toBroker[i].tabs = tabs
    \/ Holds(t) /\ worker[t].tabs = tabs

Seen ==
    \A t \in Ticket :
        /\ \A n \in 1 .. Newest(t) : Succeeded(t, n) /\ n # Newest(t) => ~There(t, n)
        /\ \A tabs : Given(t, tabs) => Shows(tabs, t)

-----------------------------------------------------------------------------
(* What is grouped is the tab of the newest attempt, which succeeded. *)
Success(t) == Newest(t) > 0 /\ Succeeded(t, Newest(t))
Latest(t, tab) == Success(t) /\ tab = TabOf(t, Newest(t))

About(t, tab) ==
    \/ worker[t].at \in {"obtained", "group", "rename"} /\ worker[t].tab = tab
    \/ \E i \in 1 .. Len(toExtension) :
          /\ toExtension[i].op \in {"group", "rename"}
          /\ toExtension[i].ticket = t /\ toExtension[i].tab = tab

Placed(t, n) == There(t, n) /\ group[TabOf(t, n)] # Ungrouped

LatestOnly ==
    /\ \A t \in Ticket : \A tab : About(t, tab) => Latest(t, tab)
    /\ \A t \in Allocate : \A n \in 1 .. MaxAttempts :
          Placed(t, n) => n \in 1 .. Newest(t) /\ Succeeded(t, n)

NoInventory == \A i \in 1 .. Len(toBroker) : toBroker[i].op # "inventory"

NewestAt(i) ==
    /\ i \in 1 .. Len(toBroker) /\ toBroker[i].op = "inventory"
    /\ \A j \in 1 .. Len(toBroker) : toBroker[j].op = "inventory" => j <= i

(* The newest inventory is of the browser as it is, unless another is due:  *)
(* the one on the socket, or else the one a worker holds.                   *)
Recent(tabs) ==
    \/ \E i : NewestAt(i) /\ toBroker[i].tabs = tabs
    \/ NoInventory /\ \E t \in Ticket : Holds(t) /\ t \notin overtaken /\ worker[t].tabs = tabs

Uptodate == connected /\ ~due => \A tabs : Recent(tabs) => tabs = group

-----------------------------------------------------------------------------
(* Sequences and partial functions. *)

LEMMA Appended ==
    ASSUME NEW S, NEW s \in Seq(S), NEW x \in S
    PROVE  /\ Append(s, x) \in Seq(S) /\ Len(s) \in Nat /\ Len(Append(s, x)) = Len(s) + 1
           /\ \A i \in 1 .. Len(s) : Append(s, x)[i] = s[i]
           /\ Append(s, x)[Len(s) + 1] = x
  OBVIOUS

LEMMA Shortened ==
    ASSUME NEW S, NEW s \in Seq(S), s # <<>>
    PROVE  /\ Tail(s) \in Seq(S) /\ Len(s) \in Nat \ {0} /\ Len(Tail(s)) = Len(s) - 1
           /\ Head(s) = s[1] /\ s[1] \in S
           /\ \A i \in 1 .. Len(Tail(s)) : i + 1 \in 1 .. Len(s) /\ Tail(s)[i] = s[i + 1]
  OBVIOUS

LEMMA Replaced ==
    ASSUME NEW S, NEW s \in Seq(S), NEW i \in 1 .. Len(s), NEW x \in S
    PROVE  /\ [s EXCEPT ![i] = x] \in Seq(S)
           /\ Len([s EXCEPT ![i] = x]) = Len(s)
           /\ \A j \in 1 .. Len(s) : [s EXCEPT ![i] = x][j] = IF j = i THEN x ELSE s[j]
  BY ExceptSeq

LEMMA RowReplaced ==
    ASSUME NEW S, NEW s \in Seq(S), s # <<>>, NEW x \in S
    PROVE  /\ [s EXCEPT ![Len(s)] = x] \in Seq(S) \ {<<>>}
           /\ Len([s EXCEPT ![Len(s)] = x]) = Len(s)
           /\ \A j \in 1 .. Len(s) : [s EXCEPT ![Len(s)] = x][j] = IF j = Len(s) THEN x ELSE s[j]
  <1>1. Len(s) \in 1 .. Len(s)
    OBVIOUS
  <1> DEFINE r == [s EXCEPT ![Len(s)] = x]
  <1>2. /\ r \in Seq(S) /\ Len(r) = Len(s)
        /\ \A j \in 1 .. Len(s) : r[j] = IF j = Len(s) THEN x ELSE s[j]
    BY <1>1, Replaced
  <1> HIDE DEF r
  <1>3. r # <<>>
    BY <1>1, <1>2
  <1> QED
    BY <1>2, <1>3 DEF r

LEMMA IsTabs ==
    ASSUME NEW D \in SUBSET AnyTab, NEW f \in [D -> Group]
    PROVE  f \in Tabs
  BY DEF Tabs

LEMMA OfTabs ==
    ASSUME NEW f \in Tabs
    PROVE  DOMAIN f \subseteq AnyTab /\ f \in [DOMAIN f -> Group]
  BY DEF Tabs

LEMMA OfRows ==
    ASSUME NEW f \in Rows
    PROVE  /\ DOMAIN f \subseteq AnyTab \X Group
           /\ f \in [DOMAIN f -> Seq(RowState) \ {<<>>}]
  BY DEF Rows

LEMMA IsRows ==
    ASSUME NEW D \in SUBSET (AnyTab \X Group),
           NEW f \in [D -> Seq(RowState) \ {<<>>}]
    PROVE  f \in Rows
  BY DEF Rows

(* Reconcile() and addTab() on rows. *)
LEMMA Reconciled ==
    ASSUME rows \in Rows, workspaces \subseteq Group, NEW tabs \in Tabs, Reconcile(tabs)
    PROVE  rows' \in Rows /\ missing' \subseteq workspaces
  <1> DEFINE new == {<<tab, tabs[tab]>> : tab \in {x \in DOMAIN tabs : tabs[x] \in workspaces}}
             D == DOMAIN rows \cup new
  <1>1. D \in SUBSET (AnyTab \X Group)
    BY OfTabs, OfRows
  <1>2. ASSUME NEW p \in DOMAIN rows, NEW as \in RowState
        PROVE  [rows[p] EXCEPT ![Len(rows[p])] = as] \in Seq(RowState) \ {<<>>}
    <2>1. rows[p] \in Seq(RowState) /\ rows[p] # <<>>
      BY OfRows
    <2>2. ASSUME NEW s \in Seq(RowState), s # <<>>
          PROVE  [s EXCEPT ![Len(s)] = as] \in Seq(RowState) \ {<<>>}
      BY <2>2, RowReplaced
    <2> QED
      BY <2>1, <2>2
  <1>3. rows' \in [D -> Seq(RowState) \ {<<>>}]
    <2>1. <<"active">> \in Seq(RowState) \ {<<>>}
      BY DEF RowState
    <2>2. \A p \in DOMAIN rows : rows[p] \in Seq(RowState) \ {<<>>}
      BY OfRows
    <2> QED
      BY <1>2, <2>1, <2>2 DEF Reconcile, RowState
  <1>4. missing' \subseteq workspaces
    BY DEF Reconcile
  <1> QED
    BY <1>1, <1>3, <1>4, IsRows

LEMMA RowAddedType ==
    ASSUME rows \in Rows, NEW tab \in AnyTab, NEW w \in Group
    PROVE  RowAdded(tab, w) \in Rows
  <1> DEFINE D == DOMAIN rows \cup {<<tab, w>>}
  <1>1. D \in SUBSET (AnyTab \X Group)
    BY OfRows
  <1>2. \A p \in DOMAIN rows : rows[p] \in Seq(RowState) \ {<<>>}
    BY OfRows
  <1>3. \A p \in DOMAIN rows : Append(rows[p], "active") \in Seq(RowState) \ {<<>>}
    <2> TAKE p \in DOMAIN rows
    <2>1. rows[p] \in Seq(RowState)
      BY <1>2
    <2> QED
      BY <2>1 DEF RowState
  <1>4. <<"active">> \in Seq(RowState) \ {<<>>}
    BY DEF RowState
  <1>5. RowAdded(tab, w) \in [D -> Seq(RowState) \ {<<>>}]
    BY <1>2, <1>3, <1>4 DEF RowAdded
  <1> QED
    BY <1>1, <1>5, IsRows

(* What is known of a ticket in numbers. *)
LEMMA Numbers ==
    ASSUME Shape, NEW t \in Ticket
    PROVE  /\ MaxAttempts \in Nat \ {0} /\ Newest(t) \in Nat
           /\ Len(toExtension) \in Nat /\ Len(toBroker) \in Nat
           /\ \A n \in 1 .. Newest(t) : attempts[t][n] \in Try
           /\ DOMAIN attempts[t] = 1 .. Newest(t)
  BY TabCreationAssumption DEF Shape, Newest

(* The pending attempt is the newest. *)
LEMMA PendingIsNewest ==
    ASSUME Shape, Control, NEW t \in Ticket, Pending(t) # {}
    PROVE  /\ Max(Pending(t)) = Newest(t) /\ Newest(t) \in 1 .. MaxAttempts
           /\ attempts[t][Newest(t)] = "dispatched"
  <1>1. /\ Newest(t) \in Nat /\ DOMAIN attempts[t] = 1 .. Newest(t) /\ Newest(t) <= MaxAttempts
        /\ \A n \in 1 .. Newest(t) : attempts[t][n] = "dispatched" => n = Newest(t)
        /\ MaxAttempts \in Nat
    BY Numbers DEF Control
  <1>2. Pending(t) = {Newest(t)}
    BY <1>1 DEF Pending
  <1>3. Newest(t) \in 1 .. Newest(t) /\ attempts[t][Newest(t)] = "dispatched"
    BY <1>1, <1>2 DEF Pending
  <1>4. Max({Newest(t)}) = Newest(t)
    BY <1>1 DEF Max
  <1> QED
    BY <1>1, <1>2, <1>3, <1>4

LEMMA PendingAtWork ==
    ASSUME Shape, Control, NEW t \in Ticket, worker[t].at \in {"create", "reconcile"}
    PROVE  Pending(t) # {}
  <1>1. Newest(t) \in Nat /\ DOMAIN attempts[t] = 1 .. Newest(t)
    BY Numbers
  <1>2. Newest(t) > 0 /\ attempts[t][Newest(t)] = "dispatched"
    BY DEF Control, AtWork
  <1> QED
    BY <1>1, <1>2 DEF Pending

-----------------------------------------------------------------------------
(* What a step of a ticket's worker amounts to.                            *)
WorkerAction(t) == WorkerStep(t) \/ ElsewherePauses(t) \/ TimesOut(t)

(* Nothing of any other ticket changes, nor anything of the extension. *)
Apart(t) ==
    /\ UNCHANGED <<connected, pending, toBroker, extension, misled, restarts>>
    /\ \A u \in Ticket \ {t} :
          /\ worker'[u] = worker[u] /\ state'[u] = state[u] /\ paused'[u] = paused[u]
          /\ place'[u] = place[u] /\ created'[u] = created[u] /\ attempts'[u] = attempts[u]

(* It makes an attempt, or learns of the newest. *)
Verdict(reply) == IF reply = "ok" THEN "succeeded" ELSE reply

Learns(t) ==
    /\ worker[t].at \in {"create", "reconcile"} /\ worker[t].reply \in {"ok", "failed", "missing"}
    /\ Newest(t)' = Newest(t)
    /\ attempts'[t][Newest(t)] = Verdict(worker[t].reply)
    /\ \A n \in 1 .. Newest(t) : n # Newest(t) => attempts'[t][n] = attempts[t][n]

Tries(t) ==
    /\ Answered(t, "inventory", "ok") /\ PriorSuccess(t) = {}
    /\ \A n \in 1 .. Newest(t) : attempts[t][n] # "dispatched"
    /\ Newest(t)' = Newest(t) + 1 /\ Newest(t)' <= MaxAttempts
    /\ attempts'[t][Newest(t)'] = "dispatched"
    /\ \A n \in 1 .. Newest(t) : attempts'[t][n] = attempts[t][n]

(* It asks the extension, or not. *)
Requests(t) ==
    \E r \in Request :
        /\ toExtension' = Append(toExtension, r) /\ r.ticket = t
        /\ WaitsFor(t, r.op)'
        /\ r.tab = worker'[t].tab /\ r.group = worker'[t].group
        /\ r.op \in {"create", "reconcile"} => r.n = Newest(t)'
        /\ r.op = "create" => Tries(t)

(* It waits for nothing, but perhaps a CREATE_TAB, or ends. *)
Free(t) ==
    \/ worker[t].reply # "none"
    \/ worker[t].at \in {"idle", "obtained", "elsewhere", "create"}

(* It reconciles the inventory it holds, or adds a row. *)
Rewrites(t) ==
    \/ UNCHANGED <<rows, missing, workspaces, created, stale, overtaken>>
    \/ /\ Holds(t) /\ Reconcile(worker[t].tabs) /\ UNCHANGED <<workspaces, created>>
       /\ stale' = (t \in overtaken) /\ overtaken' = overtaken \ {t}
    \/ CreateSucceeds(t)
    \/ WorkspaceMade(t)

(* The tab and the group it goes on with. *)
Carries(t) ==
    /\ worker'[t].at \in {"obtained", "group", "rename"} =>
          \/ Learns(t) /\ worker[t].reply = "ok" /\ worker'[t].tab = TabOf(t, Newest(t))
          \/ worker[t].at \in {"obtained", "group", "rename"} /\ worker'[t].tab = worker[t].tab
             /\ attempts' = attempts
          \/ Holds(t) /\ attempts' = attempts
             /\ \E n \in PriorSuccess(t) : worker'[t].tab = TabOf(t, n)
    /\ worker'[t].at = "rename" => Answered(t, "group", "ok") /\ worker'[t].group = worker[t].group

Worked(t) ==
    /\ Open(t) /\ Apart(t)
    /\ AtWork(t)' /\ (created'[t] => place'[t] = "elsewhere" /\ t \in Allocate)
    /\ worker'[t].reply = "none" /\ worker'[t].tabs \in {NoTabs, worker[t].tabs}
    /\ Carries(t)
    /\ attempts' = attempts \/ Learns(t) \/ Tries(t)
    /\ toExtension' = toExtension \/ Requests(t)
    /\ Tries(t) => toExtension' # toExtension
    /\ Open(t)' => Free(t)
    /\ Rewrites(t)

Typed ==
    /\ state' \in [Ticket -> {"none", "running", "succeeded", "failed"}]
    /\ paused' \in [Ticket -> BOOLEAN] /\ created' \in [Ticket -> BOOLEAN]
    /\ place' \in [Ticket -> {"none", "here", "elsewhere"}]
    /\ attempts' \in [Ticket -> Seq(Try)]
    /\ worker' \in [Ticket -> Work]
    /\ toExtension' \in Seq(Request)
    /\ faults' \in Nat /\ faults' <= faults

LEMMA NoTabsType == NoTabs \in Tabs /\ Home \in AnyTab /\ Home \in Named /\ Named \subseteq Group
  <1>1. NoTabs \in [{} -> Group]
    BY DEF NoTabs
  <1> QED
    BY <1>1, IsTabs DEF AnyTab, Home, Named, Group

LEMMA IdleType ==
    /\ Idle \in Work /\ Idle.at = "idle" /\ Idle.reply = "none" /\ Idle.tabs = NoTabs
    /\ \A at \in {"look", "inventory", "create", "reconcile", "obtained", "group", "rename",
                  "elsewhere"} :
          /\ Awaiting(at) \in Work
          /\ Awaiting(at).at = at /\ Awaiting(at).reply = "none" /\ Awaiting(at).tabs = NoTabs
  BY NoTabsType DEF Idle, Awaiting, Work

(* Ask() puts one request on the socket. *)
LEMMA Asking ==
    ASSUME Shape, NEW t \in Ticket, NEW w \in Work, w.reply = "none",
           w.at \in {"look", "inventory", "create", "reconcile", "group", "rename"},
           NEW n \in 0 .. MaxAttempts, Ask(t, w, n)
    PROVE  /\ worker' \in [Ticket -> Work] /\ worker'[t] = w
           /\ \A u \in Ticket \ {t} : worker'[u] = worker[u]
           /\ toExtension' \in Seq(Request) /\ UNCHANGED <<connected, pending, toBroker>>
           /\ \E r \in Request :
                 /\ toExtension' = Append(toExtension, r) /\ r.ticket = t /\ r.n = n
                 /\ WaitsFor(t, r.op)' /\ r.tab = w.tab /\ r.group = w.group
                 /\ r.op = IF w.at = "look" THEN "inventory" ELSE w.at
           /\ toExtension' # toExtension
  <1> DEFINE r == [op |-> IF w.at = "look" THEN "inventory" ELSE w.at, ticket |-> t, n |-> n,
                   tab |-> w.tab, group |-> w.group]
  <1>1. worker \in [Ticket -> Work] /\ toExtension \in Seq(Request)
    BY DEF Shape
  <1>2. worker' = [worker EXCEPT ![t] = w]
    BY DEF Ask
  <1>3. /\ worker' \in [Ticket -> Work] /\ worker'[t] = w
        /\ \A u \in Ticket \ {t} : worker'[u] = worker[u]
    BY <1>1, <1>2
  <1>4. r \in Request
    BY DEF Work, Request, Op
  <1>5. toExtension' = Append(toExtension, r)
    BY DEF Ask
  <1>6. WaitsFor(t, r.op)'
    BY <1>3 DEF WaitsFor
  <1>7. r.ticket = t /\ r.n = n /\ r.tab = w.tab /\ r.group = w.group
        /\ r.op = IF w.at = "look" THEN "inventory" ELSE w.at
    OBVIOUS
  <1>8. UNCHANGED <<connected, pending, toBroker>>
    BY DEF Ask
  <1> HIDE DEF r
  <1>9. toExtension' \in Seq(Request) /\ toExtension' # toExtension
    BY <1>1, <1>4, <1>5, Appended
  <1> QED
    BY <1>3, <1>4, <1>5, <1>6, <1>7, <1>8, <1>9

Base == Shape /\ Control /\ Addressed

(* What holds of every worker that waits or goes on. *)
LEMMA OfWorker ==
    ASSUME Base, NEW t \in Ticket
    PROVE  /\ worker \in [Ticket -> Work] /\ worker[t] \in Work /\ AtWork(t)
           /\ attempts \in [Ticket -> Seq(Try)] /\ attempts[t] \in Seq(Try)
           /\ worker[t].tab \in AnyTab /\ worker[t].group \in Named /\ worker[t].tabs \in Tabs
           /\ created[t] => place[t] = "elsewhere" /\ t \in Allocate
           /\ Newest(t) \in Nat /\ Newest(t) <= MaxAttempts /\ MaxAttempts \in Nat \ {0}
           /\ faults \in Nat /\ toExtension \in Seq(Request)
  BY Numbers DEF Base, Shape, Control, Work

(* A worker asks something more: the ticket's attempts are as they were. *)
LEMMA WorkedAsking ==
    ASSUME Base, NEW t \in Ticket, Open(t), ~paused[t], Free(t), ~created[t],
           NEW w \in Work, w.reply = "none", w.tabs = NoTabs, NEW n \in 0 .. MaxAttempts,
           w.at \in {"look", "inventory", "reconcile", "group", "rename"}, Ask(t, w, n),
           w.at = "reconcile" => Pending(t) # {} /\ n = Newest(t),
           w.at \in {"group", "rename"} =>
               /\ t \in Allocate /\ worker[t].at \in {"obtained", "group", "rename"}
               /\ w.tab = worker[t].tab,
           w.at = "rename" => Answered(t, "group", "ok") /\ w.group = worker[t].group,
           place' = [place EXCEPT ![t] = "here"],
           UNCHANGED <<state, paused, created, attempts, extension, misled, restarts>>,
           faults' \in Nat, faults' <= faults, Rewrites(t)
    PROVE  Worked(t) /\ Typed
  <1>0. Shape
    BY DEF Base
  <1>1. /\ worker' \in [Ticket -> Work] /\ worker'[t] = w
        /\ \A u \in Ticket \ {t} : worker'[u] = worker[u]
        /\ toExtension' \in Seq(Request) /\ UNCHANGED <<connected, pending, toBroker>>
        /\ \E r \in Request :
              /\ toExtension' = Append(toExtension, r) /\ r.ticket = t /\ r.n = n
              /\ WaitsFor(t, r.op)' /\ r.tab = w.tab /\ r.group = w.group
              /\ r.op = IF w.at = "look" THEN "inventory" ELSE w.at
    BY <1>0, Asking
  <1>2. PICK r \in Request :
              /\ toExtension' = Append(toExtension, r) /\ r.ticket = t /\ r.n = n
              /\ WaitsFor(t, r.op)' /\ r.tab = w.tab /\ r.group = w.group
              /\ r.op = IF w.at = "look" THEN "inventory" ELSE w.at
    BY <1>1
  <1>3. Requests(t)
    <2>1. r.op = "reconcile" => r.n = Newest(t)'
      BY <1>2 DEF Newest
    <2>2. r.op # "create"
      BY <1>2
    <2> QED
      BY <1>1, <1>2, <2>1, <2>2 DEF Requests
  <1>4. Apart(t)
    BY <1>0, <1>1 DEF Apart, Shape
  <1>5. AtWork(t)'
    <2>1. w.at = "reconcile" => Newest(t) > 0 /\ attempts[t][Newest(t)] = "dispatched"
      BY <1>0, PendingIsNewest DEF Base
    <2>2. w.at \in {"group", "rename"} => w.tab[1] = t
      BY OfWorker DEF AtWork
    <2>3. Open(t)' /\ ~paused'[t] /\ place'[t] = "here" /\ ~created'[t]
      BY <1>0 DEF Open, Shape
    <2> QED
      BY <1>1, <2>1, <2>2, <2>3 DEF AtWork, Newest
  <1>6. Carries(t)
    BY <1>1 DEF Carries
  <1>7. Typed
    BY <1>0, <1>1 DEF Typed, Shape
  <1>8. ~Tries(t)
    BY <1>0, Numbers DEF Tries, Newest
  <1> QED
    BY <1>1, <1>3, <1>4, <1>5, <1>6, <1>7, <1>8 DEF Worked

(* It asks nothing: its operation is done, or it ends. *)
LEMMA WorkedAlone ==
    ASSUME Base, NEW t \in Ticket, Open(t), Apart(t), Open(t)' => Free(t), Typed,
           worker'[t].reply = "none", worker'[t].tabs = NoTabs \/ worker'[t] = worker[t],
           worker'[t].at \in {"idle", "obtained", "elsewhere"},
           worker'[t].at = "idle" \/ (Open(t)' /\ ~paused'[t]),
           worker'[t].at = "obtained" =>
               place'[t] = "here" /\ ~created'[t] /\ worker'[t].tab[1] = t /\ Carries(t),
           worker'[t].at = "elsewhere" => created'[t],
           created'[t] => place'[t] = "elsewhere" /\ t \in Allocate,
           attempts' = attempts \/ Learns(t), toExtension' = toExtension,
           Rewrites(t)
    PROVE  Worked(t)
  <1>1. AtWork(t)'
    BY DEF AtWork
  <1>2. Carries(t)
    BY DEF Carries
  <1>3. ~Tries(t)
    BY Numbers DEF Tries, Learns, Newest, Base
  <1> QED
    BY <1>1, <1>2, <1>3 DEF Worked

LEMMA StartWorkWorks ==
    ASSUME Base, NEW t \in Ticket, StartWork(t)
    PROVE  Worked(t) /\ Typed
  <1>0. /\ Open(t) /\ ~paused[t] /\ worker[t].at = "idle" /\ ~created[t]
        /\ place' = [place EXCEPT ![t] = "here"]
        /\ UNCHANGED <<state, created, attempts, extension, misled, restarts, faults>>
        /\ UNCHANGED <<rows, missing, workspaces, stale, overtaken>>
    BY DEF StartWork, Startable, browser, history, counts
  <1>1. Rewrites(t)
    BY <1>0 DEF Rewrites
  <1>2. Free(t) /\ faults \in Nat /\ 0 \in 0 .. MaxAttempts
    BY <1>0, OfWorker DEF Free
  <1>3. CASE connected
    <2>1. Ask(t, Awaiting("look"), 0) /\ UNCHANGED paused
      BY <1>3 DEF StartWork
    <2>2. /\ Awaiting("look") \in Work /\ Awaiting("look").at = "look"
          /\ Awaiting("look").reply = "none" /\ Awaiting("look").tabs = NoTabs
      BY IdleType
    <2>3. /\ UNCHANGED <<state, paused, created, attempts, extension, misled, restarts>>
          /\ faults' \in Nat /\ faults' <= faults
      BY <1>0, <1>2, <2>1
    <2> QED
      BY <1>0, <1>1, <1>2, <2>1, <2>2, <2>3, WorkedAsking
  <1>4. CASE ~connected
    <2>1. paused' = [paused EXCEPT ![t] = TRUE] /\ UNCHANGED <<worker, link>>
      BY <1>4 DEF StartWork
    <2>2. Typed
      BY <1>0, <2>1 DEF Typed, Base, Shape, link
    <2>3. Apart(t)
      BY <1>0, <2>1 DEF Apart, Base, Shape, link
    <2>4. worker'[t].reply = "none" /\ worker'[t] = worker[t] /\ worker'[t].at = "idle"
      BY <1>0, <2>1, OfWorker DEF AtWork
    <2>5. UNCHANGED toExtension /\ ~created'[t]
      BY <1>0, <2>1 DEF link
    <2> QED
      BY <1>0, <1>1, <1>2, <2>2, <2>3, <2>4, <2>5, WorkedAlone
  <1> QED
    BY <1>3, <1>4

(* Going on after an inventory. *)
LEMMA Rewriting ==
    ASSUME NEW t \in Ticket, ReconcileAgain(t), UNCHANGED <<workspaces, created>>,
           Answered(t, "inventory", "ok") \/ Answered(t, "look", "ok")
    PROVE  Rewrites(t) /\ Holds(t) /\ Free(t) /\ misled' = misled
  BY DEF Rewrites, ReconcileAgain, Holds, Answered, Free

LEMMA AsksWork ==
    ASSUME Base, NEW t \in Ticket,
           \/ Looked(t) \/ ReconcileAttempt(t) \/ CreateRefused(t) \/ AskGroup(t) \/ AskTitle(t)
           \/ TimesOut(t) /\ worker[t].at = "create"
    PROVE  Worked(t) /\ Typed
  <1> USE DEF Answered
  <1>0. /\ worker[t].at \notin {"idle", "elsewhere"}
        /\ AtWork(t) /\ faults \in Nat /\ MaxAttempts \in Nat \ {0}
    BY OfWorker DEF Looked, ReconcileAttempt, CreateRefused, AskGroup, AskTitle
  <1>1. /\ Open(t) /\ ~paused[t] /\ ~created[t] /\ place[t] = "here"
        /\ place = [place EXCEPT ![t] = "here"]
    BY <1>0 DEF AtWork, Base, Shape
  <1>2. 0 \in 0 .. MaxAttempts
    BY <1>0
  <1>3. /\ Awaiting("inventory") \in Work /\ Awaiting("inventory").at = "inventory"
        /\ Awaiting("inventory").reply = "none" /\ Awaiting("inventory").tabs = NoTabs
    BY IdleType
  <1>4. CASE Looked(t)
    <2>1. /\ Ask(t, Awaiting("inventory"), 0)
          /\ UNCHANGED <<state, paused, place, created, attempts, extension, restarts, faults>>
      BY <1>4 DEF Looked, tickets, counts
    <2>2. Rewrites(t) /\ Free(t) /\ misled' = misled
      BY <1>4, <2>1, Rewriting DEF Looked
    <2> QED
      BY <1>0, <1>1, <1>2, <1>3, <2>1, <2>2, WorkedAsking
  <1>5. CASE ReconcileAttempt(t)
    <2>1. /\ Ask(t, Awaiting("reconcile"), Max(Pending(t))) /\ Pending(t) # {}
          /\ UNCHANGED <<state, paused, place, created, attempts, extension, restarts, faults>>
      BY <1>5 DEF ReconcileAttempt, tickets, counts
    <2>2. Rewrites(t) /\ Free(t) /\ misled' = misled
      BY <1>5, <2>1, Rewriting DEF ReconcileAttempt
    <2>3. Max(Pending(t)) = Newest(t) /\ Newest(t) \in 0 .. MaxAttempts
      BY <1>0, <2>1, PendingIsNewest DEF Base
    <2>4. /\ Awaiting("reconcile") \in Work /\ Awaiting("reconcile").at = "reconcile"
          /\ Awaiting("reconcile").reply = "none" /\ Awaiting("reconcile").tabs = NoTabs
      BY IdleType
    <2> QED
      BY <1>0, <1>1, <2>1, <2>2, <2>3, <2>4, WorkedAsking
  <1>6. CASE CreateRefused(t) \/ (TimesOut(t) /\ worker[t].at = "create")
    <2>1. /\ Ask(t, Awaiting("inventory"), 0) /\ worker[t].at = "create"
          /\ UNCHANGED <<state, paused, place, created, attempts, extension, restarts>>
          /\ UNCHANGED <<rows, missing, workspaces, stale, overtaken, misled>>
          /\ faults' = faults \/ Fault
      BY <1>6 DEF CreateRefused, TimesOut, tickets, counts, history, browser
    <2>3. faults' \in Nat /\ faults' <= faults
      BY <1>0, <2>1 DEF Fault
    <2>2. Rewrites(t) /\ Free(t)
      BY <2>1 DEF Rewrites, Free
    <2> QED
      BY <1>1, <1>2, <1>3, <2>1, <2>2, <2>3, WorkedAsking
  <1>7. CASE AskGroup(t)
    <2> DEFINE w == [Awaiting("group") EXCEPT !.tab = worker[t].tab]
    <2>1. /\ Ask(t, w, 0) /\ worker[t].at = "obtained" /\ t \in Allocate
          /\ UNCHANGED <<state, paused, place, created, attempts, extension, restarts, faults>>
          /\ UNCHANGED <<rows, missing, workspaces, stale, overtaken, misled>>
      BY <1>7 DEF AskGroup, tickets, counts, history, browser
    <2>2. /\ w \in Work /\ w.at = "group" /\ w.reply = "none" /\ w.tabs = NoTabs
          /\ w.tab = worker[t].tab
      BY OfWorker, IdleType DEF Awaiting, Idle, Work
    <2>3. Rewrites(t) /\ Free(t)
      BY <2>1 DEF Rewrites, Free
    <2> HIDE DEF w
    <2> QED
      BY <1>0, <1>1, <1>2, <2>1, <2>2, <2>3, WorkedAsking
  <1>8. CASE AskTitle(t)
    <2> DEFINE w == [Awaiting("rename") EXCEPT !.tab = worker[t].tab, !.group = worker[t].group]
    <2>1. /\ Ask(t, w, 0) /\ Answered(t, "group", "ok")
          /\ UNCHANGED <<state, paused, place, created, attempts, extension, restarts, faults>>
          /\ UNCHANGED <<rows, missing, workspaces, stale, overtaken, misled>>
      BY <1>8 DEF AskTitle, tickets, counts, history, browser
    <2>2. /\ w \in Work /\ w.at = "rename" /\ w.reply = "none" /\ w.tabs = NoTabs
          /\ w.tab = worker[t].tab /\ w.group = worker[t].group
      BY OfWorker, IdleType DEF Awaiting, Idle, Work
    <2>3. Rewrites(t) /\ Free(t) /\ t \in Allocate
      BY <1>0, <2>1 DEF Rewrites, Free, AtWork
    <2> HIDE DEF w
    <2> QED
      BY <1>0, <1>1, <1>2, <2>1, <2>2, <2>3, WorkedAsking
  <1> QED
    BY <1>4, <1>5, <1>6, <1>7, <1>8

(* The worker ends, its ticket too. *)
LEMMA EndsWork ==
    ASSUME Base, NEW t \in Ticket, worker[t].at # "idle",
           state' = [state EXCEPT ![t] = "failed"] \/ state' = [state EXCEPT ![t] = "succeeded"],
           worker' = [worker EXCEPT ![t] = Idle],
           UNCHANGED <<paused, place, created, attempts, link, extension, misled, restarts>>,
           faults' \in Nat, faults' <= faults, Rewrites(t)
    PROVE  Worked(t) /\ Typed
  <1>1. /\ Open(t) /\ worker \in [Ticket -> Work]
        /\ created[t] => place[t] = "elsewhere" /\ t \in Allocate
    BY OfWorker DEF AtWork
  <1>2. /\ worker' \in [Ticket -> Work] /\ worker'[t] = Idle
        /\ \A u \in Ticket \ {t} : worker'[u] = worker[u]
    BY <1>1, IdleType
  <1>3. /\ state' \in [Ticket -> {"none", "running", "succeeded", "failed"}]
        /\ state'[t] # "running" /\ \A u \in Ticket \ {t} : state'[u] = state[u]
    BY DEF Base, Shape
  <1>4. Typed
    BY <1>2, <1>3 DEF Typed, Base, Shape, link
  <1>5. Apart(t)
    BY <1>2, <1>3 DEF Apart, link
  <1>6. /\ worker'[t].reply = "none" /\ worker'[t].tabs = NoTabs /\ worker'[t].at = "idle"
        /\ ~Open(t)'
    BY <1>2, <1>3, IdleType DEF Open
  <1>7. toExtension' = toExtension /\ attempts' = attempts
        /\ (created'[t] => place'[t] = "elsewhere" /\ t \in Allocate)
    BY <1>1 DEF link
  <1> QED
    BY <1>1, <1>4, <1>5, <1>6, <1>7, WorkedAlone

LEMMA EndingsWork ==
    ASSUME Base, NEW t \in Ticket,
           \/ Exhausted(t) \/ OperationFails(t) \/ CreateSucceeds(t)
           \/ ElsewhereEnds(t, "succeeded") \/ ElsewhereEnds(t, "failed")
           \/ TimesOut(t) /\ worker[t].at # "create"
    PROVE  Worked(t) /\ Typed
  <1>0. worker[t].at # "idle" /\ faults \in Nat
    BY OfWorker DEF Exhausted, OperationFails, CreateSucceeds, ElsewhereEnds, TimesOut, Answered
  <1>1. CASE Exhausted(t)
    <2>1. Rewrites(t) /\ misled' = misled
      BY <1>1, Rewriting DEF Exhausted, Ends
    <2>2. /\ state' = [state EXCEPT ![t] = "failed"]
          /\ worker' = [worker EXCEPT ![t] = Idle]
          /\ UNCHANGED <<paused, place, created, attempts, link, extension, restarts>>
          /\ faults' = faults
      BY <1>1 DEF Exhausted, Ends, counts
    <2>3. faults' \in Nat /\ faults' <= faults
      BY <1>0, <2>2
    <2> QED
      BY <1>0, <2>1, <2>2, <2>3, EndsWork
  <1>2. CASE OperationFails(t) \/ ElsewhereEnds(t, "succeeded") \/ ElsewhereEnds(t, "failed")
    <2>1. /\ Ends(t, "succeeded") \/ Ends(t, "failed")
          /\ UNCHANGED <<browser, history>>
      BY <1>2 DEF OperationFails, ElsewhereEnds
    <2>2. Rewrites(t) /\ misled' = misled
      BY <2>1 DEF Rewrites, browser, history, Ends
    <2> QED
      BY <1>0, <2>1, <2>2, EndsWork DEF Ends, counts
  <1>3. CASE CreateSucceeds(t)
    <2>1. Rewrites(t) /\ misled' = misled /\ Ends(t, "succeeded")
      BY <1>3 DEF Rewrites, CreateSucceeds, history
    <2>2. /\ state' = [state EXCEPT ![t] = "succeeded"]
          /\ worker' = [worker EXCEPT ![t] = Idle]
          /\ UNCHANGED <<paused, place, created, attempts, link, extension, restarts>>
          /\ faults' = faults
      BY <2>1 DEF Ends, counts
    <2>3. faults' \in Nat /\ faults' <= faults
      BY <1>0, <2>2
    <2> QED
      BY <1>0, <2>1, <2>2, <2>3, EndsWork
  <1>4. CASE TimesOut(t) /\ worker[t].at # "create"
    <2>1. Rewrites(t) /\ misled' = misled
      BY <1>4 DEF Rewrites, TimesOut, browser, history
    <2>2. faults' \in Nat /\ faults' <= faults
      BY <1>0, <1>4 DEF TimesOut, Fault
    <2> QED
      BY <1>0, <1>4, <2>1, <2>2, EndsWork DEF TimesOut
  <1> QED
    BY <1>1, <1>2, <1>3, <1>4

LEMMA ElsewhereWorks ==
    ASSUME Base, NEW t \in Ticket,
           StartElsewhere(t) \/ ElsewherePauses(t) \/ ElsewhereResumes(t) \/ WorkspaceMade(t)
    PROVE  Worked(t) /\ Typed
  <1>0. /\ Open(t) /\ worker \in [Ticket -> Work] /\ AtWork(t) /\ faults \in Nat
        /\ created[t] => place[t] = "elsewhere" /\ t \in Allocate
    BY OfWorker
       DEF AtWork, StartElsewhere, Startable, ElsewherePauses, ElsewhereResumes, WorkspaceMade, Answered
  <1>1. CASE StartElsewhere(t)
    <2>1. /\ ~paused[t] /\ worker[t].at = "idle" /\ created[t]
          /\ worker' = [worker EXCEPT ![t] = Awaiting("elsewhere")]
          /\ UNCHANGED <<tickets, browser, link, extension, history, counts>>
      BY <1>1 DEF StartElsewhere, Startable
    <2>2. /\ worker' \in [Ticket -> Work] /\ worker'[t] = Awaiting("elsewhere")
          /\ \A u \in Ticket \ {t} : worker'[u] = worker[u]
      BY <1>0, <2>1, IdleType
    <2>3. Typed /\ Apart(t) /\ Rewrites(t)
      BY <1>0, <2>1, <2>2
         DEF Typed, Apart, Rewrites, Base, Shape, tickets, browser, link, history, counts
    <2>4. /\ worker'[t].reply = "none" /\ worker'[t].tabs = NoTabs /\ worker'[t].at = "elsewhere"
      BY <2>2, IdleType
    <2>5. /\ Open(t)' /\ ~paused'[t] /\ created'[t] /\ place'[t] = "elsewhere" /\ t \in Allocate
          /\ attempts' = attempts /\ toExtension' = toExtension
      BY <1>0, <2>1 DEF tickets, link, Open
    <2>6. Free(t)
      BY <2>1 DEF Free
    <2> QED
      BY <1>0, <2>3, <2>4, <2>5, <2>6, WorkedAlone
  <1>2. CASE ElsewherePauses(t)
    <2>1. /\ worker[t].at = "elsewhere" /\ Fault
          /\ paused' = [paused EXCEPT ![t] = TRUE]
          /\ worker' = [worker EXCEPT ![t] = Idle]
          /\ UNCHANGED <<state, place, created, attempts, browser, link, extension, history, restarts>>
      BY <1>2 DEF ElsewherePauses
    <2>2. /\ worker' \in [Ticket -> Work] /\ worker'[t] = Idle
          /\ \A u \in Ticket \ {t} : worker'[u] = worker[u]
      BY <1>0, <2>1, IdleType
    <2>3. faults' \in Nat /\ faults' <= faults
      BY <1>0, <2>1 DEF Fault
    <2>4. Typed /\ Apart(t) /\ Rewrites(t)
      <3>1. /\ paused' \in [Ticket -> BOOLEAN]
            /\ \A u \in Ticket \ {t} : paused'[u] = paused[u]
        BY <2>1 DEF Base, Shape
      <3>2. Typed
        BY <1>0, <2>1, <2>2, <2>3, <3>1 DEF Typed, Base, Shape, link
      <3>3. Apart(t)
        BY <2>1, <2>2, <2>3, <3>1 DEF Apart, link, history
      <3>4. Rewrites(t)
        BY <2>1 DEF Rewrites, browser, history
      <3> QED
        BY <3>2, <3>3, <3>4
    <2>5. /\ worker'[t].reply = "none" /\ worker'[t].tabs = NoTabs /\ worker'[t].at = "idle"
      BY <2>2, IdleType
    <2>6. /\ created'[t] => place'[t] = "elsewhere" /\ t \in Allocate
          /\ attempts' = attempts /\ toExtension' = toExtension
      BY <1>0, <2>1 DEF link
    <2>7. Free(t)
      BY <2>1 DEF Free
    <2> QED
      BY <1>0, <2>4, <2>5, <2>6, <2>7, WorkedAlone
  <1>3. CASE ElsewhereResumes(t)
    <2>1. /\ paused[t] /\ paused' = [paused EXCEPT ![t] = FALSE]
          /\ UNCHANGED <<state, place, created, attempts, browser, worker, link, extension, history,
                         counts>>
      BY <1>3 DEF ElsewhereResumes
    <2>2. Typed /\ Apart(t) /\ Rewrites(t)
      <3>1. /\ paused' \in [Ticket -> BOOLEAN]
            /\ \A u \in Ticket \ {t} : paused'[u] = paused[u]
        BY <2>1 DEF Base, Shape
      <3>2. Typed
        BY <1>0, <2>1, <3>1 DEF Typed, Base, Shape, link, counts
      <3>3. Apart(t)
        BY <2>1, <3>1 DEF Apart, link, history, counts
      <3>4. Rewrites(t)
        BY <2>1 DEF Rewrites, browser, history
      <3> QED
        BY <3>2, <3>3, <3>4
    <2>3. worker'[t] = worker[t] /\ worker[t].at = "idle" /\ worker[t].reply = "none"
      BY <1>0, <2>1 DEF AtWork
    <2>4. /\ created'[t] => place'[t] = "elsewhere" /\ t \in Allocate
          /\ attempts' = attempts /\ toExtension' = toExtension
      BY <1>0, <2>1 DEF link
    <2>5. Free(t)
      BY <2>3 DEF Free
    <2> QED
      BY <1>0, <2>2, <2>3, <2>4, <2>5, WorkedAlone
  <1>4. CASE WorkspaceMade(t)
    <2>1. /\ worker[t].at = "rename" /\ worker[t].reply = "ok"
          /\ created' = [created EXCEPT ![t] = TRUE]
          /\ place' = [place EXCEPT ![t] = "elsewhere"]
          /\ worker' = [worker EXCEPT ![t] = Awaiting("elsewhere")]
          /\ UNCHANGED <<state, paused, attempts, missing, link, extension, history, counts>>
      BY <1>4 DEF WorkspaceMade, Answered
    <2>2. /\ worker' \in [Ticket -> Work] /\ worker'[t] = Awaiting("elsewhere")
          /\ \A u \in Ticket \ {t} : worker'[u] = worker[u]
      BY <1>0, <2>1, IdleType
    <2>3. Typed /\ Apart(t)
      BY <1>0, <2>1, <2>2 DEF Typed, Apart, Base, Shape, link, history, counts
    <2>4. /\ worker'[t].reply = "none" /\ worker'[t].tabs = NoTabs /\ worker'[t].at = "elsewhere"
      BY <2>2, IdleType
    <2>5. /\ Open(t)' /\ ~paused'[t] /\ created'[t] /\ place'[t] = "elsewhere" /\ t \in Allocate
          /\ attempts' = attempts /\ toExtension' = toExtension
      BY <1>0, <2>1 DEF link, Open, AtWork, Base, Shape
    <2>6. Free(t) /\ Rewrites(t)
      BY <1>4, <2>1 DEF Free, Rewrites
    <2> QED
      BY <1>0, <2>3, <2>4, <2>5, <2>6, WorkedAlone
  <1> QED
    BY <1>1, <1>2, <1>3, <1>4

LEMMA PriorSuccessWorks ==
    ASSUME Base, NEW t \in Ticket, UsePriorSuccess(t)
    PROVE  Worked(t) /\ Typed
  <1>1. /\ Answered(t, "inventory", "ok") /\ ReconcileAgain(t)
        /\ UNCHANGED <<tickets, workspaces, link, extension, counts>>
    BY DEF UsePriorSuccess
  <1>2. PICK n \in PriorSuccess(t) : worker' = [worker EXCEPT ![t] = Obtained(TabOf(t, n))]
    BY DEF UsePriorSuccess
  <1>3. /\ worker \in [Ticket -> Work] /\ worker[t].at = "inventory" /\ AtWork(t) /\ faults \in Nat
        /\ worker[t].tabs \in Tabs
    BY <1>1, OfWorker DEF Answered
  <1>4. TabOf(t, n) \in AnyTab /\ TabOf(t, n)[1] = t
    BY <1>3, OfTabs DEF PriorSuccess, TabOf
  <1>5. /\ Obtained(TabOf(t, n)) \in Work /\ Obtained(TabOf(t, n)).at = "obtained"
        /\ Obtained(TabOf(t, n)).reply = "none" /\ Obtained(TabOf(t, n)).tabs = NoTabs
        /\ Obtained(TabOf(t, n)).tab = TabOf(t, n)
    BY <1>4, IdleType DEF Obtained, Awaiting, Idle, Work
  <1>6. /\ worker' \in [Ticket -> Work] /\ worker'[t] = Obtained(TabOf(t, n))
        /\ \A u \in Ticket \ {t} : worker'[u] = worker[u]
    BY <1>2, <1>3, <1>5
  <1>7. Rewrites(t) /\ Holds(t) /\ Free(t) /\ misled' = misled
    BY <1>1, Rewriting DEF tickets
  <1>8. Typed /\ Apart(t)
    BY <1>1, <1>3, <1>6, <1>7 DEF Typed, Apart, Base, Shape, tickets, link, counts
  <1>9. attempts' = attempts /\ toExtension' = toExtension
    BY <1>1 DEF tickets, link
  <1>10. Open(t) /\ Open(t)' /\ ~paused'[t] /\ place'[t] = "here" /\ ~created'[t]
    BY <1>1, <1>3 DEF AtWork, tickets, Open
  <1>11. Carries(t)
    BY <1>2, <1>5, <1>6, <1>7, <1>9 DEF Carries
  <1> QED
    BY <1>4, <1>5, <1>6, <1>7, <1>8, <1>9, <1>10, <1>11, WorkedAlone

(* The answer to the newest attempt. *)
LEMMA Finishing ==
    ASSUME Base, NEW t \in Ticket, NEW as \in {"succeeded", "failed", "missing"}, Finishes(t, as),
           worker[t].at \in {"create", "reconcile"}, worker[t].reply \in {"ok", "failed", "missing"},
           as = Verdict(worker[t].reply)
    PROVE  Worked(t) /\ Typed
  <1> DEFINE k == Newest(t)
  <1>0. /\ worker \in [Ticket -> Work] /\ AtWork(t) /\ faults \in Nat /\ MaxAttempts \in Nat \ {0}
        /\ attempts \in [Ticket -> Seq(Try)] /\ attempts[t] \in Seq(Try)
        /\ k \in Nat /\ k <= MaxAttempts
    BY OfWorker
  <1>1. /\ Max(Pending(t)) = k /\ k \in 1 .. MaxAttempts
        /\ attempts[t][k] = "dispatched"
    BY PendingAtWork, PendingIsNewest DEF Base
  <1>2. /\ attempts' = [attempts EXCEPT ![t][k] = as]
        /\ UNCHANGED <<state, paused, place, created, browser, extension, history, counts>>
        /\ IF as = "succeeded"
           THEN worker' = [worker EXCEPT ![t] = Obtained(TabOf(t, k))] /\ UNCHANGED link
           ELSE Ask(t, Awaiting("inventory"), 0)
    BY <1>1 DEF Finishes
  <1>3. /\ [attempts[t] EXCEPT ![k] = as] \in Seq(Try) /\ Len([attempts[t] EXCEPT ![k] = as]) = k
        /\ \A j \in 1 .. k :
              [attempts[t] EXCEPT ![k] = as][j] = IF j = k THEN as ELSE attempts[t][j]
    <2>1. k \in 1 .. Len(attempts[t]) /\ as \in Try
      BY <1>0, <1>1 DEF Newest, Try
    <2> QED
      BY <1>0, <2>1, Replaced DEF Newest
  <1>4. /\ attempts' \in [Ticket -> Seq(Try)] /\ attempts'[t] = [attempts[t] EXCEPT ![k] = as]
        /\ \A u \in Ticket \ {t} : attempts'[u] = attempts[u]
    BY <1>0, <1>2, <1>3
  <1>5. Learns(t)
    <2>1. Newest(t)' = k /\ attempts'[t][k] = as /\ \A n \in 1 .. k : n # k => attempts'[t][n] = attempts[t][n]
      BY <1>1, <1>3, <1>4 DEF Newest
    <2> QED
      BY <2>1 DEF Learns
  <1>6. Open(t) /\ Open(t)' /\ ~paused'[t] /\ place'[t] = "here" /\ ~created'[t] /\ Free(t)
    BY <1>0, <1>2 DEF AtWork, Open, Free
  <1>7. Rewrites(t) /\ misled' = misled
    BY <1>2 DEF Rewrites, browser, history
  <1>8. CASE as = "succeeded"
    <2>1. worker' = [worker EXCEPT ![t] = Obtained(TabOf(t, k))] /\ UNCHANGED link
      BY <1>2, <1>8
    <2>2. TabOf(t, k) \in AnyTab /\ TabOf(t, k)[1] = t
      BY <1>1 DEF TabOf, AnyTab
    <2>3. /\ Obtained(TabOf(t, k)) \in Work /\ Obtained(TabOf(t, k)).at = "obtained"
          /\ Obtained(TabOf(t, k)).reply = "none" /\ Obtained(TabOf(t, k)).tabs = NoTabs
          /\ Obtained(TabOf(t, k)).tab = TabOf(t, k)
      BY <2>2, IdleType DEF Obtained, Awaiting, Idle, Work
    <2>4. /\ worker' \in [Ticket -> Work] /\ worker'[t] = Obtained(TabOf(t, k))
          /\ \A u \in Ticket \ {t} : worker'[u] = worker[u]
      BY <1>0, <2>1, <2>3
    <2>5. Typed
      BY <1>0, <1>2, <1>4, <2>1, <2>4 DEF Typed, Base, Shape, link, counts
    <2>6. Apart(t)
      BY <1>2, <1>4, <1>7, <2>1, <2>4 DEF Apart, link, counts
    <2>7. Carries(t)
      BY <1>5, <1>8, <2>3, <2>4 DEF Carries, Verdict
    <2>8. toExtension' = toExtension
      BY <2>1 DEF link
    <2> QED
      BY <1>5, <1>6, <1>7, <2>2, <2>3, <2>4, <2>5, <2>6, <2>7, <2>8, WorkedAlone
  <1>9. CASE as # "succeeded"
    <2>1. Ask(t, Awaiting("inventory"), 0) /\ Shape /\ 0 \in 0 .. MaxAttempts
      BY <1>0, <1>2, <1>9 DEF Base
    <2>2. /\ Awaiting("inventory") \in Work /\ Awaiting("inventory").at = "inventory"
          /\ Awaiting("inventory").reply = "none" /\ Awaiting("inventory").tabs = NoTabs
      BY IdleType
    <2>3. /\ worker' \in [Ticket -> Work] /\ worker'[t] = Awaiting("inventory")
          /\ \A u \in Ticket \ {t} : worker'[u] = worker[u]
          /\ toExtension' \in Seq(Request) /\ UNCHANGED <<connected, pending, toBroker>>
          /\ \E r \in Request :
                /\ toExtension' = Append(toExtension, r) /\ r.ticket = t /\ r.n = 0
                /\ WaitsFor(t, r.op)' /\ r.tab = Awaiting("inventory").tab
                /\ r.group = Awaiting("inventory").group
                /\ r.op = IF Awaiting("inventory").at = "look" THEN "inventory"
                          ELSE Awaiting("inventory").at
      BY <2>1, <2>2, Asking
    <2>4. Typed
      BY <1>0, <1>2, <1>4, <2>3 DEF Typed, Base, Shape, counts
    <2>5. Apart(t)
      BY <1>2, <1>4, <1>7, <2>3 DEF Apart, counts
    <2>6. Requests(t) /\ Carries(t) /\ AtWork(t)'
      BY <1>6, <2>2, <2>3 DEF Requests, Carries, AtWork
    <2>7. ~Tries(t)
      BY DEF Tries, Answered
    <2> QED
      BY <1>5, <1>6, <1>7, <2>2, <2>3, <2>4, <2>5, <2>6, <2>7 DEF Worked
  <1> QED
    BY <1>8, <1>9

LEMMA AttemptEndsWorks ==
    ASSUME Base, NEW t \in Ticket, AttemptEnds(t)
    PROVE  Worked(t) /\ Typed
  <1>1. PICK at \in {"create", "reconcile"} :
        \/ Answered(t, at, "ok") /\ Finishes(t, "succeeded")
        \/ Answered(t, at, "failed") /\ Finishes(t, "failed")
        \/ Answered(t, at, "missing") /\ Finishes(t, "missing")
    BY DEF AttemptEnds
  <1> QED
    BY <1>1, Finishing DEF Answered, Verdict

LEMMA AttemptWorks ==
    ASSUME Base, NEW t \in Ticket, Attempt(t)
    PROVE  Worked(t) /\ Typed
  <1> DEFINE k == Newest(t) + 1
  <1>0. /\ worker \in [Ticket -> Work] /\ AtWork(t) /\ faults \in Nat /\ MaxAttempts \in Nat \ {0}
        /\ attempts \in [Ticket -> Seq(Try)] /\ attempts[t] \in Seq(Try) /\ Newest(t) \in Nat
    BY OfWorker
  <1>1. /\ Answered(t, "inventory", "ok") /\ PriorSuccess(t) = {} /\ Pending(t) = {}
        /\ Newest(t) < MaxAttempts /\ ReconcileAgain(t)
        /\ attempts' = [attempts EXCEPT ![t] = Append(attempts[t], "dispatched")]
        /\ Ask(t, Awaiting("create"), k)
        /\ UNCHANGED <<state, paused, place, created, workspaces, extension, counts>>
    BY DEF Attempt, Newest
  <1>2. /\ attempts' \in [Ticket -> Seq(Try)]
        /\ Newest(t)' = k /\ attempts'[t][k] = "dispatched"
        /\ \A n \in 1 .. Newest(t) : attempts'[t][n] = attempts[t][n]
        /\ \A u \in Ticket \ {t} : attempts'[u] = attempts[u]
    <2>1. "dispatched" \in Try
      BY DEF Try
    <2>2. /\ Append(attempts[t], "dispatched") \in Seq(Try)
          /\ Len(Append(attempts[t], "dispatched")) = k
          /\ \A i \in 1 .. Newest(t) : Append(attempts[t], "dispatched")[i] = attempts[t][i]
          /\ Append(attempts[t], "dispatched")[k] = "dispatched"
      BY <1>0, <2>1, Appended DEF Newest
    <2>3. attempts'[t] = Append(attempts[t], "dispatched")
      BY <1>0, <1>1
    <2> QED
      BY <1>0, <1>1, <2>2, <2>3 DEF Newest
  <1>3. Tries(t)
    <2>1. \A n \in 1 .. Newest(t) : attempts[t][n] # "dispatched"
      BY <1>1, Numbers DEF Pending, Base
    <2> QED
      BY <1>0, <1>1, <1>2, <2>1 DEF Tries
  <1>4. k \in 0 .. MaxAttempts /\ Shape /\ k > 0
    BY <1>0, <1>1 DEF Base
  <1>5. /\ Awaiting("create") \in Work /\ Awaiting("create").at = "create"
        /\ Awaiting("create").reply = "none" /\ Awaiting("create").tabs = NoTabs
    BY IdleType
  <1> HIDE DEF k
  <1>6. /\ worker' \in [Ticket -> Work] /\ worker'[t] = Awaiting("create")
        /\ \A u \in Ticket \ {t} : worker'[u] = worker[u]
        /\ toExtension' \in Seq(Request) /\ UNCHANGED <<connected, pending, toBroker>>
        /\ \E r \in Request :
              /\ toExtension' = Append(toExtension, r) /\ r.ticket = t /\ r.n = k
              /\ WaitsFor(t, r.op)' /\ r.tab = Awaiting("create").tab
              /\ r.group = Awaiting("create").group
              /\ r.op = IF Awaiting("create").at = "look" THEN "inventory" ELSE Awaiting("create").at
        /\ toExtension' # toExtension
    BY <1>1, <1>4, <1>5, Asking
  <1>7. Rewrites(t) /\ Free(t) /\ misled' = misled
    BY <1>1, Rewriting
  <1>8. Open(t) /\ Open(t)' /\ ~paused'[t] /\ place'[t] = "here" /\ ~created'[t]
    BY <1>0, <1>1 DEF AtWork, Open, Answered
  <1>9. Typed
    BY <1>0, <1>1, <1>2, <1>6 DEF Typed, Shape, Base, counts
  <1>10. Apart(t)
    BY <1>1, <1>2, <1>6, <1>7 DEF Apart, counts
  <1>11. Requests(t)
    BY <1>2, <1>3, <1>5, <1>6 DEF Requests
  <1>12. Carries(t)
    BY <1>5, <1>6 DEF Carries
  <1>13. AtWork(t)'
    BY <1>2, <1>4, <1>5, <1>6, <1>8 DEF AtWork
  <1> QED
    BY <1>3, <1>5, <1>6, <1>7, <1>8, <1>9, <1>10, <1>11, <1>12, <1>13 DEF Worked

(* What is used of a worker's step below. *)
LEMMA WorkerWorks ==
    ASSUME Base, NEW t \in Ticket, WorkerAction(t)
    PROVE  Worked(t) /\ Typed
  <1>1. CASE StartWork(t)
    BY <1>1, StartWorkWorks
  <1>2. CASE \/ Looked(t) \/ ReconcileAttempt(t) \/ CreateRefused(t) \/ AskGroup(t) \/ AskTitle(t)
             \/ TimesOut(t) /\ worker[t].at = "create"
    BY <1>2, AsksWork
  <1>3. CASE \/ Exhausted(t) \/ OperationFails(t) \/ CreateSucceeds(t)
             \/ ElsewhereEnds(t, "succeeded") \/ ElsewhereEnds(t, "failed")
             \/ TimesOut(t) /\ worker[t].at # "create"
    BY <1>3, EndingsWork
  <1>4. CASE StartElsewhere(t) \/ ElsewherePauses(t) \/ ElsewhereResumes(t) \/ WorkspaceMade(t)
    BY <1>4, ElsewhereWorks
  <1>5. CASE UsePriorSuccess(t)
    BY <1>5, PriorSuccessWorks
  <1>6. CASE Attempt(t)
    BY <1>6, AttemptWorks
  <1>7. CASE AttemptEnds(t)
    BY <1>7, AttemptEndsWorks
  <1> QED
    BY <1>1, <1>2, <1>3, <1>4, <1>5, <1>6, <1>7 DEF WorkerAction, WorkerStep

(* Every step is one of these. *)
LEMMA Steps ==
    ASSUME [Next]_vars
    PROVE  \/ UNCHANGED vars
           \/ \E t \in Ticket : WorkerAction(t)
           \/ ReadInventory \/ ReadAnswer
           \/ TakeInventory \/ Refuse \/ TakeCreate \/ TakeReconcile \/ TakeGroup \/ TakeTitle
           \/ \E c \in creating :
                 OpenTab(c) \/ GroupTab(c) \/ Report(c) \/ ChromeFails(c) \/ GroupsNothing(c)
           \/ Publish \/ Connect \/ \E o \in remembered : OutcomeForgotten(o)
           \/ Disconnect \/ ExtensionRestarts \/ BrokerRestarts
           \/ \E tab \in DOMAIN group : UserCloses(tab)
  BY DEF Next, Progress, Trouble, WorkerAction, Read, Take, Creation

-----------------------------------------------------------------------------
(* Types, and what a worker's operation tells of its ticket. *)

LEMMA WorkedShape ==
    ASSUME Base, NEW t \in Ticket, Worked(t), Typed
    PROVE  Shape'
  <1>0. Shape /\ Apart(t) /\ worker[t].tab \in AnyTab /\ worker[t].group \in Named
        /\ worker[t].tabs \in Tabs
    BY OfWorker DEF Worked, Base
  <1>1. faults' + restarts' <= MaxFaults /\ restarts' \in Nat /\ faults' \in Nat
    <2>1. faults \in Nat /\ restarts \in Nat /\ faults + restarts <= MaxFaults /\ MaxFaults \in Nat
      BY <1>0, TabCreationAssumption DEF Shape
    <2>2. restarts' = restarts /\ faults' \in Nat /\ faults' <= faults
      BY <1>0 DEF Apart, Typed
    <2>3. \A f, r, g, m \in Nat : f + r <= m /\ g <= f => g + r <= m
      OBVIOUS
    <2> QED
      BY <2>1, <2>2, <2>3
  <1>2. /\ rows' \in Rows /\ workspaces' \subseteq Named /\ IsFiniteSet(workspaces')
        /\ Home \in workspaces' /\ missing' \subseteq workspaces'
    <2>1. CASE UNCHANGED <<rows, missing, workspaces, created, stale, overtaken>>
      BY <1>0, <2>1 DEF Shape
    <2>2. CASE Reconcile(worker[t].tabs) /\ UNCHANGED <<workspaces, created>>
      <3>1. workspaces \subseteq Group
        BY <1>0, NoTabsType DEF Shape
      <3>2. rows' \in Rows /\ missing' \subseteq workspaces
        BY <1>0, <2>2, <3>1, Reconciled DEF Shape
      <3> QED
        BY <1>0, <2>2, <3>2 DEF Shape
    <2>3. CASE CreateSucceeds(t)
      <3>1. rows' = rows \/ rows' = RowAdded(worker[t].tab, Home)
        BY <2>3 DEF CreateSucceeds
      <3>2. RowAdded(worker[t].tab, Home) \in Rows
        BY <1>0, NoTabsType, RowAddedType DEF Shape
      <3> QED
        BY <1>0, <2>3, <3>1, <3>2 DEF Shape, CreateSucceeds
    <2>4. CASE WorkspaceMade(t)
      <3>1. /\ rows' = RowAdded(worker[t].tab, worker[t].group)
            /\ workspaces' = workspaces \cup {worker[t].group} /\ missing' = missing
        BY <2>4 DEF WorkspaceMade
      <3>2. RowAdded(worker[t].tab, worker[t].group) \in Rows
        BY <1>0, NoTabsType, RowAddedType DEF Shape
      <3>3. IsFiniteSet(workspaces \cup {worker[t].group})
        BY <1>0, FS_AddElement DEF Shape
      <3> QED
        BY <1>0, <3>1, <3>2, <3>3 DEF Shape
    <2> QED
      BY <2>1, <2>2, <2>3, <2>4 DEF Worked, Rewrites
  <1>3. /\ toBroker' \in Seq(Message) /\ group' \in Tabs
        /\ connected' \in BOOLEAN /\ pending' \in BOOLEAN /\ due' \in BOOLEAN
        /\ creating' \subseteq [ticket : Ticket, n : 1 .. MaxAttempts, stage : Stage]
        /\ remembered' \subseteq [ticket : Ticket, n : 1 .. MaxAttempts, ok : BOOLEAN]
        /\ current' \subseteq Ticket
    BY <1>0 DEF Shape, Apart, extension
  <1> QED
    BY <1>1, <1>2, <1>3 DEF Shape, Typed

LEMMA WorkedControl ==
    ASSUME Base, NEW t \in Ticket, Worked(t), Typed
    PROVE  /\ Control'
           /\ \A u \in Ticket : Newest(u)' >= Newest(u) /\ Newest(u) \in Nat /\ Newest(u)' \in Nat
  <1>1. \A u \in Ticket : Newest(u) \in Nat /\ Newest(u)' \in Nat
    BY DEF Base, Shape, Newest, Typed
  <1>2. /\ AtWork(t)' /\ (created'[t] => place'[t] = "elsewhere" /\ t \in Allocate)
        /\ attempts' = attempts \/ Learns(t) \/ Tries(t)
        /\ MaxAttempts \in Nat
    BY TabCreationAssumption DEF Worked
  <1>3. /\ Newest(t) <= MaxAttempts
        /\ \A n \in 1 .. Newest(t) : attempts[t][n] = "dispatched" => n = Newest(t)
    BY DEF Base, Control
  <1>4. /\ Newest(t)' <= MaxAttempts /\ Newest(t)' >= Newest(t)
        /\ \A n \in 1 .. Newest(t)' : attempts'[t][n] = "dispatched" => n = Newest(t)'
    <2>1. CASE attempts' = attempts
      BY <1>1, <1>3, <2>1 DEF Newest
    <2>2. CASE Learns(t)
      BY <1>1, <1>3, <2>2 DEF Learns
    <2>3. CASE Tries(t)
      BY <1>1, <1>2, <1>3, <2>3 DEF Tries
    <2> QED
      BY <1>2, <2>1, <2>2, <2>3
  <1>5. ASSUME NEW u \in Ticket, u # t
        PROVE  /\ AtWork(u)' /\ (created'[u] => place'[u] = "elsewhere" /\ u \in Allocate)
               /\ Newest(u)' <= MaxAttempts /\ Newest(u)' >= Newest(u)
               /\ \A n \in 1 .. Newest(u)' : attempts'[u][n] = "dispatched" => n = Newest(u)'
    <2>1. /\ worker'[u] = worker[u] /\ state'[u] = state[u] /\ paused'[u] = paused[u]
          /\ place'[u] = place[u] /\ created'[u] = created[u] /\ attempts'[u] = attempts[u]
      BY <1>5 DEF Worked, Apart
    <2>2. Newest(u)' = Newest(u)
      BY <2>1 DEF Newest
    <2>3. AtWork(u)'
      BY <2>1, <2>2 DEF Base, Control, AtWork, Open
    <2> QED
      BY <1>1, <2>1, <2>2, <2>3 DEF Base, Control
  <1> QED
    BY <1>1, <1>2, <1>4, <1>5 DEF Control

LEMMA WorkedAddressed ==
    ASSUME Base, NEW t \in Ticket, Worked(t), Typed
    PROVE  Addressed'
  <1>1. /\ \A u \in Ticket : Newest(u)' >= Newest(u) /\ Newest(u) \in Nat /\ Newest(u)' \in Nat
        /\ toBroker' = toBroker /\ creating' = creating /\ remembered' = remembered
    BY WorkedControl DEF Worked, Apart, extension
  <1>2. /\ toExtension \in Seq(Request) /\ toBroker \in Seq(Message)
        /\ \A c \in creating : c.ticket \in Ticket /\ c.n \in Nat
        /\ \A o \in remembered : o.ticket \in Ticket /\ o.n \in Nat
    BY DEF Base, Shape
  <1>3. /\ \A m \in Request : Sent(m) => Sent(m)'
        /\ \A m \in Message : Sent(m) /\ (m.op # "inventory" => m.ticket \in Ticket) => Sent(m)'
    BY <1>1 DEF Sent, Request, Message
  <1>4. \A i \in 1 .. Len(toBroker) :
           /\ toBroker[i] \in Message /\ Sent(toBroker[i])
           /\ toBroker[i].op # "inventory" => toBroker[i].ticket \in Ticket
    BY <1>2 DEF Base, Addressed
  <1>5. \A i \in 1 .. Len(toExtension) :
           /\ toExtension[i] \in Request /\ Sent(toExtension[i])
           /\ toExtension[i].op \in {"group", "rename"} => toExtension[i].tab[1] = toExtension[i].ticket
    BY <1>2 DEF Base, Addressed
  <1>6. \A i \in 1 .. Len(toExtension') : \E m \in Request :
           /\ m = toExtension'[i] /\ Sent(m)'
           /\ m.op \in {"group", "rename"} => m.tab[1] = m.ticket
    <2>1. CASE toExtension' = toExtension
      BY <1>3, <1>5, <2>1
    <2>2. CASE Requests(t)
      <3>1. PICK r \in Request :
              /\ toExtension' = Append(toExtension, r) /\ r.ticket = t
              /\ WaitsFor(t, r.op)' /\ r.tab = worker'[t].tab
              /\ r.op \in {"create", "reconcile"} => r.n = Newest(t)'
              /\ r.op = "create" => Tries(t)
        BY <2>2 DEF Requests
      <3>2. AtWork(t)'
        BY DEF Worked
      <3>3. Sent(r)'
        <4>1. r.op \in {"create", "reconcile"} => r.n \in 1 .. Newest(r.ticket)'
          BY <1>1, <3>1, <3>2 DEF AtWork, WaitsFor
        <4>2. r.op \in {"group", "rename"} => r.ticket \in Allocate
          BY <3>1, <3>2 DEF AtWork, WaitsFor
        <4> QED
          BY <4>1, <4>2 DEF Sent
      <3>4. r.op \in {"group", "rename"} => r.tab[1] = r.ticket
        BY <3>1, <3>2 DEF AtWork, WaitsFor
      <3>5. /\ Len(toExtension) \in Nat /\ Len(toExtension') = Len(toExtension) + 1
            /\ \A i \in 1 .. Len(toExtension) : toExtension'[i] = toExtension[i]
            /\ toExtension'[Len(toExtension) + 1] = r
        BY <1>2, <3>1, Appended
      <3> QED
        BY <1>3, <1>5, <3>3, <3>4, <3>5
    <2> QED
      BY <2>1, <2>2 DEF Worked
  <1>7. \A i \in 1 .. Len(toExtension') :
          /\ Sent(toExtension[i])'
          /\ toExtension'[i].op \in {"group", "rename"} => toExtension'[i].tab[1] = toExtension'[i].ticket
    BY <1>6 DEF Sent
  <1>8. \A i \in 1 .. Len(toBroker') :
          /\ Sent(toBroker[i])'
          /\ toBroker'[i].op # "inventory" => toBroker'[i].ticket \in Ticket
    BY <1>1, <1>3, <1>4 DEF Sent
  <1>9. /\ \A c \in creating' : c.n <= Newest(c.ticket)'
        /\ \A o \in remembered' : o.n <= Newest(o.ticket)'
    BY <1>1, <1>2 DEF Base, Addressed
  <1> QED
    BY <1>7, <1>8, <1>9 DEF Addressed

(* A queue whose members are all older ones, in the same order. *)
Shifted(new, old) ==
    \E k \in {0, 1} : \A i \in 1 .. Len(new) : i + k \in 1 .. Len(old) /\ new[i] = old[i + k]

Drained(new, old) == new = old \/ (old # <<>> /\ new = Tail(old)) \/ new = <<>>

LEMMA DrainedIsShifted ==
    ASSUME NEW S, NEW old \in Seq(S), NEW new, Drained(new, old)
    PROVE  new \in Seq(S) /\ Shifted(new, old)
  <1>1. CASE new = old
    <2>1. \A i \in 1 .. Len(new) : i + 0 \in 1 .. Len(old) /\ new[i] = old[i + 0]
      BY <1>1
    <2> QED
      BY <1>1, <2>1 DEF Shifted
  <1>2. CASE old # <<>> /\ new = Tail(old)
    BY <1>2, Shortened DEF Shifted
  <1>3. CASE new = <<>>
    BY <1>3 DEF Shifted
  <1> QED
    BY <1>1, <1>2, <1>3 DEF Drained

Whose(m) == Sent(m) /\ (m.op # "inventory" => m.ticket \in Ticket)

(* The extension's and the gateway's steps add at most one message. *)
LEMMA AddressedStays ==
    ASSUME Base, UNCHANGED attempts, Drained(toExtension', toExtension),
           \/ Drained(toBroker', toBroker)
           \/ \E m \in Message : Whose(m) /\ toBroker' = Append(toBroker, m),
           \A c \in creating' : c.n <= Newest(c.ticket),
           \A o \in remembered' : o.n <= Newest(o.ticket)
    PROVE  Addressed' /\ toExtension' \in Seq(Request) /\ toBroker' \in Seq(Message)
  <1>1. toExtension \in Seq(Request) /\ toBroker \in Seq(Message)
    BY DEF Base, Shape
  <1>2. toExtension' \in Seq(Request) /\ Shifted(toExtension', toExtension)
    BY <1>1, DrainedIsShifted
  <1>3. \A m : Sent(m)' = Sent(m)
    BY DEF Sent, Newest
  <1>4. \A i \in 1 .. Len(toBroker) : Whose(toBroker[i])
    BY DEF Base, Addressed, Whose
  <1>5. \A i \in 1 .. Len(toExtension) :
          /\ Sent(toExtension[i])
          /\ toExtension[i].op \in {"group", "rename"} => toExtension[i].tab[1] = toExtension[i].ticket
    BY DEF Base, Addressed
  <1>6. \A i \in 1 .. Len(toExtension') : \E m \in Request :
          /\ m = toExtension'[i] /\ Sent(m)'
          /\ m.op \in {"group", "rename"} => m.tab[1] = m.ticket
    BY <1>2, <1>3, <1>5 DEF Shifted
  <1>7. toBroker' \in Seq(Message) /\ \A i \in 1 .. Len(toBroker') : Whose(toBroker'[i])
    <2>1. CASE Drained(toBroker', toBroker)
      <3>1. toBroker' \in Seq(Message) /\ Shifted(toBroker', toBroker)
        BY <1>1, <2>1, DrainedIsShifted
      <3> QED
        BY <1>4, <3>1 DEF Shifted
    <2>2. CASE \E m \in Message : Whose(m) /\ toBroker' = Append(toBroker, m)
      <3>1. PICK m \in Message : Whose(m) /\ toBroker' = Append(toBroker, m)
        BY <2>2
      <3>2. /\ toBroker' \in Seq(Message) /\ Len(toBroker) \in Nat /\ Len(toBroker') = Len(toBroker) + 1
            /\ \A i \in 1 .. Len(toBroker) : toBroker'[i] = toBroker[i]
            /\ toBroker'[Len(toBroker) + 1] = m
        BY <1>1, <3>1, Appended
      <3> QED
        BY <1>4, <3>1, <3>2
    <2> QED
      BY <2>1, <2>2
  <1>8. \A i \in 1 .. Len(toExtension') :
          /\ Sent(toExtension[i])'
          /\ toExtension'[i].op \in {"group", "rename"} => toExtension'[i].tab[1] = toExtension'[i].ticket
    BY <1>6 DEF Sent
  <1>9. \A i \in 1 .. Len(toBroker') :
          /\ Sent(toBroker[i])'
          /\ toBroker'[i].op # "inventory" => toBroker'[i].ticket \in Ticket
    BY <1>7 DEF Whose, Sent, Newest
  <1>10. /\ \A c \in creating' : c.n <= Newest(c.ticket)'
         /\ \A o \in remembered' : o.n <= Newest(o.ticket)'
    BY DEF Newest
  <1> QED
    BY <1>2, <1>7, <1>8, <1>9, <1>10 DEF Addressed

LEMMA ControlStays ==
    ASSUME Base, UNCHANGED <<state, paused, place, created, attempts, worker>>
    PROVE  Control'
  <1>1. \A t \in Ticket : Newest(t)' = Newest(t) /\ AtWork(t)' = AtWork(t)
    BY DEF Newest, AtWork, Open
  <1> QED
    BY <1>1 DEF Base, Control

(* A request that is taken, and what is answered to it. *)
LEMMA Taken ==
    ASSUME Base, toExtension # <<>>
    PROVE  LET m == Head(toExtension) IN
           /\ m \in Request /\ m = toExtension[1] /\ Sent(m) /\ 1 \in 1 .. Len(toExtension)
           /\ m.op \in Op /\ m.ticket \in Ticket /\ m.n \in 0 .. MaxAttempts
           /\ m.tab \in AnyTab /\ m.group \in Named
           /\ m.op \in {"group", "rename"} => m.tab[1] = m.ticket
           /\ \A answer \in {"ok", "failed", "missing", "refused"} :
                 /\ Reply(m, answer) \in Message /\ Whose(Reply(m, answer))
                 /\ Reply(m, answer).op = m.op /\ Reply(m, answer).ticket = m.ticket
                 /\ Reply(m, answer).n = m.n /\ Reply(m, answer).answer = answer
                 /\ Reply(m, answer).group = m.group /\ Reply(m, answer).tabs = NoTabs
           /\ Drained(Tail(toExtension), toExtension)
  <1> DEFINE m == Head(toExtension)
  <1>1. /\ m = toExtension[1] /\ 1 \in 1 .. Len(toExtension) /\ m \in Request
    BY Shortened DEF Base, Shape
  <1>2. /\ Sent(m) /\ (m.op \in {"group", "rename"} => m.tab[1] = m.ticket)
    BY <1>1 DEF Base, Addressed
  <1>3. /\ m.op \in Op /\ m.ticket \in Ticket /\ m.n \in 0 .. MaxAttempts
        /\ m.tab \in AnyTab /\ m.group \in Named
    BY <1>1 DEF Request
  <1> HIDE DEF m
  <1>4. ASSUME NEW answer \in {"ok", "failed", "missing", "refused"}
        PROVE  /\ Reply(m, answer) \in Message /\ Whose(Reply(m, answer))
               /\ Reply(m, answer).op = m.op /\ Reply(m, answer).ticket = m.ticket
               /\ Reply(m, answer).n = m.n /\ Reply(m, answer).answer = answer
               /\ Reply(m, answer).group = m.group /\ Reply(m, answer).tabs = NoTabs
    BY <1>2, <1>3, NoTabsType DEF Reply, Message, Whose, Sent
  <1>5. Drained(Tail(toExtension), toExtension)
    BY DEF Drained
  <1> QED
    BY <1>1, <1>2, <1>3, <1>4, <1>5 DEF m

-----------------------------------------------------------------------------
(* What a step of the extension, Chrome or the user amounts to.            *)
Regroups ==
    \/ \E c \in creating : OpenTab(c) \/ GroupTab(c)
    \/ TakeGroup
    \/ \E tab \in DOMAIN group : UserCloses(tab)

ServiceAction ==
    \/ TakeInventory \/ Refuse \/ TakeCreate \/ TakeReconcile \/ TakeTitle
    \/ \E c \in creating : Report(c) \/ ChromeFails(c) \/ GroupsNothing(c)
    \/ Publish \/ Connect \/ \E o \in remembered : OutcomeForgotten(o)
    \/ Regroups

Posts(m) ==
    /\ m \in Message /\ Whose(m) /\ toBroker' = Append(toBroker, m)
    /\ m.tabs = IF m.op = "inventory" THEN group ELSE NoTabs

Replies(m) ==
    /\ toExtension # <<>> /\ toExtension' = Tail(toExtension)
    /\ m.op = Head(toExtension).op /\ m.ticket = Head(toExtension).ticket
    /\ m.op # "inventory" => m.n = Head(toExtension).n
    /\ m.op = "group" /\ m.answer = "ok" => m.group = NewGroup(m.ticket)
    /\ m.op = "rename" => m.group = Head(toExtension).group

Served ==
    /\ UNCHANGED <<tickets, browser, worker, restarts, stale, overtaken>>
    /\ misled \subseteq misled'
    /\ \/ UNCHANGED <<toExtension, toBroker>>
       \/ TakeCreate
       \/ \E m : Posts(m) /\ Replies(m)
       \/ \E m : /\ Posts(m) /\ toExtension' = toExtension
                 /\ m.op = "create" \/ (m.op = "inventory" /\ m.ticket = "none")

(* What makes a step of theirs keep the types. *)
ServiceTyped ==
    /\ connected' \in BOOLEAN /\ pending' \in BOOLEAN /\ due' \in BOOLEAN
    /\ group' \in Tabs
    /\ creating' \subseteq [ticket : Ticket, n : 1 .. MaxAttempts, stage : Stage]
    /\ remembered' \subseteq [ticket : Ticket, n : 1 .. MaxAttempts, ok : BOOLEAN]
    /\ current' \subseteq Ticket
    /\ faults' = faults \/ Fault
    /\ \A c \in creating' : c.n <= Newest(c.ticket)
    /\ \A o \in remembered' : o.n <= Newest(o.ticket)

LEMMA FewerFaults ==
    ASSUME Shape, faults' = faults \/ Fault
    PROVE  faults' \in Nat /\ faults' <= faults /\ faults' + restarts <= MaxFaults
  <1>1. faults \in Nat /\ restarts \in Nat /\ faults + restarts <= MaxFaults /\ MaxFaults \in Nat
    BY TabCreationAssumption DEF Shape
  <1>2. faults' \in Nat /\ faults' <= faults
    BY <1>1 DEF Fault
  <1>3. \A f, r, g, m \in Nat : f + r <= m /\ g <= f => g + r <= m
    OBVIOUS
  <1> QED
    BY <1>1, <1>2, <1>3

LEMMA ServedBase ==
    ASSUME Base, Served, ServiceTyped
    PROVE  Base'
  <1>1. /\ UNCHANGED <<state, paused, place, created, attempts, worker, rows, workspaces, missing>>
        /\ restarts' = restarts
    BY DEF Served, tickets, browser
  <1>2. Control'
    BY <1>1, ControlStays
  <1>3. /\ Drained(toExtension', toExtension)
        /\ \/ Drained(toBroker', toBroker)
           \/ \E m \in Message : Whose(m) /\ toBroker' = Append(toBroker, m)
    BY DEF Served, Posts, Replies, TakeCreate, Takes, Drained
  <1>4. Addressed' /\ toExtension' \in Seq(Request) /\ toBroker' \in Seq(Message)
    BY <1>1, <1>3, AddressedStays DEF ServiceTyped
  <1>5. faults' \in Nat /\ faults' + restarts <= MaxFaults
    BY FewerFaults DEF Base, ServiceTyped
  <1>6. Shape'
    BY <1>1, <1>4, <1>5 DEF Base, Shape, ServiceTyped
  <1> QED
    BY <1>2, <1>4, <1>6 DEF Base

(* The inventory that snapshot() sends. *)
LEMMA Captured ==
    ASSUME Base, NEW for \in Ticket \cup {"none"}, Capture(for)
    PROVE  LET m == [op |-> "inventory", ticket |-> for, n |-> 0, answer |-> "ok", group |-> Home,
                     tabs |-> group]
           IN  Posts(m) /\ current' \subseteq Ticket
  <1> DEFINE m == [op |-> "inventory", ticket |-> for, n |-> 0, answer |-> "ok", group |-> Home,
                   tabs |-> group]
  <1>1. m \in Message
    BY NoTabsType, TabCreationAssumption DEF Message, Op, Base, Shape
  <1>2. Whose(m)
    BY DEF Whose, Sent
  <1>3. toBroker' = Append(toBroker, m) /\ current' \subseteq Ticket
    BY DEF Capture, Tell
  <1> QED
    BY <1>1, <1>2, <1>3 DEF Posts

LEMMA TakesServe ==
    ASSUME Base, TakeInventory \/ Refuse \/ TakeCreate \/ TakeReconcile \/ TakeTitle
    PROVE  Served /\ ServiceTyped
  <1> DEFINE m == Head(toExtension)
  <1>0. toExtension # <<>> /\ toExtension' = Tail(toExtension)
    BY DEF TakeInventory, Refuse, TakeCreate, TakeReconcile, TakeTitle, Takes
  <1>1. /\ m \in Request /\ Sent(m)
        /\ m.op \in Op /\ m.ticket \in Ticket /\ m.n \in 0 .. MaxAttempts
        /\ \A answer \in {"ok", "failed", "missing", "refused"} :
              /\ Reply(m, answer) \in Message /\ Whose(Reply(m, answer))
              /\ Reply(m, answer).op = m.op /\ Reply(m, answer).ticket = m.ticket
              /\ Reply(m, answer).n = m.n /\ Reply(m, answer).answer = answer
              /\ Reply(m, answer).group = m.group /\ Reply(m, answer).tabs = NoTabs
    BY <1>0, Taken
  <1>2. /\ group \in Tabs /\ current \subseteq Ticket
        /\ connected \in BOOLEAN /\ pending \in BOOLEAN /\ due \in BOOLEAN
        /\ creating \subseteq [ticket : Ticket, n : 1 .. MaxAttempts, stage : Stage]
        /\ remembered \subseteq [ticket : Ticket, n : 1 .. MaxAttempts, ok : BOOLEAN]
        /\ \A c \in creating : c.n <= Newest(c.ticket)
        /\ \A o \in remembered : o.n <= Newest(o.ticket)
    BY DEF Base, Shape, Addressed
  <1> HIDE DEF m
  <1>3. ASSUME NEW answer \in {"ok", "failed", "missing", "refused"}, Tell(Reply(m, answer)),
               m.op # "inventory", m.op # "group"
        PROVE  \E r : Posts(r) /\ Replies(r)
    BY <1>0, <1>1, <1>3 DEF Posts, Replies, Tell, m
  <1>4. CASE TakeInventory
    <2>1. Capture(m.ticket) /\ m.op = "inventory"
      BY <1>4 DEF TakeInventory, Takes, m
    <2>2. /\ Posts([op |-> "inventory", ticket |-> m.ticket, n |-> 0, answer |-> "ok",
                    group |-> Home, tabs |-> group])
          /\ current' \subseteq Ticket
      BY <1>1, <2>1, Captured
    <2>3. \E r : Posts(r) /\ r.op = "inventory" /\ r.ticket = m.ticket
      BY <2>2
    <2>4. \E r : Posts(r) /\ Replies(r)
      BY <1>0, <2>1, <2>3 DEF Replies, m
    <2> QED
      BY <1>2, <1>4, <2>2, <2>4 DEF Served, ServiceTyped, TakeInventory, history, counts
  <1>5. CASE Refuse
    <2>1. Tell(Reply(m, "refused")) /\ m.op # "inventory"
      BY <1>5 DEF Refuse, m
    <2>2. Posts(Reply(m, "refused")) /\ Replies(Reply(m, "refused"))
      BY <1>0, <1>1, <2>1 DEF Posts, Replies, Tell, m
    <2> QED
      BY <1>2, <1>5, <2>2 DEF Served, ServiceTyped, Refuse, history, counts, extension
  <1>6. CASE TakeCreate
    <2>1. m.op = "create" /\ creating' = creating \cup {[ticket |-> m.ticket, n |-> m.n, stage |-> "asked"]}
      BY <1>6 DEF TakeCreate, Takes, m
    <2>2. m.n \in 1 .. MaxAttempts /\ m.n <= Newest(m.ticket)
      BY <1>1, <2>1, Numbers DEF Sent, Base
    <2>3. /\ creating' \subseteq [ticket : Ticket, n : 1 .. MaxAttempts, stage : Stage]
          /\ \A c \in creating' : c.n <= Newest(c.ticket)
      BY <1>1, <1>2, <2>1, <2>2 DEF Stage
    <2> QED
      BY <1>2, <1>6, <2>3 DEF Served, ServiceTyped, TakeCreate, history, counts
  <1>7. CASE TakeReconcile
    <2>1. /\ m.op = "reconcile" /\ misled \subseteq misled'
          /\ UNCHANGED <<stale, overtaken, faults, restarts, connected, pending, extension, tickets,
                         browser, worker>>
      BY <1>7 DEF TakeReconcile, Takes, m, Misleads
    <2>2. \E answer \in {"ok", "failed", "missing", "refused"} : Tell(Reply(m, answer))
      BY <1>7 DEF TakeReconcile, m
    <2>3. \E r : Posts(r) /\ Replies(r)
      BY <1>3, <2>1, <2>2
    <2> QED
      BY <1>2, <2>1, <2>3 DEF Served, ServiceTyped, extension
  <1>8. CASE TakeTitle
    <2>1. /\ m.op = "rename" /\ due' \in BOOLEAN /\ current' \subseteq Ticket
          /\ UNCHANGED <<tickets, browser, worker, connected, pending, group, creating, remembered,
                         history, counts>>
      BY <1>2, <1>8 DEF TakeTitle, Takes, m
    <2>2. \E answer \in {"ok", "failed", "missing", "refused"} : Tell(Reply(m, answer))
      BY <1>8 DEF TakeTitle, m
    <2>3. \E r : Posts(r) /\ Replies(r)
      BY <1>3, <2>1, <2>2
    <2> QED
      BY <1>2, <2>1, <2>3 DEF Served, ServiceTyped, history, counts
  <1> QED
    BY <1>4, <1>5, <1>6, <1>7, <1>8

(* The browser's tabs and what is known of them, by type. *)
LEMMA OfBrowser ==
    ASSUME Base
    PROVE  /\ group \in Tabs /\ DOMAIN group \subseteq AnyTab /\ group \in [DOMAIN group -> Group]
           /\ current \subseteq Ticket
           /\ connected \in BOOLEAN /\ pending \in BOOLEAN /\ due \in BOOLEAN
           /\ creating \subseteq [ticket : Ticket, n : 1 .. MaxAttempts, stage : Stage]
           /\ remembered \subseteq [ticket : Ticket, n : 1 .. MaxAttempts, ok : BOOLEAN]
           /\ \A c \in creating : c.n <= Newest(c.ticket)
           /\ \A o \in remembered : o.n <= Newest(o.ticket)
           /\ \A c \in creating : TabOf(c.ticket, c.n) \in AnyTab
           /\ \A c \in creating : c.ticket \in Ticket /\ c.n \in 1 .. MaxAttempts /\ c.stage \in Stage
  BY OfTabs DEF Base, Shape, Addressed, TabOf, AnyTab

LEMMA Becoming ==
    ASSUME Base, NEW c \in creating, NEW stage \in Stage, Becomes(c, stage)
    PROVE  /\ creating' \subseteq [ticket : Ticket, n : 1 .. MaxAttempts, stage : Stage]
           /\ \A d \in creating' : d.n <= Newest(d.ticket)
           /\ \E d : /\ creating' = (creating \ {c}) \cup {d}
                     /\ d.ticket = c.ticket /\ d.n = c.n /\ d.stage = stage
  <1> DEFINE d == [c EXCEPT !.stage = stage]
  <1>1. /\ d \in [ticket : Ticket, n : 1 .. MaxAttempts, stage : Stage]
        /\ d.ticket = c.ticket /\ d.n = c.n /\ d.stage = stage
    BY OfBrowser
  <1>2. creating' = (creating \ {c}) \cup {d}
    BY DEF Becomes
  <1> HIDE DEF d
  <1> QED
    BY <1>1, <1>2, OfBrowser

LEMMA CreationsServe ==
    ASSUME Base, NEW c \in creating,
           OpenTab(c) \/ GroupTab(c) \/ ChromeFails(c) \/ GroupsNothing(c)
    PROVE  Served /\ ServiceTyped
  <1>1. /\ UNCHANGED <<tickets, browser, worker, restarts, stale, overtaken>>
        /\ UNCHANGED <<connected, pending, toExtension, toBroker, remembered>>
        /\ misled \subseteq misled' /\ (faults' = faults \/ Fault)
    BY DEF OpenTab, GroupTab, ChromeFails, GroupsNothing, link, history, counts, Misleads
  <1>2. PICK stage \in Stage : Becomes(c, stage)
    BY DEF OpenTab, GroupTab, ChromeFails, GroupsNothing, Stage
  <1>3. /\ creating' \subseteq [ticket : Ticket, n : 1 .. MaxAttempts, stage : Stage]
        /\ \A d \in creating' : d.n <= Newest(d.ticket)
    BY <1>2, Becoming
  <1>4. due' \in BOOLEAN /\ current' \subseteq Ticket
    BY OfBrowser DEF OpenTab, GroupTab, ChromeFails, GroupsNothing
  <1>5. group' \in Tabs
    <2>1. CASE OpenTab(c)
      <3>1. /\ DOMAIN group \cup {TabOf(c.ticket, c.n)} \in SUBSET AnyTab
            /\ Ungrouped \in Group /\ group \in [DOMAIN group -> Group]
        BY OfBrowser DEF Group
      <3>2. group' \in [DOMAIN group \cup {TabOf(c.ticket, c.n)} -> Group]
        BY <2>1, <3>1 DEF OpenTab
      <3> QED
        BY <3>1, <3>2, IsTabs
    <2>2. CASE GroupTab(c)
      <3>1. Home \in Group /\ group \in [DOMAIN group -> Group] /\ DOMAIN group \in SUBSET AnyTab
        BY OfBrowser, NoTabsType
      <3>2. group' \in [DOMAIN group -> Group]
        BY <2>2, <3>1 DEF GroupTab
      <3> QED
        BY <3>1, <3>2, IsTabs
    <2>3. CASE ChromeFails(c) \/ GroupsNothing(c)
      BY <2>3, OfBrowser DEF ChromeFails, GroupsNothing
    <2> QED
      BY <2>1, <2>2, <2>3
  <1>6. Served
    BY <1>1 DEF Served
  <1> QED
    BY <1>1, <1>3, <1>4, <1>5, <1>6, OfBrowser DEF ServiceTyped

LEMMA ReportServes ==
    ASSUME Base, NEW c \in creating, Report(c)
    PROVE  Served /\ ServiceTyped
  <1> DEFINE ok == c.stage = "made" /\ connected
             o == [ticket |-> c.ticket, n |-> c.n, ok |-> ok]
             m == [op |-> "create", ticket |-> c.ticket, n |-> c.n, group |-> Home, tabs |-> NoTabs,
                   answer |-> IF ok THEN "ok" ELSE "failed"]
  <1>1. /\ c.ticket \in Ticket /\ c.n \in 1 .. MaxAttempts /\ c.n <= Newest(c.ticket)
        /\ connected \in BOOLEAN /\ MaxAttempts \in Nat /\ Newest(c.ticket) \in Nat
    BY OfBrowser, Numbers DEF Base
  <1>2. /\ UNCHANGED <<tickets, browser, worker, connected, pending, toExtension, group, due, faults,
                       restarts>>
        /\ creating' = creating \ {c} /\ remembered' = remembered \cup {o}
        /\ IF connected
           THEN /\ Tell(m) /\ UNCHANGED history
                /\ current' = current \/ current' = current \cup {c.ticket}
           ELSE /\ Misleads({c} \cap {d \in creating : d.stage = "made"})
                /\ UNCHANGED <<toBroker, current>>
    BY DEF Report
  <1>3. ok \in BOOLEAN
    OBVIOUS
  <1>4. /\ o \in [ticket : Ticket, n : 1 .. MaxAttempts, ok : BOOLEAN]
        /\ o.ticket = c.ticket /\ o.n = c.n
    BY <1>1, <1>3
  <1>5. m \in Message /\ Whose(m) /\ m.op = "create" /\ m.tabs = NoTabs
    <2>1. m.n \in 0 .. MaxAttempts
      BY <1>1
    <2>2. m \in Message
      BY <1>1, <2>1, NoTabsType DEF Message, Op
    <2>3. Whose(m)
      BY <1>1 DEF Whose, Sent
    <2> QED
      BY <2>2, <2>3
  <1> HIDE DEF o, m, ok
  <1>6. /\ misled \subseteq misled' /\ UNCHANGED <<stale, overtaken>> /\ current' \subseteq Ticket
    BY <1>1, <1>2, OfBrowser DEF Misleads, history
  <1>7. ServiceTyped
    BY <1>1, <1>2, <1>4, <1>6, OfBrowser DEF ServiceTyped
  <1>8. /\ UNCHANGED toExtension
        /\ UNCHANGED toBroker \/ Posts(m)
    BY <1>2, <1>5 DEF Posts, Tell
  <1>9. Served
    BY <1>2, <1>5, <1>6, <1>8 DEF Served
  <1> QED
    BY <1>7, <1>9

LEMMA TakeGroupServes ==
    ASSUME Base, TakeGroup
    PROVE  Served /\ ServiceTyped
  <1> DEFINE m == Head(toExtension)
  <1>1. toExtension # <<>> /\ toExtension' = Tail(toExtension) /\ m.op = "group"
    BY DEF TakeGroup, Takes
  <1>2. /\ m \in Request /\ Sent(m) /\ m.ticket \in Ticket /\ m.tab \in AnyTab
        /\ \A answer \in {"ok", "failed", "missing", "refused"} :
              /\ Reply(m, answer) \in Message /\ Whose(Reply(m, answer))
              /\ Reply(m, answer).op = m.op /\ Reply(m, answer).ticket = m.ticket
              /\ Reply(m, answer).n = m.n /\ Reply(m, answer).answer = answer
              /\ Reply(m, answer).group = m.group /\ Reply(m, answer).tabs = NoTabs
    BY <1>1, Taken
  <1>3. m.ticket \in Allocate
    BY <1>1, <1>2 DEF Sent
  <1>4. NewGroup(m.ticket) \in Named /\ NewGroup(m.ticket) \in Group
    <2>1. IsFiniteSet(Made(m.ticket))
      BY FS_Subset DEF Base, Shape, Made
    <2>2. Cardinality(Made(m.ticket)) \in Nat
      BY <2>1, FS_CardinalityType
    <2> QED
      BY <1>3, <2>2 DEF NewGroup, Named, Group
  <1>5. /\ UNCHANGED <<tickets, browser, worker, connected, pending, creating, remembered, history,
                       counts>>
        /\ IF m.tab \in DOMAIN group
           THEN /\ group' = [group EXCEPT ![m.tab] = NewGroup(m.ticket)]
                /\ Tell([Reply(m, "ok") EXCEPT !.group = NewGroup(m.ticket)])
                /\ current' = {m.ticket} /\ due' = TRUE
           ELSE Tell(Reply(m, "failed")) /\ UNCHANGED <<group, current, due>>
    BY DEF TakeGroup
  <1>6. CASE m.tab \in DOMAIN group
    <2> DEFINE r == [Reply(m, "ok") EXCEPT !.group = NewGroup(m.ticket)]
    <2>1. /\ r \in Message /\ r.op = m.op /\ r.ticket = m.ticket /\ r.n = m.n
          /\ r.group = NewGroup(m.ticket) /\ r.tabs = NoTabs
      BY <1>2, <1>4 DEF Message, Reply
    <2>2. Whose(r)
      BY <1>1, <1>2, <1>3, <2>1 DEF Whose, Sent
    <2>3. Tell(r)
      BY <1>5, <1>6
    <2> HIDE DEF r
    <2>4. Posts(r) /\ Replies(r)
      BY <1>1, <2>1, <2>2, <2>3 DEF Posts, Replies, Tell
    <2>5. group' \in Tabs
      <3>1. DOMAIN group \in SUBSET AnyTab /\ group' \in [DOMAIN group -> Group]
        BY <1>4, <1>5, <1>6, OfBrowser
      <3> QED
        BY <3>1, IsTabs
    <2>6. current' \subseteq Ticket /\ due' \in BOOLEAN
      BY <1>2, <1>5, <1>6
    <2> HIDE DEF m
    <2> QED
      BY <1>5, <2>4, <2>5, <2>6, OfBrowser DEF Served, ServiceTyped, history, counts
  <1>7. CASE m.tab \notin DOMAIN group
    <2>1. Posts(Reply(m, "failed")) /\ Replies(Reply(m, "failed"))
      BY <1>1, <1>2, <1>5, <1>7 DEF Posts, Replies, Tell
    <2> HIDE DEF m
    <2> QED
      BY <1>5, <1>7, <2>1, OfBrowser DEF Served, ServiceTyped, history, counts
  <1> QED
    BY <1>6, <1>7

LEMMA ServiceServes ==
    ASSUME Base, ServiceAction
    PROVE  Served /\ ServiceTyped
  <1>1. CASE TakeInventory \/ Refuse \/ TakeCreate \/ TakeReconcile \/ TakeTitle
    BY <1>1, TakesServe
  <1>2. CASE TakeGroup
    BY <1>2, TakeGroupServes
  <1>3. CASE \E c \in creating : OpenTab(c) \/ GroupTab(c) \/ ChromeFails(c) \/ GroupsNothing(c)
    BY <1>3, CreationsServe
  <1>4. CASE \E c \in creating : Report(c)
    BY <1>4, ReportServes
  <1>5. CASE Publish
    <2>1. /\ Capture("none") /\ due' = FALSE
          /\ UNCHANGED <<tickets, browser, worker, connected, pending, toExtension, group, creating,
                         remembered, history, counts>>
      BY <1>5 DEF Publish
    <2>2. /\ Posts([op |-> "inventory", ticket |-> "none", n |-> 0, answer |-> "ok",
                    group |-> Home, tabs |-> group])
          /\ current' \subseteq Ticket
      BY <2>1, Captured
    <2>3. \E m : Posts(m) /\ m.op = "inventory" /\ m.ticket = "none"
      BY <2>2
    <2> QED
      BY <2>1, <2>2, <2>3, OfBrowser DEF Served, ServiceTyped, history, counts
  <1>6. CASE Connect
    BY <1>6, OfBrowser DEF Connect, Served, ServiceTyped, history, counts
  <1>7. CASE \E o \in remembered : OutcomeForgotten(o)
    BY <1>7, OfBrowser DEF OutcomeForgotten, Served, ServiceTyped, Misleads, link
  <1>8. CASE \E tab \in DOMAIN group : UserCloses(tab)
    <2>1. PICK tab \in DOMAIN group : UserCloses(tab)
      BY <1>8
    <2>2. group' = [x \in DOMAIN group \ {tab} |-> group[x]]
      BY <2>1 DEF UserCloses
    <2>3. DOMAIN group \ {tab} \in SUBSET AnyTab /\ group' \in [DOMAIN group \ {tab} -> Group]
      BY <2>2, OfBrowser
    <2>4. group' \in Tabs
      BY <2>3, IsTabs
    <2> QED
      BY <2>1, <2>4, OfBrowser DEF UserCloses, Served, ServiceTyped, link, history
  <1> QED
    BY <1>1, <1>2, <1>3, <1>4, <1>5, <1>6, <1>7, <1>8 DEF ServiceAction, Regroups

-----------------------------------------------------------------------------
(* What a message that is read, and an outage or a restart, amount to.      *)
Hears(t) ==
    LET m == Head(toBroker) IN
    /\ m.ticket = t /\ WaitsFor(t, m.op)
    /\ m.op \in {"create", "reconcile"} => m.n = Newest(t)
    /\ worker'[t].at = worker[t].at /\ worker'[t].tab = worker[t].tab
    /\ IF m.op = "inventory"
       THEN /\ worker'[t].reply = "ok" /\ worker'[t].tabs = m.tabs
            /\ worker'[t].group = worker[t].group
       ELSE /\ worker'[t].reply = m.answer /\ worker'[t].tabs = worker[t].tabs
            /\ worker'[t].group = m.group

Heard ==
    /\ toBroker # <<>> /\ toBroker' = Tail(toBroker)
    /\ UNCHANGED <<state, place, created, attempts, workspaces, connected, toExtension, extension,
                   misled, counts>>
    /\ worker' \in [Ticket -> Work]
    /\ \A t \in Ticket : worker'[t] = worker[t] \/ Hears(t)
    /\ paused' \in [Ticket -> BOOLEAN] /\ \A t \in Ticket : paused'[t] => paused[t]
    /\ \/ /\ Head(toBroker).op # "inventory"
          /\ UNCHANGED <<rows, missing, stale, overtaken, pending>>
       \/ /\ Head(toBroker).op = "inventory"
          /\ Reconcile(Head(toBroker).tabs) /\ pending' = FALSE
          /\ stale' = FALSE /\ overtaken' = overtaken \cup {t \in Ticket : Holds(t)}

Lost ==
    /\ connected' = FALSE /\ toExtension' = <<>> /\ toBroker' = <<>> /\ due' = FALSE
    /\ pending' \in BOOLEAN
    /\ UNCHANGED <<state, attempts, browser, group, remembered, stale>>
    /\ worker' \in [Ticket -> Work]
    /\ \A t \in Ticket :
          worker'[t] = Idle \/ (worker'[t] = worker[t] /\ worker[t].at \in {"idle", "elsewhere"})
    /\ current' \subseteq current /\ misled \subseteq misled' /\ creating' \subseteq creating
    /\ \A c \in creating : c \in creating' \/ c.stage = "asked" \/ <<c.ticket, c.n>> \in misled'
    /\ faults' + restarts' <= MaxFaults /\ faults' \in Nat /\ restarts' \in Nat
    /\ \/ UNCHANGED <<created, restarts>>
       \/ restarts' = restarts + 1 /\ \A t \in Ticket : created'[t] => created[t]

LEMMA OfMessage ==
    ASSUME Base, toBroker # <<>>
    PROVE  LET m == Head(toBroker) IN
           /\ m \in Message /\ m = toBroker[1] /\ Whose(m) /\ 1 \in 1 .. Len(toBroker)
           /\ m.op \in Op /\ m.answer \in {"ok", "failed", "missing", "refused"}
           /\ m.group \in Named /\ m.tabs \in Tabs
  <1> DEFINE m == Head(toBroker)
  <1>1. /\ m = toBroker[1] /\ 1 \in 1 .. Len(toBroker) /\ m \in Message
    BY Shortened DEF Base, Shape
  <1>2. Whose(m)
    BY <1>1 DEF Base, Addressed, Whose
  <1>3. /\ m.op \in Op /\ m.answer \in {"ok", "failed", "missing", "refused"}
        /\ m.group \in Named /\ m.tabs \in Tabs
    BY <1>1 DEF Message
  <1> QED
    BY <1>1, <1>2, <1>3

LEMMA ReadInventoryHeard ==
    ASSUME Base, ReadInventory
    PROVE  Heard
  <1> DEFINE m == Head(toBroker)
             Asked(t) ==
                 t = m.ticket /\ worker[t].at \in {"look", "inventory"} /\ worker[t].reply = "none"
             Read1(t) == [worker[t] EXCEPT !.reply = "ok", !.tabs = m.tabs]
             Resumed(t) == pending /\ Open(t) /\ place[t] = "here"
  <1>1. /\ toBroker # <<>> /\ toBroker' = Tail(toBroker) /\ m.op = "inventory"
        /\ UNCHANGED <<state, place, created, attempts, workspaces, connected, toExtension, extension,
                       misled, counts>>
        /\ Reconcile(m.tabs) /\ pending' = FALSE
        /\ stale' = FALSE /\ overtaken' = overtaken \cup {t \in Ticket : Holds(t)}
    BY Zenon DEF ReadInventory
  <1>2. worker' = [t \in Ticket |-> IF Asked(t) THEN Read1(t) ELSE worker[t]]
    BY Zenon DEF ReadInventory
  <1>3. paused' = [t \in Ticket |-> paused[t] /\ ~Resumed(t)]
    BY Zenon DEF ReadInventory
  <1>4. m.tabs \in Tabs
    BY <1>1, OfMessage
  <1>5. worker \in [Ticket -> Work] /\ paused \in [Ticket -> BOOLEAN]
    BY DEF Base, Shape
  <1>6. ASSUME NEW t \in Ticket, Asked(t)
        PROVE  /\ Read1(t) \in Work /\ Read1(t).reply = "ok" /\ Read1(t).tabs = m.tabs
               /\ Read1(t).at = worker[t].at /\ Read1(t).tab = worker[t].tab
               /\ Read1(t).group = worker[t].group
               /\ m.ticket = t /\ WaitsFor(t, "inventory")
    <2>1. worker[t] \in Work
      BY <1>5
    <2> HIDE DEF m
    <2> QED
      BY <1>4, <1>6, <2>1 DEF Work, WaitsFor
  <1> HIDE DEF m, Asked, Read1, Resumed
  <1>7. ASSUME NEW t \in Ticket
        PROVE  worker'[t] \in Work /\ (worker'[t] = worker[t] \/ Hears(t))
    <2>1. CASE Asked(t)
      <3>1. worker'[t] = Read1(t)
        BY <1>2, <2>1
      <3> QED
        BY <1>1, <1>6, <2>1, <3>1 DEF Hears, m
    <2>2. CASE ~Asked(t)
      BY <1>2, <1>5, <2>2
    <2> QED
      BY <2>1, <2>2
  <1>8. worker' \in [Ticket -> Work]
    BY <1>2, <1>7
  <1>9. paused' \in [Ticket -> BOOLEAN] /\ \A t \in Ticket : paused'[t] => paused[t]
    BY <1>3, <1>5
  <1> QED
    BY <1>1, <1>7, <1>8, <1>9 DEF Heard, m

LEMMA ReadAnswerHeard ==
    ASSUME Base, ReadAnswer
    PROVE  Heard
  <1> DEFINE m == Head(toBroker)
  <1>1. /\ toBroker # <<>> /\ toBroker' = Tail(toBroker) /\ m.op # "inventory"
        /\ UNCHANGED <<tickets, browser, connected, pending, toExtension, extension, history, counts>>
        /\ worker' = IF Awaited(m)
                     THEN [worker EXCEPT ![m.ticket].reply = m.answer, ![m.ticket].group = m.group]
                     ELSE worker
    BY DEF ReadAnswer
  <1>2. m.answer \in {"ok", "failed", "missing", "refused"} /\ m.group \in Named
    BY <1>1, OfMessage
  <1>3. worker \in [Ticket -> Work] /\ paused \in [Ticket -> BOOLEAN] /\ Shape /\ Control
    BY DEF Base, Shape
  <1> HIDE DEF m
  <1>4. ASSUME NEW t \in Ticket
        PROVE  worker'[t] \in Work /\ (worker'[t] = worker[t] \/ Hears(t))
    <2>1. CASE Awaited(m) /\ t = m.ticket
      <3>1. worker'[t] = [worker[t] EXCEPT !.reply = m.answer, !.group = m.group]
        BY <1>1, <1>3, <2>1
      <3>2. worker[t] \in Work
        BY <1>3
      <3>3. /\ worker'[t] \in Work /\ worker'[t].reply = m.answer /\ worker'[t].tabs = worker[t].tabs
            /\ worker'[t].at = worker[t].at /\ worker'[t].tab = worker[t].tab
            /\ worker'[t].group = m.group
        BY <1>2, <3>1, <3>2 DEF Work
      <3>4. m.op \in {"create", "reconcile"} => m.n = Newest(t)
        BY <1>3, <2>1, PendingAtWork, PendingIsNewest DEF Awaited
      <3> QED
        BY <1>1, <2>1, <3>3, <3>4 DEF Hears, WaitsFor, Awaited, m
    <2>2. CASE ~(Awaited(m) /\ t = m.ticket)
      <3>1. worker'[t] = worker[t]
        BY <1>1, <1>3, <2>2
      <3> QED
        BY <1>3, <3>1
    <2> QED
      BY <2>1, <2>2
  <1>5. worker' \in [Ticket -> Work]
    BY <1>1, <1>3, <1>4
  <1> QED
    BY <1>1, <1>3, <1>4, <1>5 DEF Heard, m, tickets, browser, history

LEMMA HeardBase ==
    ASSUME Base, Heard
    PROVE  Base'
  <1> DEFINE m == Head(toBroker)
  <1>1. /\ toBroker # <<>> /\ toBroker' = Tail(toBroker)
        /\ UNCHANGED <<state, place, created, attempts, workspaces, connected, toExtension, group,
                       creating, remembered, due, current, faults, restarts>>
        /\ worker' \in [Ticket -> Work] /\ paused' \in [Ticket -> BOOLEAN]
        /\ \A t \in Ticket : /\ worker'[t] = worker[t] \/ Hears(t)
                             /\ paused'[t] => paused[t]
    BY DEF Heard, extension, counts
  <1>2. rows' \in Rows /\ missing' \subseteq workspaces /\ pending' \in BOOLEAN
    <2>1. workspaces \subseteq Group
      BY NoTabsType DEF Base, Shape
    <2>2. m.tabs \in Tabs
      BY <1>1, OfMessage
    <2> HIDE DEF m
    <2>3. CASE UNCHANGED <<rows, missing, pending>>
      BY <2>3 DEF Base, Shape
    <2>4. CASE Reconcile(m.tabs) /\ pending' = FALSE
      BY <2>1, <2>2, <2>4, Reconciled DEF Base, Shape
    <2> QED
      BY <2>3, <2>4 DEF Heard, m
  <1>3. Addressed' /\ toBroker' \in Seq(Message)
    <2>1. Drained(toExtension', toExtension) /\ Drained(toBroker', toBroker) /\ attempts' = attempts
      BY <1>1 DEF Drained
    <2>2. /\ \A c \in creating' : c.n <= Newest(c.ticket)
          /\ \A o \in remembered' : o.n <= Newest(o.ticket)
      BY <1>1, OfBrowser
    <2> QED
      BY <2>1, <2>2, AddressedStays
  <1>4. ASSUME NEW t \in Ticket
        PROVE  AtWork(t)'
    <2>1. Newest(t)' = Newest(t) /\ AtWork(t) /\ (Open(t)' = Open(t))
      BY <1>1, OfWorker DEF Newest, Open
    <2>2. CASE worker'[t] = worker[t]
      BY <1>1, <2>1, <2>2 DEF AtWork
    <2>3. CASE Hears(t)
      <3>1. /\ worker'[t].at = worker[t].at /\ worker'[t].tab = worker[t].tab
            /\ WaitsFor(t, m.op) /\ m.op \in Op
        BY <1>1, <2>3, OfMessage DEF Hears
      <3>2. worker[t].at \notin {"idle", "elsewhere", "obtained"}
        BY <3>1 DEF WaitsFor, Op
      <3> QED
        BY <1>1, <2>1, <3>1, <3>2 DEF AtWork
    <2> QED
      BY <1>1, <2>2, <2>3
  <1>5. Control'
    BY <1>1, <1>4 DEF Base, Control, Newest
  <1>6. Shape'
    BY <1>1, <1>2, <1>3 DEF Base, Shape
  <1> QED
    BY <1>3, <1>5, <1>6 DEF Base

LEMMA Losing ==
    ASSUME Base, Loses, UNCHANGED place
    PROVE  /\ connected' = FALSE /\ toExtension' = <<>> /\ toBroker' = <<>> /\ due' = FALSE
           /\ worker' \in [Ticket -> Work] /\ paused' \in [Ticket -> BOOLEAN]
           /\ \A t \in Ticket :
                 /\ \/ worker'[t] = Idle
                    \/ worker'[t] = worker[t] /\ worker[t].at \in {"idle", "elsewhere"}
                 /\ worker'[t].at # "idle" => paused'[t] = paused[t]
  <1>1. /\ connected' = FALSE /\ toExtension' = <<>> /\ toBroker' = <<>> /\ due' = FALSE
        /\ paused' = [t \in Ticket |-> paused[t] \/ (Open(t) /\ place[t] = "here")]
        /\ worker' = [t \in Ticket |-> IF place[t] = "here" THEN Idle ELSE worker[t]]
    BY DEF Loses
  <1>2. worker \in [Ticket -> Work] /\ paused \in [Ticket -> BOOLEAN] /\ Idle \in Work /\ Idle.at = "idle"
    BY IdleType DEF Base, Shape
  <1>3. worker' \in [Ticket -> Work] /\ paused' \in [Ticket -> BOOLEAN]
    BY <1>1, <1>2
  <1>4. ASSUME NEW t \in Ticket
        PROVE  /\ \/ worker'[t] = Idle
                  \/ worker'[t] = worker[t] /\ worker[t].at \in {"idle", "elsewhere"}
               /\ worker'[t].at # "idle" => paused'[t] = paused[t]
    <2>1. AtWork(t)
      BY OfWorker
    <2>2. CASE place[t] = "here"
      BY <1>1, <1>2, <2>2
    <2>3. CASE place[t] # "here"
      <3>1. worker'[t] = worker[t] /\ paused'[t] = paused[t]
        BY <1>1, <1>2, <2>3
      <3> QED
        BY <2>1, <2>3, <3>1 DEF AtWork
    <2> QED
      BY <2>2, <2>3
  <1> QED
    BY <1>1, <1>3, <1>4

LEMMA OneFault ==
    ASSUME Shape, Fault
    PROVE  /\ faults \in Nat /\ faults' \in Nat /\ faults' + 1 = faults /\ restarts \in Nat
           /\ faults' + restarts <= MaxFaults /\ faults' + (restarts + 1) <= MaxFaults
  <1>1. faults \in Nat /\ restarts \in Nat /\ faults + restarts <= MaxFaults /\ MaxFaults \in Nat
    BY TabCreationAssumption DEF Shape
  <1>2. faults' \in Nat /\ faults' + 1 = faults
    BY <1>1 DEF Fault
  <1>3. \A f, g, r, m \in Nat : f + r <= m /\ g + 1 = f => g + r <= m /\ g + (r + 1) <= m
    OBVIOUS
  <1> QED
    BY <1>1, <1>2, <1>3

LEMMA OutagesLose ==
    ASSUME Base, Disconnect \/ ExtensionRestarts
    PROVE  Lost /\ Base'
  <1>0. Shape /\ Loses /\ Fault
    BY DEF Base, Disconnect, ExtensionRestarts
  <1>1. UNCHANGED <<state, place, created, attempts, browser, pending, group, remembered, restarts, stale>>
    BY DEF Disconnect, ExtensionRestarts, Misleads, history
  <1>2. /\ creating' \subseteq creating /\ current' \subseteq current /\ misled \subseteq misled'
        /\ \A c \in creating : c \in creating' \/ c.stage = "asked" \/ <<c.ticket, c.n>> \in misled'
    <2>1. CASE Disconnect
      BY <2>1 DEF Disconnect, history
    <2>2. CASE ExtensionRestarts
      <3>1. /\ creating' = {} /\ current' = {}
            /\ misled' = misled \cup {<<c.ticket, c.n>> : c \in {d \in creating : d.stage # "asked"}}
        BY <2>2 DEF ExtensionRestarts, Misleads
      <3> QED
        BY <3>1
    <2> QED
      BY <2>1, <2>2
  <1>3. /\ connected' = FALSE /\ toExtension' = <<>> /\ toBroker' = <<>> /\ due' = FALSE
        /\ worker' \in [Ticket -> Work] /\ paused' \in [Ticket -> BOOLEAN]
        /\ \A t \in Ticket :
              /\ \/ worker'[t] = Idle
                 \/ worker'[t] = worker[t] /\ worker[t].at \in {"idle", "elsewhere"}
              /\ worker'[t].at # "idle" => paused'[t] = paused[t]
    BY <1>0, <1>1, Losing
  <1>4. faults' \in Nat /\ restarts' \in Nat /\ faults' + restarts' <= MaxFaults
    BY <1>0, <1>1, OneFault
  <1>5. pending' \in BOOLEAN
    BY <1>1 DEF Base, Shape
  <1>6. Lost
    BY <1>1, <1>2, <1>3, <1>4, <1>5 DEF Lost
  <1>7. ASSUME NEW t \in Ticket
        PROVE  AtWork(t)' /\ Newest(t)' = Newest(t)
    <2>1. Newest(t)' = Newest(t) /\ AtWork(t) /\ (Open(t)' = Open(t))
      BY <1>1, OfWorker DEF Newest, Open
    <2>2. CASE worker'[t] = Idle
      BY <2>1, <2>2, IdleType DEF AtWork
    <2>3. CASE worker'[t] = worker[t] /\ worker[t].at \in {"idle", "elsewhere"}
      BY <1>1, <1>3, <2>1, <2>3 DEF AtWork
    <2> QED
      BY <1>3, <2>2, <2>3, <2>1
  <1>8. Control'
    BY <1>1, <1>7 DEF Base, Control
  <1>9. Addressed' /\ toExtension' \in Seq(Request) /\ toBroker' \in Seq(Message)
    <2>1. Drained(toExtension', toExtension) /\ Drained(toBroker', toBroker)
      BY <1>3 DEF Drained
    <2>2. /\ \A c \in creating' : c.n <= Newest(c.ticket)
          /\ \A o \in remembered' : o.n <= Newest(o.ticket)
      BY <1>1, <1>2, OfBrowser
    <2> QED
      BY <1>1, <2>1, <2>2, AddressedStays
  <1>10. Shape'
    BY <1>0, <1>1, <1>2, <1>3, <1>4, <1>9 DEF Shape, browser
  <1> QED
    BY <1>6, <1>8, <1>9, <1>10 DEF Base

LEMMA RestartsLose ==
    ASSUME Base, BrokerRestarts
    PROVE  Lost /\ Base'
  <1>0. Shape /\ Fault
    BY DEF Base, BrokerRestarts
  <1>1. /\ UNCHANGED <<state, attempts, browser, group, creating, remembered, current, misled, stale>>
        /\ connected' = FALSE /\ toExtension' = <<>> /\ toBroker' = <<>> /\ due' = FALSE
        /\ pending' = TRUE /\ restarts' = restarts + 1
    BY DEF BrokerRestarts
  <1>2. /\ worker' = [t \in Ticket |-> Idle]
        /\ created' = [t \in Ticket |-> created[t] /\ ~(Open(t) /\ ~paused[t])]
        /\ place' = [t \in Ticket |-> IF t \in Allocate /\ Open(t) /\ ~paused[t] THEN "none" ELSE place[t]]
        /\ paused' = [t \in Ticket |-> paused[t] \/ (Open(t) /\ t \in Create)]
    BY DEF BrokerRestarts
  <1>3. /\ paused \in [Ticket -> BOOLEAN] /\ created \in [Ticket -> BOOLEAN]
        /\ place \in [Ticket -> {"none", "here", "elsewhere"}]
    BY <1>0 DEF Shape
  <1>4. /\ worker' \in [Ticket -> Work] /\ paused' \in [Ticket -> BOOLEAN]
        /\ created' \in [Ticket -> BOOLEAN] /\ place' \in [Ticket -> {"none", "here", "elsewhere"}]
    BY <1>2, <1>3, IdleType
  <1>5. faults' \in Nat /\ restarts' \in Nat /\ faults' + restarts' <= MaxFaults
    BY <1>0, <1>1, OneFault
  <1>6. ASSUME NEW t \in Ticket
        PROVE  /\ worker'[t] = Idle /\ (created'[t] => created[t])
               /\ created'[t] => place'[t] = "elsewhere" /\ t \in Allocate
    BY <1>2, <1>3, OfWorker
  <1>7. Lost
    BY <1>1, <1>4, <1>5, <1>6 DEF Lost
  <1>8. Control'
    <2>1. \A t \in Ticket : Newest(t)' = Newest(t) /\ AtWork(t)'
      BY <1>1, <1>6, IdleType DEF Newest, AtWork
    <2> QED
      BY <1>1, <1>6, <2>1 DEF Base, Control
  <1>9. Addressed' /\ toExtension' \in Seq(Request) /\ toBroker' \in Seq(Message)
    <2>1. Drained(toExtension', toExtension) /\ Drained(toBroker', toBroker)
      BY <1>1 DEF Drained
    <2>2. /\ \A c \in creating' : c.n <= Newest(c.ticket)
          /\ \A o \in remembered' : o.n <= Newest(o.ticket)
      BY <1>1, OfBrowser
    <2> QED
      BY <1>1, <2>1, <2>2, AddressedStays
  <1>10. Shape'
    BY <1>0, <1>1, <1>4, <1>5, <1>9 DEF Shape, browser
  <1> QED
    BY <1>7, <1>8, <1>9, <1>10 DEF Base

(* Every step, by what it amounts to. *)
LEMMA Summary ==
    ASSUME Base, [Next]_vars
    PROVE  \/ UNCHANGED vars
           \/ \E t \in Ticket : WorkerAction(t) /\ Worked(t) /\ Typed
           \/ ServiceAction /\ Served /\ ServiceTyped
           \/ (ReadInventory \/ ReadAnswer) /\ Heard
           \/ Disconnect \/ ExtensionRestarts \/ BrokerRestarts
  BY Steps, WorkerWorks, ServiceServes, ReadInventoryHeard, ReadAnswerHeard DEF ServiceAction, Regroups

LEMMA BaseStep ==
    ASSUME Base, [Next]_vars
    PROVE  Base'
  <1>1. CASE UNCHANGED vars
    BY <1>1 DEF vars, tickets, browser, link, extension, history, counts, Base, Shape, Control,
                Addressed, AtWork, Newest, Open, Sent
  <1>2. CASE \E t \in Ticket : Worked(t) /\ Typed
    BY <1>2, WorkedShape, WorkedControl, WorkedAddressed DEF Base
  <1>3. CASE Served /\ ServiceTyped
    BY <1>3, ServedBase
  <1>4. CASE Heard
    BY <1>4, HeardBase
  <1>5. CASE Disconnect \/ ExtensionRestarts \/ BrokerRestarts
    BY <1>5, OutagesLose, RestartsLose
  <1> QED
    BY <1>1, <1>2, <1>3, <1>4, <1>5, Summary

LEMMA BaseInit ==
    ASSUME Init
    PROVE  Base
  <1>1. PICK load \in Load :
          /\ state = [t \in Ticket |-> IF t \in load.open THEN "running" ELSE "none"]
          /\ faults = load.faults
    BY DEF Init
  <1>2. faults \in 0 .. MaxFaults /\ MaxFaults \in Nat
    BY <1>1, TabCreationAssumption
  <1>3. /\ attempts \in [Ticket -> Seq(Try)] /\ \A t \in Ticket : attempts[t] = <<>> /\ Newest(t) = 0
    BY DEF Init, Newest
  <1>4. rows \in Rows
    <2>1. <<"active">> \in Seq(RowState) \ {<<>>}
      BY DEF RowState
    <2>2. {<<Home, Home>>} \in SUBSET (AnyTab \X Group)
      BY NoTabsType
    <2>3. rows \in [{<<Home, Home>>} -> Seq(RowState) \ {<<>>}]
      BY <2>1 DEF Init
    <2> QED
      BY <2>2, <2>3, IsRows
  <1>5. group \in Tabs
    <2>1. {Home} \in SUBSET AnyTab /\ group \in [{Home} -> Group]
      BY NoTabsType DEF Init
    <2> QED
      BY <2>1, IsTabs
  <1>6. worker \in [Ticket -> Work] /\ \A t \in Ticket : worker[t] = Idle
    BY IdleType DEF Init
  <1>7. workspaces \subseteq Named /\ IsFiniteSet(workspaces)
    BY NoTabsType, FS_Singleton DEF Init
  <1>8. Shape
    <2>1. toExtension \in Seq(Request) /\ toBroker \in Seq(Message)
      BY DEF Init
    <2>2. faults \in Nat /\ restarts \in Nat /\ faults + restarts <= MaxFaults
      BY <1>2 DEF Init
    <2> QED
      BY <1>1, <1>3, <1>4, <1>5, <1>6, <1>7, <2>1, <2>2 DEF Init, Shape
  <1>9. Control
    BY <1>3, <1>6, IdleType, TabCreationAssumption DEF Init, Control, AtWork
  <1>10. Addressed
    BY DEF Init, Addressed
  <1> QED
    BY <1>8, <1>9, <1>10 DEF Base

(* Types, workers and messages are as the code has them, in every state.    *)
THEOREM Based == Spec => []Base
  BY BaseInit, BaseStep, PTL DEF Spec

(* Of a ticket's attempts only the newest is ever pending: no other is      *)
(* begun, over outages, timers and restarts, before the journal says how    *)
(* that one ended.                                                          *)
THEOREM NoRetryBeforeReconciliation == Spec => []ReconciledBeforeRetry
  <1>1. Base => ReconciledBeforeRetry
    BY Numbers DEF Base, Control, ReconciledBeforeRetry, Pending, Newest
  <1> QED
    BY <1>1, Based, PTL

-----------------------------------------------------------------------------
(* One request of a ticket at a time. *)
NoneAsked(t) ==
    /\ \A i \in 1 .. Len(toExtension) : ~Asks(toExtension[i], t)
    /\ \A i \in 1 .. Len(toBroker) : ~Asks(toBroker[i], t)

LEMMA Queues ==
    ASSUME Base
    PROVE  /\ toExtension \in Seq(Request) /\ Len(toExtension) \in Nat
           /\ toBroker \in Seq(Message) /\ Len(toBroker) \in Nat
           /\ \A i \in 1 .. Len(toExtension) : toExtension[i] \in Request /\ toExtension[i].op \in Op
           /\ \A i \in 1 .. Len(toBroker) : toBroker[i] \in Message /\ toBroker[i].op \in Op
           /\ "none" \notin Ticket
  <1>1. toExtension \in Seq(Request) /\ toBroker \in Seq(Message)
    BY DEF Base, Shape
  <1>2. /\ Len(toExtension) \in Nat /\ \A i \in 1 .. Len(toExtension) : toExtension[i] \in Request
        /\ Len(toBroker) \in Nat /\ \A i \in 1 .. Len(toBroker) : toBroker[i] \in Message
    BY <1>1
  <1>3. (\A m \in Request : m.op \in Op) /\ (\A m \in Message : m.op \in Op)
    BY DEF Request, Message
  <1> QED
    BY <1>1, <1>2, <1>3, TabCreationAssumption

(* A worker that does not wait has nothing under way. *)
LEMMA FreeAsksNothing ==
    ASSUME Base, NEW t \in Ticket, OneAsked(t), \A op \in Op \ {"create"} : ~WaitsFor(t, op)
    PROVE  NoneAsked(t)
  <1>1. \A i \in 1 .. Len(toExtension) : ~Asks(toExtension[i], t)
    BY Queues DEF OneAsked, Asks
  <1>2. \A i \in 1 .. Len(toBroker) : ~Asks(toBroker[i], t)
    BY Queues DEF OneAsked, Asks
  <1> QED
    BY <1>1, <1>2 DEF NoneAsked

LEMMA WorkedAsksOne ==
    ASSUME Base, Outstanding, NEW t \in Ticket, Worked(t)
    PROVE  Outstanding'
  <1>1. toBroker' = toBroker /\ (toExtension' = toExtension \/ Requests(t))
    BY DEF Worked, Apart
  <1>2. ASSUME NEW u \in Ticket, u # t, Open(u)'
        PROVE  OneAsked(u)'
    <2>1. worker'[u] = worker[u] /\ Open(u) /\ OneAsked(u)
      BY <1>2 DEF Worked, Apart, Open, Outstanding
    <2>2. CASE toExtension' = toExtension
      BY <1>1, <2>1, <2>2 DEF OneAsked, WaitsFor
    <2>3. CASE Requests(t)
      <3>1. PICK r \in Request : toExtension' = Append(toExtension, r) /\ r.ticket = t
        BY <2>3 DEF Requests
      <3>2. /\ Len(toExtension) \in Nat /\ Len(toExtension') = Len(toExtension) + 1
            /\ \A i \in 1 .. Len(toExtension) : toExtension'[i] = toExtension[i]
            /\ toExtension'[Len(toExtension) + 1] = r
        BY <3>1, Queues, Appended
      <3>3. ~Asks(r, u)
        BY <1>2, <3>1 DEF Asks
      <3>4. \A i \in 1 .. Len(toExtension') : Asks(toExtension'[i], u) =>
                i \in 1 .. Len(toExtension) /\ toExtension'[i] = toExtension[i]
        BY <3>2, <3>3
      <3> QED
        BY <1>1, <2>1, <3>4 DEF OneAsked, WaitsFor
    <2> QED
      BY <1>1, <2>2, <2>3
  <1>3. ASSUME Open(t)'
        PROVE  OneAsked(t)'
    <2>1. Open(t) /\ Free(t)
      BY <1>3 DEF Worked
    <2>2. NoneAsked(t)
      BY <2>1, FreeAsksNothing DEF Outstanding, Free, WaitsFor, Op
    <2>3. CASE toExtension' = toExtension
      BY <1>1, <2>2, <2>3 DEF OneAsked, NoneAsked
    <2>4. CASE Requests(t)
      <3>1. PICK r \in Request : toExtension' = Append(toExtension, r) /\ WaitsFor(t, r.op)'
        BY <2>4 DEF Requests
      <3>2. /\ Len(toExtension) \in Nat /\ Len(toExtension') = Len(toExtension) + 1
            /\ \A i \in 1 .. Len(toExtension) : toExtension'[i] = toExtension[i]
            /\ toExtension'[Len(toExtension) + 1] = r
        BY <3>1, Queues, Appended
      <3>3. \A i \in 1 .. Len(toExtension') : Asks(toExtension'[i], t) =>
                i = Len(toExtension) + 1 /\ \E op : op = toExtension'[i].op /\ WaitsFor(t, op)'
        BY <2>2, <3>1, <3>2 DEF NoneAsked
      <3>4. \A i \in 1 .. Len(toExtension') : Asks(toExtension'[i], t) => WaitsFor(t, toExtension[i].op)'
        BY <3>3 DEF WaitsFor
      <3> QED
        BY <1>1, <2>2, <3>3, <3>4 DEF OneAsked, NoneAsked
    <2> QED
      BY <1>1, <2>3, <2>4
  <1> QED
    BY <1>2, <1>3 DEF Outstanding

LEMMA ServedAsksOne ==
    ASSUME Base, Outstanding, Served
    PROVE  Outstanding'
  <1>1. worker' = worker /\ state' = state
    BY DEF Served, tickets
  <1>2. SUFFICES ASSUME NEW t \in Ticket, Open(t)
                 PROVE  OneAsked(t)'
    BY <1>1 DEF Outstanding, Open
  <1>3. OneAsked(t) /\ \A op : WaitsFor(t, op)' = WaitsFor(t, op)
    BY <1>1, <1>2 DEF Outstanding, WaitsFor
  <1>4. CASE UNCHANGED <<toExtension, toBroker>>
    BY <1>1, <1>3, <1>4 DEF OneAsked, WaitsFor
  <1>5. CASE TakeCreate
    <2>1. toExtension # <<>> /\ toExtension' = Tail(toExtension) /\ toBroker' = toBroker
      BY <1>5 DEF TakeCreate, Takes
    <2>2. /\ Len(toExtension) \in Nat /\ Len(toExtension') \in Nat
          /\ \A i \in 1 .. Len(toExtension') :
                i + 1 \in 1 .. Len(toExtension) /\ toExtension'[i] = toExtension[i + 1]
      BY <2>1, Queues, Shortened
    <2>3. \A i \in 1 .. Len(toExtension') : Asks(toExtension'[i], t) =>
             /\ WaitsFor(t, toExtension'[i].op)
             /\ \A j \in 1 .. Len(toExtension') : Asks(toExtension'[j], t) => j = i
             /\ \A j \in 1 .. Len(toBroker) : ~Asks(toBroker[j], t)
      <3>1. SUFFICES ASSUME NEW i \in 1 .. Len(toExtension'), Asks(toExtension'[i], t)
                     PROVE  /\ WaitsFor(t, toExtension'[i].op)
                            /\ \A j \in 1 .. Len(toExtension') : Asks(toExtension'[j], t) => j = i
                            /\ \A j \in 1 .. Len(toBroker) : ~Asks(toBroker[j], t)
        OBVIOUS
      <3>2. \A j \in 1 .. Len(toExtension') : Asks(toExtension'[j], t) => j + 1 = i + 1
        BY <1>3, <2>2, <3>1 DEF OneAsked
      <3> QED
        BY <1>3, <2>2, <3>1, <3>2 DEF OneAsked
    <2> QED
      BY <1>1, <1>3, <2>1, <2>3 DEF OneAsked, WaitsFor
  <1>6. CASE \E m : Posts(m) /\ Replies(m)
    <2>1. PICK m : Posts(m) /\ Replies(m)
      BY <1>6
    <2>2. /\ toExtension # <<>> /\ toExtension' = Tail(toExtension)
          /\ m \in Message /\ toBroker' = Append(toBroker, m)
          /\ m.op = toExtension[1].op /\ m.ticket = toExtension[1].ticket /\ 1 \in 1 .. Len(toExtension)
      BY <2>1, Taken DEF Posts, Replies
    <2>3. /\ Len(toExtension) \in Nat /\ Len(toExtension') \in Nat
          /\ \A i \in 1 .. Len(toExtension') :
                i + 1 \in 1 .. Len(toExtension) /\ toExtension'[i] = toExtension[i + 1]
      BY <2>2, Queues, Shortened
    <2>4. /\ Len(toBroker) \in Nat /\ Len(toBroker') = Len(toBroker) + 1
          /\ \A i \in 1 .. Len(toBroker) : toBroker'[i] = toBroker[i]
          /\ toBroker'[Len(toBroker) + 1] = m
      BY <2>2, Queues, Appended
    <2>5. CASE Asks(m, t)
      <3>1. /\ Asks(toExtension[1], t) /\ WaitsFor(t, m.op)
            /\ \A j \in 1 .. Len(toExtension) : Asks(toExtension[j], t) => j = 1
            /\ \A j \in 1 .. Len(toBroker) : ~Asks(toBroker[j], t)
        BY <1>3, <2>2, <2>5 DEF OneAsked, Asks
      <3>2. \A i \in 1 .. Len(toExtension') : ~Asks(toExtension'[i], t)
        BY <2>3, <3>1
      <3>3. \A i \in 1 .. Len(toBroker') : Asks(toBroker'[i], t) =>
               i = Len(toBroker) + 1 /\ toBroker'[i] = m
        BY <2>4, <3>1
      <3> QED
        BY <1>1, <3>1, <3>2, <3>3 DEF OneAsked, WaitsFor
    <2>6. CASE ~Asks(m, t)
      <3>1. \A i \in 1 .. Len(toExtension') : Asks(toExtension'[i], t) =>
               /\ WaitsFor(t, toExtension'[i].op)
               /\ \A j \in 1 .. Len(toExtension') : Asks(toExtension'[j], t) => j + 1 = i + 1
               /\ \A j \in 1 .. Len(toBroker) : ~Asks(toBroker[j], t)
        BY <1>3, <2>3 DEF OneAsked
      <3>2. \A i \in 1 .. Len(toExtension'), j \in 1 .. Len(toExtension') : j + 1 = i + 1 => j = i
        BY <2>3
      <3>3. \A i \in 1 .. Len(toBroker') : Asks(toBroker'[i], t) =>
               i \in 1 .. Len(toBroker) /\ toBroker'[i] = toBroker[i]
        BY <2>4, <2>6
      <3> QED
        BY <1>1, <1>3, <3>1, <3>2, <3>3 DEF OneAsked, WaitsFor
    <2> QED
      BY <2>5, <2>6
  <1>7. CASE \E m : /\ Posts(m) /\ toExtension' = toExtension
                    /\ m.op = "create" \/ (m.op = "inventory" /\ m.ticket = "none")
    <2>1. PICK m : /\ Posts(m) /\ toExtension' = toExtension
                   /\ m.op = "create" \/ (m.op = "inventory" /\ m.ticket = "none")
      BY <1>7
    <2>2. m \in Message /\ toBroker' = Append(toBroker, m) /\ ~Asks(m, t)
      BY <2>1, Queues DEF Posts, Asks
    <2>4. /\ Len(toBroker) \in Nat /\ Len(toBroker') = Len(toBroker) + 1
          /\ \A i \in 1 .. Len(toBroker) : toBroker'[i] = toBroker[i]
          /\ toBroker'[Len(toBroker) + 1] = m
      BY <2>2, Queues, Appended
    <2>5. \A i \in 1 .. Len(toBroker') : Asks(toBroker'[i], t) =>
             i \in 1 .. Len(toBroker) /\ toBroker'[i] = toBroker[i]
      BY <2>2, <2>4
    <2> QED
      BY <1>1, <1>3, <2>1, <2>5 DEF OneAsked, WaitsFor
  <1> QED
    BY <1>4, <1>5, <1>6, <1>7 DEF Served

LEMMA HeardAsksOne ==
    ASSUME Base, Outstanding, Heard
    PROVE  Outstanding'
  <1>1. /\ toBroker # <<>> /\ toBroker' = Tail(toBroker) /\ state' = state /\ toExtension' = toExtension
        /\ \A t \in Ticket : worker'[t] = worker[t] \/ Hears(t)
    BY DEF Heard
  <1>2. SUFFICES ASSUME NEW t \in Ticket, Open(t)
                 PROVE  OneAsked(t)'
    BY <1>1 DEF Outstanding, Open
  <1>3. OneAsked(t)
    BY <1>2 DEF Outstanding
  <1>4. /\ Len(toBroker) \in Nat /\ Len(toBroker') \in Nat
        /\ \A i \in 1 .. Len(toBroker') : i + 1 \in 1 .. Len(toBroker) /\ toBroker'[i] = toBroker[i + 1]
        /\ Head(toBroker) = toBroker[1] /\ 1 \in 1 .. Len(toBroker)
    BY <1>1, Queues, Shortened
  <1>5. CASE worker'[t] = worker[t]
    <2>1. \A i \in 1 .. Len(toBroker') : Asks(toBroker'[i], t) =>
             /\ WaitsFor(t, toBroker'[i].op)
             /\ \A j \in 1 .. Len(toBroker') : Asks(toBroker'[j], t) => j + 1 = i + 1
      BY <1>3, <1>4 DEF OneAsked
    <2>2. \A i \in 1 .. Len(toBroker'), j \in 1 .. Len(toBroker') : j + 1 = i + 1 => j = i
      BY <1>4
    <2>3. \A i \in 1 .. Len(toExtension) : Asks(toExtension[i], t) =>
             \A j \in 1 .. Len(toBroker') : ~Asks(toBroker'[j], t)
      BY <1>3, <1>4 DEF OneAsked
    <2> QED
      BY <1>1, <1>3, <1>5, <2>1, <2>2, <2>3 DEF OneAsked, WaitsFor
  <1>6. CASE Hears(t)
    <2>1. toBroker[1].ticket = t /\ WaitsFor(t, toBroker[1].op) /\ toBroker[1].op \in Op
      BY <1>4, <1>6, Queues DEF Hears
    <2>2. /\ \A i \in 1 .. Len(toExtension) : ~Asks(toExtension[i], t)
          /\ \A i \in 1 .. Len(toBroker) : i # 1 => ~Asks(toBroker[i], t)
      <3>1. CASE toBroker[1].op = "create"
        <4>1. \A op \in Op \ {"create"} : ~WaitsFor(t, op)
          BY <2>1, <3>1 DEF WaitsFor, Op
        <4> QED
          BY <1>3, <4>1, FreeAsksNothing DEF NoneAsked
      <3>2. CASE toBroker[1].op # "create"
        BY <1>3, <1>4, <2>1, <3>2 DEF OneAsked, Asks
      <3> QED
        BY <3>1, <3>2
    <2>3. \A i \in 1 .. Len(toBroker') : ~Asks(toBroker'[i], t)
      BY <1>4, <2>2
    <2> QED
      BY <1>1, <2>2, <2>3 DEF OneAsked
  <1> QED
    BY <1>1, <1>5, <1>6

LEMMA OutstandingStep ==
    ASSUME Base, Outstanding, [Next]_vars
    PROVE  Outstanding'
  <1>1. CASE UNCHANGED vars
    BY <1>1 DEF vars, tickets, link, Outstanding, OneAsked, WaitsFor, Open
  <1>2. CASE \E t \in Ticket : Worked(t) /\ Typed
    BY <1>2, WorkedAsksOne
  <1>3. CASE Served /\ ServiceTyped
    BY <1>3, ServedAsksOne
  <1>4. CASE Heard
    BY <1>4, HeardAsksOne
  <1>5. CASE Disconnect \/ ExtensionRestarts \/ BrokerRestarts
    <2>1. Len(toExtension') = 0 /\ Len(toBroker') = 0
      BY <1>5, OutagesLose, RestartsLose DEF Lost
    <2> QED
      BY <2>1 DEF Outstanding, OneAsked
  <1> QED
    BY <1>1, <1>2, <1>3, <1>4, <1>5, Summary

-----------------------------------------------------------------------------
(* The groups of a ticket, and its workspaces. *)
LEMMA Makes ==
    ASSUME Base, NEW t \in Ticket
    PROVE  /\ IsFiniteSet(Made(t)) /\ Cardinality(Made(t)) \in Nat
           /\ NewGroup(t)[1] = t /\ NewGroup(t)[2] = Cardinality(Made(t)) + 1
  <1>1. IsFiniteSet(Made(t))
    BY FS_Subset DEF Base, Shape, Made
  <1>2. Cardinality(Made(t)) \in Nat
    BY <1>1, FS_CardinalityType
  <1> QED
    BY <1>1, <1>2 DEF NewGroup

(* A workspace that is made is the group the worker holds, a new one. *)
LEMMA MakesOne ==
    ASSUME Base, Counted, Grouped, NEW t \in Ticket, WorkspaceMade(t)
    PROVE  /\ worker[t].group = NewGroup(t) /\ NewGroup(t) \notin workspaces
           /\ workspaces' = workspaces \cup {NewGroup(t)}
           /\ Made(t)' = Made(t) \cup {NewGroup(t)}
           /\ Cardinality(Made(t)') = Cardinality(Made(t)) + 1
           /\ t \in Allocate /\ ~created[t] /\ created'[t] /\ Open(t)
           /\ \A u \in Ticket \ {t} : Made(u)' = Made(u) /\ created'[u] = created[u]
           /\ UNCHANGED <<toExtension, toBroker, restarts>>
           /\ worker'[t].at = "elsewhere" /\ worker[t].reply = "ok"
  <1>1. worker[t].group = NewGroup(t) /\ worker[t].at = "rename" /\ worker[t].reply = "ok"
    BY DEF WorkspaceMade, Answered, Grouped
  <1>2. t \in Allocate /\ ~created[t] /\ Open(t)
    BY <1>1, OfWorker DEF AtWork
  <1>3. /\ workspaces' = workspaces \cup {NewGroup(t)}
        /\ created' = [created EXCEPT ![t] = TRUE]
        /\ worker' = [worker EXCEPT ![t] = Awaiting("elsewhere")]
        /\ UNCHANGED <<toExtension, toBroker, restarts>>
    BY <1>1 DEF WorkspaceMade, link, counts
  <1>4. created \in [Ticket -> BOOLEAN] /\ worker \in [Ticket -> Work]
    BY DEF Base, Shape
  <1>5. /\ IsFiniteSet(Made(t)) /\ Cardinality(Made(t)) \in Nat
        /\ NewGroup(t)[1] = t /\ NewGroup(t)[2] = Cardinality(Made(t)) + 1
    BY Makes
  <1>6. NewGroup(t) \notin workspaces
    <2>1. \A w \in Made(t) : w[2] <= Cardinality(Made(t))
      BY <1>2 DEF Counted
    <2>2. NewGroup(t) \notin Made(t)
      <3>1. \A n \in Nat : ~(n + 1 <= n)
        OBVIOUS
      <3> QED
        BY <1>5, <2>1, <3>1
    <2> QED
      BY <1>5, <2>2 DEF Made
  <1>7. Made(t)' = Made(t) \cup {NewGroup(t)} /\ \A u \in Ticket \ {t} : Made(u)' = Made(u)
    BY <1>3, <1>5 DEF Made
  <1>8. Cardinality(Made(t)') = Cardinality(Made(t)) + 1
    <2>1. NewGroup(t) \notin Made(t)
      BY <1>6 DEF Made
    <2>2. Cardinality(Made(t) \cup {NewGroup(t)}) = Cardinality(Made(t)) + 1
      BY <1>5, <2>1, FS_AddElement
    <2> QED
      BY <1>7, <2>2
  <1> QED
    BY <1>1, <1>2, <1>3, <1>4, <1>6, <1>7, <1>8, IdleType

Allocation == Counted /\ Grouped

LEMMA SameGroups ==
    ASSUME UNCHANGED workspaces
    PROVE  \A t : Made(t)' = Made(t) /\ NewGroup(t)' = NewGroup(t)
  BY DEF Made, NewGroup

(* Nothing is made: the counts are as they were. *)
LEMMA CountedStays ==
    ASSUME Base, Counted, UNCHANGED <<workspaces, created, restarts>>
    PROVE  Counted'
  BY SameGroups DEF Counted

LEMMA WorkedAllocates ==
    ASSUME Base, Outstanding, Allocation, NEW t \in Ticket, Worked(t), Typed
    PROVE  Allocation'
  <1>1. /\ toBroker' = toBroker /\ (toExtension' = toExtension \/ Requests(t))
        /\ \A u \in Ticket \ {t} : worker'[u] = worker[u]
        /\ worker'[t].reply = "none" /\ restarts' = restarts
        /\ worker'[t].at = "rename" => Answered(t, "group", "ok") /\ worker'[t].group = worker[t].group
    BY DEF Worked, Apart, Carries
  <1>2. CASE UNCHANGED <<workspaces, created>>
    <2>1. Counted'
      BY <1>1, <1>2, CountedStays DEF Allocation
    <2>2. \A u : NewGroup(u)' = NewGroup(u)
      BY <1>2, SameGroups
    <2>3. worker'[t].at = "rename" => worker'[t].group = NewGroup(t)
      BY <1>1 DEF Answered, Allocation, Grouped
    <2>4. \A i \in 1 .. Len(toExtension') :
             toExtension'[i].op = "rename" => toExtension'[i].group = NewGroup(toExtension'[i].ticket)
      <3>1. CASE toExtension' = toExtension
        BY <3>1 DEF Allocation, Grouped
      <3>2. CASE Requests(t)
        <4>1. PICK r \in Request :
                /\ toExtension' = Append(toExtension, r) /\ r.ticket = t
                /\ WaitsFor(t, r.op)' /\ r.group = worker'[t].group
          BY <3>2 DEF Requests
        <4>2. r.op = "rename" => r.group = NewGroup(r.ticket)
          BY <2>3, <4>1 DEF WaitsFor
        <4>3. /\ Len(toExtension) \in Nat /\ Len(toExtension') = Len(toExtension) + 1
              /\ \A i \in 1 .. Len(toExtension) : toExtension'[i] = toExtension[i]
              /\ toExtension'[Len(toExtension) + 1] = r
          BY <4>1, Queues, Appended
        <4> QED
          BY <4>2, <4>3 DEF Allocation, Grouped
      <3> QED
        BY <1>1, <3>1, <3>2
    <2>5. \A u \in Ticket :
             \/ worker'[u].at = "group" /\ worker'[u].reply = "ok"
             \/ worker'[u].at = "rename"
             => worker'[u].group = NewGroup(u)
      BY <1>1, <2>3 DEF Allocation, Grouped
    <2>6. Grouped'
      BY <1>1, <2>2, <2>4, <2>5 DEF Allocation, Grouped
    <2> QED
      BY <2>1, <2>6 DEF Allocation
  <1>3. CASE WorkspaceMade(t)
    <2>1. /\ Cardinality(Made(t)') = Cardinality(Made(t)) + 1
          /\ Made(t)' = Made(t) \cup {NewGroup(t)}
          /\ t \in Allocate /\ ~created[t] /\ created'[t] /\ Open(t)
          /\ \A u \in Ticket \ {t} : Made(u)' = Made(u) /\ created'[u] = created[u]
          /\ UNCHANGED <<toExtension, toBroker, restarts>>
          /\ worker'[t].at = "elsewhere" /\ worker[t].reply = "ok"
      BY <1>3, MakesOne DEF Allocation
    <2>2. /\ Cardinality(Made(t)) \in Nat /\ restarts \in Nat
          /\ NewGroup(t)[1] = t /\ NewGroup(t)[2] = Cardinality(Made(t)) + 1
      BY Makes DEF Base, Shape
    <2>3. Counted'
      <3>1. ASSUME NEW u \in Allocate, u # t
            PROVE  /\ Cardinality(Made(u)') <= restarts' + (IF created'[u] THEN 1 ELSE 0)
                   /\ \A w \in Made(u)' : w[2] <= Cardinality(Made(u)')
        BY <2>1, <3>1 DEF Allocation, Counted, Ticket
      <3>2. Cardinality(Made(t)') <= restarts' + 1
        <4>1. Cardinality(Made(t)) <= restarts
          BY <2>1, <2>2 DEF Allocation, Counted
        <4>2. \A c, r \in Nat : c <= r => c + 1 <= r + 1
          OBVIOUS
        <4> QED
          BY <2>1, <2>2, <4>1, <4>2
      <3>3. ASSUME NEW w \in Made(t)'
            PROVE  w[2] <= Cardinality(Made(t)')
        <4>1. CASE w \in Made(t)
          <5>1. w[2] <= Cardinality(Made(t)) /\ w \in workspaces /\ w[1] = t
            BY <2>1, <4>1 DEF Allocation, Counted, Made
          <5>2. w[2] \in Nat
            BY <5>1, TabCreationAssumption DEF Base, Shape, Named, Home, Ticket
          <5>3. \A n, c \in Nat : n <= c => n <= c + 1
            OBVIOUS
          <5> QED
            BY <2>1, <2>2, <5>1, <5>2, <5>3
        <4>2. CASE w = NewGroup(t)
          BY <2>1, <2>2, <4>2
        <4> QED
          BY <2>1, <3>3, <4>1, <4>2
      <3> QED
        BY <2>1, <3>1, <3>2, <3>3 DEF Counted
    <2>4. NoneAsked(t)
      BY <2>1, FreeAsksNothing DEF Outstanding, WaitsFor
    <2>5. \A u \in Ticket \ {t} : NewGroup(u)' = NewGroup(u)
      BY <2>1 DEF NewGroup
    <2>6. /\ \A i \in 1 .. Len(toExtension) :
                toExtension[i].op = "rename" => toExtension[i].ticket \in Ticket \ {t}
          /\ \A i \in 1 .. Len(toBroker) :
                toBroker[i].op \in {"group", "rename"} => toBroker[i].ticket \in Ticket \ {t}
      BY <2>4, Queues DEF NoneAsked, Asks, Base, Addressed, Request
    <2>7. Grouped'
      BY <1>1, <2>1, <2>5, <2>6 DEF Allocation, Grouped
    <2> QED
      BY <2>3, <2>7 DEF Allocation
  <1>4. UNCHANGED <<workspaces, created>> \/ WorkspaceMade(t)
    <2>1. CASE CreateSucceeds(t)
      BY <2>1 DEF CreateSucceeds, Ends
    <2> QED
      BY <2>1 DEF Worked, Rewrites
  <1> QED
    BY <1>2, <1>3, <1>4

LEMMA ServedAllocates ==
    ASSUME Base, Allocation, Served
    PROVE  Allocation'
  <1>1. UNCHANGED <<workspaces, created, restarts, worker>>
    BY DEF Served, tickets, browser
  <1>2. Counted' /\ \A u : NewGroup(u)' = NewGroup(u)
    BY <1>1, SameGroups, CountedStays DEF Allocation
  <1>3. Drained(toExtension', toExtension)
    BY DEF Served, Replies, TakeCreate, Takes, Drained
  <1>4. Shifted(toExtension', toExtension)
    BY <1>3, Queues, DrainedIsShifted
  <1>5. \A i \in 1 .. Len(toExtension') :
           toExtension'[i].op = "rename" => toExtension'[i].group = NewGroup(toExtension'[i].ticket)
    BY <1>4 DEF Allocation, Grouped, Shifted
  <1>6. \A i \in 1 .. Len(toBroker') :
           \/ toBroker'[i].op = "group" /\ toBroker'[i].answer = "ok"
           \/ toBroker'[i].op = "rename"
           => toBroker'[i].group = NewGroup(toBroker'[i].ticket)
    <2>1. CASE toBroker' = toBroker
      BY <2>1 DEF Allocation, Grouped
    <2>2. CASE \E m : Posts(m) /\ (Replies(m) \/ m.op \in {"create", "inventory"})
      <3>1. PICK m : Posts(m) /\ (Replies(m) \/ m.op \in {"create", "inventory"})
        BY <2>2
      <3>2. m \in Message /\ toBroker' = Append(toBroker, m)
        BY <3>1 DEF Posts
      <3>3. m.op = "group" /\ m.answer = "ok" => m.group = NewGroup(m.ticket)
        BY <3>1 DEF Replies
      <3>4. m.op = "rename" => m.group = NewGroup(m.ticket)
        <4>1. CASE Replies(m) /\ m.op = "rename"
          <5>1. /\ toExtension # <<>> /\ m.group = toExtension[1].group /\ toExtension[1].op = "rename"
                /\ m.ticket = toExtension[1].ticket /\ 1 \in 1 .. Len(toExtension)
            BY <4>1, Taken DEF Replies
          <5> QED
            BY <5>1 DEF Allocation, Grouped
        <4> QED
          BY <3>1, <4>1
      <3>5. /\ Len(toBroker) \in Nat /\ Len(toBroker') = Len(toBroker) + 1
            /\ \A i \in 1 .. Len(toBroker) : toBroker'[i] = toBroker[i]
            /\ toBroker'[Len(toBroker) + 1] = m
        BY <3>2, Queues, Appended
      <3> QED
        BY <3>3, <3>4, <3>5 DEF Allocation, Grouped
    <2> QED
      BY <2>1, <2>2 DEF Served, TakeCreate
  <1>7. Grouped'
    BY <1>1, <1>2, <1>5, <1>6 DEF Allocation, Grouped
  <1> QED
    BY <1>2, <1>7 DEF Allocation

LEMMA HeardAllocates ==
    ASSUME Base, Allocation, Heard
    PROVE  Allocation'
  <1>1. /\ toBroker # <<>> /\ toBroker' = Tail(toBroker)
        /\ UNCHANGED <<workspaces, created, restarts, toExtension>>
        /\ \A t \in Ticket : worker'[t] = worker[t] \/ Hears(t)
    BY DEF Heard, counts
  <1>2. Counted' /\ \A u : NewGroup(u)' = NewGroup(u)
    BY <1>1, SameGroups, CountedStays DEF Allocation
  <1>3. /\ \A i \in 1 .. Len(toBroker') : i + 1 \in 1 .. Len(toBroker) /\ toBroker'[i] = toBroker[i + 1]
        /\ Head(toBroker) = toBroker[1] /\ 1 \in 1 .. Len(toBroker)
    BY <1>1, Queues, Shortened
  <1>4. ASSUME NEW t \in Ticket,
               \/ worker'[t].at = "group" /\ worker'[t].reply = "ok"
               \/ worker'[t].at = "rename"
        PROVE  worker'[t].group = NewGroup(t)
    <2>1. CASE worker'[t] = worker[t]
      BY <1>4, <2>1 DEF Allocation, Grouped
    <2>2. CASE Hears(t)
      BY <1>3, <1>4, <2>2 DEF Hears, WaitsFor, Allocation, Grouped
    <2> QED
      BY <1>1, <2>1, <2>2
  <1>5. Grouped'
    BY <1>1, <1>2, <1>3, <1>4 DEF Allocation, Grouped
  <1> QED
    BY <1>2, <1>5 DEF Allocation

LEMMA AllocationStep ==
    ASSUME Base, Outstanding, Allocation, [Next]_vars
    PROVE  Allocation'
  <1>1. CASE UNCHANGED vars
    BY <1>1 DEF vars, tickets, browser, link, counts, Allocation, Counted, Grouped, NewGroup, Made
  <1>2. CASE \E t \in Ticket : Worked(t) /\ Typed
    BY <1>2, WorkedAllocates
  <1>3. CASE Served /\ ServiceTyped
    BY <1>3, ServedAllocates
  <1>4. CASE Heard
    BY <1>4, HeardAllocates
  <1>5. CASE Disconnect \/ ExtensionRestarts \/ BrokerRestarts
    <2>1. /\ Len(toExtension') = 0 /\ Len(toBroker') = 0 /\ workspaces' = workspaces
          /\ \A t \in Ticket : worker'[t].at \in {"idle", "elsewhere"}
          /\ \/ UNCHANGED <<created, restarts>>
             \/ restarts' = restarts + 1 /\ \A t \in Ticket : created'[t] => created[t]
      BY <1>5, OutagesLose, RestartsLose, IdleType DEF Lost, browser
    <2>2. Grouped'
      BY <2>1 DEF Grouped
    <2>3. CASE UNCHANGED <<created, restarts>>
      BY <2>1, <2>2, <2>3, CountedStays DEF Allocation
    <2>4. CASE restarts' = restarts + 1
      <3>1. ASSUME NEW t \in Allocate
            PROVE  Cardinality(Made(t)) <= restarts' + (IF created'[t] THEN 1 ELSE 0)
        <4>1. /\ Cardinality(Made(t)) <= restarts + (IF created[t] THEN 1 ELSE 0)
              /\ Cardinality(Made(t)) \in Nat /\ restarts \in Nat
          BY Makes DEF Ticket, Allocation, Counted, Base, Shape
        <4>2. Cardinality(Made(t)) <= restarts + 1
          BY <4>1
        <4> QED
          BY <2>4, <4>1, <4>2
      <3> QED
        BY <2>1, <2>2, <3>1, SameGroups DEF Allocation, Counted
    <2> QED
      BY <2>1, <2>3, <2>4
  <1> QED
    BY <1>1, <1>2, <1>3, <1>4, <1>5, Summary

LEMMA StartsEmpty ==
    ASSUME Init
    PROVE  /\ Outstanding /\ Allocation
           /\ toExtension = <<>> /\ toBroker = <<>> /\ \A t \in Ticket : worker[t] = Idle
  <1>1. /\ Len(toExtension) = 0 /\ Len(toBroker) = 0 /\ \A t \in Ticket : worker[t] = Idle
        /\ workspaces = {Home} /\ restarts = 0 /\ \A t \in Ticket : ~created[t]
    BY DEF Init
  <1>2. Outstanding
    BY <1>1 DEF Outstanding, OneAsked
  <1>3. Grouped
    BY <1>1, IdleType DEF Grouped
  <1>4. \A t \in Ticket : Made(t) = {}
    BY <1>1, TabCreationAssumption DEF Made, Home
  <1>5. Counted
    <2>1. Cardinality({}) = 0 /\ 0 <= 0 + 0
      BY FS_EmptySet
    <2>2. ASSUME NEW t \in Allocate
          PROVE  Made(t) = {} /\ restarts + (IF created[t] THEN 1 ELSE 0) = 0 + 0
      BY <1>1, <1>4 DEF Ticket
    <2>3. ASSUME NEW t \in Allocate
          PROVE  Cardinality(Made(t)) <= restarts + (IF created[t] THEN 1 ELSE 0)
      BY <2>1, <2>2
    <2> QED
      BY <2>2, <2>3 DEF Counted
  <1> QED
    BY <1>1, <1>2, <1>3, <1>5 DEF Allocation, Init

(* An open ticket has one request under way, and its workspaces are counted *)
(* and their groups its own.                                                *)
THEOREM Allocated == Spec => [](Base /\ Outstanding /\ Allocation)
  BY BaseInit, StartsEmpty, BaseStep, OutstandingStep, AllocationStep, PTL DEF Spec

(* A workspace request that is begun again, after a pause for another       *)
(* endpoint, a refusal or an outage here, makes no second workspace on the  *)
(* endpoint; only recover() may, once for each restart.                     *)
THEOREM NoSecondWorkspace == Spec => []AllocatedOnce
  <1>1. ASSUME Base, Allocation
        PROVE  AllocatedOnce
    <2>1. SUFFICES ASSUME NEW t \in Allocate
                   PROVE  Cardinality(Made(t)) <= restarts + 1
      BY DEF AllocatedOnce
    <2>2. /\ Cardinality(Made(t)) \in Nat /\ restarts \in Nat
          /\ Cardinality(Made(t)) <= restarts + (IF created[t] THEN 1 ELSE 0)
      BY <1>1, Makes DEF Ticket, Base, Shape, Allocation, Counted
    <2> QED
      BY <2>2
  <1> QED
    BY <1>1, Allocated, PTL

-----------------------------------------------------------------------------
(* Whose groups the tabs are in. *)
LEMMA OwnedGroup ==
    ASSUME Base, Owned(group), Regroups
    PROVE  Owned(group')
  <1>0. /\ DOMAIN group \subseteq AnyTab /\ group \in [DOMAIN group -> Group]
        /\ Create \cap Allocate = {}
        /\ \A c \in creating : c.ticket \in Ticket
    BY OfBrowser, TabCreationAssumption
  <1>1. CASE \E c \in creating : OpenTab(c)
    <2>1. PICK c \in creating : OpenTab(c)
      BY <1>1
    <2> DEFINE new == TabOf(c.ticket, c.n)
    <2>2. group' = [tab \in DOMAIN group \cup {new} |-> IF tab = new THEN Ungrouped ELSE group[tab]]
      BY <2>1 DEF OpenTab
    <2> HIDE DEF new
    <2>3. /\ DOMAIN group' = DOMAIN group \cup {new} /\ group'[new] = Ungrouped
          /\ \A x \in DOMAIN group : x # new => group'[x] = group[x]
      BY <2>2
    <2>4. Belongs(new, Ungrouped)
      BY DEF Belongs
    <2> QED
      BY <2>3, <2>4 DEF Owned
  <1>2. CASE \E c \in creating : GroupTab(c)
    <2>1. PICK c \in creating : GroupTab(c)
      BY <1>2
    <2> DEFINE tab == TabOf(c.ticket, c.n)
    <2>2. tab[1] = c.ticket
      BY DEF TabOf
    <2>3. /\ tab \in DOMAIN group
          /\ group' = IF c.ticket \in Create THEN [group EXCEPT ![tab] = Home] ELSE group
      BY <2>1 DEF GroupTab
    <2> HIDE DEF tab
    <2>4. CASE c.ticket \in Create
      <3>1. group' = [group EXCEPT ![tab] = Home] /\ c.ticket \notin Allocate
        BY <1>0, <2>3, <2>4
      <3>2. ASSUME NEW x \in DOMAIN group
            PROVE  Belongs(x, group'[x])
        BY <1>0, <2>2, <3>1 DEF Owned, Belongs
      <3>3. DOMAIN group' = DOMAIN group
        BY <1>0, <3>1
      <3> QED
        BY <3>2, <3>3 DEF Owned
    <2> QED
      BY <2>3, <2>4
  <1>3. CASE TakeGroup
    <2> DEFINE m == Head(toExtension)
    <2>1. /\ toExtension # <<>> /\ m.op = "group"
          /\ \/ group' = group
             \/ m.tab \in DOMAIN group /\ group' = [group EXCEPT ![m.tab] = NewGroup(m.ticket)]
      BY <1>3 DEF TakeGroup, Takes
    <2>2. m.tab[1] = m.ticket /\ m.ticket \in Ticket /\ Sent(m)
      BY <2>1, Taken
    <2>3. m.ticket \in Allocate /\ NewGroup(m.ticket)[1] = m.ticket
      BY <2>1, <2>2, Makes DEF Sent
    <2> HIDE DEF m
    <2>4. CASE m.tab \in DOMAIN group /\ group' = [group EXCEPT ![m.tab] = NewGroup(m.ticket)]
      <3>1. ASSUME NEW x \in DOMAIN group
            PROVE  Belongs(x, group'[x])
        BY <1>0, <2>2, <2>3, <2>4 DEF Owned, Belongs
      <3>2. DOMAIN group' = DOMAIN group
        BY <1>0, <2>4
      <3> QED
        BY <3>1, <3>2 DEF Owned
    <2> QED
      BY <2>1, <2>4
  <1>4. CASE \E tab \in DOMAIN group : UserCloses(tab)
    <2>1. PICK tab \in DOMAIN group : UserCloses(tab)
      BY <1>4
    <2>2. group' = [x \in DOMAIN group \ {tab} |-> group[x]]
      BY <2>1 DEF UserCloses
    <2> QED
      BY <2>2 DEF Owned
  <1> QED
    BY <1>1, <1>2, <1>3, <1>4 DEF Regroups

LEMMA ServiceGroup ==
    ASSUME ServiceAction
    PROVE  group' = group \/ Regroups
  BY DEF ServiceAction, TakeInventory, Refuse, TakeCreate, TakeReconcile, TakeTitle, Report,
         ChromeFails, GroupsNothing, Publish, Connect, OutcomeForgotten, extension

LEMMA OwnersStep ==
    ASSUME Base, Owners, [Next]_vars
    PROVE  Owners'
  <1>0. /\ Owned(group) /\ Owned(NoTabs) /\ Idle.tabs = NoTabs
        /\ \A i \in 1 .. Len(toBroker) : Owned(toBroker[i].tabs)
        /\ \A t \in Ticket : Owned(worker[t].tabs)
        /\ \A f : Owned(f)' <=> Owned(f)
    BY IdleType DEF Owners, Owned, NoTabs, Belongs
  <1>1. CASE UNCHANGED vars
    BY <1>0, <1>1 DEF vars, link, extension, Owners
  <1>2. CASE \E t \in Ticket : Worked(t) /\ Typed
    <2>1. PICK t \in Ticket : Worked(t)
      BY <1>2
    <2>2. /\ toBroker' = toBroker /\ group' = group
          /\ worker'[t].tabs \in {NoTabs, worker[t].tabs}
          /\ \A u \in Ticket \ {t} : worker'[u] = worker[u]
      BY <2>1 DEF Worked, Apart, extension
    <2>3. \A u \in Ticket : Owned(worker'[u].tabs)
      BY <1>0, <2>2
    <2> QED
      BY <1>0, <2>2, <2>3 DEF Owners
  <1>3. CASE ServiceAction /\ Served
    <2>1. Owned(group') /\ worker' = worker
      BY <1>0, <1>3, ServiceGroup, OwnedGroup DEF Served
    <2>2. \A i \in 1 .. Len(toBroker') : Owned(toBroker'[i].tabs)
      <3>1. CASE toBroker' = toBroker
        BY <1>0, <3>1
      <3>2. CASE \E m : Posts(m)
        <4>1. PICK m : Posts(m)
          BY <3>2
        <4>2. m \in Message /\ toBroker' = Append(toBroker, m) /\ Owned(m.tabs)
          BY <1>0, <4>1 DEF Posts
        <4>3. /\ Len(toBroker) \in Nat /\ Len(toBroker') = Len(toBroker) + 1
              /\ \A i \in 1 .. Len(toBroker) : toBroker'[i] = toBroker[i]
              /\ toBroker'[Len(toBroker) + 1] = m
          BY <4>2, Queues, Appended
        <4> QED
          BY <1>0, <4>2, <4>3
      <3> QED
        BY <1>3, <3>1, <3>2 DEF Served, TakeCreate
    <2> QED
      BY <1>0, <2>1, <2>2 DEF Owners
  <1>4. CASE Heard
    <2>1. /\ toBroker # <<>> /\ toBroker' = Tail(toBroker) /\ group' = group
          /\ \A t \in Ticket : worker'[t] = worker[t] \/ Hears(t)
      BY <1>4 DEF Heard, extension
    <2>2. /\ \A i \in 1 .. Len(toBroker') : i + 1 \in 1 .. Len(toBroker) /\ toBroker'[i] = toBroker[i + 1]
          /\ Head(toBroker) = toBroker[1] /\ 1 \in 1 .. Len(toBroker)
      BY <2>1, Queues, Shortened
    <2>3. \A t \in Ticket : Owned(worker'[t].tabs)
      BY <1>0, <2>1, <2>2 DEF Hears
    <2>4. \A i \in 1 .. Len(toBroker') : Owned(toBroker'[i].tabs)
      BY <1>0, <2>2
    <2> QED
      BY <1>0, <2>1, <2>3, <2>4 DEF Owners
  <1>5. CASE Disconnect \/ ExtensionRestarts \/ BrokerRestarts
    <2>1. /\ Len(toBroker') = 0 /\ group' = group
          /\ \A t \in Ticket : worker'[t] = Idle \/ worker'[t] = worker[t]
      BY <1>5, OutagesLose, RestartsLose DEF Lost
    <2>2. \A t \in Ticket : Owned(worker'[t].tabs)
      BY <1>0, <2>1
    <2> QED
      BY <1>0, <2>1, <2>2 DEF Owners
  <1> QED
    BY <1>1, <1>2, <1>3, <1>4, <1>5, Summary

-----------------------------------------------------------------------------
(* The rows of a tab. *)
LEMMA OfRow ==
    ASSUME Base, NEW p \in DOMAIN rows
    PROVE  /\ rows[p] \in Seq(RowState) /\ rows[p] # <<>>
           /\ Len(rows[p]) \in Nat \ {0} /\ DOMAIN rows[p] = 1 .. Len(rows[p])
           /\ \A i \in 1 .. Len(rows[p]) : rows[p][i] \in RowState
  <1>1. rows[p] \in Seq(RowState) \ {<<>>}
    BY OfRows DEF Base, Shape
  <1> QED
    BY <1>1

LEMMA ReconcileKeeps ==
    ASSUME Base, RowsKept, NEW tabs \in Tabs, Owned(tabs), Reconcile(tabs), UNCHANGED workspaces
    PROVE  RowsKept'
  <1> DEFINE new == {<<tab, tabs[tab]>> : tab \in {x \in DOMAIN tabs : tabs[x] \in workspaces}}
             as(p) == IF p[1] \in DOMAIN tabs /\ tabs[p[1]] = p[2] THEN "active" ELSE "closed"
             known(p) == p[2] \in Found(tabs)
  <1>1. rows' = [p \in DOMAIN rows \cup new |->
                   IF p \notin DOMAIN rows THEN <<"active">>
                   ELSE IF ~known(p) THEN rows[p] ELSE [rows[p] EXCEPT ![Len(rows[p])] = as(p)]]
    BY Zenon DEF Reconcile
  <1>2. \A p \in new : p[2] \in workspaces /\ Belongs(p[1], p[2])
    BY DEF Owned
  <1>3. \A p : as(p) \in RowState
    BY DEF RowState
  <1> HIDE DEF new, as, known
  <1>4. ASSUME NEW p \in DOMAIN rows'
        PROVE  /\ p[2] \in workspaces /\ Belongs(p[1], p[2])
               /\ \A i \in 1 .. Len(rows'[p]) : i # Len(rows'[p]) => rows'[p][i] = "closed"
    <2>1. p \in DOMAIN rows \cup new
      BY <1>1
    <2>2. CASE p \notin DOMAIN rows
      <3>1. rows'[p] = <<"active">> /\ Len(<<"active">>) = 1
        BY <1>1, <2>1, <2>2
      <3> QED
        BY <1>2, <2>1, <2>2, <3>1
    <2>3. CASE p \in DOMAIN rows
      <3>0. /\ p[2] \in workspaces /\ Belongs(p[1], p[2])
            /\ \A i \in 1 .. Len(rows[p]) : i # Len(rows[p]) => rows[p][i] = "closed"
            /\ rows[p] \in Seq(RowState) /\ rows[p] # <<>>
        BY <2>3, OfRow DEF RowsKept
      <3>1. CASE ~known(p)
        BY <1>1, <2>1, <2>3, <3>0, <3>1
      <3>2. CASE known(p)
        <4>1. rows'[p] = [rows[p] EXCEPT ![Len(rows[p])] = as(p)]
          BY <1>1, <2>1, <2>3, <3>2
        <4>2. /\ Len(rows'[p]) = Len(rows[p])
              /\ \A j \in 1 .. Len(rows[p]) : rows'[p][j] = IF j = Len(rows[p]) THEN as(p) ELSE rows[p][j]
          <5>1. PICK s \in Seq(RowState) : s = rows[p]
            BY <3>0
          <5>2. PICK x \in RowState : x = as(p)
            BY <1>3
          <5>3. rows'[p] = [s EXCEPT ![Len(s)] = x] /\ s # <<>>
            BY <3>0, <4>1, <5>1, <5>2
          <5>4. /\ Len([s EXCEPT ![Len(s)] = x]) = Len(s)
                /\ \A j \in 1 .. Len(s) : [s EXCEPT ![Len(s)] = x][j] = IF j = Len(s) THEN x ELSE s[j]
            BY <5>3, RowReplaced
          <5>5. /\ Len(rows'[p]) = Len(s)
                /\ \A j \in 1 .. Len(s) : rows'[p][j] = IF j = Len(s) THEN x ELSE s[j]
            BY <5>3, <5>4
          <5> QED
            BY <5>1, <5>2, <5>5
        <4>3. \A i \in 1 .. Len(rows[p]) : i # Len(rows[p]) => rows'[p][i] = rows[p][i]
          BY <4>2
        <4> QED
          BY <3>0, <4>2, <4>3
      <3> QED
        BY <3>1, <3>2
    <2> QED
      BY <2>2, <2>3
  <1> QED
    BY <1>4 DEF RowsKept, Belongs

(* addTab() where no row of the tab is active. *)
LEMMA AddKeeps ==
    ASSUME Base, RowsKept, NEW tab, NEW w, rows' = RowAdded(tab, w), ~ActiveIn(tab, w),
           workspaces \subseteq workspaces', w \in workspaces', Belongs(tab, w)
    PROVE  RowsKept'
  <1> DEFINE q == <<tab, w>>
  <1>1. rows' = [p \in DOMAIN rows \cup {q} |->
                   IF p # q THEN rows[p]
                   ELSE IF p \in DOMAIN rows THEN Append(rows[p], "active") ELSE <<"active">>]
    BY Zenon DEF RowAdded
  <1>2. q \in DOMAIN rows => \A i \in 1 .. Len(rows[q]) : rows[q][i] = "closed"
    <2>1. ASSUME q \in DOMAIN rows, NEW i \in 1 .. Len(rows[q])
          PROVE  rows[q][i] = "closed"
      <3>1. DOMAIN rows[q] = 1 .. Len(rows[q]) /\ rows[q][i] \in RowState
        BY <2>1, OfRow
      <3>2. rows[q][i] # "active"
        BY <2>1, <3>1 DEF ActiveIn
      <3> QED
        BY <3>1, <3>2 DEF RowState
    <2> QED
      BY <2>1
  <1>3. q[1] = tab /\ q[2] = w
    OBVIOUS
  <1> HIDE DEF q
  <1>4. ASSUME NEW p \in DOMAIN rows'
        PROVE  /\ p[2] \in workspaces' /\ Belongs(p[1], p[2])
               /\ \A i \in 1 .. Len(rows'[p]) : i # Len(rows'[p]) => rows'[p][i] = "closed"
    <2>1. p \in DOMAIN rows \cup {q}
      BY <1>1
    <2>2. CASE p # q
      BY <1>1, <2>1, <2>2 DEF RowsKept
    <2>3. CASE p = q /\ q \in DOMAIN rows
      <3>1. rows'[p] = Append(rows[q], "active") /\ rows[q] \in Seq(RowState) /\ "active" \in RowState
        BY <1>1, <2>3, OfRow DEF RowState
      <3>2. /\ Len(rows[q]) \in Nat /\ Len(rows'[p]) = Len(rows[q]) + 1
            /\ \A i \in 1 .. Len(rows[q]) : rows'[p][i] = rows[q][i]
        BY <3>1, Appended
      <3> QED
        BY <1>2, <1>3, <2>3, <3>2
    <2>4. CASE p = q /\ q \notin DOMAIN rows
      <3>1. rows'[p] = <<"active">> /\ Len(<<"active">>) = 1
        BY <1>1, <2>4
      <3> QED
        BY <1>3, <2>4, <3>1
    <2> QED
      BY <2>1, <2>2, <2>3, <2>4
  <1> QED
    BY <1>4 DEF RowsKept, Belongs

LEMMA RowsKeptStep ==
    ASSUME Base, Allocation, Owners, RowsKept, [Next]_vars
    PROVE  RowsKept'
  <1>0. CASE UNCHANGED <<rows, workspaces>>
    BY <1>0 DEF RowsKept, Belongs
  <1>1. CASE UNCHANGED vars
    BY <1>0, <1>1 DEF vars, browser
  <1>2. CASE \E t \in Ticket : Worked(t) /\ Typed
    <2>1. PICK t \in Ticket : Worked(t)
      BY <1>2
    <2>2. worker[t].tabs \in Tabs /\ Owned(worker[t].tabs) /\ AtWork(t)
      BY OfWorker DEF Owners
    <2>3. CASE UNCHANGED <<rows, missing, workspaces, created, stale, overtaken>>
      BY <1>0, <2>3
    <2>4. CASE Reconcile(worker[t].tabs) /\ UNCHANGED <<workspaces, created>>
      BY <2>2, <2>4, ReconcileKeeps
    <2>5. CASE CreateSucceeds(t)
      <3>1. /\ t \in Create /\ worker[t].at = "obtained" /\ workspaces' = workspaces
            /\ \/ rows' = rows
               \/ ~ActiveIn(worker[t].tab, Home) /\ rows' = RowAdded(worker[t].tab, Home)
        BY <2>5 DEF CreateSucceeds
      <3>2. Home \in workspaces /\ Belongs(worker[t].tab, Home)
        BY <2>2, <3>1, TabCreationAssumption DEF Base, Shape, AtWork, Belongs
      <3> QED
        BY <1>0, <3>1, <3>2, AddKeeps
    <2>6. CASE WorkspaceMade(t)
      <3>1. /\ worker[t].group = NewGroup(t) /\ NewGroup(t) \notin workspaces
            /\ workspaces' = workspaces \cup {NewGroup(t)} /\ t \in Allocate
        BY <2>6, MakesOne DEF Allocation
      <3>2. worker[t].at = "rename" /\ rows' = RowAdded(worker[t].tab, NewGroup(t))
        BY <2>6, <3>1 DEF WorkspaceMade, Answered
      <3>3. Belongs(worker[t].tab, NewGroup(t))
        BY <2>2, <3>1, <3>2, Makes DEF AtWork, Belongs
      <3>4. ~ActiveIn(worker[t].tab, NewGroup(t))
        <4>1. <<worker[t].tab, NewGroup(t)>>[2] = NewGroup(t)
          OBVIOUS
        <4> QED
          BY <3>1, <4>1 DEF ActiveIn, RowsKept
      <3> QED
        BY <3>1, <3>2, <3>3, <3>4, AddKeeps
    <2> QED
      BY <2>1, <2>3, <2>4, <2>5, <2>6 DEF Worked, Rewrites
  <1>3. CASE Served
    BY <1>0, <1>3 DEF Served, browser
  <1>4. CASE Heard
    <2>1. toBroker # <<>> /\ workspaces' = workspaces
          /\ \/ rows' = rows
             \/ Reconcile(Head(toBroker).tabs)
      BY <1>4 DEF Heard
    <2>2. Head(toBroker).tabs \in Tabs /\ Owned(Head(toBroker).tabs)
      BY <2>1, OfMessage DEF Owners
    <2> QED
      BY <1>0, <2>1, <2>2, ReconcileKeeps
  <1>5. CASE Disconnect \/ ExtensionRestarts \/ BrokerRestarts
    BY <1>0, <1>5, OutagesLose, RestartsLose DEF Lost, browser
  <1> QED
    BY <1>1, <1>2, <1>3, <1>4, <1>5, Summary

LEMMA RowsKeptStart ==
    ASSUME Init
    PROVE  Owners /\ RowsKept
  <1>1. /\ rows = [p \in {<<Home, Home>>} |-> <<"active">>] /\ workspaces = {Home}
        /\ group = [tab \in {Home} |-> Home] /\ Len(toBroker) = 0
        /\ \A t \in Ticket : worker[t].tabs = NoTabs
    BY StartsEmpty, IdleType DEF Init
  <1>2. Belongs(Home, Home)
    BY TabCreationAssumption DEF Belongs, Home, Ticket
  <1>3. Owners
    BY <1>1, <1>2 DEF Owners, Owned, NoTabs
  <1>4. RowsKept
    <2>1. DOMAIN rows = {<<Home, Home>>} /\ rows[<<Home, Home>>] = <<"active">> /\ Len(<<"active">>) = 1
      BY <1>1
    <2>2. <<Home, Home>>[1] = Home /\ <<Home, Home>>[2] = Home
      OBVIOUS
    <2> QED
      BY <1>1, <1>2, <2>1, <2>2 DEF RowsKept
  <1> QED
    BY <1>3, <1>4

(* Rows are of workspaces that are, and only the newest row of a tab in one *)
(* is active.                                                               *)
THEOREM Kept == Spec => [](Base /\ Outstanding /\ Allocation /\ Owners /\ RowsKept)
  <1>1. Base /\ Allocation /\ Owners /\ RowsKept /\ [Next]_vars => Owners' /\ RowsKept'
    BY OwnersStep, RowsKeptStep
  <1> QED
    BY <1>1, Allocated, RowsKeptStart, PTL DEF Spec

LEMMA LastIsActive ==
    ASSUME Base, RowsKept, NEW p \in DOMAIN rows, NEW i \in DOMAIN rows[p], rows[p][i] = "active"
    PROVE  i = Len(rows[p])
  <1>1. i \in 1 .. Len(rows[p])
    BY OfRow
  <1>2. i # Len(rows[p]) => rows[p][i] = "closed"
    BY <1>1 DEF RowsKept
  <1> QED
    BY <1>2

(* However the result of a creation and the inventories it sets off are     *)
(* read, no tab has two active rows in one workspace; and without a broker  *)
(* restart it has none in a second workspace either.                        *)
THEOREM OneActiveRow == Spec => []OneRowPerTab
  <1>1. ASSUME Base, Allocation, RowsKept
        PROVE  OneRowPerTab
    <2>1. SUFFICES ASSUME NEW p \in DOMAIN rows, NEW q \in DOMAIN rows,
                          p[1] = q[1], p = q \/ restarts = 0,
                          NEW i \in DOMAIN rows[p], NEW j \in DOMAIN rows[q], Active(p, i), Active(q, j)
                   PROVE  p = q /\ i = j
      BY DEF OneRowPerTab
    <2>2. p[2] = q[2]
      <3>1. CASE p = q
        BY <3>1
      <3>2. CASE restarts = 0 /\ p[1][1] \notin Allocate
        <4>1. p[2] = Home /\ q[2] = Home
          <5>1. Ungrouped \notin workspaces
            BY <1>1, TabCreationAssumption DEF Base, Shape, Named, Ungrouped, Home, Ticket
          <5> QED
            BY <1>1, <2>1, <3>2, <5>1 DEF RowsKept, Belongs
        <4> QED
          BY <4>1
      <3>3. CASE restarts = 0 /\ p[1][1] \in Allocate
        <4> DEFINE t == p[1][1]
        <4>1. Ungrouped \notin workspaces
          BY <1>1, TabCreationAssumption DEF Base, Shape, Named, Ungrouped, Home, Ticket
        <4>2. t \in Allocate /\ t \in Ticket
          BY <3>3 DEF Ticket
        <4>3. p[2] \in Made(t) /\ q[2] \in Made(t)
          BY <1>1, <2>1, <4>1, <4>2 DEF RowsKept, Belongs, Made
        <4> HIDE DEF t
        <4>4. /\ Cardinality(Made(t)) \in Nat /\ Cardinality(Made(t)) <= 1
              /\ \A w \in Made(t) : w[2] <= Cardinality(Made(t))
          <5>1. Cardinality(Made(t)) <= restarts + (IF created[t] THEN 1 ELSE 0)
            BY <1>1, <4>2 DEF Allocation, Counted
          <5> QED
            BY <1>1, <3>3, <4>2, <5>1, Makes DEF Allocation, Counted
        <4>5. \A w \in Made(t) : w[2] \in Nat \ {0} /\ w = <<t, w[2]>>
          BY <1>1, <4>2, TabCreationAssumption DEF Base, Shape, Made, Named, Home, Ticket
        <4>6. \A w \in Made(t) : w = <<t, 1>>
          <5>1. \A n \in Nat \ {0}, c \in Nat : n <= c /\ c <= 1 => n = 1
            OBVIOUS
          <5> QED
            BY <4>4, <4>5, <5>1
        <4> QED
          BY <4>3, <4>6
      <3> QED
        BY <2>1, <3>1, <3>2, <3>3
    <2>3. p = q
      <3>1. p \in AnyTab \X Group /\ q \in AnyTab \X Group
        BY <1>1, OfRows DEF Base, Shape
      <3>2. p = <<p[1], p[2]>> /\ q = <<q[1], q[2]>>
        BY <3>1
      <3> QED
        BY <2>1, <2>2, <3>2
    <2>4. i = Len(rows[p]) /\ j = Len(rows[q])
      BY <1>1, <2>1, LastIsActive DEF Active
    <2> QED
      BY <2>3, <2>4
  <1> QED
    BY <1>1, Kept, PTL

(* Every variable keeps its type: no ticket makes more attempts than it     *)
(* may, and no more groups than restarts allow.                             *)
THEOREM TypeCorrect == Spec => []TypeOK
  <1>1. ASSUME Base, Allocation, RowsKept
        PROVE  TypeOK
    <2>1. \A t \in Ticket : Newest(t) <= MaxAttempts
      BY <1>1 DEF Base, Control
    <2>2. \A t \in Ticket : \A n \in DOMAIN attempts[t] : attempts[t][n] \in Try
      BY <1>1, Numbers DEF Base
    <2>3. ASSUME NEW w \in workspaces
          PROVE  w \in Workspace
      <3>1. w \in Named
        BY <1>1 DEF Base, Shape
      <3>2. CASE w \in Allocate \X (Nat \ {0})
        <4> DEFINE t == w[1]
        <4>1. t \in Allocate /\ t \in Ticket /\ w = <<t, w[2]>> /\ w[2] \in Nat \ {0} /\ w \in Made(t)
          BY <3>2 DEF Ticket, Made
        <4> HIDE DEF t
        <4>2. /\ Cardinality(Made(t)) \in Nat /\ restarts \in Nat /\ faults \in Nat /\ MaxFaults \in Nat
              /\ faults + restarts <= MaxFaults /\ w[2] <= Cardinality(Made(t))
              /\ Cardinality(Made(t)) <= restarts + (IF created[t] THEN 1 ELSE 0)
          BY <1>1, <4>1, Makes, TabCreationAssumption DEF Base, Shape, Allocation, Counted
        <4>3. \A c, r, f, m, n \in Nat : c <= r + 1 /\ f + r <= m /\ n <= c => n <= m + 1
          OBVIOUS
        <4>4. Cardinality(Made(t)) <= restarts + 1
          BY <4>2
        <4>5. w[2] <= MaxFaults + 1
          BY <4>1, <4>2, <4>3, <4>4
        <4> QED
          BY <4>1, <4>2, <4>5 DEF Workspace
      <3> QED
        BY <3>1, <3>2 DEF Named, Workspace
    <2>4. DOMAIN rows \subseteq AnyTab \X Workspace
      <3>1. \A p \in DOMAIN rows : p \in AnyTab \X Group /\ p[2] \in workspaces
        BY <1>1, OfRows DEF Base, Shape, RowsKept
      <3> QED
        BY <2>3, <3>1
    <2>5. DOMAIN group \subseteq AnyTab
      BY <1>1, OfBrowser
    <2>6. \A t \in Ticket : Len(attempts[t]) <= MaxAttempts
      BY <2>1 DEF Newest
    <2>7. workspaces \subseteq Workspace
      BY <2>3
    <2> QED
      BY <1>1, <2>2, <2>4, <2>5, <2>6, <2>7 DEF TypeOK, Base, Shape, Try
  <1> QED
    BY <1>1, Kept, PTL

-----------------------------------------------------------------------------
(* The life of a creation, and what every step leaves of it. *)
Living == Life /\ Accounted

Keeps ==
    /\ misled \subseteq misled'
    /\ \A t \in Ticket : \A n \in 1 .. Newest(t) :
          /\ Unsent(t, n) => Unsent(t, n)'
          /\ Unsent(t, n) /\ ~Under(t, n) => ~Under(t, n)'
          /\ ~Under(t, n) /\ ~There(t, n) => ~There(t, n)'

(* Nothing is begun, and nothing ends that the broker is to be told of. *)
Fewer ==
    /\ attempts' = attempts /\ Drained(toExtension', toExtension)
    /\ DOMAIN group' \subseteq DOMAIN group /\ misled \subseteq misled'
    /\ creating' \subseteq creating /\ remembered' \subseteq remembered
    /\ \A c \in creating \ creating' : c.stage = "asked" \/ <<c.ticket, c.n>> \in misled'
    /\ \A o \in remembered \ remembered' : <<o.ticket, o.n>> \in misled'

(* One creation goes on. *)
Turns(c, d) ==
    /\ UNCHANGED <<attempts, toExtension, remembered>> /\ misled \subseteq misled'
    /\ creating' = (creating \ {c}) \cup {d}
    /\ d.ticket = c.ticket /\ d.n = c.n /\ d.stage # "asked"
    /\ DOMAIN group' \subseteq DOMAIN group \cup {TabOf(c.ticket, c.n)}
    /\ TabOf(c.ticket, c.n) \in DOMAIN group' =>
          d.stage \in {"opened", "made"} \/ <<c.ticket, c.n>> \in misled'

LEMMA FewerLives ==
    ASSUME Base, Living, Fewer
    PROVE  Living' /\ Keeps
  <1>1. Shifted(toExtension', toExtension)
    BY Queues, DrainedIsShifted DEF Fewer
  <1>2. PICK k \in {0, 1} : \A i \in 1 .. Len(toExtension') :
           i + k \in 1 .. Len(toExtension) /\ toExtension'[i] = toExtension[i + k]
    BY <1>1 DEF Shifted
  <1>3. /\ creating' \subseteq creating /\ remembered' \subseteq remembered
        /\ DOMAIN group' \subseteq DOMAIN group
    BY DEF Fewer
  <1>4. \A t, n : /\ Under(t, n)' => Under(t, n)
                  /\ Known(t, n)' => Known(t, n)
                  /\ There(t, n)' => There(t, n)
    BY <1>3 DEF Under, Known, There
  <1>5. Ordered'
    <2>1. SUFFICES ASSUME NEW i \in 1 .. Len(toExtension'), NEW j \in 1 .. Len(toExtension'),
                          toExtension'[i].op = "create",
                          toExtension'[j].op \in {"create", "reconcile"},
                          toExtension'[i].ticket = toExtension'[j].ticket,
                          toExtension'[i].n = toExtension'[j].n
                   PROVE  i <= j
      BY DEF Ordered
    <2>2. i + k <= j + k
      BY <1>2, <2>1 DEF Living, Life, Ordered
    <2>3. i \in Int /\ j \in Int
      OBVIOUS
    <2> QED
      BY <1>2, <2>2, <2>3
  <1>6. Unbegun'
    <2>1. \A t, n : Unsent(t, n) => Unsent(t, n)'
      BY <1>2 DEF Unsent, Creates
    <2> QED
      BY <1>4, <2>1 DEF Living, Life, Unbegun
  <1>7. Distinct'
    <2>1. \A c, d \in creating' : c.ticket = d.ticket /\ c.n = d.n => c = d
      BY <1>3 DEF Living, Life, Distinct
    <2>2. \A c \in creating' : ~Known(c.ticket, c.n)'
      BY <1>3, <1>4 DEF Living, Life, Distinct
    <2>3. \A c \in creating' : c.stage = "asked" => ~There(c.ticket, c.n)'
      BY <1>3, <1>4 DEF Living, Life, Distinct
    <2> QED
      BY <2>1, <2>2, <2>3 DEF Distinct, Known, There
  <1>8. Accounted'
    <2>1. SUFFICES ASSUME NEW t \in Ticket, NEW n \in 1 .. MaxAttempts, There(t, n)'
                   PROVE  /\ n <= Newest(t)'
                          /\ \/ <<t, n>> \in misled'
                             \/ \E c \in creating' : c.ticket = t /\ c.n = n /\ c.stage \in {"opened", "made"}
                             \/ \E o \in remembered' : o.ticket = t /\ o.n = n /\ o.ok
      BY DEF Accounted, There
    <2>2. There(t, n) /\ Newest(t)' = Newest(t) /\ n <= Newest(t)
      BY <1>4, <2>1 DEF Fewer, Newest, Living, Accounted
    <2>3. CASE <<t, n>> \in misled
      BY <2>2, <2>3 DEF Fewer
    <2>4. CASE \E c \in creating : c.ticket = t /\ c.n = n /\ c.stage \in {"opened", "made"}
      BY <2>2, <2>4 DEF Fewer
    <2>5. CASE \E o \in remembered : o.ticket = t /\ o.n = n /\ o.ok
      BY <2>2, <2>5 DEF Fewer
    <2> QED
      BY <2>2, <2>3, <2>4, <2>5 DEF Living, Accounted
  <1>9. \A t, n : Unsent(t, n) => Unsent(t, n)'
    BY <1>2 DEF Unsent, Creates
  <1> QED
    BY <1>4, <1>5, <1>6, <1>7, <1>8, <1>9 DEF Living, Life, Keeps, Fewer

LEMMA TurnsLives ==
    ASSUME Base, Living, NEW c \in creating, NEW d, Turns(c, d)
    PROVE  Living' /\ Keeps
  <1>1. /\ UNCHANGED <<attempts, toExtension, remembered>> /\ misled \subseteq misled'
        /\ creating' = (creating \ {c}) \cup {d}
        /\ d.ticket = c.ticket /\ d.n = c.n /\ d.stage # "asked"
        /\ DOMAIN group' \subseteq DOMAIN group \cup {TabOf(c.ticket, c.n)}
    BY DEF Turns
  <1>2. /\ \A x, y \in creating : x.ticket = y.ticket /\ x.n = y.n => x = y
        /\ \A x \in creating : ~Known(x.ticket, x.n)
        /\ \A x \in creating : x.stage = "asked" => ~There(x.ticket, x.n)
    BY DEF Living, Life, Distinct
  <1>3. \A t, n : /\ Under(t, n)' <=> Under(t, n)
                  /\ Known(t, n)' <=> Known(t, n)
                  /\ There(t, n)' => There(t, n) \/ (t = c.ticket /\ n = c.n)
                  /\ Unsent(t, n)' <=> Unsent(t, n)
    BY <1>1 DEF Under, Known, There, TabOf, Unsent
  <1>4. Under(c.ticket, c.n) /\ c.n <= Newest(c.ticket)
    BY OfBrowser DEF Under
  <1>5. Ordered'
    BY <1>1 DEF Living, Life, Ordered
  <1>6. Unbegun'
    BY <1>3, <1>4 DEF Living, Life, Unbegun
  <1>7. Distinct'
    <2>1. \A x, y \in creating' : x.ticket = y.ticket /\ x.n = y.n => x = y
      BY <1>1, <1>2
    <2>2. \A x \in creating' : ~Known(x.ticket, x.n)'
      BY <1>1, <1>2, <1>3
    <2>3. \A x \in creating' : x.stage = "asked" => ~There(x.ticket, x.n)'
      BY <1>1, <1>2, <1>3
    <2> QED
      BY <2>1, <2>2, <2>3 DEF Distinct, Known, There
  <1>8. Accounted'
    <2>1. SUFFICES ASSUME NEW t \in Ticket, NEW n \in 1 .. MaxAttempts, There(t, n)'
                   PROVE  /\ n <= Newest(t)'
                          /\ \/ <<t, n>> \in misled'
                             \/ \E x \in creating' : x.ticket = t /\ x.n = n /\ x.stage \in {"opened", "made"}
                             \/ \E o \in remembered' : o.ticket = t /\ o.n = n /\ o.ok
      BY DEF Accounted, There
    <2>2. Newest(t)' = Newest(t)
      BY <1>1 DEF Newest
    <2>3. CASE t = c.ticket /\ n = c.n
      <3>1. d.stage \in {"opened", "made"} \/ <<t, n>> \in misled'
        BY <2>1, <2>3 DEF Turns, There
      <3> QED
        BY <1>1, <1>4, <2>2, <2>3, <3>1
    <2>4. CASE ~(t = c.ticket /\ n = c.n)
      <3>1. There(t, n)
        BY <1>3, <2>1, <2>4
      <3>2. n <= Newest(t)
        BY <3>1 DEF Living, Accounted
      <3>3. CASE <<t, n>> \in misled
        BY <1>1, <2>2, <3>2, <3>3
      <3>4. CASE \E x \in creating : x.ticket = t /\ x.n = n /\ x.stage \in {"opened", "made"}
        BY <1>1, <2>2, <2>4, <3>2, <3>4
      <3>5. CASE \E o \in remembered : o.ticket = t /\ o.n = n /\ o.ok
        BY <1>1, <2>2, <3>2, <3>5
      <3> QED
        BY <3>1, <3>3, <3>4, <3>5 DEF Living, Accounted
    <2> QED
      BY <2>3, <2>4
  <1> QED
    BY <1>1, <1>3, <1>4, <1>5, <1>6, <1>7, <1>8 DEF Living, Life, Keeps

(* A request about an attempt that is taken is the last that creates it. *)
LEMMA LastToCreate ==
    ASSUME Base, Ordered, toExtension # <<>>, toExtension' = Tail(toExtension),
           NEW t, NEW n, t = Head(toExtension).ticket, n = Head(toExtension).n
    PROVE  /\ Ordered' /\ \A u, k : Unsent(u, k) => Unsent(u, k)'
           /\ Head(toExtension).op \in {"create", "reconcile"} => Unsent(t, n)'
           /\ Head(toExtension).op = "create" => ~Unsent(t, n)
  <1>1. /\ \A i \in 1 .. Len(toExtension') :
              i + 1 \in 1 .. Len(toExtension) /\ toExtension'[i] = toExtension[i + 1]
        /\ Head(toExtension) = toExtension[1] /\ 1 \in 1 .. Len(toExtension)
    BY Queues, Shortened
  <1>2. Ordered'
    <2>1. SUFFICES ASSUME NEW i \in 1 .. Len(toExtension'), NEW j \in 1 .. Len(toExtension'),
                          toExtension'[i].op = "create",
                          toExtension'[j].op \in {"create", "reconcile"},
                          toExtension'[i].ticket = toExtension'[j].ticket,
                          toExtension'[i].n = toExtension'[j].n
                   PROVE  i <= j
      BY DEF Ordered
    <2>2. i + 1 <= j + 1
      BY <1>1, <2>1 DEF Ordered
    <2> QED
      BY <2>2
  <1>3. \A u, k : Unsent(u, k) => Unsent(u, k)'
    BY <1>1 DEF Unsent, Creates
  <1>4. ASSUME toExtension[1].op \in {"create", "reconcile"}
        PROVE  Unsent(t, n)'
    <2>1. ASSUME NEW i \in 1 .. Len(toExtension'), Creates(toExtension'[i], t, n)
          PROVE  FALSE
      <3>1. i + 1 <= 1
        BY <1>1, <1>4, <2>1 DEF Ordered, Creates
      <3> QED
        BY <3>1
    <2> QED
      BY <2>1 DEF Unsent, Creates
  <1>5. toExtension[1].op = "create" => ~Unsent(t, n)
    BY <1>1 DEF Unsent, Creates
  <1> QED
    BY <1>1, <1>2, <1>3, <1>4, <1>5

LEMMA TakeCreateLives ==
    ASSUME Base, Living, TakeCreate
    PROVE  Living' /\ Keeps
  <1>1. /\ toExtension # <<>> /\ toExtension' = Tail(toExtension) /\ Head(toExtension).op = "create"
        /\ UNCHANGED <<attempts, group, remembered, misled>>
    BY DEF TakeCreate, Takes, tickets, history
  <1>2. PICK u \in Ticket, k \in Nat : u = Head(toExtension).ticket /\ k = Head(toExtension).n
    BY <1>1, Taken, TabCreationAssumption
  <1>3. k \in 1 .. Newest(u) /\ k \in 1 .. MaxAttempts
    <2>1. Sent(Head(toExtension)) /\ Newest(u) \in Nat /\ Newest(u) <= MaxAttempts /\ MaxAttempts \in Nat
      BY <1>1, Taken, OfWorker
    <2> QED
      BY <1>1, <1>2, <2>1 DEF Sent
  <1>4. PICK e : /\ creating' = creating \cup {e}
                 /\ e.ticket = u /\ e.n = k /\ e.stage = "asked"
    <2> DEFINE e == [ticket |-> u, n |-> k, stage |-> "asked"]
    <2>1. creating' = creating \cup {e}
      BY <1>2 DEF TakeCreate
    <2>2. e.ticket = u /\ e.n = k /\ e.stage = "asked"
      OBVIOUS
    <2> QED
      BY <2>1, <2>2
  <1>5. /\ Ordered' /\ \A t, n : Unsent(t, n) => Unsent(t, n)'
        /\ Unsent(u, k)' /\ ~Unsent(u, k)
    BY <1>1, <1>2, LastToCreate DEF Living, Life
  <1>6. ~Under(u, k) /\ ~Known(u, k) /\ ~There(u, k)
    BY <1>3, <1>5 DEF Living, Life, Unbegun
  <1>7. \A t, n : /\ Under(t, n)' <=> Under(t, n) \/ (t = u /\ n = k)
                  /\ Known(t, n)' <=> Known(t, n)
                  /\ There(t, n)' <=> There(t, n)
    BY <1>1, <1>4 DEF Under, Known, There
  <1>8. Unbegun'
    BY <1>5, <1>7 DEF Living, Life, Unbegun
  <1>9. Distinct'
    <2>0. /\ \A x, y \in creating : x.ticket = y.ticket /\ x.n = y.n => x = y
          /\ \A x \in creating : ~Known(x.ticket, x.n)
          /\ \A x \in creating : x.stage = "asked" => ~There(x.ticket, x.n)
          /\ \A x \in creating : ~(x.ticket = u /\ x.n = k)
      BY <1>6 DEF Living, Life, Distinct, Under
    <2>1. \A x, y \in creating' : x.ticket = y.ticket /\ x.n = y.n => x = y
      BY <1>4, <2>0
    <2>2. \A x \in creating' : ~Known(x.ticket, x.n)'
      BY <1>4, <1>6, <1>7, <2>0
    <2>3. \A x \in creating' : x.stage = "asked" => ~There(x.ticket, x.n)'
      BY <1>4, <1>6, <1>7, <2>0
    <2> QED
      BY <2>1, <2>2, <2>3 DEF Distinct, Known, There
  <1>10. Accounted'
    BY <1>1, <1>4 DEF Living, Accounted, There, Newest
  <1> QED
    BY <1>1, <1>5, <1>7, <1>8, <1>9, <1>10 DEF Living, Life, Keeps

LEMMA ReportLives ==
    ASSUME Base, Living, NEW c \in creating, Report(c)
    PROVE  /\ Living' /\ Keeps
           /\ ~Under(c.ticket, c.n)' /\ Unsent(c.ticket, c.n)'
           /\ c.stage = "error" => <<c.ticket, c.n>> \in misled' \/ ~There(c.ticket, c.n)'
  <1>1. /\ UNCHANGED <<attempts, toExtension, group>> /\ misled \subseteq misled'
        /\ creating' = creating \ {c} /\ c.stage \in {"made", "error"}
        /\ c.stage = "made" /\ ~connected => <<c.ticket, c.n>> \in misled'
    BY DEF Report, tickets, history, Misleads
  <1>2. PICK o : /\ remembered' = remembered \cup {o} /\ o.ticket = c.ticket /\ o.n = c.n
                 /\ c.stage = "made" /\ connected => o.ok
    <2> DEFINE o == [ticket |-> c.ticket, n |-> c.n, ok |-> c.stage = "made" /\ connected]
    <2>1. remembered' = remembered \cup {o}
      BY DEF Report
    <2>2. o.ticket = c.ticket /\ o.n = c.n /\ (c.stage = "made" /\ connected => o.ok)
      OBVIOUS
    <2> QED
      BY <2>1, <2>2
  <1>3. /\ \A x, y \in creating : x.ticket = y.ticket /\ x.n = y.n => x = y
        /\ \A x \in creating : ~Known(x.ticket, x.n)
        /\ \A x \in creating : x.stage = "asked" => ~There(x.ticket, x.n)
    BY DEF Living, Life, Distinct
  <1>4. \A t, n : /\ Under(t, n)' => Under(t, n) /\ ~(t = c.ticket /\ n = c.n)
                  /\ Known(t, n)' => Known(t, n) \/ (t = c.ticket /\ n = c.n)
                  /\ There(t, n)' <=> There(t, n)
                  /\ Unsent(t, n)' <=> Unsent(t, n)
    BY <1>1, <1>2, <1>3 DEF Under, Known, There, Unsent
  <1>5. Under(c.ticket, c.n) /\ c.ticket \in Ticket /\ c.n \in 1 .. MaxAttempts
    BY OfBrowser DEF Under
  <1>6. Ordered'
    BY <1>1 DEF Living, Life, Ordered
  <1>7. Unbegun'
    BY <1>4, <1>5 DEF Living, Life, Unbegun
  <1>8. Distinct'
    <2>1. \A x, y \in creating' : x.ticket = y.ticket /\ x.n = y.n => x = y
      BY <1>1, <1>3
    <2>2. \A x \in creating' : ~Known(x.ticket, x.n)'
      BY <1>1, <1>3, <1>4
    <2>3. \A x \in creating' : x.stage = "asked" => ~There(x.ticket, x.n)'
      BY <1>1, <1>3, <1>4
    <2> QED
      BY <2>1, <2>2, <2>3 DEF Distinct, Known, There
  <1>9. Accounted'
    <2>1. SUFFICES ASSUME NEW t \in Ticket, NEW n \in 1 .. MaxAttempts, There(t, n)
                   PROVE  /\ n <= Newest(t)
                          /\ \/ <<t, n>> \in misled'
                             \/ \E x \in creating' : x.ticket = t /\ x.n = n /\ x.stage \in {"opened", "made"}
                             \/ \E q \in remembered' : q.ticket = t /\ q.n = n /\ q.ok
      BY <1>1 DEF Accounted, There, Newest
    <2>2. n <= Newest(t)
      BY <2>1 DEF Living, Accounted
    <2>3. CASE <<t, n>> \in misled
      BY <1>1, <2>2, <2>3
    <2>4. CASE \E x \in creating : x.ticket = t /\ x.n = n /\ x.stage \in {"opened", "made"}
      <3>1. PICK x \in creating : x.ticket = t /\ x.n = n /\ x.stage \in {"opened", "made"}
        BY <2>4
      <3>2. CASE x = c
        BY <1>1, <1>2, <2>2, <3>1, <3>2
      <3>3. CASE x # c
        BY <1>1, <2>2, <3>1, <3>3
      <3> QED
        BY <3>2, <3>3
    <2>5. CASE \E q \in remembered : q.ticket = t /\ q.n = n /\ q.ok
      BY <1>2, <2>2, <2>5
    <2> QED
      BY <2>1, <2>3, <2>4, <2>5 DEF Living, Accounted
  <1>10. ASSUME c.stage = "error", There(c.ticket, c.n)
         PROVE  <<c.ticket, c.n>> \in misled
    <2>1. ~Known(c.ticket, c.n) /\ \A x \in creating : x.ticket = c.ticket /\ x.n = c.n => x.stage = "error"
      BY <1>3, <1>10
    <2> QED
      BY <1>5, <1>10, <2>1 DEF Living, Accounted, Known
  <1>11. Unsent(c.ticket, c.n)
    BY <1>5 DEF Living, Life, Unbegun
  <1>12. PICK t, n : t = c.ticket /\ n = c.n
    OBVIOUS
  <1>13. /\ ~Under(t, n)' /\ Unsent(t, n)'
         /\ c.stage = "error" => <<t, n>> \in misled' \/ ~There(t, n)'
    BY <1>1, <1>4, <1>10, <1>11, <1>12
  <1> QED
    BY <1>1, <1>4, <1>6, <1>7, <1>8, <1>9, <1>12, <1>13 DEF Living, Life, Keeps

LEMMA WorkedLives ==
    ASSUME Base, Living, NEW u \in Ticket, Worked(u), Typed
    PROVE  Living' /\ Keeps
  <1>1. /\ UNCHANGED <<group, creating, remembered, misled>>
        /\ toExtension' = toExtension \/ Requests(u)
        /\ \A t \in Ticket : Newest(t)' >= Newest(t) /\ Newest(t) \in Nat /\ Newest(t)' \in Nat
    BY WorkedControl DEF Worked, Apart, extension
  <1>2. \A t, n : /\ Under(t, n)' <=> Under(t, n)
                  /\ Known(t, n)' <=> Known(t, n)
                  /\ There(t, n)' <=> There(t, n)
    BY <1>1 DEF Under, Known, There
  <1>3. Distinct'
    BY <1>1 DEF Living, Life, Distinct, Known, There
  <1>4. Accounted'
    <2>1. SUFFICES ASSUME NEW t \in Ticket, NEW n \in 1 .. MaxAttempts, There(t, n)
                   PROVE  n <= Newest(t)'
      BY <1>1 DEF Living, Accounted, There
    <2>2. n <= Newest(t)
      BY <2>1 DEF Living, Accounted
    <2>3. n \in Nat /\ Newest(t)' >= Newest(t) /\ Newest(t) \in Nat /\ Newest(t)' \in Nat
      BY <1>1, TabCreationAssumption
    <2>4. \A i, j, k \in Nat : i <= j /\ k >= j => i <= k
      OBVIOUS
    <2> QED
      BY <2>2, <2>3, <2>4
  <1>5. CASE toExtension' = toExtension
    <2>1. \A t, n : Unsent(t, n)' <=> Unsent(t, n)
      BY <1>5 DEF Unsent
    <2> QED
      BY <1>1, <1>2, <1>3, <1>4, <1>5, <2>1 DEF Living, Life, Ordered, Unbegun, Keeps
  <1>6. CASE Requests(u)
    <2>1. PICK r \in Request :
            /\ toExtension' = Append(toExtension, r) /\ r.ticket = u
            /\ r.op \in {"create", "reconcile"} => r.n = Newest(u)'
            /\ r.op = "create" => Tries(u)
      BY <1>6 DEF Requests
    <2>2. /\ Len(toExtension) \in Nat /\ Len(toExtension') = Len(toExtension) + 1
          /\ \A i \in 1 .. Len(toExtension) : toExtension'[i] = toExtension[i]
          /\ toExtension'[Len(toExtension) + 1] = r
      BY <2>1, Queues, Appended
    <2>3. r.op = "create" => r.n = Newest(u) + 1
      BY <2>1 DEF Tries
    <2>4. \A i \in 1 .. Len(toExtension) :
             toExtension[i].op \in {"create", "reconcile"} =>
                 toExtension[i].n \in 1 .. Newest(toExtension[i].ticket)
      BY DEF Base, Addressed, Sent
    <2>5. Ordered'
      <3>1. SUFFICES ASSUME NEW i \in 1 .. Len(toExtension'), NEW j \in 1 .. Len(toExtension'),
                            toExtension'[i].op = "create",
                            toExtension'[j].op \in {"create", "reconcile"},
                            toExtension'[i].ticket = toExtension'[j].ticket,
                            toExtension'[i].n = toExtension'[j].n
                     PROVE  i <= j
        BY DEF Ordered
      <3>2. CASE i \in 1 .. Len(toExtension) /\ j \in 1 .. Len(toExtension)
        BY <2>2, <3>1, <3>2 DEF Living, Life, Ordered
      <3>3. CASE j = Len(toExtension) + 1
        BY <2>2, <3>3
      <3>4. CASE i = Len(toExtension) + 1 /\ j \in 1 .. Len(toExtension)
        <4>1. toExtension[j].ticket = u /\ toExtension[j].n = Newest(u) + 1
              /\ toExtension[j].op \in {"create", "reconcile"}
          BY <2>1, <2>2, <2>3, <3>1, <3>4
        <4>2. Newest(u) + 1 \in 1 .. Newest(u)
          BY <2>4, <3>4, <4>1
        <4> QED
          BY <1>1, <4>2
      <3> QED
        BY <2>2, <3>2, <3>3, <3>4
    <2>6. \A t, n : ~Unsent(t, n)' => ~Unsent(t, n) \/ (t = u /\ n = Newest(u) + 1)
      <3>1. \A t, n : ~Unsent(t, n)' =>
               \E i \in 1 .. Len(toExtension') : Creates(toExtension'[i], t, n)
        BY DEF Unsent, Creates
      <3>2. \A t, n : \A i \in 1 .. Len(toExtension') : Creates(toExtension'[i], t, n) =>
               (i \in 1 .. Len(toExtension) /\ Creates(toExtension[i], t, n))
               \/ (t = u /\ n = Newest(u) + 1)
        BY <2>1, <2>2, <2>3 DEF Creates
      <3>3. \A t, n : Unsent(t, n) =>
               \A i \in 1 .. Len(toExtension) : ~Creates(toExtension[i], t, n)
        BY DEF Unsent
      <3> QED
        BY <3>1, <3>2, <3>3
    <2>7. /\ ~Under(u, Newest(u) + 1) /\ ~Known(u, Newest(u) + 1)
          /\ Newest(u) + 1 \in 1 .. MaxAttempts => ~There(u, Newest(u) + 1)
      <3>1. ~(Newest(u) + 1 <= Newest(u))
        BY <1>1
      <3> QED
        BY <3>1, OfBrowser DEF Under, Known, Living, Accounted
    <2>8. Unbegun'
      BY <1>2, <2>6, <2>7 DEF Living, Life, Unbegun
    <2>9. \A t \in Ticket : \A n \in 1 .. Newest(t) : Unsent(t, n) => Unsent(t, n)'
      <3>1. \A n \in 1 .. Newest(u) : n # Newest(u) + 1
        BY <1>1
      <3> QED
        BY <2>6, <3>1
    <2> QED
      BY <1>1, <1>2, <1>3, <1>4, <2>5, <2>8, <2>9 DEF Living, Life, Keeps
  <1> QED
    BY <1>1, <1>5, <1>6

LEMMA ServiceLives ==
    ASSUME Base, Living, ServiceAction, Served
    PROVE  Living' /\ Keeps
  <1>1. ASSUME Refuse \/ TakeInventory \/ TakeReconcile \/ TakeTitle \/ TakeGroup \/ Publish \/ Connect
        PROVE  Fewer
    <2>1. /\ UNCHANGED <<attempts, creating, remembered>>
          /\ (toExtension' = Tail(toExtension) /\ toExtension # <<>>) \/ toExtension' = toExtension
          /\ misled \subseteq misled'
      BY <1>1 DEF Served, Refuse, TakeInventory, TakeReconcile, TakeTitle, TakeGroup, Publish, Connect,
                  Takes, tickets, extension
    <2>2. DOMAIN group' = DOMAIN group
      BY <1>1, OfBrowser DEF Refuse, TakeInventory, TakeReconcile, TakeTitle, TakeGroup, Publish, Connect,
                             extension
    <2> QED
      BY <2>1, <2>2 DEF Fewer, Drained
  <1>2. ASSUME NEW o \in remembered, OutcomeForgotten(o)
        PROVE  Fewer
    BY <1>2 DEF OutcomeForgotten, Misleads, Fewer, Drained, tickets, link
  <1>3. ASSUME NEW tab \in DOMAIN group, UserCloses(tab)
        PROVE  Fewer
    BY <1>3 DEF UserCloses, Fewer, Drained, tickets, link, history
  <1>4. ASSUME NEW c \in creating, OpenTab(c) \/ GroupTab(c) \/ ChromeFails(c) \/ GroupsNothing(c)
        PROVE  \E d : Turns(c, d)
    <2>1. PICK stage \in Stage :
             /\ Becomes(c, stage)
             /\ stage # "asked"
             /\ OpenTab(c) => stage = "opened"
             /\ GroupTab(c) => stage = "made"
      BY <1>4 DEF OpenTab, GroupTab, ChromeFails, GroupsNothing, Stage
    <2>2. PICK d : /\ creating' = (creating \ {c}) \cup {d}
                   /\ d.ticket = c.ticket /\ d.n = c.n /\ d.stage = stage
      BY <2>1, Becoming
    <2>3. UNCHANGED <<attempts, toExtension, remembered>> /\ misled \subseteq misled'
      BY <1>4 DEF Served, OpenTab, GroupTab, ChromeFails, GroupsNothing, tickets, link
    <2>4. CASE OpenTab(c)
      <3>1. DOMAIN group' = DOMAIN group \cup {TabOf(c.ticket, c.n)}
        BY <2>4 DEF OpenTab
      <3> QED
        BY <2>1, <2>2, <2>3, <2>4, <3>1 DEF Turns
    <2>5. CASE GroupTab(c)
      <3>1. DOMAIN group' = DOMAIN group
        BY <2>5, OfBrowser DEF GroupTab
      <3> QED
        BY <2>1, <2>2, <2>3, <2>5, <3>1 DEF Turns
    <2>6. CASE ChromeFails(c)
      <3>1. group' = group
        BY <2>6 DEF ChromeFails
      <3>2. TabOf(c.ticket, c.n) \in DOMAIN group => <<c.ticket, c.n>> \in misled'
        <4>1. CASE c.stage = "asked"
          BY <4>1 DEF Living, Life, Distinct, There
        <4>2. CASE c.stage # "asked"
          BY <2>6, <4>2 DEF ChromeFails, Misleads
        <4> QED
          BY <4>1, <4>2
      <3> QED
        BY <2>1, <2>2, <2>3, <3>1, <3>2 DEF Turns
    <2>7. CASE GroupsNothing(c)
      BY <2>1, <2>2, <2>3, <2>7 DEF GroupsNothing, Turns
    <2> QED
      BY <1>4, <2>4, <2>5, <2>6, <2>7
  <1>5. CASE \E c \in creating : Report(c)
    BY <1>5, ReportLives
  <1>6. CASE TakeCreate
    BY <1>6, TakeCreateLives
  <1>7. \/ Fewer \/ TakeCreate
        \/ \E c \in creating : Report(c) \/ \E d : Turns(c, d)
    BY <1>1, <1>2, <1>3, <1>4 DEF ServiceAction, Regroups
  <1> QED
    BY <1>5, <1>6, <1>7, FewerLives, TurnsLives

LEMMA LivingStep ==
    ASSUME Base, Living, [Next]_vars
    PROVE  Living' /\ Keeps
  <1>1. CASE UNCHANGED vars
    BY <1>1, FewerLives DEF vars, tickets, link, extension, history, Fewer, Drained
  <1>2. CASE \E t \in Ticket : Worked(t) /\ Typed
    BY <1>2, WorkedLives
  <1>3. CASE ServiceAction /\ Served
    BY <1>3, ServiceLives
  <1>4. CASE Heard
    BY <1>4, FewerLives DEF Heard, extension, Fewer, Drained
  <1>5. CASE Lost
    <2>1. Fewer
      BY <1>5 DEF Lost, Fewer, Drained
    <2> QED
      BY <2>1, FewerLives
  <1> QED
    BY <1>1, <1>2, <1>3, <1>4, <1>5, Summary, OutagesLose, RestartsLose

-----------------------------------------------------------------------------
(* What the broker is told of an attempt is so, or the history says not.    *)
LEMMA Stays ==
    ASSUME Keeps, NEW t \in Ticket, NEW n \in 1 .. Newest(t), NEW as, Judged(t, n, as)
    PROVE  Judged(t, n, as)'
  <1>1. /\ Unsent(t, n) => Unsent(t, n)'
        /\ Unsent(t, n) /\ ~Under(t, n) => ~Under(t, n)'
        /\ ~Under(t, n) /\ ~There(t, n) => ~There(t, n)'
        /\ <<t, n>> \in misled => <<t, n>> \in misled'
    BY DEF Keeps
  <1> QED
    BY <1>1 DEF Judged

LEMMA OfTold ==
    ASSUME Base, NEW t \in Ticket, NEW n \in 1 .. MaxAttempts, NEW as \in Answer, Told(t, n, as)
    PROVE  n \in 1 .. Newest(t)
  <1>1. CASE \E i \in 1 .. Len(toBroker) : Says(toBroker[i], t, n, as)
    BY <1>1 DEF Base, Addressed, Sent, Says
  <1>2. CASE worker[t].at \in {"create", "reconcile"} /\ n = Newest(t)
    BY <1>2, OfWorker DEF AtWork
  <1> QED
    BY <1>1, <1>2 DEF Told

(* The answers of the extension. *)
LEMMA AnswersTrue ==
    ASSUME Base, Living, ServiceAction, Served, NEW m, Posts(m), m.op \in {"create", "reconcile"},
           NEW t, NEW n, NEW as, t = m.ticket, n = m.n, as = m.answer
    PROVE  Judged(t, n, as)'
  <1>0. m \in Message /\ toBroker' = Append(toBroker, m) /\ toBroker' # toBroker
        /\ \A r \in Message : toBroker' = Append(toBroker, r) => r = m
    BY Queues DEF Posts
  <1>1. /\ Distinct /\ Ordered
        /\ \A c \in creating : ~Known(c.ticket, c.n)
    BY DEF Living, Life, Distinct
  <1>2. CASE Refuse
    <2>1. /\ toExtension # <<>> /\ toExtension' = Tail(toExtension)
          /\ Tell(Reply(Head(toExtension), "refused"))
      BY <1>2 DEF Refuse
    <2>2. m = Reply(Head(toExtension), "refused")
      BY <1>0, <2>1, Taken DEF Tell
    <2>3. t = Head(toExtension).ticket /\ n = Head(toExtension).n /\ as = "refused"
          /\ Head(toExtension).op \in {"create", "reconcile"}
      BY <2>2 DEF Reply
    <2>4. Unsent(t, n)'
      BY <1>1, <2>1, <2>3, LastToCreate
    <2> QED
      BY <2>3, <2>4 DEF Judged
  <1>3. CASE TakeReconcile
    <2>1. /\ toExtension # <<>> /\ toExtension' = Tail(toExtension) /\ Head(toExtension).op = "reconcile"
          /\ UNCHANGED extension
      BY <1>3 DEF TakeReconcile, Takes
    <2> DEFINE h == Head(toExtension)
               found == Outcomes(h.ticket, h.n)
               answer == IF found = {} THEN "missing"
                         ELSE IF \E o \in found : o.ok THEN "ok" ELSE "failed"
    <2>2. /\ Tell(Reply(h, answer))
          /\ Misleads({c \in creating : c.ticket = h.ticket /\ c.n = h.n})
      BY <1>3 DEF TakeReconcile
    <2>3. m = Reply(h, answer)
      BY <1>0, <2>1, <2>2, Taken DEF Tell
    <2>4. t = h.ticket /\ n = h.n /\ as = answer
      BY <2>3 DEF Reply
    <2>5. t \in Ticket /\ n \in 1 .. MaxAttempts
      <3>1. h.ticket \in Ticket /\ h.n \in 1 .. Newest(h.ticket) /\ h.ticket \in Ticket
        BY <2>1, Taken DEF Sent
      <3>2. Newest(h.ticket) <= MaxAttempts /\ Newest(h.ticket) \in Nat /\ MaxAttempts \in Nat
        BY <3>1, OfWorker
      <3> QED
        BY <2>4, <3>1, <3>2
    <2>6. Unsent(t, n)'
      BY <1>1, <2>1, <2>4, LastToCreate
    <2>7. found = {o \in remembered : o.ticket = t /\ o.n = n}
      BY <2>4 DEF Outcomes
    <2>8. Under(t, n) => <<t, n>> \in misled' /\ found = {}
      BY <1>1, <2>2, <2>4, <2>7 DEF Misleads, Under, Known
    <2>9. There(t, n) /\ ~Under(t, n) => <<t, n>> \in misled \/ \E o \in found : o.ok
      BY <2>5, <2>7 DEF Living, Accounted, Under
    <2>10. misled \subseteq misled' /\ (Under(t, n)' <=> Under(t, n)) /\ (There(t, n)' <=> There(t, n))
      BY <2>1, <2>2 DEF Misleads, Under, There, extension
    <2>11. as \in {"ok", "failed", "missing"}
      BY <2>4
    <2>12. as = "ok" => \E o \in found : o.ok
      BY <2>4
    <2>13. as # "ok" => ~\E o \in found : o.ok
      BY <2>4
    <2> HIDE DEF h, found, answer
    <2> QED
      BY <2>6, <2>8, <2>9, <2>10, <2>11, <2>12, <2>13 DEF Judged
  <1>4. CASE \E c \in creating : Report(c)
    <2>1. PICK c \in creating : Report(c)
      BY <1>4
    <2>2. /\ ~Under(c.ticket, c.n)' /\ Unsent(c.ticket, c.n)'
          /\ c.stage = "error" => <<c.ticket, c.n>> \in misled' \/ ~There(c.ticket, c.n)'
      BY <2>1, ReportLives
    <2> DEFINE r == [op |-> "create", ticket |-> c.ticket, n |-> c.n, group |-> Home, tabs |-> NoTabs,
                     answer |-> IF c.stage = "made" /\ connected THEN "ok" ELSE "failed"]
    <2>3. Tell(r) /\ connected /\ c.stage \in {"made", "error"}
      BY <1>0, <2>1 DEF Report
    <2>4. r \in Message
      BY OfBrowser, NoTabsType DEF Message, Op
    <2>5. m = r
      BY <1>0, <2>3, <2>4 DEF Tell
    <2>6. t = c.ticket /\ n = c.n /\ as = IF c.stage = "made" THEN "ok" ELSE "failed"
      BY <2>3, <2>5
    <2>7. ~Under(t, n)' /\ Unsent(t, n)' /\ (c.stage = "error" => <<t, n>> \in misled' \/ ~There(t, n)')
      BY <2>2, <2>6
    <2> QED
      BY <2>3, <2>6, <2>7 DEF Judged
  <1>5. Refuse \/ TakeReconcile \/ \E c \in creating : Report(c)
    <2>1. CASE TakeInventory \/ Publish
      <3>1. \E for \in Ticket \cup {"none"} : Capture(for)
        BY <2>1, Taken DEF TakeInventory, Publish, Takes
      <3>2. PICK for \in Ticket \cup {"none"} : Capture(for)
        BY <3>1
      <3>3. \E r \in Message : r.op = "inventory" /\ toBroker' = Append(toBroker, r)
        BY <3>2, Captured DEF Posts
      <3> QED
        BY <1>0, <3>3
    <2>2. CASE TakeTitle \/ TakeGroup
      <3>1. toExtension # <<>> /\ toExtension' = Tail(toExtension)
            /\ Head(toExtension).op \in {"rename", "group"}
        BY <2>2 DEF TakeTitle, TakeGroup, Takes
      <3>2. \E r : Posts(r) /\ Replies(r)
        <4>2. ~(UNCHANGED <<toExtension, toBroker>>) /\ toExtension' # toExtension
          BY <3>1, Queues, Shortened
        <4>3. ~TakeCreate
          BY <3>1 DEF TakeCreate, Takes
        <4> QED
          BY <4>2, <4>3 DEF Served
      <3>3. \E r \in Message : toBroker' = Append(toBroker, r) /\ r.op \in {"rename", "group"}
        BY <3>1, <3>2 DEF Posts, Replies
      <3> QED
        BY <1>0, <3>3
    <2>3. CASE TakeCreate \/ Connect \/ \E c \in creating : OpenTab(c) \/ GroupTab(c)
      BY <1>0, <2>3 DEF TakeCreate, Connect, OpenTab, GroupTab, link
    <2>4. CASE \/ \E c \in creating : ChromeFails(c) \/ GroupsNothing(c)
               \/ \E o \in remembered : OutcomeForgotten(o)
               \/ \E tab \in DOMAIN group : UserCloses(tab)
      BY <1>0, <2>4 DEF ChromeFails, GroupsNothing, OutcomeForgotten, UserCloses, link
    <2> QED
      BY <2>1, <2>2, <2>3, <2>4 DEF ServiceAction, Regroups
  <1> QED
    BY <1>2, <1>3, <1>4, <1>5

LEMMA WorkedTold ==
    ASSUME Base, NEW u \in Ticket, Worked(u), NEW t \in Ticket, NEW n \in 1 .. MaxAttempts,
           NEW as \in Answer, Told(t, n, as)'
    PROVE  Told(t, n, as) \/ (as = "succeeded" /\ Told(t, n, "ok"))
  <1>1. /\ toBroker' = toBroker /\ worker'[u].reply = "none"
        /\ \A v \in Ticket \ {u} : worker'[v] = worker[v] /\ attempts'[v] = attempts[v]
        /\ attempts' = attempts \/ Learns(u) \/ Tries(u)
        /\ "none" \notin Answer /\ "dispatched" \notin Answer
    BY DEF Worked, Apart, Answer
  <1>2. CASE \E i \in 1 .. Len(toBroker') : Says(toBroker'[i], t, n, as)
    BY <1>1, <1>2 DEF Told
  <1>3. CASE worker'[t].at \in {"create", "reconcile"} /\ worker'[t].reply = as /\ n = Newest(t)'
    BY <1>1, <1>3 DEF Told, Newest
  <1>4. CASE n \in 1 .. Newest(t)' /\ attempts'[t][n] = as
    <2>1. CASE attempts'[t] = attempts[t]
      BY <1>4, <2>1 DEF Told, Newest
    <2>2. CASE t = u /\ Learns(u)
      BY <1>4, <2>2 DEF Learns, Told, Verdict
    <2>3. CASE t = u /\ Tries(u)
      <3>1. Newest(t) \in Nat
        BY OfWorker
      <3>2. /\ Newest(t)' = Newest(t) + 1 /\ attempts'[t][Newest(t) + 1] = "dispatched"
            /\ \A k \in 1 .. Newest(t) : attempts'[t][k] = attempts[t][k]
        BY <2>3 DEF Tries
      <3>3. n # Newest(t) + 1
        BY <1>1, <1>4, <3>2
      <3>4. n \in 1 .. Newest(t)
        BY <1>4, <3>1, <3>2, <3>3
      <3> QED
        BY <1>4, <3>2, <3>4 DEF Told
    <2> QED
      BY <1>1, <2>1, <2>2, <2>3
  <1> QED
    BY <1>2, <1>3, <1>4 DEF Told

LEMMA ServedTold ==
    ASSUME Base, Served, NEW t \in Ticket, NEW n \in 1 .. MaxAttempts,
           NEW as \in Answer, Told(t, n, as)'
    PROVE  \/ Told(t, n, as)
           \/ \E m : Posts(m) /\ Says(m, t, n, as)
  <1>1. worker' = worker /\ attempts' = attempts
    BY DEF Served, tickets
  <1>2. CASE \E i \in 1 .. Len(toBroker') : Says(toBroker'[i], t, n, as)
    <2>1. CASE toBroker' = toBroker
      BY <1>2, <2>1 DEF Told
    <2>2. CASE \E m : Posts(m)
      <3>1. PICK m : Posts(m)
        BY <2>2
      <3>2. /\ Len(toBroker) \in Nat /\ Len(toBroker') = Len(toBroker) + 1
            /\ \A i \in 1 .. Len(toBroker) : toBroker'[i] = toBroker[i]
            /\ toBroker'[Len(toBroker) + 1] = m
        BY <3>1, Queues, Appended DEF Posts
      <3>3. PICK i \in 1 .. Len(toBroker') : Says(toBroker'[i], t, n, as)
        BY <1>2
      <3>4. CASE i \in 1 .. Len(toBroker)
        BY <3>2, <3>3, <3>4 DEF Told
      <3>5. CASE i = Len(toBroker) + 1
        BY <3>1, <3>2, <3>3, <3>5
      <3>6. i \in 1 .. Len(toBroker) \/ i = Len(toBroker) + 1
        BY <3>2
      <3> QED
        BY <3>4, <3>5, <3>6
    <2> QED
      BY <2>1, <2>2 DEF Served, TakeCreate
  <1> QED
    BY <1>1, <1>2 DEF Told, Newest

LEMMA HeardTold ==
    ASSUME Base, Heard, NEW t \in Ticket, NEW n \in 1 .. MaxAttempts,
           NEW as \in Answer, Told(t, n, as)'
    PROVE  Told(t, n, as)
  <1>1. /\ toBroker # <<>> /\ toBroker' = Tail(toBroker) /\ attempts' = attempts
        /\ worker'[t] = worker[t] \/ Hears(t)
    BY DEF Heard
  <1>2. /\ \A i \in 1 .. Len(toBroker') : i + 1 \in 1 .. Len(toBroker) /\ toBroker'[i] = toBroker[i + 1]
        /\ Head(toBroker) = toBroker[1] /\ 1 \in 1 .. Len(toBroker)
    BY <1>1, Queues, Shortened
  <1>3. CASE \E i \in 1 .. Len(toBroker') : Says(toBroker'[i], t, n, as)
    BY <1>2, <1>3 DEF Told
  <1>4. CASE worker'[t].at \in {"create", "reconcile"} /\ worker'[t].reply = as /\ n = Newest(t)
    <2>1. CASE Hears(t)
      <3>1. toBroker[1].op \in {"create", "reconcile"}
        BY <1>2, <1>4, <2>1 DEF Hears, WaitsFor
      <3> QED
        BY <1>2, <1>4, <2>1, <3>1 DEF Hears, Says, Told
    <2> QED
      BY <1>1, <1>4, <2>1 DEF Told
  <1> QED
    BY <1>1, <1>3, <1>4 DEF Told, Newest

LEMMA JudgementsStep ==
    ASSUME Base, Living, Judgements, [Next]_vars
    PROVE  Judgements'
  <1>0. Keeps
    BY LivingStep
  <1>1. SUFFICES ASSUME NEW t \in Ticket, NEW n \in 1 .. MaxAttempts, NEW as \in Answer,
                        Told(t, n, as)'
                 PROVE  Judged(t, n, as)'
    BY DEF Judgements
  <1>2. ASSUME NEW was \in Answer, Told(t, n, was), was = as \/ (as = "succeeded" /\ was = "ok")
        PROVE  Judged(t, n, as)'
    <2>1. Judged(t, n, was) /\ n \in 1 .. Newest(t)
      BY <1>2, OfTold DEF Judgements
    <2>2. Judged(t, n, was)'
      BY <1>0, <2>1, Stays
    <2> QED
      BY <1>2, <2>2 DEF Judged
  <1>3. CASE UNCHANGED vars
    <2>1. Told(t, n, as)
      BY <1>1, <1>3 DEF vars, tickets, link, Told, Newest
    <2> QED
      BY <1>2, <2>1
  <1>4. CASE \E u \in Ticket : Worked(u)
    <2>1. "ok" \in Answer
      BY DEF Answer
    <2>2. Told(t, n, as) \/ (as = "succeeded" /\ Told(t, n, "ok"))
      BY <1>1, <1>4, WorkedTold
    <2> QED
      BY <1>2, <2>1, <2>2
  <1>5. CASE ServiceAction /\ Served
    <2>1. CASE \E m : Posts(m) /\ Says(m, t, n, as)
      BY <1>5, <2>1, AnswersTrue DEF Says
    <2>2. Told(t, n, as) \/ \E m : Posts(m) /\ Says(m, t, n, as)
      BY <1>1, <1>5, ServedTold
    <2> QED
      BY <1>2, <2>1, <2>2
  <1>6. CASE Heard
    <2>1. Told(t, n, as)
      BY <1>1, <1>6, HeardTold
    <2> QED
      BY <1>2, <2>1
  <1>7. CASE Disconnect \/ ExtensionRestarts \/ BrokerRestarts
    <2>1. /\ Len(toBroker') = 0 /\ attempts' = attempts
          /\ worker'[t] = Idle \/ worker'[t] = worker[t]
      BY <1>7, OutagesLose, RestartsLose DEF Lost
    <2>2. ~(worker'[t] = Idle /\ worker'[t].at \in {"create", "reconcile"})
      BY IdleType
    <2>3. ~\E i \in 1 .. Len(toBroker') : Says(toBroker'[i], t, n, as)
      BY <2>1
    <2>4. Newest(t)' = Newest(t)
      BY <2>1 DEF Newest
    <2>5. Told(t, n, as)
      BY <1>1, <2>1, <2>2, <2>3, <2>4 DEF Told
    <2> QED
      BY <1>2, <2>5
  <1> QED
    BY <1>3, <1>4, <1>5, <1>6, <1>7, Summary

LEMMA LivingStarts ==
    ASSUME Init
    PROVE  Living /\ Judgements
  <1>1. /\ Len(toExtension) = 0 /\ Len(toBroker) = 0 /\ creating = {} /\ remembered = {}
        /\ DOMAIN group = {Home} /\ \A t \in Ticket : Newest(t) = 0 /\ worker[t] = Idle
    BY DEF Init, Newest
  <1>2. \A t \in Ticket : \A n : ~There(t, n)
    BY <1>1, TabCreationAssumption DEF There, TabOf, Home
  <1>3. Living
    BY <1>1, <1>2 DEF Living, Life, Ordered, Unbegun, Distinct, Unsent, Accounted
  <1>4. Judgements
    <2>1. \A t \in Ticket : worker[t].at \notin {"create", "reconcile"}
      BY <1>1, IdleType
    <2>2. ~\E i \in 1 .. Len(toBroker) : TRUE
      BY <1>1
    <2>3. ASSUME NEW t \in Ticket, NEW n \in 1 .. Newest(t)
          PROVE  FALSE
      BY <1>1
    <2> QED
      BY <2>1, <2>2, <2>3 DEF Judgements, Told
  <1> QED
    BY <1>3, <1>4

(* An attempt the broker takes for failed or missing has no tab and none    *)
(* under way, and one it takes for successful is over, unless the history   *)
(* says that the extension answered without knowing.                        *)
THEOREM AnswersHold == Spec => [](Base /\ Outstanding /\ Living /\ Judgements)
  BY BaseInit, StartsEmpty, LivingStarts, BaseStep, OutstandingStep, LivingStep, JudgementsStep,
     PTL DEF Spec

-----------------------------------------------------------------------------
(* What a ticket is shown when it decides. *)
LEMMA TriesBlind ==
    ASSUME Base, Seen, NEW t \in Ticket, Tries(t), NEW n \in 1 .. Newest(t), Succeeded(t, n)
    PROVE  ~There(t, n)
  <1>1. Newest(t) \in Nat /\ DOMAIN attempts[t] = 1 .. Newest(t)
    BY Numbers DEF Base
  <1>2. CASE n # Newest(t)
    BY <1>2 DEF Seen
  <1>3. CASE n = Newest(t)
    <2>1. There(t, n) => TabOf(t, n) \in DOMAIN worker[t].tabs
      BY <1>3 DEF Seen, Given, Shows, Tries, Answered, Holds
    <2> DEFINE succeeded == {k \in DOMAIN attempts[t] : attempts[t][k] = "succeeded"}
    <2>2. n \in succeeded /\ \A k \in succeeded : k <= n
      BY <1>1, <1>3 DEF Succeeded
    <2>3. n = Max(succeeded)
      <3>1. n \in Nat /\ \A k \in succeeded : k \in Nat
        BY <1>1
      <3> HIDE DEF succeeded
      <3>2. \A x \in succeeded : (\A y \in succeeded : x >= y) => x = n
        BY <2>2, <3>1
      <3>3. \A y \in succeeded : n >= y
        BY <2>2, <3>1
      <3> QED
        BY <2>2, <3>2, <3>3, Zenon DEF Max
    <2>4. TabOf(t, n) \notin DOMAIN worker[t].tabs
      BY <2>2, <2>3 DEF Tries, PriorSuccess
    <2> QED
      BY <2>1, <2>4
  <1> QED
    BY <1>2, <1>3

(* A tab that is known never comes back. *)
LEMMA NoneReturns ==
    ASSUME Base, Judgements, Keeps, NEW t \in Ticket, NEW n \in 1 .. Newest(t), Succeeded(t, n),
           There(t, n)'
    PROVE  There(t, n)
  <1>1. n \in 1 .. MaxAttempts
    BY OfWorker
  <1>2. Told(t, n, "succeeded") /\ "succeeded" \in Answer
    BY DEF Told, Succeeded, Answer
  <1>3. ~Under(t, n)
    BY <1>1, <1>2 DEF Judgements, Judged
  <1> QED
    BY <1>3 DEF Keeps

LEMMA StillShows ==
    ASSUME Base, Judgements, Keeps, attempts' = attempts, NEW t \in Ticket, NEW tabs, Shows(tabs, t)
    PROVE  Shows(tabs, t)'
  <1>1. SUFFICES ASSUME NEW n \in 1 .. Newest(t), Succeeded(t, n)
                 PROVE  IF n = Newest(t) THEN There(t, n)' => TabOf(t, n) \in DOMAIN tabs
                                         ELSE TabOf(t, n) \notin DOMAIN tabs
    BY DEF Shows, Succeeded, Newest, There
  <1>2. There(t, n)' => There(t, n)
    BY <1>1, NoneReturns
  <1> QED
    BY <1>1, <1>2 DEF Shows

LEMMA WorkedSees ==
    ASSUME Base, Outstanding, Seen, NEW u \in Ticket, Worked(u)
    PROVE  Seen'
  <1>1. /\ toBroker' = toBroker /\ group' = group /\ Open(u) /\ worker'[u].reply = "none"
        /\ \A v \in Ticket \ {u} :
              worker'[v] = worker[v] /\ state'[v] = state[v] /\ attempts'[v] = attempts[v]
        /\ attempts' = attempts \/ Learns(u) \/ Tries(u)
    BY DEF Worked, Apart, extension
  <1>2. \A t \in Ticket : \A n : There(t, n)' <=> There(t, n)
    BY <1>1 DEF There
  <1>3. ASSUME NEW t \in Ticket, NEW n \in 1 .. Newest(t)', Succeeded(t, n)', n # Newest(t)'
        PROVE  ~There(t, n)'
    <2>1. CASE attempts'[t] = attempts[t]
      BY <1>2, <1>3, <2>1 DEF Seen, Succeeded, Newest
    <2>2. CASE t = u /\ Learns(u)
      BY <1>2, <1>3, <2>2 DEF Seen, Succeeded, Learns
    <2>3. CASE t = u /\ Tries(u)
      <3>1. Newest(t) \in Nat /\ Newest(t)' = Newest(t) + 1
        BY <2>3, OfWorker DEF Tries
      <3>2. n \in 1 .. Newest(t)
        BY <1>3, <3>1
      <3>3. Succeeded(t, n)
        BY <1>3, <2>3, <3>2 DEF Tries, Succeeded
      <3> QED
        BY <1>2, <2>3, <3>2, <3>3, TriesBlind
    <2> QED
      BY <1>1, <2>1, <2>2, <2>3
  <1>4. ASSUME NEW t \in Ticket, NEW tabs, Given(t, tabs)'
        PROVE  Shows(tabs, t)'
    <2>1. t = u => ~Holds(t)'
      BY <1>1 DEF Holds
    <2>2. Given(t, tabs)
      BY <1>1, <1>4, <2>1 DEF Given, Open, Holds
    <2>3. CASE attempts'[t] = attempts[t]
      BY <1>2, <2>2, <2>3 DEF Seen, Shows, Succeeded, Newest
    <2>4. CASE t = u /\ (Learns(u) \/ Tries(u))
      <3>1. PICK i \in 1 .. Len(toBroker) : toBroker[i].op = "inventory" /\ toBroker[i].ticket = t
        BY <1>1, <1>4, <2>1, <2>4 DEF Given
      <3>2. WaitsFor(t, "inventory")
        BY <1>1, <2>4, <3>1 DEF Outstanding, OneAsked, Asks
      <3> QED
        BY <2>4, <3>2 DEF WaitsFor, Learns, Tries, Answered
    <2> QED
      BY <1>1, <2>3, <2>4
  <1> QED
    BY <1>3, <1>4 DEF Seen

LEMMA ServedSees ==
    ASSUME Base, Judgements, Seen, Keeps, Served
    PROVE  Seen'
  <1>1. UNCHANGED <<state, attempts, worker>>
    BY DEF Served, tickets
  <1>2. \A t \in Ticket : \A n \in 1 .. Newest(t) : Succeeded(t, n) /\ There(t, n)' => There(t, n)
    BY NoneReturns
  <1>3. ASSUME NEW t \in Ticket, NEW tabs, Given(t, tabs)'
        PROVE  Shows(tabs, t)'
    <2>1. Given(t, tabs) \/ tabs = group
      <3>1. CASE toBroker' = toBroker
        BY <1>1, <1>3, <3>1 DEF Given, Open, Holds
      <3>2. CASE \E m : Posts(m)
        <4>1. PICK m : Posts(m)
          BY <3>2
        <4>2. /\ Len(toBroker) \in Nat /\ Len(toBroker') = Len(toBroker) + 1
              /\ \A k \in 1 .. Len(toBroker) : toBroker'[k] = toBroker[k]
              /\ toBroker'[Len(toBroker) + 1] = m
              /\ m.op = "inventory" => m.tabs = group
          BY <4>1, Queues, Appended DEF Posts
        <4>3. CASE Holds(t) /\ worker[t].tabs = tabs
          BY <4>3 DEF Given
        <4>4. CASE Open(t) /\ \E i \in 1 .. Len(toBroker') :
                      toBroker'[i].op = "inventory" /\ toBroker'[i].ticket = t /\ toBroker'[i].tabs = tabs
          <5>1. PICK i \in 1 .. Len(toBroker') :
                   toBroker'[i].op = "inventory" /\ toBroker'[i].ticket = t /\ toBroker'[i].tabs = tabs
            BY <4>4
          <5>2. i \in 1 .. Len(toBroker) \/ i = Len(toBroker) + 1
            BY <4>2
          <5> QED
            BY <4>2, <4>4, <5>1, <5>2 DEF Given
        <4> QED
          BY <1>1, <1>3, <4>3, <4>4 DEF Given, Open, Holds
      <3> QED
        BY <3>1, <3>2 DEF Served, TakeCreate
    <2>2. Shows(tabs, t)
      BY <2>1 DEF Seen, Shows, There
    <2> QED
      BY <1>1, <2>2, StillShows
  <1>4. \A t \in Ticket : \A n \in 1 .. Newest(t)' :
            Succeeded(t, n)' /\ n # Newest(t)' => ~There(t, n)'
    BY <1>1, <1>2 DEF Seen, Succeeded, Newest
  <1> QED
    BY <1>3, <1>4 DEF Seen

LEMMA HeardSees ==
    ASSUME Base, Seen, Heard
    PROVE  Seen'
  <1>1. /\ toBroker # <<>> /\ toBroker' = Tail(toBroker) /\ attempts' = attempts
        /\ state' = state /\ group' = group
        /\ \A t \in Ticket : worker'[t] = worker[t] \/ Hears(t)
    BY DEF Heard, extension
  <1>2. /\ \A i \in 1 .. Len(toBroker') : i + 1 \in 1 .. Len(toBroker) /\ toBroker'[i] = toBroker[i + 1]
        /\ Head(toBroker) = toBroker[1] /\ 1 \in 1 .. Len(toBroker)
    BY <1>1, Queues, Shortened
  <1>3. ASSUME NEW t \in Ticket, NEW tabs, Given(t, tabs)'
        PROVE  Given(t, tabs)
    <2>1. CASE Open(t) /\ \E i \in 1 .. Len(toBroker') :
                  toBroker'[i].op = "inventory" /\ toBroker'[i].ticket = t /\ toBroker'[i].tabs = tabs
      BY <1>2, <2>1 DEF Given
    <2>2. CASE Holds(t)' /\ worker'[t].tabs = tabs
      <3>1. CASE worker'[t] = worker[t]
        BY <2>2, <3>1 DEF Given, Holds
      <3>2. CASE Hears(t)
        <4>1. worker[t].at \in {"look", "inventory"} /\ Open(t) /\ toBroker[1].ticket = t
          BY <1>2, <2>2, <3>2, OfWorker DEF Hears, Holds, AtWork
        <4>2. toBroker[1].op = "inventory" /\ toBroker[1].tabs = tabs
          BY <1>2, <2>2, <3>2, <4>1, Queues DEF Hears, WaitsFor, Op
        <4> QED
          BY <1>2, <4>1, <4>2 DEF Given
      <3> QED
        BY <1>1, <3>1, <3>2
    <2> QED
      BY <1>1, <1>3, <2>1, <2>2 DEF Given, Open
  <1> QED
    BY <1>1, <1>3 DEF Seen, Shows, Succeeded, Newest, There

LEMMA SeenStep ==
    ASSUME Base, Outstanding, Living, Judgements, Seen, [Next]_vars
    PROVE  Seen'
  <1>1. CASE UNCHANGED vars
    BY <1>1 DEF vars, tickets, link, extension, Seen, Shows, Given, Succeeded, Newest, There, Open, Holds
  <1>2. CASE \E t \in Ticket : Worked(t)
    BY <1>2, WorkedSees
  <1>3. CASE Served
    BY <1>3, ServedSees, LivingStep
  <1>4. CASE Heard
    BY <1>4, HeardSees
  <1>5. CASE Disconnect \/ ExtensionRestarts \/ BrokerRestarts
    <2>1. /\ Len(toBroker') = 0 /\ group' = group /\ attempts' = attempts
          /\ \A t \in Ticket : worker'[t] = Idle
                               \/ (worker'[t] = worker[t] /\ worker[t].at \in {"idle", "elsewhere"})
      BY <1>5, OutagesLose, RestartsLose DEF Lost
    <2>2. \A t \in Ticket : ~Holds(t)'
      BY <2>1, IdleType DEF Holds
    <2>3. \A t \in Ticket : \A n \in 1 .. Newest(t)' :
             Succeeded(t, n)' /\ n # Newest(t)' => ~There(t, n)'
      BY <2>1 DEF Seen, Succeeded, Newest, There
    <2> QED
      BY <2>1, <2>2, <2>3 DEF Seen, Given
  <1> QED
    BY <1>1, <1>2, <1>3, <1>4, <1>5, Summary

LEMMA SeenStarts ==
    ASSUME Init
    PROVE  Seen
  <1>1. Len(toBroker) = 0 /\ \A t \in Ticket : Newest(t) = 0 /\ worker[t] = Idle
    BY DEF Init, Newest
  <1>2. \A t \in Ticket : ~Holds(t)
    BY <1>1, IdleType DEF Holds
  <1> QED
    BY <1>1, <1>2 DEF Seen, Given

(* An inventory a ticket asked for shows the tab of its newest success if   *)
(* it is there, and of no earlier one.                                      *)
THEOREM Watched == Spec => [](Base /\ Outstanding /\ Living /\ Judgements /\ Seen)
  BY SeenStarts, SeenStep, AnswersHold, PTL DEF Spec

(* A retry leaves no tab of an earlier attempt behind, nor a creation under *)
(* way, but of an attempt for which the extension answered without knowing  *)
(* its tab: createTabReliably() reads the journal, an inventory and the     *)
(* cache, and lost messages, refusals and broker restarts never mislead it. *)
THEOREM RetriesAreSafe == Spec => RetryUnlessMisled
  <1>1. ASSUME Base, Judgements, Seen, [Next]_vars
        PROVE  [\A t \in Ticket : Retries(t) => \A n \in Effective(t) : <<t, n>> \in misled]_vars
    <2>1. SUFFICES ASSUME NEW t \in Ticket, Retries(t), NEW n \in Effective(t)
                   PROVE  <<t, n>> \in misled
      OBVIOUS
    <2>2. Newest(t) \in Nat /\ Newest(t) <= MaxAttempts /\ attempts'[t] # attempts[t]
          /\ Newest(t)' > Newest(t) /\ MaxAttempts \in Nat
      BY <1>1, <2>1, OfWorker DEF Retries, Newest
    <2>3. Tries(t)
      <3>1. attempts' # attempts
        BY <2>2
      <3>2. PICK u \in Ticket : Worked(u)
        BY <1>1, <3>1, Summary, OutagesLose, RestartsLose
           DEF vars, tickets, Served, Heard, Lost
      <3>3. u = t
        BY <2>2, <3>2 DEF Worked, Apart
      <3> QED
        BY <2>2, <3>1, <3>2, <3>3 DEF Worked, Learns
    <2>4. n \in 1 .. Newest(t) /\ n \in 1 .. MaxAttempts
      <3>1. Len(attempts'[t]) = Newest(t) + 1
        BY <2>3 DEF Tries, Newest
      <3>2. n \in 1 .. (Len(attempts'[t]) - 1)
        BY <2>1 DEF Effective
      <3> QED
        BY <2>2, <3>1, <3>2
    <2>5. There(t, n) \/ Under(t, n)
      BY <2>1 DEF Effective, Wanted, There, Under
    <2>6. attempts[t][n] \in {"succeeded", "failed", "missing"}
      BY <1>1, <2>3, <2>4, Numbers DEF Base, Tries, Try
    <2>7. Judged(t, n, attempts[t][n])
      BY <1>1, <2>4, <2>6 DEF Judgements, Told, Answer
    <2>8. CASE Succeeded(t, n)
      BY <1>1, <2>3, <2>4, <2>5, <2>7, <2>8, TriesBlind DEF Judged, Succeeded
    <2>9. CASE attempts[t][n] \in {"failed", "missing"}
      BY <2>5, <2>7, <2>9 DEF Judged
    <2> QED
      BY <2>6, <2>8, <2>9 DEF Succeeded
  <1> QED
    BY <1>1, Watched, PTL DEF RetryUnlessMisled, Spec

-----------------------------------------------------------------------------
(* The browser as it is told. *)
LEMMA ServiceTells ==
    ASSUME Base, ServiceAction, Served, connected', ~due'
    PROVE  /\ connected /\ group' = group
           /\ \/ ~due /\ pending' = pending /\ toBroker' = toBroker
              \/ ~due /\ pending' = pending /\ \E m : Posts(m) /\ m.op # "inventory"
              \/ \E m : Posts(m) /\ m.op = "inventory"
  <1>1. CASE TakeInventory \/ Publish
    <2>1. \E for \in Ticket \cup {"none"} : Capture(for)
      BY <1>1, Taken DEF TakeInventory, Publish, Takes
    <2>2. PICK for \in Ticket \cup {"none"} : Capture(for)
      BY <2>1
    <2> DEFINE m == [op |-> "inventory", ticket |-> for, n |-> 0, answer |-> "ok", group |-> Home,
                     tabs |-> group]
    <2>3. Posts(m)
      BY <2>2, Captured
    <2>4. m.op = "inventory"
      OBVIOUS
    <2> HIDE DEF m
    <2>5. connected /\ group' = group
      BY <1>1 DEF TakeInventory, Publish
    <2> QED
      BY <2>3, <2>4, <2>5
  <1>2. CASE Refuse \/ TakeReconcile \/ TakeTitle \/ TakeGroup
    <2>1. /\ toExtension # <<>> /\ toExtension' = Tail(toExtension)
          /\ Head(toExtension).op \notin {"inventory", "create"} \/ Refuse
          /\ Head(toExtension).op # "inventory"
      BY <1>2 DEF Refuse, TakeReconcile, TakeTitle, TakeGroup, Takes
    <2>2. toExtension' # toExtension
      BY <2>1, Queues, Shortened
    <2>3. \E m : Posts(m) /\ m.op # "inventory"
      <3>1. CASE Refuse
        BY <2>1, <3>1, Taken DEF Refuse, Tell, Posts
      <3>2. CASE ~Refuse
        <4>1. ~TakeCreate
          BY <2>1, <3>2 DEF TakeCreate, Takes
        <4> QED
          BY <2>1, <2>2, <4>1 DEF Served, Replies
      <3> QED
        BY <3>1, <3>2
    <2>4. connected /\ group' = group /\ ~due /\ pending' = pending
      BY <1>2 DEF Refuse, TakeReconcile, TakeTitle, TakeGroup, extension
    <2> QED
      BY <2>3, <2>4
  <1>3. CASE \E c \in creating : Report(c)
    <2>1. PICK c \in creating : Report(c)
      BY <1>3
    <2> DEFINE r == [op |-> "create", ticket |-> c.ticket, n |-> c.n, group |-> Home, tabs |-> NoTabs,
                     answer |-> IF c.stage = "made" /\ connected THEN "ok" ELSE "failed"]
    <2>2. connected /\ group' = group /\ ~due /\ pending' = pending
      BY <2>1 DEF Report
    <2>3. Tell(r)
      BY <2>1, <2>2 DEF Report
    <2>4. r \in Message /\ r.op = "create" /\ r.tabs = NoTabs
      BY OfBrowser, NoTabsType DEF Message, Op
    <2>5. Whose(r)
      <3>1. r.n = c.n /\ r.ticket = c.ticket /\ c.n \in 1 .. MaxAttempts /\ c.n <= Newest(c.ticket)
            /\ c.ticket \in Ticket
        BY OfBrowser
      <3>2. c.n \in 1 .. Newest(c.ticket)
        BY <3>1, OfWorker
      <3> QED
        BY <2>4, <3>1, <3>2 DEF Whose, Sent
    <2> QED
      BY <2>2, <2>3, <2>4, <2>5 DEF Tell, Posts
  <1>4. CASE TakeCreate
    BY <1>4 DEF TakeCreate
  <1>5. CASE \/ \E c \in creating : ChromeFails(c) \/ GroupsNothing(c)
             \/ \E o \in remembered : OutcomeForgotten(o)
    <2>1. UNCHANGED <<connected, pending, toBroker, group, due>>
      BY <1>5 DEF ChromeFails, GroupsNothing, OutcomeForgotten, link
    <2> QED
      BY <2>1
  <1>6. ~(\/ Connect \/ \E c \in creating : OpenTab(c) \/ GroupTab(c)
          \/ \E tab \in DOMAIN group : UserCloses(tab))
    <2>1. ~Connect
      BY DEF Connect
    <2>2. ASSUME NEW c \in creating, OpenTab(c) \/ GroupTab(c)
          PROVE  FALSE
      <3>1. CASE OpenTab(c)
        BY <3>1 DEF OpenTab, link
      <3>2. CASE GroupTab(c)
        BY <3>2 DEF GroupTab, link
      <3> QED
        BY <2>2, <3>1, <3>2
    <2>3. ASSUME NEW tab \in DOMAIN group, UserCloses(tab)
          PROVE  FALSE
      BY <2>3 DEF UserCloses, link
    <2> QED
      BY <2>1, <2>2, <2>3
  <1> QED
    BY <1>1, <1>2, <1>3, <1>4, <1>5, <1>6 DEF ServiceAction, Regroups

LEMMA ReadsOn ==
    ASSUME Base, Heard, NEW tabs, Recent(tabs)'
    PROVE  Recent(tabs)
  <1>1. /\ toBroker # <<>> /\ toBroker' = Tail(toBroker)
        /\ \A t \in Ticket : worker'[t] = worker[t] \/ Hears(t)
    BY DEF Heard
  <1>2. /\ \A i \in 1 .. Len(toBroker') : i + 1 \in 1 .. Len(toBroker) /\ toBroker'[i] = toBroker[i + 1]
        /\ Head(toBroker) = toBroker[1] /\ 1 \in 1 .. Len(toBroker)
        /\ Len(toBroker) \in Nat \ {0} /\ Len(toBroker') = Len(toBroker) - 1
    BY <1>1, Queues, Shortened
  <1>3. \A j \in 1 .. Len(toBroker) :
           j = 1 \/ (j - 1 \in 1 .. Len(toBroker') /\ toBroker'[j - 1] = toBroker[j])
    <2>1. \A j \in 1 .. Len(toBroker) : j = 1 \/ (j - 1 \in 1 .. Len(toBroker') /\ (j - 1) + 1 = j)
      BY <1>2
    <2> QED
      BY <1>2, <2>1
  <1>4. CASE \E i : NewestAt(i)' /\ toBroker'[i].tabs = tabs
    <2>1. PICK i \in 1 .. Len(toBroker') : NewestAt(i)' /\ toBroker'[i].tabs = tabs
      BY <1>4 DEF NewestAt
    <2>2. i + 1 \in 1 .. Len(toBroker) /\ toBroker'[i] = toBroker[i + 1]
      BY <1>2
    <2>3. ASSUME NEW j \in 1 .. Len(toBroker), toBroker[j].op = "inventory"
          PROVE  j <= i + 1
      <3>1. CASE j = 1
        BY <3>1
      <3>2. CASE j - 1 \in 1 .. Len(toBroker') /\ toBroker'[j - 1] = toBroker[j]
        <4>1. j - 1 <= i
          BY <2>1, <2>3, <3>2 DEF NewestAt
        <4> QED
          BY <4>1
      <3> QED
        BY <1>3, <3>1, <3>2
    <2>4. NewestAt(i + 1) /\ toBroker[i + 1].tabs = tabs
      BY <2>1, <2>2, <2>3 DEF NewestAt
    <2> QED
      BY <2>4 DEF Recent
  <1>5. ASSUME NoInventory', NEW t \in Ticket, Holds(t)', t \notin overtaken', worker'[t].tabs = tabs
        PROVE  Recent(tabs)
    <2>1. \A j \in 1 .. Len(toBroker) : j # 1 => toBroker[j].op # "inventory"
      BY <1>3, <1>5 DEF NoInventory
    <2>2. CASE toBroker[1].op # "inventory"
      <3>1. NoInventory /\ overtaken' = overtaken
        BY <1>2, <2>1, <2>2 DEF NoInventory, Heard
      <3>2. ~Hears(t)
        <4>1. ASSUME Hears(t)
              PROVE  worker'[t].at = toBroker[1].op
          BY <1>2, <2>2, <4>1 DEF Hears, WaitsFor
        <4>2. toBroker[1].op \in Op \ {"inventory"}
          BY <1>2, <2>2, Queues
        <4> QED
          BY <1>5, <4>1, <4>2 DEF Op, Holds
      <3> QED
        BY <1>1, <1>5, <3>1, <3>2 DEF Recent, Holds
    <2>3. CASE toBroker[1].op = "inventory"
      <3>1. ~Holds(t)
        BY <1>2, <1>5, <2>3 DEF Heard
      <3>2. worker'[t].tabs = toBroker[1].tabs
        BY <1>1, <1>2, <1>5, <2>3, <3>1 DEF Hears, Holds
      <3>3. NewestAt(1)
        BY <1>2, <2>1, <2>3 DEF NewestAt
      <3> QED
        BY <1>5, <3>2, <3>3 DEF Recent
    <2> QED
      BY <2>2, <2>3
  <1> QED
    BY <1>4, <1>5 DEF Recent

LEMMA UptodateStep ==
    ASSUME Base, Uptodate, [Next]_vars
    PROVE  Uptodate'
  <1>1. CASE UNCHANGED vars
    BY <1>1 DEF vars, link, extension, history, Uptodate, Recent, NewestAt, NoInventory, Holds
  <1>2. CASE \E u \in Ticket : Worked(u)
    <2>1. PICK u \in Ticket : Worked(u)
      BY <1>2
    <2>2. /\ UNCHANGED <<connected, due, toBroker, group>> /\ worker'[u].reply = "none"
          /\ \A v \in Ticket \ {u} : worker'[v] = worker[v]
      BY <2>1 DEF Worked, Apart, extension
    <2>3. \A v \in Ticket \ {u} : v \notin overtaken' => v \notin overtaken
      BY <2>1 DEF Worked, Rewrites, CreateSucceeds, WorkspaceMade, history
    <2>4. \A tabs : Recent(tabs)' => Recent(tabs)
      BY <2>2, <2>3 DEF Recent, NewestAt, NoInventory, Holds
    <2> QED
      BY <2>2, <2>4 DEF Uptodate
  <1>3. CASE ServiceAction /\ Served
    <2>1. SUFFICES ASSUME connected', ~due', NEW tabs, Recent(tabs)'
                   PROVE  tabs = group'
      BY DEF Uptodate
    <2>2. worker' = worker /\ overtaken' = overtaken
      BY <1>3 DEF Served
    <2>3. CASE ~due /\ toBroker' = toBroker
      <3>1. Recent(tabs)
        BY <2>1, <2>2, <2>3 DEF Recent, NewestAt, NoInventory, Holds
      <3> QED
        BY <1>3, <2>1, <2>3, <3>1, ServiceTells DEF Uptodate
    <2>4. ASSUME NEW m, Posts(m), ~due \/ m.op = "inventory"
          PROVE  tabs = group'
      <3>1. /\ Len(toBroker) \in Nat /\ Len(toBroker') = Len(toBroker) + 1
            /\ \A k \in 1 .. Len(toBroker) : toBroker'[k] = toBroker[k]
            /\ toBroker'[Len(toBroker) + 1] = m
            /\ m.op = "inventory" => m.tabs = group
        BY <2>4, Queues, Appended DEF Posts
      <3>2. connected /\ group' = group
        BY <1>3, <2>1, ServiceTells
      <3>3. CASE m.op = "inventory"
        <4>1. \A i : NewestAt(i)' => i = Len(toBroker) + 1
          BY <3>1, <3>3 DEF NewestAt
        <4>2. ~NoInventory'
          BY <3>1, <3>3 DEF NoInventory
        <4> QED
          BY <2>1, <3>1, <3>2, <3>3, <4>1, <4>2 DEF Recent
      <3>4. CASE m.op # "inventory" /\ ~due
        <4>1. \A i : NewestAt(i)' => NewestAt(i) /\ toBroker'[i] = toBroker[i]
          BY <3>1, <3>4 DEF NewestAt
        <4>2. NoInventory' => NoInventory
          BY <3>1 DEF NoInventory
        <4>3. Recent(tabs)
          BY <2>1, <2>2, <4>1, <4>2 DEF Recent, Holds
        <4> QED
          BY <3>2, <3>4, <4>3 DEF Uptodate
      <3> QED
        BY <2>4, <3>3, <3>4
    <2> QED
      BY <1>3, <2>1, <2>3, <2>4, ServiceTells
  <1>4. CASE Heard
    BY <1>4, ReadsOn DEF Heard, extension, Uptodate
  <1>5. CASE Disconnect \/ ExtensionRestarts \/ BrokerRestarts
    BY <1>5, OutagesLose, RestartsLose DEF Lost, Uptodate
  <1> QED
    BY <1>1, <1>2, <1>3, <1>4, <1>5, Summary

-----------------------------------------------------------------------------
(* The tab that is grouped. *)
LEMMA PriorIsNewest ==
    ASSUME Base, Seen, NEW t \in Ticket, Holds(t), NEW n \in PriorSuccess(t)
    PROVE  n = Newest(t) /\ Success(t)
  <1>1. Newest(t) \in Nat /\ DOMAIN attempts[t] = 1 .. Newest(t)
    BY Numbers DEF Base
  <1>2. n \in 1 .. Newest(t) /\ Succeeded(t, n) /\ TabOf(t, n) \in DOMAIN worker[t].tabs
    BY <1>1 DEF PriorSuccess, Succeeded
  <1>3. Shows(worker[t].tabs, t)
    BY DEF Seen, Given
  <1>4. n = Newest(t)
    BY <1>2, <1>3 DEF Shows
  <1> QED
    BY <1>1, <1>2, <1>4 DEF Success

LEMMA WorkedCarries ==
    ASSUME Base, Seen, LatestOnly, NEW t \in Ticket, Worked(t),
           worker'[t].at \in {"obtained", "group", "rename"}, NEW tab, tab = worker'[t].tab
    PROVE  Latest(t, tab)'
  <1>2. CASE Learns(t) /\ worker[t].reply = "ok" /\ tab = TabOf(t, Newest(t))
    <2>1. Newest(t)' = Newest(t) /\ attempts'[t][Newest(t)] = "succeeded" /\ Newest(t) > 0
      BY <1>2, OfWorker DEF Learns, Verdict, AtWork
    <2> QED
      BY <1>2, <2>1 DEF Latest, Success, Succeeded
  <1>3. CASE worker[t].at \in {"obtained", "group", "rename"} /\ tab = worker[t].tab /\ attempts' = attempts
    <2>1. Latest(t, tab)
      BY <1>3 DEF LatestOnly, About
    <2> QED
      BY <1>3, <2>1 DEF Latest, Success, Succeeded, Newest
  <1>4. CASE Holds(t) /\ attempts' = attempts /\ \E n \in PriorSuccess(t) : tab = TabOf(t, n)
    <2>1. Latest(t, tab)
      BY <1>4, PriorIsNewest DEF Latest
    <2> QED
      BY <1>4, <2>1 DEF Latest, Success, Succeeded, Newest
  <1> QED
    BY <1>2, <1>3, <1>4 DEF Worked, Carries

LEMMA WorkedIsAbout ==
    ASSUME Base, Outstanding, Seen, LatestOnly, NEW u \in Ticket, Worked(u),
           NEW t \in Ticket, NEW tab, About(t, tab)'
    PROVE  Latest(t, tab)'
  <1>1. /\ Open(u)
        /\ toExtension' = toExtension \/ Requests(u)
        /\ \A v \in Ticket \ {u} : worker'[v] = worker[v] /\ attempts'[v] = attempts[v]
        /\ attempts' = attempts \/ Learns(u) \/ Tries(u)
    BY DEF Worked, Apart
  <1>2. /\ attempts'[t] = attempts[t] /\ About(t, tab)
        => Latest(t, tab)'
    BY DEF LatestOnly, Latest, Success, Succeeded, Newest
  <1>3. CASE worker'[t].at \in {"obtained", "group", "rename"} /\ worker'[t].tab = tab
    <2>1. CASE t = u
      BY <1>3, <2>1, WorkedCarries
    <2>2. CASE t # u
      BY <1>1, <1>2, <1>3, <2>2 DEF About
    <2> QED
      BY <2>1, <2>2
  <1>4. ASSUME NEW i \in 1 .. Len(toExtension), toExtension[i].op \in {"group", "rename"},
               toExtension[i].ticket = t, toExtension[i].tab = tab
        PROVE  Latest(t, tab)'
    <2>1. About(t, tab)
      BY <1>4 DEF About
    <2>2. ~(t = u /\ (Learns(u) \/ Tries(u)))
      <3>1. ASSUME t = u
            PROVE  WaitsFor(t, toExtension[i].op)
        <4>1. Asks(toExtension[i], t)
          BY <1>4 DEF Asks
        <4>2. OneAsked(u)
          BY <1>1 DEF Outstanding
        <4> QED
          BY <3>1, <4>1, <4>2 DEF OneAsked
      <3> QED
        BY <1>4, <3>1 DEF WaitsFor, Learns, Tries, Answered
    <2> QED
      BY <1>1, <1>2, <2>1, <2>2
  <1>5. CASE \E i \in 1 .. Len(toExtension') :
                /\ toExtension'[i].op \in {"group", "rename"}
                /\ toExtension'[i].ticket = t /\ toExtension'[i].tab = tab
    <2>1. CASE toExtension' = toExtension
      BY <1>4, <1>5, <2>1
    <2>2. CASE Requests(u)
      <3>1. PICK r \in Request :
              /\ toExtension' = Append(toExtension, r) /\ r.ticket = u
              /\ WaitsFor(u, r.op)' /\ r.tab = worker'[u].tab
        BY <2>2 DEF Requests
      <3>2. /\ Len(toExtension) \in Nat /\ Len(toExtension') = Len(toExtension) + 1
            /\ \A k \in 1 .. Len(toExtension) : toExtension'[k] = toExtension[k]
            /\ toExtension'[Len(toExtension) + 1] = r
        BY <3>1, Queues, Appended
      <3>3. PICK i \in 1 .. Len(toExtension') :
                /\ toExtension'[i].op \in {"group", "rename"}
                /\ toExtension'[i].ticket = t /\ toExtension'[i].tab = tab
        BY <1>5
      <3>4. CASE i \in 1 .. Len(toExtension)
        BY <1>4, <3>2, <3>3, <3>4
      <3>5. CASE i = Len(toExtension) + 1
        <4>1. t = u /\ worker'[t].tab = tab /\ worker'[t].at \in {"group", "rename"}
          BY <3>1, <3>2, <3>3, <3>5 DEF WaitsFor
        <4> QED
          BY <1>3, <4>1
      <3>6. i \in 1 .. Len(toExtension) \/ i = Len(toExtension) + 1
        BY <3>2
      <3> QED
        BY <3>4, <3>5, <3>6
    <2> QED
      BY <1>1, <2>1, <2>2
  <1> QED
    BY <1>3, <1>5 DEF About

LEMMA WorkedPlaces ==
    ASSUME Base, LatestOnly, NEW u \in Ticket, Worked(u),
           NEW t \in Allocate, NEW n \in 1 .. MaxAttempts, Placed(t, n)'
    PROVE  n \in 1 .. Newest(t)' /\ Succeeded(t, n)'
  <1>1. /\ group' = group /\ t \in Ticket
        /\ \A v \in Ticket \ {u} : attempts'[v] = attempts[v]
        /\ attempts' = attempts \/ Learns(u) \/ Tries(u)
    BY DEF Worked, Apart, extension, Ticket
  <1>2. n \in 1 .. Newest(t) /\ Succeeded(t, n)
    BY <1>1 DEF LatestOnly, Placed, There
  <1>3. CASE attempts'[t] = attempts[t]
    BY <1>2, <1>3 DEF Newest, Succeeded
  <1>4. CASE t = u /\ Learns(u)
    <2>1. attempts[t][Newest(t)] = "dispatched"
      BY <1>1, <1>4, OfWorker DEF Learns, AtWork
    <2> QED
      BY <1>2, <1>4, <2>1 DEF Learns, Succeeded
  <1>5. CASE t = u /\ Tries(u)
    <2>1. Newest(t) \in Nat
      BY <1>1, OfWorker
    <2> QED
      BY <1>2, <1>5, <2>1 DEF Tries, Succeeded
  <1> QED
    BY <1>1, <1>3, <1>4, <1>5

(* Only the extension's answer to a worker puts a tab into a new group. *)
LEMMA ServicePlaces ==
    ASSUME Base, ServiceAction, NEW t \in Allocate, NEW n \in 1 .. MaxAttempts, Placed(t, n)'
    PROVE  Placed(t, n) \/ About(t, TabOf(t, n))
  <1>0. /\ group \in [DOMAIN group -> Group] /\ t \in Ticket /\ t \notin Create
        /\ \A c \in creating : c.ticket \in Ticket
    BY OfBrowser, TabCreationAssumption DEF Ticket
  <1>1. PICK tab : tab = TabOf(t, n)
    OBVIOUS
  <1>2. tab \in DOMAIN group' /\ group'[tab] # Ungrouped
    BY <1>1 DEF Placed, There
  <1>3. tab \in DOMAIN group /\ group[tab] # Ungrouped => Placed(t, n)
    BY <1>1 DEF Placed, There
  <1>4. CASE \E c \in creating : OpenTab(c)
    BY <1>2, <1>3, <1>4 DEF OpenTab
  <1>5. CASE \E c \in creating : GroupTab(c)
    <2>1. PICK c \in creating : GroupTab(c)
      BY <1>5
    <2>2. tab = TabOf(c.ticket, c.n) => c.ticket = t
      BY <1>1 DEF TabOf
    <2>3. group' = group \/ (c.ticket \in Create /\ group' = [group EXCEPT ![TabOf(c.ticket, c.n)] = Home])
      BY <2>1 DEF GroupTab
    <2> QED
      BY <1>0, <1>2, <1>3, <2>2, <2>3
  <1>6. CASE TakeGroup
    <2>1. PICK m : m = Head(toExtension)
      OBVIOUS
    <2>2. /\ toExtension # <<>> /\ m.op = "group"
          /\ \/ group' = group
             \/ group' = [group EXCEPT ![m.tab] = NewGroup(m.ticket)]
      BY <1>6, <2>1 DEF TakeGroup, Takes
    <2>3. m.tab[1] = m.ticket /\ m = toExtension[1] /\ 1 \in 1 .. Len(toExtension)
      BY <2>1, <2>2, Taken
    <2>4. CASE tab = m.tab
      <3>1. m.ticket = t
        BY <1>1, <2>3, <2>4 DEF TabOf
      <3> QED
        BY <1>1, <2>2, <2>3, <2>4, <3>1 DEF About
    <2>5. CASE tab # m.tab
      BY <1>0, <1>2, <1>3, <2>2, <2>5
    <2> QED
      BY <2>4, <2>5
  <1>7. CASE \E x \in DOMAIN group : UserCloses(x)
    BY <1>2, <1>3, <1>7 DEF UserCloses
  <1>8. CASE group' = group
    BY <1>2, <1>3, <1>8
  <1> QED
    BY <1>4, <1>5, <1>6, <1>7, <1>8, ServiceGroup DEF Regroups

LEMMA LatestStep ==
    ASSUME Base, Outstanding, Seen, LatestOnly, [Next]_vars
    PROVE  LatestOnly'
  <1>1. ASSUME UNCHANGED <<attempts, group>>, \A t \in Ticket : \A tab : About(t, tab)' => About(t, tab)
        PROVE  LatestOnly'
    BY <1>1 DEF LatestOnly, Latest, Success, Succeeded, Newest, Placed, There
  <1>2. CASE UNCHANGED vars
    BY <1>1, <1>2 DEF vars, tickets, link, extension, About
  <1>3. CASE \E u \in Ticket : Worked(u)
    BY <1>3, WorkedIsAbout, WorkedPlaces DEF LatestOnly
  <1>4. CASE ServiceAction /\ Served
    <2>1. worker' = worker /\ attempts' = attempts /\ Drained(toExtension', toExtension)
      BY <1>4 DEF Served, tickets, TakeCreate, Takes, Replies, Drained
    <2>2. Shifted(toExtension', toExtension)
      BY <2>1, Queues, DrainedIsShifted
    <2>3. \A t, tab : About(t, tab)' => About(t, tab)
      BY <2>1, <2>2 DEF About, Shifted
    <2>4. \A t, tab : Latest(t, tab)' <=> Latest(t, tab)
      BY <2>1 DEF Latest, Success, Succeeded, Newest
    <2>5. ASSUME NEW t \in Allocate, NEW n \in 1 .. MaxAttempts, Placed(t, n)'
          PROVE  n \in 1 .. Newest(t)' /\ Succeeded(t, n)'
      <3>1. t \in Ticket /\ Newest(t)' = Newest(t) /\ Newest(t) \in Nat
        BY <2>1, OfWorker DEF Ticket, Newest
      <3>2. CASE Placed(t, n)
        BY <2>1, <3>1, <3>2 DEF LatestOnly, Succeeded
      <3>3. CASE About(t, TabOf(t, n))
        <4>1. Success(t) /\ TabOf(t, n) = TabOf(t, Newest(t))
          BY <3>1, <3>3 DEF LatestOnly, Latest
        <4>2. n = Newest(t)
          BY <4>1 DEF TabOf
        <4> QED
          BY <2>1, <3>1, <4>1, <4>2 DEF Success, Succeeded
      <3> QED
        BY <1>4, <2>5, <3>2, <3>3, ServicePlaces
    <2> QED
      BY <2>3, <2>4, <2>5 DEF LatestOnly
  <1>5. CASE Heard
    BY <1>1, <1>5 DEF Heard, extension, Hears, About
  <1>6. CASE Disconnect \/ ExtensionRestarts \/ BrokerRestarts
    <2>1. /\ Len(toExtension') = 0 /\ UNCHANGED <<attempts, group>>
          /\ \A t \in Ticket : worker'[t] = Idle
                               \/ (worker'[t] = worker[t] /\ worker[t].at \in {"idle", "elsewhere"})
      BY <1>6, OutagesLose, RestartsLose DEF Lost
    <2>2. \A t \in Ticket : \A tab : ~About(t, tab)'
      BY <2>1, IdleType DEF About
    <2> QED
      BY <1>1, <2>1, <2>2
  <1> QED
    BY <1>2, <1>3, <1>4, <1>5, <1>6, Summary

-----------------------------------------------------------------------------
(* The rows that an inventory, and addTab(), make active. *)
LEMMA ReconcileShows ==
    ASSUME Base, NEW tabs \in Tabs, Reconcile(tabs), NEW tab \in DOMAIN tabs,
           NEW g \in workspaces, tabs[tab] = g
    PROVE  ActiveIn(tab, g)'
  <1> DEFINE new == {<<x, tabs[x]>> : x \in {x \in DOMAIN tabs : tabs[x] \in workspaces}}
             as(p) == IF p[1] \in DOMAIN tabs /\ tabs[p[1]] = p[2] THEN "active" ELSE "closed"
             known(p) == p[2] \in Found(tabs)
             q == <<tab, g>>
  <1>1. rows' = [p \in DOMAIN rows \cup new |->
                   IF p \notin DOMAIN rows THEN <<"active">>
                   ELSE IF ~known(p) THEN rows[p] ELSE [rows[p] EXCEPT ![Len(rows[p])] = as(p)]]
    BY Zenon DEF Reconcile
  <1>2. q \in new /\ known(q) /\ as(q) = "active"
    BY DEF Found
  <1> HIDE DEF new, as, known, q
  <1>3. q \in DOMAIN rows' /\ \E i \in DOMAIN rows'[q] : rows'[q][i] = "active"
    <2>1. q \in DOMAIN rows'
      BY <1>1, <1>2
    <2>2. CASE q \notin DOMAIN rows
      <3>1. rows'[q] = <<"active">>
        BY <1>1, <1>2, <2>2
      <3>2. 1 \in DOMAIN <<"active">> /\ <<"active">>[1] = "active"
        OBVIOUS
      <3> QED
        BY <2>1, <3>1, <3>2
    <2>3. CASE q \in DOMAIN rows
      <3>1. PICK s \in Seq(RowState) : s = rows[q]
        BY <2>3, OfRow
      <3>2. s # <<>> /\ Len(s) \in Nat \ {0}
        BY <2>3, <3>1, OfRow
      <3>3. rows'[q] = [s EXCEPT ![Len(s)] = "active"]
        BY <1>1, <1>2, <2>3, <3>1
      <3>4. "active" \in RowState
        BY DEF RowState
      <3>5. /\ [s EXCEPT ![Len(s)] = "active"] \in Seq(RowState)
            /\ Len([s EXCEPT ![Len(s)] = "active"]) = Len(s)
            /\ Len(s) \in 1 .. Len(s)
            /\ [s EXCEPT ![Len(s)] = "active"][Len(s)] = "active"
        BY <3>2, <3>4, RowReplaced
      <3> QED
        BY <2>1, <3>3, <3>5
    <2> QED
      BY <2>2, <2>3
  <1> QED
    BY <1>3 DEF ActiveIn, q

LEMMA AddShows ==
    ASSUME Base, NEW tab, NEW w, rows' = RowAdded(tab, w)
    PROVE  ActiveIn(tab, w)' /\ \A x, g : ActiveIn(x, g) => ActiveIn(x, g)'
  <1> DEFINE q == <<tab, w>>
  <1>1. rows' = [p \in DOMAIN rows \cup {q} |->
                   IF p # q THEN rows[p]
                   ELSE IF p \in DOMAIN rows THEN Append(rows[p], "active") ELSE <<"active">>]
    BY Zenon DEF RowAdded
  <1> HIDE DEF q
  <1>2. q \in DOMAIN rows' /\ \E i \in DOMAIN rows'[q] : rows'[q][i] = "active"
    <2>1. CASE q \notin DOMAIN rows
      <3>1. rows'[q] = <<"active">> /\ q \in DOMAIN rows'
        BY <1>1, <2>1
      <3>2. 1 \in DOMAIN <<"active">> /\ <<"active">>[1] = "active"
        OBVIOUS
      <3> QED
        BY <3>1, <3>2
    <2>2. CASE q \in DOMAIN rows
      <3>1. PICK s \in Seq(RowState) : s = rows[q]
        BY <2>2, OfRow
      <3>2. rows'[q] = Append(s, "active") /\ q \in DOMAIN rows'
        BY <1>1, <2>2, <3>1
      <3>3. "active" \in RowState
        BY DEF RowState
      <3>4. Len(s) + 1 \in DOMAIN Append(s, "active") /\ Append(s, "active")[Len(s) + 1] = "active"
        BY <3>3
      <3> QED
        BY <3>2, <3>4
    <2> QED
      BY <2>1, <2>2
  <1>3. ActiveIn(tab, w)'
    BY <1>2 DEF ActiveIn, q
  <1>4. ASSUME NEW x, NEW g, ActiveIn(x, g)
        PROVE  ActiveIn(x, g)'
    <2>1. CASE <<x, g>> = q
      <3>1. x = tab /\ g = w
        BY <2>1 DEF q
      <3> QED
        BY <1>3, <3>1
    <2>2. CASE <<x, g>> # q
      BY <1>1, <1>4, <2>2 DEF ActiveIn
    <2> QED
      BY <2>1, <2>2
  <1> QED
    BY <1>3, <1>4

(* Of a ticket's tabs only the newest is in the group it has just made. *)
LEMMA MadeForOne ==
    ASSUME Base, Owners, Seen, LatestOnly, NEW t \in Ticket, t \in Allocate,
           worker[t].at = "rename", NEW tab \in DOMAIN group, NEW g, g[1] = t, g # Ungrouped,
           group[tab] = g
    PROVE  tab = worker[t].tab
  <1>1. worker[t].tab = TabOf(t, Newest(t))
    BY DEF LatestOnly, About, Latest
  <1>2. tab \in AnyTab /\ t # "home" /\ t # "none" /\ \A x \in Ticket : x # "home"
    BY OfBrowser, TabCreationAssumption
  <1>3. tab[1] = t
    BY <1>2 DEF Owners, Owned, Belongs, Home, Ungrouped
  <1>4. tab \in Ticket \X (1 .. MaxAttempts)
    BY <1>2, <1>3 DEF AnyTab
  <1>5. PICK n \in 1 .. MaxAttempts : tab = TabOf(t, n)
    BY <1>3, <1>4 DEF TabOf
  <1>6. Placed(t, n) /\ There(t, n)
    BY <1>5 DEF Placed, There
  <1>7. n \in 1 .. Newest(t) /\ Succeeded(t, n)
    BY <1>6 DEF LatestOnly
  <1>8. n = Newest(t)
    BY <1>6, <1>7 DEF Seen
  <1> QED
    BY <1>1, <1>5, <1>8

Followed == \A tab \in DOMAIN group : group[tab] \in workspaces => ActiveIn(tab, group[tab])

LEMMA FollowedIn ==
    ASSUME group' = group, \A tab \in DOMAIN group : \A g \in workspaces' :
                              group[tab] = g => ActiveIn(tab, g)'
    PROVE  Followed'
  <1>1. ASSUME NEW tab \in DOMAIN group, NEW g, g = group[tab], g \in workspaces'
        PROVE  ActiveIn(tab, g)'
    BY <1>1
  <1> QED
    BY <1>1 DEF Followed, ActiveIn

LEMMA WorkedFollows ==
    ASSUME Base, Allocation, Owners, Seen, LatestOnly, Uptodate, RowsFollowBrowser,
           NEW t \in Ticket, Worked(t), Quiet', ~stale'
    PROVE  Followed'
  <1>1. /\ UNCHANGED <<connected, pending, toBroker, due, group>> /\ Quiet
        /\ group \in Tabs
    BY OfBrowser DEF Worked, Apart, extension, Quiet
  <1>2. stale' = stale => Followed
    BY <1>1 DEF RowsFollowBrowser, Followed
  <1>3. ASSUME stale' = stale, workspaces' = workspaces,
               \A x, g : ActiveIn(x, g) => ActiveIn(x, g)'
        PROVE  Followed'
    <2>1. \A tab \in DOMAIN group : \A g \in workspaces' : group[tab] = g => ActiveIn(tab, g)'
      BY <1>2, <1>3 DEF Followed
    <2> QED
      BY <1>1, <2>1, FollowedIn
  <1>4. CASE UNCHANGED <<rows, workspaces, stale>>
    BY <1>3, <1>4 DEF ActiveIn
  <1>5. CASE Holds(t) /\ Reconcile(worker[t].tabs) /\ UNCHANGED workspaces /\ stale' = (t \in overtaken)
    <2>1. NoInventory /\ t \notin overtaken
      <3>1. NoInventory
        BY <1>1, Queues DEF Quiet, NoInventory
      <3>2. t \notin overtaken
        BY <1>5, Zenon
      <3> QED
        BY <3>1, <3>2
    <2>2. Recent(worker[t].tabs)
      BY <1>5, <2>1 DEF Recent
    <2>3. worker[t].tabs = group
      BY <1>1, <2>2 DEF Uptodate, Quiet
    <2>4. Reconcile(group)
      BY <1>5, <2>3
    <2>5. \A tab \in DOMAIN group : \A g \in workspaces' : group[tab] = g => ActiveIn(tab, g)'
      BY <1>1, <1>5, <2>4, ReconcileShows
    <2> QED
      BY <1>1, <2>5, FollowedIn
  <1>6. CASE CreateSucceeds(t)
    <2>1. rows' = rows \/ rows' = RowAdded(worker[t].tab, Home)
      BY <1>6 DEF CreateSucceeds
    <2>2. stale' = stale /\ workspaces' = workspaces
      BY <1>6 DEF CreateSucceeds, history
    <2>3. \A x, g : ActiveIn(x, g) => ActiveIn(x, g)'
      BY <2>1, AddShows DEF ActiveIn
    <2> QED
      BY <1>3, <2>2, <2>3
  <1>7. CASE WorkspaceMade(t)
    <2>1. /\ worker[t].group = NewGroup(t) /\ workspaces' = workspaces \cup {NewGroup(t)}
          /\ t \in Allocate /\ NewGroup(t)[1] = t /\ NewGroup(t) # Ungrouped
      <3>1. NewGroup(t)[1] = t /\ t # "none"
        BY Makes, TabCreationAssumption
      <3> QED
        BY <1>7, <3>1, MakesOne DEF Allocation, Ungrouped
    <2>2. worker[t].at = "rename" /\ rows' = RowAdded(worker[t].tab, worker[t].group) /\ stale' = stale
      BY <1>7 DEF WorkspaceMade, Answered, history
    <2>3. PICK made, new : made = worker[t].tab /\ new = NewGroup(t)
      OBVIOUS
    <2>4. ActiveIn(made, new)' /\ \A x, g : ActiveIn(x, g) => ActiveIn(x, g)'
      BY <2>3, <2>1, <2>2, AddShows
    <2>5. ASSUME NEW tab \in DOMAIN group, NEW g \in workspaces', group[tab] = g
          PROVE  ActiveIn(tab, g)'
      <3>1. CASE g \in workspaces
        BY <1>2, <2>2, <2>4, <2>5, <3>1 DEF Followed
      <3>2. CASE g = NewGroup(t)
        <4>1. tab = worker[t].tab
          BY <2>1, <2>2, <2>5, <3>2, MadeForOne
        <4> QED
          BY <2>3, <2>4, <3>2, <4>1
      <3> QED
        BY <2>1, <2>5, <3>1, <3>2
    <2> QED
      BY <1>1, <2>5, FollowedIn
  <1> QED
    BY <1>4, <1>5, <1>6, <1>7 DEF Worked, Rewrites

LEMMA FollowsStep ==
    ASSUME Base, Allocation, Owners, Seen, LatestOnly, Uptodate, RowsFollowBrowser, [Next]_vars
    PROVE  RowsFollowBrowser'
  <1>1. SUFFICES ASSUME Quiet', ~stale'
                 PROVE  Followed'
    BY DEF RowsFollowBrowser, Followed
  <1>2. ASSUME UNCHANGED <<rows, workspaces, stale, group>>, Quiet
        PROVE  Followed'
    BY <1>1, <1>2 DEF RowsFollowBrowser, Followed, ActiveIn
  <1>3. CASE UNCHANGED vars
    BY <1>1, <1>2, <1>3 DEF vars, browser, link, extension, history, Quiet
  <1>4. CASE \E t \in Ticket : Worked(t)
    BY <1>1, <1>4, WorkedFollows
  <1>5. CASE ServiceAction /\ Served
    <2>1. UNCHANGED <<rows, workspaces, stale>> /\ connected' /\ ~due' /\ ~pending'
      BY <1>1, <1>5 DEF Served, browser, Quiet
    <2>2. connected /\ group' = group
      BY <1>5, <2>1, ServiceTells
    <2>3. CASE ~due /\ pending' = pending /\ toBroker' = toBroker
      BY <1>1, <1>2, <2>1, <2>2, <2>3 DEF Quiet
    <2>4. ASSUME NEW m, Posts(m)
          PROVE  /\ m.op # "inventory"
                 /\ \A i \in DOMAIN toBroker : toBroker[i].op # "inventory"
      <3>1. /\ Len(toBroker) \in Nat /\ Len(toBroker') = Len(toBroker) + 1
            /\ \A k \in 1 .. Len(toBroker) : toBroker'[k] = toBroker[k]
            /\ toBroker'[Len(toBroker) + 1] = m
            /\ DOMAIN toBroker' = 1 .. Len(toBroker') /\ DOMAIN toBroker = 1 .. Len(toBroker)
        BY <2>4, Queues, Appended DEF Posts
      <3>2. \A i \in DOMAIN toBroker' : toBroker'[i].op # "inventory"
        BY <1>1 DEF Quiet
      <3> QED
        BY <3>1, <3>2
    <2>5. CASE ~due /\ pending' = pending /\ \E m : Posts(m)
      BY <1>2, <2>1, <2>2, <2>4, <2>5 DEF Quiet
    <2> QED
      BY <1>5, <2>1, <2>3, <2>4, <2>5, ServiceTells
  <1>6. CASE Heard
    <2>1. /\ toBroker # <<>> /\ toBroker' = Tail(toBroker)
          /\ UNCHANGED <<connected, due, group, workspaces>>
      BY <1>6 DEF Heard, extension
    <2>2. /\ Head(toBroker) = toBroker[1] /\ 1 \in 1 .. Len(toBroker)
          /\ Len(toBroker) \in Nat \ {0} /\ Len(toBroker') = Len(toBroker) - 1
          /\ DOMAIN toBroker' = 1 .. Len(toBroker') /\ DOMAIN toBroker = 1 .. Len(toBroker)
          /\ \A i \in 1 .. Len(toBroker') : toBroker'[i] = toBroker[i + 1]
      BY <2>1, Queues, Shortened
    <2>3. \A j \in 1 .. Len(toBroker) : j # 1 => toBroker[j].op # "inventory"
      <3>1. \A j \in 1 .. Len(toBroker) :
               j # 1 => \E i \in 1 .. Len(toBroker') : toBroker'[i] = toBroker[j]
        <4>1. \A j \in 1 .. Len(toBroker) : j # 1 => j - 1 \in 1 .. Len(toBroker') /\ (j - 1) + 1 = j
          BY <2>2
        <4> QED
          BY <2>2, <4>1
      <3>2. \A i \in 1 .. Len(toBroker') : toBroker'[i].op # "inventory"
        BY <1>1, <2>2 DEF Quiet
      <3> QED
        BY <3>1, <3>2
    <2>4. CASE Head(toBroker).op # "inventory"
      <3>1. UNCHANGED <<rows, stale, pending>>
        BY <1>6, <2>4 DEF Heard
      <3>2. Quiet
        BY <1>1, <2>1, <2>2, <2>3, <2>4, <3>1 DEF Quiet
      <3> QED
        BY <1>2, <2>1, <3>1, <3>2
    <2>5. CASE Head(toBroker).op = "inventory"
      <3>1. Recent(Head(toBroker).tabs)
        BY <2>2, <2>3, <2>5 DEF Recent, NewestAt
      <3>2. Head(toBroker).tabs = group
        BY <1>1, <2>1, <3>1 DEF Quiet, Uptodate
      <3>3. Reconcile(Head(toBroker).tabs)
        BY <1>6, <2>5 DEF Heard
      <3>4. Reconcile(group) /\ group \in Tabs
        BY <3>2, <3>3, OfBrowser
      <3>5. \A tab \in DOMAIN group : \A g \in workspaces' : group[tab] = g => ActiveIn(tab, g)'
        BY <2>1, <3>4, ReconcileShows
      <3> QED
        BY <2>1, <3>5, FollowedIn
    <2> QED
      BY <2>4, <2>5
  <1>7. CASE Disconnect \/ ExtensionRestarts \/ BrokerRestarts
    BY <1>1, <1>7, OutagesLose, RestartsLose DEF Lost, Quiet
  <1> QED
    BY <1>3, <1>4, <1>5, <1>6, <1>7, Summary

LEMMA FollowedStarts ==
    ASSUME Init
    PROVE  Uptodate /\ LatestOnly /\ RowsFollowBrowser
  <1>1. /\ Len(toExtension) = 0 /\ Len(toBroker) = 0 /\ connected
        /\ rows = [p \in {<<Home, Home>>} |-> <<"active">>] /\ workspaces = {Home}
        /\ group = [tab \in {Home} |-> Home] /\ \A t \in Ticket : worker[t] = Idle
    BY DEF Init
  <1>2. \A t \in Ticket : ~Holds(t) /\ \A tab : ~About(t, tab)
    BY <1>1, IdleType DEF Holds, About
  <1>3. \A tabs : ~Recent(tabs)
    BY <1>1, <1>2 DEF Recent, NewestAt
  <1>4. \A t \in Allocate : \A n : ~Placed(t, n)
    BY <1>1, TabCreationAssumption DEF Placed, There, TabOf, Home, Ticket
  <1>5. ActiveIn(Home, Home)
    <2>1. DOMAIN rows = {<<Home, Home>>} /\ rows[<<Home, Home>>] = <<"active">>
      BY <1>1
    <2>2. 1 \in DOMAIN <<"active">> /\ <<"active">>[1] = "active"
      OBVIOUS
    <2> QED
      BY <2>1, <2>2 DEF ActiveIn
  <1>6. RowsFollowBrowser
    BY <1>1, <1>5 DEF RowsFollowBrowser
  <1> QED
    BY <1>1, <1>2, <1>3, <1>4, <1>6 DEF Uptodate, LatestOnly

(* What the rows follow the browser by is kept: the tabs that are grouped   *)
(* and the inventories that are under way.                                  *)
THEOREM Inventoried == Spec => [](Uptodate /\ LatestOnly)
  BY FollowedStarts, UptodateStep, LatestStep, Watched, PTL DEF Spec

(* Once no inventory is on its way the broker's rows have every tab that is *)
(* in a workspace's group, in whatever order creations, groups, inventories *)
(* and outages went before, but for a worker that reconciled an older one.  *)
THEOREM RowsFollow == Spec => []RowsFollowBrowser
  BY FollowedStarts, FollowsStep, Kept, Watched, Inventoried, PTL DEF Spec
=============================================================================
