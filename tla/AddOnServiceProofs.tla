--------------------------- MODULE AddOnServiceProofs ---------------------------
(***************************************************************************)
(* No orphans, nothing committed that is not done, and no data lost in an  *)
(* update, for any number of clients, add-ons, versions, images, volumes   *)
(* and routes, with failures and crashes at every step.                    *)
(*                                                                         *)
(* ServiceInv, the inductive invariant, has two halves.  Control says what *)
(* each goroutine knows by itself: which request, transaction, status, old *)
(* version, hooks and list of work it has at each point.  Work says what   *)
(* there is on the device at each point of the goroutine that has the      *)
(* transaction; it needs that there is only one, and so holds as long as   *)
(* no transaction began during the rollback of another.                    *)
(***************************************************************************)
EXTENDS AddOnService, SequenceTheorems, TLAPS

\* The hooks a transaction can have: those CreateAddOnRoutine has subscribed so
\* far, oldest first, or the one of configureAction.
H0 == <<>>
H1 == Append(H0, "manifest")
H2 == Append(H1, "images")
H3 == Append(H2, "stack")
H4 == Append(H3, "iam")
H5 == Append(H4, "routes")
HS == Append(H0, "stack")

\* Points outside a transaction, while the manifest is pulled, from there to the
\* last route, and of deleteAddOnResources.
Outside == {"idle", "validate", "begin"}
Pulling == {"remove", "fetch", "write", "check", "capable"}
Installing == Pulling \cup {"import", "deploy", "up", "permit", "publish"}
Removing == {"down", "unload", "unpublish", "revoke", "forget"}

\* Which operation brings a goroutine to which point.
RequestInv(c) ==
    /\ pc[c] # "idle" => req[c] \in Requests
    /\ pc[c] \in {"validate", "replace", "future", "configure", "reup", "prune", "reply"} =>
          req[c].op = "Update"
    /\ pc[c] \in Installing \cup {"create"} => req[c].op # "Delete"
    /\ pc[c] \in {"delete", "unmount"} => req[c].op = "Delete"
    /\ pc[c] \in Removing => req[c].op # "Create"

\* A transaction is open from InitializeTransaction to the end or to an error.
TxInv(c) ==
    tx[c] = IF pc[c] \in Outside THEN "none" ELSE IF pc[c] = "rollback" THEN "undoing" ELSE "open"

\* Tx.affected is set once, by the routine the request is for.
StatusInv(c) ==
    /\ pc[c] \in Outside \cup {"delete", "replace"} => affected[c] = "none"
    /\ pc[c] \in {"create", "remove", "fetch", "write", "check"} /\ req[c].op = "Create" =>
          affected[c] = "none"
    /\ affected[c] = "Installing" => req[c].op = "Create"
    /\ affected[c] = "Deleting" => req[c].op = "Delete"
    /\ affected[c] = "Configuring" =>
          pc[c] \in {"configure", "reup", "reply", "commit", "rollback"}
    /\ pc[c] \in {"configure", "reup"} => affected[c] = "Configuring"
    /\ pc[c] \in Removing \cup {"unmount", "commit"} /\ req[c].op = "Delete" =>
          affected[c] = "Deleting"
    /\ pc[c] \in Removing \cup Installing \cup {"create", "prune", "future"}
          /\ req[c].op = "Update" => affected[c] = "Updating"

\* The version that is to be deleted is one that GetAddOn has read.
OldInv(c) ==
    /\ pc[c] \in Removing \cup {"unmount", "future", "prune"} => old[c] \in Versions
    /\ pc[c] \in Installing \cup {"create"} /\ req[c].op = "Update" => old[c] \in Versions
    /\ pc[c] = "commit" /\ affected[c] = "Deleting" => old[c] \in Versions

\* The hooks that are subscribed at each point; a rollback has any first part.
HooksInv(c) ==
    /\ pc[c] \in Outside \cup Removing \cup {"create", "replace", "delete", "future", "configure",
                                         "unmount"} => hooks[c] = H0
    /\ pc[c] \in Pulling => hooks[c] = H1
    /\ pc[c] \in {"import", "deploy"} => hooks[c] = H2
    /\ pc[c] = "up" => hooks[c] = H3
    /\ pc[c] = "permit" => hooks[c] = H4
    /\ pc[c] \in {"publish", "prune"} => hooks[c] = H5
    /\ pc[c] = "reup" => hooks[c] = HS
    /\ pc[c] = "reply" => hooks[c] = IF affected[c] = "Configuring" THEN HS ELSE H5
    /\ hooks[c] \in {H0, H1, H2, H3, H4, H5, HS}
    /\ hooks[c] # H0 => req[c].op \in {"Create", "Update"}

\* The loops over images and routes work on those of the manifest.
TodoInv(c) ==
    /\ pc[c] \in {"check", "capable", "import"} => todo[c] \subseteq ImagesOf[A(c)][V(c)]
    /\ pc[c] = "publish" => todo[c] \subseteq RoutesOf[A(c)][V(c)]

ControlInv(c) ==
    /\ RequestInv(c) /\ TxInv(c) /\ StatusInv(c) /\ OldInv(c) /\ HooksInv(c) /\ TodoInv(c)

\* No two transactions are open or being undone.
OneAtWork == \A c, d \in Clients : tx[c] # "none" /\ tx[d] # "none" => c = d

\* What NoOrphans says of one add-on.
Whole(a) ==
    /\ stack[a] # Absent => manifest[a] = stack[a]
    /\ a \in iam => Readable(a)
    /\ \A id \in routes[a] : Readable(a) /\ id \in RoutesOf[a][manifest[a]]

\* An image that add-on a need not answer for.
Kept(i, a) == \E b \in AddOns : (b # a /\ Owns(b, i)) \/ LeftBy(b, i)
Foreign(a) == \A i \in images : Kept(i, a)

\* Nothing of the add-on but, perhaps, its manifest, images and volumes.
Bare(a) == a \notin leaked => stack[a] = Absent /\ a \notin iam /\ routes[a] = {}

\* CreateAddOnRoutine and configureAction, from the manifest to the commit.
InstallInv(c) ==
    LET a == A(c)
        v == V(c)
    IN  /\ pc[c] \in Pulling => Foreign(a)
        /\ pc[c] \in {"remove", "fetch"} => manifest[a] = Absent
        /\ pc[c] = "write" => manifest[a] = Corrupt
        /\ pc[c] \in Installing \ {"remove", "fetch", "write"} => manifest[a] = v
        /\ pc[c] \in {"check", "capable", "import", "deploy", "up"} => Bare(a)
        /\ pc[c] = "permit" => /\ Deployed(a, v)
                               /\ a \notin leaked => a \notin iam /\ routes[a] = {}
        /\ pc[c] = "publish" => /\ Deployed(a, v) /\ a \in iam
                                /\ RoutesOf[a][v] \subseteq routes[a] \cup todo[c]
        /\ pc[c] \in {"prune", "reply", "commit"}
              /\ affected[c] \notin {"Configuring", "Deleting"} =>
              Deployed(a, v) /\ a \in iam /\ RoutesOf[a][v] \subseteq routes[a]
        /\ pc[c] \in {"configure", "reup"} => manifest[a] = v
        /\ pc[c] \in {"reply", "commit"} /\ affected[c] = "Configuring" => Deployed(a, v)

\* deleteAddOnResources: what is gone at each point, and the manifest last.
RemoveInv(c) ==
    LET a == A(c)
        o == old[c]
    IN  /\ pc[c] \in Removing \cup {"unmount", "future"} => manifest[a] = o
        /\ pc[c] \in (Removing \ {"down"}) \cup {"unmount"} => stack[a] = Absent
        /\ pc[c] = "unload" => /\ ImagesOf[a][o] \cap images \subseteq todo[c]
                               /\ todo[c] \subseteq ImagesOf[a][o]
        /\ pc[c] \in {"unmount", "unpublish", "revoke", "forget"} =>
              ImagesOf[a][o] \cap images = {}
        /\ pc[c] \in {"unpublish", "revoke", "forget"} /\ req[c].op = "Delete" =>
              VolumesOf[a][o] \cap volumes[a] = {}
        /\ pc[c] = "unpublish" => RoutesOf[a][o] \cap routes[a] \subseteq todo[c]
        /\ pc[c] \in {"revoke", "forget"} => RoutesOf[a][o] \cap routes[a] = {}
        /\ pc[c] = "forget" => a \notin iam
        /\ pc[c] = "commit" /\ affected[c] = "Deleting" => Gone(a, o)

\* What is gone once the later hooks have run.
UndoInv(c) ==
    LET a == A(c)
        v == V(c)
    IN  pc[c] = "rollback" =>
        /\ hooks[c] \in {H2, H3, H4, H5} => manifest[a] = v
        /\ hooks[c] = H1 => Foreign(a)
        /\ a \notin leaked =>
            /\ hooks[c] \in {H1, H2, H3, H4} => routes[a] = {}
            /\ hooks[c] \in {H1, H2, H3} => a \notin iam
            /\ hooks[c] \in {H1, H2} => stack[a] = Absent

WorkInv(c) == InstallInv(c) /\ RemoveInv(c) /\ UndoInv(c)

\* NoOrphans without its proviso.
Tidy ==
    /\ \A a \in AddOns \ leaked : Whole(a)
    /\ \A i \in images : \E a \in AddOns : Owns(a, i) \/ LeftBy(a, i)

Work == OneAtWork /\ Tidy /\ \A c \in Clients : WorkInv(c)

--------------------------------------------------------------------------------
\* Lists of hooks and requests

\* What Append and SubSeq do to a list of hooks.
LEMMA LastHook ==
    ASSUME NEW s \in Seq(HookNames), NEW h \in HookNames
    PROVE  /\ Append(s, h) \in Seq(HookNames)
           /\ Len(Append(s, h)) = Len(s) + 1
           /\ Append(s, h)[Len(Append(s, h))] = h
           /\ SubSeq(Append(s, h), 1, Len(Append(s, h)) - 1) = s
  <1> DEFINE t == Append(s, h)
             u == SubSeq(t, 1, Len(t) - 1)
  <1>1. /\ t \in Seq(HookNames) /\ Len(t) = Len(s) + 1 /\ Len(s) \in Nat
        /\ \A i \in 1 .. Len(s) : t[i] = s[i] /\ s[i] \in HookNames
        /\ t[Len(s) + 1] = h
    BY AppendProperties, ElementOfSeq, LenProperties
  <1> HIDE DEF t
  <1>2. /\ u \in Seq(HookNames) /\ Len(u) = Len(s)
        /\ \A i \in 1 .. Len(s) : u[i] = t[i]
    <2>1. \A i \in 1 .. Len(t) - 1 : t[i] \in HookNames
      BY <1>1
    <2>2. /\ u \in Seq(HookNames) /\ Len(u) = (IF 1 <= Len(t) - 1 THEN Len(t) - 1 - 1 + 1 ELSE 0)
          /\ \A i \in 1 .. Len(t) - 1 - 1 + 1 : u[i] = t[1 + i - 1]
      BY <1>1, <2>1, SubSeqProperties
    <2> QED
      BY <1>1, <2>2
  <1>3. u = s
    BY <1>1, <1>2, SeqEqual
  <1> QED
    BY <1>1, <1>3 DEF t

\* The same with the length known.
LEMMA LastHookAt ==
    ASSUME NEW s \in Seq(HookNames), NEW h \in HookNames, NEW n \in Nat, Len(s) = n,
           NEW t, t = Append(s, h)
    PROVE  t \in Seq(HookNames) /\ Len(t) = n + 1 /\ t[n + 1] = h /\ SubSeq(t, 1, n) = s
  <1>1. Len(t) = n + 1 /\ t[Len(t)] = h /\ t \in Seq(HookNames) /\ SubSeq(t, 1, Len(t) - 1) = s
    BY LastHook
  <1>2. Len(t) - 1 = n
    BY <1>1
  <1> QED
    BY <1>1, <1>2

\* The lists of hooks: what runs next, and what is left then.
LEMMA HookLists ==
    /\ {H0, H1, H2, H3, H4, H5, HS} \subseteq Seq(HookNames)
    /\ Len(H0) = 0 /\ Len(H1) = 1 /\ Len(H2) = 2 /\ Len(H3) = 3 /\ Len(H4) = 4 /\ Len(H5) = 5
    /\ Len(HS) = 1
    /\ H1[1] = "manifest" /\ H2[2] = "images" /\ H3[3] = "stack" /\ H4[4] = "iam"
    /\ H5[5] = "routes" /\ HS[1] = "stack"
    /\ SubSeq(H1, 1, 0) = H0 /\ SubSeq(H2, 1, 1) = H1 /\ SubSeq(H3, 1, 2) = H2
    /\ SubSeq(H4, 1, 3) = H3 /\ SubSeq(H5, 1, 4) = H4 /\ SubSeq(HS, 1, 0) = H0
  <1>1. H0 \in Seq(HookNames) /\ Len(H0) = 0
    BY DEF H0
  <1>2. {"manifest", "images", "stack", "iam", "routes"} \subseteq HookNames
    BY DEF HookNames
  <1>3. H1 \in Seq(HookNames) /\ Len(H1) = 1 /\ H1[1] = "manifest" /\ SubSeq(H1, 1, 0) = H0
    BY <1>1, <1>2, LastHook DEF H1
  <1>4. H2 \in Seq(HookNames) /\ Len(H2) = 2 /\ H2[2] = "images" /\ SubSeq(H2, 1, 1) = H1
    <2>0. "images" \in HookNames /\ 1 \in Nat /\ H2 = Append(H1, "images")
      BY <1>2 DEF H2
    <2>1. /\ H2 \in Seq(HookNames) /\ Len(H2) = 1 + 1 /\ H2[1 + 1] = "images"
          /\ SubSeq(H2, 1, 1) = H1
      BY <1>3, <2>0, LastHookAt
    <2> QED
      BY <2>1
  <1>5. H3 \in Seq(HookNames) /\ Len(H3) = 3 /\ H3[3] = "stack" /\ SubSeq(H3, 1, 2) = H2
    <2>0. "stack" \in HookNames /\ 2 \in Nat /\ H3 = Append(H2, "stack")
      BY <1>2 DEF H3
    <2>1. /\ H3 \in Seq(HookNames) /\ Len(H3) = 2 + 1 /\ H3[2 + 1] = "stack"
          /\ SubSeq(H3, 1, 2) = H2
      BY <1>4, <2>0, LastHookAt
    <2> QED
      BY <2>1
  <1>6. H4 \in Seq(HookNames) /\ Len(H4) = 4 /\ H4[4] = "iam" /\ SubSeq(H4, 1, 3) = H3
    <2>0. "iam" \in HookNames /\ 3 \in Nat /\ H4 = Append(H3, "iam")
      BY <1>2 DEF H4
    <2>1. /\ H4 \in Seq(HookNames) /\ Len(H4) = 3 + 1 /\ H4[3 + 1] = "iam"
          /\ SubSeq(H4, 1, 3) = H3
      BY <1>5, <2>0, LastHookAt
    <2> QED
      BY <2>1
  <1>7. H5 \in Seq(HookNames) /\ Len(H5) = 5 /\ H5[5] = "routes" /\ SubSeq(H5, 1, 4) = H4
    <2>0. "routes" \in HookNames /\ 4 \in Nat /\ H5 = Append(H4, "routes")
      BY <1>2 DEF H5
    <2>1. /\ H5 \in Seq(HookNames) /\ Len(H5) = 4 + 1 /\ H5[4 + 1] = "routes"
          /\ SubSeq(H5, 1, 4) = H4
      BY <1>6, <2>0, LastHookAt
    <2> QED
      BY <2>1
  <1>8. HS \in Seq(HookNames) /\ Len(HS) = 1 /\ HS[1] = "stack" /\ SubSeq(HS, 1, 0) = H0
    BY <1>1, <1>2, LastHook DEF HS
  <1> QED
    BY <1>1, <1>3, <1>4, <1>5, <1>6, <1>7, <1>8

\* No two of the lists of hooks are equal.
LEMMA HookListsDistinct ==
    /\ H0 \notin {H1, H2, H3, H4, H5, HS} /\ H1 \notin {H2, H3, H4, H5, HS}
    /\ H2 \notin {H3, H4, H5, HS} /\ H3 \notin {H4, H5, HS} /\ H4 \notin {H5, HS} /\ H5 # HS
  <1>1. H1 # HS
    BY HookLists
  <1>2. /\ Len(H0) = 0 /\ Len(H1) = 1 /\ Len(H2) = 2 /\ Len(H3) = 3 /\ Len(H4) = 4 /\ Len(H5) = 5
        /\ Len(HS) = 1
    BY HookLists
  <1>3. 0 # 1 /\ 0 # 2 /\ 0 # 3 /\ 0 # 4 /\ 0 # 5 /\ 1 # 2 /\ 1 # 3 /\ 1 # 4 /\ 1 # 5
        /\ 2 # 3 /\ 2 # 4 /\ 2 # 5 /\ 3 # 4 /\ 3 # 5 /\ 4 # 5
    OBVIOUS
  <1>4. H0 # H1 /\ H0 # H2 /\ H0 # H3 /\ H0 # H4 /\ H0 # H5 /\ H0 # HS
    BY <1>2, <1>3, Zenon
  <1>5. H1 # H2 /\ H1 # H3 /\ H1 # H4 /\ H1 # H5
    BY <1>2, <1>3, Zenon
  <1>6. H2 # H3 /\ H2 # H4 /\ H2 # H5 /\ H2 # HS
    BY <1>2, <1>3, Zenon
  <1>7. H3 # H4 /\ H3 # H5 /\ H3 # HS /\ H4 # H5 /\ H4 # HS /\ H5 # HS
    BY <1>2, <1>3, Zenon
  <1> QED
    BY <1>1, <1>4, <1>5, <1>6, <1>7, Zenon

\* The fields of a request.
LEMMA RequestFields ==
    ASSUME NEW r \in Requests
    PROVE  /\ r.op \in {"Create", "Update", "Delete"} /\ r.addOn \in AddOns
           /\ r.op # "Delete" => r.version \in Versions
           /\ r # NoRequest
  <1>1. CASE r \in [op : {"Create", "Update"}, addOn : AddOns, version : Versions]
    BY <1>1 DEF NoRequest
  <1>2. CASE r \in [op : {"Delete"}, addOn : AddOns]
    BY <1>2 DEF NoRequest
  <1> QED
    BY <1>1, <1>2 DEF Requests

--------------------------------------------------------------------------------
\* Control: what a goroutine at each point is known to work on

\* TypeOK, but for the resources.
Locals ==
    /\ pc \in [Clients -> Points]
    /\ req \in [Clients -> Requests \cup {NoRequest}]
    /\ old \in [Clients -> 0 .. MaxVersion]
    /\ todo \in [Clients -> SUBSET (Images \cup RouteIds)]
    /\ tx \in [Clients -> {"none", "open", "undoing"}]
    /\ hooks \in [Clients -> Seq(HookNames)]
    /\ affected \in [Clients -> Operations]
    /\ overlap \in BOOLEAN
    /\ leaked \in SUBSET AddOns

Control == Locals /\ \A c \in Clients : ControlInv(c)

\* The other goroutines stay where they are.
Alone(c) ==
    \A d \in Clients : d # c =>
        /\ pc'[d] = pc[d] /\ req'[d] = req[d] /\ old'[d] = old[d] /\ todo'[d] = todo[d]
        /\ tx'[d] = tx[d] /\ hooks'[d] = hooks[d] /\ affected'[d] = affected[d]

\* A step of one goroutine leaves the control of the others as it is.
LEMMA ControlOf ==
    ASSUME Control, NEW c \in Clients, Locals', Alone(c), ControlInv(c)'
    PROVE  Control'
  <1>1. ASSUME NEW d \in Clients, d # c PROVE ControlInv(d)'
    BY <1>1 DEF Control, Alone, ControlInv, RequestInv, TxInv, StatusInv, OldInv, HooksInv,
       TodoInv, A, V
  <1> QED
    BY <1>1 DEF Control

\* Control holds before the first request.
LEMMA InitControl == Init => Control
  <1> SUFFICES ASSUME Init PROVE Control
    OBVIOUS
  <1>1. Locals
    <2>1. <<>> \in Seq(HookNames)
      BY HookLists DEF H0
    <2>2. 0 \in 0 .. MaxVersion
      BY AddOnResourcesAssumption
    <2> QED
      BY <2>1, <2>2 DEF Init, Locals, Points, Operations, Absent
  <1>2. ASSUME NEW c \in Clients PROVE ControlInv(c)
    BY HookListsDistinct DEF Init, ControlInv, RequestInv, TxInv, StatusInv, OldInv, HooksInv,
       TodoInv,
        Outside, Pulling, Installing, Removing, H0
  <1> QED
    BY <1>1, <1>2 DEF Control

\* The handler returns with an error, and Rollback begins.
LEMMA FailControl ==
    ASSUME Control, NEW c \in Clients, tx[c] = "open", Fail(c)
    PROVE  Control' /\ Alone(c) /\ pc'[c] = "rollback" /\ tx'[c] = "undoing"
  <1>1. pc[c] \notin Outside \cup {"rollback"} /\ ControlInv(c)
    BY DEF Control, ControlInv, TxInv
  <1>2. Locals' /\ Alone(c)
    BY DEF Control, Locals, Alone, Fail, Goto, Todo, Points
  <1>3. /\ pc'[c] = "rollback" /\ tx'[c] = "undoing" /\ todo'[c] = {}
        /\ UNCHANGED <<req, old, hooks, affected, overlap, leaked>>
    BY DEF Control, Locals, Fail, Goto, Todo
  <1>4. ControlInv(c)'
    BY <1>1, <1>3 DEF ControlInv, RequestInv, TxInv, StatusInv, OldInv, HooksInv, TodoInv,
       Outside, Pulling, Installing, Removing
  <1> QED
    BY <1>2, <1>3, <1>4, ControlOf

\* The goroutine is done with its request.
LEMMA ReturnControl ==
    ASSUME Control, NEW c \in Clients, Return(c)
    PROVE  Control' /\ Alone(c) /\ pc'[c] = "idle" /\ tx'[c] = "none"
  <1>1. <<>> \in Seq(HookNames) /\ 0 \in 0 .. MaxVersion /\ H0 = <<>>
    BY HookLists, AddOnResourcesAssumption DEF H0
  <1>2. Locals' /\ Alone(c)
    BY <1>1 DEF Control, Locals, Alone, Return, Goto, Todo, Points, Operations, Absent
  <1>3. /\ pc'[c] = "idle" /\ tx'[c] = "none" /\ hooks'[c] = H0 /\ affected'[c] = "none"
        /\ req'[c] = NoRequest
    BY <1>1 DEF Control, Locals, Return, Goto
  <1>4. ControlInv(c)'
    BY <1>3 DEF ControlInv, RequestInv, TxInv, StatusInv, OldInv, HooksInv, TodoInv, Outside,
       Pulling, Installing, Removing
  <1> QED
    BY <1>2, <1>3, <1>4, ControlOf

\* A step that goes on to point p.
LEMMA ContinueControl ==
    ASSUME Control, NEW c \in Clients, NEW p \in Points, Continue(c, p),
           todo' \in [Clients -> SUBSET (Images \cup RouteIds)],
           hooks' \in [Clients -> Seq(HookNames)],
           \A d \in Clients : d # c => todo'[d] = todo[d] /\ hooks'[d] = hooks[d],
           ControlInv(c)'
    PROVE  Control' /\ Alone(c)
  <1>1. Locals' /\ Alone(c)
    BY DEF Control, Locals, Alone, Continue, Goto
  <1> QED
    BY <1>1, ControlOf

\* Where a step that subscribes no hook and keeps its list of work goes on.
LEMMA ProceedControl ==
    ASSUME Control, NEW c \in Clients, NEW p, Proceed(c, p),
           \/ pc[c] = "remove" /\ p = "fetch"
           \/ pc[c] = "fetch" /\ p = "write"
           \/ pc[c] = "import" /\ p = "deploy"
           \/ pc[c] = "publish" /\ p = (IF req[c].op = "Update" THEN "prune" ELSE "commit")
           \/ pc[c] = "future" /\ p = "down"
           \/ pc[c] = "reup" /\ p = "reply"
           \/ pc[c] = "prune" /\ p = "reply"
           \/ pc[c] = "reply" /\ p = "commit"
           \/ pc[c] = "unload" /\ req[c].op = "Delete" /\ p = "unmount"
           \/ pc[c] = "unpublish" /\ p = "revoke"
           \/ pc[c] = "revoke" /\ p = "forget"
           \/ pc[c] = "forget" /\ p = (IF req[c].op = "Update" THEN "create" ELSE "commit")
    PROVE  Control' /\ Alone(c) /\ pc'[c] = p
  <1>1. /\ pc'[c] = p /\ p \in Points /\ ControlInv(c)
        /\ UNCHANGED <<req, old, todo, tx, hooks, affected, overlap, leaked>>
    BY DEF Control, Locals, Proceed, Continue, Goto, Points
  <1>2. req[c] \in Requests /\ req[c].op \in {"Create", "Update", "Delete"}
    BY <1>1, RequestFields DEF ControlInv, RequestInv
  <1>3. RequestInv(c)'
    BY <1>1, <1>2 DEF ControlInv, RequestInv, Pulling, Installing, Removing
  <1>4. TxInv(c)'
    BY <1>1 DEF ControlInv, TxInv, Outside
  <1>5. StatusInv(c)'
    BY <1>1, <1>2 DEF ControlInv, RequestInv, StatusInv, Outside, Pulling, Installing, Removing
  <1>6. OldInv(c)'
    BY <1>1, <1>2 DEF ControlInv, RequestInv, StatusInv, OldInv, Pulling, Installing, Removing
  <1>7. HooksInv(c)'
    BY <1>1, <1>2 DEF ControlInv, RequestInv, StatusInv, HooksInv, Outside, Pulling,
       Installing, Removing
  <1>8. TodoInv(c)'
    BY <1>1 DEF TodoInv
  <1>9. ControlInv(c)'
    BY <1>3, <1>4, <1>5, <1>6, <1>7, <1>8 DEF ControlInv
  <1> QED
    BY <1>1, <1>9, ContinueControl DEF Proceed, Control, Locals

\* A loop has dealt with one more image or route.
LEMMA LoopControl ==
    ASSUME Control, NEW c \in Clients, NEW s, s \subseteq todo[c], Todo(c, s),
           Continue(c, pc[c]), UNCHANGED hooks
    PROVE  Control' /\ Alone(c) /\ pc'[c] = pc[c] /\ todo'[c] = s
  <1>1. /\ pc[c] \in Points /\ pc'[c] = pc[c] /\ todo'[c] = s
        /\ todo' \in [Clients -> SUBSET (Images \cup RouteIds)]
        /\ \A d \in Clients : d # c => todo'[d] = todo[d]
        /\ UNCHANGED <<req, old, tx, hooks, affected, overlap, leaked>>
    BY DEF Control, Locals, Todo, Continue, Goto
  <1>2. ControlInv(c)'
    BY <1>1 DEF Control, ControlInv, RequestInv, TxInv, StatusInv, OldInv, HooksInv, TodoInv, A, V
  <1> QED
    BY <1>1, <1>2, ContinueControl DEF Control, Locals

\* A routine subscribes its next hook.
LEMMA SubscribeControl ==
    ASSUME Control, NEW c \in Clients, NEW h, NEW p, Subscribe(c, h), Continue(c, p),
           todo' \in [Clients -> SUBSET (Images \cup RouteIds)],
           \A d \in Clients : d # c => todo'[d] = todo[d], TodoInv(c)',
           \/ pc[c] = "create" /\ h = "manifest" /\ p = "remove"
           \/ pc[c] = "capable" /\ h = "images" /\ p = "import"
           \/ pc[c] = "deploy" /\ h = "stack" /\ p = "up"
           \/ pc[c] = "up" /\ h = "iam" /\ p = "permit"
           \/ pc[c] = "permit" /\ h = "routes" /\ p = "publish"
           \/ pc[c] = "configure" /\ h = "stack" /\ p = "reup"
    PROVE  Control' /\ Alone(c) /\ pc'[c] = p
  <1>1. /\ pc'[c] = p /\ p \in Points /\ ControlInv(c) /\ hooks'[c] = Append(hooks[c], h)
        /\ UNCHANGED <<req, old, tx, affected, overlap, leaked>>
    BY DEF Control, Locals, Continue, Goto, Points, Subscribe
  <1>2. req[c] \in Requests /\ req[c].op \in {"Create", "Update", "Delete"}
    BY <1>1, RequestFields DEF ControlInv, RequestInv
  <1>3. /\ p = "remove" => hooks'[c] = H1
        /\ p = "import" => hooks'[c] = H2
        /\ p = "up" => hooks'[c] = H3
        /\ p = "permit" => hooks'[c] = H4
        /\ p = "publish" => hooks'[c] = H5
        /\ p = "reup" => hooks'[c] = HS
    BY <1>1 DEF ControlInv, HooksInv, Outside, Pulling, Removing, H1, H2, H3, H4, H5, HS
  <1>4. RequestInv(c)'
    BY <1>1, <1>2 DEF ControlInv, RequestInv, Pulling, Installing, Removing
  <1>5. TxInv(c)'
    BY <1>1 DEF ControlInv, TxInv, Outside
  <1>6. StatusInv(c)'
    BY <1>1, <1>2 DEF ControlInv, RequestInv, StatusInv, Outside, Pulling, Installing, Removing
  <1>7. OldInv(c)'
    BY <1>1, <1>2 DEF ControlInv, RequestInv, StatusInv, OldInv, Pulling, Installing, Removing
  <1>8. HooksInv(c)'
    BY <1>1, <1>2, <1>3 DEF ControlInv, RequestInv, HooksInv, Outside, Pulling, Installing,
       Removing
  <1>9. ControlInv(c)'
    BY <1>4, <1>5, <1>6, <1>7, <1>8 DEF ControlInv
  <1>10. hooks' \in [Clients -> Seq(HookNames)] /\ \A d \in Clients : d # c => hooks'[d] = hooks[d]
    <2>1. hooks'[c] \in Seq(HookNames)
      BY <1>3, HookLists
    <2> QED
      BY <2>1 DEF Control, Locals, Subscribe
  <1> QED
    BY <1>1, <1>9, <1>10, ContinueControl

\* A goroutine that is not idle has a request.
LEMMA WorksOn ==
    ASSUME Control, NEW c \in Clients, pc[c] # "idle"
    PROVE  /\ req[c] \in Requests /\ req[c].op \in {"Create", "Update", "Delete"}
           /\ A(c) \in AddOns /\ (req[c].op # "Delete" => V(c) \in Versions)
  BY RequestFields DEF Control, ControlInv, RequestInv, A, V

--------------------------------------------------------------------------------
\* Resources

ServiceInv == Control /\ ResourcesTypeOK /\ (~ overlap => Work)

\* A goroutine without a transaction claims nothing of the device.
LEMMA OutsideWork ==
    ASSUME NEW c \in Clients, pc[c] \in Outside
    PROVE  WorkInv(c)
  BY DEF Outside, WorkInv, InstallInv, RemoveInv, UndoInv, Pulling, Installing, Removing

\* A step of the goroutine that has the transaction to itself.
LEMMA WorkStep ==
    ASSUME ServiceInv, NEW c \in Clients, tx[c] # "none", Control', Alone(c), ResourcesTypeOK',
           overlap' = overlap, ~ overlap => Tidy' /\ WorkInv(c)'
    PROVE  ServiceInv'
  <1> SUFFICES ASSUME ~ overlap PROVE Work'
    BY DEF ServiceInv
  <1>1. OneAtWork /\ Control
    BY DEF ServiceInv, Work
  <1>2. ASSUME NEW d \in Clients, d # c PROVE tx'[d] = "none" /\ WorkInv(d)'
    <2>1. tx[d] = "none" /\ tx'[d] = "none" /\ pc'[d] = pc[d]
      BY <1>1, <1>2 DEF OneAtWork, Alone
    <2>2. pc[d] \in Outside
      BY <1>1, <2>1 DEF Control, ControlInv, TxInv
    <2>3. WorkInv(d)'
      BY <2>1, <2>2 DEF Outside, WorkInv, InstallInv, RemoveInv, UndoInv, Pulling, Installing,
         Removing
    <2> QED
      BY <2>1, <2>3
  <1>3. OneAtWork'
    BY <1>2 DEF OneAtWork
  <1> QED
    BY <1>2, <1>3 DEF Work

\* A failure: what the hooks will rely on is all there is to show.
LEMMA FailInv ==
    ASSUME ServiceInv, NEW c \in Clients, tx[c] = "open", Fail(c), ResourcesTypeOK',
           ~ overlap => Tidy' /\ UndoInv(c)'
    PROVE  ServiceInv'
  <1>1. Control' /\ Alone(c) /\ pc'[c] = "rollback" /\ overlap' = overlap
    BY FailControl DEF ServiceInv, Fail
  <1>2. InstallInv(c)' /\ RemoveInv(c)'
    BY <1>1 DEF InstallInv, RemoveInv, Pulling, Installing, Removing
  <1> QED
    BY <1>1, <1>2, WorkStep DEF WorkInv

\* With no hook of CreateAddOnRoutine subscribed they rely on nothing.
LEMMA FailEarly ==
    ASSUME ServiceInv, NEW c \in Clients, tx[c] = "open", hooks[c] \in {H0, HS}, Fail(c),
           ResourcesTypeOK', ~ overlap => Tidy'
    PROVE  ServiceInv'
  <1>1. hooks'[c] \in {H0, HS}
    BY DEF Fail
  <1>2. UndoInv(c)'
    BY <1>1, HookListsDistinct DEF UndoInv
  <1> QED
    BY <1>2, FailInv

\* The manifest of an add-on of which there is nothing else may come and go.
LEMMA TidyManifest ==
    ASSUME ResourcesTypeOK, Tidy, NEW a \in AddOns, NEW m, SetManifest(a, m), Bare(a), Foreign(a),
           UNCHANGED <<stack, images, iam, routes, leaked>>
    PROVE  Tidy' /\ Foreign(a)' /\ Bare(a)'
  <1>1. \A b \in AddOns : b # a => manifest'[b] = manifest[b]
    BY DEF SetManifest, ResourcesTypeOK
  <1>2. Bare(a)'
    BY DEF Bare
  <1>3. ASSUME NEW b \in AddOns \ leaked' PROVE Whole(b)'
    <2>1. CASE b = a
      BY <1>2, <1>3, <2>1 DEF Bare, Whole
    <2>2. CASE b # a
      BY <1>1, <1>3, <2>2 DEF Tidy, Whole, Readable
    <2> QED
      BY <2>1, <2>2
  <1>4. ASSUME NEW i \in images' PROVE Kept(i, a)'
    <2>1. PICK b \in AddOns : (b # a /\ Owns(b, i)) \/ LeftBy(b, i)
      BY <1>4 DEF Foreign, Kept
    <2> QED
      BY <1>1, <2>1 DEF Kept, Owns, LeftBy, Readable
  <1> QED
    BY <1>2, <1>3, <1>4 DEF Tidy, Foreign, Kept

\* Removing anything but a manifest leaves no orphan.
LEMMA TidyShrink ==
    ASSUME Tidy, UNCHANGED manifest, images' \subseteq images, iam' \subseteq iam, leaked \subseteq leaked',
           \A b \in AddOns : stack'[b] \in {stack[b], Absent} /\ routes'[b] \subseteq routes[b]
    PROVE  Tidy'
  <1>1. ASSUME NEW b \in AddOns \ leaked' PROVE Whole(b)'
    BY <1>1 DEF Tidy, Whole, Readable
  <1>2. ASSUME NEW i \in images' PROVE \E b \in AddOns : (Owns(b, i) \/ LeftBy(b, i))'
    <2>1. PICK b \in AddOns : Owns(b, i) \/ LeftBy(b, i)
      BY <1>2 DEF Tidy
    <2> QED
      BY <2>1 DEF Owns, LeftBy, Readable
  <1> QED
    BY <1>1, <1>2 DEF Tidy

\* Nor does adding what the manifest names.
LEMMA TidyGrow ==
    ASSUME Tidy, NEW a \in AddOns, manifest[a] \in Versions, UNCHANGED <<manifest, leaked>>,
           images' \subseteq images \cup ImagesOf[a][manifest[a]], iam' \subseteq iam \cup {a},
           stack'[a] \in {stack[a], manifest[a]},
           routes'[a] \subseteq routes[a] \cup RoutesOf[a][manifest[a]],
           \A b \in AddOns : b # a => stack'[b] = stack[b] /\ routes'[b] = routes[b]
    PROVE  Tidy'
  <1>1. ASSUME NEW b \in AddOns \ leaked' PROVE Whole(b)'
    BY <1>1 DEF Tidy, Whole, Readable
  <1>2. ASSUME NEW i \in images' PROVE \E b \in AddOns : (Owns(b, i) \/ LeftBy(b, i))'
    <2>1. CASE i \in images
      <3>1. PICK b \in AddOns : Owns(b, i) \/ LeftBy(b, i)
        BY <2>1 DEF Tidy
      <3> QED
        BY <3>1 DEF Owns, LeftBy, Readable
    <2>2. CASE i \in ImagesOf[a][manifest[a]]
      BY <2>2 DEF Owns, Readable
    <2> QED
      BY <1>2, <2>1, <2>2
  <1> QED
    BY <1>1, <1>2 DEF Tidy

\* An add-on without a readable manifest is bare, and no image is its own.
LEMMA BareAndForeign ==
    ASSUME ResourcesTypeOK, Tidy, NEW a \in AddOns, manifest[a] \notin Versions
    PROVE  Bare(a) /\ Foreign(a)
  <1>1. stack[a] # Absent => stack[a] \in Versions
    BY AddOnResourcesAssumption DEF ResourcesTypeOK, Versions, Absent
  <1>2. Bare(a)
    BY <1>1 DEF Tidy, Whole, Bare, Readable
  <1>3. Foreign(a)
    BY DEF Tidy, Foreign, Kept, Owns, Readable
  <1> QED
    BY <1>2, <1>3

\* No manifest and a corrupt one are no versions.
LEMMA NotVersions == Absent \notin Versions /\ Corrupt \notin Versions /\ Absent # Corrupt
  BY AddOnResourcesAssumption DEF Absent, Corrupt, Versions

\* A routine turns to its next list of images or routes.
LEMMA TodoControl ==
    ASSUME Control, NEW c \in Clients, NEW p, NEW s, s \subseteq Images \cup RouteIds,
           Todo(c, s), Continue(c, p), UNCHANGED hooks,
           p = "check" => s \subseteq ImagesOf[A(c)][V(c)],
           \/ pc[c] = "write" /\ p = "check"
           \/ pc[c] = "down" /\ p = "unload"
           \/ pc[c] = "unload" /\ req[c].op = "Update" /\ p = "unpublish"
           \/ pc[c] = "unmount" /\ p = "unpublish"
    PROVE  Control' /\ Alone(c) /\ pc'[c] = p /\ todo'[c] = s
  <1>1. /\ pc'[c] = p /\ p \in Points /\ ControlInv(c) /\ todo'[c] = s
        /\ todo' \in [Clients -> SUBSET (Images \cup RouteIds)]
        /\ \A d \in Clients : d # c => todo'[d] = todo[d]
        /\ UNCHANGED <<req, old, tx, hooks, affected, overlap, leaked>>
    BY DEF Control, Locals, Continue, Goto, Points, Todo
  <1>2. req[c] \in Requests /\ req[c].op \in {"Create", "Update", "Delete"}
    BY <1>1, RequestFields DEF ControlInv, RequestInv
  <1>3. RequestInv(c)'
    BY <1>1, <1>2 DEF ControlInv, RequestInv, Pulling, Installing, Removing
  <1>4. TxInv(c)'
    BY <1>1 DEF ControlInv, TxInv, Outside
  <1>5. StatusInv(c)'
    BY <1>1, <1>2 DEF ControlInv, RequestInv, StatusInv, Outside, Pulling, Installing, Removing
  <1>6. OldInv(c)'
    BY <1>1, <1>2 DEF ControlInv, RequestInv, StatusInv, OldInv, Pulling, Installing, Removing
  <1>7. HooksInv(c)'
    BY <1>1, <1>2 DEF ControlInv, RequestInv, StatusInv, HooksInv, Outside, Pulling,
       Installing, Removing
  <1>8. TodoInv(c)'
    BY <1>1 DEF TodoInv, A, V
  <1>9. ControlInv(c)'
    BY <1>3, <1>4, <1>5, <1>6, <1>7, <1>8 DEF ControlInv
  <1> QED
    BY <1>1, <1>9, ContinueControl DEF Control, Locals

\* A routine has found out what it is to do to the add-on, and to which version.
LEMMA ContextControl ==
    ASSUME Control, NEW c \in Clients, NEW p, NEW o, NEW v \in 0 .. MaxVersion,
           Goto(c, p), SetAddOnContext(c, o), old' = [old EXCEPT ![c] = v],
           UNCHANGED <<req, todo, tx, hooks, overlap, leaked>>,
           \/ pc[c] = "check" /\ p = "capable" /\ o = "Installing" /\ v = old[c]
           \/ pc[c] = "replace" /\ p = "configure" /\ o = "Configuring"
           \/ pc[c] = "replace" /\ p = "future" /\ o = "Updating" /\ v \in Versions
           \/ pc[c] = "delete" /\ p = "down" /\ o = "Deleting" /\ v \in Versions
    PROVE  Control' /\ Alone(c) /\ pc'[c] = p /\ old'[c] = v
  <1>1. /\ pc'[c] = p /\ p \in Points /\ ControlInv(c) /\ old'[c] = v
        /\ affected'[c] = IF affected[c] = "none" THEN o ELSE affected[c]
        /\ UNCHANGED <<req, todo, tx, hooks, overlap, leaked>>
    BY DEF Control, Locals, Goto, Points, SetAddOnContext
  <1>2. req[c] \in Requests /\ req[c].op \in {"Create", "Update", "Delete"}
    BY <1>1, RequestFields DEF ControlInv, RequestInv
  <1>3. /\ pc[c] = "check" /\ req[c].op = "Create" => affected'[c] = "Installing"
        /\ pc[c] = "check" /\ req[c].op = "Update" => affected'[c] = "Updating"
        /\ pc[c] \in {"replace", "delete"} => affected'[c] = o
    BY <1>1 DEF ControlInv, StatusInv, Installing, Pulling
  <1>4. RequestInv(c)'
    BY <1>1, <1>2 DEF ControlInv, RequestInv, Pulling, Installing, Removing
  <1>5. TxInv(c)'
    BY <1>1 DEF ControlInv, TxInv, Outside
  <1>6. StatusInv(c)'
    BY <1>1, <1>2, <1>3 DEF ControlInv, RequestInv, StatusInv, Outside, Pulling, Installing,
       Removing
  <1>7. OldInv(c)'
    BY <1>1, <1>2 DEF ControlInv, RequestInv, OldInv, Pulling, Installing, Removing
  <1>8. HooksInv(c)'
    BY <1>1, <1>2 DEF ControlInv, RequestInv, HooksInv, Outside, Pulling, Installing, Removing
  <1>9. TodoInv(c)'
    BY <1>1 DEF ControlInv, TodoInv, A, V
  <1>10. Locals' /\ Alone(c)
    BY <1>1 DEF Control, Locals, Alone, Goto, SetAddOnContext, Operations
  <1>11. ControlInv(c)'
    BY <1>4, <1>5, <1>6, <1>7, <1>8, <1>9 DEF ControlInv
  <1> QED
    BY <1>1, <1>10, <1>11, ControlOf

\* A request comes in, or an update passes its first check.
LEMMA RequestControl ==
    ASSUME Control, NEW c \in Clients, NEW p, Goto(c, p), req' = [req EXCEPT ![c] = req'[c]],
           UNCHANGED <<old, todo, tx, hooks, affected, overlap, leaked>>,
           req'[c] \in Requests,
           \/ pc[c] = "idle" /\ p = IF req'[c].op = "Update" THEN "validate" ELSE "begin"
           \/ pc[c] = "validate" /\ p = "begin"
    PROVE  Control' /\ Alone(c) /\ pc'[c] \in Outside
  <1>1. /\ pc'[c] = p /\ p \in {"validate", "begin"} /\ ControlInv(c)
        /\ UNCHANGED <<old, todo, tx, hooks, affected, overlap, leaked>>
    BY DEF Control, Locals, Goto
  <1>2. hooks[c] = H0
    BY <1>1 DEF ControlInv, HooksInv, Outside
  <1>3. ControlInv(c)'
    BY <1>1, <1>2 DEF ControlInv, RequestInv, TxInv, StatusInv, OldInv, HooksInv, TodoInv,
       Outside, Pulling, Installing, Removing
  <1>4. Locals' /\ Alone(c)
    <2>1. req' \in [Clients -> Requests \cup {NoRequest}] /\ \A d \in Clients : d # c => req'[d] = req[d]
      BY DEF Control, Locals
    <2>2. pc' \in [Clients -> Points] /\ \A d \in Clients : d # c => pc'[d] = pc[d]
      BY <1>1 DEF Control, Locals, Goto, Points
    <2> QED
      BY <1>1, <2>1, <2>2 DEF Control, Locals, Alone
  <1> QED
    BY <1>1, <1>3, <1>4, ControlOf DEF Outside

\* A transaction begins.
LEMMA BeginControl ==
    ASSUME Control, NEW c \in Clients, InitializeTransaction(c)
    PROVE  /\ Control' /\ Alone(c) /\ pc'[c] \in {"create", "replace", "delete"}
  <1> DEFINE p == CASE req[c].op = "Create" -> "create"
                    [] req[c].op = "Update" -> "replace"
                    [] req[c].op = "Delete" -> "delete"
  <1>1. pc[c] = "begin" /\ ControlInv(c) /\ Goto(c, p)
    BY DEF Control, InitializeTransaction, At
  <1>2. req[c] \in Requests /\ req[c].op \in {"Create", "Update", "Delete"}
    BY <1>1, RequestFields DEF ControlInv, RequestInv
  <1>3. /\ req[c].op = "Create" => p = "create"
        /\ req[c].op = "Update" => p = "replace"
        /\ req[c].op = "Delete" => p = "delete"
    OBVIOUS
  <1> HIDE DEF p
  <1>4. p \in {"create", "replace", "delete"}
    BY <1>2, <1>3
  <1>5. /\ pc'[c] = p /\ tx'[c] = "open" /\ overlap' \in BOOLEAN
        /\ UNCHANGED <<req, old, todo, hooks, affected, leaked>>
    BY <1>1 DEF Control, Locals, Goto, InitializeTransaction
  <1>6. hooks[c] = H0 /\ affected[c] = "none"
    BY <1>1 DEF ControlInv, HooksInv, StatusInv, Outside
  <1>7. RequestInv(c)' /\ TxInv(c)'
    BY <1>2, <1>3, <1>4, <1>5 DEF RequestInv, TxInv, Outside, Pulling, Installing, Removing
  <1>8. StatusInv(c)' /\ OldInv(c)'
    BY <1>2, <1>3, <1>4, <1>5, <1>6 DEF StatusInv, OldInv, Outside, Pulling, Installing, Removing
  <1>9. HooksInv(c)' /\ TodoInv(c)'
    BY <1>4, <1>5, <1>6 DEF HooksInv, TodoInv, Outside, Pulling, Installing, Removing
  <1>10. Locals' /\ Alone(c)
    <2>1. pc' \in [Clients -> Points] /\ \A d \in Clients : d # c => pc'[d] = pc[d]
      BY <1>1, <1>4 DEF Control, Locals, Goto, Points
    <2>2. /\ tx' \in [Clients -> {"none", "open", "undoing"}]
          /\ \A d \in Clients : d # c => tx'[d] = tx[d]
      BY DEF Control, Locals, InitializeTransaction
    <2> QED
      BY <1>5, <2>1, <2>2 DEF Control, Locals, Alone
  <1> QED
    BY <1>4, <1>5, <1>7, <1>8, <1>9, <1>10, ControlOf DEF ControlInv

\* A hook runs: the last one that was subscribed, and the list is shorter then.
LEMMA HookControl ==
    ASSUME Control, NEW c \in Clients, RunHook(c)
    PROVE  /\ Control' /\ Alone(c) /\ pc[c] = "rollback" /\ pc'[c] = "rollback" /\ tx[c] = "undoing"
           /\ A(c)' = A(c) /\ V(c)' = V(c) /\ overlap' = overlap
           /\ A(c) \in AddOns /\ V(c) \in Versions
           /\ \/ hooks[c] = H1 /\ hooks'[c] = H0 /\ UndoManifest(A(c))
              \/ hooks[c] = H2 /\ hooks'[c] = H1 /\ UndoImages(A(c), V(c))
              \/ hooks[c] = H3 /\ hooks'[c] = H2 /\ UndoStack(A(c), V(c))
              \/ hooks[c] = H4 /\ hooks'[c] = H3 /\ UndoPermission(A(c))
              \/ hooks[c] = H5 /\ hooks'[c] = H4 /\ UndoRoutes(A(c), V(c))
              \/ hooks[c] = HS /\ hooks'[c] = H0 /\ UndoStack(A(c), V(c))
  <1> DEFINE n == Len(hooks[c])
             h == hooks[c][n]
  <1>1. /\ pc[c] = "rollback" /\ ControlInv(c) /\ n > 0 /\ Undo(h, A(c), V(c))
        /\ hooks' = [hooks EXCEPT ![c] = SubSeq(@, 1, n - 1)]
        /\ UNCHANGED <<pc, req, old, todo, tx, affected, overlap>>
    BY DEF Control, RunHook, At
  <1>2. hooks'[c] = SubSeq(hooks[c], 1, n - 1)
    BY <1>1 DEF Control, Locals
  <1>3. hooks[c] \in {H1, H2, H3, H4, H5, HS}
    BY <1>1, HookLists DEF ControlInv, HooksInv
  <1>4. \/ hooks[c] = H1 /\ hooks'[c] = H0 /\ h = "manifest"
        \/ hooks[c] = H2 /\ hooks'[c] = H1 /\ h = "images"
        \/ hooks[c] = H3 /\ hooks'[c] = H2 /\ h = "stack"
        \/ hooks[c] = H4 /\ hooks'[c] = H3 /\ h = "iam"
        \/ hooks[c] = H5 /\ hooks'[c] = H4 /\ h = "routes"
        \/ hooks[c] = HS /\ hooks'[c] = H0 /\ h = "stack"
    <2>1. CASE hooks[c] = H1
      BY <1>2, <2>1, HookLists
    <2>2. CASE hooks[c] = H2
      BY <1>2, <2>2, HookLists
    <2>3. CASE hooks[c] = H3
      BY <1>2, <2>3, HookLists
    <2>4. CASE hooks[c] = H4
      BY <1>2, <2>4, HookLists
    <2>5. CASE hooks[c] = H5
      BY <1>2, <2>5, HookLists
    <2>6. CASE hooks[c] = HS
      BY <1>2, <2>6, HookLists
    <2> QED
      BY <1>3, <2>1, <2>2, <2>3, <2>4, <2>5, <2>6
  <1> HIDE DEF h, n
  <1>5. hooks'[c] \in {H0, H1, H2, H3, H4, HS} /\ hooks'[c] \in Seq(HookNames)
    <2>1. hooks'[c] \in {H0, H1, H2, H3, H4, HS}
      BY <1>4
    <2>2. {H0, H1, H2, H3, H4, H5, HS} \subseteq Seq(HookNames)
      BY HookLists
    <2> QED
      BY <2>1, <2>2
  <1>6. req[c] \in Requests /\ req[c].op \in {"Create", "Update"}
    BY <1>1, <1>3, HookListsDistinct DEF ControlInv, RequestInv, HooksInv
  <1>7. A(c) \in AddOns /\ V(c) \in Versions /\ A(c)' = A(c) /\ V(c)' = V(c)
    BY <1>1, <1>6, RequestFields DEF A, V
  <1>8. ControlInv(c)'
    BY <1>1, <1>5, <1>6 DEF ControlInv, RequestInv, TxInv, StatusInv, OldInv, HooksInv,
       TodoInv, Outside,
        Pulling, Installing, Removing
  <1>9. leaked' \in SUBSET AddOns
    <2>1. leaked' \in {leaked, leaked \cup {A(c)}}
      BY <1>1 DEF Undo, UndoManifest, UndoImages, UndoStack, UndoPermission, UndoRoutes, Leak
    <2> QED
      BY <1>7, <2>1 DEF Control, Locals
  <1>10. Locals' /\ Alone(c)
    BY <1>1, <1>5, <1>9 DEF Control, Locals, Alone
  <1>11. tx[c] = "undoing"
    BY <1>1 DEF ControlInv, TxInv, Outside
  <1>12. \/ hooks[c] = H1 /\ hooks'[c] = H0 /\ UndoManifest(A(c))
         \/ hooks[c] = H2 /\ hooks'[c] = H1 /\ UndoImages(A(c), V(c))
         \/ hooks[c] = H3 /\ hooks'[c] = H2 /\ UndoStack(A(c), V(c))
         \/ hooks[c] = H4 /\ hooks'[c] = H3 /\ UndoPermission(A(c))
         \/ hooks[c] = H5 /\ hooks'[c] = H4 /\ UndoRoutes(A(c), V(c))
         \/ hooks[c] = HS /\ hooks'[c] = H0 /\ UndoStack(A(c), V(c))
    BY <1>1, <1>4 DEF Undo
  <1> QED
    BY <1>1, <1>7, <1>8, <1>10, <1>11, <1>12, ControlOf

\* What the invariant says of a goroutine inside a transaction.
LEMMA AtWork ==
    ASSUME ServiceInv, NEW c \in Clients, pc[c] \notin Outside \cup {"rollback"}
    PROVE  /\ Control /\ ResourcesTypeOK /\ ControlInv(c) /\ tx[c] = "open"
           /\ req[c] \in Requests /\ req[c].op \in {"Create", "Update", "Delete"}
           /\ A(c) \in AddOns /\ (req[c].op # "Delete" => V(c) \in Versions)
           /\ ~ overlap => Tidy /\ InstallInv(c) /\ RemoveInv(c)
  <1>1. Control /\ ResourcesTypeOK /\ ControlInv(c) /\ (~ overlap => Tidy /\ InstallInv(c) /\ RemoveInv(c))
    BY DEF ServiceInv, Control, Work, WorkInv
  <1>2. tx[c] = "open" /\ pc[c] # "idle"
    BY <1>1 DEF ControlInv, TxInv, Outside
  <1> QED
    BY <1>1, <1>2, WorksOn

\* A step inside a transaction that does not fail.
LEMMA GoOn ==
    ASSUME ServiceInv, NEW c \in Clients, tx[c] = "open", Control', Alone(c), ResourcesTypeOK',
           overlap' = overlap, pc'[c] # "rollback",
           ~ overlap => Tidy' /\ InstallInv(c)' /\ RemoveInv(c)'
    PROVE  ServiceInv'
  <1>1. UndoInv(c)'
    BY DEF UndoInv
  <1> QED
    BY <1>1, WorkStep DEF WorkInv

\* No orphan appears where nothing changes.
LEMMA TidySame == ASSUME Tidy, UNCHANGED <<resources, leaked>> PROVE Tidy'
  BY TidyShrink DEF resources

\* The resources, one by one.
LEMMA Same ==
    ASSUME UNCHANGED resources
    PROVE  /\ UNCHANGED <<manifest, stack, images, volumes, iam, routes>>
           /\ ResourcesTypeOK => ResourcesTypeOK'
  BY DEF resources, ResourcesTypeOK

\* A failure while the manifest is being pulled.
LEMMA FailPulling ==
    ASSUME ServiceInv, NEW c \in Clients, tx[c] = "open", hooks[c] = H1, Fail(c), ResourcesTypeOK',
           ~ overlap => Tidy' /\ Foreign(A(c))' /\ Bare(A(c))'
    PROVE  ServiceInv'
  <1>1. hooks'[c] = H1 /\ A(c)' = A(c)
    BY DEF Fail, A
  <1>2. ASSUME ~ overlap PROVE UndoInv(c)'
    BY <1>1, <1>2, HookListsDistinct DEF UndoInv, Bare, Foreign, Kept
  <1> QED
    BY <1>2, FailInv

\* A failure after that leaves the manifest where it is.
LEMMA FailBuilding ==
    ASSUME ServiceInv, NEW c \in Clients, tx[c] = "open", hooks[c] \in {H2, H3, H4, H5},
           Fail(c), ResourcesTypeOK',
           ~ overlap =>
              /\ Tidy' /\ manifest'[A(c)] = V(c)
              /\ A(c) \notin leaked =>
                    /\ hooks[c] \in {H2, H3, H4} => routes'[A(c)] = {}
                    /\ hooks[c] \in {H2, H3} => A(c) \notin iam'
                    /\ hooks[c] = H2 => stack'[A(c)] = Absent
    PROVE  ServiceInv'
  <1>1. hooks'[c] = hooks[c] /\ A(c)' = A(c) /\ V(c)' = V(c) /\ leaked' = leaked
    BY DEF Fail, A, V
  <1>2. ASSUME ~ overlap PROVE UndoInv(c)'
    <2>1. hooks[c] # H1
      BY HookListsDistinct
    <2> QED
      BY <1>1, <1>2, <2>1 DEF UndoInv
  <1> QED
    BY <1>2, FailInv

--------------------------------------------------------------------------------
\* CreateAddOnRoutine

\* An add-on that has no manifest is bare: the pull may begin.
LEMMA IsAddOnInstalledInv ==
    ASSUME ServiceInv, NEW c \in Clients, IsAddOnInstalled(c)
    PROVE  ServiceInv'
  <1>1. pc[c] = "create" /\ UNCHANGED resources
    BY DEF IsAddOnInstalled, At
  <1>2. /\ Control /\ ResourcesTypeOK /\ ControlInv(c) /\ tx[c] = "open" /\ A(c) \in AddOns
        /\ ~ overlap => Tidy /\ InstallInv(c) /\ RemoveInv(c)
    BY <1>1, AtWork DEF Outside
  <1>3. CASE manifest[A(c)] = Absent /\ Subscribe(c, "manifest") /\ Continue(c, "remove") /\ UNCHANGED todo
    <2>1. Control' /\ Alone(c) /\ pc'[c] = "remove"
      <3>1. TodoInv(c)'
        BY <1>2, <1>3 DEF Control, Locals, Continue, Goto, TodoInv
      <3> QED
        BY <1>1, <1>2, <1>3, <3>1, SubscribeControl DEF Control, Locals
    <2>2. ASSUME ~ overlap PROVE Tidy' /\ InstallInv(c)' /\ RemoveInv(c)'
      <3>1. Foreign(A(c))
        BY <1>2, <1>3, <2>2, BareAndForeign, NotVersions
      <3>2. A(c)' = A(c) /\ leaked' = leaked
        BY <1>3 DEF Continue, A
      <3>3. Tidy'
        BY <1>1, <1>2, <2>2, <3>2, TidySame
      <3>4. Foreign(A(c))' /\ manifest'[A(c)] = Absent
        BY <1>1, <1>3, <3>1, <3>2 DEF Foreign, Kept, Owns, LeftBy, Readable, resources
      <3> QED
        BY <2>1, <3>2, <3>3, <3>4 DEF InstallInv, RemoveInv, Pulling, Installing, Removing
    <2> QED
      BY <1>1, <1>2, <1>3, <2>1, <2>2, GoOn, Same DEF Continue
  <1>4. CASE Fail(c)
    <2>1. hooks[c] = H0
      BY <1>1, <1>2 DEF ControlInv, HooksInv
    <2>2. ~ overlap => Tidy'
      BY <1>1, <1>2, <1>4, TidySame DEF Fail
    <2> QED
      BY <1>1, <1>2, <1>4, <2>1, <2>2, FailEarly, Same
  <1> QED
    BY <1>3, <1>4 DEF IsAddOnInstalled

\* While the manifest is pulled there is nothing else of the add-on.
LEMMA PullFacts ==
    ASSUME ServiceInv, NEW c \in Clients, pc[c] \in Pulling
    PROVE  /\ Control /\ ResourcesTypeOK /\ tx[c] = "open" /\ hooks[c] = H1
           /\ A(c) \in AddOns /\ V(c) \in Versions
           /\ ~ overlap => Tidy /\ InstallInv(c) /\ Foreign(A(c)) /\ Bare(A(c))
  <1>1. /\ Control /\ ResourcesTypeOK /\ ControlInv(c) /\ tx[c] = "open" /\ A(c) \in AddOns
        /\ req[c].op # "Delete" => V(c) \in Versions
        /\ ~ overlap => Tidy /\ InstallInv(c)
    BY AtWork DEF Outside, Pulling
  <1>2. hooks[c] = H1 /\ V(c) \in Versions
    BY <1>1 DEF ControlInv, HooksInv, RequestInv, Installing
  <1>3. ASSUME ~ overlap PROVE Foreign(A(c)) /\ Bare(A(c))
    <2>1. CASE pc[c] \in {"remove", "fetch", "write"}
      <3>1. manifest[A(c)] \notin Versions
        BY <1>1, <1>3, <2>1, NotVersions DEF InstallInv
      <3> QED
        BY <1>1, <1>3, <3>1, BareAndForeign
    <2>2. CASE pc[c] \in {"check", "capable"}
      BY <1>1, <1>3, <2>2 DEF InstallInv, Pulling
    <2> QED
      BY <2>1, <2>2 DEF Pulling
  <1> QED
    BY <1>1, <1>2, <1>3

\* A pull that fails leaves the manifest or removes it.
LEMMA PullFails ==
    ASSUME ServiceInv, NEW c \in Clients, pc[c] \in Pulling, Fail(c),
           DeleteAddOnDir(A(c)) \/ UNCHANGED manifest,
           UNCHANGED <<stack, images, volumes, iam, routes>>
    PROVE  ServiceInv'
  <1>1. /\ Control /\ ResourcesTypeOK /\ tx[c] = "open" /\ hooks[c] = H1 /\ A(c) \in AddOns
        /\ ~ overlap => Tidy /\ Foreign(A(c)) /\ Bare(A(c))
    BY PullFacts
  <1>2. A(c)' = A(c) /\ leaked' = leaked
    BY DEF Fail, A
  <1>3. PICK m \in 0 .. MaxVersion + 1 : SetManifest(A(c), m)
    <2>1. CASE DeleteAddOnDir(A(c))
      BY <2>1, AddOnResourcesAssumption DEF DeleteAddOnDir, Absent
    <2>2. CASE UNCHANGED manifest
      BY <1>1, <2>2 DEF SetManifest, ResourcesTypeOK
    <2> QED
      BY <2>1, <2>2
  <1>4. ResourcesTypeOK'
    BY <1>1, <1>3 DEF SetManifest, ResourcesTypeOK
  <1>5. ~ overlap => Tidy' /\ Foreign(A(c))' /\ Bare(A(c))'
    BY <1>1, <1>2, <1>3, TidyManifest
  <1> QED
    BY <1>1, <1>4, <1>5, FailPulling

\* The old directory is removed.
LEMMA PullRemovesOldInv ==
    ASSUME ServiceInv, NEW c \in Clients, PullRemovesOld(c)
    PROVE  ServiceInv'
  <1>1. pc[c] = "remove" /\ pc[c] \in Pulling /\ UNCHANGED <<stack, images, volumes, iam, routes>>
    BY DEF PullRemovesOld, At, Pulling
  <1>2. /\ Control /\ ResourcesTypeOK /\ tx[c] = "open" /\ A(c) \in AddOns
        /\ ~ overlap => Tidy /\ Foreign(A(c)) /\ Bare(A(c))
    BY <1>1, PullFacts
  <1>3. CASE DeleteAddOnDir(A(c)) /\ Proceed(c, "fetch")
    <2>1. Control' /\ Alone(c) /\ pc'[c] = "fetch" /\ A(c)' = A(c) /\ leaked' = leaked /\ overlap' = overlap
      BY <1>1, <1>2, <1>3, ProceedControl DEF Proceed, Continue, A
    <2>2. ResourcesTypeOK' /\ manifest'[A(c)] = Absent
      BY <1>1, <1>2, <1>3, AddOnResourcesAssumption DEF DeleteAddOnDir, SetManifest,
         ResourcesTypeOK, Absent
    <2>3. ASSUME ~ overlap PROVE Tidy' /\ InstallInv(c)' /\ RemoveInv(c)'
      <3>1. Tidy' /\ Foreign(A(c))'
        BY <1>1, <1>2, <1>3, <2>1, <2>3, TidyManifest DEF DeleteAddOnDir
      <3> QED
        BY <2>1, <2>2, <3>1 DEF InstallInv, RemoveInv, Pulling, Installing, Removing
    <2> QED
      BY <1>2, <2>1, <2>2, <2>3, GoOn
  <1>4. CASE UNCHANGED manifest /\ Fail(c)
    BY <1>1, <1>4, PullFails
  <1> QED
    BY <1>3, <1>4 DEF PullRemovesOld

\* The manifest file is being written.
LEMMA PullFetchesInv ==
    ASSUME ServiceInv, NEW c \in Clients, PullFetches(c)
    PROVE  ServiceInv'
  <1>1. pc[c] = "fetch" /\ pc[c] \in Pulling /\ UNCHANGED <<stack, images, volumes, iam, routes>>
    BY DEF PullFetches, At, Pulling
  <1>2. /\ Control /\ ResourcesTypeOK /\ tx[c] = "open" /\ A(c) \in AddOns
        /\ ~ overlap => Tidy /\ Foreign(A(c)) /\ Bare(A(c))
    BY <1>1, PullFacts
  <1>3. CASE SetManifest(A(c), Corrupt) /\ Proceed(c, "write")
    <2>1. Control' /\ Alone(c) /\ pc'[c] = "write" /\ A(c)' = A(c) /\ leaked' = leaked /\ overlap' = overlap
      BY <1>1, <1>2, <1>3, ProceedControl DEF Proceed, Continue, A
    <2>2. ResourcesTypeOK' /\ manifest'[A(c)] = Corrupt
      BY <1>1, <1>2, <1>3, AddOnResourcesAssumption DEF SetManifest, ResourcesTypeOK, Corrupt
    <2>3. ASSUME ~ overlap PROVE Tidy' /\ InstallInv(c)' /\ RemoveInv(c)'
      <3>1. Tidy' /\ Foreign(A(c))'
        BY <1>1, <1>2, <1>3, <2>1, <2>3, TidyManifest
      <3> QED
        BY <2>1, <2>2, <3>1 DEF InstallInv, RemoveInv, Pulling, Installing, Removing
    <2> QED
      BY <1>2, <2>1, <2>2, <2>3, GoOn
  <1>4. CASE UNCHANGED manifest /\ Fail(c)
    BY <1>1, <1>4, PullFails
  <1> QED
    BY <1>3, <1>4 DEF PullFetches

\* The manifest is there, and the images of its services are listed.
LEMMA PullWritesInv ==
    ASSUME ServiceInv, NEW c \in Clients, PullWrites(c)
    PROVE  ServiceInv'
  <1>1. pc[c] = "write" /\ pc[c] \in Pulling /\ UNCHANGED <<stack, images, volumes, iam, routes>>
    BY DEF PullWrites, At, Pulling
  <1>2. /\ Control /\ ResourcesTypeOK /\ tx[c] = "open" /\ A(c) \in AddOns /\ V(c) \in Versions
        /\ ~ overlap => Tidy /\ Foreign(A(c)) /\ Bare(A(c))
    BY <1>1, PullFacts
  <1>3. CASE /\ SetManifest(A(c), V(c))
             /\ \E fetched \in SUBSET ImagesOf[A(c)][V(c)] : Todo(c, fetched)
             /\ Continue(c, "check") /\ UNCHANGED hooks
    <2>0. PICK fetched \in SUBSET ImagesOf[A(c)][V(c)] : Todo(c, fetched)
      BY <1>3
    <2>1. Control' /\ Alone(c) /\ pc'[c] = "check" /\ todo'[c] = fetched
      <3>1. fetched \subseteq Images \cup RouteIds
        BY <1>2, <2>0, AddOnResourcesAssumption
      <3> QED
        BY <1>1, <1>2, <1>3, <2>0, <3>1, TodoControl
    <2>2. A(c)' = A(c) /\ V(c)' = V(c) /\ leaked' = leaked /\ overlap' = overlap
      BY <1>3 DEF Continue, A, V
    <2>3. ResourcesTypeOK' /\ manifest'[A(c)] = V(c)
      BY <1>1, <1>2, <1>3, AddOnResourcesAssumption DEF SetManifest, ResourcesTypeOK, Versions
    <2>4. ASSUME ~ overlap PROVE Tidy' /\ InstallInv(c)' /\ RemoveInv(c)'
      <3>1. Tidy' /\ Foreign(A(c))' /\ Bare(A(c))'
        BY <1>1, <1>2, <1>3, <2>2, <2>4, TidyManifest
      <3> QED
        BY <2>0, <2>1, <2>2, <2>3, <3>1 DEF InstallInv, RemoveInv, Pulling, Installing, Removing
    <2> QED
      BY <1>2, <2>1, <2>2, <2>3, <2>4, GoOn
  <1>4. CASE (DeleteAddOnDir(A(c)) \/ UNCHANGED manifest) /\ Fail(c)
    BY <1>1, <1>4, PullFails
  <1> QED
    BY <1>3, <1>4 DEF PullWrites

\* The checks of the manifest set the status.
LEMMA CheckAddOnInv ==
    ASSUME ServiceInv, NEW c \in Clients, CheckAddOn(c)
    PROVE  ServiceInv'
  <1>1. pc[c] = "check" /\ pc[c] \in Pulling /\ UNCHANGED resources
    BY DEF CheckAddOn, At, Pulling
  <1>2. /\ Control /\ ResourcesTypeOK /\ tx[c] = "open" /\ A(c) \in AddOns /\ V(c) \in Versions
        /\ ~ overlap => Tidy /\ InstallInv(c) /\ Foreign(A(c)) /\ Bare(A(c))
    BY <1>1, PullFacts
  <1>3. CASE /\ SetAddOnContext(c, "Installing") /\ Goto(c, "capable")
             /\ UNCHANGED <<req, old, todo, tx, hooks, overlap, leaked>>
    <2>1. Control' /\ Alone(c) /\ pc'[c] = "capable"
      <3>1. old[c] \in 0 .. MaxVersion /\ old' = [old EXCEPT ![c] = old[c]]
        BY <1>2, <1>3 DEF Control, Locals
      <3> QED
        BY <1>1, <1>2, <1>3, <3>1, ContextControl
    <2>2. A(c)' = A(c) /\ V(c)' = V(c) /\ todo'[c] = todo[c]
      BY <1>3 DEF A, V
    <2>3. ASSUME ~ overlap PROVE Tidy' /\ InstallInv(c)' /\ RemoveInv(c)'
      <3>1. Tidy' /\ Foreign(A(c))' /\ Bare(A(c))'
        <4>1. SetManifest(A(c), manifest[A(c)])
          BY <1>1, <1>2, Same DEF SetManifest, ResourcesTypeOK
        <4> QED
          BY <1>1, <1>2, <1>3, <2>2, <2>3, <4>1, TidyManifest, Same
      <3>2. manifest'[A(c)] = V(c)
        BY <1>1, <1>2, <2>3, Same DEF InstallInv, Installing, Pulling
      <3> QED
        BY <2>1, <2>2, <3>1, <3>2 DEF InstallInv, RemoveInv, Pulling, Installing, Removing
    <2> QED
      BY <1>1, <1>2, <1>3, <2>1, <2>3, GoOn, Same
  <1>4. CASE Fail(c)
    BY <1>1, <1>4, PullFails, Same
  <1> QED
    BY <1>3, <1>4 DEF CheckAddOn

\* From here on the images are to be undone.
LEMMA CheckCapabilitiesInv ==
    ASSUME ServiceInv, NEW c \in Clients, CheckCapabilities(c)
    PROVE  ServiceInv'
  <1>1. pc[c] = "capable" /\ pc[c] \in Pulling /\ UNCHANGED resources
    BY DEF CheckCapabilities, At, Pulling
  <1>2. /\ Control /\ ResourcesTypeOK /\ tx[c] = "open" /\ A(c) \in AddOns /\ V(c) \in Versions
        /\ ~ overlap => Tidy /\ InstallInv(c) /\ Foreign(A(c)) /\ Bare(A(c))
    BY <1>1, PullFacts
  <1>3. CASE Subscribe(c, "images") /\ Continue(c, "import") /\ UNCHANGED todo
    <2>1. Control' /\ Alone(c) /\ pc'[c] = "import"
      <3>1. TodoInv(c)'
        BY <1>1, <1>2, <1>3 DEF Control, ControlInv, Locals, Continue, Goto, TodoInv, A, V
      <3> QED
        BY <1>1, <1>2, <1>3, <3>1, SubscribeControl DEF Control, Locals
    <2>2. A(c)' = A(c) /\ V(c)' = V(c) /\ todo'[c] = todo[c] /\ leaked' = leaked /\ overlap' = overlap
      BY <1>3 DEF A, V, Continue
    <2>3. ASSUME ~ overlap PROVE Tidy' /\ InstallInv(c)' /\ RemoveInv(c)'
      <3>1. Tidy'
        BY <1>1, <1>2, <2>2, <2>3, TidySame
      <3>2. manifest'[A(c)] = V(c) /\ Bare(A(c))'
        BY <1>1, <1>2, <2>2, <2>3, Same DEF InstallInv, Installing, Pulling, Bare
      <3> QED
        BY <2>1, <2>2, <3>1, <3>2 DEF InstallInv, RemoveInv, Pulling, Installing, Removing
    <2> QED
      BY <1>1, <1>2, <2>1, <2>2, <2>3, GoOn, Same
  <1>4. CASE Fail(c)
    BY <1>1, <1>4, PullFails, Same
  <1> QED
    BY <1>3, <1>4 DEF CheckCapabilities

\* From the images to the routes: the manifest is in place, and what the hooks
\* that are subscribed would remove is all there may be.
LEMMA BuildFacts ==
    ASSUME ServiceInv, NEW c \in Clients, pc[c] \in {"import", "deploy", "up", "permit", "publish"}
    PROVE  /\ Control /\ ResourcesTypeOK /\ tx[c] = "open" /\ A(c) \in AddOns /\ V(c) \in Versions
           /\ req[c].op \in {"Create", "Update"}
           /\ pc[c] \in {"import", "deploy"} => hooks[c] = H2
           /\ pc[c] = "up" => hooks[c] = H3
           /\ pc[c] = "permit" => hooks[c] = H4
           /\ pc[c] = "publish" => hooks[c] = H5
           /\ pc[c] = "import" => todo[c] \subseteq ImagesOf[A(c)][V(c)]
           /\ pc[c] = "publish" => todo[c] \subseteq RoutesOf[A(c)][V(c)]
           /\ ~ overlap => Tidy /\ InstallInv(c) /\ manifest[A(c)] = V(c)
  <1>1. /\ Control /\ ResourcesTypeOK /\ ControlInv(c) /\ tx[c] = "open" /\ A(c) \in AddOns
        /\ req[c].op \in {"Create", "Update", "Delete"}
        /\ req[c].op # "Delete" => V(c) \in Versions
        /\ ~ overlap => Tidy /\ InstallInv(c)
    BY AtWork DEF Outside
  <1>2. req[c].op # "Delete"
    BY <1>1 DEF ControlInv, RequestInv, Installing
  <1>3. /\ pc[c] \in {"import", "deploy"} => hooks[c] = H2
        /\ pc[c] = "up" => hooks[c] = H3
        /\ pc[c] = "permit" => hooks[c] = H4
        /\ pc[c] = "publish" => hooks[c] = H5
    BY <1>1 DEF ControlInv, HooksInv
  <1>4. ~ overlap => manifest[A(c)] = V(c)
    BY <1>1 DEF InstallInv, Installing
  <1>5. /\ pc[c] = "import" => todo[c] \subseteq ImagesOf[A(c)][V(c)]
        /\ pc[c] = "publish" => todo[c] \subseteq RoutesOf[A(c)][V(c)]
    BY <1>1 DEF ControlInv, TodoInv
  <1> QED
    BY <1>1, <1>2, <1>3, <1>4, <1>5

\* Images are imported after the manifest that names them.
LEMMA ImportImagesInv ==
    ASSUME ServiceInv, NEW c \in Clients, ImportImages(c)
    PROVE  ServiceInv'
  <1>1. pc[c] = "import" /\ UNCHANGED <<manifest, stack, volumes, iam, routes>>
    BY DEF ImportImages, At
  <1>2. /\ Control /\ ResourcesTypeOK /\ tx[c] = "open" /\ A(c) \in AddOns /\ V(c) \in Versions
        /\ hooks[c] = H2 /\ todo[c] \subseteq ImagesOf[A(c)][V(c)]
        /\ ~ overlap => Tidy /\ InstallInv(c) /\ manifest[A(c)] = V(c)
    BY <1>1, BuildFacts
  <1>3. ~ overlap => Bare(A(c))
    BY <1>1, <1>2 DEF InstallInv
  <1>4. ASSUME images' \subseteq images \cup todo[c], leaked' = leaked
        PROVE  ResourcesTypeOK' /\ (~ overlap => Tidy')
    <2>1. ResourcesTypeOK'
      BY <1>1, <1>2, <1>4, AddOnResourcesAssumption DEF ResourcesTypeOK
    <2>2. ASSUME ~ overlap PROVE Tidy'
      BY <1>1, <1>2, <1>4, <2>2, TidyGrow
    <2> QED
      BY <2>1, <2>2
  <1>5. CASE \E i \in todo[c] : /\ ImportDockerImage(i) /\ Todo(c, todo[c] \ {i})
                                /\ Continue(c, "import") /\ UNCHANGED hooks
    <2>1. PICK i \in todo[c] : /\ ImportDockerImage(i) /\ Todo(c, todo[c] \ {i})
                               /\ Continue(c, "import") /\ UNCHANGED hooks
      BY <1>5
    <2>2. Control' /\ Alone(c) /\ pc'[c] = "import"
      BY <1>1, <1>2, <2>1, LoopControl
    <2>3. A(c)' = A(c) /\ V(c)' = V(c) /\ leaked' = leaked /\ overlap' = overlap
      BY <2>1 DEF Continue, A, V
    <2>4. ASSUME ~ overlap PROVE InstallInv(c)' /\ RemoveInv(c)'
      BY <1>1, <1>2, <1>3, <2>2, <2>3, <2>4 DEF InstallInv, RemoveInv, Pulling, Installing,
         Removing, Bare
    <2>5. ResourcesTypeOK' /\ (~ overlap => Tidy')
      BY <1>4, <2>1, <2>3 DEF ImportDockerImage
    <2> QED
      BY <1>2, <2>2, <2>3, <2>4, <2>5, GoOn
  <1>6. CASE \E i \in todo[c] : (ImportDockerImage(i) \/ UNCHANGED images) /\ Fail(c)
    <2>1. images' \subseteq images \cup todo[c] /\ Fail(c) /\ leaked' = leaked
      BY <1>6 DEF ImportDockerImage, Fail
    <2>2. ResourcesTypeOK' /\ (~ overlap => Tidy')
      BY <1>4, <2>1
    <2> QED
      BY <1>1, <1>2, <1>3, <2>1, <2>2, FailBuilding DEF Bare
  <1>7. CASE todo[c] = {} /\ Proceed(c, "deploy") /\ UNCHANGED images
    <2>1. Control' /\ Alone(c) /\ pc'[c] = "deploy"
      BY <1>1, <1>2, <1>7, ProceedControl
    <2>2. A(c)' = A(c) /\ V(c)' = V(c) /\ leaked' = leaked /\ overlap' = overlap
      BY <1>7 DEF Proceed, Continue, A, V
    <2>3. ASSUME ~ overlap PROVE InstallInv(c)' /\ RemoveInv(c)'
      BY <1>1, <1>2, <1>3, <2>1, <2>2, <2>3 DEF InstallInv, RemoveInv, Pulling, Installing,
         Removing, Bare
    <2>4. ResourcesTypeOK' /\ (~ overlap => Tidy')
      BY <1>4, <1>7, <2>2
    <2> QED
      BY <1>2, <2>1, <2>2, <2>3, <2>4, GoOn
  <1> QED
    BY <1>5, <1>6, <1>7 DEF ImportImages

\* From here on the stack is to be undone.
LEMMA DeployInv ==
    ASSUME ServiceInv, NEW c \in Clients, Deploy(c)
    PROVE  ServiceInv'
  <1>1. pc[c] = "deploy" /\ UNCHANGED resources
    BY DEF Deploy, At
  <1>2. /\ Control /\ ResourcesTypeOK /\ tx[c] = "open" /\ A(c) \in AddOns /\ V(c) \in Versions
        /\ hooks[c] = H2
        /\ ~ overlap => Tidy /\ InstallInv(c) /\ manifest[A(c)] = V(c)
    BY <1>1, BuildFacts
  <1>3. ~ overlap => Bare(A(c))
    BY <1>1, <1>2 DEF InstallInv
  <1>4. CASE Subscribe(c, "stack") /\ Continue(c, "up") /\ UNCHANGED todo
    <2>1. Control' /\ Alone(c) /\ pc'[c] = "up"
      <3>1. TodoInv(c)'
        BY <1>2, <1>4 DEF Control, Locals, Continue, Goto, TodoInv
      <3> QED
        BY <1>1, <1>2, <1>4, <3>1, SubscribeControl DEF Control, Locals
    <2>2. A(c)' = A(c) /\ V(c)' = V(c) /\ leaked' = leaked /\ overlap' = overlap
      BY <1>4 DEF Continue, A, V
    <2>3. ASSUME ~ overlap PROVE InstallInv(c)' /\ RemoveInv(c)'
      BY <1>1, <1>2, <1>3, <2>1, <2>2, <2>3, Same DEF InstallInv, RemoveInv, Pulling,
         Installing, Removing, Bare
    <2> QED
      BY <1>1, <1>2, <2>1, <2>2, <2>3, TidySame, GoOn, Same
  <1>5. CASE Fail(c)
    <2>1. leaked' = leaked
      BY <1>5 DEF Fail
    <2> QED
      BY <1>1, <1>2, <1>3, <1>5, <2>1, FailBuilding, TidySame, Same DEF Bare
  <1> QED
    BY <1>4, <1>5 DEF Deploy

\* What creating the stack does, all of it or in part.
LEMMA StackMade ==
    ASSUME ResourcesTypeOK, NEW a \in AddOns, NEW v \in Versions,
           CreateStackWithDockerCompose(a, v) \/ FailToCreateStack(a, v),
           UNCHANGED <<manifest, iam, routes>>
    PROVE  /\ ResourcesTypeOK' /\ images \subseteq images' /\ images' \subseteq images \cup ImagesOf[a][v]
           /\ stack'[a] \in {stack[a], v} /\ \A b \in AddOns : b # a => stack'[b] = stack[b]
           /\ CreateStackWithDockerCompose(a, v) =>
                 /\ stack'[a] = v /\ VolumesOf[a][v] \subseteq volumes'[a] /\ ImagesOf[a][v] \subseteq images'
  <1>1. v \in 0 .. MaxVersion /\ ImagesOf[a][v] \subseteq Images /\ VolumesOf[a][v] \subseteq VolumeNames
    BY AddOnResourcesAssumption DEF Versions
  <1>2. CASE CreateStackWithDockerCompose(a, v)
    BY <1>1, <1>2 DEF CreateStackWithDockerCompose, ResourcesTypeOK
  <1>3. CASE FailToCreateStack(a, v)
    <2>1. PICK made \in SUBSET VolumesOf[a][v] : volumes' = [volumes EXCEPT ![a] = @ \cup made]
      BY <1>3 DEF FailToCreateStack
    <2>2. PICK pulled \in SUBSET ImagesOf[a][v] : images' = images \cup pulled
      BY <1>3 DEF FailToCreateStack
    <2>3. CASE stack' = stack
      <3>1. ResourcesTypeOK'
        BY <1>1, <2>1, <2>2, <2>3 DEF ResourcesTypeOK
      <3>2. CASE ~ CreateStackWithDockerCompose(a, v)
        BY <2>2, <2>3, <3>1, <3>2
      <3> QED
        BY <1>2, <3>2
    <2>4. CASE stack' = [stack EXCEPT ![a] = v]
      <3>1. ResourcesTypeOK' /\ stack'[a] = v /\ \A b \in AddOns : b # a => stack'[b] = stack[b]
        BY <1>1, <2>1, <2>2, <2>4 DEF ResourcesTypeOK
      <3>2. CASE ~ CreateStackWithDockerCompose(a, v)
        BY <2>2, <3>1, <3>2
      <3> QED
        BY <1>2, <3>2
    <2> QED
      BY <1>3, <2>3, <2>4 DEF FailToCreateStack
  <1> QED
    BY <1>2, <1>3

\* The stack is made of the version in the manifest.
LEMMA StackUpInv ==
    ASSUME ServiceInv, NEW c \in Clients, StackUp(c)
    PROVE  ServiceInv'
  <1>1. pc[c] = "up" /\ UNCHANGED <<manifest, iam, routes>>
    BY DEF StackUp, At
  <1>2. /\ Control /\ ResourcesTypeOK /\ tx[c] = "open" /\ A(c) \in AddOns /\ V(c) \in Versions
        /\ hooks[c] = H3
        /\ ~ overlap => Tidy /\ InstallInv(c) /\ manifest[A(c)] = V(c)
    BY <1>1, BuildFacts
  <1>3. ~ overlap => Bare(A(c))
    BY <1>1, <1>2 DEF InstallInv
  <1>4. CreateStackWithDockerCompose(A(c), V(c)) \/ FailToCreateStack(A(c), V(c))
    BY DEF StackUp
  <1>5. /\ ResourcesTypeOK' /\ images' \subseteq images \cup ImagesOf[A(c)][V(c)]
        /\ stack'[A(c)] \in {stack[A(c)], V(c)} /\ \A b \in AddOns : b # A(c) => stack'[b] = stack[b]
    BY <1>1, <1>2, <1>4, StackMade
  <1>6. leaked' = leaked /\ A(c)' = A(c) /\ V(c)' = V(c) /\ overlap' = overlap
    BY DEF StackUp, Continue, Fail, A, V
  <1>7. ~ overlap => Tidy'
    BY <1>1, <1>2, <1>5, <1>6, TidyGrow
  <1>8. CASE /\ CreateStackWithDockerCompose(A(c), V(c)) /\ Subscribe(c, "iam")
             /\ Continue(c, "permit") /\ UNCHANGED todo
    <2>1. Control' /\ Alone(c) /\ pc'[c] = "permit"
      <3>1. TodoInv(c)'
        BY <1>2, <1>8 DEF Control, Locals, Continue, Goto, TodoInv
      <3> QED
        BY <1>1, <1>2, <1>8, <3>1, SubscribeControl DEF Control, Locals
    <2>2. ASSUME ~ overlap PROVE InstallInv(c)' /\ RemoveInv(c)'
      <3>1. Deployed(A(c), V(c))'
        <4>1. /\ stack'[A(c)] = V(c) /\ VolumesOf[A(c)][V(c)] \subseteq volumes'[A(c)]
              /\ ImagesOf[A(c)][V(c)] \subseteq images'
          BY <1>1, <1>2, <1>8, StackMade
        <4> QED
          BY <1>1, <1>2, <1>6, <2>2, <4>1 DEF Deployed
      <3>2. A(c) \notin leaked => A(c) \notin iam' /\ routes'[A(c)] = {}
        BY <1>1, <1>3, <2>2 DEF Bare
      <3> QED
        BY <1>1, <1>2, <1>6, <2>1, <2>2, <3>1, <3>2 DEF InstallInv, RemoveInv, Pulling,
           Installing, Removing
    <2> QED
      BY <1>2, <1>5, <1>6, <1>7, <2>1, <2>2, GoOn
  <1>9. CASE FailToCreateStack(A(c), V(c)) /\ Fail(c)
    <2>1. H3 # H2
      BY HookListsDistinct
    <2> QED
      BY <1>1, <1>2, <1>3, <1>5, <1>7, <1>9, <2>1, FailBuilding DEF Bare
  <1> QED
    BY <1>8, <1>9 DEF StackUp

\* The permission is written for a deployed add-on.
LEMMA CreateIamPermissionInv ==
    ASSUME ServiceInv, NEW c \in Clients, CreateIamPermission(c)
    PROVE  ServiceInv'
  <1>1. pc[c] = "permit" /\ UNCHANGED <<manifest, stack, images, volumes, routes>>
    BY DEF CreateIamPermission, At
  <1>2. /\ Control /\ ResourcesTypeOK /\ tx[c] = "open" /\ A(c) \in AddOns /\ V(c) \in Versions
        /\ hooks[c] = H4
        /\ ~ overlap => Tidy /\ InstallInv(c) /\ manifest[A(c)] = V(c)
    BY <1>1, BuildFacts
  <1>3. ~ overlap => Deployed(A(c), V(c)) /\ (A(c) \notin leaked => A(c) \notin iam /\ routes[A(c)] = {})
    BY <1>1, <1>2 DEF InstallInv
  <1>4. iam' \in {iam, iam \cup {A(c)}}
    BY DEF CreateIamPermission, WritePermission
  <1>5. ResourcesTypeOK'
    BY <1>1, <1>2, <1>4 DEF ResourcesTypeOK
  <1>6. leaked' = leaked /\ A(c)' = A(c) /\ V(c)' = V(c) /\ overlap' = overlap
    BY DEF CreateIamPermission, Continue, Fail, A, V
  <1>7. ~ overlap => Tidy'
    BY <1>1, <1>2, <1>4, <1>6, TidyGrow
  <1>8. CASE /\ WritePermission(A(c)) /\ Subscribe(c, "routes")
             /\ Todo(c, RoutesOf[A(c)][V(c)]) /\ Continue(c, "publish")
    <2>1. RoutesOf[A(c)][V(c)] \subseteq RouteIds
      BY <1>2, AddOnResourcesAssumption
    <2>2. /\ todo' \in [Clients -> SUBSET (Images \cup RouteIds)] /\ todo'[c] = RoutesOf[A(c)][V(c)]
          /\ \A d \in Clients : d # c => todo'[d] = todo[d]
      BY <1>2, <1>8, <2>1 DEF Control, Locals, Todo
    <2>3. Control' /\ Alone(c) /\ pc'[c] = "publish"
      <3>1. TodoInv(c)'
        BY <1>2, <1>6, <1>8, <2>2 DEF Control, Locals, Continue, Goto, TodoInv
      <3> QED
        BY <1>1, <1>2, <1>8, <2>2, <3>1, SubscribeControl
    <2>4. ASSUME ~ overlap PROVE InstallInv(c)' /\ RemoveInv(c)'
      <3>1. Deployed(A(c), V(c))' /\ A(c) \in iam' /\ manifest'[A(c)] = V(c)
        BY <1>1, <1>2, <1>3, <1>6, <1>8, <2>4 DEF Deployed, WritePermission
      <3> QED
        BY <1>6, <2>2, <2>3, <3>1 DEF InstallInv, RemoveInv, Pulling, Installing, Removing
    <2> QED
      BY <1>2, <1>5, <1>6, <1>7, <2>3, <2>4, GoOn
  <1>9. CASE Fail(c)
    <2>1. H4 \notin {H2, H3}
      BY HookListsDistinct
    <2> QED
      BY <1>1, <1>2, <1>3, <1>5, <1>7, <1>9, <2>1, FailBuilding
  <1> QED
    BY <1>8, <1>9 DEF CreateIamPermission

\* The routes are those of the manifest, and all of them in the end.
LEMMA CreateProxyRoutesInv ==
    ASSUME ServiceInv, NEW c \in Clients, CreateProxyRoutes(c)
    PROVE  ServiceInv'
  <1>1. pc[c] = "publish" /\ UNCHANGED <<manifest, stack, images, volumes, iam>>
    BY DEF CreateProxyRoutes, At
  <1>2. /\ Control /\ ResourcesTypeOK /\ tx[c] = "open" /\ A(c) \in AddOns /\ V(c) \in Versions
        /\ hooks[c] = H5 /\ todo[c] \subseteq RoutesOf[A(c)][V(c)] /\ req[c].op \in {"Create", "Update"}
        /\ ~ overlap => Tidy /\ InstallInv(c) /\ manifest[A(c)] = V(c)
    BY <1>1, BuildFacts
  <1>3. ~ overlap => /\ Deployed(A(c), V(c)) /\ A(c) \in iam
                     /\ RoutesOf[A(c)][V(c)] \subseteq routes[A(c)] \cup todo[c]
    BY <1>1, <1>2 DEF InstallInv
  <1>4. \/ UNCHANGED routes
        \/ \E id \in todo[c] : routes' = [routes EXCEPT ![A(c)] = @ \cup {id}]
    BY DEF CreateProxyRoutes, CreateRoute
  <1>5. /\ ResourcesTypeOK' /\ routes[A(c)] \subseteq routes'[A(c)]
        /\ routes'[A(c)] \subseteq routes[A(c)] \cup RoutesOf[A(c)][V(c)]
        /\ \A b \in AddOns : b # A(c) => routes'[b] = routes[b]
    <2>1. RoutesOf[A(c)][V(c)] \subseteq RouteIds
      BY <1>2, AddOnResourcesAssumption
    <2>2. CASE UNCHANGED routes
      BY <1>1, <1>2, <2>2 DEF ResourcesTypeOK
    <2>3. CASE \E id \in todo[c] : routes' = [routes EXCEPT ![A(c)] = @ \cup {id}]
      BY <1>1, <1>2, <2>1, <2>3 DEF ResourcesTypeOK
    <2> QED
      BY <1>4, <2>2, <2>3
  <1>6. leaked' = leaked /\ A(c)' = A(c) /\ V(c)' = V(c) /\ overlap' = overlap
    BY DEF CreateProxyRoutes, Proceed, Continue, Fail, A, V
  <1>7. ~ overlap => Tidy' /\ Deployed(A(c), V(c))' /\ A(c) \in iam' /\ manifest'[A(c)] = V(c)
    <2>1. ~ overlap => Tidy'
      BY <1>1, <1>2, <1>5, <1>6, TidyGrow
    <2> QED
      BY <1>1, <1>2, <1>3, <1>6, <2>1 DEF Deployed
  <1>8. CASE \E id \in todo[c] : /\ CreateRoute(A(c), id) /\ Todo(c, todo[c] \ {id})
                                 /\ Continue(c, "publish") /\ UNCHANGED hooks
    <2>1. PICK id \in todo[c] : /\ CreateRoute(A(c), id) /\ Todo(c, todo[c] \ {id})
                                /\ Continue(c, "publish") /\ UNCHANGED hooks
      BY <1>8
    <2>2. Control' /\ Alone(c) /\ pc'[c] = "publish" /\ todo'[c] = todo[c] \ {id}
      BY <1>1, <1>2, <2>1, LoopControl
    <2>3. routes'[A(c)] = routes[A(c)] \cup {id}
      BY <1>2, <2>1 DEF CreateRoute, ResourcesTypeOK
    <2>4. ASSUME ~ overlap PROVE InstallInv(c)' /\ RemoveInv(c)'
      <3>1. RoutesOf[A(c)][V(c)] \subseteq routes'[A(c)] \cup todo'[c]
        BY <1>3, <2>2, <2>3, <2>4
      <3> QED
        BY <1>6, <1>7, <2>2, <2>4, <3>1 DEF InstallInv, RemoveInv, Pulling, Installing, Removing
    <2> QED
      BY <1>2, <1>5, <1>6, <1>7, <2>2, <2>4, GoOn
  <1>9. CASE Fail(c)
    <2>1. H5 \notin {H2, H3, H4}
      BY HookListsDistinct
    <2> QED
      BY <1>2, <1>5, <1>7, <1>9, <2>1, FailBuilding
  <1>10. CASE todo[c] = {} /\ Proceed(c, IF req[c].op = "Update" THEN "prune" ELSE "commit")
    <2> DEFINE p == IF req[c].op = "Update" THEN "prune" ELSE "commit"
    <2>0. p \in {"prune", "commit"}
      OBVIOUS
    <2>1. Control' /\ Alone(c) /\ pc'[c] = p
      BY <1>1, <1>2, <1>10, ProceedControl
    <2>2. affected[c] # "Deleting" /\ affected'[c] = affected[c]
      BY <1>2, <1>10 DEF Control, ControlInv, StatusInv, Proceed, Continue
    <2> HIDE DEF p
    <2>3. ASSUME ~ overlap PROVE InstallInv(c)' /\ RemoveInv(c)'
      <3>1. RoutesOf[A(c)][V(c)] \subseteq routes'[A(c)]
        BY <1>3, <1>5, <1>10, <2>3
      <3> QED
        BY <1>6, <1>7, <2>0, <2>1, <2>2, <2>3, <3>1 DEF InstallInv, RemoveInv, Pulling,
           Installing, Removing
    <2> QED
      BY <1>2, <1>5, <1>6, <1>7, <2>0, <2>1, <2>3, GoOn
  <1> QED
    BY <1>8, <1>9, <1>10 DEF CreateProxyRoutes

--------------------------------------------------------------------------------
\* ReplaceAddOnRoutine

\* Before a routine has touched anything a failure leaves nothing behind.
LEMMA FailUntouched ==
    ASSUME ServiceInv, NEW c \in Clients, tx[c] = "open", hooks[c] \in {H0, HS},
           Fail(c), UNCHANGED resources
    PROVE  ServiceInv'
  <1>1. ~ overlap => Tidy'
    BY TidySame DEF ServiceInv, Work, Fail
  <1> QED
    BY <1>1, FailEarly, Same DEF ServiceInv

\* An update reads the old version, and compares it with the new one.
LEMMA ReplaceAddOnInv ==
    ASSUME ServiceInv, NEW c \in Clients, ReplaceAddOn(c)
    PROVE  ServiceInv'
  <1>1. pc[c] = "replace" /\ UNCHANGED resources
    BY DEF ReplaceAddOn, At
  <1>2. /\ Control /\ ResourcesTypeOK /\ ControlInv(c) /\ tx[c] = "open" /\ A(c) \in AddOns
        /\ ~ overlap => Tidy
    BY <1>1, AtWork DEF Outside
  <1>3. hooks[c] = H0
    BY <1>1, <1>2 DEF ControlInv, HooksInv
  <1>4. CASE Fail(c)
    BY <1>1, <1>2, <1>3, <1>4, FailUntouched
  <1>5. CASE /\ ~ Refused(c) /\ old' = [old EXCEPT ![c] = manifest[A(c)]]
             /\ \/ /\ manifest[A(c)] = V(c) /\ SetAddOnContext(c, "Configuring") /\ Goto(c, "configure")
                \/ /\ manifest[A(c)] # V(c) /\ SetAddOnContext(c, "Updating") /\ Goto(c, "future")
             /\ UNCHANGED <<req, todo, tx, hooks, overlap, leaked>>
    <2>1. manifest[A(c)] \in Versions /\ manifest[A(c)] \in 0 .. MaxVersion
      BY <1>5, AddOnResourcesAssumption DEF Refused, Readable, Versions
    <2>2. A(c)' = A(c) /\ V(c)' = V(c) /\ leaked' = leaked /\ overlap' = overlap
      BY <1>5 DEF A, V
    <2>3. ~ overlap => Tidy'
      BY <1>1, <1>2, <2>2, TidySame
    <2>4. CASE manifest[A(c)] = V(c) /\ SetAddOnContext(c, "Configuring") /\ Goto(c, "configure")
      <3>1. Control' /\ Alone(c) /\ pc'[c] = "configure"
        BY <1>1, <1>2, <1>5, <2>1, <2>4, ContextControl
      <3>2. InstallInv(c)' /\ RemoveInv(c)'
        BY <1>1, <2>2, <2>4, <3>1, Same DEF InstallInv, RemoveInv, Pulling, Installing, Removing
      <3> QED
        BY <1>1, <1>2, <2>2, <2>3, <3>1, <3>2, GoOn, Same
    <2>5. CASE manifest[A(c)] # V(c) /\ SetAddOnContext(c, "Updating") /\ Goto(c, "future")
      <3>1. Control' /\ Alone(c) /\ pc'[c] = "future" /\ old'[c] = manifest[A(c)]
        BY <1>1, <1>2, <1>5, <2>1, <2>5, ContextControl
      <3>2. InstallInv(c)' /\ RemoveInv(c)'
        BY <1>1, <2>2, <3>1, Same DEF InstallInv, RemoveInv, Pulling, Installing, Removing
      <3> QED
        BY <1>1, <1>2, <2>2, <2>3, <3>1, <3>2, GoOn, Same
    <2> QED
      BY <1>5, <2>4, <2>5
  <1> QED
    BY <1>4, <1>5 DEF ReplaceAddOn

\* Nothing is deleted before the new manifest is known.
LEMMA FetchFutureManifestInv ==
    ASSUME ServiceInv, NEW c \in Clients, FetchFutureManifest(c)
    PROVE  ServiceInv'
  <1>1. pc[c] = "future" /\ UNCHANGED resources
    BY DEF FetchFutureManifest, At
  <1>2. /\ Control /\ ResourcesTypeOK /\ ControlInv(c) /\ tx[c] = "open" /\ A(c) \in AddOns
        /\ ~ overlap => Tidy /\ RemoveInv(c)
    BY <1>1, AtWork DEF Outside
  <1>3. hooks[c] = H0
    BY <1>1, <1>2 DEF ControlInv, HooksInv
  <1>4. CASE Fail(c)
    BY <1>1, <1>2, <1>3, <1>4, FailUntouched
  <1>5. CASE Proceed(c, "down")
    <2>1. Control' /\ Alone(c) /\ pc'[c] = "down"
      BY <1>1, <1>2, <1>5, ProceedControl
    <2>2. A(c)' = A(c) /\ V(c)' = V(c) /\ leaked' = leaked /\ overlap' = overlap /\ old'[c] = old[c]
      BY <1>5 DEF Proceed, Continue, A, V
    <2>3. ASSUME ~ overlap PROVE InstallInv(c)' /\ RemoveInv(c)'
      <3>1. manifest'[A(c)] = old[c]
        BY <1>1, <1>2, <2>3, Same DEF RemoveInv
      <3> QED
        BY <2>1, <2>2, <3>1 DEF InstallInv, RemoveInv, Pulling, Installing, Removing
    <2> QED
      BY <1>1, <1>2, <2>1, <2>2, <2>3, TidySame, GoOn, Same
  <1> QED
    BY <1>4, <1>5 DEF FetchFutureManifest

\* Taking the stack down.
LEMMA StackGone ==
    ASSUME ResourcesTypeOK, NEW a \in AddOns, DeleteAddOnStack(a) \/ UNCHANGED stack,
           UNCHANGED <<manifest, images, volumes, iam, routes>>, leaked' = leaked
    PROVE  /\ ResourcesTypeOK' /\ (Tidy => Tidy')
           /\ DeleteAddOnStack(a) => stack'[a] = Absent
  <1>0. 0 \in 0 .. MaxVersion
    BY AddOnResourcesAssumption
  <1>1. /\ ResourcesTypeOK' /\ \A b \in AddOns : stack'[b] \in {stack[b], Absent}
        /\ DeleteAddOnStack(a) => stack'[a] = Absent
    <2>1. CASE DeleteAddOnStack(a)
      BY <1>0, <2>1 DEF DeleteAddOnStack, ResourcesTypeOK, Absent
    <2>2. CASE ~ DeleteAddOnStack(a)
      BY <2>2 DEF ResourcesTypeOK
    <2> QED
      BY <2>1, <2>2
  <1> QED
    BY <1>1, TidyShrink

\* configureAction takes the stack down.
LEMMA ConfigureInv ==
    ASSUME ServiceInv, NEW c \in Clients, Configure(c)
    PROVE  ServiceInv'
  <1>1. pc[c] = "configure" /\ UNCHANGED <<manifest, images, volumes, iam, routes>>
    BY DEF Configure, At
  <1>2. /\ Control /\ ResourcesTypeOK /\ ControlInv(c) /\ tx[c] = "open" /\ A(c) \in AddOns
        /\ ~ overlap => Tidy /\ InstallInv(c)
    BY <1>1, AtWork DEF Outside
  <1>3. hooks[c] = H0 /\ (~ overlap => manifest[A(c)] = V(c))
    BY <1>1, <1>2 DEF ControlInv, HooksInv, InstallInv
  <1>4. A(c)' = A(c) /\ V(c)' = V(c) /\ leaked' = leaked /\ overlap' = overlap
    BY DEF Configure, Continue, Fail, A, V
  <1>5. DeleteAddOnStack(A(c)) \/ UNCHANGED stack
    BY DEF Configure
  <1>6. ResourcesTypeOK' /\ (~ overlap => Tidy')
    BY <1>1, <1>2, <1>4, <1>5, StackGone
  <1>7. CASE /\ DeleteAddOnStack(A(c)) /\ Subscribe(c, "stack")
             /\ Continue(c, "reup") /\ UNCHANGED todo
    <2>1. Control' /\ Alone(c) /\ pc'[c] = "reup"
      <3>1. TodoInv(c)'
        BY <1>2, <1>7 DEF Control, Locals, Continue, Goto, TodoInv
      <3> QED
        BY <1>1, <1>2, <1>7, <3>1, SubscribeControl DEF Control, Locals
    <2>2. ASSUME ~ overlap PROVE InstallInv(c)' /\ RemoveInv(c)'
      BY <1>1, <1>3, <1>4, <2>1, <2>2 DEF InstallInv, RemoveInv, Pulling, Installing, Removing
    <2> QED
      BY <1>2, <1>4, <1>6, <2>1, <2>2, GoOn
  <1>8. CASE Fail(c)
    BY <1>2, <1>3, <1>6, <1>8, FailEarly
  <1> QED
    BY <1>7, <1>8 DEF Configure

\* It brings the same version up again.
LEMMA ConfigureUpInv ==
    ASSUME ServiceInv, NEW c \in Clients, ConfigureUp(c)
    PROVE  ServiceInv'
  <1>1. pc[c] = "reup" /\ UNCHANGED <<manifest, iam, routes>>
    BY DEF ConfigureUp, At
  <1>2. /\ Control /\ ResourcesTypeOK /\ ControlInv(c) /\ tx[c] = "open" /\ A(c) \in AddOns
        /\ req[c].op # "Delete" => V(c) \in Versions
        /\ ~ overlap => Tidy /\ InstallInv(c)
    BY <1>1, AtWork DEF Outside
  <1>3. /\ hooks[c] = HS /\ V(c) \in Versions /\ affected[c] = "Configuring"
        /\ ~ overlap => manifest[A(c)] = V(c)
    BY <1>1, <1>2 DEF ControlInv, HooksInv, RequestInv, StatusInv, InstallInv
  <1>4. CreateStackWithDockerCompose(A(c), V(c)) \/ FailToCreateStack(A(c), V(c))
    BY DEF ConfigureUp
  <1>5. /\ ResourcesTypeOK' /\ images' \subseteq images \cup ImagesOf[A(c)][V(c)]
        /\ stack'[A(c)] \in {stack[A(c)], V(c)} /\ \A b \in AddOns : b # A(c) => stack'[b] = stack[b]
    BY <1>1, <1>2, <1>3, <1>4, StackMade
  <1>6. leaked' = leaked /\ A(c)' = A(c) /\ V(c)' = V(c) /\ overlap' = overlap /\ affected'[c] = affected[c]
    BY DEF ConfigureUp, Proceed, Continue, Fail, A, V
  <1>7. ~ overlap => Tidy'
    BY <1>1, <1>2, <1>3, <1>5, <1>6, TidyGrow
  <1>8. CASE CreateStackWithDockerCompose(A(c), V(c)) /\ Proceed(c, "reply")
    <2>1. Control' /\ Alone(c) /\ pc'[c] = "reply"
      BY <1>1, <1>2, <1>8, ProceedControl
    <2>2. ASSUME ~ overlap PROVE InstallInv(c)' /\ RemoveInv(c)'
      <3>1. Deployed(A(c), V(c))'
        <4>1. /\ stack'[A(c)] = V(c) /\ VolumesOf[A(c)][V(c)] \subseteq volumes'[A(c)]
              /\ ImagesOf[A(c)][V(c)] \subseteq images'
          BY <1>1, <1>2, <1>3, <1>8, StackMade
        <4> QED
          BY <1>1, <1>3, <1>6, <2>2, <4>1 DEF Deployed
      <3> QED
        BY <1>3, <1>6, <2>1, <3>1 DEF InstallInv, RemoveInv, Pulling, Installing, Removing
    <2> QED
      BY <1>2, <1>5, <1>6, <1>7, <2>1, <2>2, GoOn
  <1>9. CASE Fail(c)
    BY <1>2, <1>3, <1>5, <1>7, <1>9, FailEarly
  <1> QED
    BY <1>8, <1>9 DEF ConfigureUp

\* Removing volumes: those that the stack mounts stay.
LEMMA VolumesGone ==
    ASSUME ResourcesTypeOK, NEW a \in AddOns, NEW names, RemoveVolumes(a, names)
    PROVE  /\ volumes' \in [AddOns -> SUBSET VolumeNames]
           /\ volumes'[a] = volumes[a] \ (names \ Mounts(a, stack'[a]))
           /\ \A b \in AddOns : b # a => volumes'[b] = volumes[b]
  BY DEF ResourcesTypeOK, RemoveVolumes

\* What the new stack mounts is not pruned.
LEMMA RemoveOldVolumesInv ==
    ASSUME ServiceInv, NEW c \in Clients, RemoveOldVolumes(c)
    PROVE  ServiceInv'
  <1>1. pc[c] = "prune" /\ UNCHANGED <<manifest, stack, images, iam, routes>>
    BY DEF RemoveOldVolumes, At
  <1>2. /\ Control /\ ResourcesTypeOK /\ ControlInv(c) /\ tx[c] = "open" /\ A(c) \in AddOns
        /\ req[c].op # "Delete" => V(c) \in Versions
        /\ ~ overlap => Tidy /\ InstallInv(c)
    BY <1>1, AtWork DEF Outside
  <1>3. hooks[c] = H5 /\ V(c) \in Versions /\ affected[c] = "Updating"
    BY <1>1, <1>2 DEF ControlInv, HooksInv, RequestInv, StatusInv
  <1>4. ~ overlap => Deployed(A(c), V(c)) /\ A(c) \in iam /\ RoutesOf[A(c)][V(c)] \subseteq routes[A(c)]
    BY <1>1, <1>2, <1>3 DEF InstallInv
  <1>5. PICK names : RemoveVolumes(A(c), names)
    BY DEF RemoveOldVolumes, RemoveUnusedVolumes, FailToRemoveVolumes
  <1>6. /\ volumes' \in [AddOns -> SUBSET VolumeNames]
        /\ volumes'[A(c)] = volumes[A(c)] \ (names \ Mounts(A(c), stack'[A(c)]))
    BY <1>2, <1>5, VolumesGone
  <1>7. leaked' = leaked /\ A(c)' = A(c) /\ V(c)' = V(c) /\ overlap' = overlap /\ affected'[c] = affected[c]
    BY DEF RemoveOldVolumes, Proceed, Continue, Fail, A, V
  <1>8. ResourcesTypeOK' /\ (~ overlap => Tidy')
    <2>1. ResourcesTypeOK'
      BY <1>1, <1>2, <1>6 DEF ResourcesTypeOK
    <2> QED
      BY <1>1, <1>2, <1>7, <2>1, TidyShrink
  <1>9. CASE Proceed(c, "reply")
    <2>1. Control' /\ Alone(c) /\ pc'[c] = "reply"
      BY <1>1, <1>2, <1>9, ProceedControl
    <2>2. ASSUME ~ overlap PROVE InstallInv(c)' /\ RemoveInv(c)'
      <3>1. Mounts(A(c), stack'[A(c)]) = VolumesOf[A(c)][V(c)]
        BY <1>1, <1>3, <1>4, <2>2, NotVersions DEF Deployed, Mounts
      <3>2. VolumesOf[A(c)][V(c)] \subseteq volumes'[A(c)]
        BY <1>4, <1>6, <2>2, <3>1 DEF Deployed
      <3>3. Deployed(A(c), V(c))' /\ A(c) \in iam' /\ RoutesOf[A(c)][V(c)] \subseteq routes'[A(c)]
        BY <1>1, <1>4, <1>7, <2>2, <3>2 DEF Deployed
      <3> QED
        BY <1>3, <1>7, <2>1, <3>3 DEF InstallInv, RemoveInv, Pulling, Installing, Removing
    <2> QED
      BY <1>2, <1>7, <1>8, <2>1, <2>2, GoOn
  <1>10. CASE Fail(c)
    <2>1. H5 \notin {H2, H3, H4} /\ (~ overlap => manifest'[A(c)] = V(c))
      BY <1>1, <1>4, HookListsDistinct DEF Deployed
    <2> QED
      BY <1>2, <1>3, <1>8, <1>10, <2>1, FailBuilding
  <1> QED
    BY <1>9, <1>10 DEF RemoveOldVolumes

\* The answer of an update can still fail.
LEMMA ReplyInv ==
    ASSUME ServiceInv, NEW c \in Clients, Reply(c)
    PROVE  ServiceInv'
  <1>1. pc[c] = "reply" /\ UNCHANGED resources
    BY DEF Reply, At
  <1>2. /\ Control /\ ResourcesTypeOK /\ ControlInv(c) /\ tx[c] = "open" /\ A(c) \in AddOns
        /\ ~ overlap => Tidy /\ InstallInv(c)
    BY <1>1, AtWork DEF Outside
  <1>3. affected[c] # "Deleting" /\ hooks[c] = IF affected[c] = "Configuring" THEN HS ELSE H5
    BY <1>1, <1>2 DEF ControlInv, HooksInv, RequestInv, StatusInv
  <1>4. leaked' = leaked /\ A(c)' = A(c) /\ V(c)' = V(c) /\ overlap' = overlap /\ affected'[c] = affected[c]
    BY DEF Reply, Proceed, Continue, Fail, A, V
  <1>5. ResourcesTypeOK' /\ (~ overlap => Tidy')
    BY <1>1, <1>2, <1>4, TidySame, Same
  <1>6. CASE Proceed(c, "commit")
    <2>1. Control' /\ Alone(c) /\ pc'[c] = "commit"
      BY <1>1, <1>2, <1>6, ProceedControl
    <2>2. ASSUME ~ overlap PROVE InstallInv(c)' /\ RemoveInv(c)'
      <3>1. CASE affected[c] = "Configuring"
        <4>1. Deployed(A(c), V(c))'
          BY <1>1, <1>2, <1>4, <2>2, <3>1, Same DEF InstallInv, Deployed
        <4> QED
          BY <1>4, <2>1, <3>1, <4>1 DEF InstallInv, RemoveInv, Pulling, Installing, Removing
      <3>2. CASE affected[c] # "Configuring"
        <4>1. Deployed(A(c), V(c)) /\ A(c) \in iam /\ RoutesOf[A(c)][V(c)] \subseteq routes[A(c)]
          BY <1>1, <1>2, <1>3, <2>2, <3>2 DEF InstallInv
        <4>2. Deployed(A(c), V(c))' /\ A(c) \in iam' /\ RoutesOf[A(c)][V(c)] \subseteq routes'[A(c)]
          BY <1>1, <1>4, <4>1, Same DEF Deployed
        <4> QED
          BY <1>3, <1>4, <2>1, <3>2, <4>2 DEF InstallInv, RemoveInv, Pulling, Installing, Removing
      <3> QED
        BY <3>1, <3>2
    <2> QED
      BY <1>2, <1>4, <1>5, <2>1, <2>2, GoOn
  <1>7. CASE Fail(c)
    <2>1. CASE affected[c] = "Configuring"
      BY <1>2, <1>3, <1>5, <1>7, <2>1, FailEarly
    <2>2. CASE affected[c] # "Configuring"
      <3>1. hooks[c] = H5 /\ H5 \notin {H2, H3, H4}
        BY <1>3, <2>2, HookListsDistinct
      <3>2. ~ overlap => manifest'[A(c)] = V(c)
        BY <1>1, <1>2, <1>3, <2>2, Same DEF InstallInv, Deployed
      <3> QED
        BY <1>2, <1>5, <1>7, <3>1, <3>2, FailBuilding
    <2> QED
      BY <2>1, <2>2
  <1> QED
    BY <1>6, <1>7 DEF Reply

--------------------------------------------------------------------------------
\* DeleteAddOnRoutine

\* A deletion reads the version it is to delete.
LEMMA DeleteAddOnInv ==
    ASSUME ServiceInv, NEW c \in Clients, DeleteAddOn(c)
    PROVE  ServiceInv'
  <1>1. pc[c] = "delete" /\ UNCHANGED resources
    BY DEF DeleteAddOn, At
  <1>2. /\ Control /\ ResourcesTypeOK /\ ControlInv(c) /\ tx[c] = "open" /\ A(c) \in AddOns
        /\ ~ overlap => Tidy
    BY <1>1, AtWork DEF Outside
  <1>3. hooks[c] = H0
    BY <1>1, <1>2 DEF ControlInv, HooksInv
  <1>4. CASE Fail(c)
    BY <1>1, <1>2, <1>3, <1>4, FailUntouched
  <1>5. CASE /\ ~ Refused(c) /\ old' = [old EXCEPT ![c] = manifest[A(c)]]
             /\ SetAddOnContext(c, "Deleting") /\ Goto(c, "down")
             /\ UNCHANGED <<req, todo, tx, hooks, overlap, leaked>>
    <2>1. manifest[A(c)] \in Versions /\ manifest[A(c)] \in 0 .. MaxVersion
      BY <1>5, AddOnResourcesAssumption DEF Refused, Readable, Versions
    <2>2. A(c)' = A(c) /\ V(c)' = V(c) /\ leaked' = leaked /\ overlap' = overlap
      BY <1>5 DEF A, V
    <2>3. Control' /\ Alone(c) /\ pc'[c] = "down" /\ old'[c] = manifest[A(c)]
      BY <1>1, <1>2, <1>5, <2>1, ContextControl
    <2>4. InstallInv(c)' /\ RemoveInv(c)'
      BY <1>1, <2>2, <2>3, Same DEF InstallInv, RemoveInv, Pulling, Installing, Removing
    <2> QED
      BY <1>1, <1>2, <2>2, <2>3, <2>4, TidySame, GoOn, Same
  <1> QED
    BY <1>4, <1>5 DEF DeleteAddOn

\* While the resources are deleted the manifest of the old version is there.
LEMMA RemoveFacts ==
    ASSUME ServiceInv, NEW c \in Clients, pc[c] \in Removing \cup {"unmount"}
    PROVE  /\ Control /\ ResourcesTypeOK /\ ControlInv(c) /\ tx[c] = "open" /\ hooks[c] = H0
           /\ A(c) \in AddOns /\ old[c] \in Versions /\ req[c].op \in {"Update", "Delete"}
           /\ req[c].op = "Delete" => affected[c] = "Deleting"
           /\ ~ overlap => Tidy /\ RemoveInv(c) /\ manifest[A(c)] = old[c]
  <1>1. /\ Control /\ ResourcesTypeOK /\ ControlInv(c) /\ tx[c] = "open" /\ A(c) \in AddOns
        /\ req[c].op \in {"Create", "Update", "Delete"}
        /\ ~ overlap => Tidy /\ RemoveInv(c)
    BY AtWork DEF Outside, Removing
  <1>2. /\ hooks[c] = H0 /\ old[c] \in Versions /\ req[c].op # "Create"
        /\ req[c].op = "Delete" => affected[c] = "Deleting"
    BY <1>1 DEF ControlInv, HooksInv, OldInv, RequestInv, StatusInv
  <1>3. ~ overlap => manifest[A(c)] = old[c]
    BY <1>1 DEF RemoveInv
  <1> QED
    BY <1>1, <1>2, <1>3

\* The stack goes first.
LEMMA StackDownInv ==
    ASSUME ServiceInv, NEW c \in Clients, StackDown(c)
    PROVE  ServiceInv'
  <1>1. pc[c] = "down" /\ pc[c] \in Removing /\ UNCHANGED <<manifest, images, volumes, iam, routes>>
    BY DEF StackDown, At, Removing
  <1>2. /\ Control /\ ResourcesTypeOK /\ tx[c] = "open" /\ hooks[c] = H0
        /\ A(c) \in AddOns /\ old[c] \in Versions
        /\ ~ overlap => Tidy /\ manifest[A(c)] = old[c]
    BY <1>1, RemoveFacts
  <1>3. A(c)' = A(c) /\ V(c)' = V(c) /\ leaked' = leaked /\ overlap' = overlap /\ old'[c] = old[c]
    BY DEF StackDown, Continue, Fail, A, V
  <1>4. DeleteAddOnStack(A(c)) \/ UNCHANGED stack
    BY DEF StackDown
  <1>5. ResourcesTypeOK' /\ (~ overlap => Tidy')
    BY <1>1, <1>2, <1>3, <1>4, StackGone
  <1>6. CASE /\ DeleteAddOnStack(A(c)) /\ Todo(c, ImagesOf[A(c)][old[c]])
             /\ Continue(c, "unload") /\ UNCHANGED hooks
    <2>1. Control' /\ Alone(c) /\ pc'[c] = "unload" /\ todo'[c] = ImagesOf[A(c)][old[c]]
      <3>1. ImagesOf[A(c)][old[c]] \subseteq Images \cup RouteIds
        BY <1>2, AddOnResourcesAssumption
      <3> QED
        BY <1>1, <1>2, <1>6, <3>1, TodoControl
    <2>2. ASSUME ~ overlap PROVE InstallInv(c)' /\ RemoveInv(c)'
      <3>1. stack'[A(c)] = Absent
        BY <1>1, <1>2, <1>3, <1>6, StackGone
      <3> QED
        BY <1>1, <1>2, <1>3, <2>1, <2>2, <3>1 DEF InstallInv, RemoveInv, Pulling, Installing,
           Removing
    <2> QED
      BY <1>2, <1>3, <1>5, <2>1, <2>2, GoOn
  <1>7. CASE Fail(c)
    BY <1>2, <1>5, <1>7, FailEarly
  <1> QED
    BY <1>6, <1>7 DEF StackDown

\* Then the images of the old version, one by one.
LEMMA DeleteImagesInv ==
    ASSUME ServiceInv, NEW c \in Clients, DeleteImages(c)
    PROVE  ServiceInv'
  <1>1. pc[c] = "unload" /\ pc[c] \in Removing /\ UNCHANGED <<manifest, stack, volumes, iam, routes>>
    BY DEF DeleteImages, At, Removing
  <1>2. /\ Control /\ ResourcesTypeOK /\ tx[c] = "open" /\ hooks[c] = H0
        /\ A(c) \in AddOns /\ old[c] \in Versions
        /\ ~ overlap => Tidy /\ RemoveInv(c) /\ manifest[A(c)] = old[c]
    BY <1>1, RemoveFacts
  <1>3. ~ overlap => /\ stack[A(c)] = Absent /\ ImagesOf[A(c)][old[c]] \cap images \subseteq todo[c]
                     /\ todo[c] \subseteq ImagesOf[A(c)][old[c]]
    BY <1>1, <1>2 DEF RemoveInv
  <1>4. /\ A(c)' = A(c) /\ V(c)' = V(c) /\ leaked' = leaked /\ overlap' = overlap
        /\ old'[c] = old[c] /\ req' = req
    BY DEF DeleteImages, Proceed, Continue, Fail, A, V
  <1>5. images' \subseteq images
    BY DEF DeleteImages, DeleteDockerImage
  <1>6. ResourcesTypeOK' /\ (~ overlap => Tidy')
    <2>1. ResourcesTypeOK'
      BY <1>1, <1>2, <1>5 DEF ResourcesTypeOK
    <2> QED
      BY <1>1, <1>2, <1>4, <1>5, <2>1, TidyShrink
  <1>7. CASE \E i \in todo[c] : /\ DeleteDockerImage(i) /\ Todo(c, todo[c] \ {i})
                                /\ Continue(c, "unload") /\ UNCHANGED hooks
    <2>1. PICK i \in todo[c] : /\ DeleteDockerImage(i) /\ Todo(c, todo[c] \ {i})
                               /\ Continue(c, "unload") /\ UNCHANGED hooks
      BY <1>7
    <2>2. Control' /\ Alone(c) /\ pc'[c] = "unload" /\ todo'[c] = todo[c] \ {i}
      BY <1>1, <1>2, <2>1, LoopControl
    <2>3. ASSUME ~ overlap PROVE InstallInv(c)' /\ RemoveInv(c)'
      <3>1. /\ ImagesOf[A(c)][old[c]] \cap images' \subseteq todo'[c]
            /\ todo'[c] \subseteq ImagesOf[A(c)][old[c]]
        BY <1>3, <2>1, <2>2, <2>3 DEF DeleteDockerImage
      <3> QED
        BY <1>1, <1>2, <1>3, <1>4, <2>2, <2>3, <3>1 DEF InstallInv, RemoveInv, Pulling,
           Installing, Removing
    <2> QED
      BY <1>2, <1>4, <1>6, <2>2, <2>3, GoOn
  <1>8. CASE Fail(c)
    BY <1>2, <1>6, <1>8, FailEarly
  <1>9. CASE todo[c] = {} /\ req[c].op = "Delete" /\ Proceed(c, "unmount") /\ UNCHANGED images
    <2>1. Control' /\ Alone(c) /\ pc'[c] = "unmount"
      BY <1>1, <1>2, <1>9, ProceedControl
    <2>2. ASSUME ~ overlap PROVE InstallInv(c)' /\ RemoveInv(c)'
      <3>1. ImagesOf[A(c)][old[c]] \cap images' = {}
        BY <1>3, <1>9, <2>2
      <3> QED
        BY <1>1, <1>2, <1>3, <1>4, <2>1, <2>2, <3>1 DEF InstallInv, RemoveInv, Pulling,
           Installing, Removing
    <2> QED
      BY <1>2, <1>4, <1>6, <2>1, <2>2, GoOn
  <1>10. CASE /\ todo[c] = {} /\ req[c].op = "Update" /\ Todo(c, RoutesOf[A(c)][old[c]])
              /\ Continue(c, "unpublish") /\ UNCHANGED hooks /\ UNCHANGED images
    <2>1. Control' /\ Alone(c) /\ pc'[c] = "unpublish" /\ todo'[c] = RoutesOf[A(c)][old[c]]
      <3>1. RoutesOf[A(c)][old[c]] \subseteq Images \cup RouteIds
        BY <1>2, AddOnResourcesAssumption
      <3> QED
        BY <1>1, <1>2, <1>10, <3>1, TodoControl
    <2>2. ASSUME ~ overlap PROVE InstallInv(c)' /\ RemoveInv(c)'
      <3>1. ImagesOf[A(c)][old[c]] \cap images' = {}
        BY <1>3, <1>10, <2>2
      <3> QED
        BY <1>1, <1>2, <1>3, <1>4, <1>10, <2>1, <2>2, <3>1 DEF InstallInv, RemoveInv, Pulling,
           Installing, Removing
    <2> QED
      BY <1>2, <1>4, <1>6, <2>1, <2>2, GoOn
  <1> QED
    BY <1>7, <1>8, <1>9, <1>10 DEF DeleteImages

\* Then, for a deletion only, its volumes, which nothing mounts any more.
LEMMA DeleteVolumesInv ==
    ASSUME ServiceInv, NEW c \in Clients, DeleteVolumes(c)
    PROVE  ServiceInv'
  <1>1. pc[c] = "unmount" /\ UNCHANGED <<manifest, stack, images, iam, routes>>
    BY DEF DeleteVolumes, At
  <1>2. /\ Control /\ ResourcesTypeOK /\ tx[c] = "open" /\ hooks[c] = H0
        /\ A(c) \in AddOns /\ old[c] \in Versions
        /\ ~ overlap => Tidy /\ RemoveInv(c) /\ manifest[A(c)] = old[c]
    BY <1>1, RemoveFacts
  <1>3. ~ overlap => stack[A(c)] = Absent /\ ImagesOf[A(c)][old[c]] \cap images = {}
    BY <1>1, <1>2 DEF RemoveInv
  <1>4. /\ A(c)' = A(c) /\ V(c)' = V(c) /\ leaked' = leaked /\ overlap' = overlap
        /\ old'[c] = old[c] /\ req' = req
    BY DEF DeleteVolumes, Continue, Fail, A, V
  <1>5. ResourcesTypeOK' /\ (~ overlap => Tidy')
    <2>1. PICK names : RemoveVolumes(A(c), names)
      BY DEF DeleteVolumes, RemoveUnusedVolumes, FailToRemoveVolumes
    <2>2. ResourcesTypeOK'
      BY <1>1, <1>2, <2>1, VolumesGone DEF ResourcesTypeOK
    <2> QED
      BY <1>1, <1>2, <1>4, <2>2, TidyShrink
  <1>6. CASE /\ RemoveUnusedVolumes(A(c), old[c]) /\ Todo(c, RoutesOf[A(c)][old[c]])
             /\ Continue(c, "unpublish") /\ UNCHANGED hooks
    <2>1. Control' /\ Alone(c) /\ pc'[c] = "unpublish" /\ todo'[c] = RoutesOf[A(c)][old[c]]
      <3>1. RoutesOf[A(c)][old[c]] \subseteq Images \cup RouteIds
        BY <1>2, AddOnResourcesAssumption
      <3> QED
        BY <1>1, <1>2, <1>6, <3>1, TodoControl
    <2>2. ASSUME ~ overlap PROVE InstallInv(c)' /\ RemoveInv(c)'
      <3>1. VolumesOf[A(c)][old[c]] \cap volumes'[A(c)] = {}
        <4>1. volumes'[A(c)] = volumes[A(c)] \ (VolumesOf[A(c)][old[c]] \ Mounts(A(c), stack'[A(c)]))
          BY <1>2, <1>6, VolumesGone DEF RemoveUnusedVolumes
        <4> QED
          BY <1>1, <1>3, <2>2, <4>1 DEF Mounts
      <3> QED
        BY <1>1, <1>2, <1>3, <1>4, <2>1, <2>2, <3>1 DEF InstallInv, RemoveInv, Pulling,
           Installing, Removing
    <2> QED
      BY <1>2, <1>4, <1>5, <2>1, <2>2, GoOn
  <1>7. CASE Fail(c)
    BY <1>2, <1>5, <1>7, FailEarly
  <1> QED
    BY <1>6, <1>7 DEF DeleteVolumes

\* Then its routes, one by one.
LEMMA DeleteProxyRoutesInv ==
    ASSUME ServiceInv, NEW c \in Clients, DeleteProxyRoutes(c)
    PROVE  ServiceInv'
  <1>1. pc[c] = "unpublish" /\ pc[c] \in Removing /\ UNCHANGED <<manifest, stack, images, volumes, iam>>
    BY DEF DeleteProxyRoutes, At, Removing
  <1>2. /\ Control /\ ResourcesTypeOK /\ tx[c] = "open" /\ hooks[c] = H0
        /\ A(c) \in AddOns /\ old[c] \in Versions
        /\ ~ overlap => Tidy /\ RemoveInv(c) /\ manifest[A(c)] = old[c]
    BY <1>1, RemoveFacts
  <1>3. ~ overlap => /\ stack[A(c)] = Absent /\ ImagesOf[A(c)][old[c]] \cap images = {}
                     /\ req[c].op = "Delete" => VolumesOf[A(c)][old[c]] \cap volumes[A(c)] = {}
                     /\ RoutesOf[A(c)][old[c]] \cap routes[A(c)] \subseteq todo[c]
    BY <1>1, <1>2 DEF RemoveInv, Removing
  <1>4. /\ A(c)' = A(c) /\ V(c)' = V(c) /\ leaked' = leaked /\ overlap' = overlap
        /\ old'[c] = old[c] /\ req' = req
    BY DEF DeleteProxyRoutes, Proceed, Continue, Fail, A, V
  <1>5. \/ UNCHANGED routes
        \/ \E id \in todo[c] : routes' = [routes EXCEPT ![A(c)] = @ \ {id}]
    BY DEF DeleteProxyRoutes, DeleteRoute
  <1>6. ResourcesTypeOK' /\ \A b \in AddOns : routes'[b] \subseteq routes[b]
    <2>1. CASE UNCHANGED routes
      BY <1>1, <1>2, <2>1 DEF ResourcesTypeOK
    <2>2. CASE \E id \in todo[c] : routes' = [routes EXCEPT ![A(c)] = @ \ {id}]
      BY <1>1, <1>2, <2>2 DEF ResourcesTypeOK
    <2> QED
      BY <1>5, <2>1, <2>2
  <1>7. ~ overlap => Tidy'
    BY <1>1, <1>2, <1>4, <1>6, TidyShrink
  <1>8. CASE \E id \in todo[c] : /\ DeleteRoute(A(c), id) /\ Todo(c, todo[c] \ {id})
                                 /\ Continue(c, "unpublish") /\ UNCHANGED hooks
    <2>1. PICK id \in todo[c] : /\ DeleteRoute(A(c), id) /\ Todo(c, todo[c] \ {id})
                                /\ Continue(c, "unpublish") /\ UNCHANGED hooks
      BY <1>8
    <2>2. Control' /\ Alone(c) /\ pc'[c] = "unpublish" /\ todo'[c] = todo[c] \ {id}
      BY <1>1, <1>2, <2>1, LoopControl
    <2>3. routes'[A(c)] = routes[A(c)] \ {id}
      BY <1>2, <2>1 DEF DeleteRoute, ResourcesTypeOK
    <2>4. ASSUME ~ overlap PROVE InstallInv(c)' /\ RemoveInv(c)'
      <3>1. RoutesOf[A(c)][old[c]] \cap routes'[A(c)] \subseteq todo'[c]
        BY <1>3, <2>2, <2>3, <2>4
      <3> QED
        BY <1>1, <1>2, <1>3, <1>4, <2>2, <2>4, <3>1 DEF InstallInv, RemoveInv, Pulling,
           Installing, Removing
    <2> QED
      BY <1>2, <1>4, <1>6, <1>7, <2>2, <2>4, GoOn
  <1>9. CASE Fail(c)
    BY <1>2, <1>6, <1>7, <1>9, FailEarly
  <1>10. CASE todo[c] = {} /\ Proceed(c, "revoke") /\ UNCHANGED routes
    <2>1. Control' /\ Alone(c) /\ pc'[c] = "revoke"
      BY <1>1, <1>2, <1>10, ProceedControl
    <2>2. ASSUME ~ overlap PROVE InstallInv(c)' /\ RemoveInv(c)'
      <3>1. RoutesOf[A(c)][old[c]] \cap routes'[A(c)] = {}
        BY <1>3, <1>10, <2>2
      <3> QED
        BY <1>1, <1>2, <1>3, <1>4, <2>1, <2>2, <3>1 DEF InstallInv, RemoveInv, Pulling,
           Installing, Removing
    <2> QED
      BY <1>2, <1>4, <1>6, <1>7, <2>1, <2>2, GoOn
  <1> QED
    BY <1>8, <1>9, <1>10 DEF DeleteProxyRoutes

\* Then its permission.
LEMMA DeleteIamPermissionInv ==
    ASSUME ServiceInv, NEW c \in Clients, DeleteIamPermission(c)
    PROVE  ServiceInv'
  <1>1. pc[c] = "revoke" /\ pc[c] \in Removing /\ UNCHANGED <<manifest, stack, images, volumes, routes>>
    BY DEF DeleteIamPermission, At, Removing
  <1>2. /\ Control /\ ResourcesTypeOK /\ tx[c] = "open" /\ hooks[c] = H0
        /\ A(c) \in AddOns /\ old[c] \in Versions
        /\ ~ overlap => Tidy /\ RemoveInv(c) /\ manifest[A(c)] = old[c]
    BY <1>1, RemoveFacts
  <1>3. ~ overlap => /\ stack[A(c)] = Absent /\ ImagesOf[A(c)][old[c]] \cap images = {}
                     /\ req[c].op = "Delete" => VolumesOf[A(c)][old[c]] \cap volumes[A(c)] = {}
                     /\ RoutesOf[A(c)][old[c]] \cap routes[A(c)] = {}
    BY <1>1, <1>2 DEF RemoveInv, Removing
  <1>4. /\ A(c)' = A(c) /\ V(c)' = V(c) /\ leaked' = leaked /\ overlap' = overlap
        /\ old'[c] = old[c] /\ req' = req
    BY DEF DeleteIamPermission, Proceed, Continue, Fail, A, V
  <1>5. iam' \in {iam, iam \ {A(c)}}
    BY DEF DeleteIamPermission, DeletePermission
  <1>6. ResourcesTypeOK' /\ (~ overlap => Tidy')
    <2>1. ResourcesTypeOK'
      BY <1>1, <1>2, <1>5 DEF ResourcesTypeOK
    <2> QED
      BY <1>1, <1>2, <1>4, <1>5, <2>1, TidyShrink
  <1>7. CASE DeletePermission(A(c)) /\ Proceed(c, "forget")
    <2>1. Control' /\ Alone(c) /\ pc'[c] = "forget" /\ A(c) \notin iam'
      BY <1>1, <1>2, <1>7, ProceedControl DEF DeletePermission
    <2>2. ASSUME ~ overlap PROVE InstallInv(c)' /\ RemoveInv(c)'
      BY <1>1, <1>2, <1>3, <1>4, <2>1, <2>2 DEF InstallInv, RemoveInv, Pulling, Installing,
         Removing
    <2> QED
      BY <1>2, <1>4, <1>6, <2>1, <2>2, GoOn
  <1>8. CASE Fail(c)
    BY <1>2, <1>6, <1>8, FailEarly
  <1> QED
    BY <1>7, <1>8 DEF DeleteIamPermission

\* When the manifest goes there is nothing left that it could answer for.
LEMMA DeleteManifestInv ==
    ASSUME ServiceInv, NEW c \in Clients, DeleteManifest(c)
    PROVE  ServiceInv'
  <1>1. pc[c] = "forget" /\ pc[c] \in Removing /\ UNCHANGED <<stack, images, volumes, iam, routes>>
    BY DEF DeleteManifest, At, Removing
  <1>2. /\ Control /\ ResourcesTypeOK /\ tx[c] = "open" /\ hooks[c] = H0
        /\ A(c) \in AddOns /\ old[c] \in Versions
        /\ req[c].op \in {"Update", "Delete"} /\ (req[c].op = "Delete" => affected[c] = "Deleting")
        /\ ~ overlap => Tidy /\ RemoveInv(c) /\ manifest[A(c)] = old[c]
    BY <1>1, RemoveFacts
  <1>3. ~ overlap => /\ stack[A(c)] = Absent /\ ImagesOf[A(c)][old[c]] \cap images = {}
                     /\ req[c].op = "Delete" => VolumesOf[A(c)][old[c]] \cap volumes[A(c)] = {}
                     /\ RoutesOf[A(c)][old[c]] \cap routes[A(c)] = {} /\ A(c) \notin iam
    BY <1>1, <1>2 DEF RemoveInv, Removing
  <1>4. /\ A(c)' = A(c) /\ V(c)' = V(c) /\ leaked' = leaked /\ overlap' = overlap /\ old'[c] = old[c]
        /\ req' = req /\ affected' = affected
    BY DEF DeleteManifest, Proceed, Continue, Fail, A, V
  <1>5. ASSUME ~ overlap PROVE Bare(A(c)) /\ Foreign(A(c))
    <2>1. Bare(A(c))
      BY <1>2, <1>3, <1>5 DEF Bare, Tidy, Whole
    <2>2. ASSUME NEW i \in images PROVE Kept(i, A(c))
      <3>1. PICK b \in AddOns : Owns(b, i) \/ LeftBy(b, i)
        BY <1>2, <1>5 DEF Tidy
      <3>2. ~ Owns(A(c), i)
        BY <1>2, <1>3, <1>5 DEF Owns
      <3> QED
        BY <3>1, <3>2 DEF Kept
    <2> QED
      BY <2>1, <2>2 DEF Foreign
  <1>6. /\ ResourcesTypeOK' /\ (~ overlap => Tidy')
        /\ DeleteAddOnDir(A(c)) => manifest'[A(c)] = Absent
    <2>1. CASE DeleteAddOnDir(A(c))
      <3>1. ResourcesTypeOK' /\ manifest'[A(c)] = Absent
        BY <1>1, <1>2, <2>1, AddOnResourcesAssumption DEF DeleteAddOnDir, SetManifest,
           ResourcesTypeOK, Absent
      <3>2. ~ overlap => Tidy'
        BY <1>1, <1>2, <1>4, <1>5, <2>1, TidyManifest DEF DeleteAddOnDir
      <3> QED
        BY <3>1, <3>2
    <2>2. CASE ~ DeleteAddOnDir(A(c))
      <3>1. UNCHANGED resources
        BY <1>1, <2>2 DEF DeleteManifest, resources
      <3> QED
        BY <1>2, <1>4, <2>2, <3>1, TidySame, Same
    <2> QED
      BY <2>1, <2>2
  <1>7. CASE DeleteAddOnDir(A(c)) /\ Proceed(c, IF req[c].op = "Update" THEN "create" ELSE "commit")
    <2> DEFINE p == IF req[c].op = "Update" THEN "create" ELSE "commit"
    <2>0. p = "create" \/ (p = "commit" /\ affected'[c] = "Deleting" /\ req[c].op = "Delete")
      BY <1>2, <1>4
    <2>1. Control' /\ Alone(c) /\ pc'[c] = p
      BY <1>1, <1>2, <1>7, ProceedControl
    <2> HIDE DEF p
    <2>2. ASSUME ~ overlap PROVE InstallInv(c)' /\ RemoveInv(c)'
      <3>1. CASE p = "create"
        BY <2>1, <3>1 DEF InstallInv, RemoveInv, Pulling, Installing, Removing
      <3>2. CASE p = "commit" /\ affected'[c] = "Deleting" /\ req[c].op = "Delete"
        <4>1. Gone(A(c), old[c])'
          BY <1>1, <1>3, <1>4, <1>6, <1>7, <2>2, <3>2 DEF Gone
        <4> QED
          BY <2>1, <3>2, <4>1 DEF InstallInv, RemoveInv, Pulling, Installing, Removing
      <3> QED
        BY <2>0, <3>1, <3>2
    <2> QED
      BY <1>2, <1>4, <1>6, <2>0, <2>1, <2>2, GoOn
  <1>8. CASE Fail(c)
    BY <1>2, <1>6, <1>8, FailEarly
  <1> QED
    BY <1>7, <1>8 DEF DeleteManifest

\* Rollback: a hook leaves what the hooks before it rely on.
LEMMA RunHookInv ==
    ASSUME ServiceInv, NEW c \in Clients, RunHook(c)
    PROVE  ServiceInv'
  <1>1. Control /\ ResourcesTypeOK /\ (~ overlap => Tidy /\ UndoInv(c))
    BY DEF ServiceInv, Work, WorkInv
  <1>a. PICK a \in AddOns : a = A(c)
    BY <1>1, HookControl
  <1>v. PICK v \in Versions : v = V(c)
    BY <1>1, HookControl
  <1>2. /\ Control' /\ Alone(c) /\ pc[c] = "rollback" /\ pc'[c] = "rollback" /\ tx[c] = "undoing"
        /\ A(c)' = a /\ V(c)' = v /\ overlap' = overlap
        /\ \/ hooks[c] = H1 /\ hooks'[c] = H0 /\ UndoManifest(a)
           \/ hooks[c] = H2 /\ hooks'[c] = H1 /\ UndoImages(a, v)
           \/ hooks[c] = H3 /\ hooks'[c] = H2 /\ UndoStack(a, v)
           \/ hooks[c] = H4 /\ hooks'[c] = H3 /\ UndoPermission(a)
           \/ hooks[c] = H5 /\ hooks'[c] = H4 /\ UndoRoutes(a, v)
           \/ hooks[c] = HS /\ hooks'[c] = H0 /\ UndoStack(a, v)
    BY <1>1, <1>a, <1>v, HookControl
  <1>3. InstallInv(c)' /\ RemoveInv(c)'
    BY <1>2 DEF InstallInv, RemoveInv, Pulling, Installing, Removing
  <1>4. SUFFICES ResourcesTypeOK' /\ (~ overlap => Tidy' /\ UndoInv(c)')
    BY <1>2, <1>3, WorkStep DEF WorkInv
  <1>5. ASSUME ~ overlap
        PROVE  /\ Tidy
               /\ hooks[c] \in {H2, H3, H4, H5} => manifest[a] = v
               /\ hooks[c] = H1 => Foreign(a)
               /\ a \notin leaked =>
                   /\ hooks[c] \in {H1, H2, H3, H4} => routes[a] = {}
                   /\ hooks[c] \in {H1, H2, H3} => a \notin iam
                   /\ hooks[c] \in {H1, H2} => stack[a] = Absent
    BY <1>1, <1>2, <1>5, <1>a, <1>v DEF UndoInv
  <1>6. CASE hooks[c] = H1 /\ hooks'[c] = H0 /\ UndoManifest(a)
    <2>1. UndoInv(c)'
      BY <1>6, HookListsDistinct DEF UndoInv
    <2>2. CASE DeleteAddOnDir(a) /\ leaked' = leaked
      <3>1. ResourcesTypeOK'
        BY <1>1, <1>2, <1>6, <2>2, AddOnResourcesAssumption
           DEF UndoManifest, DeleteAddOnDir, SetManifest, ResourcesTypeOK, Absent
      <3>2. ~ overlap => Bare(a) /\ Foreign(a) /\ Tidy
        BY <1>5, <1>6 DEF Bare
      <3>3. ~ overlap => Tidy'
        BY <1>1, <1>2, <1>6, <2>2, <3>2, TidyManifest DEF UndoManifest, DeleteAddOnDir
      <3> QED
        BY <2>1, <3>1, <3>3
    <2>3. CASE UNCHANGED manifest /\ Leak(a)
      <3>1. UNCHANGED resources /\ leaked \subseteq leaked'
        BY <1>6, <2>3 DEF UndoManifest, resources, Leak
      <3>2. ~ overlap => Tidy'
        BY <1>5, <3>1, TidyShrink, Same
      <3> QED
        BY <1>1, <2>1, <3>1, <3>2, Same
    <2> QED
      BY <1>6, <2>2, <2>3 DEF UndoManifest
  <1>7. CASE hooks[c] = H2 /\ hooks'[c] = H1 /\ UndoImages(a, v)
    <2>1. /\ UNCHANGED <<manifest, stack, volumes, iam, routes>> /\ images' \subseteq images
          /\ leaked \subseteq leaked'
          /\ a \in leaked' \/ images' = images \ ImagesOf[a][v]
      BY <1>7 DEF UndoImages, Leak
    <2>2. ResourcesTypeOK'
      BY <1>1, <2>1 DEF ResourcesTypeOK
    <2>3. ASSUME ~ overlap PROVE Tidy' /\ UndoInv(c)'
      <3>1. Tidy'
        BY <1>5, <2>1, <2>3, TidyShrink
      <3>2. ASSUME NEW i \in images' PROVE Kept(i, a)'
        <4>1. PICK b \in AddOns : Owns(b, i)' \/ LeftBy(b, i)'
          BY <3>1, <3>2 DEF Tidy
        <4>2. CASE Owns(a, i)'
          <5>1. manifest'[a] = v /\ i \in ImagesOf[a][v]
            BY <1>5, <1>7, <2>1, <2>3, <4>2 DEF Owns
          <5>2. a \in leaked'
            BY <2>1, <3>2, <5>1
          <5> QED
            BY <1>2, <5>1, <5>2 DEF Kept, LeftBy
        <4>3. CASE ~ Owns(a, i)'
          BY <4>1, <4>3 DEF Kept
        <4> QED
          BY <4>2, <4>3
      <3>3. Foreign(a)'
        BY <3>2 DEF Foreign
      <3>4. hooks'[c] \notin {H2, H3, H4, H5}
        BY <1>7, HookListsDistinct
      <3>5. a \notin leaked' => routes'[a] = {} /\ a \notin iam' /\ stack'[a] = Absent
        BY <1>5, <1>7, <2>1, <2>3
      <3>6. Foreign(A(c))'
        BY <1>2, <3>3 DEF Foreign, Kept
      <3> QED
        BY <1>2, <3>1, <3>4, <3>5, <3>6 DEF UndoInv
    <2> QED
      BY <2>2, <2>3
  <1>8. ASSUME UndoStack(a, v)
        PROVE  /\ ResourcesTypeOK' /\ UNCHANGED <<manifest, images, iam, routes>>
               /\ leaked \subseteq leaked'
               /\ a \in leaked' \/ stack'[a] = Absent
               /\ ~ overlap => Tidy'
    <2>1. UNCHANGED <<manifest, images, iam, routes>> /\ leaked \subseteq leaked'
      BY <1>8 DEF UndoStack, Leak
    <2>2. /\ stack' \in [AddOns -> 0 .. MaxVersion] /\ \A b \in AddOns : stack'[b] \in {stack[b], Absent}
          /\ a \in leaked' \/ stack'[a] = Absent
      <3>1. CASE DeleteAddOnStack(a)
        BY <1>1, <1>2, <3>1, AddOnResourcesAssumption DEF DeleteAddOnStack, ResourcesTypeOK,
           Absent
      <3>2. CASE UNCHANGED stack /\ Leak(a)
        BY <1>1, <3>2 DEF ResourcesTypeOK, Leak
      <3> QED
        BY <1>8, <3>1, <3>2 DEF UndoStack
    <2>3. PICK names : RemoveVolumes(a, names)
      BY <1>8 DEF UndoStack, FailToRemoveVolumes
    <2>4. ResourcesTypeOK'
      BY <1>1, <1>2, <2>1, <2>2, <2>3, VolumesGone DEF ResourcesTypeOK
    <2>5. ~ overlap => Tidy'
      BY <1>5, <2>1, <2>2, TidyShrink
    <2> QED
      BY <2>1, <2>2, <2>4, <2>5
  <1>9. CASE hooks[c] = H3 /\ hooks'[c] = H2 /\ UndoStack(a, v)
    <2>1. ASSUME ~ overlap PROVE UndoInv(c)'
      <3>1. hooks'[c] # H1 /\ hooks[c] = H3 /\ hooks'[c] = H2
        BY <1>9, HookListsDistinct
      <3>2. manifest'[a] = v
        BY <1>5, <1>8, <1>9, <2>1
      <3>3. a \notin leaked' => routes'[a] = {} /\ a \notin iam' /\ stack'[a] = Absent
        BY <1>5, <1>8, <1>9, <2>1
      <3> QED
        BY <1>2, <3>1, <3>2, <3>3 DEF UndoInv
    <2> QED
      BY <1>8, <1>9, <2>1
  <1>10. CASE hooks[c] = HS /\ hooks'[c] = H0 /\ UndoStack(a, v)
    <2>1. UndoInv(c)'
      BY <1>10, HookListsDistinct DEF UndoInv
    <2> QED
      BY <1>8, <1>10, <2>1
  <1>11. CASE hooks[c] = H4 /\ hooks'[c] = H3 /\ UndoPermission(a)
    <2>1. /\ UNCHANGED <<manifest, stack, images, volumes, routes>>
          /\ iam' \subseteq iam /\ leaked \subseteq leaked'
          /\ a \in leaked' \/ a \notin iam'
      BY <1>11 DEF UndoPermission, Leak, DeletePermission
    <2>2. ResourcesTypeOK'
      BY <1>1, <2>1 DEF ResourcesTypeOK
    <2>3. ASSUME ~ overlap PROVE Tidy' /\ UndoInv(c)'
      <3>1. Tidy'
        BY <1>5, <2>1, <2>3, TidyShrink
      <3>2. hooks'[c] \notin {H1, H2} /\ hooks'[c] = H3
        BY <1>11, HookListsDistinct
      <3>3. manifest'[a] = v /\ (a \notin leaked' => routes'[a] = {} /\ a \notin iam')
        BY <1>5, <1>11, <2>1, <2>3
      <3> QED
        BY <1>2, <3>1, <3>2, <3>3 DEF UndoInv
    <2> QED
      BY <2>2, <2>3
  <1>12. CASE hooks[c] = H5 /\ hooks'[c] = H4 /\ UndoRoutes(a, v)
    <2>1. /\ UNCHANGED <<manifest, stack, images, volumes, iam>> /\ leaked \subseteq leaked'
      BY <1>12 DEF UndoRoutes, Leak
    <2>2. /\ routes' \in [AddOns -> SUBSET RouteIds] /\ \A b \in AddOns : routes'[b] \subseteq routes[b]
          /\ a \in leaked' \/ routes'[a] = routes[a] \ RoutesOf[a][v]
      <3>1. CASE routes' = [routes EXCEPT ![a] = @ \ RoutesOf[a][v]]
        BY <1>1, <1>2, <3>1 DEF ResourcesTypeOK
      <3>2. CASE /\ \E ids \in SUBSET RoutesOf[a][v] : routes' = [routes EXCEPT ![a] = @ \ ids]
                 /\ Leak(a)
        BY <1>1, <1>2, <3>2 DEF ResourcesTypeOK, Leak
      <3> QED
        BY <1>12, <3>1, <3>2 DEF UndoRoutes
    <2>3. ResourcesTypeOK'
      BY <1>1, <2>1, <2>2 DEF ResourcesTypeOK
    <2>4. ASSUME ~ overlap PROVE Tidy' /\ UndoInv(c)'
      <3>1. Tidy'
        BY <1>5, <2>1, <2>2, <2>4, TidyShrink
      <3>2. hooks'[c] \notin {H1, H2, H3} /\ hooks'[c] = H4
        BY <1>12, HookListsDistinct
      <3>3. manifest'[a] = v /\ manifest[a] = v
        BY <1>5, <1>12, <2>1, <2>4
      <3>4. a \notin leaked' => routes'[a] = {}
        BY <1>2, <1>5, <2>1, <2>2, <2>4, <3>3 DEF Tidy, Whole
      <3> QED
        BY <1>2, <3>1, <3>2, <3>3, <3>4 DEF UndoInv
    <2> QED
      BY <2>3, <2>4
  <1> QED
    BY <1>2, <1>6, <1>7, <1>9, <1>10, <1>11, <1>12

--------------------------------------------------------------------------------
\* Around the transaction

\* What a goroutine works on is as it was.
LEMMA WorkSame ==
    ASSUME NEW d \in Clients, WorkInv(d), UNCHANGED resources, leaked' = leaked,
           pc'[d] = pc[d], old'[d] = old[d], todo'[d] = todo[d], req'[d] = req[d],
           hooks'[d] = hooks[d], affected'[d] = affected[d]
    PROVE  WorkInv(d)'
  <1>1. UNCHANGED <<manifest, stack, images, volumes, iam, routes>> /\ A(d)' = A(d) /\ V(d)' = V(d)
    BY Same DEF A, V
  <1>2. /\ Foreign(A(d))' = Foreign(A(d)) /\ Bare(A(d))' = Bare(A(d))
        /\ Deployed(A(d), V(d))' = Deployed(A(d), V(d)) /\ Gone(A(d), old[d])' = Gone(A(d), old[d])
    BY <1>1 DEF Foreign, Kept, Owns, LeftBy, Readable, Bare, Deployed, Gone
  <1>3. InstallInv(d)'
    BY <1>1, <1>2 DEF WorkInv, InstallInv
  <1>4. RemoveInv(d)'
    BY <1>1, <1>2 DEF WorkInv, RemoveInv
  <1>5. UndoInv(d)'
    BY <1>1, <1>2 DEF WorkInv, UndoInv
  <1> QED
    BY <1>3, <1>4, <1>5 DEF WorkInv

\* A goroutine without a transaction has no part in what is at work.
LEMMA OutsideStep ==
    ASSUME ServiceInv, NEW c \in Clients, Control', Alone(c), pc'[c] \in Outside,
           UNCHANGED resources, UNCHANGED <<overlap, leaked>>
    PROVE  ServiceInv'
  <1>1. ResourcesTypeOK' /\ UNCHANGED <<manifest, stack, images, volumes, iam, routes>>
    BY Same DEF ServiceInv
  <1>2. SUFFICES ASSUME ~ overlap PROVE Work'
    BY <1>1 DEF ServiceInv
  <1>3. OneAtWork /\ Tidy /\ \A d \in Clients : WorkInv(d)
    BY <1>2 DEF ServiceInv, Work
  <1>4. tx'[c] = "none"
    BY DEF Control, ControlInv, TxInv
  <1>5. OneAtWork'
    BY <1>3, <1>4 DEF OneAtWork, Alone
  <1>6. Tidy'
    BY <1>3, TidySame
  <1>7. ASSUME NEW d \in Clients PROVE WorkInv(d)'
    <2>1. CASE d = c
      BY <2>1 DEF Outside, WorkInv, InstallInv, RemoveInv, UndoInv, Pulling, Installing, Removing
    <2>2. CASE d # c
      BY <1>3, <2>2, WorkSame DEF Alone
    <2> QED
      BY <2>1, <2>2
  <1> QED
    BY <1>5, <1>6, <1>7 DEF Work

\* A handler returns.
LEMMA ReturnInv ==
    ASSUME ServiceInv, NEW c \in Clients, Return(c), UNCHANGED resources
    PROVE  ServiceInv'
  <1>1. Control' /\ Alone(c) /\ pc'[c] \in Outside
    BY ReturnControl DEF ServiceInv, Outside
  <1> QED
    BY <1>1, OutsideStep DEF Return

\* A request comes in.
LEMMA RequestInvariant ==
    ASSUME ServiceInv, NEW c \in Clients, NEW r \in Requests, Request(c, r)
    PROVE  ServiceInv'
  <1>1. req'[c] = r /\ req' = [req EXCEPT ![c] = req'[c]]
    BY DEF ServiceInv, Control, Locals, Request
  <1>2. Control' /\ Alone(c) /\ pc'[c] \in Outside
    BY <1>1, RequestControl DEF ServiceInv, Request, At
  <1> QED
    BY <1>2, OutsideStep DEF Request

\* The version is checked before the transaction.
LEMMA IsValidUpdateInv ==
    ASSUME ServiceInv, NEW c \in Clients, IsValidUpdate(c)
    PROVE  ServiceInv'
  <1>1. CASE Proceed(c, "begin")
    <2>1. pc[c] = "validate" /\ Control /\ UNCHANGED resources
      BY DEF IsValidUpdate, At, ServiceInv
    <2>2. req[c] \in Requests /\ req'[c] = req[c] /\ req' = [req EXCEPT ![c] = req'[c]]
      BY <1>1, <2>1, WorksOn DEF Proceed, Continue, Control, Locals
    <2>3. Control' /\ Alone(c) /\ pc'[c] \in Outside
      BY <1>1, <2>1, <2>2, RequestControl DEF Proceed, Continue
    <2> QED
      BY <1>1, <2>1, <2>3, OutsideStep DEF Proceed, Continue
  <1>2. CASE Return(c)
    BY <1>2, ReturnInv DEF IsValidUpdate
  <1> QED
    BY <1>1, <1>2 DEF IsValidUpdate

\* Without an overlap a transaction begins when no other one is at work.
LEMMA InitializeTransactionInv ==
    ASSUME ServiceInv, NEW c \in Clients, InitializeTransaction(c)
    PROVE  ServiceInv'
  <1>1. Control /\ Control' /\ Alone(c) /\ pc'[c] \in {"create", "replace", "delete"} /\ UNCHANGED resources
    BY BeginControl DEF ServiceInv, InitializeTransaction
  <1>2. ResourcesTypeOK'
    BY <1>1, Same DEF ServiceInv
  <1>3. SUFFICES ASSUME ~ overlap' PROVE Work'
    BY <1>1, <1>2 DEF ServiceInv
  <1>4. ~ overlap /\ \A d \in Clients : tx[d] \notin {"open", "undoing"}
    BY <1>3 DEF InitializeTransaction, TransactionOpen
  <1>5. ASSUME NEW d \in Clients, d # c PROVE tx'[d] = "none" /\ pc'[d] \in Outside
    <2>1. tx[d] = "none" /\ tx'[d] = tx[d] /\ pc'[d] = pc[d]
      BY <1>1, <1>4, <1>5 DEF Control, Locals, Alone
    <2> QED
      BY <1>1, <2>1 DEF Control, ControlInv, TxInv
  <1>6. OneAtWork'
    BY <1>5 DEF OneAtWork
  <1>7. Tidy'
    BY <1>1, <1>4, TidySame DEF ServiceInv, Work, InitializeTransaction
  <1>8. ASSUME NEW d \in Clients PROVE WorkInv(d)'
    <2>1. pc'[d] \in Outside \cup {"create", "replace", "delete"}
      BY <1>1, <1>5
    <2> QED
      BY <2>1 DEF Outside, WorkInv, InstallInv, RemoveInv, UndoInv, Pulling, Installing, Removing
  <1> QED
    BY <1>6, <1>7, <1>8 DEF Work

\* A crash forgets the transactions and leaves the device as it is.
LEMMA CrashInv ==
    ASSUME ServiceInv, Crash
    PROVE  ServiceInv'
  <1>1. <<>> \in Seq(HookNames) /\ 0 \in 0 .. MaxVersion /\ H0 = <<>>
    BY HookLists, AddOnResourcesAssumption DEF H0
  <1>2. Locals'
    BY <1>1 DEF ServiceInv, Control, Locals, Crash, Points, Operations, Absent
  <1>3. ASSUME NEW c \in Clients PROVE ControlInv(c)' /\ WorkInv(c)' /\ tx'[c] = "none"
    <2>1. /\ pc'[c] = "idle" /\ tx'[c] = "none" /\ hooks'[c] = H0 /\ affected'[c] = "none"
          /\ req'[c] = NoRequest
      BY <1>1 DEF Crash
    <2>2. ControlInv(c)'
      BY <2>1 DEF ControlInv, RequestInv, TxInv, StatusInv, OldInv, HooksInv, TodoInv, Outside,
        Pulling, Installing, Removing
    <2>3. WorkInv(c)'
      BY <2>1 DEF WorkInv, InstallInv, RemoveInv, UndoInv, Pulling, Installing, Removing
    <2> QED
      BY <2>1, <2>2, <2>3
  <1>4. OneAtWork'
    BY <1>3 DEF OneAtWork
  <1>5. ~ overlap => Tidy'
    BY TidySame DEF ServiceInv, Work, Crash
  <1>6. ResourcesTypeOK' /\ overlap' = overlap
    BY Same DEF ServiceInv, Crash
  <1> QED
    BY <1>2, <1>3, <1>4, <1>5, <1>6 DEF ServiceInv, Control, Work

--------------------------------------------------------------------------------
\* The theorems

\* The invariant holds before the first request.
LEMMA ServiceInit == Init => ServiceInv
  <1> SUFFICES ASSUME Init PROVE ServiceInv
    OBVIOUS
  <1>1. Control
    BY InitControl
  <1>2. ResourcesTypeOK
    <2>1. \A a \in AddOns : Delivered[a] # Absent => Delivered[a] \in Versions
      BY AddOnResourcesAssumption DEF Versions, Absent
    <2>2. ASSUME NEW a \in AddOns
          PROVE  /\ Of(ImagesOf, a) \subseteq Images
                 /\ Of(VolumesOf, a) \subseteq VolumeNames
                 /\ Of(RoutesOf, a) \subseteq RouteIds
      <3>1. CASE Delivered[a] = Absent
        BY <3>1 DEF Of
      <3>2. CASE Delivered[a] \in Versions /\ Delivered[a] # Absent
        <4>1. /\ ImagesOf[a][Delivered[a]] \subseteq Images
              /\ VolumesOf[a][Delivered[a]] \subseteq VolumeNames
              /\ RoutesOf[a][Delivered[a]] \subseteq RouteIds
          BY <3>2, AddOnResourcesAssumption
        <4> QED
          BY <3>2, <4>1 DEF Of
      <3> QED
        BY <2>1, <3>1, <3>2
    <2>3. /\ Delivered \in [AddOns -> 0 .. MaxVersion]
          /\ Delivered \in [AddOns -> 0 .. MaxVersion + 1]
      BY AddOnResourcesAssumption
    <2> QED
      BY <2>2, <2>3 DEF Init, ResourcesInit, ResourcesTypeOK
  <1>3. OneAtWork /\ \A c \in Clients : WorkInv(c)
    <2>1. \A c \in Clients : tx[c] = "none" /\ pc[c] \in Outside
      BY DEF Init, Outside
    <2> QED
      BY <2>1, OutsideWork DEF OneAtWork
  <1>4. Tidy
    <2>1. \A a \in AddOns : Delivered[a] # Absent => Readable(a) /\ manifest[a] = Delivered[a]
      BY AddOnResourcesAssumption DEF Init, ResourcesInit, Readable, Versions, Absent
    <2>2. ASSUME NEW a \in AddOns PROVE Whole(a)
      BY <2>1 DEF Init, ResourcesInit, Of, Whole
    <2>3. ASSUME NEW i \in images PROVE \E a \in AddOns : Owns(a, i)
      BY <2>1 DEF Init, ResourcesInit, Of, Owns
    <2> QED
      BY <2>2, <2>3 DEF Tidy
  <1> QED
    BY <1>1, <1>2, <1>3, <1>4 DEF ServiceInv, Work

\* Every step keeps the invariant.
LEMMA ServiceStep == ServiceInv /\ [Next]_vars => ServiceInv'
  <1> SUFFICES ASSUME ServiceInv, [Next]_vars PROVE ServiceInv'
    OBVIOUS
  <1>1. CASE Crash
    BY <1>1, CrashInv
  <1>2. CASE UNCHANGED vars
    <2>1. /\ UNCHANGED <<manifest, stack, images, volumes, iam, routes>>
          /\ UNCHANGED <<pc, req, old, todo, tx, hooks, affected, overlap, leaked>>
      BY <1>2 DEF vars, control, resources
    <2>2. Control'
      BY <2>1 DEF ServiceInv, Control, Locals, ControlInv, RequestInv, TxInv, StatusInv, OldInv,
        HooksInv, TodoInv, A, V
    <2>3. ResourcesTypeOK'
      BY <2>1 DEF ServiceInv, ResourcesTypeOK
    <2>4. ASSUME ~ overlap PROVE Work'
      <3>1. Work
        BY <2>4 DEF ServiceInv
      <3>2. OneAtWork' /\ Tidy'
        BY <2>1, <3>1 DEF Work, OneAtWork, Tidy, Whole, Owns, LeftBy, Readable
      <3>3. ASSUME NEW c \in Clients PROVE WorkInv(c)'
        BY <1>2, <2>1, <3>1, WorkSame DEF Work, vars
      <3> QED
        BY <3>2, <3>3 DEF Work
    <2> QED
      BY <2>1, <2>2, <2>3, <2>4 DEF ServiceInv
  <1>3. ASSUME NEW c \in Clients, (\E r \in Requests : Request(c, r)) \/ Handler(c) PROVE ServiceInv'
    <2>1. CASE \E r \in Requests : Request(c, r)
      BY <2>1, RequestInvariant
    <2>2. CASE CreateAddOnRoutine(c)
      BY <2>2, IsAddOnInstalledInv, PullRemovesOldInv, PullFetchesInv, PullWritesInv,
         CheckAddOnInv,
        CheckCapabilitiesInv, ImportImagesInv, DeployInv, StackUpInv, CreateIamPermissionInv,
        CreateProxyRoutesInv DEF CreateAddOnRoutine
    <2>3. CASE ReplaceAddOnRoutine(c)
      BY <2>3, ReplaceAddOnInv, FetchFutureManifestInv, ConfigureInv, ConfigureUpInv,
        RemoveOldVolumesInv, ReplyInv DEF ReplaceAddOnRoutine
    <2>4. CASE DeleteAddOnRoutine(c)
      BY <2>4, DeleteAddOnInv, StackDownInv, DeleteImagesInv, DeleteVolumesInv,
         DeleteProxyRoutesInv,
        DeleteIamPermissionInv, DeleteManifestInv DEF DeleteAddOnRoutine
    <2>5. CASE IsValidUpdate(c) \/ InitializeTransaction(c) \/ RunHook(c)
      BY <2>5, IsValidUpdateInv, InitializeTransactionInv, RunHookInv
    <2>6. CASE RefuseTransaction(c) \/ Commit(c) \/ RollbackReturns(c)
      BY <2>6, ReturnInv DEF RefuseTransaction, Commit, RollbackReturns
    <2> QED
      BY <1>3, <2>1, <2>2, <2>3, <2>4, <2>5, <2>6 DEF Handler
  <1> QED
    BY <1>1, <1>2, <1>3 DEF Next

\* The inductive invariant holds in every reachable state.
THEOREM ServiceInvHolds == Spec => []ServiceInv
  BY ServiceInit, ServiceStep, PTL DEF Spec

\* Every variable keeps its type.
THEOREM TypeOKHolds == Spec => []TypeOK
  <1>1. ServiceInv => TypeOK
    BY DEF ServiceInv, Control, Locals, TypeOK
  <1> QED
    BY <1>1, ServiceInvHolds, PTL

\* Whatever there is of an add-on belongs to the manifest in the local
\* catalogue, after a failure or a crash at any step of any routine, unless a
\* rollback hook failed or a transaction began during a rollback.
THEOREM NoOrphansHolds == Spec => []NoOrphans
  <1>1. ServiceInv => NoOrphans
    BY DEF ServiceInv, Work, Tidy, Whole, NoOrphans
  <1> QED
    BY <1>1, ServiceInvHolds, PTL

\* Create, Update and Delete commit only when all of their work is done: the
\* add-on is deployed, with permission and routes, or all of it is gone.
THEOREM CommitMeansDoneHolds == Spec => []CommitMeansDone
  <1>1. ServiceInv => CommitMeansDone
    <2> SUFFICES ASSUME ServiceInv, ~ overlap, NEW c \in Clients, pc[c] = "commit"
                 PROVE  CASE affected[c] = "Deleting" -> Gone(A(c), old[c])
                          [] affected[c] = "Configuring" -> Deployed(A(c), V(c))
                          [] OTHER -> /\ Deployed(A(c), V(c))
                                      /\ A(c) \in iam
                                      /\ RoutesOf[A(c)][V(c)] \subseteq routes[A(c)]
      BY DEF CommitMeansDone, At
    <2>1. InstallInv(c) /\ RemoveInv(c)
      BY DEF ServiceInv, Work, WorkInv
    <2>2. /\ affected[c] = "Deleting" => Gone(A(c), old[c])
          /\ affected[c] = "Configuring" => Deployed(A(c), V(c))
          /\ affected[c] \notin {"Configuring", "Deleting"} =>
                Deployed(A(c), V(c)) /\ A(c) \in iam /\ RoutesOf[A(c)][V(c)] \subseteq routes[A(c)]
      BY <2>1 DEF InstallInv, RemoveInv
    <2> QED
      BY <2>2
  <1> QED
    BY <1>1, ServiceInvHolds, PTL

\* Tx.affected of an update is never turned into "Installing" by the part of
\* CreateAddOnRoutine that an update shares with an installation.
THEOREM StatusOfWholeOperationHolds == Spec => []StatusOfWholeOperation
  <1>1. ServiceInv => StatusOfWholeOperation
    BY DEF ServiceInv, Control, ControlInv, StatusInv, StatusOfWholeOperation
  <1> QED
    BY <1>1, ServiceInvHolds, PTL

\* Bringing a stack up removes no volume.
LEMMA UpKeepsVolumes ==
    ASSUME ResourcesTypeOK, NEW a \in AddOns, NEW v,
           CreateStackWithDockerCompose(a, v) \/ FailToCreateStack(a, v), NEW b \in AddOns
    PROVE  volumes[b] \subseteq volumes'[b]
  <1>1. PICK made : volumes' = [volumes EXCEPT ![a] = @ \cup made]
    BY DEF CreateStackWithDockerCompose, FailToCreateStack
  <1> QED
    BY <1>1 DEF ResourcesTypeOK

\* A step during an open update removes no volume of the new version.
LEMMA KeepsData ==
    ASSUME ServiceInv, ~ overlap, Next, NEW c \in Clients, tx[c] = "open", req[c].op = "Update"
    PROVE  VolumesOf[A(c)][V(c)] \cap volumes[A(c)] \subseteq volumes'[A(c)]
  <1>1. Control /\ ControlInv(c) /\ ResourcesTypeOK /\ OneAtWork /\ WorkInv(c)
    BY DEF ServiceInv, Control, Work
  <1>2. pc[c] \notin Outside \cup {"rollback"}
    BY <1>1 DEF ControlInv, TxInv, Outside
  <1>3. A(c) \in AddOns /\ V(c) \in Versions
    BY <1>2, AtWork
  <1>4. ASSUME NEW d \in Clients, tx[d] # "none" PROVE d = c
    BY <1>1, <1>4 DEF OneAtWork
  <1>5. CASE UNCHANGED volumes
    BY <1>5
  <1>6. ASSUME NEW d \in Clients, DeleteVolumes(d) PROVE FALSE
    <2>1. pc[d] = "unmount" /\ pc[d] \notin Outside \cup {"rollback"}
      BY <1>6 DEF DeleteVolumes, At, Outside
    <2>2. d = c
      BY <1>4, <2>1, AtWork
    <2> QED
      BY <1>1, <2>1, <2>2 DEF ControlInv, RequestInv
  <1>7. ASSUME NEW d \in Clients, RunHook(d) PROVE FALSE
    BY <1>1, <1>4, <1>7, HookControl
  <1>8. ASSUME NEW d \in Clients, StackUp(d) \/ ConfigureUp(d)
        PROVE  VolumesOf[A(c)][V(c)] \cap volumes[A(c)] \subseteq volumes'[A(c)]
    <2>1. pc[d] \notin Outside \cup {"rollback"}
      BY <1>8 DEF StackUp, ConfigureUp, At, Outside
    <2>2. A(d) \in AddOns
      BY <2>1, AtWork
    <2>3. CreateStackWithDockerCompose(A(d), V(d)) \/ FailToCreateStack(A(d), V(d))
      BY <1>8 DEF StackUp, ConfigureUp
    <2>4. volumes[A(c)] \subseteq volumes'[A(c)]
      BY <1>1, <1>3, <2>2, <2>3, UpKeepsVolumes
    <2> QED
      BY <2>4
  <1>9. ASSUME NEW d \in Clients, RemoveOldVolumes(d)
        PROVE  VolumesOf[A(c)][V(c)] \cap volumes[A(c)] \subseteq volumes'[A(c)]
    <2>1. pc[d] = "prune" /\ pc[d] \notin Outside \cup {"rollback"} /\ UNCHANGED stack
      BY <1>9 DEF RemoveOldVolumes, At, Outside
    <2>2. d = c
      BY <1>4, <2>1, AtWork
    <2>3. affected[c] = "Updating"
      BY <1>1, <2>1, <2>2 DEF ControlInv, StatusInv
    <2>4. stack'[A(c)] = V(c)
      BY <1>1, <2>1, <2>2, <2>3 DEF WorkInv, InstallInv, Deployed
    <2>5. PICK names : RemoveVolumes(A(c), names)
      BY <1>9, <2>2 DEF RemoveOldVolumes, RemoveUnusedVolumes, FailToRemoveVolumes
    <2>6. volumes'[A(c)] = volumes[A(c)] \ (names \ Mounts(A(c), stack'[A(c)]))
      BY <1>1, <1>3, <2>5, VolumesGone
    <2> QED
      BY <1>3, <2>4, <2>6, NotVersions DEF Mounts
  <1>10. CASE Crash
    BY <1>5, <1>10 DEF Crash, resources
  <1>11. ASSUME NEW d \in Clients, (\E r \in Requests : Request(d, r)) \/ Handler(d)
         PROVE  VolumesOf[A(c)][V(c)] \cap volumes[A(c)] \subseteq volumes'[A(c)]
    <2>1. CASE \E r \in Requests : Request(d, r)
      BY <1>5, <2>1 DEF Request, resources
    <2>2. CASE \/ IsValidUpdate(d) \/ RefuseTransaction(d) \/ InitializeTransaction(d)
               \/ Commit(d) \/ RollbackReturns(d)
      BY <1>5, <2>2 DEF IsValidUpdate, RefuseTransaction, InitializeTransaction, Commit,
         RollbackReturns, resources
    <2>3. CASE CreateAddOnRoutine(d)
      BY <1>5, <1>8, <2>3 DEF CreateAddOnRoutine, IsAddOnInstalled, PullRemovesOld,
         PullFetches, PullWrites,
        CheckAddOn, CheckCapabilities, ImportImages, Deploy, CreateIamPermission,
        CreateProxyRoutes, resources
    <2>4. CASE ReplaceAddOnRoutine(d)
      BY <1>5, <1>8, <1>9, <2>4 DEF ReplaceAddOnRoutine, ReplaceAddOn, FetchFutureManifest,
         Configure, Reply, resources
    <2>5. CASE DeleteAddOnRoutine(d)
      BY <1>5, <1>6, <2>5 DEF DeleteAddOnRoutine, DeleteAddOn, StackDown, DeleteImages,
         DeleteProxyRoutes,
        DeleteIamPermission, DeleteManifest, resources
    <2> QED
      BY <1>7, <1>11, <2>1, <2>2, <2>3, <2>4, <2>5 DEF Handler
  <1> QED
    BY <1>10, <1>11 DEF Next

\* No step taken while an update is open removes a volume that the new version
\* declares, whoever takes it.
THEOREM UpdateKeepsDataHolds == Spec => UpdateKeepsData
  <1>1. ServiceInv /\ [Next]_vars =>
          [~ overlap =>
             \A c \in Clients :
                tx[c] = "open" /\ req[c].op = "Update" =>
                    VolumesOf[A(c)][V(c)] \cap volumes[A(c)] \subseteq volumes'[A(c)]]_vars
    BY KeepsData
  <1> QED
    BY <1>1, ServiceInvHolds, PTL DEF Spec, UpdateKeepsData
================================================================================
