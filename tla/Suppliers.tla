------------------------------ MODULE Suppliers ------------------------------
(***************************************************************************)
(* Suppliers and their blacklist (backend/app/services/suppliers.py), with *)
(* the one write of the procurement workflow that depends on them: the     *)
(* purchase of an item (services/procurement.py, save_purchase_item).      *)
(*                                                                         *)
(* As everywhere in the backend a call reads plainly from the read view    *)
(* its authentication opened, while FOR UPDATE, a UNIQUE constraint and    *)
(* the WHERE of an UPDATE meet the rows of now.  Each call writes at its   *)
(* end, so it is two steps: the first opens the view and decides what the  *)
(* plain reads decide, the second does the rest on the rows of now.        *)
(*                                                                         *)
(* Of a supplier the name is kept: the other columns are written with it   *)
(* and only their UNIQUE code can make a call fail.                        *)
(*                                                                         *)
(* What a line costs, when it is bought and when it arrives are what the   *)
(* purchaser and the warehouse put in: constants of the line.              *)
(***************************************************************************)
EXTENDS Integers, FiniteSets

CONSTANTS
    Employees,
    RolesOf,            \* [Employees -> SUBSET role codes]
    Requests, Purchasing, \* requests, and those that are with the purchaser by now
    Lines,              \* their active items
    RequestOf,          \* [Lines -> Requests]
    StaffOf,            \* [Requests -> SUBSET Employees], those of its building
    ProposedName,       \* [Requests -> Names], supplier name of the latest review
    Names,              \* supplier names
    Seed,               \* the suppliers there are at first, a function from 1..n
    Calls,              \* the calls that can be running at once
    MaxSuppliers,       \* bound on the suppliers
    MaxBlacklists,      \* bound on the blacklists ever registered
    MaxSaves,           \* bound on the saves of one request
    None

ASSUME SupplierAssumption ==
  /\ MaxSuppliers \in Nat /\ MaxBlacklists \in Nat /\ MaxSaves \in Nat
  /\ None \notin Names \cup (1..MaxSuppliers)
  /\ RequestOf \in [Lines -> Requests] /\ ProposedName \in [Requests -> Names]
  /\ \A s \in DOMAIN Seed : Seed[s] \in Names

VARIABLES
    rows,       \* the committed rows
    past,       \* the limited blacklists whose end_at has passed
    call        \* the running calls

supplierVars == <<rows, past, call>>

-----------------------------------------------------------------------------
SupplierIds == 1..MaxSuppliers

BlacklistIds == 1..MaxBlacklists

Blacklist == [supplier : SupplierIds, source : Requests, registrar : Employees,
              duration : {"PERMANENT", "LIMITED"}, status : {"ACTIVE", "RELEASED"},
              releasedBy : Employees \cup {None}]

ASSUME BlacklistAssumption == None \notin Blacklist

\* purchase_operation_log, as far as the blacklist is concerned.  Action tokens are
\* those of ProcurementWorkflow: here every call has a new one.
LogEntry == [blacklist : BlacklistIds, by : Employees, request : Requests,
             action : {"ADD_SUPPLIER_BLACKLIST", "RELEASE_SUPPLIER_BLACKLIST"}]

Rows == [supplier  : [SupplierIds -> Names \cup {None}],
         blacklist : [BlacklistIds -> Blacklist \cup {None}],
         status    : [Requests -> {"PENDING_REVIEW", "PURCHASING", "COMPLETED"}],
         version   : [Requests -> 0..MaxSaves],
         execution : [Lines -> SupplierIds \cup {None}],
         log       : SUBSET LogEntry]

SupplierInit ==
  /\ rows = [supplier  |-> [s \in SupplierIds |-> IF s \in DOMAIN Seed THEN Seed[s] ELSE None],
             blacklist |-> [b \in BlacklistIds |-> None],
             status    |-> [r \in Requests |-> IF r \in Purchasing THEN "PURCHASING" ELSE "PENDING_REVIEW"],
             version   |-> [r \in Requests |-> 0],
             execution |-> [l \in Lines |-> None],
             log       |-> {}]
  /\ past = {}
  /\ call = [c \in Calls |-> None]

LinesOf(r) == {l \in Lines : RequestOf[l] = r}

Existing(f) == {x \in DOMAIN f : f[x] # None}

\* The id of the next row, if the bound allows one
FreeIds(f) == {x \in DOMAIN f : f[x] = None /\ \A y \in 1..(x - 1) : f[y] # None}


HasRole(u, role) == role \in RolesOf[u]

\* effective_blacklist_condition, at the time of the call; start_at is not asked
Effective(b, v) ==
  /\ v.blacklist[b] # None
  /\ v.blacklist[b].status = "ACTIVE"
  /\ v.blacklist[b].duration = "LIMITED" => b \notin past

\* has_effective_blacklist
Blacklisted(s, v) == \E b \in BlacklistIds : Effective(b, v) /\ v.blacklist[b].supplier = s

-----------------------------------------------------------------------------
(* Calls *)

Running(c, op) == call[c] # None /\ call[c].op = op

Begins(c, it) ==
  /\ call[c] = None
  /\ call' = [call EXCEPT ![c] = it]
  /\ UNCHANGED <<rows, past>>

Ends(c) == call' = [call EXCEPT ![c] = None]

\* The call is refused, its transaction gives up, or its process dies.
Fail(c) ==
  /\ call[c] # None
  /\ Ends(c)
  /\ UNCHANGED <<rows, past>>

-----------------------------------------------------------------------------
(* Suppliers *)

\* create: find_conflict looks for the name
BeginCreate(c) ==
  \E u \in Employees, name \in Names :
    /\ HasRole(u, "PURCHASER") \/ HasRole(u, "ADMIN")
    /\ \A s \in Existing(rows.supplier) : rows.supplier[s] # name
    /\ Begins(c, [op |-> "create", name |-> name])

CreateSupplier(c) ==
  /\ Running(c, "create")
  /\ \E s \in FreeIds(rows.supplier) : rows' = [rows EXCEPT !.supplier[s] = call[c].name]
  /\ Ends(c)
  /\ UNCHANGED past

-----------------------------------------------------------------------------
(* The blacklist *)

\* get_completed_request_supplier: the one execution of a completed request.
\* With a second one one_or_none raises, and the call fails.
CompletedRequestSupplier(r) ==
  IF rows.status[r] # "COMPLETED" THEN {}
  ELSE {rows.execution[l] : l \in {x \in LinesOf(r) : LinesOf(r) = {x} /\ rows.execution[x] # None}}

\* create_blacklist: everything but the supplier row is read in the view
BeginBlacklist(c) ==
  \E u \in Employees, s \in Existing(rows.supplier), r \in Requests,
     duration \in {"PERMANENT", "LIMITED"} :
    /\ HasRole(u, "BUILDING_MANAGER")
    /\ CompletedRequestSupplier(r) = {s}
    /\ HasRole(u, "ADMIN") \/ u \in StaffOf[r]
    /\ ~Blacklisted(s, rows)
    /\ Begins(c, [op |-> "blacklist", user |-> u, supplier |-> s, request |-> r,
                  duration |-> duration])

CreateBlacklist(c) ==
  /\ Running(c, "blacklist")
  /\ \E b \in FreeIds(rows.blacklist) :
       rows' = [rows EXCEPT
         !.blacklist[b] =
            [supplier |-> call[c].supplier, source |-> call[c].request, registrar |-> call[c].user,
             duration |-> call[c].duration, status |-> "ACTIVE", releasedBy |-> None],
         !.log = @ \cup {[blacklist |-> b, by |-> call[c].user, request |-> call[c].request,
                          action |-> "ADD_SUPPLIER_BLACKLIST"]}]
  /\ Ends(c)
  /\ UNCHANGED past

BeginRelease(c) ==
  \E u \in Employees, b \in Existing(rows.blacklist) :
    /\ Begins(c, [op |-> "release", user |-> u, blacklist |-> b])

\* A bug: the blacklist is read without FOR UPDATE, as it was before another
\* release committed.
BlacklistOfView(c) ==
  [rows.blacklist[call[c].blacklist] EXCEPT !.status = "ACTIVE", !.releasedBy = None]

\* session.get(SupplierBlacklist, with_for_update=True)
BlacklistLocked(c) == rows.blacklist[call[c].blacklist]

\* _required_actor_role
ActorRole(u) == IF HasRole(u, "ADMIN") THEN "ADMIN" ELSE "BUILDING_MANAGER"

ReleaseBlacklist(c) ==
  LET u == call[c].user
      row == BlacklistLocked(c)
  IN
  /\ Running(c, "release")
  /\ row.status = "ACTIVE"
  /\ row.duration = "LIMITED" => call[c].blacklist \notin past
  /\ HasRole(u, "ADMIN") \/ row.registrar = u
  /\ HasRole(u, ActorRole(u))
  /\ rows' = [rows EXCEPT
       !.blacklist[call[c].blacklist] = [row EXCEPT !.status = "RELEASED", !.releasedBy = u],
       !.log = @ \cup {[blacklist |-> call[c].blacklist, by |-> u, request |-> row.source,
                        action |-> "RELEASE_SUPPLIER_BLACKLIST"]}]
  /\ Ends(c)
  /\ UNCHANGED past

\* The end_at of a limited blacklist comes; it may have been over from the start.
EndAtPasses(b) ==
  /\ rows.blacklist[b] # None
  /\ rows.blacklist[b].duration = "LIMITED"
  /\ b \notin past
  /\ past' = past \cup {b}
  /\ UNCHANGED <<rows, call>>

-----------------------------------------------------------------------------
(* The purchase of a line *)

\* _resolve_purchase_supplier with an id
ByIdAllowed(s, v) == v.supplier[s] # None /\ ~Blacklisted(s, v)

\* get_active_supplier_by_name: the lowest id of that name
NamedSuppliers(name) ==
  {s \in Existing(rows.supplier) : rows.supplier[s] = name
     /\ \A t \in 1..(s - 1) : rows.supplier[t] # name}

\* _resolve_purchase_supplier: without an id, the supplier whose name is in the
\* latest review, or None if there is no such supplier yet
Resolved(r, s) ==
  IF s # None THEN {x \in {s} : ByIdAllowed(x, rows)}
  ELSE IF NamedSuppliers(ProposedName[r]) = {} THEN {None} ELSE NamedSuppliers(ProposedName[r])

\* save_purchase_item, and save_purchase_fields, its bridge for a single item,
\* which may save an execution again
BeginPurchase(c) ==
  \E l \in Lines, s \in Existing(rows.supplier) \cup {None} :
    LET r == RequestOf[l] IN
    /\ rows.status[r] = "PURCHASING"
    /\ rows.execution[l] # None => LinesOf(r) = {l}
    /\ rows.version[r] < MaxSaves
    /\ \E x \in Resolved(r, s) :
         Begins(c, [op |-> "purchase", line |-> l, supplier |-> x, version |-> rows.version[r],
                    listed |-> x # None /\ Blacklisted(x, rows)])

\* A bug: the version is compared in the view only.
BumpsUnseen(c, r) == TRUE

\* bump_version: UPDATE ... WHERE the version and the status are those of the view
BumpVersion(c, r) == rows.version[r] = call[c].version /\ rows.status[r] = "PURCHASING"

\* A new supplier gets the name of the review (its proposed_supplier_id, which
\* is written too, decides nothing).
SavePurchaseItem(c) ==
  LET l == call[c].line
      r == RequestOf[l]
      saved(s) == [rows EXCEPT !.execution[l] = s, !.version[r] = @ + 1]
  IN
  /\ Running(c, "purchase")
  /\ BumpVersion(c, r)
  /\ IF call[c].supplier # None THEN rows' = saved(call[c].supplier)
     ELSE \E s \in FreeIds(rows.supplier) : rows' = [saved(s) EXCEPT !.supplier[s] = ProposedName[r]]
  /\ Ends(c)
  /\ UNCHANGED past

\* The request goes its way through the warehouse and is completed.
CompleteRequest(r) ==
  /\ rows.status[r] = "PURCHASING"
  /\ \A l \in LinesOf(r) : rows.execution[l] # None
  /\ rows' = [rows EXCEPT !.status[r] = "COMPLETED"]
  /\ UNCHANGED <<past, call>>

-----------------------------------------------------------------------------
SupplierNext ==
  \/ \E c \in Calls :
       \/ Fail(c)
       \/ BeginCreate(c) \/ CreateSupplier(c)
       \/ BeginBlacklist(c) \/ CreateBlacklist(c)
       \/ BeginRelease(c) \/ ReleaseBlacklist(c)
       \/ BeginPurchase(c) \/ SavePurchaseItem(c)
  \/ \E b \in BlacklistIds : EndAtPasses(b)
  \/ \E r \in Requests : CompleteRequest(r)

SupplierSpec == SupplierInit /\ [][SupplierNext]_supplierVars

-----------------------------------------------------------------------------
(* Properties *)

SupplierTypeOK ==
  /\ rows \in Rows
  /\ past \subseteq Existing(rows.blacklist)
  /\ \A c \in Calls : call[c] # None => call[c].op \in {"create", "blacklist", "release", "purchase"}

\* A blacklist has grounds and keeps them: its supplier is the one of the only
\* execution of a completed request, whatever purchase was still running with an
\* older view when the request was completed, and it was registered by a manager
\* of the request's building (or one who is also an administrator).
BlacklistsHaveGrounds ==
  \A b \in Existing(rows.blacklist) :
    LET row == rows.blacklist[b] IN
    /\ rows.status[row.source] = "COMPLETED"
    /\ \E l \in Lines : LinesOf(row.source) = {l} /\ rows.execution[l] = row.supplier
    /\ HasRole(row.registrar, "BUILDING_MANAGER")
    /\ row.registrar \in StaffOf[row.source] \/ HasRole(row.registrar, "ADMIN")

\* A blacklist is lifted at most once, by its registrar or an administrator, and
\* the lifting is in the operation log: two releases that both saw
\* it active do not overwrite each other.
ReleasedOnce ==
  [][\A b \in Existing(rows.blacklist) :
       rows'.blacklist[b] # rows.blacklist[b] =>
         LET old == rows.blacklist[b]
             by  == rows'.blacklist[b].releasedBy
         IN
         /\ old.status = "ACTIVE"
         /\ by = old.registrar \/ HasRole(by, "ADMIN")
         /\ \E entry \in rows'.log \ rows.log :
              entry = [blacklist |-> b, by |-> by, request |-> old.source,
                       action |-> "RELEASE_SUPPLIER_BLACKLIST"]]_supplierVars

-----------------------------------------------------------------------------
(* What the documents say and the code does not do *)

\* The backend checks the blacklist when a purchase is saved: no line is bought
\* from a supplier whose blacklist was effective when the call began, by id or by
\* the name in the review.
NothingBoughtFromBlacklisted ==
  [][\A c \in Calls :
       (Running(c, "purchase") /\ rows' # rows /\ call'[c] = None) => ~call[c].listed]_supplierVars
=============================================================================
