------------------------ MODULE RecommendationProofs ------------------------
(***************************************************************************)
(* Blacklists beside purchases, and what is recommended from the rows they *)
(* leave, for any number of suppliers, requests, lines and calls.          *)
(***************************************************************************)
EXTENDS Recommendation, FiniteSetTheorems, NaturalsInduction, WellFoundedInduction, TLAPS

-----------------------------------------------------------------------------
(* The invariant of the rows and the running calls *)

\* What a call knows when it begins.
CallRecord ==
  [op : {"create"}, name : Names]
  \cup [op : {"blacklist"}, user : Employees, supplier : SupplierIds, request : Requests,
        duration : {"PERMANENT", "LIMITED"}]
  \cup [op : {"release"}, user : Employees, blacklist : BlacklistIds]
  \cup [op : {"purchase"}, line : Lines, supplier : SupplierIds \cup {None},
        version : 0..(MaxSaves - 1), listed : BOOLEAN]

Typed ==
  /\ rows \in Rows
  /\ past \subseteq Existing(rows.blacklist)
  /\ call \in [Calls -> CallRecord \cup {None}]

\* The grounds of a blacklist, which a call looks at in its view.
Grounds(v, source, supplier, registrar) ==
  /\ v.status[source] = "COMPLETED"
  /\ \E l \in Lines : LinesOf(source) = {l} /\ v.execution[l] = supplier
  /\ HasRole(registrar, "BUILDING_MANAGER")
  /\ registrar \in StaffOf[source] \/ HasRole(registrar, "ADMIN")

Grounded ==
  /\ BlacklistsHaveGrounds
  /\ \A c \in Calls : Running(c, "blacklist") =>
       Grounds(rows, call[c].request, call[c].supplier, call[c].user)

\* No row refers to a supplier or a blacklist that is not there.
Referenced ==
  /\ \A l \in Lines : rows.execution[l] # None => rows.supplier[rows.execution[l]] # None
  /\ \A c \in Calls : Running(c, "purchase") /\ call[c].supplier # None =>
       rows.supplier[call[c].supplier] # None
  /\ \A c \in Calls : Running(c, "release") => rows.blacklist[call[c].blacklist] # None

\* What the log says was lifted is lifted.
Lifted ==
  \A entry \in rows.log :
    /\ rows.blacklist[entry.blacklist] # None
    /\ entry.action = "RELEASE_SUPPLIER_BLACKLIST" => rows.blacklist[entry.blacklist].status = "RELEASED"

SupplierInv == Typed /\ Grounded /\ Referenced /\ Lifted

-----------------------------------------------------------------------------
(* Types *)

LEMMA RowsFields ==
  ASSUME rows \in Rows
  PROVE  /\ rows = [supplier |-> rows.supplier, blacklist |-> rows.blacklist, status |-> rows.status,
                    version |-> rows.version, execution |-> rows.execution, log |-> rows.log]
         /\ rows.supplier \in [SupplierIds -> Names \cup {None}]
         /\ rows.blacklist \in [BlacklistIds -> Blacklist \cup {None}]
         /\ rows.status \in [Requests -> {"PENDING_REVIEW", "PURCHASING", "COMPLETED"}]
         /\ rows.version \in [Requests -> 0..MaxSaves]
         /\ rows.execution \in [Lines -> SupplierIds \cup {None}]
         /\ rows.log \in SUBSET LogEntry
BY DEF Rows

LEMMA CallFields ==
  ASSUME Typed, NEW c \in Calls
  PROVE  /\ Running(c, "create") => call[c].name \in Names
         /\ Running(c, "blacklist") =>
              /\ call[c].user \in Employees /\ call[c].supplier \in SupplierIds
              /\ call[c].request \in Requests /\ call[c].duration \in {"PERMANENT", "LIMITED"}
         /\ Running(c, "release") => call[c].user \in Employees /\ call[c].blacklist \in BlacklistIds
         /\ Running(c, "purchase") =>
              /\ call[c].line \in Lines /\ call[c].supplier \in SupplierIds \cup {None}
              /\ call[c].version \in 0..(MaxSaves - 1)
<1>1. call[c] \in CallRecord \cup {None}
  BY DEF Typed
<1>2. QED BY <1>1 DEF CallRecord, Running

\* A call that ends, without a trace or with one, leaves the others as they are.
LEMMA EndKeepsCalls ==
  ASSUME Typed, NEW c \in Calls, Ends(c)
  PROVE  /\ call' \in [Calls -> CallRecord \cup {None}]
         /\ \A d \in Calls : call'[d] # None => call'[d] = call[d]
BY DEF Typed, Ends

LEMMA InitSupplierInv == SupplierInit => SupplierInv
<1> SUFFICES ASSUME SupplierInit PROVE SupplierInv
  OBVIOUS
<1>1. /\ rows.supplier \in [SupplierIds -> Names \cup {None}]
      /\ rows.status \in [Requests -> {"PENDING_REVIEW", "PURCHASING", "COMPLETED"}]
      /\ rows.version \in [Requests -> 0..MaxSaves]
  BY SupplierAssumption DEF SupplierInit
<1>2. Existing(rows.blacklist) = {}
  BY DEF SupplierInit, Existing
<1>3. Typed
  BY <1>1, <1>2 DEF SupplierInit, Typed, Rows
<1>4. Grounded /\ Referenced /\ Lifted
  BY <1>2 DEF SupplierInit, Grounded, BlacklistsHaveGrounds, Referenced, Lifted, Running
<1>5. QED BY <1>3, <1>4 DEF SupplierInv

-----------------------------------------------------------------------------
(* Beginnings and endings *)

LEMMA BeginKeeps ==
  ASSUME SupplierInv, NEW c \in Calls, NEW it \in CallRecord, Begins(c, it),
         it.op = "blacklist" => Grounds(rows, it.request, it.supplier, it.user),
         it.op = "purchase" /\ it.supplier # None => rows.supplier[it.supplier] # None,
         it.op = "release" => rows.blacklist[it.blacklist] # None
  PROVE  SupplierInv'
<1>1. /\ rows' = rows /\ past' = past
      /\ call' = [call EXCEPT ![c] = it] /\ call \in [Calls -> CallRecord \cup {None}]
  BY DEF Begins, SupplierInv, Typed
<1>2. Typed' /\ Lifted'
  BY <1>1 DEF SupplierInv, Typed, Existing, Lifted
<1>3. Grounded'
  BY <1>1 DEF SupplierInv, Grounded, BlacklistsHaveGrounds, Existing, LinesOf, HasRole, Running
<1>4. Referenced'
  BY <1>1 DEF SupplierInv, Referenced, Running
<1>5. QED BY <1>2, <1>3, <1>4 DEF SupplierInv

LEMMA BeginCreateKeeps ==
  ASSUME SupplierInv, NEW c \in Calls, BeginCreate(c)
  PROVE  SupplierInv'
<1>1. PICK name \in Names : Begins(c, [op |-> "create", name |-> name])
  BY DEF BeginCreate
<1>2. [op |-> "create", name |-> name] \in CallRecord
  BY DEF CallRecord
<1>3. QED BY <1>1, <1>2, BeginKeeps

LEMMA BeginBlacklistKeeps ==
  ASSUME SupplierInv, NEW c \in Calls, BeginBlacklist(c)
  PROVE  SupplierInv'
<1>1. PICK u \in Employees, s \in Existing(rows.supplier), r \in Requests,
           duration \in {"PERMANENT", "LIMITED"} :
        /\ HasRole(u, "BUILDING_MANAGER")
        /\ CompletedRequestSupplier(r) = {s}
        /\ HasRole(u, "ADMIN") \/ u \in StaffOf[r]
        /\ Begins(c, [op |-> "blacklist", user |-> u, supplier |-> s, request |-> r,
                      duration |-> duration])
  BY DEF BeginBlacklist
<1> DEFINE it == [op |-> "blacklist", user |-> u, supplier |-> s, request |-> r, duration |-> duration]
<1>2. s \in SupplierIds
  BY RowsFields DEF SupplierInv, Typed, Existing
<1>3. it \in CallRecord
  BY <1>2 DEF CallRecord
<1>4. Grounds(rows, r, s, u)
  <2>1. rows.status[r] = "COMPLETED" /\ \E l \in LinesOf(r) : LinesOf(r) = {l} /\ rows.execution[l] = s
    BY <1>1 DEF CompletedRequestSupplier
  <2>2. QED BY <1>1, <2>1 DEF Grounds, LinesOf
<1>5. QED BY <1>1, <1>3, <1>4, BeginKeeps

LEMMA BeginReleaseKeeps ==
  ASSUME SupplierInv, NEW c \in Calls, BeginRelease(c)
  PROVE  SupplierInv'
<1>1. PICK u \in Employees, b \in Existing(rows.blacklist) :
        Begins(c, [op |-> "release", user |-> u, blacklist |-> b])
  BY DEF BeginRelease
<1>2. b \in BlacklistIds /\ rows.blacklist[b] # None
  BY RowsFields DEF SupplierInv, Typed, Existing
<1>3. [op |-> "release", user |-> u, blacklist |-> b] \in CallRecord
  BY <1>2 DEF CallRecord
<1>4. QED BY <1>1, <1>2, <1>3, BeginKeeps

LEMMA BeginPurchaseKeeps ==
  ASSUME SupplierInv, NEW c \in Calls, BeginPurchase(c)
  PROVE  SupplierInv'
<1>1. PICK l \in Lines, s \in Existing(rows.supplier) \cup {None} : \E x \in Resolved(RequestOf[l], s) :
        /\ rows.version[RequestOf[l]] < MaxSaves
        /\ Begins(c, [op |-> "purchase", line |-> l, supplier |-> x,
                      version |-> rows.version[RequestOf[l]],
                      listed |-> x # None /\ Blacklisted(x, rows)])
  BY DEF BeginPurchase
<1>2. PICK x \in Resolved(RequestOf[l], s) :
        /\ rows.version[RequestOf[l]] < MaxSaves
        /\ Begins(c, [op |-> "purchase", line |-> l, supplier |-> x,
                      version |-> rows.version[RequestOf[l]],
                      listed |-> x # None /\ Blacklisted(x, rows)])
  BY <1>1
<1>3. x \in SupplierIds \cup {None} /\ (x # None => rows.supplier[x] # None)
  <2>1. DOMAIN rows.supplier = SupplierIds
    BY RowsFields DEF SupplierInv, Typed
  <2>2. CASE s # None
    BY <2>1, <2>2 DEF Resolved, Existing
  <2>3. CASE s = None
    BY <2>1, <2>3 DEF Resolved, NamedSuppliers, Existing
  <2>4. QED BY <2>2, <2>3
<1>4. rows.version[RequestOf[l]] \in 0..(MaxSaves - 1)
  <2>1. RequestOf[l] \in Requests
    BY SupplierAssumption
  <2>2. rows.version[RequestOf[l]] \in 0..MaxSaves
    BY <2>1, RowsFields DEF SupplierInv, Typed
  <2>3. QED BY <1>2, <2>2, SupplierAssumption
<1>5. PICK listed \in BOOLEAN : listed = (x # None /\ Blacklisted(x, rows))
  OBVIOUS
<1>6. [op |-> "purchase", line |-> l, supplier |-> x, version |-> rows.version[RequestOf[l]],
       listed |-> listed] \in CallRecord
  BY <1>3, <1>4 DEF CallRecord
<1>7. QED BY <1>2, <1>3, <1>5, <1>6, BeginKeeps

\* What a call that ends must have left behind: completed requests keep their
\* lines, suppliers and blacklists stay.
LEMMA EndKeeps ==
  ASSUME SupplierInv, Typed', Lifted', BlacklistsHaveGrounds',
         \A d \in Calls : call'[d] # None => call'[d] = call[d],
         \A r \in Requests : rows.status[r] = "COMPLETED" =>
           rows'.status[r] = "COMPLETED" /\ \A l \in LinesOf(r) : rows'.execution[l] = rows.execution[l],
         \A s \in SupplierIds : rows.supplier[s] # None => rows'.supplier[s] # None,
         \A b \in BlacklistIds : rows.blacklist[b] # None => rows'.blacklist[b] # None,
         \A l \in Lines : rows'.execution[l] # None => rows'.supplier[rows'.execution[l]] # None
  PROVE  SupplierInv'
<1>1. Grounded'
  <2>1. ASSUME NEW d \in Calls, Running(d, "blacklist")'
        PROVE  Grounds(rows', call'[d].request, call'[d].supplier, call'[d].user)
    <3>1. Running(d, "blacklist") /\ call'[d] = call[d] /\ call[d].request \in Requests
      BY <2>1, CallFields DEF SupplierInv, Running
    <3>2. QED BY <3>1 DEF SupplierInv, Grounded, Grounds, LinesOf
  <2>2. QED BY <2>1 DEF Grounded
<1>2. ASSUME NEW d \in Calls, Running(d, "purchase")', call'[d].supplier # None
      PROVE  rows'.supplier[call'[d].supplier] # None
  <2>1. Running(d, "purchase") /\ call'[d] = call[d] /\ call[d].supplier \in SupplierIds
    BY <1>2, CallFields DEF SupplierInv, Running
  <2>2. QED BY <1>2, <2>1 DEF SupplierInv, Referenced
<1>3. ASSUME NEW d \in Calls, Running(d, "release")'
      PROVE  rows'.blacklist[call'[d].blacklist] # None
  <2>1. Running(d, "release") /\ call'[d] = call[d] /\ call[d].blacklist \in BlacklistIds
    BY <1>3, CallFields DEF SupplierInv, Running
  <2>2. QED BY <2>1 DEF SupplierInv, Referenced
<1>4. QED BY <1>1, <1>2, <1>3 DEF SupplierInv, Referenced

LEMMA FailKeeps ==
  ASSUME SupplierInv, NEW c \in Calls, Fail(c)
  PROVE  SupplierInv'
<1>1. /\ Ends(c) /\ rows' = rows /\ past' = past
      /\ call' \in [Calls -> CallRecord \cup {None}]
      /\ \A d \in Calls : call'[d] # None => call'[d] = call[d]
  BY EndKeepsCalls DEF Fail, SupplierInv
<1>2. Typed' /\ Lifted' /\ BlacklistsHaveGrounds'
  BY <1>1 DEF SupplierInv, Typed, Lifted, Existing, Grounded, BlacklistsHaveGrounds, LinesOf, HasRole
<1>3. QED BY <1>1, <1>2, EndKeeps DEF SupplierInv, Referenced

LEMMA CreateSupplierKeeps ==
  ASSUME SupplierInv, NEW c \in Calls, CreateSupplier(c)
  PROVE  SupplierInv'
<1>1. PICK s \in FreeIds(rows.supplier) : rows' = [rows EXCEPT !.supplier[s] = call[c].name]
  BY DEF CreateSupplier
<1>2. /\ past' = past /\ call' \in [Calls -> CallRecord \cup {None}]
      /\ \A d \in Calls : call'[d] # None => call'[d] = call[d]
  BY EndKeepsCalls DEF CreateSupplier, SupplierInv
<1>3. call[c].name \in Names /\ s \in SupplierIds
  BY RowsFields, CallFields DEF CreateSupplier, SupplierInv, Typed, FreeIds
<1>4. /\ rows' \in Rows
      /\ rows'.supplier = [rows.supplier EXCEPT ![s] = call[c].name]
      /\ UNCHANGED <<rows.blacklist, rows.status, rows.execution, rows.log>>
  BY <1>1, <1>3, RowsFields DEF SupplierInv, Typed, Rows
<1>5. \A x \in SupplierIds : rows.supplier[x] # None => rows'.supplier[x] # None
  BY <1>3, <1>4, RowsFields, SupplierAssumption DEF SupplierInv, Typed
<1>6. Typed' /\ Lifted' /\ BlacklistsHaveGrounds'
  BY <1>2, <1>4 DEF SupplierInv, Typed, Lifted, Existing, Grounded, BlacklistsHaveGrounds, LinesOf, HasRole
<1>7. \A l \in Lines : rows'.execution[l] # None => rows'.supplier[rows'.execution[l]] # None
  BY <1>4, <1>5, RowsFields DEF SupplierInv, Typed, Referenced
<1>8. QED BY <1>2, <1>4, <1>5, <1>6, <1>7, EndKeeps

LEMMA CreateBlacklistKeeps ==
  ASSUME SupplierInv, NEW c \in Calls, CreateBlacklist(c)
  PROVE  SupplierInv'
<1> DEFINE row == [supplier |-> call[c].supplier, source |-> call[c].request,
                   registrar |-> call[c].user, duration |-> call[c].duration,
                   status |-> "ACTIVE", releasedBy |-> None]
           entry(b) == [blacklist |-> b, by |-> call[c].user, request |-> call[c].request,
                        action |-> "ADD_SUPPLIER_BLACKLIST"]
<1>1. PICK b \in FreeIds(rows.blacklist) :
        rows' = [rows EXCEPT !.blacklist[b] = row, !.log = @ \cup {entry(b)}]
  BY DEF CreateBlacklist
<1>2. /\ Running(c, "blacklist") /\ past' = past
      /\ call' \in [Calls -> CallRecord \cup {None}]
      /\ \A d \in Calls : call'[d] # None => call'[d] = call[d]
  BY EndKeepsCalls DEF CreateBlacklist, SupplierInv
<1>3. /\ call[c].user \in Employees /\ call[c].supplier \in SupplierIds
      /\ call[c].request \in Requests /\ call[c].duration \in {"PERMANENT", "LIMITED"}
      /\ b \in BlacklistIds /\ rows.blacklist[b] = None
  BY <1>2, RowsFields, CallFields DEF SupplierInv, Typed, FreeIds
<1>4. row \in Blacklist /\ row # None /\ entry(b) \in LogEntry
  BY <1>3, BlacklistAssumption DEF Blacklist, LogEntry
<1>5. /\ rows' \in Rows
      /\ rows'.blacklist = [rows.blacklist EXCEPT ![b] = row]
      /\ rows'.log = rows.log \cup {entry(b)}
      /\ UNCHANGED <<rows.supplier, rows.status, rows.execution>>
  <2> HIDE DEF row
  <2>1. QED BY <1>1, <1>3, <1>4, RowsFields DEF SupplierInv, Typed, Rows
<1>6. \A x \in BlacklistIds : rows.blacklist[x] # None => x # b /\ rows'.blacklist[x] = rows.blacklist[x]
  BY <1>3, <1>5, RowsFields DEF SupplierInv, Typed
<1>7. Existing(rows'.blacklist) = Existing(rows.blacklist) \cup {b} /\ rows'.blacklist[b] = row
  <2> HIDE DEF row
  <2>1. QED BY <1>3, <1>4, <1>5, RowsFields DEF SupplierInv, Typed, Existing
<1>8. Typed'
  BY <1>2, <1>5, <1>7 DEF SupplierInv, Typed
<1>9. Lifted'
  <2>1. ASSUME NEW e \in rows.log
        PROVE  /\ rows'.blacklist[e.blacklist] # None
               /\ e.action = "RELEASE_SUPPLIER_BLACKLIST" => rows'.blacklist[e.blacklist].status = "RELEASED"
    <3>1. e.blacklist \in BlacklistIds
      BY RowsFields DEF SupplierInv, Typed, LogEntry
    <3>2. QED BY <1>6, <3>1 DEF SupplierInv, Lifted
  <2>2. rows'.blacklist[b] # None /\ entry(b).blacklist = b /\ entry(b).action # "RELEASE_SUPPLIER_BLACKLIST"
    BY <1>4, <1>7
  <2>3. QED BY <1>5, <2>1, <2>2 DEF Lifted
<1>10. BlacklistsHaveGrounds'
  <2>1. ASSUME NEW x \in Existing(rows.blacklist)
        PROVE  rows'.blacklist[x] = rows.blacklist[x]
    BY <1>6, RowsFields DEF Existing, SupplierInv, Typed
  <2>2. Grounds(rows', row.source, row.supplier, row.registrar)
    BY <1>2, <1>5 DEF SupplierInv, Grounded, Grounds
  <2>3. QED
    BY <1>5, <1>7, <2>1, <2>2 DEF SupplierInv, Grounded, BlacklistsHaveGrounds, Grounds, LinesOf, HasRole
<1>11. \A l \in Lines : rows'.execution[l] # None => rows'.supplier[rows'.execution[l]] # None
  BY <1>5 DEF SupplierInv, Referenced
<1>12. QED BY <1>2, <1>5, <1>6, <1>8, <1>9, <1>10, <1>11, EndKeeps

\* What a release writes.
Released(row, u) == [row EXCEPT !.status = "RELEASED", !.releasedBy = u]

ReleaseEntry(b, row, u) ==
  [blacklist |-> b, by |-> u, request |-> row.source, action |-> "RELEASE_SUPPLIER_BLACKLIST"]

LEMMA ReleasedFields ==
  ASSUME NEW row \in Blacklist, NEW u \in Employees, NEW b \in BlacklistIds
  PROVE  /\ Released(row, u) \in Blacklist /\ Released(row, u) # None
         /\ Released(row, u).status = "RELEASED" /\ Released(row, u).source = row.source
         /\ Released(row, u).supplier = row.supplier /\ Released(row, u).registrar = row.registrar
         /\ Released(row, u).releasedBy = u
         /\ ReleaseEntry(b, row, u) \in LogEntry /\ ReleaseEntry(b, row, u).blacklist = b
<1>1. Released(row, u) \in Blacklist
  BY DEF Released, Blacklist
<1>2. QED BY <1>1, BlacklistAssumption DEF Released, Blacklist, ReleaseEntry, LogEntry

\* A release finds the row as it is now, and writes it and its log entry.
LEMMA ReleaseWrites ==
  ASSUME SupplierInv, NEW c \in Calls, ReleaseBlacklist(c)
  PROVE  \E b \in BlacklistIds, u \in Employees :
           /\ rows.blacklist[b] \in Blacklist /\ rows.blacklist[b] # None
           /\ rows.blacklist[b].status = "ACTIVE"
           /\ u = rows.blacklist[b].registrar \/ HasRole(u, "ADMIN")
           /\ rows' \in Rows
           /\ rows'.blacklist = [rows.blacklist EXCEPT ![b] = Released(rows.blacklist[b], u)]
           /\ rows'.log = rows.log \cup {ReleaseEntry(b, rows.blacklist[b], u)}
           /\ UNCHANGED <<rows.supplier, rows.status, rows.execution>>
<1>1. /\ Running(c, "release") /\ rows.blacklist[call[c].blacklist] # None
      /\ call[c].user \in Employees /\ call[c].blacklist \in BlacklistIds
  BY CallFields DEF ReleaseBlacklist, SupplierInv, Referenced
<1>2. PICK b \in BlacklistIds, u \in Employees : b = call[c].blacklist /\ u = call[c].user
  BY <1>1
<1>3. rows.blacklist[b] \in Blacklist /\ rows.blacklist[b] # None
  BY <1>1, <1>2, RowsFields DEF SupplierInv, Typed
<1>4. PICK new : new = Released(rows.blacklist[b], u)
  OBVIOUS
<1>5. PICK entry : entry = ReleaseEntry(b, rows.blacklist[b], u)
  OBVIOUS
<1>6. /\ rows' = [rows EXCEPT !.blacklist[b] = new, !.log = @ \cup {entry}]
      /\ rows.blacklist[b].status = "ACTIVE"
      /\ u = rows.blacklist[b].registrar \/ HasRole(u, "ADMIN")
  BY <1>2, <1>4, <1>5 DEF ReleaseBlacklist, BlacklistLocked, Released, ReleaseEntry
<1>7. new \in Blacklist /\ entry \in LogEntry
  BY <1>3, <1>4, <1>5, ReleasedFields
<1>8. /\ rows' \in Rows
      /\ rows'.blacklist = [rows.blacklist EXCEPT ![b] = new]
      /\ rows'.log = rows.log \cup {entry}
      /\ UNCHANGED <<rows.supplier, rows.status, rows.execution>>
  BY <1>6, <1>7, RowsFields DEF SupplierInv, Typed, Rows
<1>9. QED BY <1>3, <1>4, <1>5, <1>6, <1>8

LEMMA ReleaseBlacklistKeeps ==
  ASSUME SupplierInv, NEW c \in Calls, ReleaseBlacklist(c)
  PROVE  SupplierInv'
<1>0. PICK b \in BlacklistIds, u \in Employees :
        /\ rows.blacklist[b] \in Blacklist /\ rows.blacklist[b] # None
        /\ rows' \in Rows
        /\ rows'.blacklist = [rows.blacklist EXCEPT ![b] = Released(rows.blacklist[b], u)]
        /\ rows'.log = rows.log \cup {ReleaseEntry(b, rows.blacklist[b], u)}
        /\ UNCHANGED <<rows.supplier, rows.status, rows.execution>>
  BY ReleaseWrites
<1> DEFINE new == Released(rows.blacklist[b], u)
           entry == ReleaseEntry(b, rows.blacklist[b], u)
<1>1. /\ rows' \in Rows
      /\ rows'.blacklist = [rows.blacklist EXCEPT ![b] = new]
      /\ rows'.log = rows.log \cup {entry}
      /\ UNCHANGED <<rows.supplier, rows.status, rows.execution>>
  BY <1>0
<1>2. /\ past' = past /\ call' \in [Calls -> CallRecord \cup {None}]
      /\ \A d \in Calls : call'[d] # None => call'[d] = call[d]
  BY EndKeepsCalls DEF ReleaseBlacklist, SupplierInv
<1>3. rows.blacklist \in [BlacklistIds -> Blacklist \cup {None}]
  BY RowsFields DEF SupplierInv, Typed
<1>4. /\ new # None /\ new.status = "RELEASED"
      /\ new.source = rows.blacklist[b].source /\ new.supplier = rows.blacklist[b].supplier
      /\ new.registrar = rows.blacklist[b].registrar /\ entry.blacklist = b
  BY <1>0, ReleasedFields
<1> HIDE DEF new, entry
<1>5. /\ rows'.blacklist[b] = new
      /\ \A x \in BlacklistIds : x # b => rows'.blacklist[x] = rows.blacklist[x]
      /\ Existing(rows'.blacklist) = Existing(rows.blacklist)
  BY <1>0, <1>1, <1>3, <1>4 DEF Existing
<1>6. Typed'
  BY <1>1, <1>2, <1>5 DEF SupplierInv, Typed
<1>7. Lifted'
  <2>1. ASSUME NEW e \in rows.log
        PROVE  /\ rows'.blacklist[e.blacklist] # None
               /\ e.action = "RELEASE_SUPPLIER_BLACKLIST" => rows'.blacklist[e.blacklist].status = "RELEASED"
    <3>1. e.blacklist \in BlacklistIds
      BY RowsFields DEF SupplierInv, Typed, LogEntry
    <3>2. QED BY <1>4, <1>5, <3>1 DEF SupplierInv, Lifted
  <2>2. rows'.blacklist[entry.blacklist] = new
    BY <1>4, <1>5
  <2>3. QED BY <1>1, <1>4, <2>1, <2>2 DEF Lifted
<1>8. BlacklistsHaveGrounds'
  <2>1. ASSUME NEW x \in Existing(rows.blacklist)
        PROVE  /\ rows'.blacklist[x].source = rows.blacklist[x].source
               /\ rows'.blacklist[x].supplier = rows.blacklist[x].supplier
               /\ rows'.blacklist[x].registrar = rows.blacklist[x].registrar
    BY <1>3, <1>4, <1>5 DEF Existing
  <2>2. QED
    BY <1>1, <1>5, <2>1 DEF SupplierInv, Grounded, BlacklistsHaveGrounds, LinesOf, HasRole
<1>9. \A x \in BlacklistIds : rows.blacklist[x] # None => rows'.blacklist[x] # None
  BY <1>4, <1>5
<1>10. \A l \in Lines : rows'.execution[l] # None => rows'.supplier[rows'.execution[l]] # None
  BY <1>1 DEF SupplierInv, Referenced
<1>11. QED BY <1>1, <1>2, <1>6, <1>7, <1>8, <1>9, <1>10, EndKeeps

\* A purchase writes a line of a request that is still being purchased, from a
\* supplier that is there.
LEMMA PurchaseWrites ==
  ASSUME SupplierInv, NEW c \in Calls, SavePurchaseItem(c)
  PROVE  \E l \in Lines, s \in SupplierIds :
           /\ rows.status[RequestOf[l]] = "PURCHASING"
           /\ rows' \in Rows
           /\ rows'.execution = [rows.execution EXCEPT ![l] = s]
           /\ rows'.supplier[s] # None
           /\ \A x \in SupplierIds : rows.supplier[x] # None => rows'.supplier[x] # None
           /\ UNCHANGED <<rows.blacklist, rows.status, rows.log>>
<1>1. /\ Running(c, "purchase") /\ call[c].line \in Lines /\ call[c].supplier \in SupplierIds \cup {None}
      /\ call[c].version \in 0..(MaxSaves - 1)
  BY CallFields DEF SavePurchaseItem, SupplierInv
<1>2. PICK l \in Lines : l = call[c].line
  BY <1>1
<1>3. /\ RequestOf[l] \in Requests /\ ProposedName[RequestOf[l]] \in Names
      /\ rows.version[RequestOf[l]] \in 0..(MaxSaves - 1) /\ rows.status[RequestOf[l]] = "PURCHASING"
  BY <1>1, <1>2, SupplierAssumption DEF SavePurchaseItem, BumpVersion
<1>4. rows.version[RequestOf[l]] + 1 \in 0..MaxSaves
  BY <1>3, SupplierAssumption
<1>5. CASE call[c].supplier # None
  <2>1. PICK s \in SupplierIds : s = call[c].supplier /\ rows.supplier[s] # None
    BY <1>1, <1>5 DEF SupplierInv, Referenced
  <2>2. rows' = [rows EXCEPT !.execution[l] = s, !.version[RequestOf[l]] = @ + 1]
    BY <1>2, <1>5, <2>1 DEF SavePurchaseItem
  <2>3. /\ rows' \in Rows /\ rows'.execution = [rows.execution EXCEPT ![l] = s]
        /\ UNCHANGED <<rows.supplier, rows.blacklist, rows.status, rows.log>>
    BY <1>3, <1>4, <2>2, RowsFields DEF SupplierInv, Typed, Rows
  <2>4. QED BY <1>3, <2>1, <2>3
<1>6. CASE call[c].supplier = None
  <2>1. PICK s \in FreeIds(rows.supplier) :
          rows' = [rows EXCEPT !.execution[l] = s, !.version[RequestOf[l]] = @ + 1,
                               !.supplier[s] = ProposedName[RequestOf[l]]]
    <3>1. PICK s \in FreeIds(rows.supplier) :
            rows' = [[rows EXCEPT !.execution[l] = s, !.version[RequestOf[l]] = @ + 1]
                       EXCEPT !.supplier[s] = ProposedName[RequestOf[l]]]
      BY <1>2, <1>6 DEF SavePurchaseItem
    <3>2. QED BY <3>1, RowsFields DEF SupplierInv, Typed
  <2>2. s \in SupplierIds
    BY RowsFields DEF FreeIds, SupplierInv, Typed
  <2>3. /\ rows' \in Rows /\ rows'.execution = [rows.execution EXCEPT ![l] = s]
        /\ rows'.supplier = [rows.supplier EXCEPT ![s] = ProposedName[RequestOf[l]]]
        /\ UNCHANGED <<rows.blacklist, rows.status, rows.log>>
    BY <1>3, <1>4, <2>1, <2>2, RowsFields DEF SupplierInv, Typed, Rows
  <2>4. \A x \in SupplierIds : x = s \/ rows.supplier[x] # None => rows'.supplier[x] # None
    BY <1>3, <2>2, <2>3, RowsFields, SupplierAssumption DEF SupplierInv, Typed
  <2>5. QED BY <1>3, <2>2, <2>3, <2>4
<1>7. QED BY <1>5, <1>6

LEMMA SavePurchaseItemKeeps ==
  ASSUME SupplierInv, NEW c \in Calls, SavePurchaseItem(c)
  PROVE  SupplierInv'
<1>1. PICK l \in Lines, s \in SupplierIds :
        /\ rows.status[RequestOf[l]] = "PURCHASING"
        /\ rows' \in Rows
        /\ rows'.execution = [rows.execution EXCEPT ![l] = s]
        /\ rows'.supplier[s] # None
        /\ \A x \in SupplierIds : rows.supplier[x] # None => rows'.supplier[x] # None
        /\ UNCHANGED <<rows.blacklist, rows.status, rows.log>>
  BY PurchaseWrites
<1>2. /\ past' = past /\ call' \in [Calls -> CallRecord \cup {None}]
      /\ \A d \in Calls : call'[d] # None => call'[d] = call[d]
  BY EndKeepsCalls DEF SavePurchaseItem, SupplierInv
<1>3. \A r \in Requests : rows.status[r] = "COMPLETED" =>
        \A x \in LinesOf(r) : rows'.execution[x] = rows.execution[x]
  BY <1>1, RowsFields DEF LinesOf, SupplierInv, Typed
<1>4. Typed' /\ Lifted'
  BY <1>1, <1>2 DEF SupplierInv, Typed, Lifted, Existing
<1>5. BlacklistsHaveGrounds'
  <2> SUFFICES ASSUME NEW b \in Existing(rows.blacklist)
               PROVE  Grounds(rows', rows.blacklist[b].source, rows.blacklist[b].supplier,
                              rows.blacklist[b].registrar)
    BY <1>1 DEF BlacklistsHaveGrounds, Grounds, LinesOf, HasRole, Existing
  <2>1. rows.blacklist[b].source \in Requests
    BY RowsFields DEF Existing, SupplierInv, Typed, Blacklist
  <2>2. Grounds(rows, rows.blacklist[b].source, rows.blacklist[b].supplier, rows.blacklist[b].registrar)
    BY DEF SupplierInv, Grounded, BlacklistsHaveGrounds, Grounds
  <2>3. QED BY <1>1, <1>3, <2>1, <2>2 DEF Grounds
<1>6. \A x \in Lines : rows'.execution[x] # None => rows'.supplier[rows'.execution[x]] # None
  BY <1>1, RowsFields DEF SupplierInv, Typed, Referenced
<1>7. QED BY <1>1, <1>2, <1>3, <1>4, <1>5, <1>6, EndKeeps

LEMMA EndAtPassesKeeps ==
  ASSUME SupplierInv, NEW b \in BlacklistIds, EndAtPasses(b)
  PROVE  SupplierInv'
<1>1. UNCHANGED <<rows, call>> /\ past' = past \cup {b} /\ b \in Existing(rows.blacklist)
  BY RowsFields DEF EndAtPasses, Existing, SupplierInv, Typed
<1>2. Typed'
  BY <1>1 DEF SupplierInv, Typed
<1>3. Grounded' /\ Referenced' /\ Lifted'
  BY <1>1 DEF SupplierInv, Grounded, BlacklistsHaveGrounds, Grounds, Referenced, Lifted,
              Existing, LinesOf, HasRole, Running
<1>4. QED BY <1>2, <1>3 DEF SupplierInv

LEMMA CompleteRequestKeeps ==
  ASSUME SupplierInv, NEW r \in Requests, CompleteRequest(r)
  PROVE  SupplierInv'
<1>1. /\ rows' \in Rows
      /\ rows'.status = [rows.status EXCEPT ![r] = "COMPLETED"]
      /\ UNCHANGED <<rows.supplier, rows.blacklist, rows.execution, rows.log, past, call>>
  BY RowsFields DEF CompleteRequest, SupplierInv, Typed, Rows
<1>2. \A x \in Requests : rows.status[x] = "COMPLETED" => rows'.status[x] = "COMPLETED"
  BY <1>1, RowsFields DEF SupplierInv, Typed
<1>3. Typed' /\ Lifted'
  BY <1>1 DEF SupplierInv, Typed, Lifted, Existing
<1>4. BlacklistsHaveGrounds'
  <2> SUFFICES ASSUME NEW b \in Existing(rows.blacklist)
               PROVE  Grounds(rows', rows.blacklist[b].source, rows.blacklist[b].supplier,
                              rows.blacklist[b].registrar)
    BY <1>1 DEF BlacklistsHaveGrounds, Grounds, LinesOf, HasRole, Existing
  <2>1. rows.blacklist[b].source \in Requests
    BY RowsFields DEF Existing, SupplierInv, Typed, Blacklist
  <2>2. QED BY <1>1, <1>2, <2>1 DEF SupplierInv, Grounded, BlacklistsHaveGrounds, Grounds
<1>5. QED BY <1>1, <1>2, <1>3, <1>4, EndKeeps DEF SupplierInv, Referenced

LEMMA SupplierInductive == SupplierInv /\ [SupplierNext]_supplierVars => SupplierInv'
<1> SUFFICES ASSUME SupplierInv, [SupplierNext]_supplierVars PROVE SupplierInv'
  OBVIOUS
<1>1. CASE UNCHANGED supplierVars
  BY <1>1 DEF supplierVars, SupplierInv, Typed, Grounded, BlacklistsHaveGrounds, Grounds, Referenced,
              Lifted, Existing, LinesOf, HasRole, Running
<1>2. QED
  BY <1>1, FailKeeps, BeginCreateKeeps, CreateSupplierKeeps, BeginBlacklistKeeps, CreateBlacklistKeeps,
     BeginReleaseKeeps, ReleaseBlacklistKeeps, BeginPurchaseKeeps, SavePurchaseItemKeeps,
     EndAtPassesKeeps, CompleteRequestKeeps DEF SupplierNext

LEMMA SupplierInvariant == SupplierSpec => []SupplierInv
BY InitSupplierInv, SupplierInductive, PTL DEF SupplierSpec

-----------------------------------------------------------------------------
(* Blacklists *)

\* A blacklist has grounds: its source is a completed request whose one line was
\* bought from the supplier (create_blacklist, get_completed_request_supplier).
THEOREM BlacklistsAreGrounded == SupplierSpec => []BlacklistsHaveGrounds
<1>1. SupplierInv => BlacklistsHaveGrounds
  BY DEF SupplierInv, Grounded
<1>2. QED BY <1>1, SupplierInvariant, PTL

\* Only a release changes a blacklist that is there.
LEMMA OthersKeepBlacklists ==
  ASSUME SupplierInv, SupplierNext, \A c \in Calls : ~ReleaseBlacklist(c),
         NEW b \in Existing(rows.blacklist)
  PROVE  rows'.blacklist[b] = rows.blacklist[b]
<1>1. /\ b \in BlacklistIds /\ rows.blacklist[b] # None
      /\ rows.blacklist \in [BlacklistIds -> Blacklist \cup {None}]
  BY RowsFields DEF SupplierInv, Typed, Existing
<1>2. ASSUME NEW c \in Calls, CreateSupplier(c) PROVE rows'.blacklist = rows.blacklist
  BY <1>2, RowsFields DEF CreateSupplier, SupplierInv, Typed
<1>3. ASSUME NEW c \in Calls, CreateBlacklist(c) PROVE rows'.blacklist[b] = rows.blacklist[b]
  <2>1. PICK x \in FreeIds(rows.blacklist) :
          \E row, log : rows' = [rows EXCEPT !.blacklist[x] = row, !.log = log]
    BY <1>3 DEF CreateBlacklist
  <2>2. x # b /\ \E row : rows'.blacklist = [rows.blacklist EXCEPT ![x] = row]
    BY <1>1, <2>1, RowsFields DEF FreeIds, SupplierInv, Typed
  <2>3. QED BY <1>1, <2>2
<1>4. ASSUME NEW c \in Calls, SavePurchaseItem(c) PROVE rows'.blacklist = rows.blacklist
  BY <1>4, PurchaseWrites
<1>5. ASSUME NEW r \in Requests, CompleteRequest(r) PROVE rows'.blacklist = rows.blacklist
  BY <1>5, RowsFields DEF CompleteRequest, SupplierInv, Typed
<1>6. QED
  BY <1>2, <1>3, <1>4, <1>5 DEF SupplierNext, Fail, BeginCreate, BeginBlacklist, BeginRelease,
     BeginPurchase, Begins, EndAtPasses

\* A blacklist is lifted once, by whom it may be, and the lifting is logged: the
\* row is read FOR UPDATE (release_blacklist).
THEOREM LiftedOnce == SupplierSpec => ReleasedOnce
<1>1. ASSUME SupplierInv, SupplierNext, NEW b \in Existing(rows.blacklist),
             rows'.blacklist[b] # rows.blacklist[b]
      PROVE  /\ rows.blacklist[b].status = "ACTIVE"
             /\ \/ rows'.blacklist[b].releasedBy = rows.blacklist[b].registrar
                \/ HasRole(rows'.blacklist[b].releasedBy, "ADMIN")
             /\ ReleaseEntry(b, rows.blacklist[b], rows'.blacklist[b].releasedBy) \in rows'.log \ rows.log
  <2>1. PICK c \in Calls : ReleaseBlacklist(c)
    BY <1>1, OthersKeepBlacklists
  <2>2. PICK x \in BlacklistIds, u \in Employees :
          /\ rows.blacklist[x] \in Blacklist /\ rows.blacklist[x] # None
          /\ rows.blacklist[x].status = "ACTIVE"
          /\ u = rows.blacklist[x].registrar \/ HasRole(u, "ADMIN")
          /\ rows'.blacklist = [rows.blacklist EXCEPT ![x] = Released(rows.blacklist[x], u)]
          /\ rows'.log = rows.log \cup {ReleaseEntry(x, rows.blacklist[x], u)}
    BY <1>1, <2>1, ReleaseWrites
  <2>3. x = b /\ rows'.blacklist[b] = Released(rows.blacklist[b], u)
    BY <1>1, <2>2, RowsFields DEF SupplierInv, Typed, Existing
  <2>4. rows'.blacklist[b].releasedBy = u
    BY <2>2, <2>3, ReleasedFields
  <2>5. ReleaseEntry(b, rows.blacklist[b], u) \notin rows.log
    BY <1>1, <2>2, <2>3 DEF SupplierInv, Lifted, ReleaseEntry
  <2>6. QED BY <2>2, <2>3, <2>4, <2>5
<1>2. SupplierInv /\ [SupplierNext]_supplierVars =>
        [\A b \in Existing(rows.blacklist) :
           rows'.blacklist[b] # rows.blacklist[b] =>
             LET old == rows.blacklist[b]
                 by  == rows'.blacklist[b].releasedBy
             IN
             /\ old.status = "ACTIVE"
             /\ by = old.registrar \/ HasRole(by, "ADMIN")
             /\ \E entry \in rows'.log \ rows.log :
                  entry = [blacklist |-> b, by |-> by, request |-> old.source,
                           action |-> "RELEASE_SUPPLIER_BLACKLIST"]]_supplierVars
  BY <1>1 DEF ReleaseEntry
<1>3. QED BY <1>2, SupplierInvariant, PTL DEF SupplierSpec, ReleasedOnce

-----------------------------------------------------------------------------
(* Matching *)

LEMMA MatchIsLevel == \A asked, l : Match(asked, l) \in Levels
BY DEF Match, Levels

LEMMA LeastLevel ==
  ASSUME NEW S \in SUBSET Levels, S # {}
  PROVE  Least(S) \in S /\ \A n \in S : Least(S) <= n
<1>1. \E x \in S : \A y \in S : x <= y
  <2>0. \A y \in Levels : y = 1 \/ y = 2 \/ y = 3 \/ y = 4
    BY DEF Levels
  <2>1. 1 \in S \/ 2 \in S \/ 3 \in S \/ 4 \in S
    BY <2>0
  <2>2. \A y \in S : y = 1 \/ y = 2 \/ y = 3 \/ y = 4
    BY <2>0
  <2>3. CASE 1 \in S
    BY <2>2, <2>3
  <2>4. CASE 1 \notin S /\ 2 \in S
    BY <2>2, <2>4
  <2>5. CASE 1 \notin S /\ 2 \notin S /\ 3 \in S
    BY <2>2, <2>5
  <2>6. CASE 1 \notin S /\ 2 \notin S /\ 3 \notin S
    BY <2>1, <2>2, <2>6
  <2>7. QED BY <2>3, <2>4, <2>5, <2>6
<1>2. QED BY <1>1 DEF Least

\* What the candidate for a supplier among some lines is: its best match, and the
\* lines that match so.
Describes(c, bought, asked, s, lines) ==
  /\ c.supplier = s
  /\ c.best \in Levels
  /\ \A x \in lines : bought[x] = s => c.best <= Match(asked, x)
  /\ c.evidence # {}
  /\ c.evidence = {x \in lines : bought[x] = s /\ Match(asked, x) = c.best}

LEMMA BestMatch ==
  ASSUME NEW bought, NEW asked, NEW lines, NEW s, NEW l \in lines, bought[l] = s
  PROVE  Describes(SupplierCandidate(bought, asked, s, lines), bought, asked, s, lines)
<1> DEFINE own == {x \in lines : bought[x] = s}
           matches == {Match(asked, x) : x \in own}
           best == Least(matches)
           strict == {x \in own : Match(asked, x) = best}
<1>1. l \in own /\ matches \in SUBSET Levels /\ matches # {}
  BY MatchIsLevel
<1>2. best \in matches /\ \A n \in matches : best <= n
  BY <1>1, LeastLevel
<1>3. best \in Levels /\ \A x \in own : best <= Match(asked, x)
  BY <1>1, <1>2
<1>4. strict # {}
  BY <1>2
<1>5. SupplierCandidate(bought, asked, s, lines) =
        [supplier |-> s, best |-> best, evidence |-> strict,
         age |-> Least({TermsOf[x].age : x \in strict})]
  BY DEF SupplierCandidate
<1> HIDE DEF best
<1>6. QED BY <1>3, <1>4, <1>5 DEF Describes

\* The lines down to a level hold the whole candidate if its best match is there.
LEMMA CandidateStays ==
  ASSUME NEW bought, NEW asked, NEW lines, NEW l \in lines, NEW level \in Levels,
         SupplierCandidate(bought, asked, bought[l], lines).best <= level
  PROVE  SupplierCandidate(bought, asked, bought[l], lines)
           \in SupplierCandidates(bought, asked, {x \in lines : Match(asked, x) <= level})
<1> DEFINE s == bought[l]
           near == {x \in lines : Match(asked, x) <= level}
           c == SupplierCandidate(bought, asked, s, lines)
<1>1. Describes(c, bought, asked, s, lines)
  BY BestMatch
<1>2. PICK k \in lines : bought[k] = s /\ Match(asked, k) = c.best
  BY <1>1 DEF Describes
<1>3. k \in near
  BY <1>2
<1> DEFINE d == SupplierCandidate(bought, asked, s, near)
<1>4. Describes(d, bought, asked, s, near)
  BY <1>2, <1>3, BestMatch
<1> HIDE DEF c, d
<1>5. d.best = c.best /\ d.evidence = c.evidence
  <2>1. d.best <= c.best
    BY <1>2, <1>3, <1>4 DEF Describes
  <2>2. c.best <= d.best
    BY <1>1, <1>4 DEF Describes
  <2>3. d.best = c.best
    BY <1>1, <1>4, <2>1, <2>2 DEF Describes, Levels
  <2>4. c.best <= level
    BY DEF c
  <2>5. QED BY <1>1, <1>4, <2>3, <2>4 DEF Describes
<1>6. d = c
  <2>1. /\ d = [supplier |-> d.supplier, best |-> d.best, evidence |-> d.evidence,
                age |-> Least({TermsOf[x].age : x \in d.evidence})]
        /\ d.supplier = s
    BY DEF d, SupplierCandidate
  <2>2. /\ c = [supplier |-> c.supplier, best |-> c.best, evidence |-> c.evidence,
                age |-> Least({TermsOf[x].age : x \in c.evidence})]
        /\ c.supplier = s
    BY DEF c, SupplierCandidate
  <2>3. QED BY <1>5, <2>1, <2>2
<1>7. QED BY <1>2, <1>3, <1>6 DEF c, d, SupplierCandidates

LEMMA CandidatesFinite ==
  ASSUME NEW bought, NEW asked, NEW lines, IsFiniteSet(lines)
  PROVE  IsFiniteSet(SupplierCandidates(bought, asked, lines))
<1> DEFINE of(l) == SupplierCandidate(bought, asked, bought[l], lines)
           f == [l \in lines |-> of(l)]
<1>1. f \in Surjection(lines, SupplierCandidates(bought, asked, lines))
  <2>1. SupplierCandidates(bought, asked, lines) = {of(l) : l \in lines}
    BY DEF SupplierCandidates
  <2> HIDE DEF of
  <2>2. QED BY <2>1 DEF Surjection
<1>2. QED BY <1>1, FS_Surjection

\* Whatever comes before a better match comes before a worse one.
LEMMA BetterFirst ==
  ASSUME NEW a, NEW x, NEW y, a.best \in Int, x.best \in Int, y.best \in Int,
         x.best < y.best, CandidateOrder(a, x)
  PROVE  CandidateOrder(a, y)
<1>1. a.best <= x.best
  BY DEF CandidateOrder, LexLess
<1>2. a.best < y.best
  BY <1>1
<1>3. QED BY <1>2 DEF CandidateOrder, LexLess

LEMMA NoneLeftOut ==
  ASSUME NEW v, NEW asked, NEW line
  PROVE  NoBetterMatchLeftOut(v, asked, line)
<1> DEFINE lines == History(v.execution, line)
           level == StopLevel(v, asked, lines)
           near == {l \in lines : Match(asked, l) <= level}
           pool == SupplierCandidates(v.execution, asked, near)
<1>1. level \in Levels
  <2> DEFINE stops == {n \in Levels :
                \/ n = 4
                \/ Cardinality(Eligible(v, asked, lines, n)) >= TargetEligible
                \/ Cardinality(Pool(v.execution, asked, lines, n)) >= PoolSize}
  <2>1. stops \in SUBSET Levels /\ 4 \in stops
    BY DEF Levels
  <2>2. level = Least(stops)
    BY DEF StopLevel
  <2> HIDE DEF stops, level
  <2>3. QED BY <2>1, <2>2, LeastLevel
<1> HIDE DEF level
<1> SUFFICES ASSUME NEW x \in SupplierCandidates(v.execution, asked, lines), x.supplier \notin v.blacklisted,
                    NEW y \in Eligible(v, asked, lines, level),
                    \A z \in Eligible(v, asked, lines, level) : z.supplier # x.supplier,
                    ~(y.best <= x.best)
             PROVE  FALSE
  BY DEF NoBetterMatchLeftOut, ChosenSuppliers, level
<1>2. IsFiniteSet(near)
  <2>1. near \in SUBSET Lines
    BY DEF History
  <2>2. QED BY <2>1, FS_Subset, RecommendationAssumption
<1>3. IsFiniteSet(pool)
  BY <1>2, CandidatesFinite
<1>4. PICK l \in lines : x = SupplierCandidate(v.execution, asked, v.execution[l], lines)
  BY DEF SupplierCandidates
<1>5. Describes(x, v.execution, asked, v.execution[l], lines)
  BY <1>4, BestMatch
<1>6. y \in pool /\ Cardinality({c \in pool : CandidateOrder(c, y)}) < PoolSize
  BY DEF Eligible, Pool, Leading
<1>7. PICK k \in near : y = SupplierCandidate(v.execution, asked, v.execution[k], near)
  BY <1>6 DEF SupplierCandidates
<1>8. Describes(y, v.execution, asked, v.execution[k], near)
  BY <1>7, BestMatch
<1>9. y.best <= level
  BY <1>8 DEF Describes
<1>10. x.best < y.best /\ x.best <= level
  BY <1>1, <1>5, <1>8, <1>9 DEF Describes, Levels
<1>11. x \in pool
  BY <1>1, <1>4, <1>10, CandidateStays
<1>12. ASSUME NEW c \in pool, CandidateOrder(c, x)
       PROVE  CandidateOrder(c, y)
  <2>1. PICK m \in near : c = SupplierCandidate(v.execution, asked, v.execution[m], near)
    BY DEF SupplierCandidates
  <2>2. c.best \in Levels
    BY <2>1, BestMatch DEF Describes
  <2>3. c.best \in Int /\ x.best \in Int /\ y.best \in Int
    BY <1>5, <1>8, <2>2 DEF Describes, Levels
  <2>4. QED BY <1>10, <1>12, <2>3, BetterFirst
<1>13. Cardinality({c \in pool : CandidateOrder(c, x)}) < PoolSize
  <2>1. {c \in pool : CandidateOrder(c, y)} \in SUBSET pool
    OBVIOUS
  <2>2. {c \in pool : CandidateOrder(c, x)} \in SUBSET {c \in pool : CandidateOrder(c, y)}
    BY <1>12
  <2> DEFINE after == {c \in pool : CandidateOrder(c, y)}
             before == {c \in pool : CandidateOrder(c, x)}
  <2> HIDE DEF after, before
  <2>3. IsFiniteSet(after)
    BY <1>3, <2>1, FS_Subset DEF after
  <2>4. /\ IsFiniteSet(before) /\ Cardinality(before) <= Cardinality(after)
    BY <2>2, <2>3, FS_Subset DEF after, before
  <2>5. Cardinality(after) \in Nat /\ Cardinality(before) \in Nat
    BY <2>3, <2>4, FS_CardinalityType
  <2>6. QED BY <1>6, <2>4, <2>5, RecommendationAssumption DEF after, before
<1>14. x \in Pool(v.execution, asked, lines, level)
  BY <1>11, <1>13 DEF Pool, Leading
<1>15. x \in Eligible(v, asked, lines, level)
  BY <1>5, <1>14 DEF Eligible, PassesHardFilter, Describes
<1>16. QED BY <1>15

-----------------------------------------------------------------------------
(* What a new blacklist changes *)

\* What was in a pool is in every wider one: the candidate is the same, and nobody
\* new comes before it.
LEMMA PoolsGrow ==
  ASSUME NEW bought, NEW asked, NEW lines \in SUBSET Lines, NEW n \in Levels, NEW m \in Levels, n <= m
  PROVE  Pool(bought, asked, lines, n) \subseteq Pool(bought, asked, lines, m)
<1> DEFINE near == {l \in lines : Match(asked, l) <= n}
           wide == {l \in lines : Match(asked, l) <= m}
           few == SupplierCandidates(bought, asked, near)
           many == SupplierCandidates(bought, asked, wide)
<1> SUFFICES ASSUME NEW c \in Pool(bought, asked, lines, n)
             PROVE  c \in Pool(bought, asked, lines, m)
  OBVIOUS
<1>1. near = {l \in wide : Match(asked, l) <= n}
  <2>1. \A l \in lines : Match(asked, l) <= n => Match(asked, l) <= m
    <3>1. n \in Int /\ m \in Int
      BY DEF Levels
    <3>2. \A l \in lines : Match(asked, l) \in Int
      BY MatchIsLevel DEF Levels
    <3>3. QED BY <3>1, <3>2
  <2>2. QED BY <2>1
<1>2. IsFiniteSet(few)
  <2>1. near \in SUBSET Lines
    OBVIOUS
  <2>2. QED BY <2>1, FS_Subset, RecommendationAssumption, CandidatesFinite
\* A candidate of the wider pool that matches well enough is one of the narrower.
<1>3. ASSUME NEW d \in many, d.best <= n
      PROVE  d \in few
  <2>1. PICK l \in wide : d = SupplierCandidate(bought, asked, bought[l], wide)
    BY DEF SupplierCandidates
  <2> HIDE DEF near, wide
  <2>2. SupplierCandidate(bought, asked, bought[l], wide)
          \in SupplierCandidates(bought, asked, {x \in wide : Match(asked, x) <= n})
    BY <1>3, <2>1, CandidateStays
  <2>3. QED BY <1>1, <2>1, <2>2
<1>4. c \in few /\ Cardinality({d \in few : CandidateOrder(d, c)}) < PoolSize
  BY DEF Pool, Leading
<1>5. PICK k \in near : c = SupplierCandidate(bought, asked, bought[k], near)
  BY <1>4 DEF SupplierCandidates
<1>6. c.best \in Levels /\ c.best <= n /\ c.supplier = bought[k]
  <2>1. Describes(c, bought, asked, bought[k], near)
    BY <1>5, BestMatch
  <2>2. QED BY <2>1 DEF Describes
<1>7. c \in many
  <2> DEFINE d == SupplierCandidate(bought, asked, bought[k], wide)
  <2>1. k \in wide
    BY <1>1
  <2>2. d \in many
    BY <2>1 DEF SupplierCandidates
  <2>3. Describes(d, bought, asked, bought[k], wide)
    BY <2>1, BestMatch
  <2>4. d.best <= n
    <3>1. d.best <= Match(asked, k) /\ d.best \in Levels
      BY <2>1, <2>3 DEF Describes
    <3>2. Match(asked, k) <= n /\ Match(asked, k) \in Levels
      BY MatchIsLevel
    <3> HIDE DEF d
    <3>3. QED BY <3>1, <3>2 DEF Levels
  <2>5. PICK l \in near : d = SupplierCandidate(bought, asked, bought[l], near)
    <3> HIDE DEF near, d
    <3>1. QED BY <1>3, <2>2, <2>4 DEF SupplierCandidates
  <2>6. d.supplier = bought[l] /\ d.supplier = bought[k]
    <3>1. d.supplier = bought[l]
      <4> HIDE DEF d
      <4>1. QED BY <2>5 DEF SupplierCandidate
    <3>2. QED BY <3>1, <2>3 DEF Describes
  <2> HIDE DEF d, near, many
  <2>7. d = c
    BY <1>5, <2>5, <2>6
  <2>8. QED BY <2>2, <2>7
<1>8. {d \in many : CandidateOrder(d, c)} \subseteq {d \in few : CandidateOrder(d, c)}
  <2> SUFFICES ASSUME NEW d \in many, CandidateOrder(d, c)
               PROVE  d \in few
    OBVIOUS
  <2>1. d.best \in Levels
    <3>1. PICK l \in wide : d = SupplierCandidate(bought, asked, bought[l], wide)
      BY DEF SupplierCandidates
    <3>2. QED BY <3>1, BestMatch DEF Describes
  <2>2. d.best <= c.best
    <3>1. d.best \in Int /\ c.best \in Int
      BY <1>6, <2>1 DEF Levels
    <3> HIDE DEF many
    <3>2. QED BY <3>1 DEF CandidateOrder, LexLess
  <2>3. d.best <= n
    BY <1>6, <2>1, <2>2 DEF Levels
  <2>4. QED BY <1>3, <2>3
<1>9. Cardinality({d \in many : CandidateOrder(d, c)}) < PoolSize
  <2> DEFINE before == {d \in many : CandidateOrder(d, c)}
             around == {d \in few : CandidateOrder(d, c)}
  <2>1. around \in SUBSET few /\ before \in SUBSET around
    BY <1>8
  <2>2. Cardinality(around) < PoolSize
    BY <1>4
  <2> HIDE DEF before, around, few, many
  <2>3. IsFiniteSet(around)
    BY <1>2, <2>1, FS_Subset
  <2>4. IsFiniteSet(before) /\ Cardinality(before) <= Cardinality(around)
    BY <2>1, <2>3, FS_Subset
  <2>5. Cardinality(around) \in Nat /\ Cardinality(before) \in Nat
    BY <2>3, <2>4, FS_CardinalityType
  <2>6. Cardinality(before) < PoolSize
    BY <2>2, <2>4, <2>5, RecommendationAssumption
  <2>7. QED BY <2>6 DEF before
<1>10. QED BY <1>7, <1>9 DEF Pool, Leading

LEMMA PoolFinite ==
  ASSUME NEW bought, NEW asked, NEW lines \in SUBSET Lines, NEW level
  PROVE  IsFiniteSet(Pool(bought, asked, lines, level))
<1> DEFINE near == {l \in lines : Match(asked, l) <= level}
<1>1. near \in SUBSET Lines
  OBVIOUS
<1>2. IsFiniteSet(SupplierCandidates(bought, asked, near))
  BY <1>1, FS_Subset, RecommendationAssumption, CandidatesFinite
<1>3. Pool(bought, asked, lines, level) \in SUBSET SupplierCandidates(bought, asked, near)
  BY DEF Pool, Leading
<1>4. QED BY <1>2, <1>3, FS_Subset

\* The levels at which the widening may stop
Stops(v, asked, lines) ==
  {n \in Levels :
     \/ n = 4
     \/ Cardinality(Eligible(v, asked, lines, n)) >= TargetEligible
     \/ Cardinality(Pool(v.execution, asked, lines, n)) >= PoolSize}

LEMMA StopLevelIsLeast ==
  ASSUME NEW v, NEW asked, NEW lines
  PROVE  /\ StopLevel(v, asked, lines) \in Stops(v, asked, lines)
         /\ StopLevel(v, asked, lines) \in Levels
         /\ \A n \in Stops(v, asked, lines) : StopLevel(v, asked, lines) <= n
<1>1. Stops(v, asked, lines) \in SUBSET Levels /\ 4 \in Stops(v, asked, lines)
  BY DEF Stops, Levels
<1>2. StopLevel(v, asked, lines) = Least(Stops(v, asked, lines))
  BY DEF StopLevel, Stops
<1>3. QED BY <1>1, <1>2, LeastLevel

\* One more supplier on the blacklist widens the match, or leaves it: the others
\* stay.
LEMMA OthersStayChosen ==
  ASSUME NEW v, NEW w, NEW x, NEW asked, NEW line,
         w.execution = v.execution, v.blacklisted \subseteq w.blacklisted,
         w.blacklisted \subseteq v.blacklisted \cup {x}
  PROVE  ChosenFor(v, asked, line) \ {x} \subseteq ChosenFor(w, asked, line)
<1> DEFINE bought == v.execution
           lines == History(bought, line)
           n == StopLevel(v, asked, lines)
           m == StopLevel(w, asked, lines)
<1>1. lines \in SUBSET Lines
  BY DEF History
<1>2. \A k : Eligible(w, asked, lines, k) \in SUBSET Eligible(v, asked, lines, k)
  BY DEF Eligible, PassesHardFilter
<1>3. \A k \in Levels : Cardinality(Eligible(w, asked, lines, k)) <= Cardinality(Eligible(v, asked, lines, k))
                        /\ Cardinality(Eligible(w, asked, lines, k)) \in Nat
                        /\ Cardinality(Eligible(v, asked, lines, k)) \in Nat
  <2> TAKE k \in Levels
  <2>1. Eligible(v, asked, lines, k) \in SUBSET Pool(bought, asked, lines, k)
    BY DEF Eligible
  <2>2. IsFiniteSet(Eligible(v, asked, lines, k))
    BY <1>1, <2>1, PoolFinite, FS_Subset
  <2>3. /\ IsFiniteSet(Eligible(w, asked, lines, k))
        /\ Cardinality(Eligible(w, asked, lines, k)) <= Cardinality(Eligible(v, asked, lines, k))
    BY <1>2, <2>2, FS_Subset
  <2>4. QED BY <2>2, <2>3, FS_CardinalityType
<1>4. Stops(w, asked, lines) \subseteq Stops(v, asked, lines)
  <2> SUFFICES ASSUME NEW k \in Levels, k \in Stops(w, asked, lines)
               PROVE  k \in Stops(v, asked, lines)
    BY DEF Stops
  <2>1. CASE Cardinality(Eligible(w, asked, lines, k)) >= TargetEligible
    <3>1. Cardinality(Eligible(v, asked, lines, k)) >= TargetEligible
      BY <1>3, <2>1, RecommendationAssumption
    <3>2. QED BY <3>1 DEF Stops
  <2>2. CASE ~(Cardinality(Eligible(w, asked, lines, k)) >= TargetEligible)
    BY <2>2 DEF Stops
  <2>3. QED BY <2>1, <2>2
<1>5. n \in Levels /\ m \in Levels /\ n <= m
  BY <1>4, StopLevelIsLeast
<1> HIDE DEF n, m
<1>6. Pool(bought, asked, lines, n) \subseteq Pool(bought, asked, lines, m)
  BY <1>1, <1>5, PoolsGrow
<1>7. /\ ChosenSuppliers(v, asked, line) = Eligible(v, asked, lines, n)
      /\ ChosenSuppliers(w, asked, line) = Eligible(w, asked, lines, m)
  BY DEF ChosenSuppliers, n, m
<1>8. ASSUME NEW c \in Eligible(v, asked, lines, n), c.supplier # x
      PROVE  c \in Eligible(w, asked, lines, m)
  BY <1>6, <1>8 DEF Eligible, PassesHardFilter
<1>9. QED BY <1>7, <1>8 DEF ChosenFor

\* Of those the older endpoint looks at, one less moves the others up.
LEMMA OthersStayListed ==
  ASSUME NEW v, NEW w, NEW x, NEW line,
         w.execution = v.execution, w.status = v.status, v.blacklisted \subseteq w.blacklisted,
         w.blacklisted \subseteq v.blacklisted \cup {x}
  PROVE  LegacySuppliers(v, line, MaxSupplierRecommendations) \ {x}
           \subseteq LegacySuppliers(w, line, MaxSupplierRecommendations)
<1> DEFINE limit == MaxSupplierRecommendations
           lines == LegacyHistory(v, line)
           of(s) == {l \in lines : v.execution[l] = s}
           key(s) == <<-Cardinality(of(s)), Least({TermsOf[l].age : l \in of(s)}), s>>
           before(s, t) == LexLess(key(s), key(t))
           all == {v.execution[l] : l \in lines}
           first == Leading(all, 3 * limit, before)
           old == {s \in first : s \notin v.blacklisted}
           new == {s \in first : s \notin w.blacklisted}
<1>1. LegacyHistory(w, line) = lines
  BY DEF LegacyHistory
<1>2. LegacySuppliers(v, line, limit) = Leading(old, limit, before)
  BY DEF LegacySuppliers
<1>3. LegacySuppliers(w, line, limit) = Leading(new, limit, before)
  BY <1>1 DEF LegacySuppliers
<1>4. IsFiniteSet(old)
  <2>1. lines \in SUBSET Lines
    BY DEF LegacyHistory
  <2>2. IsFiniteSet(lines)
    BY <2>1, FS_Subset, RecommendationAssumption
  <2>3. IsFiniteSet(all)
    <3> DEFINE f == [l \in lines |-> v.execution[l]]
    <3> HIDE DEF lines
    <3>1. f \in Surjection(lines, all)
      BY DEF Surjection
    <3>2. QED BY <2>2, <3>1, FS_Surjection
  <2>4. old \in SUBSET all
    BY DEF Leading
  <2> HIDE DEF old, all
  <2>5. QED BY <2>3, <2>4, FS_Subset
<1>5. new \subseteq old /\ old \ {x} \subseteq new
  OBVIOUS
<1> HIDE DEF old, new, before, limit
<1> SUFFICES ASSUME NEW s \in old, s # x, Cardinality({t \in old : before(t, s)}) < limit
             PROVE  s \in new /\ Cardinality({t \in new : before(t, s)}) < limit
  BY <1>2, <1>3 DEF Leading, limit
<1> DEFINE many == {t \in old : before(t, s)}
           few == {t \in new : before(t, s)}
<1>6. many \in SUBSET old /\ few \in SUBSET many
  BY <1>5
<1>7. Cardinality(many) < limit
  OBVIOUS
<1>8. s \in new
  BY <1>5
<1> HIDE DEF many, few
<1>9. IsFiniteSet(many)
  BY <1>4, <1>6, FS_Subset
<1>10. IsFiniteSet(few) /\ Cardinality(few) <= Cardinality(many)
  BY <1>6, <1>9, FS_Subset
<1>11. Cardinality(few) \in Nat /\ Cardinality(many) \in Nat
  BY <1>9, <1>10, FS_CardinalityType
<1>12. limit \in Nat
  BY RecommendationAssumption DEF limit
<1>13. Cardinality(few) < limit
  BY <1>7, <1>10, <1>11, <1>12
<1>14. QED BY <1>8, <1>13 DEF few

\* A blacklist that is registered concerns its supplier.
LEMMA CreateBlacklistExcludesOne ==
  ASSUME SupplierInv, NEW c \in Calls, CreateBlacklist(c)
  PROVE  /\ View'.execution = View.execution /\ View'.status = View.status
         /\ View.blacklisted \subseteq View'.blacklisted
         /\ View'.blacklisted \subseteq View.blacklisted \cup {call[c].supplier}
<1> DEFINE row == [supplier |-> call[c].supplier, source |-> call[c].request,
                   registrar |-> call[c].user, duration |-> call[c].duration,
                   status |-> "ACTIVE", releasedBy |-> None]
<1>1. PICK b \in FreeIds(rows.blacklist) :
        /\ rows'.blacklist = [rows.blacklist EXCEPT ![b] = row]
        /\ rows'.execution = rows.execution /\ rows'.status = rows.status
  BY RowsFields DEF CreateBlacklist, SupplierInv, Typed
<1>2. past' = past
  BY DEF CreateBlacklist
<1>3. rows.blacklist \in [BlacklistIds -> Blacklist \cup {None}]
  BY RowsFields DEF SupplierInv, Typed
<1>4. b \in BlacklistIds /\ rows.blacklist[b] = None
  BY <1>3 DEF FreeIds
<1>5. rows'.blacklist[b].supplier = call[c].supplier
  BY <1>1, <1>3, <1>4
<1>6. \A k \in BlacklistIds \ {b} : rows'.blacklist[k] = rows.blacklist[k]
  BY <1>1, <1>3
<1>7. \A s : Blacklisted(s, rows) => Blacklisted(s, rows')
  <2> SUFFICES ASSUME NEW s, NEW k \in BlacklistIds, Effective(k, rows), rows.blacklist[k].supplier = s
               PROVE  Effective(k, rows') /\ rows'.blacklist[k].supplier = s
    BY DEF Blacklisted
  <2>1. k # b
    BY <1>4 DEF Effective
  <2>2. QED BY <1>6, <2>1 DEF Effective
<1>8. \A s : Blacklisted(s, rows') => Blacklisted(s, rows) \/ s = call[c].supplier
  <2> SUFFICES ASSUME NEW s, NEW k \in BlacklistIds, Effective(k, rows'), rows'.blacklist[k].supplier = s,
                      k # b
               PROVE  Effective(k, rows) /\ rows.blacklist[k].supplier = s
    BY <1>5 DEF Blacklisted
  <2>1. QED BY <1>6 DEF Effective
<1>9. View'.blacklisted = {s \in SupplierIds : Blacklisted(s, rows')}
  BY <1>2 DEF View, Blacklisted, Effective
<1>10. /\ View.blacklisted = {s \in SupplierIds : Blacklisted(s, rows)}
       /\ View.execution = rows.execution /\ View.status = rows.status
       /\ View'.execution = rows'.execution /\ View'.status = rows'.status
  BY DEF View
<1>11. QED BY <1>1, <1>7, <1>8, <1>9, <1>10

\* A new blacklist displaces nobody but its supplier: whoever else was chosen by
\* recommend_suppliers to be ranked, or listed by suppliers_for_request, still is.
THEOREM BlacklistsExcludeOne == SupplierSpec => BlacklistExcludesOneSupplier
<1>1. ASSUME SupplierInv, NEW c \in Calls, NEW line \in Lines, CreateBlacklist(c)
      PROVE  /\ \A asked \in AskedFor(line) :
                  ChosenFor(View, asked, line) \ {call[c].supplier} \subseteq ChosenFor(View', asked, line)
             /\ LegacySuppliers(View, line, MaxSupplierRecommendations) \ {call[c].supplier}
                  \subseteq LegacySuppliers(View', line, MaxSupplierRecommendations)
  BY <1>1, CreateBlacklistExcludesOne, OthersStayChosen, OthersStayListed
<1>2. SupplierInv =>
        \A c \in Calls, line \in Lines, before \in {View}, after \in {View'} :
          CreateBlacklist(c) =>
            LET others(S) == S \ {call[c].supplier} IN
            /\ \A asked \in AskedFor(line) :
                 others(ChosenFor(before, asked, line)) \subseteq ChosenFor(after, asked, line)
            /\ others(LegacySuppliers(before, line, MaxSupplierRecommendations))
                 \subseteq LegacySuppliers(after, line, MaxSupplierRecommendations)
  BY <1>1
<1>3. QED BY <1>2, SupplierInvariant, PTL DEF BlacklistExcludesOneSupplier

-----------------------------------------------------------------------------
(* Products *)

\* What a recommended product is.
LEMMA ProductFields ==
  ASSUME NEW v, NEW line, NEW x \in RecommendedProducts(v, line)
  PROVE  /\ x.best \in Levels
         /\ Cardinality(x.suppliers) \in Nat
<1> DEFINE asked == ProductOf[line]
           lines == History(v.execution, line)
<1>1. PICK l \in lines : x = ProductCandidate(v, asked, ProductKey(ProductOf[l]), lines)
  BY DEF RecommendedProducts, Leading
<1> DEFINE own == {m \in lines : ProductKey(ProductOf[m]) = ProductKey(ProductOf[l])}
           matches == {Match(asked, m) : m \in own}
           bought == {v.execution[m] : m \in own}
<1>2. x.best = Least(matches) /\ x.suppliers = {s \in bought : s \notin v.blacklisted}
  BY <1>1 DEF ProductCandidate
<1>3. l \in own /\ own \in SUBSET Lines
  BY DEF History
<1>4. matches \in SUBSET Levels /\ matches # {}
  BY <1>3, MatchIsLevel
<1>5. IsFiniteSet(own)
  BY <1>3, FS_Subset, RecommendationAssumption
<1>6. IsFiniteSet(bought)
  <2> DEFINE f == [m \in own |-> v.execution[m]]
  <2>1. f \in Surjection(own, bought)
    BY DEF Surjection
  <2>2. QED BY <1>5, <2>1, FS_Surjection
<1>7. x.suppliers \in SUBSET bought
  BY <1>2
<1> HIDE DEF matches, bought
<1>8. IsFiniteSet(x.suppliers)
  BY <1>6, <1>7, FS_Subset
<1>9. QED BY <1>2, <1>4, <1>8, LeastLevel, FS_CardinalityType

LEMMA ScoresAreScores ==
  /\ \A n \in Levels : MatchScore[n] \in {60, 80, 95, 100}
  /\ \A n : CountScore(n) \in {40, 60, 80, 100}
  /\ \A n : RecencyScore(n) \in {40, 60, 80, 100}
  /\ \A n \in Nat : CoverageScore(n) \in {0, 40, 70, 100}
<1>1. \A n \in Levels : n = 1 \/ n = 2 \/ n = 3 \/ n = 4
  BY DEF Levels
<1>2. MatchScore[1] = 100 /\ MatchScore[2] = 95 /\ MatchScore[3] = 80 /\ MatchScore[4] = 60
  BY DEF MatchScore
<1>3. \A n \in Nat : n = 0 \/ n = 1 \/ n = 2 \/ n >= 3
  OBVIOUS
<1>4. \A n \in Nat : CoverageScore(n) \in {0, 40, 70, 100}
  BY <1>3 DEF CoverageScore
<1>5. QED BY <1>1, <1>2, <1>4 DEF CountScore, RecencyScore

LEMMA BetterProductFirst ==
  ASSUME NEW view, NEW line
  PROVE  BetterProductComesFirst(view, line)
<1> SUFFICES ASSUME NEW x \in RecommendedProducts(view, line), NEW y \in RecommendedProducts(view, line),
                    MatchScore[x.best] >= MatchScore[y.best],
                    CountScore(x.count) >= CountScore(y.count),
                    RecencyScore(x.age) >= RecencyScore(y.age),
                    CoverageScore(Cardinality(x.suppliers)) >= CoverageScore(Cardinality(y.suppliers)),
                    <<MatchScore[x.best], CountScore(x.count), RecencyScore(x.age),
                      CoverageScore(Cardinality(x.suppliers))>>
                      # <<MatchScore[y.best], CountScore(y.count), RecencyScore(y.age),
                          CoverageScore(Cardinality(y.suppliers))>>
             PROVE  ProductRankedBefore(x, y)
  BY DEF BetterProductComesFirst
<1>1. PICK m, c, r, v : /\ m = MatchScore[x.best] /\ c = CountScore(x.count) /\ r = RecencyScore(x.age)
                        /\ v = CoverageScore(Cardinality(x.suppliers))
  OBVIOUS
<1>2. PICK n, d, s, w : /\ n = MatchScore[y.best] /\ d = CountScore(y.count) /\ s = RecencyScore(y.age)
                        /\ w = CoverageScore(Cardinality(y.suppliers))
  OBVIOUS
<1>3. /\ m \in Int /\ c \in Int /\ r \in Int /\ v \in Int
      /\ n \in Int /\ d \in Int /\ s \in Int /\ w \in Int
  BY <1>1, <1>2, ProductFields, ScoresAreScores
<1>4. m >= n /\ c >= d /\ r >= s /\ v >= w /\ (m # n \/ c # d \/ r # s \/ v # w)
  BY <1>1, <1>2
<1>5. 50 * m + 20 * c + 15 * r + 15 * v > 50 * n + 20 * d + 15 * s + 15 * w
  BY <1>3, <1>4
<1>6. /\ ProductScore(x) = 50 * m + 20 * c + 15 * r + 15 * v
      /\ ProductScore(y) = 50 * n + 20 * d + 15 * s + 15 * w
  BY <1>1, <1>2 DEF ProductScore
<1>7. -ProductScore(x) < -ProductScore(y)
  BY <1>3, <1>5, <1>6
<1>8. QED BY <1>7 DEF ProductRankedBefore, LexLess

-----------------------------------------------------------------------------
(* Medians and the ranks of suppliers *)

LEMMA LeastNatural ==
  ASSUME NEW S \in SUBSET Nat, S # {}
  PROVE  Least(S) \in S /\ \A y \in S : Least(S) <= y
<1>1. PICK x \in S : \A y \in S : <<y, x>> \notin OpToRel(<, Nat)
  BY NatLessThanWellFounded, WFMin
<1>2. ASSUME NEW y \in S, y < x PROVE FALSE
  <2>1. <<y, x>> \in Nat \X Nat
    BY <1>2
  <2>2. <<y, x>>[1] < <<y, x>>[2]
    BY <1>2
  <2>3. <<y, x>> \in OpToRel(<, Nat)
    BY <2>1, <2>2, Zenon DEF OpToRel
  <2>4. QED BY <1>1, <2>3
<1>3. \A y \in S : x <= y
  BY <1>2
<1>4. QED BY <1>3 DEF Least

LEMMA LexPairs ==
  ASSUME NEW a \in Int, NEW b \in Int, NEW c \in Int, NEW d \in Int
  PROVE  LexLess(<<a, b>>, <<c, d>>) <=> a < c \/ (a = c /\ b < d)
BY DEF LexLess

\* In the order of the values, and of the lines for equal values, every place is
\* taken: the number of those before is an injection into as many numbers.
LEMMA NthIsValue ==
  ASSUME NEW S \in SUBSET Nat, IsFiniteSet(S), NEW f \in [S -> Nat], NEW n \in 1..Cardinality(S)
  PROVE  \E l \in S : Nth(f, n) = f[l]
<1> DEFINE before(l) == {m \in S : LexLess(<<f[m], m>>, <<f[l], l>>)}
           rank == [l \in S |-> Cardinality(before(l))]
           places == 0..(Cardinality(S) - 1)
<1>1. \A l, m \in S : LexLess(<<f[m], m>>, <<f[l], l>>) <=> f[m] < f[l] \/ (f[m] = f[l] /\ m < l)
  BY LexPairs
<1>2. Cardinality(S) \in Nat /\ Cardinality(S) >= 1
  BY FS_CardinalityType
<1>3. ASSUME NEW l \in S PROVE IsFiniteSet(before(l)) /\ Cardinality(before(l)) \in places
  <2>1. before(l) \in SUBSET (S \ {l})
    BY <1>1
  <2>2. IsFiniteSet(S \ {l}) /\ Cardinality(S \ {l}) = Cardinality(S) - 1
    BY FS_RemoveElement
  <2> HIDE DEF before
  <2>3. IsFiniteSet(before(l)) /\ Cardinality(before(l)) <= Cardinality(S \ {l})
    BY <2>1, <2>2, FS_Subset
  <2>4. Cardinality(before(l)) \in Nat
    BY <2>3, FS_CardinalityType
  <2>5. QED BY <1>2, <2>2, <2>3, <2>4
<1>4. ASSUME NEW l \in S, NEW m \in S, LexLess(<<f[m], m>>, <<f[l], l>>)
      PROVE  rank[m] < rank[l]
  <2>1. before(m) \in SUBSET before(l) /\ m \in before(l) /\ m \notin before(m)
    <3>1. /\ f[l] \in Int /\ f[m] \in Int /\ l \in Int /\ m \in Int
          /\ f[m] < f[l] \/ (f[m] = f[l] /\ m < l)
      BY <1>1, <1>4
    <3>2. ASSUME NEW k \in before(m) PROVE k \in before(l)
      <4>1. k \in S /\ f[k] \in Int /\ k \in Int /\ (f[k] < f[m] \/ (f[k] = f[m] /\ k < m))
        BY <1>1
      <4>2. f[k] < f[l] \/ (f[k] = f[l] /\ k < l)
        BY <3>1, <4>1
      <4>3. QED BY <1>1, <4>1, <4>2
    <3>3. m \notin before(m)
      BY <1>1, <3>1
    <3>4. QED BY <1>4, <3>2, <3>3
  <2>2. IsFiniteSet(before(m)) /\ IsFiniteSet(before(l))
    BY <1>3
  <2>3. /\ rank[m] = Cardinality(before(m)) /\ rank[l] = Cardinality(before(l))
        /\ rank[m] \in Nat /\ rank[l] \in Nat
    BY <1>2, <1>3
  <2> HIDE DEF before, rank
  <2>4. Cardinality(before(m)) <= Cardinality(before(l)) /\ Cardinality(before(m)) # Cardinality(before(l))
    BY <2>1, <2>2, FS_Subset
  <2>5. QED BY <2>3, <2>4
<1>5. rank \in Injection(S, places)
  <2>1. rank \in [S -> places]
    BY <1>3
  <2>2. ASSUME NEW l \in S, NEW m \in S, rank[l] = rank[m] PROVE l = m
    <3>1. rank[l] \in Int /\ rank[m] \in Int
      BY <2>1
    <3> HIDE DEF rank
    <3>2. ~LexLess(<<f[m], m>>, <<f[l], l>>) /\ ~LexLess(<<f[l], l>>, <<f[m], m>>)
      BY <1>4, <2>2, <3>1
    <3>3. QED BY <1>1, <3>2
  <2> HIDE DEF rank
  <2>3. QED BY <2>1, <2>2 DEF Injection, IsInjective
<1>6. IsFiniteSet(places) /\ Cardinality(places) = Cardinality(S)
  <2>1. PICK n0 \in Nat : n0 = Cardinality(S) /\ n0 >= 1
    BY <1>2
  <2>2. IsFiniteSet(0..(n0 - 1)) /\ Cardinality(0..(n0 - 1)) = IF 0 > n0 - 1 THEN 0 ELSE (n0 - 1) - 0 + 1
    BY FS_Interval
  <2>3. QED BY <2>1, <2>2
<1>7. rank \in Surjection(S, places)
  <2> HIDE DEF rank, places
  <2>1. QED BY <1>5, <1>6, FS_Injection
<1>8. \E l \in S : rank[l] = n - 1
  <2>1. n - 1 \in places
    BY <1>2
  <2> HIDE DEF rank, places
  <2>2. QED BY <1>7, <2>1 DEF Surjection
<1>9. \E l \in DOMAIN f : Cardinality({m \in DOMAIN f : LexLess(<<f[m], m>>, <<f[l], l>>)}) = n - 1
  BY <1>8
<1>10. QED BY <1>9 DEF Nth

\* The median of positive numbers is positive.
LEMMA MedianPositive ==
  ASSUME NEW S \in SUBSET Nat, IsFiniteSet(S), S # {}, NEW f \in [S -> Nat \ {0}]
  PROVE  TwiceMedian(f) \in Nat \ {0}
<1>1. PICK n \in Nat : n = Cardinality(S) /\ n # 0
  BY FS_CardinalityType, FS_EmptySet
<1>2. \A i \in 1..n : Nth(f, i) \in Nat \ {0}
  BY <1>1, NthIsValue
<1>3. DOMAIN f = S
  OBVIOUS
<1>4. CASE n % 2 = 1
  <2>1. (n + 1) \div 2 \in 1..n
    BY <1>1
  <2>2. TwiceMedian(f) = 2 * Nth(f, (n + 1) \div 2)
    BY <1>1, <1>3, <1>4 DEF TwiceMedian
  <2>3. QED BY <1>2, <2>1, <2>2
<1>5. CASE n % 2 # 1
  <2>1. n \div 2 \in 1..n /\ n \div 2 + 1 \in 1..n
    BY <1>1, <1>5
  <2>2. TwiceMedian(f) = Nth(f, n \div 2) + Nth(f, n \div 2 + 1)
    BY <1>1, <1>3, <1>5 DEF TwiceMedian
  <2>3. QED BY <1>2, <2>1, <2>2
<1>6. QED BY <1>4, <1>5

\* The evidence of a candidate that was chosen is known, and so are its medians.
LEMMA MediansKnown ==
  ASSUME NEW v, NEW asked, NEW line, NEW c \in ChosenSuppliers(v, asked, line)
  PROVE  /\ c.best \in Levels /\ c.evidence \in SUBSET Lines
         /\ Priced(c) # {} => MedianPrice(c) \in Nat \ {0}
         /\ Delivered(c) # {} => MedianDays(c) \in Nat \ {0}
<1>1. PICK level : c \in Pool(v.execution, asked, History(v.execution, line), level)
  BY DEF ChosenSuppliers, Eligible
<1> DEFINE near == {l \in History(v.execution, line) : Match(asked, l) <= level}
<1>2. PICK own \in near : c = SupplierCandidate(v.execution, asked, v.execution[own], near)
  BY <1>1 DEF Pool, Leading, SupplierCandidates
<1>3. c.best \in Levels /\ c.evidence \in SUBSET near
  <2>1. Describes(c, v.execution, asked, v.execution[own], near)
    BY <1>2, BestMatch
  <2> HIDE DEF near
  <2>2. QED BY <2>1 DEF Describes
<1>4. c.evidence \in SUBSET Lines
  BY <1>3 DEF History
<1>5. /\ Priced(c) \in SUBSET Lines /\ Delivered(c) \in SUBSET Lines
      /\ [l \in Priced(c) |-> TermsOf[l].price] \in [Priced(c) -> Nat \ {0}]
      /\ [l \in Delivered(c) |-> TermsOf[l].days] \in [Delivered(c) -> Nat \ {0}]
  <2>1. Priced(c) \in SUBSET Lines /\ Delivered(c) \in SUBSET Lines
    BY <1>4 DEF Priced, Delivered
  <2>2. \A l \in Lines : TermsOf[l].price \in Nat /\ TermsOf[l].days \in (Nat \ {0}) \cup {None}
    BY RecommendationAssumption DEF Terms
  <2>3. \A l \in Priced(c) : TermsOf[l].price \in Nat \ {0}
    BY <2>1, <2>2 DEF Priced
  <2>4. \A l \in Delivered(c) : TermsOf[l].days \in Nat \ {0}
    BY <2>1, <2>2 DEF Delivered
  <2>5. QED BY <2>1, <2>3, <2>4
<1>6. IsFiniteSet(Priced(c)) /\ IsFiniteSet(Delivered(c))
  BY <1>5, FS_Subset, RecommendationAssumption
<1>7. Priced(c) \in SUBSET Nat /\ Delivered(c) \in SUBSET Nat
  BY <1>5, RecommendationAssumption
<1>8. Priced(c) # {} => TwiceMedian([l \in Priced(c) |-> TermsOf[l].price]) \in Nat \ {0}
  BY <1>5, <1>6, <1>7, MedianPositive
<1>9. Delivered(c) # {} => TwiceMedian([l \in Delivered(c) |-> TermsOf[l].days]) \in Nat \ {0}
  BY <1>5, <1>6, <1>7, MedianPositive
<1>10. QED BY <1>3, <1>4, <1>8, <1>9 DEF MedianPrice, MedianDays

\* A lower price and no longer delivery make the higher score, for fractions of
\* one match and confidence k, least price a and least days b.
LEMMA HigherScore ==
  ASSUME NEW k \in Nat, NEW a \in Nat \ {0}, NEW b \in Nat \ {0},
         NEW p \in Nat \ {0}, NEW q \in Nat \ {0}, NEW d \in Nat \ {0}, NEW e \in Nat \ {0},
         p < q, d <= e
  PROVE  (k * p * d + 3 * 100 * a * d + 2 * 100 * b * p) * ((5 + 3 + 2) * q * e)
           > (k * q * e + 3 * 100 * a * e + 2 * 100 * b * q) * ((5 + 3 + 2) * p * d)
OBVIOUS

LEMMA CheaperFirst ==
  ASSUME NEW v, NEW asked, NEW line
  PROVE  CheaperComesFirst(v, asked, line)
<1> DEFINE chosen == ChosenSuppliers(v, asked, line)
<1> SUFFICES ASSUME NEW x \in chosen, NEW y \in chosen,
                    x.best = y.best,
                    CountScore(Cardinality(x.evidence)) = CountScore(Cardinality(y.evidence)),
                    Priced(x) # {}, Priced(y) # {}, MedianPrice(x) < MedianPrice(y),
                    Delivered(x) # {}, Delivered(y) # {}, MedianDays(x) <= MedianDays(y)
             PROVE  RankedBefore(x, y, chosen)
  BY DEF CheaperComesFirst
<1> DEFINE prices == {MedianPrice(z) : z \in {w \in chosen : Priced(w) # {}}}
           days == {MedianDays(z) : z \in {w \in chosen : Delivered(w) # {}}}
           cheapest == Least(prices)
           fastest == Least(days)
           match == 4 * MatchScore[x.best] + CountScore(Cardinality(x.evidence))
<1>1. /\ MedianPrice(x) \in Nat \ {0} /\ MedianPrice(y) \in Nat \ {0}
      /\ MedianDays(x) \in Nat \ {0} /\ MedianDays(y) \in Nat \ {0}
  BY MediansKnown
<1>2. prices \in SUBSET (Nat \ {0}) /\ prices # {} /\ days \in SUBSET (Nat \ {0}) /\ days # {}
  BY MediansKnown
<1>3. cheapest \in Nat \ {0} /\ fastest \in Nat \ {0}
  <2> HIDE DEF prices, days
  <2>1. prices \in SUBSET Nat /\ days \in SUBSET Nat
    BY <1>2
  <2>2. cheapest \in prices /\ fastest \in days
    BY <1>2, <2>1, LeastNatural
  <2>3. QED BY <1>2, <2>2
<1>4. match \in Nat
  <2>1. MatchScore[x.best] \in {60, 80, 95, 100} /\ CountScore(Cardinality(x.evidence)) \in {40, 60, 80, 100}
    BY MediansKnown, ScoresAreScores
  <2>2. QED BY <2>1
<1>5. /\ PriceWeight(x) = 3 /\ PriceWeight(y) = 3 /\ DeliveryWeight(x) = 2 /\ DeliveryWeight(y) = 2
  BY DEF PriceWeight, DeliveryWeight
<1>6. ASSUME NEW c \in {x, y}
      PROVE  Score(c, chosen) =
               [num |-> match * MedianPrice(c) * MedianDays(c)
                          + 3 * 100 * cheapest * MedianDays(c) + 2 * 100 * fastest * MedianPrice(c),
                den |-> (5 + 3 + 2) * MedianPrice(c) * MedianDays(c)]
  BY <1>5 DEF Score
<1>7. Score(x, chosen).num * Score(y, chosen).den > Score(y, chosen).num * Score(x, chosen).den
  <2>1. PICK k \in Nat, a \in Nat \ {0}, b \in Nat \ {0} : k = match /\ a = cheapest /\ b = fastest
    BY <1>3, <1>4
  <2>2. PICK p \in Nat \ {0}, q \in Nat \ {0}, d \in Nat \ {0}, e \in Nat \ {0} :
          p = MedianPrice(x) /\ q = MedianPrice(y) /\ d = MedianDays(x) /\ e = MedianDays(y)
    BY <1>1
  <2>3. p < q /\ d <= e
    BY <2>2
  <2>4. (k * p * d + 3 * 100 * a * d + 2 * 100 * b * p) * ((5 + 3 + 2) * q * e)
          > (k * q * e + 3 * 100 * a * e + 2 * 100 * b * q) * ((5 + 3 + 2) * p * d)
    BY <2>3, HigherScore
  <2>5. /\ Score(x, chosen).num = k * p * d + 3 * 100 * a * d + 2 * 100 * b * p
        /\ Score(x, chosen).den = (5 + 3 + 2) * p * d
        /\ Score(y, chosen).num = k * q * e + 3 * 100 * a * e + 2 * 100 * b * q
        /\ Score(y, chosen).den = (5 + 3 + 2) * q * e
    <3> HIDE DEF match, cheapest, fastest, chosen
    <3>1. QED BY <1>6, <2>1, <2>2
  <2> HIDE DEF match, cheapest, fastest, chosen
  <2>6. QED BY <2>4, <2>5
<1>8. QED BY <1>7 DEF RankedBefore

\* What is recommended is recommended by merit: widening and the pool leave no
\* better match out (recommend_suppliers), of two suppliers that match alike the
\* cheaper one that is no slower comes first (SupplierRanker), and of two products
\* the better one (ProductRanker).
THEOREM RecommendationsAreByMerit == SupplierSpec => []RecommendsByMerit
<1>1. RecommendsByMerit
  BY NoneLeftOut, CheaperFirst, BetterProductFirst DEF RecommendsByMerit
<1>2. QED BY <1>1, PTL
=============================================================================
