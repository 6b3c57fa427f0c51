------------------------------- MODULE Listing -------------------------------
(***************************************************************************)
(* Keyset pagination: a client pages through a list of the API while rows  *)
(* are inserted and deleted, leave and enter the list, and move in it.     *)
(* Every list is described by its query (the key it orders by, its orders, *)
(* what its cursor records and what may happen to its rows) and by its     *)
(* handler (the filter parameters, and those that the cursor carries).     *)
(* Sources: the List functions of internal/pg, the list handlers and the   *)
(* cursors of internal/httpapi.                                            *)
(***************************************************************************)
EXTENDS Naturals, FiniteSets

CONSTANTS
    Listings,    \* the lists a client may page through: <<query, handler, order>>
    PageLimit,   \* limit
    MaxRows,     \* bound: rows ever inserted
    MaxStamp,    \* bound: the clock
    MaxRowMoves  \* bound: rows hidden, shown, renamed and deleted

ASSUME ListingAssumption ==
    PageLimit \in Nat \ {0} /\ {MaxRows, MaxStamp, MaxRowMoves} \subseteq Nat

-----------------------------------------------------------------------------
(* Queries.  key: "created" is (created_at, id), "processed" (processed_at *)
(* NULLS LAST, seq), "version" the version alone, "path" the path.         *)
(* cursor: the key of the boundary row, or its id, which is looked up.     *)
(* changes: a row may "leave" the list (archived, another status or state),*)
(* "enter" it with its old key, be "removed", or be "renamed".             *)

Query(key, orders, cursor, changes) ==
    [key |-> key, orders |-> orders, cursor |-> cursor, changes |-> changes]

SessionQuery      == Query("created", {"asc", "desc"}, "both", {"leave", "enter", "removed"})
AgentQuery        == Query("created", {"desc"}, "key", {"leave"})
AgentVersionQuery == Query("version", {"asc"}, "key", {})
EnvironmentQuery  == Query("created", {"desc"}, "key", {"leave", "removed"})
DeploymentQuery   == Query("created", {"desc"}, "key", {"leave", "enter"})
RunQuery          == Query("created", {"desc"}, "key", {})
WorkQuery         == Query("created", {"desc"}, "key", {})
FileQuery         == Query("created", {"desc"}, "row", {"leave", "enter"})
StoreQuery        == Query("created", {"desc"}, "key", {"leave", "removed"})
MemoryQuery       == Query("path", {"asc"}, "key", {"renamed", "removed"})
MemoryVersionQuery == Query("created", {"desc"}, "key", {})
VaultQuery        == Query("created", {"desc"}, "key", {"leave", "removed"})
CredentialQuery   == Query("created", {"desc"}, "key", {"leave", "removed"})
SkillQuery        == Query("created", {"desc"}, "key", {"enter", "removed"})
SkillVersionQuery == Query("created", {"desc"}, "key", {"leave", "enter"})
ResourceQuery     == Query("created", {"asc"}, "key", {"leave"})
ThreadQuery       == Query("created", {"asc"}, "key", {})
EventQuery        == Query("processed", {"asc", "desc"}, "key", {})

-----------------------------------------------------------------------------
(* Handlers: the filter parameters, and the ones in the fingerprint that   *)
(* the page cursor carries.                                                *)

Handler(filters, bound) == [filters |-> filters, bound |-> bound]

SessionParams ==
    LET fields == {"agent_id", "agent_version", "include_archived", "deployment_id",
                   "memory_store_id", "created_at", "statuses"}
    IN  Handler(fields, fields \cup {"order"})
AgentParams       == Handler({"include_archived", "created_at"}, {"include_archived", "created_at"})
AgentVersionParams == Handler({}, {"agent_id"})
EnvironmentParams == Handler({"include_archived"}, {"include_archived"})
DeploymentParams  == Handler({"agent_id", "status", "include_archived", "created_at"},
                             {"agent_id", "status", "include_archived", "created_at"})
RunParams         == Handler({"trigger_type", "deployment_id", "has_error", "created_at"},
                             {"trigger_type", "deployment_id", "has_error", "created_at"})
WorkParams        == Handler({}, {"environment_id"})
FileParams        == Handler({"scope_id"}, {})
StoreParams       == Handler({"include_archived", "created_at"}, {"include_archived", "created_at"})
MemoryParams      == Handler({"path_prefix", "depth", "view"}, {"path_prefix", "depth", "view", "store_id"})
MemoryVersionParams ==
    LET fields == {"api_key_id", "session_id", "memory_id", "operation", "created_at", "view"}
    IN  Handler(fields, fields \cup {"store_id"})
VaultParams       == Handler({"include_archived"}, {"include_archived"})
CredentialParams  == Handler({"include_archived"}, {"include_archived", "vault_id"})
SkillParams       == Handler({"source"}, {"source"})
SkillVersionParams == Handler({}, {"skill_id"})
ResourceParams    == Handler({}, {"session_id"})
ThreadParams      == Handler({}, {"session_id"})
EventParams       == Handler({"types", "created_at"}, {"types", "created_at", "order", "session_id"})
ThreadEventParams == Handler({}, {"order", "session_id", "thread_id"})

-----------------------------------------------------------------------------
VARIABLES
    listing,  \* the list, and the order, this client asked for
    stamp,    \* the clock that processed_at and created_at are taken from
    rows,     \* the rows by id or seq: their key (0 is NULL), and whether the
              \* client's filter selects them
    lastRow,  \* the last id given out
    page,     \* the client's cursor and what it has received
    rowMoves  \* rows hidden, shown, renamed and deleted so far

listVars == <<listing, stamp, rows, lastRow, page, rowMoves>>

Key == listing[1].key
May(change) == change \in listing[1].changes /\ page.pc # "idle"
Desc == listing[3] = "desc"

\* pc, the direction, the boundary row as the cursor recorded it, the first row
\* of the last page, the rows selected since the listing began, the rows received
NoPage == [pc |-> "idle", back |-> FALSE, id |-> 0, at |-> 0, first |-> 0,
           present |-> {}, got |-> {}, more |-> FALSE]

ListingInit ==
    /\ listing \in Listings /\ stamp = 1 /\ page = NoPage
    /\ rows = [i \in {} |-> 0] /\ lastRow = 0 /\ rowMoves = 0

Present == DOMAIN rows
Selected == {i \in Present : rows[i].shown}

\* (created_at|processed_at ASC NULLS LAST, seq ASC)
Precedes(i, j) ==
    \/ rows[i].at # 0 /\ rows[j].at = 0
    \/ rows[i].at # 0 /\ rows[j].at # 0 /\ rows[i].at < rows[j].at
    \/ rows[i].at = rows[j].at /\ i < j

\* the order the rows are fetched in: a backward page is fetched in the opposite
InOrder(i, j) == IF Desc = page.back THEN Precedes(i, j) ELSE Precedes(j, i)

\* The boundary predicates: they compare with the key the cursor recorded.
EventBoundary(i) ==
    CASE Desc /\ page.at = 0  -> rows[i].at # 0 \/ i < page.id
      [] Desc /\ page.at # 0  ->
           rows[i].at # 0 /\ (rows[i].at < page.at \/ (rows[i].at = page.at /\ i < page.id))
      [] ~Desc /\ page.at = 0 -> rows[i].at = 0 /\ i > page.id
      [] OTHER -> rows[i].at = 0 \/ rows[i].at > page.at \/ (rows[i].at = page.at /\ i > page.id)

\* Mutant: the cursor carries only the timestamp.
ResourceBoundaryByTime(i) ==
    IF Desc = page.back THEN rows[i].at > page.at ELSE rows[i].at < page.at

ResourceBoundary(i) ==
    IF Desc = page.back
      THEN rows[i].at > page.at \/ (rows[i].at = page.at /\ i > page.id)
      ELSE rows[i].at < page.at \/ (rows[i].at = page.at /\ i < page.id)

AfterBoundary(i) ==
    \/ page.id = 0
    \/ page.id # 0 /\ Key = "processed" /\ EventBoundary(i)
    \/ page.id # 0 /\ Key # "processed" /\ ResourceBoundary(i)

\* LIMIT limit + 1: the extra row only tells that there is another page
PageRows ==
    LET rest == {i \in Selected : AfterBoundary(i)}
    IN  [rows |-> {i \in rest : Cardinality({j \in rest : InOrder(j, i)}) < PageLimit},
         more |-> Cardinality(rest) > PageLimit]

OpenListing ==
    /\ page.pc = "idle"
    /\ page' = [page EXCEPT !.pc = "paging", !.present = Selected]
    /\ UNCHANGED <<listing, stamp, rows, lastRow, rowMoves>>

\* the cursor of the next page: the last row of this one
Turned(p, found) ==
    IF found.rows = {} THEN p
    ELSE LET last == CHOOSE i \in found.rows : \A j \in found.rows \ {i} : InOrder(j, i)
             first == CHOOSE i \in found.rows : \A j \in found.rows \ {i} : InOrder(i, j)
         IN  [p EXCEPT !.id = last, !.at = rows[last].at, !.first = first]

\* A cursor that is a row's id is refused once the list has lost the row.
CursorKnown == listing[1].cursor # "row" \/ page.id = 0 \/ page.id \in Selected

\* One page; the Session list asks in a second query whether there is another.
ListPage ==
    LET found == PageRows
        got == [page EXCEPT !.got = @ \cup found.rows]
    IN  /\ page.pc = "paging"
        /\ page' = CASE ~CursorKnown -> [page EXCEPT !.pc = "refused"]
                     [] CursorKnown /\ listing[1].cursor = "both" /\ found.rows # {} ->
                          [Turned(got, found) EXCEPT !.pc = "peek"]
                     [] CursorKnown /\ listing[1].cursor # "both" /\ found.more -> Turned(got, found)
                     [] OTHER -> [got EXCEPT !.pc = "done"]
        /\ UNCHANGED <<listing, stamp, rows, lastRow, rowMoves>>

\* sessionExistsRelative
SessionExistsRelative ==
    /\ page.pc = "peek"
    /\ page' = [page EXCEPT !.pc = IF \E i \in Selected : AfterBoundary(i) THEN "paging" ELSE "done"]
    /\ UNCHANGED <<listing, stamp, rows, lastRow, rowMoves>>

\* prev_page: from the first row of the last page back to the start of the list;
\* what the listing still owes are the rows before that page.
TurnBack ==
    /\ listing[1].cursor = "both" /\ page.pc = "paging" /\ ~page.back /\ page.first \in Present
    /\ page' = [page EXCEPT !.back = TRUE, !.id = page.first, !.at = rows[page.first].at,
                  !.got = {i \in Present : i = page.first \/ InOrder(page.first, i)}]
    /\ UNCHANGED <<listing, stamp, rows, lastRow, rowMoves>>

\* The client widens its filter and keeps its cursor.  A fingerprint that has
\* the parameter refuses it; after_id of the File list has none, and is
\* documented to be used with the parameters it came from.
ChangeFilter(parameter) ==
    /\ page.pc = "paging" /\ page.id # 0 /\ listing[1].cursor # "row"
    /\ IF parameter \in listing[2].bound
         THEN page' = [page EXCEPT !.pc = "refused"] /\ UNCHANGED rows
         ELSE /\ rows' = [i \in Present |-> [rows[i] EXCEPT !.shown = TRUE]]
              /\ page' = [page EXCEPT !.present = Present]
    /\ UNCHANGED <<listing, stamp, lastRow, rowMoves>>

-----------------------------------------------------------------------------
(* What happens to the rows meanwhile                                      *)

\* The turns of a Session are serialized: each commit has a later timestamp.
Stamped == stamp < MaxStamp /\ stamp' = stamp + 1

Inserted(at, shown) ==
    [i \in Present \cup {lastRow'} |->
       IF i = lastRow' THEN [at |-> at, shown |-> shown] ELSE rows[i]]

\* a client event is admitted without processed_at; other rows carry their key
\* from the start; resources may share a timestamp, versions and paths are unique
InsertRow ==
    /\ lastRow < MaxRows /\ lastRow' = lastRow + 1
    /\ \/ Key = "processed" /\ rows' = Inserted(0, TRUE) /\ UNCHANGED stamp
       \/ Key \in {"processed", "version"} /\ Stamped /\ rows' = Inserted(stamp', TRUE)
       \/ /\ Key = "created" /\ (Stamped \/ UNCHANGED stamp)
          /\ \E shown \in {TRUE, "enter" \notin listing[1].changes} : rows' = Inserted(stamp', shown)
       \/ /\ Key = "path" /\ UNCHANGED stamp
          /\ \E p \in 1..MaxStamp : /\ \A i \in Present : rows[i].at # p
                                    /\ rows' = Inserted(p, TRUE)
    /\ UNCHANGED <<listing, page, rowMoves>>

\* MarkEventProcessed: the oldest event without processed_at
MarkEventProcessed ==
    /\ Stamped
    /\ \E i \in Present : /\ rows[i].at = 0 /\ \A j \in Present : rows[j].at = 0 => i <= j
                          /\ rows' = [rows EXCEPT ![i].at = stamp']
    /\ UNCHANGED <<listing, lastRow, page, rowMoves>>

\* the client may rely only on rows that are selected, at one place, throughout
Moved(i) ==
    /\ rowMoves < MaxRowMoves /\ rowMoves' = rowMoves + 1
    /\ page' = [page EXCEPT !.present = @ \ {i}]
    /\ UNCHANGED <<listing, stamp, lastRow>>

RowLeaves(i) ==
    /\ May("leave") /\ rows[i].shown /\ Moved(i)
    /\ rows' = [rows EXCEPT ![i].shown = FALSE]

RowEnters(i) ==
    /\ May("enter") /\ ~rows[i].shown /\ Moved(i)
    /\ rows' = [rows EXCEPT ![i].shown = TRUE]

DeleteRow(i) ==
    /\ May("removed") /\ Moved(i)
    /\ rows' = [j \in Present \ {i} |-> rows[j]]

\* UpdateMemory with a new path
RenameRow(i) ==
    /\ May("renamed") /\ Moved(i)
    /\ \E p \in 1..MaxStamp : /\ \A j \in Present : rows[j].at # p
                              /\ rows' = [rows EXCEPT ![i].at = p]

ListingNext ==
    \/ OpenListing \/ ListPage \/ SessionExistsRelative \/ TurnBack
    \/ \E parameter \in listing[2].filters : ChangeFilter(parameter)
    \/ InsertRow \/ MarkEventProcessed
    \/ \E i \in Present : RowLeaves(i) \/ RowEnters(i) \/ DeleteRow(i) \/ RenameRow(i)

ListingSpec == ListingInit /\ [][ListingNext]_listVars

-----------------------------------------------------------------------------
(* Properties                                                              *)

\* Rows carry stamps that were given out and a walk has seen only such rows.
ListingTypeOK ==
    /\ \A i \in Present : i \in 1..lastRow /\ rows[i].at \in 0..MaxStamp /\ rows[i].shown \in BOOLEAN
    /\ page.got \subseteq 1..lastRow /\ page.pc \in {"idle", "paging", "peek", "done", "refused"}

\* A listing that has ended returned every row that was selected from its start
\* to its end, whatever was inserted, deleted, hidden, shown or processed between
\* two pages and whichever way the client turned.
EveryRowListed == page.pc = "done" => page.present \cap Present \subseteq page.got
=============================================================================
