------------------------------ MODULE Listings ------------------------------
(***************************************************************************)
(* The paged lists of the services.  A client follows next_cursor from     *)
(* page to page; every page is one query on the rows of that moment, in    *)
(* the order of the list and after the position of the last row returned.  *)
(* Rows come, change and go between two pages.                             *)
(***************************************************************************)
EXTENDS Database, SequencesExt

CONSTANTS
    Rows,       \* rows of the listed table; their ids sort as numbers
    Owners,     \* whose row it is: 1, the caller's or delegated to it, or another's;
                \* of an operation, its revision
    PageLimit,  \* bound: rows of a page
    MaxInstant  \* bound: time

ASSUME ListingsOK ==
    /\ IsFiniteSet(Rows) /\ Rows \subseteq Nat \ {0}
    /\ 1 \in Owners /\ PageLimit \in Nat /\ MaxInstant \in Nat \ {0}

VARIABLES
    instant,   \* the clock
    entries,   \* the rows: [state, at, of]; at is the time, or the distance, they sort by
    promoted,  \* the live revision of the API whose operations are listed
    walk       \* a client's walk: [list, scope, cursor, got, whole, moved, done]

listings == <<instant, entries, promoted, walk>>

Start == [at |-> 0, id |-> 0]

NoWalk == [list |-> {}, scope |-> {}, cursor |-> Start, got |-> <<>>, whole |-> {},
           moved |-> {}, done |-> FALSE]

NoEntries == [r \in Rows |-> [state |-> "none", at |-> 0, of |-> 1]]

\* The client comes at some time to a table with some rows.
ListingsInit ==
    /\ instant \in 1..MaxInstant /\ promoted = 1 /\ walk = NoWalk
    /\ \E S \in SUBSET Rows : \E at \in [S -> 1..instant], of \in [S -> Owners] :
          entries = [r \in Rows |-> IF r \in S THEN [state |-> "listed", at |-> at[r], of |-> of[r]]
                                              ELSE NoEntries[r]]

-----------------------------------------------------------------------------
(* The orders of the queries: by a time or a distance, by an id, or both.  *)

By(keys, up) == [keys |-> keys, up |-> up, moves |-> FALSE]

Newest       == By({"at", "id"}, FALSE)
NewestByTime == By({"at"}, FALSE)
Oldest       == By({"at", "id"}, TRUE)

Less(o, x, y) == IF o.up THEN x < y ELSE y < x

\* _is_after_cursor, and the WHERE of the queries: position p comes before q.
Precedes(o, p, q) ==
    \/ "at" \in o.keys /\ Less(o, p.at, q.at)
    \/ ("at" \notin o.keys \/ p.at = q.at) /\ "id" \in o.keys /\ Less(o, p.id, q.id)

Users                  == NewestByTime
Agents                 == NewestByTime
AgentsOfOwner          == NewestByTime
ServiceAccounts        == NewestByTime
ServiceAccountsOfOwner == NewestByTime
AuditEntries           == NewestByTime
AuditEntriesOfTarget   == NewestByTime
AuditEntriesOfActor    == NewestByTime
Actors                 == Newest
Events                 == Newest
ExecutionRecords       == Newest
Jobs                   == Newest
AccessRequests         == Newest
StoredCredentials      == Newest
StoredToolkits         == Newest
AgentsOfToolkit        == Newest
ToolkitKeys            == Newest
ToolkitBindings        == Newest
Apis                   == Newest
ApiRevisions           == Newest
Overlays               == Newest
StoredNotes            == Newest
Operations             == Oldest
RankedEntries          == Oldest
NamedEntries           == By({"id"}, TRUE)
RankedInPostgres       == Oldest
\* bm25 weighs a row by the rows there are.
RankedInSqlite         == [Oldest EXCEPT !.moves = TRUE]

-----------------------------------------------------------------------------
(* The lists: an order and whose rows they hold.                           *)

List(order, holds) == [order |-> order, holds |-> holds]

\* build_access_filters: an administrator sees every row, others the rows they own and
\* those of the owner that delegates to them.
ControlFilters  == {{1}, Owners}
AdminFilters    == {{1}, Owners}
RegistryFilters == {{1}, Owners}

\* A list of everything, of what the caller may see, of one parent, of the live revision.
ScopesOf(l) ==
    CASE l.holds = "all"      -> {Owners}
      [] l.holds = "control"  -> ControlFilters
      [] l.holds = "admin"    -> AdminFilters
      [] l.holds = "registry" -> RegistryFilters
      [] l.holds = "one"      -> {{1}}
      [] l.holds = "live"     -> {{promoted}}

UserList           == {List(Users, "all")}
ActorList          == {List(Actors, "all")}
AuditList          == {List(o, "all") : o \in {AuditEntries, AuditEntriesOfTarget, AuditEntriesOfActor}}
EventList          == {List(Events, "all")}
ExecutionList      == {List(ExecutionRecords, "all")}
JobList            == {List(Jobs, "all")}
AgentList          == {List(o, "admin") : o \in {Agents, AgentsOfOwner}}
ServiceAccountList == {List(o, "admin") : o \in {ServiceAccounts, ServiceAccountsOfOwner}}
AccessRequestList  == {List(AccessRequests, "control")}
CredentialList     == {List(StoredCredentials, "control")}
ToolkitList        == {List(StoredToolkits, "control")}
BoundAgentList     == {List(AgentsOfToolkit, "one")}
KeyList            == {List(ToolkitKeys, "one")}
BindingList        == {List(ToolkitBindings, "one")}
ApiList            == {List(Apis, "all")}
RevisionList       == {List(ApiRevisions, "one")}
OverlayList        == {List(Overlays, "one")}
NoteList           == {List(StoredNotes, "registry")}
RevisionOperations == {List(Operations, "one")}
LiveOperations     == {List(Operations, "live")}
CatalogueList      == {List(o, "all") : o \in {NamedEntries, RankedEntries}}
SearchResults      == {List(IF Serial THEN RankedInSqlite ELSE RankedInPostgres, "all")}

-----------------------------------------------------------------------------
(* Pages.                                                                  *)

Position(r) == [at |-> entries[r].at, id |-> r]

Shown(scope) == {r \in Rows : entries[r].state = "listed" /\ entries[r].of \in scope}

\* What a query may return: rows in its order, where it leaves ties to the database.
Ordered(o, S) ==
    {s \in SetToSeqs(S) : \A i, j \in DOMAIN s : i < j => ~Precedes(o, Position(s[j]), Position(s[i]))}

\* Wrong variant: the cursor of the row that was read to see whether there is more.
CursorBeyond(found, n) == Position(found[n + 1])

\* encode_cursor of the last row of the page.
CursorOf(found, n) == Position(found[n])

\* One page of at most n rows: one more is asked for, to know whether there are more.
ReadPage(l, scope, whole, n) ==
    \E found \in Ordered(l.order, {r \in Shown(scope) :
                     walk.cursor = Start \/ Precedes(l.order, walk.cursor, Position(r))}) :
        LET more == Len(found) > n IN
        walk' = [walk EXCEPT !.list = {l}, !.scope = scope, !.whole = whole, !.done = ~more,
                             !.got = @ \o SubSeq(found, 1, Min({n, Len(found)})),
                             !.cursor = IF more THEN CursorOf(found, n) ELSE @]

\* GET of a list: the first page, or the next one of the same list.
Get(lists) ==
    /\ \E l \in lists, n \in 1..PageLimit :
          \/ /\ walk.list = {}
             /\ \E scope \in ScopesOf(l) : ReadPage(l, scope, Shown(scope), n)
          \/ /\ walk.list = {l} /\ ~walk.done
             /\ ReadPage(l, IF l.holds = "live" THEN {promoted} ELSE walk.scope, walk.whole, n)
    /\ UNCHANGED <<tx, instant, entries, promoted>>

GetUsers              == Get(UserList)
GetActors             == Get(ActorList)
GetAudit              == Get(AuditList)
GetEvents             == Get(EventList)
GetExecutions         == Get(ExecutionList)
GetJobs               == Get(JobList)
GetAgents             == Get(AgentList)
GetServiceAccounts    == Get(ServiceAccountList)
GetAccessRequests     == Get(AccessRequestList)
GetCredentials        == Get(CredentialList)
GetToolkits           == Get(ToolkitList)
GetBoundAgents        == Get(BoundAgentList)
GetKeys               == Get(KeyList)
GetBindings           == Get(BindingList)
GetApis               == Get(ApiList)
GetRevisions          == Get(RevisionList)
GetOverlays           == Get(OverlayList)
GetNotes              == Get(NoteList)
GetRevisionOperations == Get(RevisionOperations)
GetLiveOperations     == Get(LiveOperations)
GetCatalogue          == Get(CatalogueList)
GetSearchResults      == Get(SearchResults)

-----------------------------------------------------------------------------
(* What happens to the rows meanwhile.                                     *)

\* Rows that were there for the whole walk, and rows whose position changed during it.
Leaves(S) == walk' = [walk EXCEPT !.whole = @ \ S]
Moves(r)  == walk' = [walk EXCEPT !.whole = @ \ {r}, !.moved = @ \cup {r}]

\* A row gets its time when it is flushed into an open transaction ...
Insert(w, r, o) ==
    /\ entries[r].state = "none" /\ ~LockedByOther(w, {"insert"}, r)
    /\ Begin(w, "insert", r, {o}, {instant})
    /\ UNCHANGED listings

\* ... and is listed once that commits.
CommitInsert(w) ==
    /\ tx[w].op = "insert"
    /\ \E o \in tx[w].by, at \in tx[w].seen :
          entries' = [entries EXCEPT ![tx[w].on] = [state |-> "listed", at |-> at, of |-> o]]
    /\ End(w)
    /\ UNCHANGED <<instant, promoted, walk>>

\* A row is deleted, or stops or begins to match what the client filters by.
Change(w, r, from, to) ==
    /\ Short(w, "none") /\ entries[r].state = from
    /\ entries' = [entries EXCEPT ![r].state = to]
    /\ Leaves({r})
    /\ UNCHANGED <<instant, promoted>>

\* Another revision becomes the live one.
PromoteRevision(w, v) ==
    /\ Short(w, "none") /\ promoted' = v /\ v # promoted
    /\ Leaves(IF \E l \in walk.list : l.holds = "live" THEN Rows ELSE {})
    /\ UNCHANGED <<instant, entries>>

\* A search ranks a row differently because others came or went.
Rerank(r, at) ==
    /\ Shown(Owners) # {r} /\ entries[r].state = "listed" /\ entries[r].at # at
    /\ \E l \in walk.list : l.order.moves
    /\ entries' = [entries EXCEPT ![r].at = at]
    /\ Moves(r)
    /\ UNCHANGED <<tx, instant, promoted>>

TimeGoesOn ==
    /\ instant < MaxInstant /\ instant' = instant + 1
    /\ UNCHANGED <<tx, entries, promoted, walk>>

AdminPage ==
    GetUsers \/ GetActors \/ GetAudit \/ GetEvents \/ GetExecutions \/ GetJobs \/ GetAgents \/ GetServiceAccounts

ControlPage ==
    GetAccessRequests \/ GetCredentials \/ GetToolkits \/ GetBoundAgents \/ GetKeys \/ GetBindings

RegistryPage ==
    \/ GetApis \/ GetRevisions \/ GetOverlays \/ GetNotes \/ GetRevisionOperations
    \/ GetLiveOperations \/ GetCatalogue \/ GetSearchResults

RowStep(w) ==
    \/ CommitInsert(w)
    \/ \E r \in Rows :
          \/ \E o \in Owners : Insert(w, r, o)
          \/ Change(w, r, "listed", "deleted")
          \/ Change(w, r, "listed", "hidden") \/ Change(w, r, "hidden", "listed")
    \/ \E v \in Owners : PromoteRevision(w, v)

ListingNext ==
    \/ AdminPage \/ ControlPage \/ RegistryPage
    \/ \E w \in Workers : RowStep(w)
    \/ \E r \in Rows, at \in 1..MaxInstant : Rerank(r, at)
    \/ TimeGoesOn

ListingsTypeOK ==
    /\ instant \in 1..MaxInstant /\ promoted \in Owners
    /\ \A r \in Rows :
          /\ entries[r].state \in {"none", "listed", "hidden", "deleted"}
          /\ entries[r].at \in 0..MaxInstant /\ entries[r].of \in Owners
    /\ walk.scope \subseteq Owners /\ walk.got \in Seq(Rows)
    /\ walk.whole \subseteq Rows /\ walk.moved \subseteq Rows /\ walk.done \in BOOLEAN

\* A list whose cursor holds only the time may split rows of one time between two pages,
\* and then loses some of them.
Unsplit(o) ==
    "id" \in o.keys \/ \A r \in walk.whole, s \in Rows : entries[r].at = entries[s].at => r = s

\* Following next_cursor to the end returns every row that was in the list all the while,
\* and no row twice, whatever is inserted, deleted, re-filtered or committed late between
\* the pages: the cursor is the position of the last row, which need not exist any more
\* (encode_cursor, list_page; score_entries: "keyset paging never skips or repeats").
\* Rows that a search ranks anew meanwhile are excepted, and rows of one time in the
\* lists that are ordered by the time alone.
WalksComplete ==
    /\ \A i, j \in DOMAIN walk.got : walk.got[i] = walk.got[j] => i = j \/ walk.got[i] \in walk.moved
    /\ walk.done /\ (\A l \in walk.list : Unsplit(l.order)) => walk.whole \subseteq Range(walk.got)
=============================================================================
