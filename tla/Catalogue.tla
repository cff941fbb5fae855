------------------------------ MODULE Catalogue ------------------------------
(***************************************************************************)
(* The cached manifest of the public API catalogue.  A read refreshes the  *)
(* snapshot first when it is too old: one client at a time gets the        *)
(* advisory lock, but the lock ends with its transaction, before the       *)
(* manifest is fetched.  The fetch fails or lasts while others read,       *)
(* refresh and import.                                                     *)
(***************************************************************************)
EXTENDS Database

CONSTANTS
    MaxAge,      \* manifest_max_age_seconds, in hours; 0: refreshed by hand only
    MaxHours,    \* bound: time
    MaxImports   \* bound: imports in the queue

ASSUME CatalogueOK == MaxAge \in Nat /\ MaxHours \in Nat \ {0} /\ MaxImports \in Nat

VARIABLES
    hour,      \* the clock
    snapshot,  \* when the one row was written; 0 when there is none
    client,    \* what each client asks, and the snapshot it has read
    imports,   \* import jobs in the queue
    covered    \* the spec of the entry backs a revision that is not archived

catalogue == <<hour, snapshot, client, imports, covered>>

\* The transactions of a refresh: one for the lock, one for the row.
CatalogueOps == {"lock", "replace"}

NoClient ==
    [ask |-> "none", step |-> "none", since |-> 0, read |-> 0, again |-> FALSE,
     covered |-> FALSE, excused |-> FALSE]

CatalogueInit ==
    /\ hour = 1 /\ snapshot = 0
    /\ client = [w \in Workers |-> NoClient]
    /\ imports = 0 /\ covered = FALSE

\* Wrong variant: no snapshot is not taken for a stale one.
StaleUnlessEmpty == MaxAge > 0 /\ hour - snapshot > MaxAge

\* _is_stale.
Stale == MaxAge > 0 /\ (snapshot = 0 \/ hour - snapshot > MaxAge)

Goes(w, from, to) == client[w].step = from /\ client' = [client EXCEPT ![w].step = to]

\* Where a read goes on once the snapshot is as fresh as it gets.
Resumed(w) == IF client[w].ask = "list" THEN "load" ELSE "read"

Asks == {"list", "get", "import", "ensure", "refresh"}

\* list_all, get (of the entry, or before its preview), import_entry, ensure_imported;
\* refresh is by hand.
Ask(w, ask) ==
    /\ client[w].step = "none" /\ tx[w].op = "none"
    /\ client' = [client EXCEPT ![w] =
          [NoClient EXCEPT !.ask = ask, !.since = hour,
                           !.step = CASE ask = "list" -> "load" [] ask = "refresh" -> "fetch"
                                      [] OTHER -> "check"]]
    /\ UNCHANGED <<tx, hour, snapshot, imports, covered>>

\* _refresh_if_stale.
CheckFreshness(w) ==
    /\ Goes(w, "check", IF Stale THEN "lock" ELSE "read")
    /\ UNCHANGED <<tx, hour, snapshot, imports, covered>>

\* _load_snapshot: the entries are one query, their time another.
LoadEntries(w) ==
    /\ client[w].step = "load"
    /\ client' = [client EXCEPT ![w].step = "fresh", ![w].read = snapshot]
    /\ UNCHANGED <<tx, hour, snapshot, imports, covered>>

LoadFreshness(w) ==
    /\ client[w].step = "fresh"
    /\ client' = [client EXCEPT ![w] =
          IF Stale /\ ~@.again THEN [@ EXCEPT !.step = "lock", !.read = 0]
                              ELSE [@ EXCEPT !.step = "answer"]]
    /\ UNCHANGED <<tx, hour, snapshot, imports, covered>>

\* get.
ReadEntry(w) ==
    /\ client[w].step = "read"
    /\ client' = [client EXCEPT ![w].step = "answer", ![w].read = snapshot,
                                ![w].covered = covered /\ client[w].ask = "ensure"]
    /\ UNCHANGED <<tx, hour, snapshot, imports, covered>>

-----------------------------------------------------------------------------
(* _safe_refresh and refresh.                                              *)

LockHeld(w) == ~Serial /\ LockedByOther(w, {"lock"}, 0)

TryLock(w) ==
    /\ client[w].step = "lock" /\ ~LockHeld(w)
    /\ Begin(w, "lock", 0, {}, {})
    /\ UNCHANGED catalogue

\* Another is refreshing: the snapshot is served as it is.
SkipRefresh(w) ==
    /\ client[w].step = "lock" /\ tx[w].op = "none" /\ LockHeld(w)
    /\ client' = [client EXCEPT ![w].step = Resumed(w), ![w].again = TRUE, ![w].excused = TRUE]
    /\ UNCHANGED <<tx, hour, snapshot, imports, covered>>

\* With the lock the time is read again; the transaction ends, and with it the lock.
CheckAgain(w) ==
    /\ tx[w].op = "lock" /\ End(w)
    /\ client' = [client EXCEPT ![w].step = IF Stale THEN "fetch" ELSE Resumed(w),
                                ![w].again = TRUE]
    /\ UNCHANGED <<hour, snapshot, imports, covered>>

Fetch(w) ==
    /\ Goes(w, "fetch", "replace")
    /\ UNCHANGED <<tx, hour, snapshot, imports, covered>>

\* CatalogFetchError: only the refresh by hand says so.
FetchFails(w) ==
    /\ client[w].step = "fetch"
    /\ client' = [client EXCEPT ![w] =
          IF @.ask = "refresh" THEN NoClient ELSE [@ EXCEPT !.step = Resumed(w), !.excused = TRUE]]
    /\ UNCHANGED <<tx, hour, snapshot, imports, covered>>

\* replace: whether there is a row is read ...
BeginReplace(w) ==
    /\ client[w].step = "replace"
    /\ Begin(w, "replace", 0, {}, {snapshot # 0})
    /\ UNCHANGED catalogue

\* ... and it is updated or inserted.  Who is between its two queries gets entries older
\* than the time it reads next.
CommitReplace(w) ==
    /\ tx[w].op = "replace" /\ (snapshot # 0) \in tx[w].seen /\ End(w)
    /\ snapshot' = hour
    /\ client' = [v \in Workers |->
          CASE v = w -> IF client[w].ask = "refresh" THEN NoClient
                        ELSE [client[w] EXCEPT !.step = Resumed(w)]
            [] v # w /\ client[v].step = "fresh" -> [client[v] EXCEPT !.excused = TRUE]
            [] OTHER -> client[v]]
    /\ UNCHANGED <<hour, imports, covered>>

\* Another inserted the row first: the insert collides on the primary key, which fails
\* the request.
Collide(w) ==
    /\ tx[w].op = "replace" /\ (snapshot # 0) \notin tx[w].seen /\ End(w)
    /\ client' = [client EXCEPT ![w] = NoClient]
    /\ UNCHANGED <<hour, snapshot, imports, covered>>

-----------------------------------------------------------------------------
(* The answers, and what else happens.                                     *)

\* What is found is shown, or there is no such entry, or its spec cannot be fetched.
Answer(w) ==
    /\ client[w].step = "answer"
    /\ client' = [client EXCEPT ![w] = NoClient]
    /\ UNCHANGED <<tx, hour, snapshot, imports, covered>>

\* import_entry, and ensure_imported unless the entry is registered.
QueueImport(w) ==
    /\ client[w].step = "answer" /\ client[w].read # 0 /\ imports < MaxImports
    /\ client[w].ask \in {"import", "ensure"} /\ (client[w].ask = "ensure" => ~client[w].covered)
    /\ client' = [client EXCEPT ![w] = NoClient] /\ imports' = imports + 1
    /\ UNCHANGED <<tx, hour, snapshot, covered>>

\* The process dies, or the database fails: the transaction and its lock end.
DropRequest(w) ==
    /\ client[w].step # "none" /\ tx[w].op \in CatalogueOps \cup {"none"} /\ End(w)
    /\ client' = [client EXCEPT ![w] = NoClient]
    /\ UNCHANGED <<hour, snapshot, imports, covered>>

\* The worker imports the spec; its revision may be archived later.
RunImport ==
    /\ imports > 0 /\ imports' = imports - 1 /\ covered' \in {covered, TRUE}
    /\ UNCHANGED <<tx, hour, snapshot, client>>

ArchiveImported ==
    /\ covered /\ covered' = FALSE
    /\ UNCHANGED <<tx, hour, snapshot, client, imports>>

HourPasses ==
    /\ hour < MaxHours /\ hour' = hour + 1
    /\ UNCHANGED <<tx, snapshot, client, imports, covered>>

ClientStep(w) ==
    \/ \E ask \in Asks : Ask(w, ask)
    \/ CheckFreshness(w) \/ LoadEntries(w) \/ LoadFreshness(w) \/ ReadEntry(w)
    \/ TryLock(w) \/ SkipRefresh(w) \/ CheckAgain(w)
    \/ Fetch(w) \/ FetchFails(w) \/ BeginReplace(w) \/ CommitReplace(w) \/ Collide(w)
    \/ Answer(w) \/ QueueImport(w) \/ DropRequest(w)

CatalogueNext ==
    \/ \E w \in Workers : ClientStep(w)
    \/ RunImport \/ ArchiveImported \/ HourPasses

Steps == {"none", "check", "load", "fresh", "read", "lock", "fetch", "replace", "answer"}

CatalogueTypeOK ==
    /\ hour \in 1..MaxHours /\ imports \in 0..MaxImports
    /\ snapshot \in 0..MaxHours /\ covered \in BOOLEAN
    /\ \A w \in Workers : client[w].ask \in Asks \cup {"none"} /\ client[w].step \in Steps

\* A read answers from a snapshot that was no older than the maximal age when it was
\* asked, however many clients find it stale, refresh it, fail to or race to insert it;
\* excused is who could not fetch it, left the refresh to another (_safe_refresh: "others
\* return immediately and serve the current snapshot"), or was overtaken by one.
CatalogueFresh ==
    \A w \in Workers :
        client[w].step = "answer" /\ ~client[w].excused /\ MaxAge > 0 =>
            client[w].read # 0 /\ client[w].since <= client[w].read + MaxAge
=============================================================================
