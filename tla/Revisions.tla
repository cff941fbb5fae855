------------------------------ MODULE Revisions ------------------------------
(***************************************************************************)
(* One API of the registry: its revisions, drafts or imported from an      *)
(* origin, promoted, archived and deleted; the pointer to the current one; *)
(* the index from URLs to operations that the broker looks requests up in; *)
(* one overlay.  A revision is known by the digest of its specification,   *)
(* which is unique within the API.                                         *)
(***************************************************************************)
EXTENDS Database, FiniteSets

CONSTANTS
    Digests,  \* specifications
    Origins,  \* catalogues specifications are imported from
    Urls,     \* methods and URLs of operations
    UrlsOf,   \* the URLs of each specification
    NoRevision

ASSUME RevisionsOK ==
    UrlsOf \in [Digests -> SUBSET Urls] /\ NoRevision \notin Digests /\ IsFiniteSet(Digests)

VARIABLES
    revision,  \* api_revisions: [state, origin] of each digest
    api,       \* apis: [current, count]
    index,     \* operation_url_indexes: the revision whose operation each URL means
    overlay    \* the overlay's status

revisions == <<revision, api, index, overlay>>

NoRow == [state |-> "absent", origin |-> "none"]
States == {"absent", "draft", "imported", "published", "archived"}
ActiveStates == {"published", "imported"}

\* What a handler does that reads before it writes.
RegistryOps == {"promote", "archive", "delete", "confirm"}

RevisionsInit ==
    /\ revision = [d \in Digests |-> NoRow]
    /\ api = [current |-> NoRevision, count |-> 0]
    /\ index = [u \in Urls |-> NoRevision]
    /\ overlay = "absent"

\* The partial unique index: at most one published or imported revision.
OneActive(rows) ==
    \A d, e \in Digests : rows[d].state \in ActiveStates /\ rows[e].state \in ActiveStates => d = e

Archived(rows, which) ==
    [d \in Digests |-> IF d \in which /\ rows[d].state # "absent"
                       THEN [rows[d] EXCEPT !.state = "archived"] ELSE rows[d]]

\* Every entry of the specification's URLs becomes the new revision's: the index is
\* unique by URL, whatever revision an entry was for.
Indexed(d) == [u \in Urls |-> IF u \in UrlsOf[d] THEN d ELSE index[u]]

\* Ingest without an origin: a draft.
ImportDraft(w, d) ==
    /\ tx[w].op = "none" /\ MayBegin /\ revision[d].state = "absent"
    /\ revision' = [revision EXCEPT ![d] = [state |-> "draft", origin |-> "none"]]
    /\ api' = [api EXCEPT !.count = @ + 1]
    /\ index' = Indexed(d)
    /\ UNCHANGED <<tx, overlay>>

\* Ingest from an origin: what was imported from there is archived, and the new revision
\* is current; it fails where a revision published or of another origin is active.
Imports(rows, o) == {d \in Digests : rows[d].state = "imported" /\ rows[d].origin = o}

ImportFrom(w, d, o) ==
    /\ tx[w].op = "none" /\ MayBegin /\ revision[d].state = "absent"
    /\ revision' = [Archived(revision, Imports(revision, o))
                       EXCEPT ![d] = [state |-> "imported", origin |-> o]]
    /\ OneActive(revision')
    /\ api' = [current |-> d, count |-> api.count + 1]
    /\ index' = Indexed(d)
    /\ UNCHANGED <<tx, overlay>>

\* Wrong variant: any revision that is not active may be promoted.
BeginPromoteAny(w, d) ==
    /\ revision[d].state \in {"draft", "archived"}
    /\ Begin(w, "promote", d, {}, {api.current}) /\ UNCHANGED revisions

\* The handlers read the API and the revision, and check its state.
BeginPromote(w, d) ==
    /\ revision[d].state = "draft"
    /\ Begin(w, "promote", d, {}, {api.current}) /\ UNCHANGED revisions

SeenCurrent(w) == CHOOSE c \in tx[w].seen : TRUE

\* The current revision that was read is archived, with everything imported; the
\* promoted one is published and becomes current.
CommitPromote(w) ==
    LET d == tx[w].on
        retired == {SeenCurrent(w)} \cup {e \in Digests : revision[e].state = "imported"} IN
    /\ tx[w].op = "promote" /\ revision[d].state # "absent"
    /\ revision' = [Archived(revision, retired) EXCEPT ![d].state = "published"]
    /\ OneActive(revision')
    /\ api' = [api EXCEPT !.current = d]
    /\ End(w)
    /\ UNCHANGED <<index, overlay>>

BeginArchive(w, d) ==
    /\ revision[d].state \in {"draft", "imported"}
    /\ Begin(w, "archive", d, {}, {api.current}) /\ UNCHANGED revisions

\* Wrong variant: the pointer is left at the archived revision.
CommitArchiveKeeping(w) ==
    /\ tx[w].op = "archive" /\ revision[tx[w].on].state # "absent"
    /\ revision' = Archived(revision, {tx[w].on})
    /\ End(w)
    /\ UNCHANGED <<api, index, overlay>>

CommitArchive(w) ==
    /\ tx[w].op = "archive" /\ revision[tx[w].on].state # "absent"
    /\ revision' = Archived(revision, {tx[w].on})
    /\ api' = [api EXCEPT !.current = IF SeenCurrent(w) = tx[w].on THEN NoRevision ELSE @]
    /\ End(w)
    /\ UNCHANGED <<index, overlay>>

BeginDelete(w, d) ==
    /\ revision[d].state = "archived"
    /\ Begin(w, "delete", d, {}, {}) /\ UNCHANGED revisions

\* The row goes with its entries of the index, and the count is decremented, whether or
\* not there was a row left (bound: not below zero); the foreign key keeps the current one.
CommitDelete(w) ==
    LET d == tx[w].on IN
    /\ tx[w].op = "delete" /\ api.current # d /\ api.count > 0
    /\ revision' = [revision EXCEPT ![d] = NoRow]
    /\ index' = [u \in Urls |-> IF index[u] = d THEN NoRevision ELSE index[u]]
    /\ api' = [api EXCEPT !.count = @ - 1]
    /\ End(w)
    /\ UNCHANGED overlay

\* Deleting the API deletes everything of it.
DeleteApi(w) ==
    /\ tx[w].op = "none" /\ MayBegin
    /\ revision' = [d \in Digests |-> NoRow]
    /\ api' = [current |-> NoRevision, count |-> 0]
    /\ index' = [u \in Urls |-> NoRevision]
    /\ overlay' = "absent"
    /\ UNCHANGED tx

SubmitOverlay(w) ==
    /\ tx[w].op = "none" /\ MayBegin /\ overlay = "absent" /\ \E d \in Digests : revision[d] # NoRow
    /\ overlay' = "pending"
    /\ UNCHANGED <<tx, revision, api, index>>

\* A confirmation reads the status, and sets it later; a second one changes nothing.
BeginConfirm(w) == overlay = "pending" /\ Begin(w, "confirm", 0, {}, {}) /\ UNCHANGED revisions

CommitConfirm(w) ==
    /\ tx[w].op = "confirm" /\ overlay # "absent"
    /\ overlay' = "confirmed"
    /\ End(w)
    /\ UNCHANGED <<revision, api, index>>

\* Deprecating looks at no status.
Deprecate(w) ==
    /\ tx[w].op = "none" /\ MayBegin /\ overlay # "absent"
    /\ overlay' = "deprecated"
    /\ UNCHANGED <<tx, revision, api, index>>

AbandonChange(w) == tx[w].op \in RegistryOps /\ End(w) /\ UNCHANGED revisions

RegistryStep(w) ==
    \/ \E d \in Digests :
          \/ ImportDraft(w, d) \/ \E o \in Origins : ImportFrom(w, d, o)
          \/ BeginPromote(w, d) \/ BeginArchive(w, d) \/ BeginDelete(w, d)
    \/ CommitPromote(w) \/ CommitArchive(w) \/ CommitDelete(w) \/ DeleteApi(w)
    \/ SubmitOverlay(w) \/ BeginConfirm(w) \/ CommitConfirm(w) \/ Deprecate(w) \/ AbandonChange(w)

\* What the broker's unpinned lookup of a URL finds: the index, of whatever revision.
Lookup(u) == index[u]

RevisionsTypeOK ==
    /\ revision \in [Digests -> [state : States, origin : Origins \cup {"none"}]]
    /\ api.current \in Digests \cup {NoRevision} /\ api.count \in 0..Cardinality(Digests)
    /\ index \in [Urls -> Digests \cup {NoRevision}]
    /\ overlay \in {"absent", "pending", "confirmed", "deprecated"}

\* On SQLite, where the handlers run one after another, the pointer of an API is at its
\* one active revision whenever it has one, and the stored count is the number of its
\* revisions (RevisionService, FinalizeStage, ApiService.delete).
CurrentIsLive ==
    Serial =>
        /\ {d \in Digests : revision[d].state \in ActiveStates} = {api.current} \ {NoRevision}
        /\ api.count = Cardinality({d \in Digests : revision[d].state # "absent"})

\* On SQLite an archived revision changes no more until it is deleted, and a deprecated
\* overlay stays so as long as its API does (promote accepts drafts only, confirm pending
\* overlays only).
EndStatesFinal ==
    [][Serial =>
        /\ \A d \in Digests : revision[d].state = "archived" =>
                                  revision'[d].state \in {"archived", "absent"}
        /\ overlay = "deprecated" => overlay' \in {"deprecated", "absent"}]_revisions

\* "The Broker's hot path resolves against current_revision_id by default": of an API with
\* a current revision, a URL that is found means an operation of that revision.
HotPathCurrent ==
    api.current # NoRevision => \A u \in Urls : Lookup(u) \in {api.current, NoRevision}
=============================================================================
