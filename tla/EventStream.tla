----------------------------- MODULE EventStream -----------------------------
(***************************************************************************)
(* Events of the admin database and the Server-Sent Events that follow     *)
(* them.  An event gets its time of creation when its row is flushed into  *)
(* an open transaction and is visible after the commit; times are distinct *)
(* and stand for the pair (created_at, id) a follower's cursor holds.      *)
(***************************************************************************)
EXTENDS Database, SequencesExt

CONSTANTS
    Followers,  \* clients of GET /events/stream that resume with Last-Event-ID
    PageSize,   \* events a poll returns at most
    MaxEvents   \* bound: events emitted

ASSUME EventsOK == PageSize \in Nat /\ MaxEvents \in Nat

VARIABLES
    stamp,     \* the last time given to an event
    stored,    \* the events of committed transactions
    follower   \* [on, since, cursor, page, received]

eventStream == <<stamp, stored, follower>>

NoFollower == [on |-> FALSE, since |-> 0, cursor |-> 0, page |-> <<>>, received |-> <<>>]

EventStreamInit ==
    /\ stamp = 0 /\ stored = {}
    /\ follower = [f \in Followers |-> NoFollower]

\* emit_event: the row is flushed, stamped now, in the caller's transaction ...
EmitEvent(w) ==
    /\ tx[w].op = "none" /\ MayBegin /\ stamp < MaxEvents
    /\ stamp' = stamp + 1
    /\ tx' = [tx EXCEPT ![w] = Request("emit", 0, {}, {}, stamp + 1, TRUE)]
    /\ UNCHANGED <<stored, follower>>

\* ... which commits, or takes the event with it.
StoreEvent(w) ==
    /\ tx[w].op = "emit" /\ End(w)
    /\ stored' = stored \cup {tx[w].n}
    /\ UNCHANGED <<stamp, follower>>

LoseEvent(w) == tx[w].op = "emit" /\ End(w) /\ UNCHANGED eventStream

\* Wrong variant: a stream always starts from now.
ConnectNow(f) ==
    /\ ~follower[f].on
    /\ follower' = [follower EXCEPT ![f].on = TRUE, ![f].since = IF @ = 0 THEN stamp ELSE @,
                                    ![f].cursor = stamp]
    /\ UNCHANGED <<tx, stamp, stored>>

\* A stream starts from now, or from the last event its client received.
Connect(f) ==
    /\ ~follower[f].on
    /\ follower' = [follower EXCEPT
          ![f].on = TRUE,
          ![f].since = IF follower[f].received = <<>> THEN stamp ELSE @,
          ![f].cursor = IF follower[f].received = <<>> THEN stamp ELSE Last(follower[f].received)]
    /\ UNCHANGED <<tx, stamp, stored>>

\* WHERE (created_at, id) > cursor.
After(e) == {x \in stored : x > e}

\* In the order of their stamps.
Ascending(s) == \A i, j \in DOMAIN s : i < j => s[i] < s[j]

\* ORDER BY created_at, id LIMIT: the events of a page, and those left to the next.
IsPage(page, found) ==
    /\ Range(page) \subseteq found /\ Ascending(page)
    /\ \A x \in found \ Range(page) : Len(page) = PageSize /\ x > Last(page)

\* A poll, with nothing left to send: the oldest events after the cursor, or a heartbeat.
\* The cursor moves to the last of them.
Poll(f) ==
    /\ follower[f].on /\ follower[f].page = <<>>
    /\ \E page \in BoundedSeq(stored, PageSize) \ {<<>>} :
          /\ IsPage(page, After(follower[f].cursor))
          /\ follower' = [follower EXCEPT ![f].page = page, ![f].cursor = Last(page)]
    /\ UNCHANGED <<tx, stamp, stored>>

Deliver(f) ==
    /\ follower[f].page # <<>>
    /\ follower' = [follower EXCEPT ![f].page = Tail(@), ![f].received = Append(@, Head(follower[f].page))]
    /\ UNCHANGED <<tx, stamp, stored>>

\* The client goes away, also in the middle of a page.
Disconnect(f) ==
    /\ follower[f].on
    /\ follower' = [follower EXCEPT ![f].on = FALSE, ![f].cursor = 0, ![f].page = <<>>]
    /\ UNCHANGED <<tx, stamp, stored>>

EventNext ==
    \/ \E w \in Workers : EmitEvent(w) \/ StoreEvent(w) \/ LoseEvent(w)
    \/ \E f \in Followers : Connect(f) \/ Poll(f) \/ Deliver(f) \/ Disconnect(f)

EventStreamTypeOK ==
    /\ stamp \in 0..MaxEvents /\ stored \subseteq 1..stamp
    /\ \A f \in Followers :
          /\ follower[f].on \in BOOLEAN
          /\ follower[f].since \in 0..stamp /\ follower[f].cursor \in 0..stamp
          /\ follower[f].page \in Seq(stored) /\ follower[f].received \in Seq(stored)

\* Where transactions are serial, what a client received over any number of connections is
\* every event stored between the connection that first brought it one (a client that received
\* nothing starts afresh when it connects again) and the last one it received, once and in
\* order: none is skipped by a page, a disconnect or a late commit
\* (EventStreamService.stream, stream_events).
FollowersSeeAll ==
    Serial => \A f \in Followers :
        LET got == follower[f].received IN
        got # <<>> =>
            /\ Ascending(got)
            /\ Range(got) = {x \in stored : follower[f].since < x /\ x <= Last(got)}
=============================================================================
