------------------------------ MODULE Sessions ------------------------------
(***************************************************************************)
(* How a service writes: DatabaseSession.transaction, which retries a      *)
(* commit, and run_in_transaction, which runs its callable again in a new  *)
(* session.  The body may fail at any statement, the commit too, and a     *)
(* commit whose answer is lost may have been made.                         *)
(***************************************************************************)
EXTENDS Database

CONSTANTS
    Retries,        \* run_in_transaction: runs of the callable after the first
    CommitRetries,  \* transaction: commits after the first; every caller leaves its default, 1
    MaxLanded       \* bound: no call is made after this many commits

ASSUME SessionsOK == Retries \in Nat /\ CommitRetries \in Nat \ {0} /\ MaxLanded \in Nat

VARIABLES
    call,    \* each worker's call: [at, again, tries, failed, wrote, read, landed, result]
    writer,  \* who holds SQLite's write lock
    landed   \* the commits that changed the database, the version of what is read

sessions == <<call, writer, landed>>

NoCall == [at |-> "idle", again |-> FALSE, tries |-> 0, failed |-> 0, wrote |-> FALSE,
           read |-> 0, landed |-> 0, result |-> "none"]

SessionsInit == call = [w \in Workers |-> NoCall] /\ writer = {} /\ landed = 0

Becomes(w, c) == call' = [call EXCEPT ![w] = c]

\* A service calls transaction(), or with again run_in_transaction().
Call(w, again) ==
    /\ call[w].at = "idle" /\ landed < MaxLanded
    /\ Becomes(w, [NoCall EXCEPT !.at = "begin", !.again = again])
    /\ UNCHANGED <<writer, landed>>

\* BEGIN IMMEDIATE takes SQLite's write lock, and then the body reads.
BeginSession(w) ==
    /\ call[w].at = "begin" /\ (Serial => writer = {})
    /\ writer' = IF Serial THEN {w} ELSE writer
    /\ Becomes(w, [call[w] EXCEPT !.at = "body", !.read = landed])
    /\ UNCHANGED landed

\* The body ends, with something to commit or not.
BodyEnds(w, wrote) ==
    /\ call[w].at = "body"
    /\ Becomes(w, [call[w] EXCEPT !.at = "commit", !.wrote = wrote])
    /\ UNCHANGED <<writer, landed>>

\* What a commit has to make: the rollback after a failed one emptied the session.
Pending(w) == call[w].wrote /\ call[w].failed = 0

Made(w) == IF Pending(w) THEN 1 ELSE 0

\* The exception reaches the caller, or run_in_transaction: it begins again, on a new
\* session, when the database was unavailable.
Raise(w, error, made) ==
    LET c == call[w] IN
    Becomes(w, IF c.again /\ error = "unavailable" /\ c.tries < Retries
               THEN [NoCall EXCEPT !.at = "begin", !.again = TRUE, !.tries = c.tries + 1,
                                   !.landed = c.landed + made]
               ELSE [c EXCEPT !.at = "done", !.landed = c.landed + made, !.result = error])

\* The busy timeout ends before the lock is free, or BEGIN fails.
BeginFails(w) ==
    /\ call[w].at = "begin" /\ Serial
    /\ Raise(w, "unavailable", 0)
    /\ UNCHANGED <<writer, landed>>

\* A statement fails, or the service raises: rollback.
BodyFails(w, error) ==
    /\ call[w].at = "body"
    /\ Raise(w, error, 0)
    /\ writer' = writer \ {w}
    /\ UNCHANGED landed

Commits(w) ==
    /\ call[w].at = "commit"
    /\ Becomes(w, [call[w] EXCEPT !.at = "done", !.landed = @ + Made(w), !.result = "success"])
    /\ landed' = landed + Made(w)
    /\ writer' = writer \ {w}

\* A constraint is checked at the commit.
CommitRefused(w) ==
    /\ call[w].at = "commit" /\ call[w].failed = 0
    /\ Raise(w, "integrity", 0)
    /\ writer' = writer \ {w}
    /\ UNCHANGED landed

\* A commit fails where there is a transaction to commit; on PostgreSQL it may have been
\* made, the answer lost with the connection.
Unanswered(w) == IF Serial THEN {0} ELSE {0, Made(w)}

\* Wrong variant: a commit that failed is raised at once, for the callable to run again.
CommitFailsRaised(w) ==
    /\ call[w].at = "commit" /\ call[w].failed = 0
    /\ \E made \in Unanswered(w) : Raise(w, "unavailable", made) /\ landed' = landed + made
    /\ writer' = writer \ {w}

\* The commit fails for a time: rollback, which leaves the session nothing, and commit
\* again while there are retries.
CommitFails(w) ==
    /\ call[w].at = "commit" /\ call[w].failed = 0
    /\ \E made \in Unanswered(w) :
          /\ IF call[w].failed + 1 > CommitRetries
             THEN Raise(w, "unavailable", made)
             ELSE Becomes(w, [call[w] EXCEPT !.failed = @ + 1, !.landed = @ + made])
          /\ landed' = landed + made
    /\ writer' = writer \ {w}

\* The request is cancelled, or its process dies; the driver may still make the commit.
Cancelled(w) ==
    /\ call[w].at \in {"begin", "body", "commit"}
    /\ \E made \in IF call[w].at = "commit" THEN {0, Made(w)} ELSE {0} :
          /\ Becomes(w, [call[w] EXCEPT !.at = "done", !.landed = @ + made, !.result = "cancelled"])
          /\ landed' = landed + made
    /\ writer' = writer \ {w}

\* The caller has its answer, and goes on to other calls.
Answered(w) ==
    /\ call[w].at = "done"
    /\ Becomes(w, NoCall)
    /\ UNCHANGED <<writer, landed>>

Errors == {"integrity", "unavailable", "error"}

SessionStep(w) ==
    \/ \E again \in BOOLEAN : Call(w, again)
    \/ BeginSession(w) \/ BeginFails(w)
    \/ \E wrote \in BOOLEAN : BodyEnds(w, wrote)
    \/ \E error \in Errors : BodyFails(w, error)
    \/ Commits(w) \/ CommitRefused(w) \/ CommitFails(w) \/ Cancelled(w) \/ Answered(w)

SessionsNext == UNCHANGED tx /\ \E w \in Workers : SessionStep(w)

-----------------------------------------------------------------------------
(* Properties.                                                             *)

SessionsTypeOK ==
    /\ call \in [Workers -> [at : {"idle", "begin", "body", "commit", "done"}, again : BOOLEAN,
                             tries : 0 .. Retries, failed : 0 .. CommitRetries, wrote : BOOLEAN,
                             read : Nat, landed : Nat,
                             result : Errors \cup {"none", "success", "cancelled"}]]
    /\ writer \subseteq Workers /\ landed \in Nat

\* A call's work is made once or not at all, however often its callable ran and whatever
\* became of its commits: an error means that nothing was made, and success with no
\* commit failed that it was (transaction, run_in_transaction).
CallsAtomic ==
    \A w \in Workers :
        /\ call[w].landed <= 1
        /\ call[w].result \in Errors => call[w].landed = 0
        /\ call[w].result = "success" /\ Pending(w) => call[w].landed = 1

\* On SQLite what a body read is still so at its commit: no other transaction was made
\* in between.
ReadsStayTrue ==
    Serial => \A w \in Workers :
        call[w].at = "body" \/ (call[w].at = "commit" /\ Pending(w)) => call[w].read = landed

\* Both: what a service may rely on that writes in a transaction (DatabaseSession).
SessionsSound == CallsAtomic /\ ReadsStayTrue

\* transaction() "commits on clean exit" (session.py): what a call that reports success
\* wrote was made.
SuccessIsCommitted ==
    \A w \in Workers :
        call[w].result = "success" /\ call[w].wrote => call[w].landed = 1
=============================================================================
