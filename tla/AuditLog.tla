------------------------------ MODULE AuditLog ------------------------------
(***************************************************************************)
(* The hash-chained audit log (infra/audit_repo.py) and the sessions that  *)
(* write it (infra/db.py).  A request opens a session with BEGIN IMMEDIATE, *)
(* appends one row, and either leaves the scope normally (the scope        *)
(* commits), or commits the row itself and raises (a refusal), or fails    *)
(* and is rolled back.  The process may crash at any point.                *)
(*                                                                         *)
(* A body is everything of a row but its hashes.  SHA-256 over canonical   *)
(* JSON is taken to be free of collisions: the hash of a row is its        *)
(* preimage, the bodies from the first row on.                             *)
(***************************************************************************)
EXTENDS Integers, Sequences, FiniteSets

CONSTANTS
    Sessions,   \* concurrent requests
    NoSession,
    Bodies,     \* caller, action, request, decision, reason, outcome, time
    Digests,    \* hash values that a damaged row may carry
    MaxRows     \* bound: rows of the log

ASSUME AuditAssumption ==
    /\ NoSession \notin Sessions
    /\ Digests \subseteq Seq(Bodies)
    /\ MaxRows \in Nat

VARIABLES
    log,        \* committed rows by seq
    lock,       \* the session that holds SQLite's writer lock
    phase,      \* where a session is
    pending,    \* the row a session has inserted and not committed
    answered,   \* ghost: the rows whose request has been answered
    damage      \* ghost: the one row changed behind the program's back

vars == <<log, lock, phase, pending, answered, damage>>

GENESIS_PREV_HASH == <<>>
Hashes == Seq(Bodies)
Row == [seq : Nat, body : Bodies, prev_hash : Hashes, row_hash : Hashes]
Phases == {"idle", "open", "approved", "refused", "committed"}
NoRow == [seq |-> 0]
NoDamage == [seq |-> 0, inner |-> FALSE]

TypeOK ==
    /\ DOMAIN log \subseteq 1..MaxRows
    /\ \A s \in DOMAIN log : log[s] \in Row /\ log[s].seq = s
    /\ lock \in Sessions \cup {NoSession}
    /\ phase \in [Sessions -> Phases]
    /\ pending \in [Sessions -> Row \cup {NoRow}]
    /\ answered \subseteq Row
    /\ damage \in [seq : 0..MaxRows, inner : BOOLEAN]

Init ==
    /\ log = [s \in {} |-> NoRow]
    /\ lock = NoSession
    /\ phase = [x \in Sessions |-> "idle"]
    /\ pending = [x \in Sessions |-> NoRow]
    /\ answered = {}
    /\ damage = NoDamage

-----------------------------------------------------------------------------
(* infra/audit_repo.py: writing.                                             *)

First(S) == CHOOSE x \in S : \A y \in S : x <= y
Last(S) == CHOOSE x \in S : \A y \in S : y <= x

\* SQLite's rowid: one above the highest in the table.
last_seq == Last(DOMAIN log \cup {0})

\* Fault: the rows are read in ascending order.
last_row_hash_Ascending ==
    IF DOMAIN log = {} THEN GENESIS_PREV_HASH ELSE log[First(DOMAIN log)].row_hash

last_row_hash ==
    IF DOMAIN log = {} THEN GENESIS_PREV_HASH ELSE log[last_seq].row_hash

row_hash(prev_hash, body) == Append(prev_hash, body)

\* Fault: the rows are numbered from zero.
NewRow_ZeroBased(body) ==
    [seq |-> last_seq, body |-> body, prev_hash |-> last_row_hash,
     row_hash |-> row_hash(last_row_hash, body)]

NewRow(body) ==
    [seq |-> last_seq + 1, body |-> body, prev_hash |-> last_row_hash,
     row_hash |-> row_hash(last_row_hash, body)]

Store(rows, row) ==
    [s \in DOMAIN rows \cup {row.seq} |-> IF s = row.seq THEN row ELSE rows[s]]

-----------------------------------------------------------------------------
(* infra/db.py: a session from BEGIN to its end.                             *)

Close(x, p) ==
    /\ lock' = NoSession
    /\ phase' = [phase EXCEPT ![x] = p]

\* Fault: a deferred transaction takes no lock before it reads.
begin_immediate_Deferred(x) ==
    /\ phase[x] = "idle"
    /\ phase' = [phase EXCEPT ![x] = "open"]
    /\ lock' = x
    /\ UNCHANGED <<log, pending, answered, damage>>

begin_immediate(x) ==
    /\ lock = NoSession
    /\ phase[x] = "idle"
    /\ phase' = [phase EXCEPT ![x] = "open"]
    /\ lock' = x
    /\ UNCHANGED <<log, pending, answered, damage>>

\* The row is hashed over the last one the session sees.
append(x, body, outcome) ==
    /\ phase[x] = "open"
    /\ last_seq < MaxRows
    /\ pending' = [pending EXCEPT ![x] = NewRow(body)]
    /\ phase' = [phase EXCEPT ![x] = outcome]
    /\ UNCHANGED <<log, lock, answered, damage>>

\* The scope is left normally: session_scope commits.
ScopeExit(x) ==
    /\ phase[x] = "approved"
    /\ log' = Store(log, pending[x])
    /\ Close(x, "committed")
    /\ UNCHANGED <<pending, answered, damage>>

\* Fault: the refusal is raised without a commit and the scope rolls it back.
commit_Missing(x) ==
    /\ phase[x] = "refused"
    /\ Close(x, "committed")
    /\ UNCHANGED <<log, pending, answered, damage>>

\* AuditRepo.commit, before the refusal is raised.
commit(x) ==
    /\ phase[x] = "refused"
    /\ log' = Store(log, pending[x])
    /\ Close(x, "committed")
    /\ UNCHANGED <<pending, answered, damage>>

\* The client has its answer, be it a signature or a refusal.
Answer(x) ==
    /\ phase[x] = "committed"
    /\ phase' = [phase EXCEPT ![x] = "idle"]
    /\ pending' = [pending EXCEPT ![x] = NoRow]
    /\ answered' = answered \cup {pending[x]}
    /\ UNCHANGED <<log, lock, damage>>

\* Any other exception before the commit: session_scope rolls back.
Rollback(x) ==
    /\ phase[x] \in {"open", "approved", "refused"}
    /\ Close(x, "idle")
    /\ pending' = [pending EXCEPT ![x] = NoRow]
    /\ UNCHANGED <<log, answered, damage>>

\* The process dies: SQLite drops what was not committed.
Crash ==
    /\ \E x \in Sessions : phase[x] # "idle"
    /\ lock' = NoSession
    /\ phase' = [x \in Sessions |-> "idle"]
    /\ pending' = [x \in Sessions |-> NoRow]
    /\ UNCHANGED <<log, answered, damage>>

-----------------------------------------------------------------------------
(* infra/audit_repo.py: verify(from_seq, to_seq), run in a session of its    *)
(* own (app/audit_walk.py), so on committed rows.                            *)

Result(ok, first_break_seq, upstream_break) ==
    [ok |-> ok, first_break_seq |-> first_break_seq, upstream_break |-> upstream_break]

Walked(from_seq, to_seq) == {s \in DOMAIN log : from_seq <= s /\ s <= to_seq}

\* The first walked row is chained to the row before the window, unless it is
\* the first of the table.
Anchored(walked) == First(walked) # First(DOMAIN log)

ExpectedPrev(walked, s) ==
    IF s # First(walked) THEN log[Last({y \in walked : y < s})].row_hash
    ELSE IF Anchored(walked) THEN log[s - 1].row_hash ELSE GENESIS_PREV_HASH

\* Fault: the stored hash is trusted.
RowBreaks_Linkage(walked, s) == log[s].prev_hash # ExpectedPrev(walked, s)

RowBreaks(walked, s) ==
    \/ log[s].prev_hash # ExpectedPrev(walked, s)
    \/ log[s].row_hash # row_hash(log[s].prev_hash, log[s].body)

verify(from_seq, to_seq) ==
    LET walked == Walked(from_seq, to_seq)
        first == First(walked)
        breaks == {s \in walked : RowBreaks(walked, s)}
    IN  CASE walked = {} -> Result(TRUE, 0, FALSE)
          [] walked # {} /\ Anchored(walked) /\ first - 1 \notin DOMAIN log ->
                Result(FALSE, first, FALSE)
          [] OTHER ->
                IF breaks # {} THEN Result(FALSE, First(breaks), FALSE)
                ELSE IF Anchored(walked) /\ log[first - 1].row_hash # log[first].prev_hash
                THEN Result(FALSE, first - 1, TRUE)
                ELSE Result(TRUE, 0, FALSE)

-----------------------------------------------------------------------------
(* Damage: one stored row is changed or lost outside the program.            *)

Damage(s) ==
    /\ damage = NoDamage
    /\ lock = NoSession
    /\ damage' = [seq |-> s, inner |-> s + 1 \in DOMAIN log]
    /\ \/ log' = [t \in DOMAIN log \ {s} |-> log[t]]
       \/ \E body \in Bodies, prev, hash \in Digests :
             LET row == [seq |-> s, body |-> body, prev_hash |-> prev, row_hash |-> hash]
             IN  row # log[s] /\ log' = [log EXCEPT ![s] = row]
    /\ UNCHANGED <<lock, phase, pending, answered>>

Next ==
    \/ \E x \in Sessions :
        \/ begin_immediate(x)
        \/ \E body \in Bodies, outcome \in {"approved", "refused"} : append(x, body, outcome)
        \/ ScopeExit(x) \/ commit(x) \/ Answer(x) \/ Rollback(x)
    \/ Crash
    \/ \E s \in DOMAIN log : Damage(s)

Spec == Init /\ [][Next]_vars

-----------------------------------------------------------------------------

Windows == {w \in (1..MaxRows) \X (1..MaxRows) : w[1] <= w[2]}

\* While nobody touches the table, every window verifies: no interleaving of
\* sessions, rollback or crash makes two rows share a predecessor or leaves a
\* gap in seq that the walk would take for a missing anchor.
ChainIntact ==
    damage = NoDamage => \A w \in Windows : verify(w[1], w[2]).ok

\* What a client was told is on record: the row of an answered request is in
\* the log as it was appended, refusals included, however many sessions,
\* rollbacks and crashes follow.
AnsweredIsLogged ==
    damage = NoDamage => \A row \in answered : row.seq \in DOMAIN log /\ log[row.seq] = row

\* The walk finds a damaged row that has a successor, at that row or the next,
\* from every window that holds both, and raises no alarm in a window that is
\* clear of them.
DamageLocated ==
    damage.inner =>
        LET d == damage.seq IN
        \A w \in Windows :
            LET r == verify(w[1], w[2]) IN
            /\ w[1] <= d /\ d + 1 <= w[2] => ~r.ok /\ r.first_break_seq \in {d, d + 1}
            /\ w[2] < d \/ d + 1 < w[1] => r.ok

=============================================================================
