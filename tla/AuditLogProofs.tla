--------------------------- MODULE AuditLogProofs ---------------------------
(***************************************************************************)
(* Proofs about AuditLog, for any number of sessions, bodies and rows.     *)
(***************************************************************************)
EXTENDS AuditLog, WellFoundedInduction, TLAPS

InSession == {"open", "approved", "refused"}

\* The writer lock is the session's own from BEGIN to commit or rollback.
Exclusive == \A x \in Sessions : phase[x] \in InSession => lock = x

\* The log can be walked from 1 to n without a gap, each row chained to the last.
Chained(rows, n) ==
    /\ DOMAIN rows = 1..n
    /\ \A s \in 1..n :
          /\ rows[s].prev_hash = IF s = 1 THEN GENESIS_PREV_HASH ELSE rows[s - 1].row_hash
          /\ rows[s].row_hash = row_hash(rows[s].prev_hash, rows[s].body)

Linked == damage = NoDamage => \E n \in 0..MaxRows : Chained(log, n)

\* Between its insert and its commit, a row continues the log as it stands.
Fresh ==
    \A x \in Sessions :
        phase[x] \in {"approved", "refused"}
        => \E body \in Bodies : pending[x] = NewRow(body) /\ last_seq < MaxRows

\* A session that awaits its answer has a row.
Holding == \A x \in Sessions : phase[x] = "committed" => pending[x] \in Row

\* A committed row that awaits its answer is in the log.
Recorded ==
    damage = NoDamage =>
        \A x \in Sessions : phase[x] = "committed"
            => pending[x].seq \in DOMAIN log /\ log[pending[x].seq] = pending[x]

AuditInv ==
    /\ TypeOK
    /\ Exclusive
    /\ Linked
    /\ Fresh
    /\ Holding
    /\ Recorded
    /\ AnsweredIsLogged

-----------------------------------------------------------------------------

\* The first element of an interval, or of any set of naturals with a least one.
LEMMA FirstIs ==
    ASSUME NEW S \in SUBSET Int, NEW x \in S, \A y \in S : x <= y
    PROVE  First(S) = x
<1>1. First(S) \in S /\ \A y \in S : First(S) <= y
  BY DEF First
<1>2. First(S) \in Int /\ x \in Int /\ First(S) <= x /\ x <= First(S)
  BY <1>1
<1> QED
  BY <1>2

\* The last element of a set of integers that has a greatest one.
LEMMA LastIs ==
    ASSUME NEW S \in SUBSET Int, NEW x \in S, \A y \in S : y <= x
    PROVE  Last(S) = x
<1>1. Last(S) \in S /\ \A y \in S : y <= Last(S)
  BY DEF Last
<1>2. Last(S) \in Int /\ x \in Int /\ Last(S) <= x /\ x <= Last(S)
  BY <1>1
<1> QED
  BY <1>2

\* In a log without gaps the last seq is the number of rows, and the next row
\* is chained to the last one.
LEMMA LastSeq ==
    ASSUME NEW n \in Nat, DOMAIN log = 1..n
    PROVE  last_seq = n
<1>1. DOMAIN log \cup {0} \in SUBSET Int /\ n \in DOMAIN log \cup {0}
  BY DEF last_seq
<1>2. \A y \in DOMAIN log \cup {0} : y <= n
  OBVIOUS
<1> QED
  BY <1>1, <1>2, LastIs DEF last_seq

\* Every nonempty set of naturals has a least element.
LEMMA LeastNatural ==
    ASSUME NEW T \in SUBSET Nat, T # {}
    PROVE  \E x \in T : \A y \in T : x <= y
<1> DEFINE R == OpToRel(<, Nat)
<1>1. IsWellFoundedOn(R, Nat)
  BY NatLessThanWellFounded
<1>2. \A a, b \in Nat : a < b => <<a, b>> \in R
  BY DEF OpToRel
<1> HIDE DEF R
<1>3. PICK x \in T : \A y \in T : ~(<<y, x>> \in R)
  BY <1>1, WFMin
<1>4. ASSUME NEW y \in T PROVE x <= y
  <2>1. x \in Nat /\ y \in Nat /\ ~(<<y, x>> \in R)
    BY <1>3
  <2>2. ~(y < x)
    BY <1>2, <2>1, Zenon
  <2> QED
    BY <2>1, <2>2
<1> QED
  BY <1>4

\* The highest seq of a bounded log exists, whatever has been deleted from it.
LEMMA LastSeqType ==
    ASSUME AuditAssumption, DOMAIN log \subseteq 1..MaxRows
    PROVE  last_seq \in 0..MaxRows /\ (DOMAIN log # {} => last_seq \in DOMAIN log)
<1> DEFINE S == DOMAIN log \cup {0}
           T == {k \in 0..MaxRows : MaxRows - k \in S}
<1>1. MaxRows \in Nat /\ S \subseteq 0..MaxRows
  BY DEF AuditAssumption
<1>2. MaxRows \in T /\ T \in SUBSET Nat
  BY <1>1
<1>3. PICK k \in T : \A j \in T : k <= j
  BY <1>2, LeastNatural
<1>4. MaxRows - k \in S /\ \A y \in S : y <= MaxRows - k
  <2>1. ASSUME NEW y \in S PROVE MaxRows - y \in T
    BY <1>1
  <2> QED
    BY <1>1, <1>3, <2>1
<1>5. last_seq = MaxRows - k
  <2>1. S \in SUBSET Int
    BY <1>1
  <2>2. Last(S) = MaxRows - k
    <3> HIDE DEF S
    <3> QED
      BY <1>4, <2>1, LastIs
  <2> QED
    BY <2>2 DEF last_seq
<1> QED
  BY <1>1, <1>4, <1>5

\* A row that is about to be inserted is a row, under a seq that is still free.
LEMMA NewRowType ==
    ASSUME AuditAssumption, TypeOK, NEW body \in Bodies, last_seq < MaxRows
    PROVE  /\ NewRow(body) \in Row
           /\ NewRow(body).seq \in 1..MaxRows
           /\ NewRow(body).seq = last_seq + 1
<1>1. MaxRows \in Nat /\ DOMAIN log \subseteq 1..MaxRows
  BY DEF AuditAssumption, TypeOK
<1>2. last_seq \in 0..MaxRows /\ (DOMAIN log # {} => last_seq \in DOMAIN log)
  BY <1>1, LastSeqType
<1>3. last_row_hash \in Hashes
  <2>1. <<>> \in Hashes
    BY DEF Hashes
  <2>2. DOMAIN log # {} => log[last_seq].row_hash \in Hashes
    BY <1>2 DEF TypeOK, Row
  <2> QED
    BY <2>1, <2>2 DEF last_row_hash, GENESIS_PREV_HASH
<1>4. row_hash(last_row_hash, body) \in Hashes
  BY <1>3 DEF row_hash, Hashes
<1>5. last_seq + 1 \in 1..MaxRows /\ last_seq + 1 \in Nat
  BY <1>1, <1>2
<1> QED
  BY <1>3, <1>4, <1>5 DEF NewRow, Row

\* The steps of AuditLog, one by one.
LEMMA StepCases ==
    ASSUME [Next]_vars, NEW Goal,
           UNCHANGED vars => Goal,
           \A x \in Sessions : begin_immediate(x) => Goal,
           \A x \in Sessions, body \in Bodies, outcome \in {"approved", "refused"} :
               append(x, body, outcome) => Goal,
           \A x \in Sessions : ScopeExit(x) \/ commit(x) => Goal,
           \A x \in Sessions : Answer(x) => Goal,
           \A x \in Sessions : Rollback(x) => Goal,
           Crash => Goal,
           \A s \in DOMAIN log : Damage(s) => Goal
    PROVE  Goal
BY Zenon DEF Next

\* Storing a pending row keeps every row of the log.
LEMMA CommitStores ==
    ASSUME AuditAssumption, TypeOK, Fresh, NEW x \in Sessions,
           ScopeExit(x) \/ commit(x)
    PROVE  /\ \E body \in Bodies : pending[x] = NewRow(body)
           /\ last_seq < MaxRows
           /\ pending[x] \in Row
           /\ pending[x].seq = last_seq + 1
           /\ pending[x].seq \in 1..MaxRows
           /\ DOMAIN log' = DOMAIN log \cup {pending[x].seq}
           /\ log'[pending[x].seq] = pending[x]
           /\ \A s \in DOMAIN log : s # pending[x].seq => log'[s] = log[s]
<1>1. phase[x] \in {"approved", "refused"} /\ log' = Store(log, pending[x])
  BY DEF ScopeExit, commit
<1>2. PICK body \in Bodies : pending[x] = NewRow(body) /\ last_seq < MaxRows
  BY <1>1 DEF Fresh
<1>3. /\ pending[x] \in Row
      /\ pending[x].seq = last_seq + 1
      /\ pending[x].seq \in 1..MaxRows
  BY <1>2, NewRowType
<1>4. /\ DOMAIN log' = DOMAIN log \cup {pending[x].seq}
      /\ log'[pending[x].seq] = pending[x]
      /\ \A s \in DOMAIN log : s # pending[x].seq => log'[s] = log[s]
  BY <1>1 DEF Store
<1> QED
  BY <1>2, <1>3, <1>4

\* Every step keeps the types.
LEMMA TypeStep ==
    ASSUME AuditAssumption, TypeOK, Fresh, Holding, [Next]_vars
    PROVE  TypeOK'
<1> USE DEF Phases
<1>1. ASSUME UNCHANGED vars PROVE TypeOK'
  BY <1>1 DEF vars, TypeOK
<1>2. ASSUME NEW x \in Sessions, begin_immediate(x) PROVE TypeOK'
  BY <1>2 DEF begin_immediate, TypeOK
<1>3. ASSUME NEW x \in Sessions, NEW body \in Bodies,
             NEW outcome \in {"approved", "refused"}, append(x, body, outcome)
      PROVE  TypeOK'
  <2>1. NewRow(body) \in Row
    BY <1>3, NewRowType DEF append
  <2> HIDE DEF Phases
  <2>2. outcome \in Phases
    BY DEF Phases
  <2> QED
    BY <1>3, <2>1, <2>2 DEF append, TypeOK
<1>4. ASSUME NEW x \in Sessions, ScopeExit(x) \/ commit(x) PROVE TypeOK'
  <2> DEFINE new == pending[x].seq
  <2>0. /\ pending[x] \in Row
        /\ new \in 1..MaxRows
        /\ DOMAIN log' = DOMAIN log \cup {new}
        /\ log'[new] = pending[x]
        /\ \A s \in DOMAIN log : s # new => log'[s] = log[s]
    BY <1>4, CommitStores
  <2>1. DOMAIN log' \subseteq 1..MaxRows
    BY <2>0 DEF TypeOK
  <2>2. ASSUME NEW s \in DOMAIN log' PROVE log'[s] \in Row /\ log'[s].seq = s
    BY <2>0 DEF TypeOK
  <2> QED
    BY <1>4, <2>1, <2>2 DEF ScopeExit, commit, Close, TypeOK
<1>5. ASSUME NEW x \in Sessions, Answer(x) PROVE TypeOK'
  BY <1>5 DEF Answer, TypeOK, Holding
<1>6. ASSUME NEW x \in Sessions, Rollback(x) PROVE TypeOK'
  BY <1>6 DEF Rollback, Close, TypeOK
<1>7. ASSUME Crash PROVE TypeOK'
  BY <1>7 DEF Crash, TypeOK
<1>8. ASSUME NEW s \in DOMAIN log, Damage(s) PROVE TypeOK'
  <2>1. DOMAIN log' \subseteq 1..MaxRows /\ \A t \in DOMAIN log' : log'[t] \in Row /\ log'[t].seq = t
    <3>1. CASE log' = [t \in DOMAIN log \ {s} |-> log[t]]
      BY <3>1 DEF TypeOK
    <3>2. ASSUME NEW body \in Bodies, NEW prev \in Digests, NEW hash \in Digests,
                 log' = [log EXCEPT ![s] = [seq |-> s, body |-> body, prev_hash |-> prev, row_hash |-> hash]]
          PROVE  DOMAIN log' \subseteq 1..MaxRows /\ \A t \in DOMAIN log' : log'[t] \in Row /\ log'[t].seq = t
      <4>1. [seq |-> s, body |-> body, prev_hash |-> prev, row_hash |-> hash] \in Row
        BY DEF TypeOK, AuditAssumption, Row, Hashes
      <4> QED
        BY <3>2, <4>1 DEF TypeOK
    <3> QED
      BY <1>8, <3>1, <3>2 DEF Damage
  <2>2. damage' \in [seq : 0..MaxRows, inner : BOOLEAN]
    BY <1>8 DEF Damage, TypeOK
  <2> QED
    BY <1>8, <2>1, <2>2 DEF Damage, TypeOK
<1> QED
  BY <1>1, <1>2, <1>3, <1>4, <1>5, <1>6, <1>7, <1>8, StepCases

\* The lock protocol, and the rows that wait for their commit.
LEMMA SessionStep ==
    ASSUME AuditAssumption, TypeOK, Exclusive, Fresh, Holding, [Next]_vars
    PROVE  Exclusive' /\ Fresh' /\ Holding'
<1> DEFINE Goal == Exclusive' /\ Fresh' /\ Holding'
<1> USE DEF TypeOK, Exclusive, Fresh, Holding, InSession
<1>0. ASSUME UNCHANGED log, NEW body PROVE NewRow(body)' = NewRow(body) /\ last_seq' = last_seq
  BY <1>0 DEF NewRow, last_row_hash, last_seq
<1>1. ASSUME UNCHANGED vars PROVE Goal
  BY <1>1, <1>0 DEF vars
<1>2. ASSUME NEW x \in Sessions, begin_immediate(x) PROVE Goal
  BY <1>2, <1>0 DEF begin_immediate, AuditAssumption
<1>3. ASSUME NEW x \in Sessions, NEW body \in Bodies,
             NEW outcome \in {"approved", "refused"}, append(x, body, outcome)
      PROVE  Goal
  <2>1. Exclusive'
    BY <1>3 DEF append
  <2>2. Fresh'
    BY <1>3, <1>0 DEF append
  <2>3. Holding'
    BY <1>3 DEF append
  <2> QED
    BY <2>1, <2>2, <2>3
<1>4. ASSUME NEW x \in Sessions, ScopeExit(x) \/ commit(x) PROVE Goal
  <2>1. \A y \in Sessions : phase'[y] \notin {"open", "approved", "refused"}
    BY <1>4 DEF ScopeExit, commit, Close
  <2>2. pending[x] \in Row
    BY <1>4, CommitStores
  <2>3. Holding'
    BY <1>4, <2>2 DEF ScopeExit, commit, Close
  <2> QED
    BY <2>1, <2>3
<1>5. ASSUME NEW x \in Sessions, Answer(x) PROVE Goal
  BY <1>5, <1>0 DEF Answer
<1>6. ASSUME NEW x \in Sessions, Rollback(x) PROVE Goal
  BY <1>6, <1>0 DEF Rollback, Close
<1>7. ASSUME Crash PROVE Goal
  BY <1>7 DEF Crash
<1>8. ASSUME NEW s \in DOMAIN log, Damage(s) PROVE Goal
  <2>1. \A y \in Sessions : phase'[y] \notin {"open", "approved", "refused"}
    BY <1>8 DEF Damage, AuditAssumption
  <2> QED
    BY <1>8, <2>1 DEF Damage
<1> HIDE DEF Goal
<1>9. Goal
  BY <1>1, <1>2, <1>3, <1>4, <1>5, <1>6, <1>7, <1>8, StepCases
<1> QED
  BY <1>9 DEF Goal

\* What a commit adds to an undamaged log keeps it chained, and never takes the
\* place of a row that is already there.
LEMMA CommitChains ==
    ASSUME AuditAssumption, TypeOK, Fresh, NEW x \in Sessions,
           ScopeExit(x) \/ commit(x), NEW n \in 0..MaxRows, Chained(log, n)
    PROVE  /\ pending[x].seq = n + 1
           /\ n + 1 \in 0..MaxRows
           /\ Chained(log', n + 1)
<1>0. n \in Nat /\ MaxRows \in Nat /\ DOMAIN log = 1..n
  BY DEF AuditAssumption, Chained
<1>1. last_seq = n
  BY <1>0, LastSeq
<1>2. PICK body \in Bodies : pending[x] = NewRow(body)
  BY CommitStores
<1>3. /\ last_seq < MaxRows
      /\ pending[x].seq = last_seq + 1
      /\ DOMAIN log' = DOMAIN log \cup {pending[x].seq}
      /\ log'[pending[x].seq] = pending[x]
      /\ \A s \in DOMAIN log : s # pending[x].seq => log'[s] = log[s]
  BY CommitStores
<1>4. DOMAIN log' = 1..(n + 1) /\ log'[n + 1] = NewRow(body) /\ \A s \in 1..n : log'[s] = log[s]
  BY <1>0, <1>1, <1>2, <1>3
<1>5. last_row_hash = IF n = 0 THEN GENESIS_PREV_HASH ELSE log[n].row_hash
  BY <1>0, <1>1 DEF last_row_hash
<1>6. /\ NewRow(body).prev_hash = last_row_hash
      /\ NewRow(body).row_hash = row_hash(NewRow(body).prev_hash, NewRow(body).body)
  BY DEF NewRow
<1>7. ASSUME NEW s \in 1..(n + 1)
      PROVE  /\ log'[s].prev_hash = IF s = 1 THEN GENESIS_PREV_HASH ELSE log'[s - 1].row_hash
             /\ log'[s].row_hash = row_hash(log'[s].prev_hash, log'[s].body)
  <2>1. CASE s = n + 1
    BY <1>0, <1>4, <1>5, <1>6, <2>1
  <2>2. CASE s \in 1..n
    BY <1>0, <1>4, <2>2 DEF Chained
  <2> QED
    BY <1>0, <2>1, <2>2
<1> QED
  BY <1>0, <1>1, <1>3, <1>4, <1>7 DEF Chained

\* The chain grows by whole rows, and rows are never lost from it.
LEMMA LogStep ==
    ASSUME AuditAssumption, TypeOK, Exclusive, Fresh, Holding, Linked, Recorded,
           AnsweredIsLogged, [Next]_vars
    PROVE  Linked' /\ Recorded' /\ AnsweredIsLogged'
<1> DEFINE Goal == Linked' /\ Recorded' /\ AnsweredIsLogged'
<1> USE DEF TypeOK, Linked, Recorded, AnsweredIsLogged
<1>1. ASSUME UNCHANGED vars PROVE Goal
  BY <1>1 DEF vars, Chained
<1>2. ASSUME NEW x \in Sessions, begin_immediate(x) PROVE Goal
  BY <1>2 DEF begin_immediate, Chained
<1>3. ASSUME NEW x \in Sessions, NEW body \in Bodies,
             NEW outcome \in {"approved", "refused"}, append(x, body, outcome)
      PROVE  Goal
  BY <1>3 DEF append, Chained
<1>4. ASSUME NEW x \in Sessions, ScopeExit(x) \/ commit(x) PROVE Goal
  <2> SUFFICES ASSUME damage = NoDamage PROVE Goal
    BY <1>4 DEF ScopeExit, commit
  <2>1. PICK n \in 0..MaxRows : Chained(log, n)
    OBVIOUS
  <2>2. pending[x].seq = n + 1 /\ n + 1 \in 0..MaxRows /\ Chained(log', n + 1)
    BY <1>4, <2>1, CommitChains
  <2>3. /\ log'[pending[x].seq] = pending[x]
        /\ DOMAIN log' = DOMAIN log \cup {pending[x].seq}
        /\ \A s \in DOMAIN log : s # pending[x].seq => log'[s] = log[s]
    BY <1>4, CommitStores
  <2>4. \A s \in DOMAIN log : s # pending[x].seq
    BY <2>1, <2>2 DEF Chained
  <2>5. \A row : row.seq \in DOMAIN log /\ log[row.seq] = row
                 => row.seq \in DOMAIN log' /\ log'[row.seq] = row
    BY <2>3, <2>4
  <2>6. Linked'
    BY <2>2
  <2>7. UNCHANGED <<pending, answered>> /\ phase' = [phase EXCEPT ![x] = "committed"]
    BY <1>4 DEF ScopeExit, commit, Close
  <2>8. ASSUME NEW y \in Sessions, phase'[y] = "committed"
        PROVE  pending'[y].seq \in DOMAIN log' /\ log'[pending'[y].seq] = pending'[y]
    <3>1. CASE y = x
      BY <2>3, <2>7, <3>1
    <3>2. CASE y # x
      BY <2>5, <2>7, <2>8, <3>2
    <3> QED
      BY <3>1, <3>2
  <2>9. AnsweredIsLogged'
    BY <2>5, <2>7
  <2> QED
    BY <2>6, <2>8, <2>9
<1>5. ASSUME NEW x \in Sessions, Answer(x) PROVE Goal
  BY <1>5 DEF Answer, Chained
<1>6. ASSUME NEW x \in Sessions, Rollback(x) PROVE Goal
  BY <1>6 DEF Rollback, Close, Chained
<1>7. ASSUME Crash PROVE Goal
  BY <1>7 DEF Crash, Chained
<1>8. ASSUME NEW s \in DOMAIN log, Damage(s) PROVE Goal
  BY <1>8 DEF Damage, NoDamage, AuditAssumption
<1> HIDE DEF Goal
<1>9. Goal
  BY <1>1, <1>2, <1>3, <1>4, <1>5, <1>6, <1>7, <1>8, StepCases
<1> QED
  BY <1>9 DEF Goal

-----------------------------------------------------------------------------
(* What verify answers.                                                      *)

\* A row whose stored hash recomputes and that is chained to the row before it.
Sound(s) ==
    /\ log[s].row_hash = row_hash(log[s].prev_hash, log[s].body)
    /\ \/ s = 1 /\ log[s].prev_hash = GENESIS_PREV_HASH
       \/ s - 1 \in DOMAIN log /\ log[s].prev_hash = log[s - 1].row_hash

\* A nonempty set of seqs has a first one.
LEMMA FirstType ==
    ASSUME NEW S \in SUBSET Nat, S # {}
    PROVE  First(S) \in S /\ \A y \in S : First(S) <= y
<1>1. PICK x \in S : \A y \in S : x <= y
  BY LeastNatural
<1> QED
  BY <1>1 DEF First

\* What the walk expects of a row that follows a walked one.
LEMMA ExpectedNext ==
    ASSUME NEW walked \in SUBSET Nat, NEW s \in walked, s - 1 \in walked
    PROVE  ExpectedPrev(walked, s) = log[s - 1].row_hash
<1>1. First(walked) \in Nat /\ First(walked) <= s - 1
  BY FirstType
<1>2. Last({y \in walked : y < s}) = s - 1
  <2> DEFINE S == {y \in walked : y < s}
  <2>0. s \in Nat /\ \A y \in walked : y \in Nat
    OBVIOUS
  <2>1. S \in SUBSET Int /\ s - 1 \in S /\ \A y \in S : y <= s - 1
    <3>1. S \in SUBSET Int
      <4>1. ASSUME NEW y \in S PROVE y \in Int
        BY <2>0
      <4> HIDE DEF S
      <4> QED
        BY <4>1
    <3>2. s - 1 < s
      BY <2>0
    <3>3. ASSUME NEW y \in S PROVE y <= s - 1
      BY <2>0
    <3> QED
      BY <3>1, <3>2, <3>3
  <2> HIDE DEF S
  <2>2. Last(S) = s - 1
    BY <2>1, LastIs
  <2> QED
    BY <2>2 DEF S
<1> QED
  BY <1>1, <1>2 DEF ExpectedPrev

\* A sound row does not break the walk, wherever the window starts.
LEMMA SoundRowPasses ==
    ASSUME TypeOK, NEW f \in Nat, NEW t \in Nat, NEW s \in Walked(f, t), Sound(s)
    PROVE  /\ ~RowBreaks(Walked(f, t), s)
           /\ s = First(Walked(f, t)) /\ Anchored(Walked(f, t))
              => s - 1 \in DOMAIN log /\ log[s - 1].row_hash = log[s].prev_hash
<1> DEFINE walked == Walked(f, t)
<1>0. /\ DOMAIN log \in SUBSET Nat /\ walked \in SUBSET DOMAIN log
      /\ s \in DOMAIN log /\ s \in Nat /\ s >= 1 /\ f <= s /\ s <= t
  BY DEF TypeOK, Walked
<1>1. First(walked) \in walked /\ First(walked) <= s /\ f <= First(walked)
  BY <1>0, FirstType DEF Walked
<1>2. First(DOMAIN log) \in DOMAIN log /\ \A y \in DOMAIN log : First(DOMAIN log) <= y
  BY <1>0, FirstType
<1>3. CASE s = First(walked)
  <2>1. CASE s = 1
    <3>1. First(DOMAIN log) = 1
      BY <1>0, <1>2, <2>1 DEF TypeOK
    <3>2. ~Anchored(walked)
      BY <1>3, <2>1, <3>1 DEF Anchored
    <3>3. log[s].prev_hash = GENESIS_PREV_HASH
      BY <2>1 DEF Sound, TypeOK
    <3> QED
      BY <1>3, <3>2, <3>3 DEF RowBreaks, ExpectedPrev, Sound
  <2>2. CASE s # 1
    <3>1. s - 1 \in DOMAIN log /\ log[s].prev_hash = log[s - 1].row_hash
      BY <2>2 DEF Sound
    <3>2. First(DOMAIN log) <= s - 1
      BY <1>2, <3>1
    <3>3. Anchored(walked)
      BY <1>0, <1>2, <1>3, <3>2 DEF Anchored
    <3> QED
      BY <1>3, <3>1, <3>3 DEF RowBreaks, ExpectedPrev, Sound
  <2> QED
    BY <2>1, <2>2
<1>4. CASE s # First(walked)
  <2>1. First(walked) <= s - 1 /\ First(walked) >= 1
    BY <1>0, <1>1, <1>4 DEF TypeOK
  <2>2. s - 1 \in DOMAIN log /\ log[s].prev_hash = log[s - 1].row_hash
    BY <1>0, <2>1, <1>1 DEF Sound
  <2>3. s - 1 \in walked
    BY <1>0, <1>1, <2>1, <2>2 DEF Walked
  <2>4. ExpectedPrev(walked, s) = log[s - 1].row_hash
    BY <1>0, <2>3, ExpectedNext
  <2> QED
    BY <1>4, <2>2, <2>4 DEF RowBreaks, Sound
<1> QED
  BY <1>3, <1>4

\* A window of sound rows verifies.
LEMMA SoundWindowVerifies ==
    ASSUME TypeOK, NEW f \in Nat, NEW t \in Nat, \A s \in Walked(f, t) : Sound(s)
    PROVE  verify(f, t).ok
<1> DEFINE walked == Walked(f, t)
<1>1. CASE walked = {}
  BY <1>1 DEF verify, Result
<1>2. CASE walked # {}
  <2>1. walked \in SUBSET Nat
    BY DEF Walked, TypeOK
  <2>2. First(walked) \in walked
    BY <1>2, <2>1, FirstType
  <2>3. {s \in walked : RowBreaks(walked, s)} = {}
    BY SoundRowPasses
  <2>4. Anchored(walked) => /\ First(walked) - 1 \in DOMAIN log
                            /\ log[First(walked) - 1].row_hash = log[First(walked)].prev_hash
    BY <2>2, SoundRowPasses
  <2> HIDE DEF walked
  <2>5. verify(f, t) = Result(TRUE, 0, FALSE)
    BY <1>2, <2>3, <2>4 DEF verify, walked
  <2> QED
    BY <2>5 DEF Result
<1> QED
  BY <1>1, <1>2

\* An undamaged log verifies in every window.
LEMMA LinkedVerifies ==
    ASSUME AuditAssumption, TypeOK, Linked
    PROVE  ChainIntact
<1> SUFFICES ASSUME damage = NoDamage, NEW w \in Windows
             PROVE  verify(w[1], w[2]).ok
  BY DEF ChainIntact
<1>1. PICK n \in 0..MaxRows : Chained(log, n)
  BY DEF Linked
<1>2. w[1] \in Nat /\ w[2] \in Nat
  BY DEF Windows, AuditAssumption
<1>3. \A s \in DOMAIN log : Sound(s)
  BY <1>1 DEF Chained, Sound, AuditAssumption
<1> QED
  BY <1>2, <1>3, SoundWindowVerifies DEF Walked

-----------------------------------------------------------------------------

\* The invariant is inductive.
LEMMA AuditInvStep ==
    ASSUME AuditAssumption, AuditInv, [Next]_vars
    PROVE  AuditInv'
BY TypeStep, SessionStep, LogStep DEF AuditInv

\* The invariant holds of the empty log.
LEMMA AuditInvInit ==
    ASSUME AuditAssumption, Init
    PROVE  AuditInv
<1>1. TypeOK
  BY DEF Init, TypeOK, Phases, NoDamage, AuditAssumption
<1>2. Exclusive /\ Fresh /\ Holding
  BY DEF Init, Exclusive, Fresh, Holding, InSession
<1>3. Chained(log, 0)
  BY DEF Init, Chained
<1>4. Linked /\ Recorded /\ AnsweredIsLogged
  BY <1>3 DEF Init, Linked, Recorded, AnsweredIsLogged, AuditAssumption
<1> QED
  BY <1>1, <1>2, <1>4 DEF AuditInv

\* The invariant holds in every reachable state.
LEMMA AuditInvariant == Spec => []AuditInv
<1>1. Init => AuditInv
  BY AuditAssumption, AuditInvInit
<1>2. AuditInv /\ [Next]_vars => AuditInv'
  BY AuditAssumption, AuditInvStep
<1> QED
  BY <1>1, <1>2, PTL DEF Spec

\* The variables keep their types.
THEOREM TypeCorrect == Spec => []TypeOK
<1>1. AuditInv => TypeOK
  BY DEF AuditInv
<1> QED
  BY <1>1, AuditInvariant, PTL

\* Whatever sessions run, fail and crash, an untouched log verifies in every
\* window: AuditRepo.append under BEGIN IMMEDIATE never forks the chain.
THEOREM ChainSafety == Spec => []ChainIntact
<1>1. AuditInv => ChainIntact
  BY AuditAssumption, LinkedVerifies DEF AuditInv
<1> QED
  BY <1>1, AuditInvariant, PTL

\* Every answered request, refused ones included, stays on record.
THEOREM AnswersLogged == Spec => []AnsweredIsLogged
<1>1. AuditInv => AnsweredIsLogged
  BY DEF AuditInv
<1> QED
  BY <1>1, AuditInvariant, PTL

-----------------------------------------------------------------------------
(* Damage.  The invariant: put the lost row back, and the log is chained.    *)

Restored(rows, n, d, o) == [s \in 1..n |-> IF s = d THEN o ELSE rows[s]]

Scarred(rows, n, d, o) ==
    /\ d \in 1..n /\ d + 1 \in 1..n
    /\ o \in Row /\ o.seq = d
    /\ DOMAIN rows = 1..n \/ DOMAIN rows = (1..n) \ {d}
    /\ d \in DOMAIN rows => rows[d] # o
    /\ Chained(Restored(rows, n, d, o), n)

DamageInv ==
    damage.inner => \E n \in 0..MaxRows, o \in Row : Scarred(log, n, damage.seq, o)

\* A scarred log continues where the undamaged one would.
LEMMA ScarredLast ==
    ASSUME NEW n \in Nat, NEW d, NEW o, Scarred(log, n, d, o)
    PROVE  /\ last_seq = n
           /\ last_row_hash = log[n].row_hash
           /\ n \in DOMAIN log
<1>1. n \in DOMAIN log /\ DOMAIN log \subseteq 1..n
  BY DEF Scarred
<1>2. last_seq = n
  <2> DEFINE S == DOMAIN log \cup {0}
  <2>1. S \in SUBSET Int /\ n \in S /\ \A y \in S : y <= n
    BY <1>1
  <2> HIDE DEF S
  <2>2. Last(S) = n
    BY <2>1, LastIs
  <2> QED
    BY <2>2 DEF S, last_seq
<1> QED
  BY <1>1, <1>2 DEF last_row_hash

\* Every step keeps a scarred log scarred at the same row, new rows going behind it.
LEMMA DamageStep ==
    ASSUME AuditAssumption, AuditInv, DamageInv, [Next]_vars
    PROVE  DamageInv'
<1> USE DEF DamageInv
<1>0. ASSUME UNCHANGED <<log, damage>> PROVE DamageInv'
  BY <1>0
<1>1. ASSUME UNCHANGED vars PROVE DamageInv'
  BY <1>0, <1>1 DEF vars
<1>2. ASSUME NEW x \in Sessions, begin_immediate(x) PROVE DamageInv'
  BY <1>0, <1>2 DEF begin_immediate
<1>3. ASSUME NEW x \in Sessions, NEW body \in Bodies,
             NEW outcome \in {"approved", "refused"}, append(x, body, outcome)
      PROVE  DamageInv'
  BY <1>0, <1>3 DEF append
<1>4. ASSUME NEW x \in Sessions, ScopeExit(x) \/ commit(x) PROVE DamageInv'
  <2> SUFFICES ASSUME damage.inner
               PROVE  \E n \in 0..MaxRows, o \in Row : Scarred(log', n, damage.seq, o)
    BY <1>4 DEF ScopeExit, commit
  <2> DEFINE d == damage.seq
  <2>1. PICK n \in 0..MaxRows, o \in Row : Scarred(log, n, d, o)
    OBVIOUS
  <2>2. n \in Nat /\ last_seq = n /\ last_row_hash = log[n].row_hash /\ n \in DOMAIN log
    BY <2>1, ScarredLast DEF AuditAssumption
  <2>3. PICK body \in Bodies : pending[x] = NewRow(body)
    BY <1>4, CommitStores DEF AuditInv
  <2>4. /\ n < MaxRows
        /\ pending[x].seq = n + 1
        /\ DOMAIN log' = DOMAIN log \cup {n + 1}
        /\ log'[n + 1] = NewRow(body)
        /\ \A s \in DOMAIN log : s # n + 1 => log'[s] = log[s]
    BY <1>4, <2>2, <2>3, CommitStores DEF AuditInv
  <2>5. /\ NewRow(body).prev_hash = log[n].row_hash
        /\ NewRow(body).row_hash = row_hash(NewRow(body).prev_hash, NewRow(body).body)
    BY <2>2 DEF NewRow
  <2> DEFINE old == Restored(log, n, d, o)
             new == Restored(log', n + 1, d, o)
  <2>6. /\ d \in 1..n /\ d + 1 \in 1..n
        /\ DOMAIN log = 1..n \/ DOMAIN log = (1..n) \ {d}
        /\ Chained(old, n)
    BY <2>1 DEF Scarred
  <2>7. DOMAIN new = 1..(n + 1) /\ new[n + 1] = NewRow(body) /\ \A s \in 1..n : new[s] = old[s]
    BY <2>2, <2>4, <2>6 DEF Restored
  <2>8. old[n] = log[n]
    BY <2>2, <2>6 DEF Restored
  <2>9. Chained(new, n + 1)
    <3> HIDE DEF old, new
    <3>1. ASSUME NEW s \in 1..(n + 1)
          PROVE  /\ new[s].prev_hash = IF s = 1 THEN GENESIS_PREV_HASH ELSE new[s - 1].row_hash
                 /\ new[s].row_hash = row_hash(new[s].prev_hash, new[s].body)
      <4>1. CASE s = n + 1
        BY <2>2, <2>5, <2>6, <2>7, <2>8, <4>1
      <4>2. CASE s \in 1..n
        BY <2>2, <2>6, <2>7, <4>2 DEF Chained
      <4> QED
        BY <2>2, <4>1, <4>2
    <3> QED
      BY <2>7, <3>1 DEF Chained
  <2>10. /\ DOMAIN log' = 1..(n + 1) \/ DOMAIN log' = (1..(n + 1)) \ {d}
         /\ d \in DOMAIN log' => log'[d] # o
         /\ d \in 1..(n + 1) /\ d + 1 \in 1..(n + 1)
    BY <2>1, <2>2, <2>4, <2>6 DEF Scarred
  <2>11. Scarred(log', n + 1, d, o)
    BY <1>4, <2>1, <2>9, <2>10 DEF Scarred, ScopeExit, commit, Chained, Restored
  <2>12. n + 1 \in 0..MaxRows /\ UNCHANGED damage
    BY <1>4, <2>2, <2>4 DEF ScopeExit, commit, AuditAssumption
  <2> QED
    BY <2>11, <2>12
<1>5. ASSUME NEW x \in Sessions, Answer(x) PROVE DamageInv'
  BY <1>0, <1>5 DEF Answer
<1>6. ASSUME NEW x \in Sessions, Rollback(x) PROVE DamageInv'
  BY <1>0, <1>6 DEF Rollback, Close
<1>7. ASSUME Crash PROVE DamageInv'
  BY <1>0, <1>7 DEF Crash
<1>8. ASSUME NEW s \in DOMAIN log, Damage(s) PROVE DamageInv'
  <2> SUFFICES ASSUME s + 1 \in DOMAIN log
               PROVE  \E n \in 0..MaxRows, o \in Row : Scarred(log', n, s, o)
    BY <1>8 DEF Damage
  <2>1. PICK n \in 0..MaxRows : Chained(log, n)
    BY <1>8 DEF Damage, AuditInv, Linked
  <2>2. log[s] \in Row /\ log[s].seq = s
    BY DEF AuditInv, TypeOK
  <2>3. /\ DOMAIN log' = 1..n \/ DOMAIN log' = (1..n) \ {s}
        /\ s \in DOMAIN log' => log'[s] # log[s]
        /\ \A t \in 1..n : t # s => log'[t] = log[t]
    BY <1>8, <2>1 DEF Damage, Chained
  <2>4. Chained(Restored(log', n, s, log[s]), n)
    <3> DEFINE old == [t \in 1..n |-> IF t = s THEN log[s] ELSE log'[t]]
    <3>1. DOMAIN old = 1..n /\ \A t \in 1..n : old[t] = log[t]
      BY <2>3
    <3> HIDE DEF old
    <3>2. Chained(old, n)
      BY <2>1, <3>1 DEF Chained
    <3> QED
      BY <3>2 DEF old, Restored
  <2>5. Scarred(log', n, s, log[s])
    BY <2>1, <2>2, <2>3, <2>4 DEF Scarred, Chained
  <2> QED
    BY <2>2, <2>5
<1> QED
  BY <1>1, <1>2, <1>3, <1>4, <1>5, <1>6, <1>7, <1>8, StepCases

\* Away from the scar every row is sound.
LEMMA ScarredSound ==
    ASSUME NEW n \in Nat, NEW d, NEW o, Scarred(log, n, d, o),
           NEW s \in DOMAIN log, s # d, s # d + 1
    PROVE  Sound(s)
<1> DEFINE old == Restored(log, n, d, o)
<1>1. /\ d \in 1..n /\ s \in 1..n /\ (1..n) \ {d} \subseteq DOMAIN log
      /\ Chained(old, n)
  BY DEF Scarred
<1>2. old[s] = log[s] /\ (s # 1 => s - 1 \in DOMAIN log /\ old[s - 1] = log[s - 1])
  BY <1>1 DEF Restored
<1> HIDE DEF old
<1>3. /\ old[s].prev_hash = IF s = 1 THEN GENESIS_PREV_HASH ELSE old[s - 1].row_hash
      /\ old[s].row_hash = row_hash(old[s].prev_hash, old[s].body)
  BY <1>1 DEF Chained
<1> QED
  BY <1>2, <1>3 DEF Sound

\* Around the scar: what the lost row was chained to, and what is chained to it.
LEMMA ScarredLinks ==
    ASSUME NEW n \in Nat, NEW d, NEW o, Scarred(log, n, d, o)
    PROVE  /\ o.prev_hash = IF d = 1 THEN GENESIS_PREV_HASH ELSE log[d - 1].row_hash
           /\ o.row_hash = row_hash(o.prev_hash, o.body)
           /\ log[d + 1].prev_hash = o.row_hash
<1> DEFINE old == Restored(log, n, d, o)
<1>1. d \in 1..n /\ d + 1 \in 1..n /\ Chained(old, n)
  BY DEF Scarred
<1>2. old[d] = o /\ old[d + 1] = log[d + 1] /\ (d # 1 => old[d - 1] = log[d - 1])
  BY <1>1 DEF Restored
<1> HIDE DEF old
<1>3. /\ old[d].prev_hash = IF d = 1 THEN GENESIS_PREV_HASH ELSE old[d - 1].row_hash
      /\ old[d].row_hash = row_hash(old[d].prev_hash, old[d].body)
      /\ old[d + 1].prev_hash = IF d + 1 = 1 THEN GENESIS_PREV_HASH ELSE old[d + 1 - 1].row_hash
  BY <1>1 DEF Chained
<1>4. d + 1 # 1 /\ d + 1 - 1 = d
  BY <1>1
<1> QED
  BY <1>2, <1>3, <1>4

\* A hash determines the row it was computed from, and is never its own prefix.
LEMMA HashInjective ==
    ASSUME NEW p \in Hashes, NEW b \in Bodies, NEW c \in Bodies
    PROVE  /\ row_hash(p, b) # p
           /\ row_hash(p, b) # GENESIS_PREV_HASH
           /\ row_hash(p, b) = row_hash(p, c) => b = c
<1>1. p \in Seq(Bodies) /\ Len(Append(p, b)) = Len(p) + 1 /\ Len(p) \in Nat /\ Len(<<>>) = 0
  BY DEF Hashes
<1>2. Append(p, b)[Len(p) + 1] = b /\ Append(p, c)[Len(p) + 1] = c
  BY <1>1
<1>3. Append(p, b) # p /\ Append(p, b) # <<>>
  BY <1>1
<1> QED
  BY <1>2, <1>3 DEF row_hash, GENESIS_PREV_HASH

\* A row is its four fields.
LEMMA SameRow ==
    ASSUME NEW r \in Row, NEW q \in Row, r.seq = q.seq, r.body = q.body,
           r.prev_hash = q.prev_hash, r.row_hash = q.row_hash
    PROVE  r = q
<1>1. /\ r = [seq |-> r.seq, body |-> r.body, prev_hash |-> r.prev_hash, row_hash |-> r.row_hash]
      /\ q = [seq |-> q.seq, body |-> q.body, prev_hash |-> q.prev_hash, row_hash |-> q.row_hash]
  BY DEF Row
<1> QED
  BY <1>1

\* The walk stops at the damaged row or at its successor.
LEMMA ScarBreaks ==
    ASSUME AuditAssumption, TypeOK, NEW n \in Nat, NEW d, NEW o, Scarred(log, n, d, o),
           NEW f \in Nat, NEW t \in Nat, f <= d, d + 1 <= t
    PROVE  ~verify(f, t).ok /\ verify(f, t).first_break_seq \in {d, d + 1}
<1> DEFINE walked == Walked(f, t)
           first == First(walked)
           breaks == {s \in walked : RowBreaks(walked, s)}
<1>0. /\ d \in Nat /\ d >= 1 /\ d + 1 \in DOMAIN log /\ d + 1 \in walked
      /\ (1..n) \ {d} \subseteq DOMAIN log /\ DOMAIN log \subseteq 1..n
      /\ walked \in SUBSET Nat /\ walked \subseteq DOMAIN log
      /\ DOMAIN log \in SUBSET Nat /\ walked # {}
      /\ d <= n
  BY DEF Scarred, Walked
<1>1. first \in walked /\ \A y \in walked : first <= y
  BY <1>0, FirstType
<1>2. First(DOMAIN log) \in DOMAIN log /\ \A y \in DOMAIN log : First(DOMAIN log) <= y
  BY <1>0, FirstType
<1>3. \A s \in breaks : s >= d
  BY <1>0, ScarredSound, SoundRowPasses
<1>4. CASE walked # {} /\ Anchored(walked) /\ first - 1 \notin DOMAIN log
  <2>1. verify(f, t) = Result(FALSE, first, FALSE)
    BY <1>4 DEF verify
  <2>2. first \in {d, d + 1}
    BY <1>0, <1>1, <1>4, ScarredSound, SoundRowPasses
  <2> QED
    BY <2>1, <2>2 DEF Result
<1>5. CASE ~(Anchored(walked) /\ first - 1 \notin DOMAIN log)
  <2>1. d \in breaks \/ d + 1 \in breaks
    <3> SUFFICES ASSUME d \notin breaks, d + 1 \notin breaks PROVE FALSE
      OBVIOUS
    <3>0. /\ o \in Row /\ o.prev_hash \in Hashes /\ o.body \in Bodies /\ o.seq = d
          /\ d \in DOMAIN log => log[d] # o
      BY DEF Scarred, Row
    <3>1. /\ o.prev_hash = IF d = 1 THEN GENESIS_PREV_HASH ELSE log[d - 1].row_hash
          /\ o.row_hash = row_hash(o.prev_hash, o.body)
          /\ log[d + 1].prev_hash = o.row_hash
      BY ScarredLinks
    <3>2. log[d + 1].prev_hash = ExpectedPrev(walked, d + 1)
      BY <1>0 DEF RowBreaks
    <3>3. d # 1 /\ first <= d - 1 => d - 1 \in walked
      BY <1>0, <1>1 DEF Walked
    <3>4. CASE d \in DOMAIN log
      <4>1. d \in walked
        BY <1>0, <3>4 DEF Walked
      <4>2. log[d].row_hash = o.row_hash
        <5>1. d + 1 - 1 \in walked
          BY <1>0, <4>1
        <5>2. ExpectedPrev(walked, d + 1) = log[d + 1 - 1].row_hash
          BY <1>0, <5>1, ExpectedNext
        <5> QED
          BY <1>0, <3>1, <3>2, <5>2
      <4>3. ExpectedPrev(walked, d) = o.prev_hash
        <5>1. CASE d = first /\ d = 1
          <6>1. First(DOMAIN log) = 1
            BY <1>0, <1>2, <3>4, <5>1
          <6> QED
            BY <3>1, <5>1, <6>1 DEF ExpectedPrev, Anchored
        <5>2. CASE d = first /\ d # 1
          <6>1. d - 1 \in DOMAIN log
            BY <1>0, <5>2
          <6>2. First(DOMAIN log) # d
            BY <1>0, <1>2, <6>1
          <6> QED
            BY <3>1, <5>2, <6>2 DEF ExpectedPrev, Anchored
        <5>3. CASE d # first
          <6>1. d # 1 /\ first <= d - 1
            BY <1>0, <1>1, <4>1, <5>3
          <6>2. d - 1 \in walked
            BY <3>3, <6>1
          <6> QED
            BY <1>0, <3>1, <4>1, <6>1, <6>2, ExpectedNext
        <5> QED
          BY <5>1, <5>2, <5>3
      <4>4. log[d].prev_hash = o.prev_hash /\ log[d].row_hash = row_hash(o.prev_hash, log[d].body)
        BY <4>1, <4>3 DEF RowBreaks
      <4>5. log[d] \in Row /\ log[d].seq = d /\ log[d].body \in Bodies
        BY <3>4 DEF TypeOK, Row
      <4>6. log[d].body = o.body
        BY <3>0, <3>1, <4>2, <4>4, <4>5, HashInjective
      <4>7. log[d] = o
        BY <3>0, <4>2, <4>4, <4>5, <4>6, SameRow
      <4> QED
        BY <3>0, <3>4, <4>7
    <3>5. CASE d \notin DOMAIN log
      <4>1. CASE d + 1 = first
        <5>1. ~Anchored(walked)
          BY <1>0, <1>5, <3>5, <4>1
        <5>2. ExpectedPrev(walked, d + 1) = GENESIS_PREV_HASH
          BY <4>1, <5>1 DEF ExpectedPrev
        <5> QED
          BY <3>0, <3>1, <3>2, <5>2, HashInjective
      <4>2. CASE d + 1 # first
        <5>1. first <= d - 1 /\ d # 1
          BY <1>0, <1>1, <3>5, <4>2
        <5>2. d - 1 \in walked
          BY <3>3, <5>1
        <5> DEFINE S == {y \in walked : y < d + 1}
        <5>3. S \in SUBSET Int /\ d - 1 \in S
          BY <1>0, <5>2
        <5>4. ASSUME NEW y \in S PROVE y <= d - 1
          BY <1>0, <3>5
        <5> HIDE DEF S
        <5>5. Last(S) = d - 1
          BY <5>3, <5>4, LastIs
        <5>6. ExpectedPrev(walked, d + 1) = log[d - 1].row_hash
          BY <4>2, <5>5 DEF S, ExpectedPrev
        <5> QED
          BY <3>0, <3>1, <3>2, <5>1, <5>6, HashInjective
      <4> QED
        BY <4>1, <4>2
    <3> QED
      BY <3>4, <3>5
  <2>2. First(breaks) \in {d, d + 1}
    <3>1. breaks \in SUBSET Int
      BY <1>0
    <3> HIDE DEF breaks
    <3>2. CASE d \in breaks
      BY <1>3, <3>1, <3>2, FirstIs
    <3>3. CASE d \notin breaks
      <4>1. d + 1 \in breaks /\ \A s \in breaks : d + 1 <= s
        BY <1>0, <1>3, <2>1, <3>1, <3>3
      <4> QED
        BY <3>1, <4>1, FirstIs
    <3> QED
      BY <3>2, <3>3
  <2> HIDE DEF walked, breaks, first
  <2>3. verify(f, t) = Result(FALSE, First(breaks), FALSE)
    BY <1>0, <1>5, <2>1 DEF verify, walked, breaks, first
  <2> QED
    BY <2>2, <2>3 DEF Result
<1> QED
  BY <1>0, <1>4, <1>5

\* A damaged row with a successor is found by every window that holds both, at
\* one of the two, and no other window raises an alarm.
THEOREM DamageFound == Spec => []DamageLocated
<1>1. Init => DamageInv
  BY DEF Init, NoDamage, DamageInv
<1>2. AuditInv /\ DamageInv /\ [Next]_vars => DamageInv'
  BY AuditAssumption, DamageStep
<1>3. AuditInv /\ DamageInv => DamageLocated
  <2> SUFFICES ASSUME AuditInv, DamageInv, damage.inner, NEW w \in Windows
               PROVE  LET d == damage.seq
                          r == verify(w[1], w[2])
                      IN  /\ w[1] <= d /\ d + 1 <= w[2] => ~r.ok /\ r.first_break_seq \in {d, d + 1}
                          /\ w[2] < d \/ d + 1 < w[1] => r.ok
    BY DEF DamageLocated
  <2> DEFINE d == damage.seq
  <2>1. PICK n \in 0..MaxRows, o \in Row : Scarred(log, n, d, o)
    BY DEF DamageInv
  <2>2. n \in Nat /\ w[1] \in Nat /\ w[2] \in Nat /\ TypeOK /\ d \in Nat
    BY AuditAssumption, <2>1 DEF Windows, AuditInv, AuditAssumption, Scarred
  <2>3. ASSUME w[1] <= d, d + 1 <= w[2]
        PROVE  ~verify(w[1], w[2]).ok /\ verify(w[1], w[2]).first_break_seq \in {d, d + 1}
    BY <2>1, <2>2, <2>3, AuditAssumption, ScarBreaks
  <2>4. ASSUME w[2] < d \/ d + 1 < w[1] PROVE verify(w[1], w[2]).ok
    <3>1. ASSUME NEW s \in Walked(w[1], w[2]) PROVE Sound(s)
      <4>1. s \in DOMAIN log /\ s \in Nat /\ s # d /\ s # d + 1
        BY <2>2, <2>4 DEF Walked, TypeOK
      <4> QED
        BY <2>1, <2>2, <4>1, ScarredSound
    <3> QED
      BY <2>2, <3>1, SoundWindowVerifies
  <2> QED
    BY <2>3, <2>4
<1> QED
  BY <1>1, <1>2, <1>3, AuditInvariant, PTL DEF Spec
=============================================================================
