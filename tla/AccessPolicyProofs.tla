------------------------- MODULE AccessPolicyProofs -------------------------
(***************************************************************************)
(* Proofs about the policies of Access, for any options of policy init,    *)
(* any edits, callers, wallets and grants: what the callers of the         *)
(* convention can have signed, what a merge changes, what a policy in      *)
(* force allows twice, and whether the daemon starts on it.                *)
(*                                                                         *)
(* A policy file is made of pieces, generated policies and edits.  The     *)
(* invariant says so: every rule of the file and of the policy in force is *)
(* that of a piece, and the rest of that piece is still there under the    *)
(* same keys.                                                              *)
(***************************************************************************)
EXTENDS AccessProofs, PolicyInitProofs

Pieces == Edits \cup {Generated[a] : a \in DOMAIN Generated}

\* Whatever s defines, p defines.
Within(s, p) ==
    /\ DOMAIN s.callers \subseteq DOMAIN p.callers
    /\ DOMAIN s.wallets \subseteq DOMAIN p.wallets
    /\ DOMAIN s.permissions \subseteq DOMAIN p.permissions
    /\ DOMAIN s.fsp_permissions \subseteq DOMAIN p.fsp_permissions
    /\ DOMAIN s.native_transfers \subseteq DOMAIN p.native_transfers
    /\ s.fsp_self_submit \subseteq p.fsp_self_submit

\* Every rule of p is the rule of a piece that was merged into it.
FromPieces(p) ==
    /\ \A k \in DOMAIN p.callers : \E s \in Pieces :
          Within(s, p) /\ k \in DOMAIN s.callers /\ p.callers[k] = s.callers[k]
    /\ \A k \in DOMAIN p.permissions : \E s \in Pieces :
          Within(s, p) /\ k \in DOMAIN s.permissions /\ p.permissions[k] = s.permissions[k]
    /\ \A k \in DOMAIN p.fsp_permissions : \E s \in Pieces :
          Within(s, p) /\ k \in DOMAIN s.fsp_permissions /\ p.fsp_permissions[k] = s.fsp_permissions[k]
    /\ \A k \in DOMAIN p.native_transfers : \E s \in Pieces :
          Within(s, p) /\ k \in DOMAIN s.native_transfers /\ p.native_transfers[k] = s.native_transfers[k]
    /\ \A w \in p.fsp_self_submit : \E s \in Pieces : Within(s, p) /\ w \in s.fsp_self_submit

\* A request was decided by the policy in force: the policy changes only while
\* the daemon is down, and then there are no requests.
Decided ==
    \A s \in Sessions : requests[s] # Idle /\ requests[s].signed # NoAsk =>
        /\ policy # NoPolicy
        /\ requests[s].signed \in Asks
        /\ evaluate(policy, requests[s], requests[s].signed)

PolicyInv ==
    /\ policy_file # NoPolicy => FromPieces(policy_file)
    /\ policy # NoPolicy => FromPieces(policy)
    /\ daemon = "down" => policy = NoPolicy /\ \A s \in Sessions : requests[s] = Idle
    /\ Decided

-----------------------------------------------------------------------------
(***************************************************************************)
(* The invariant.                                                          *)
(***************************************************************************)

\* A generated policy, with the options that it was generated for.
LEMMA GeneratedIs ==
    ASSUME NEW args \in DOMAIN Generated
    PROVE  /\ args \in InitArgs /\ InitArgsValid(args)
           /\ Generated[args] = generate_policy(args)
           /\ Generated[args] \in Pieces
BY DEF Generated, Pieces

\* A piece is a policy made of its own rules.
LEMMA PieceFromPieces ==
    ASSUME NEW s \in Pieces
    PROVE  FromPieces(s)
<1>1. Within(s, s)
  BY DEF Within
<1> QED
  BY <1>1 DEF FromPieces

\* What is put over a policy leaves it made of pieces.
LEMMA MergeFromPieces ==
    ASSUME NEW p, NEW s \in Pieces, NEW q, FromPieces(p), MergedFrom(q, p, s)
    PROVE  FromPieces(q) /\ Within(s, q)
<1>1. Within(s, q) /\ \A t : Within(t, p) => Within(t, q)
  BY DEF MergedFrom, Over, Within
<1>2. ASSUME NEW k \in DOMAIN q.callers
      PROVE  \E t \in Pieces : Within(t, q) /\ k \in DOMAIN t.callers /\ q.callers[k] = t.callers[k]
  BY <1>1 DEF MergedFrom, Over, FromPieces
<1>3. ASSUME NEW k \in DOMAIN q.permissions
      PROVE  \E t \in Pieces : Within(t, q) /\ k \in DOMAIN t.permissions
                               /\ q.permissions[k] = t.permissions[k]
  BY <1>1 DEF MergedFrom, Over, FromPieces
<1>4. ASSUME NEW k \in DOMAIN q.fsp_permissions
      PROVE  \E t \in Pieces : Within(t, q) /\ k \in DOMAIN t.fsp_permissions
                               /\ q.fsp_permissions[k] = t.fsp_permissions[k]
  BY <1>1 DEF MergedFrom, Over, FromPieces
<1>5. ASSUME NEW k \in DOMAIN q.native_transfers
      PROVE  \E t \in Pieces : Within(t, q) /\ k \in DOMAIN t.native_transfers
                               /\ q.native_transfers[k] = t.native_transfers[k]
  BY <1>1 DEF MergedFrom, Over, FromPieces
<1>6. ASSUME NEW w \in q.fsp_self_submit
      PROVE  \E t \in Pieces : Within(t, q) /\ w \in t.fsp_self_submit
  BY <1>1 DEF MergedFrom, FromPieces
<1> QED
  BY <1>1, <1>2, <1>3, <1>4, <1>5, <1>6 DEF FromPieces

\* An edit is put over the file.
LEMMA EditIs ==
    ASSUME NEW edit \in Edits, EditPolicy(edit)
    PROVE  MergedFrom(policy_file', policy_file, edit)
<1>1. \A base, add : Over(Overlay(base, add), base, add)
  BY OverlayIs DEF Over
<1>2. LET q == policy_file'
          p == policy_file
      IN  /\ q.callers = Overlay(p.callers, edit.callers)
          /\ q.wallets = Overlay(p.wallets, edit.wallets)
          /\ q.permissions = Overlay(p.permissions, edit.permissions)
          /\ q.fsp_permissions = Overlay(p.fsp_permissions, edit.fsp_permissions)
          /\ q.native_transfers = Overlay(p.native_transfers, edit.native_transfers)
          /\ q.wallet_constraints = p.wallet_constraints \cup edit.wallet_constraints
          /\ q.fsp_self_submit = p.fsp_self_submit \cup edit.fsp_self_submit
  BY DEF EditPolicy, merge_policies
<1> QED
  BY <1>1, <1>2 DEF MergedFrom

\* The file stays made of pieces.
LEMMA FileStep ==
    ASSUME policy_file # NoPolicy => FromPieces(policy_file), [Next]_vars
    PROVE  policy_file' # NoPolicy => FromPieces(policy_file)'
<1>1. ASSUME NEW args \in DOMAIN Generated, NEW merge \in BOOLEAN, InitPolicy(args, merge)
      PROVE  policy_file' # NoPolicy => FromPieces(policy_file')
  <2>1. CASE merge /\ policy_file # NoPolicy
    <3>1. policy_file' = merge_policies(policy_file, Generated[args])
      BY <1>1, <2>1 DEF InitPolicy, InitOutput
    <3> QED
      BY <2>1, <3>1, GeneratedIs, MergeIs, MergeFromPieces
  <2>2. CASE ~(merge /\ policy_file # NoPolicy)
    <3>1. policy_file' = Generated[args]
      BY <1>1, <2>2 DEF InitPolicy, InitOutput
    <3> QED
      BY <3>1, GeneratedIs, PieceFromPieces
  <2> QED
    BY <2>1, <2>2
<1>2. ASSUME NEW edit \in Edits, EditPolicy(edit)
      PROVE  FromPieces(policy_file')
  <2>1. policy_file # NoPolicy /\ edit \in Pieces
    BY <1>2 DEF EditPolicy, Pieces
  <2> QED
    BY <1>2, <2>1, EditIs, MergeFromPieces
<1>3. CASE policy_file' = policy_file
  BY <1>3
<1>4. \/ \E args \in DOMAIN Generated, merge \in BOOLEAN : InitPolicy(args, merge)
      \/ \E edit \in Edits : EditPolicy(edit)
      \/ policy_file' = policy_file
  BY DEF Next, vars, AddWallet, Start, StartWithoutPolicy, Stop,
         PostCallers, DeleteCaller, Authenticate, SignAsk, Answer, GrantStart, GrantMint,
         GrantSkip, GrantUnreachable, GrantEnd
<1> QED
  BY <1>1, <1>2, <1>3, <1>4

\* The decision depends on the name and the path of the caller's row.
LEMMA EvaluateSame ==
    ASSUME NEW p, NEW c, NEW d, NEW ask, c.name = d.name, c.policy_path = d.policy_path
    PROVE  evaluate(p, c, ask) <=> evaluate(p, d, ask)
<1>1. Bound(p, c) <=> Bound(p, d)
  BY DEF Bound
<1>2. evaluate_fsp(p, c, ask) <=> evaluate_fsp(p, d, ask)
  BY <1>1 DEF evaluate_fsp
<1>3. evaluate_inner(p, c, ask) <=> evaluate_inner(p, d, ask)
  BY <1>1 DEF evaluate_inner
<1> QED
  BY <1>2, <1>3 DEF evaluate

\* Requests are decided by the policy in force.
LEMMA DecidedStep ==
    ASSUME AccessInv, PolicyInv, [Next]_vars
    PROVE  Decided'
<1>1. CASE policy' = policy /\ requests' = requests
  BY <1>1 DEF PolicyInv, Decided
<1>2. CASE Start
  BY <1>2 DEF Start, PolicyInv, Decided
<1>3. CASE Stop
  BY <1>3 DEF Stop, Decided
<1>4. ASSUME NEW s \in Sessions, NEW key \in Tokens, Authenticate(s, key)
      PROVE  Decided'
  <2>1. PICK n \in DOMAIN callers :
           requests' = [requests EXCEPT ![s] =
               [name |-> n, policy_path |-> callers[n].policy_path, key |-> key, signed |-> NoAsk]]
    BY <1>4 DEF Authenticate, resolve_caller
  <2>2. requests'[s].signed = NoAsk /\ \A t \in Sessions \ {s} : requests'[t] = requests[t]
    BY <2>1 DEF AccessInv, InFlight
  <2> QED
    BY <1>4, <2>2 DEF Authenticate, PolicyInv, Decided
<1>5. ASSUME NEW s \in Sessions, NEW ask \in Asks, SignAsk(s, ask)
      PROVE  Decided'
  <2>1. /\ requests'[s].signed = ask
        /\ requests'[s].name = requests[s].name /\ requests'[s].policy_path = requests[s].policy_path
        /\ \A t \in Sessions \ {s} : requests'[t] = requests[t]
    BY <1>5 DEF SignAsk, AccessInv, InFlight
  <2>2. policy' = policy /\ policy # NoPolicy /\ evaluate(policy, requests[s], ask)
    BY <1>5 DEF SignAsk
  <2>3. evaluate(policy, requests'[s], ask)
    BY <2>1, <2>2, EvaluateSame
  <2> QED
    BY <2>1, <2>2, <2>3 DEF PolicyInv, Decided
<1>6. ASSUME NEW s \in Sessions, Answer(s)
      PROVE  Decided'
  <2>1. requests'[s] = Idle /\ \A t \in Sessions \ {s} : requests'[t] = requests[t]
    BY <1>6 DEF Answer, AccessInv, InFlight
  <2> QED
    BY <1>6, <2>1 DEF Answer, PolicyInv, Decided
<1>7. \/ policy' = policy /\ requests' = requests
      \/ Start \/ Stop
      \/ \E s \in Sessions, key \in Tokens : Authenticate(s, key)
      \/ \E s \in Sessions, ask \in Asks : SignAsk(s, ask)
      \/ \E s \in Sessions : Answer(s)
  BY DEF Next, vars, InitPolicy, EditPolicy, AddWallet, StartWithoutPolicy,
         PostCallers, DeleteCaller, GrantStart, GrantMint, GrantSkip, GrantUnreachable, GrantEnd
<1> QED
  BY <1>1, <1>2, <1>3, <1>4, <1>5, <1>6, <1>7

\* The policy in force is the file as it was at the start, and there is none,
\* and no request, while the daemon is down.
LEMMA ForceStep ==
    ASSUME AccessInv, PolicyInv, [Next]_vars
    PROVE  /\ policy' # NoPolicy => FromPieces(policy)'
           /\ daemon' = "down" => policy' = NoPolicy /\ \A s \in Sessions : requests'[s] = Idle
<1>1. CASE UNCHANGED <<daemon, policy, requests>>
  BY <1>1 DEF PolicyInv
<1>2. CASE Start
  BY <1>2 DEF Start, PolicyInv
<1>3. CASE StartWithoutPolicy
  BY <1>3 DEF StartWithoutPolicy, PolicyInv
<1>4. CASE Stop
  BY <1>4 DEF Stop
<1>5. CASE \E s \in Sessions :
              \/ \E key \in Tokens : Authenticate(s, key)
              \/ \E ask \in Asks : SignAsk(s, ask)
              \/ Answer(s)
  <2>1. daemon = "up" /\ UNCHANGED <<daemon, policy>>
    BY <1>5 DEF Authenticate, SignAsk, Answer, PolicyInv, AccessInv, Rows
  <2> QED
    BY <2>1 DEF PolicyInv
<1>6. \/ UNCHANGED <<daemon, policy, requests>>
      \/ Start \/ StartWithoutPolicy \/ Stop
      \/ \E s \in Sessions : \/ \E key \in Tokens : Authenticate(s, key)
                             \/ \E ask \in Asks : SignAsk(s, ask)
                             \/ Answer(s)
  BY DEF Next, vars, InitPolicy, EditPolicy, AddWallet,
         PostCallers, DeleteCaller, GrantStart, GrantMint, GrantSkip, GrantUnreachable, GrantEnd
<1> QED
  BY <1>1, <1>2, <1>3, <1>4, <1>5, <1>6

\* The invariant holds of every behaviour.
LEMMA PolicyInvariance == Spec => []PolicyInv
<1>1. Init => PolicyInv
  BY DEF Init, PolicyInv, Decided
<1>2. AccessInv /\ PolicyInv /\ [Next]_vars => PolicyInv'
  <2> SUFFICES ASSUME AccessInv, PolicyInv, [Next]_vars PROVE PolicyInv'
    OBVIOUS
  <2>1. policy_file' # NoPolicy => FromPieces(policy_file)'
    BY FileStep DEF PolicyInv
  <2> QED
    BY <2>1, DecidedStep, ForceStep DEF PolicyInv
<1> QED
  BY <1>1, <1>2, Invariance, PTL DEF Spec

-----------------------------------------------------------------------------
(***************************************************************************)
(* What a policy made of pieces says about the callers and the paths of    *)
(* the convention, when edits leave them alone.                            *)
(***************************************************************************)

\* A generated caller is the caller of a row, bound to the path of the row.
LEMMA GeneratedBinding ==
    ASSUME NEW args \in DOMAIN Generated, NEW n \in DOMAIN Generated[args].callers
    PROVE  \E row \in AllSubmit \cup AllSign, net \in args.networks :
              n = Name(row.caller, net) /\ Generated[args].callers[n] = Binding(Name(row.path, net))
<1>1. Generated[args] = generate_policy(args) /\ InitArgsValid(args)
  BY GeneratedIs
<1>2. PICK row \in BothRows(args.capabilities), net \in args.networks :
         n = Name(row.caller, net) /\ Generated[args].callers[n] = Binding(Name(row.path, net))
  BY <1>1, GeneratedCallers
<1>3. row \in AllSubmit \cup AllSign
  BY <1>1, RowsOfCapability DEF BothRows
<1> QED
  BY <1>2, <1>3

\* A rule of p comes from options of policy init or from an edit.
LEMMA PieceIs ==
    ASSUME NEW s \in Pieces
    PROVE  s \in Edits \/ \E args \in DOMAIN Generated : s = Generated[args]
BY DEF Pieces

\* The binding of a caller: of a row, or of an edit.
LEMMA BindingFrom ==
    ASSUME NEW p, FromPieces(p), NEW n \in DOMAIN p.callers
    PROVE  \/ \E row \in AllSubmit \cup AllSign : \E net :
                 n = Name(row.caller, net) /\ p.callers[n].policy_path = Name(row.path, net)
           \/ \E e \in Edits : n \in DOMAIN e.callers /\ p.callers[n] = e.callers[n]
<1>1. PICK s \in Pieces : n \in DOMAIN s.callers /\ p.callers[n] = s.callers[n]
  BY DEF FromPieces
<1>2. CASE s \in Edits
  BY <1>1, <1>2
<1>3. ASSUME NEW args \in DOMAIN Generated, s = Generated[args]
      PROVE  \E row \in AllSubmit \cup AllSign : \E net :
                n = Name(row.caller, net) /\ p.callers[n].policy_path = Name(row.path, net)
  <2>1. PICK row \in AllSubmit \cup AllSign, net \in args.networks :
           n = Name(row.caller, net) /\ Generated[args].callers[n] = Binding(Name(row.path, net))
    BY <1>1, <1>3, GeneratedBinding
  <2>2. p.callers[n].policy_path = Name(row.path, net)
    BY <1>1, <1>3, <2>1 DEF Binding
  <2> QED
    BY <2>1, <2>2
<1> QED
  BY <1>2, <1>3, PieceIs

\* A permissions block: of a submit row, or of an edit.
LEMMA PermissionFrom ==
    ASSUME NEW p, FromPieces(p), NEW path \in DOMAIN p.permissions
    PROVE  \/ \E args \in DOMAIN Generated : Within(Generated[args], p) /\
                 \E row \in SubmitRows(args.capabilities), net \in args.networks :
                    /\ row \in AllSubmit
                    /\ path = Name(row.path, net)
                    /\ p.permissions[path] = PermissionBlock(args, row, net)
           \/ \E e \in Edits : /\ Within(e, p) /\ path \in DOMAIN e.permissions
                               /\ p.permissions[path] = e.permissions[path]
<1>1. PICK s \in Pieces :
         Within(s, p) /\ path \in DOMAIN s.permissions /\ p.permissions[path] = s.permissions[path]
  BY DEF FromPieces
<1>2. CASE s \in Edits
  BY <1>1, <1>2
<1>3. ASSUME NEW args \in DOMAIN Generated, s = Generated[args]
      PROVE  \E row \in SubmitRows(args.capabilities), net \in args.networks :
                    /\ row \in AllSubmit
                    /\ path = Name(row.path, net)
                    /\ p.permissions[path] = PermissionBlock(args, row, net)
  <2>1. s = generate_policy(args) /\ InitArgsValid(args)
    BY <1>3, GeneratedIs
  <2>2. PICK row \in SubmitRows(args.capabilities), net \in args.networks :
           path = Name(row.path, net) /\ s.permissions[path] = PermissionBlock(args, row, net)
    BY <1>1, <2>1, GeneratedPermissions
  <2> QED
    BY <1>1, <2>1, <2>2, RowsOfCapability
<1> QED
  BY <1>1, <1>2, <1>3, PieceIs

\* An fsp_permissions block: of a sign row, or of an edit.
LEMMA FspFrom ==
    ASSUME NEW p, FromPieces(p), NEW path \in DOMAIN p.fsp_permissions
    PROVE  \/ \E args \in DOMAIN Generated : Within(Generated[args], p) /\
                 \E row \in SignRows(args.capabilities), net \in args.networks :
                    /\ row \in AllSign
                    /\ path = Name(row.path, net)
                    /\ p.fsp_permissions[path] = FspBlock(row, net)
           \/ \E e \in Edits : /\ Within(e, p) /\ path \in DOMAIN e.fsp_permissions
                               /\ p.fsp_permissions[path] = e.fsp_permissions[path]
<1>1. PICK s \in Pieces : /\ Within(s, p) /\ path \in DOMAIN s.fsp_permissions
                          /\ p.fsp_permissions[path] = s.fsp_permissions[path]
  BY DEF FromPieces
<1>2. CASE s \in Edits
  BY <1>1, <1>2
<1>3. ASSUME NEW args \in DOMAIN Generated, s = Generated[args]
      PROVE  \E row \in SignRows(args.capabilities), net \in args.networks :
                    /\ row \in AllSign
                    /\ path = Name(row.path, net)
                    /\ p.fsp_permissions[path] = FspBlock(row, net)
  <2>1. s = generate_policy(args) /\ InitArgsValid(args)
    BY <1>3, GeneratedIs
  <2>2. PICK row \in SignRows(args.capabilities), net \in args.networks :
           path = Name(row.path, net) /\ s.fsp_permissions[path] = FspBlock(row, net)
    BY <1>1, <2>1, GeneratedFsp
  <2> QED
    BY <1>1, <2>1, <2>2, RowsOfCapability
<1> QED
  BY <1>1, <1>2, <1>3, PieceIs

\* A native_transfers block is that of an edit.
LEMMA NativeFrom ==
    ASSUME NEW p, FromPieces(p), NEW path \in DOMAIN p.native_transfers
    PROVE  \E e \in Edits : /\ Within(e, p) /\ path \in DOMAIN e.native_transfers
                            /\ p.native_transfers[path] = e.native_transfers[path]
<1>1. PICK s \in Pieces : /\ Within(s, p) /\ path \in DOMAIN s.native_transfers
                          /\ p.native_transfers[path] = s.native_transfers[path]
  BY DEF FromPieces
<1>2. ASSUME NEW args \in DOMAIN Generated, s = Generated[args]
      PROVE  FALSE
  <2>1. s.native_transfers = << >>
    BY <1>2, GeneratedIs, GeneratedRest
  <2> QED
    BY <1>1, <2>1
<1> QED
  BY <1>1, <1>2, PieceIs

\* The callers and the paths of the rows are in the convention.
LEMMA RowNames ==
    ASSUME NEW row \in AllSubmit \cup AllSign, NEW net
    PROVE  /\ Name(row.caller, net)[1] = row.caller /\ Name(row.caller, net)[2] = net
           /\ Name(row.path, net)[1] = row.path /\ Name(row.path, net)[2] = net
           /\ Conventional(Name(row.caller, net))
           /\ ConventionPath(Name(row.path, net))
<1>1. /\ Name(row.caller, net)[1] = row.caller /\ Name(row.caller, net)[2] = net
      /\ Name(row.path, net)[1] = row.path /\ Name(row.path, net)[2] = net
  BY DEF Name
<1>2. PICK role \in DOMAIN ROLE_CONVENTION :
         ROLE_CONVENTION[role][1] = row.caller /\ ROLE_CONVENTION[role][2] = row.path
  BY RowsConventional
<1> QED
  BY <1>1, <1>2 DEF Conventional, ConventionPath

\* A caller of the convention is bound to the path of its row.
LEMMA ConventionBinding ==
    ASSUME EditsElsewhere, NEW p, FromPieces(p), NEW n \in DOMAIN p.callers, Conventional(n)
    PROVE  \E row \in AllSubmit \cup AllSign : \E net :
              n = Name(row.caller, net) /\ p.callers[n].policy_path = Name(row.path, net)
BY BindingFrom DEF EditsElsewhere

\* A permissions block at a path of the convention is that of a submit row.
LEMMA ConventionPermission ==
    ASSUME EditsElsewhere, NEW p, FromPieces(p), NEW path \in DOMAIN p.permissions,
           ConventionPath(path)
    PROVE  \E args \in DOMAIN Generated : Within(Generated[args], p) /\
              \E row \in SubmitRows(args.capabilities), net \in args.networks :
                 /\ row \in AllSubmit
                 /\ path = Name(row.path, net)
                 /\ p.permissions[path] = PermissionBlock(args, row, net)
BY PermissionFrom DEF EditsElsewhere

\* An fsp_permissions block at a path of the convention is that of a sign row.
LEMMA ConventionFsp ==
    ASSUME EditsElsewhere, NEW p, FromPieces(p), NEW path \in DOMAIN p.fsp_permissions,
           ConventionPath(path)
    PROVE  \E args \in DOMAIN Generated : Within(Generated[args], p) /\
              \E row \in SignRows(args.capabilities), net \in args.networks :
                 /\ row \in AllSign
                 /\ path = Name(row.path, net)
                 /\ p.fsp_permissions[path] = FspBlock(row, net)
BY FspFrom DEF EditsElsewhere

\* The paths of the convention have no native_transfers block, those of submit
\* rows no fsp_permissions block, those of sign rows no permissions block.
LEMMA ConventionKinds ==
    ASSUME EditsElsewhere, NEW p, FromPieces(p), NEW net
    PROVE  /\ \A path \in DOMAIN p.native_transfers : ~ConventionPath(path)
           /\ \A row \in AllSubmit : Name(row.path, net) \notin DOMAIN p.fsp_permissions
           /\ \A row \in AllSign : Name(row.path, net) \notin DOMAIN p.permissions
<1>1. \A path \in DOMAIN p.native_transfers : ~ConventionPath(path)
  BY NativeFrom DEF EditsElsewhere
<1>2. ASSUME NEW row \in AllSubmit, Name(row.path, net) \in DOMAIN p.fsp_permissions
      PROVE  FALSE
  <2>1. PICK r, m : r \in AllSign /\ Name(row.path, net) = Name(r.path, m)
    BY <1>2, RowNames, ConventionFsp
  <2>2. row.path = r.path
    BY <2>1, RowNames
  <2> QED
    BY <2>1, <2>2, PathKinds
<1>3. ASSUME NEW row \in AllSign, Name(row.path, net) \in DOMAIN p.permissions
      PROVE  FALSE
  <2>1. PICK r, m : r \in AllSubmit /\ Name(row.path, net) = Name(r.path, m)
    BY <1>3, RowNames, ConventionPermission
  <2>2. row.path = r.path
    BY <2>1, RowNames
  <2> QED
    BY <2>1, <2>2, PathKinds
<1> QED
  BY <1>1, <1>2, <1>3

-----------------------------------------------------------------------------
(***************************************************************************)
(* What the callers of the convention have signed.                         *)
(***************************************************************************)

\* What a policy lets a caller of the convention have signed.
LEMMA ConventionRights ==
    ASSUME EditsElsewhere, NEW p, FromPieces(p), NEW c, Conventional(c.name),
           NEW ask \in Asks, evaluate(p, c, ask)
    PROVE  /\ ask.chain = c.name[2]
           /\ ask.kind \in {"call", "fsp"}
           /\ ask.kind = "call" =>
                 /\ ask.value_wei = 0
                 /\ ask.method = "claim" =>
                       \E args \in InitArgs : args.recipient \in {Unpinned, ask.arg}
           /\ ask.kind = "fsp" =>
                 p.fsp_permissions[c.policy_path].message_types = {ask.message_type}
<1>1. Bound(p, c)
  BY DEF evaluate, evaluate_fsp, evaluate_inner
<1>2. PICK row, net :
         /\ row \in AllSubmit \cup AllSign
         /\ c.name = Name(row.caller, net) /\ c.policy_path = Name(row.path, net)
  BY <1>1, ConventionBinding DEF Bound
<1>3. c.name[2] = net /\ ConventionPath(c.policy_path) /\ c.policy_path[2] = net
  BY <1>2, RowNames
<1>4. c.policy_path \notin DOMAIN p.native_transfers
  BY <1>3, ConventionKinds
<1>5. CASE ask.kind = "fsp"
  <2>1. evaluate_fsp(p, c, ask)
    BY <1>5 DEF evaluate
  <2>2. c.policy_path \in DOMAIN p.fsp_permissions
    BY <2>1 DEF evaluate_fsp
  <2>3. PICK r, m :
           /\ r \in AllSign
           /\ c.policy_path = Name(r.path, m)
           /\ p.fsp_permissions[c.policy_path] = FspBlock(r, m)
    BY <1>3, <2>2, ConventionFsp
  <2>4. m = net
    BY <1>3, <2>3, RowNames
  <2>5. /\ p.fsp_permissions[c.policy_path].message_types = {r.message_type}
        /\ p.fsp_permissions[c.policy_path].chain_ids = {net}
    BY <2>3, <2>4, FspBlockIs
  <2>6. ask.chain = net /\ ask.message_type = r.message_type
    BY <2>1, <2>5 DEF evaluate_fsp
  <2> QED
    BY <1>3, <1>5, <2>5, <2>6
<1>6. CASE ask.kind # "fsp"
  <2>1. evaluate_inner(p, c, ask)
    BY <1>6 DEF evaluate
  <2>2. /\ ask.kind = "call" /\ c.policy_path \in DOMAIN p.permissions
        /\ evaluate_call(p, p.permissions[c.policy_path], ask)
    BY <1>4, <2>1 DEF evaluate_inner
  <2>3. PICK args, r, m :
           /\ args \in DOMAIN Generated /\ r \in AllSubmit
           /\ c.policy_path = Name(r.path, m)
           /\ p.permissions[c.policy_path] = PermissionBlock(args, r, m)
    BY <1>3, <2>2, ConventionPermission
  <2>4. m = net
    BY <1>3, <2>3, RowNames
  <2>5. PICK b : b = PermissionBlock(args, r, net)
    OBVIOUS
  <2>6. evaluate_call(p, b, ask)
    BY <2>2, <2>3, <2>4, <2>5
  <2>7. /\ ask.to \in DOMAIN b.contracts
        /\ ask.chain \in b.contracts[ask.to].chains
        /\ ask.method \in DOMAIN b.contracts[ask.to].methods
        /\ ask.value_wei <= b.contracts[ask.to].methods[ask.method].max_value_wei
        /\ b.contracts[ask.to].methods[ask.method].arg_predicate \in {Unpinned, ask.arg}
    BY <2>6 DEF evaluate_call
  <2>8. /\ ask.chain = net
        /\ ask.method \in r.methods
        /\ ask.value_wei <= 0
        /\ r.pinned = "recipient" => args.recipient \in {Unpinned, ask.arg}
    BY <2>5, <2>7, PermissionBlockIs
  <2>9. ask.value_wei = 0
    BY <1>6, <2>8, AccessAssumption
  <2>10. ask.method = "claim" => \E a \in InitArgs : a.recipient \in {Unpinned, ask.arg}
    BY <2>3, <2>8, SubmitMethods, GeneratedIs
  <2> QED
    BY <1>3, <1>6, <2>2, <2>8, <2>9, <2>10
<1> QED
  BY <1>5, <1>6

\* When edits leave the callers and the blocks of the convention alone, a
\* caller of the convention gets nothing signed on another network, nothing
\* that moves value, no claim to a recipient that no init named, and one kind
\* of FSP message, for any options, merges, edits and requests.
THEOREM ConventionLeastPrivilege ==
    ASSUME EditsElsewhere
    PROVE  Spec => []LeastPrivilege
<1>1. PolicyInv => LeastPrivilege
  <2> SUFFICES ASSUME PolicyInv, NEW s \in Sessions, requests[s] # Idle,
                      requests[s].signed # NoAsk, Conventional(requests[s].name)
               PROVE  LET r == requests[s]
                      IN  /\ r.signed.chain = r.name[2]
                          /\ r.signed.kind # "transfer"
                          /\ r.signed.kind = "call" =>
                                /\ r.signed.value_wei = 0
                                /\ r.signed.method = "claim" =>
                                      \E args \in InitArgs : args.recipient \in {Unpinned, r.signed.arg}
                          /\ r.signed.kind = "fsp" =>
                                \A ask \in Asks : ask.kind = "fsp" /\ evaluate(policy, r, ask)
                                                  => ask.message_type = r.signed.message_type
    BY DEF LeastPrivilege
  <2>1. /\ FromPieces(policy) /\ requests[s].signed \in Asks
        /\ evaluate(policy, requests[s], requests[s].signed)
    BY DEF PolicyInv, Decided
  <2>2. ASSUME requests[s].signed.kind = "fsp", NEW ask \in Asks, ask.kind = "fsp",
               evaluate(policy, requests[s], ask)
        PROVE  ask.message_type = requests[s].signed.message_type
    <3>1. {ask.message_type} = {requests[s].signed.message_type}
      BY <2>1, <2>2, ConventionRights
    <3> QED
      BY <3>1
  <2> QED
    BY <2>1, <2>2, ConventionRights
<1> QED
  BY <1>1, PolicyInvariance, PTL

-----------------------------------------------------------------------------
(***************************************************************************)
(* Grants.                                                                 *)
(***************************************************************************)

\* A block of a row comes with the caller of the row.
LEMMA RowBound ==
    ASSUME NEW p, NEW args \in DOMAIN Generated, Within(Generated[args], p),
           NEW row \in BothRows(args.capabilities), NEW net \in args.networks
    PROVE  Name(row.caller, net) \in DOMAIN p.callers
<1>1. Generated[args] = generate_policy(args)
  BY GeneratedIs
<1>2. Name(row.caller, net) \in DOMAIN Generated[args].callers
  BY <1>1, GeneratedCallers
<1> QED
  BY <1>2 DEF Within

\* A path of the convention that a policy has is the path that it binds the
\* caller of the role to.
LEMMA GrantBound ==
    ASSUME EditsElsewhere, NEW p, FromPieces(p), NEW spec, NEW role \in DOMAIN ROLE_CONVENTION,
           policy_path_exists(p, PathOf(spec, role))
    PROVE  /\ CallerOf(spec, role) \in DOMAIN p.callers
           /\ p.callers[CallerOf(spec, role)].policy_path = PathOf(spec, role)
<1>1. /\ PathOf(spec, role)[1] = ROLE_CONVENTION[role][2] /\ PathOf(spec, role)[2] = spec.network
      /\ CallerOf(spec, role)[1] = ROLE_CONVENTION[role][1] /\ CallerOf(spec, role)[2] = spec.network
  BY DEF PathOf, CallerOf, Name
<1>2. ConventionPath(PathOf(spec, role)) /\ Conventional(CallerOf(spec, role))
  BY <1>1 DEF ConventionPath, Conventional
<1>3. PICK args, row, net :
         /\ args \in DOMAIN Generated /\ row \in AllSubmit \cup AllSign
         /\ Within(Generated[args], p)
         /\ row \in BothRows(args.capabilities) /\ net \in args.networks
         /\ PathOf(spec, role) = Name(row.path, net)
  <2>1. CASE PathOf(spec, role) \in DOMAIN p.permissions
    BY <1>2, <2>1, ConventionPermission DEF BothRows
  <2>2. CASE PathOf(spec, role) \in DOMAIN p.fsp_permissions
    BY <1>2, <2>2, ConventionFsp DEF BothRows
  <2> QED
    BY <1>2, <2>1, <2>2, ConventionKinds DEF policy_path_exists
<1>4. row.path = ROLE_CONVENTION[role][2] /\ net = spec.network
  BY <1>1, <1>3, RowNames
<1>5. row.caller = ROLE_CONVENTION[role][1]
  BY <1>3, <1>4, RowsAgree
<1>6. CallerOf(spec, role) \in DOMAIN p.callers
  <2>1. CallerOf(spec, role) = Name(row.caller, net)
    BY <1>4, <1>5 DEF CallerOf
  <2> QED
    BY <1>3, <2>1, RowBound
<1>7. PICK r, m :
         /\ r \in AllSubmit \cup AllSign
         /\ CallerOf(spec, role) = Name(r.caller, m)
         /\ p.callers[CallerOf(spec, role)].policy_path = Name(r.path, m)
  BY <1>2, <1>6, ConventionBinding
<1>8. r.caller = ROLE_CONVENTION[role][1] /\ m = spec.network
  BY <1>1, <1>7, RowNames
<1>9. r.path = ROLE_CONVENTION[role][2]
  BY <1>7, <1>8, RowsAgree
<1> QED
  BY <1>6, <1>7, <1>8, <1>9 DEF PathOf

\* A mint that the policy binds leaves the policy consistent with the callers.
LEMMA MintBootable ==
    ASSUME NEW name, NEW path, create_caller(name, path), policy # NoPolicy,
           CallersBound(policy, ActiveCallers),
           name \in DOMAIN policy.callers, policy.callers[name].policy_path = path,
           policy_path_exists(policy, path)
    PROVE  CallersBound(policy, ActiveCallers')
<1>1. /\ DOMAIN callers' = DOMAIN callers \cup {name}
      /\ callers'[name].policy_path = path
      /\ \A n \in DOMAIN callers \ {name} : callers'[n] = callers[n]
  BY DEF create_caller, repo_create, Put
<1>2. SUFFICES ASSUME NEW c \in ActiveCallers'
               PROVE  Bound(policy, c) /\ policy_path_exists(policy, policy.callers[c.name].policy_path)
  BY DEF CallersBound
<1>3. PICK n \in DOMAIN callers' :
         Active(n)' /\ c = [name |-> n, policy_path |-> callers'[n].policy_path]
  BY DEF ActiveCallers
<1>4. c.name = n /\ c.policy_path = callers'[n].policy_path
  BY <1>3
<1>5. CASE n = name
  BY <1>1, <1>4, <1>5 DEF Bound
<1>6. CASE n # name
  <2>1. n \in DOMAIN callers /\ callers'[n] = callers[n]
    BY <1>1, <1>3, <1>6
  <2>2. Active(n)
    BY <1>3, <2>1 DEF Active
  <2>3. c \in ActiveCallers
    BY <1>3, <2>1, <2>2 DEF ActiveCallers
  <2> QED
    BY <2>3 DEF CallersBound
<1> QED
  BY <1>5, <1>6

\* A step of a grant leaves the policy consistent with the callers.
LEMMA GrantBootable ==
    ASSUME EditsElsewhere, PolicyInv, policy # NoPolicy, CallersBound(policy, ActiveCallers),
           GrantMint \/ GrantSkip \/ GrantUnreachable \/ GrantEnd
    PROVE  CallersBound(policy, ActiveCallers')
<1>1. CASE UNCHANGED callers
  <2>1. ActiveCallers' = ActiveCallers
    BY <1>1 DEF ActiveCallers, Active
  <2> QED
    BY <2>1
<1>2. ASSUME Derived, GrantAccepted, GrantCreates
      PROVE  CallersBound(policy, ActiveCallers')
  <2>1. PICK role : role = Head(grant.todo)
    OBVIOUS
  <2>2. /\ role \in DOMAIN ROLE_CONVENTION
        /\ policy_path_exists(policy, PathOf(grant.spec, role))
        /\ create_caller(CallerOf(grant.spec, role), PathOf(grant.spec, role))
    BY <1>2, <2>1 DEF Derived, GrantAccepted, GrantCreates, CallerAccepted
  <2> QED
    BY <2>2, GrantBound, MintBootable DEF PolicyInv
<1> QED
  BY <1>1, <1>2 DEF GrantMint, GrantSkip, GrantUnreachable, GrantEnd

\* When edits leave the convention alone, a capability grant never mints a
\* caller that would keep the daemon from starting again on its policy.
THEOREM GrantsKeepBootable ==
    ASSUME EditsElsewhere
    PROVE  Spec => GrantKeepsBootable
<1>1. PolicyInv /\ [Next]_vars =>
        [ grant # NoGrant /\ grant' # grant /\ policy # NoPolicy /\ Bootable(policy)
          => Bootable(policy)' ]_vars
  <2> SUFFICES ASSUME PolicyInv, [Next]_vars, grant # NoGrant, grant' # grant,
                      policy # NoPolicy, Bootable(policy)
               PROVE  Bootable(policy)'
    OBVIOUS
  <2>1. GrantMint \/ GrantSkip \/ GrantUnreachable \/ GrantEnd
    BY DEF Next, vars, InitPolicy, EditPolicy, AddWallet, Start, StartWithoutPolicy, Stop,
           PostCallers, DeleteCaller, Authenticate, SignAsk, Answer, GrantStart
  <2>2. policy' = policy /\ wallets' = wallets
    BY <2>1 DEF GrantMint, GrantSkip, GrantUnreachable, GrantEnd
  <2>3. CallersBound(policy, ActiveCallers')
    BY <2>1, GrantBootable DEF Bootable, check_consistency
  <2> QED
    BY <2>2, <2>3 DEF Bootable, check_consistency
<1> QED
  BY <1>1, PolicyInvariance, PTL DEF Spec, GrantKeepsBootable

-----------------------------------------------------------------------------
(***************************************************************************)
(* Merges of a generated policy.                                           *)
(***************************************************************************)

\* A merge leaves the path that a caller is bound to.
LEMMA MergeBinding ==
    ASSUME EditsElsewhere, NEW p, FromPieces(p), NEW args \in DOMAIN Generated, NEW q,
           MergedFrom(q, p, Generated[args]), NEW n \in DOMAIN p.callers
    PROVE  n \in DOMAIN q.callers /\ q.callers[n].policy_path = p.callers[n].policy_path
<1>1. n \in DOMAIN q.callers
  BY DEF MergedFrom, Over
<1>2. CASE n \notin DOMAIN Generated[args].callers
  BY <1>2 DEF MergedFrom, Over
<1>3. CASE n \in DOMAIN Generated[args].callers
  <2>1. PICK row, net :
           /\ row \in AllSubmit \cup AllSign
           /\ n = Name(row.caller, net) /\ q.callers[n] = Binding(Name(row.path, net))
    BY <1>3, GeneratedBinding DEF MergedFrom, Over
  <2>2. PICK r, m :
           /\ r \in AllSubmit \cup AllSign
           /\ n = Name(r.caller, m) /\ p.callers[n].policy_path = Name(r.path, m)
    BY <2>1, RowNames, ConventionBinding
  <2>3. row.caller = r.caller /\ net = m
    BY <2>1, <2>2 DEF Name
  <2>4. row.path = r.path
    BY <2>1, <2>2, <2>3, RowsAgree, RowsConventional
  <2>5. q.callers[n].policy_path = Name(row.path, net)
    BY <2>1 DEF Binding
  <2> QED
    BY <1>1, <2>2, <2>3, <2>4, <2>5
<1> QED
  BY <1>1, <1>2, <1>3

\* What a submit row lets its caller have signed.
LEMMA RowCall ==
    ASSUME NEW p, NEW args, NEW row, NEW net, NEW ask,
           evaluate_call(p, PermissionBlock(args, row, net), ask)
    PROVE  /\ ask.chain = net
           /\ ask.method \in row.methods
           /\ \E stem \in row.wallets : ask.wallet = WalletName(args, stem, net)
<1>1. PICK b : b = PermissionBlock(args, row, net)
  OBVIOUS
<1>2. /\ ask.to \in DOMAIN b.contracts
      /\ ask.chain \in b.contracts[ask.to].chains
      /\ ask.method \in DOMAIN b.contracts[ask.to].methods
      /\ ask.wallet \in b.wallet_allowlist
  BY <1>1 DEF evaluate_call
<1> QED
  BY <1>1, <1>2, PermissionBlockIs

\* What a sign row lets its caller have signed.
LEMMA RowMessage ==
    ASSUME NEW p, NEW c, NEW row, NEW net, NEW ask, evaluate_fsp(p, c, ask),
           p.fsp_permissions[c.policy_path] = FspBlock(row, net)
    PROVE  /\ ask.chain = net
           /\ ask.message_type = row.message_type
           /\ ask.wallet = Name("fsp-signing", net)
<1>1. PICK b : b = FspBlock(row, net)
  OBVIOUS
<1>2. /\ b.chain_ids # {} => ask.chain \in b.chain_ids
      /\ ask.message_type \in b.message_types
      /\ ask.wallet \in b.wallet_allowlist
  BY <1>1 DEF evaluate_fsp
<1> QED
  BY <1>1, <1>2, FspBlockIs

\* A wallet that a merge declares is on one of the merged networks, or shared.
LEMMA MergeWallets ==
    ASSUME NEW p, NEW args \in DOMAIN Generated, NEW q, MergedFrom(q, p, Generated[args])
    PROVE  /\ DOMAIN p.wallets \subseteq DOMAIN q.wallets
           /\ \A w \in DOMAIN q.wallets \ DOMAIN p.wallets : w[2] \in args.networks \cup {"shared"}
<1>1. DOMAIN q.wallets = DOMAIN p.wallets \cup DOMAIN Generated[args].wallets
  BY DEF MergedFrom, Over
<1>2. \A w \in DOMAIN Generated[args].wallets : w[2] \in args.networks \cup {"shared"}
  BY GeneratedIs, GeneratedWallets
<1> QED
  BY <1>1, <1>2

\* A permissions block that a merge leaves decides as before on other
\* networks, although the merge declares wallets.
LEMMA SameCall ==
    ASSUME EditsAtHome, NEW p, FromPieces(p), NEW args \in DOMAIN Generated,
           NEW q, MergedFrom(q, p, Generated[args]),
           NEW path \in DOMAIN p.permissions, NEW ask, ask.chain \notin args.networks
    PROVE  evaluate_call(q, p.permissions[path], ask) <=> evaluate_call(p, p.permissions[path], ask)
<1>1. evaluate_call(p, p.permissions[path], ask) => evaluate_call(q, p.permissions[path], ask)
  BY MergeWallets DEF evaluate_call
<1>2. ASSUME evaluate_call(q, p.permissions[path], ask), ask.wallet \notin DOMAIN p.wallets
      PROVE  FALSE
  <2>1. ask.wallet \in DOMAIN q.wallets /\ ask.wallet[2] \in args.networks \cup {"shared"}
    BY <1>2, MergeWallets DEF evaluate_call
  <2>2. ASSUME NEW a \in DOMAIN Generated, Within(Generated[a], p),
               NEW row \in SubmitRows(a.capabilities), NEW net \in a.networks,
               p.permissions[path] = PermissionBlock(a, row, net)
        PROVE  FALSE
    <3>1. PICK stem \in row.wallets : ask.wallet = WalletName(a, stem, net)
      BY <1>2, <2>2, RowCall
    <3>2. ask.wallet \in DOMAIN Generated[a].wallets
      BY <3>1, GeneratedIs, GeneratedWallets
    <3> QED
      BY <1>2, <2>2, <3>2 DEF Within
  <2>3. ASSUME NEW e \in Edits, Within(e, p), path \in DOMAIN e.permissions,
               p.permissions[path] = e.permissions[path]
        PROVE  FALSE
    <3>1. PICK block : block = e.permissions[path]
      OBVIOUS
    <3>2. /\ ask.to \in DOMAIN block.contracts
          /\ ask.chain \in block.contracts[ask.to].chains
          /\ ask.wallet \in block.wallet_allowlist
      BY <1>2, <2>3, <3>1 DEF evaluate_call
    <3>3. ask.wallet \notin DOMAIN e.wallets
      BY <1>2, <2>3 DEF Within
    <3>4. block.contracts[ask.to].chains \subseteq {ask.wallet[2]} \cap DOMAIN NetworkTable
      BY <2>3, <3>1, <3>2, <3>3 DEF EditsAtHome
    <3>5. "shared" \notin DOMAIN NetworkTable
      BY DEF NetworkTable
    <3> QED
      BY <2>1, <3>2, <3>4, <3>5
  <2> QED
    BY <2>2, <2>3, PermissionFrom
<1>3. evaluate_call(q, p.permissions[path], ask) /\ ask.wallet \in DOMAIN p.wallets
         => evaluate_call(p, p.permissions[path], ask)
  BY DEF evaluate_call
<1> QED
  BY <1>1, <1>2, <1>3

\* The same of a native_transfers block.
LEMMA SameTransfer ==
    ASSUME EditsAtHome, NEW p, FromPieces(p), NEW args \in DOMAIN Generated,
           NEW q, MergedFrom(q, p, Generated[args]),
           NEW path \in DOMAIN p.native_transfers, NEW ask, ask.chain \notin args.networks
    PROVE  evaluate_native_transfer(q, p.native_transfers[path], ask)
              <=> evaluate_native_transfer(p, p.native_transfers[path], ask)
<1>1. PICK e \in Edits : /\ Within(e, p) /\ path \in DOMAIN e.native_transfers
                         /\ p.native_transfers[path] = e.native_transfers[path]
  BY NativeFrom
<1>2. PICK block : block = e.native_transfers[path]
  OBVIOUS
<1>3. ASSUME evaluate_native_transfer(q, block, ask), ask.wallet \notin DOMAIN p.wallets
      PROVE  FALSE
  <2>1. ask.wallet[2] \in args.networks \cup {"shared"}
    BY <1>3, MergeWallets DEF evaluate_native_transfer
  <2>2. ask.chain \in block.chains /\ ask.wallet \in block.wallet_allowlist
    BY <1>3 DEF evaluate_native_transfer
  <2>3. ask.wallet \notin DOMAIN e.wallets
    BY <1>1, <1>3 DEF Within
  <2>4. block.chains \subseteq {ask.wallet[2]} \cap DOMAIN NetworkTable
    BY <1>1, <1>2, <2>2, <2>3 DEF EditsAtHome
  <2>5. "shared" \notin DOMAIN NetworkTable
    BY DEF NetworkTable
  <2> QED
    BY <2>1, <2>2, <2>4, <2>5
<1>4. evaluate_native_transfer(p, block, ask) => evaluate_native_transfer(q, block, ask)
  BY MergeWallets DEF evaluate_native_transfer
<1>5. evaluate_native_transfer(q, block, ask) /\ ask.wallet \in DOMAIN p.wallets
         => evaluate_native_transfer(p, block, ask)
  BY DEF evaluate_native_transfer
<1> QED
  BY <1>1, <1>2, <1>3, <1>4, <1>5

\* A block that a merge sets authorised, and authorises, only on one of the
\* merged networks.
LEMMA MergedPermission ==
    ASSUME EditsElsewhere, NEW p, FromPieces(p), NEW args \in DOMAIN Generated,
           NEW q, MergedFrom(q, p, Generated[args]),
           NEW path \in DOMAIN Generated[args].permissions
    PROVE  /\ \E row \in AllSubmit : \E net : path = Name(row.path, net)
           /\ \A ask : evaluate_call(q, q.permissions[path], ask) => ask.chain \in args.networks
           /\ path \in DOMAIN p.permissions =>
                 \A ask : evaluate_call(p, p.permissions[path], ask) => ask.chain \in args.networks
<1>1. Generated[args] = generate_policy(args) /\ InitArgsValid(args)
  BY GeneratedIs
<1>2. PICK row \in SubmitRows(args.capabilities), net \in args.networks :
         /\ path = Name(row.path, net)
         /\ Generated[args].permissions[path] = PermissionBlock(args, row, net)
  BY <1>1, GeneratedPermissions
<1>3. row \in AllSubmit
  BY <1>1, RowsOfCapability
<1>4. q.permissions[path] = PermissionBlock(args, row, net)
  BY <1>2 DEF MergedFrom, Over
<1>5. ASSUME path \in DOMAIN p.permissions, NEW ask, evaluate_call(p, p.permissions[path], ask)
      PROVE  ask.chain \in args.networks
  <2>1. ConventionPath(path)
    BY <1>2, <1>3, RowNames
  <2>2. PICK a, r, m :
           /\ a \in DOMAIN Generated /\ r \in AllSubmit
           /\ path = Name(r.path, m) /\ p.permissions[path] = PermissionBlock(a, r, m)
    BY <1>5, <2>1, ConventionPermission
  <2>3. m = net
    BY <1>2, <2>2 DEF Name
  <2> QED
    BY <1>5, <2>2, <2>3, RowCall
<1> QED
  BY <1>2, <1>3, <1>4, <1>5, RowCall

\* The same of FSP messages.
LEMMA MergedFsp ==
    ASSUME EditsElsewhere, NEW p, FromPieces(p), NEW args \in DOMAIN Generated,
           NEW q, MergedFrom(q, p, Generated[args]), NEW c,
           c.policy_path \in DOMAIN Generated[args].fsp_permissions, NEW ask
    PROVE  evaluate_fsp(q, c, ask) \/ evaluate_fsp(p, c, ask) => ask.chain \in args.networks
<1>1. Generated[args] = generate_policy(args) /\ InitArgsValid(args)
  BY GeneratedIs
<1>2. PICK row \in SignRows(args.capabilities), net \in args.networks :
         /\ c.policy_path = Name(row.path, net)
         /\ Generated[args].fsp_permissions[c.policy_path] = FspBlock(row, net)
  BY <1>1, GeneratedFsp
<1>3. row \in AllSign
  BY <1>1, RowsOfCapability
<1>4. q.fsp_permissions[c.policy_path] = FspBlock(row, net)
  BY <1>2 DEF MergedFrom, Over
<1>5. ASSUME evaluate_fsp(p, c, ask)
      PROVE  ask.chain \in args.networks
  <2>1. ConventionPath(c.policy_path)
    BY <1>2, <1>3, RowNames
  <2>2. c.policy_path \in DOMAIN p.fsp_permissions
    BY <1>5 DEF evaluate_fsp
  <2>3. PICK r, m :
           /\ r \in AllSign
           /\ c.policy_path = Name(r.path, m) /\ p.fsp_permissions[c.policy_path] = FspBlock(r, m)
    BY <2>1, <2>2, ConventionFsp
  <2>4. m = net
    BY <1>2, <2>3 DEF Name
  <2> QED
    BY <1>5, <2>3, <2>4, RowMessage
<1> QED
  BY <1>2, <1>4, <1>5, RowMessage

\* A merge leaves what a caller of the file gets signed on other networks.
LEMMA MergeRights ==
    ASSUME EditsElsewhere, EditsAtHome, NEW p, FromPieces(p), NEW args \in DOMAIN Generated,
           NEW q, q = merge_policies(p, Generated[args]),
           NEW n \in DOMAIN p.callers, NEW ask, ask.chain \notin args.networks
    PROVE  Authorised(q, n, ask) <=> Authorised(p, n, ask)
<1> DEFINE g == Generated[args]
<1>1. MergedFrom(q, p, g) /\ q.native_transfers = p.native_transfers
  BY GeneratedIs, MergeIs
<1>2. n \in DOMAIN q.callers /\ q.callers[n].policy_path = p.callers[n].policy_path
  BY <1>1, MergeBinding
<1>3. PICK path : path = p.callers[n].policy_path
  OBVIOUS
<1>4. PICK c : c = [name |-> n, policy_path |-> path]
  OBVIOUS
<1>5. c.name = n /\ c.policy_path = path
  BY <1>4
<1>6. (Authorised(q, n, ask) <=> evaluate(q, c, ask)) /\ (Authorised(p, n, ask) <=> evaluate(p, c, ask))
  BY <1>2, <1>3, <1>4 DEF Authorised
<1>7. Bound(q, c) /\ Bound(p, c)
  BY <1>2, <1>3, <1>5 DEF Bound
<1>8. path \in DOMAIN q.permissions /\ evaluate_call(q, q.permissions[path], ask)
         <=> path \in DOMAIN p.permissions /\ evaluate_call(p, p.permissions[path], ask)
  <2>1. CASE path \in DOMAIN g.permissions
    BY <1>1, <2>1, MergedPermission
  <2>2. CASE path \notin DOMAIN g.permissions
    <3>1. /\ path \in DOMAIN q.permissions <=> path \in DOMAIN p.permissions
          /\ path \in DOMAIN p.permissions => q.permissions[path] = p.permissions[path]
      BY <1>1, <2>2 DEF MergedFrom, Over
    <3> QED
      BY <1>1, <3>1, SameCall
  <2> QED
    BY <2>1, <2>2
<1>9. path \in DOMAIN p.native_transfers =>
         (evaluate_native_transfer(q, q.native_transfers[path], ask)
             <=> evaluate_native_transfer(p, p.native_transfers[path], ask))
  BY <1>1, SameTransfer
<1>10. evaluate_inner(q, c, ask) <=> evaluate_inner(p, c, ask)
  BY <1>1, <1>5, <1>7, <1>8, <1>9 DEF evaluate_inner
<1>11. evaluate_fsp(q, c, ask) <=> evaluate_fsp(p, c, ask)
  <2>1. CASE path \in DOMAIN g.fsp_permissions
    BY <1>1, <1>5, <2>1, MergedFsp
  <2>2. CASE path \in DOMAIN g.permissions
    <3>1. path \in DOMAIN q.permissions
      BY <1>1, <2>2 DEF MergedFrom, Over
    <3>2. path \notin DOMAIN p.fsp_permissions
      BY <1>1, <2>2, MergedPermission, ConventionKinds
    <3> QED
      BY <1>5, <3>1, <3>2 DEF evaluate_fsp
  <2>3. CASE path \notin DOMAIN g.fsp_permissions /\ path \notin DOMAIN g.permissions
    <3>1. /\ path \in DOMAIN q.permissions <=> path \in DOMAIN p.permissions
          /\ path \in DOMAIN q.fsp_permissions <=> path \in DOMAIN p.fsp_permissions
          /\ path \in DOMAIN p.fsp_permissions => q.fsp_permissions[path] = p.fsp_permissions[path]
      BY <1>1, <2>3 DEF MergedFrom, Over
    <3> QED
      BY <1>5, <1>7, <3>1 DEF evaluate_fsp
  <2> QED
    BY <2>1, <2>2, <2>3
<1> QED
  BY <1>6, <1>10, <1>11 DEF evaluate

\* When edits leave the convention alone and use wallets that they do not
\* declare only on the wallets' own networks, merging networks into the file
\* changes nothing of what its callers get signed on other networks.
THEOREM MergesAreAdditive ==
    ASSUME EditsElsewhere, EditsAtHome
    PROVE  Spec => []MergeIsAdditive
<1>1. PolicyInv => MergeIsAdditive
  <2> SUFFICES ASSUME PolicyInv, policy_file # NoPolicy, NEW args \in DOMAIN Generated
               PROVE  LET merged == InitOutput(args, TRUE)
                          elsewhere == {ask \in Asks : ask.chain \notin args.networks}
                          Rights(p) == {r \in (DOMAIN policy_file.callers) \X elsewhere :
                                           Authorised(p, r[1], r[2])}
                      IN  /\ DOMAIN policy_file.callers \subseteq DOMAIN merged.callers
                          /\ Rights(merged) = Rights(policy_file)
    BY DEF MergeIsAdditive
  <2>1. FromPieces(policy_file)
    BY DEF PolicyInv
  <2>2. PICK merged : merged = InitOutput(args, TRUE)
    OBVIOUS
  <2>3. merged = merge_policies(policy_file, Generated[args])
    BY <2>2 DEF InitOutput
  <2>4. \A n \in DOMAIN policy_file.callers : n \in DOMAIN merged.callers
    BY <2>1, <2>3, GeneratedIs, MergeIs, MergeBinding
  <2>5. \A n \in DOMAIN policy_file.callers, ask \in Asks : ask.chain \notin args.networks =>
           (Authorised(merged, n, ask) <=> Authorised(policy_file, n, ask))
    BY <2>1, <2>3, MergeRights
  <2> QED
    BY <2>2, <2>4, <2>5
<1> QED
  BY <1>1, PolicyInvariance, PTL

-----------------------------------------------------------------------------
(***************************************************************************)
(* The checks at startup, after a merge.                                   *)
(***************************************************************************)

\* A permissions block of a merge is a row's, or the block that was there.
LEMMA PermissionAfter ==
    ASSUME NEW p, NEW args \in DOMAIN Generated, NEW q, MergedFrom(q, p, Generated[args]),
           NEW path \in DOMAIN q.permissions
    PROVE  \/ \E row \in SubmitRows(args.capabilities), net \in args.networks :
                 /\ row \in AllSubmit /\ path = Name(row.path, net)
                 /\ q.permissions[path] = PermissionBlock(args, row, net)
           \/ path \in DOMAIN p.permissions /\ q.permissions[path] = p.permissions[path]
<1>1. Generated[args] = generate_policy(args) /\ InitArgsValid(args)
  BY GeneratedIs
<1>2. ASSUME path \in DOMAIN Generated[args].permissions
      PROVE  \E row \in SubmitRows(args.capabilities), net \in args.networks :
                /\ row \in AllSubmit /\ path = Name(row.path, net)
                /\ q.permissions[path] = PermissionBlock(args, row, net)
  <2>1. PICK row \in SubmitRows(args.capabilities), net \in args.networks :
           /\ path = Name(row.path, net)
           /\ Generated[args].permissions[path] = PermissionBlock(args, row, net)
    BY <1>1, <1>2, GeneratedPermissions
  <2>2. q.permissions[path] = PermissionBlock(args, row, net)
    BY <1>2, <2>1 DEF MergedFrom, Over
  <2> QED
    BY <1>1, <2>1, <2>2, RowsOfCapability
<1>3. ASSUME path \notin DOMAIN Generated[args].permissions
      PROVE  path \in DOMAIN p.permissions /\ q.permissions[path] = p.permissions[path]
  BY <1>3 DEF MergedFrom, Over
<1> QED
  BY <1>2, <1>3

\* The same of an fsp_permissions block.
LEMMA FspAfter ==
    ASSUME NEW p, NEW args \in DOMAIN Generated, NEW q, MergedFrom(q, p, Generated[args]),
           NEW path \in DOMAIN q.fsp_permissions
    PROVE  \/ \E row \in SignRows(args.capabilities), net \in args.networks :
                 /\ row \in AllSign /\ path = Name(row.path, net)
                 /\ q.fsp_permissions[path] = FspBlock(row, net)
           \/ path \in DOMAIN p.fsp_permissions /\ q.fsp_permissions[path] = p.fsp_permissions[path]
<1>1. Generated[args] = generate_policy(args) /\ InitArgsValid(args)
  BY GeneratedIs
<1>2. ASSUME path \in DOMAIN Generated[args].fsp_permissions
      PROVE  \E row \in SignRows(args.capabilities), net \in args.networks :
                /\ row \in AllSign /\ path = Name(row.path, net)
                /\ q.fsp_permissions[path] = FspBlock(row, net)
  <2>1. PICK row \in SignRows(args.capabilities), net \in args.networks :
           /\ path = Name(row.path, net)
           /\ Generated[args].fsp_permissions[path] = FspBlock(row, net)
    BY <1>1, <1>2, GeneratedFsp
  <2>2. q.fsp_permissions[path] = FspBlock(row, net)
    BY <1>2, <2>1 DEF MergedFrom, Over
  <2> QED
    BY <1>1, <2>1, <2>2, RowsOfCapability
<1>3. ASSUME path \notin DOMAIN Generated[args].fsp_permissions
      PROVE  path \in DOMAIN p.fsp_permissions /\ q.fsp_permissions[path] = p.fsp_permissions[path]
  BY <1>3 DEF MergedFrom, Over
<1> QED
  BY <1>2, <1>3

\* Checks 1 to 1d: the callers stay bound, and a merge sets no capability id.
LEMMA MergeCallers ==
    ASSUME EditsElsewhere, NEW p, FromPieces(p), NEW args \in DOMAIN Generated, NEW q,
           MergedFrom(q, p, Generated[args])
    PROVE  /\ \A cs : CallersBound(p, cs) => CallersBound(q, cs)
           /\ CapabilityIdsUnique(p) => CapabilityIdsUnique(q)
<1>1. \A path : policy_path_exists(p, path) => policy_path_exists(q, path)
  BY DEF policy_path_exists, MergedFrom, Over
<1>2. ASSUME NEW cs, CallersBound(p, cs)
      PROVE  CallersBound(q, cs)
  BY <1>1, <1>2, MergeBinding DEF CallersBound, Bound
<1>3. ASSUME NEW n \in DOMAIN q.callers, q.callers[n].capability_id # NoCapability
      PROVE  n \in DOMAIN p.callers /\ q.callers[n] = p.callers[n]
  <2>1. ASSUME n \in DOMAIN Generated[args].callers PROVE FALSE
    <3>1. PICK path : q.callers[n] = Binding(path)
      BY <2>1, GeneratedBinding DEF MergedFrom, Over
    <3> QED
      BY <1>3, <3>1 DEF Binding
  <2> QED
    BY <2>1 DEF MergedFrom, Over
<1>4. ASSUME CapabilityIdsUnique(p)
      PROVE  CapabilityIdsUnique(q)
  BY <1>3, <1>4 DEF CapabilityIdsUnique
<1> QED
  BY <1>2, <1>4

\* Checks 2 and 3.
LEMMA MergeMethods ==
    ASSUME NEW p, NEW args \in DOMAIN Generated, NEW q, MergedFrom(q, p, Generated[args]),
           MethodsKnown(p)
    PROVE  MethodsKnown(q)
<1> SUFFICES ASSUME NEW path \in DOMAIN q.permissions, NEW b, b = q.permissions[path],
                    NEW to \in DOMAIN b.contracts
             PROVE  /\ b.contracts[to].abi \in abi_names
                    /\ DOMAIN b.contracts[to].methods \subseteq Signatures[b.contracts[to].abi]
  BY DEF MethodsKnown
<1>1. CASE path \in DOMAIN p.permissions /\ b = p.permissions[path]
  BY <1>1 DEF MethodsKnown
<1>2. ASSUME NEW row \in AllSubmit, NEW net, b = PermissionBlock(args, row, net)
      PROVE  /\ b.contracts[to].abi \in abi_names
             /\ DOMAIN b.contracts[to].methods \subseteq Signatures[b.contracts[to].abi]
  BY <1>2, PermissionBlockIs, SubmitMethods
<1>3. \/ \E row \in AllSubmit : \E net : q.permissions[path] = PermissionBlock(args, row, net)
      \/ path \in DOMAIN p.permissions /\ q.permissions[path] = p.permissions[path]
  BY PermissionAfter
<1> QED
  BY <1>1, <1>2, <1>3

\* Checks 4 to 4c: the wallets of the rows are declared with them.
LEMMA MergeAllowlists ==
    ASSUME NEW p, NEW args \in DOMAIN Generated, NEW q, MergedFrom(q, p, Generated[args]),
           q.native_transfers = p.native_transfers, NEW ws, AllowlistsKnown(p, ws)
    PROVE  AllowlistsKnown(q, ws)
<1>1. Generated[args] = generate_policy(args) /\ InitArgsValid(args)
  BY GeneratedIs
<1>2. DOMAIN p.wallets \subseteq DOMAIN q.wallets
      /\ DOMAIN Generated[args].wallets \subseteq DOMAIN q.wallets
  BY DEF MergedFrom, Over
<1>3. ASSUME NEW w \in Allowlisted(q.permissions)
      PROVE  w \in DOMAIN q.wallets
  <2>1. PICK path \in DOMAIN q.permissions : w \in q.permissions[path].wallet_allowlist
    BY DEF Allowlisted
  <2>2. CASE path \in DOMAIN p.permissions /\ q.permissions[path] = p.permissions[path]
    BY <1>2, <2>1, <2>2 DEF AllowlistsKnown, Allowlisted
  <2>3. ASSUME NEW row \in SubmitRows(args.capabilities), NEW net \in args.networks,
               q.permissions[path] = PermissionBlock(args, row, net)
        PROVE  w \in DOMAIN q.wallets
    <3>1. PICK stem \in row.wallets : w = WalletName(args, stem, net)
      BY <2>1, <2>3, PermissionBlockIs
    <3> QED
      BY <1>1, <1>2, <3>1, GeneratedWallets
  <2> QED
    BY <2>2, <2>3, PermissionAfter
<1>4. ASSUME NEW w \in Allowlisted(q.fsp_permissions)
      PROVE  w \in DOMAIN q.wallets \cup DOMAIN ws
  <2>1. PICK path \in DOMAIN q.fsp_permissions : w \in q.fsp_permissions[path].wallet_allowlist
    BY DEF Allowlisted
  <2>2. CASE path \in DOMAIN p.fsp_permissions /\ q.fsp_permissions[path] = p.fsp_permissions[path]
    BY <1>2, <2>1, <2>2 DEF AllowlistsKnown, Allowlisted
  <2>3. ASSUME NEW row \in SignRows(args.capabilities), NEW net \in args.networks,
               q.fsp_permissions[path] = FspBlock(row, net)
        PROVE  w \in DOMAIN q.wallets
    <3>1. w = Name("fsp-signing", net)
      BY <2>1, <2>3, FspBlockIs
    <3> QED
      BY <1>1, <1>2, <3>1, GeneratedWallets
  <2> QED
    BY <2>2, <2>3, FspAfter
<1> QED
  BY <1>2, <1>3, <1>4 DEF AllowlistsKnown

\* Check 5, when registration comes with the voter.
LEMMA MergeConstraints ==
    ASSUME NEW p, NEW args \in DOMAIN Generated, Complete(args), NEW q,
           MergedFrom(q, p, Generated[args]), ConstraintsExist(p)
    PROVE  ConstraintsExist(q)
<1>1. \A w \in DOMAIN Generated[args].wallets :
         Generated[args].wallets[w] \in Generated[args].wallet_constraints
  BY GeneratedIs, GeneratedComplete DEF Complete
<1> QED
  BY <1>1 DEF ConstraintsExist, MergedFrom, Over

\* The paths of FSP blocks stay apart from those of permissions.
LEMMA MergeFspBlocks ==
    ASSUME EditsElsewhere, NEW p, FromPieces(p), NEW args \in DOMAIN Generated, NEW q,
           MergedFrom(q, p, Generated[args]), FspBlocksSound(p)
    PROVE  FspBlocksSound(q)
<1> SUFFICES ASSUME NEW path \in DOMAIN q.fsp_permissions
             PROVE  /\ path \notin DOMAIN q.permissions
                    /\ q.fsp_permissions[path].message_types # {}
                    /\ q.fsp_permissions[path].message_types \subseteq MESSAGE_TYPES
  BY DEF FspBlocksSound
<1>1. FromPieces(q)
  BY GeneratedIs, MergeFromPieces
<1>2. ASSUME NEW row \in AllSign, NEW net, path = Name(row.path, net),
             q.fsp_permissions[path] = FspBlock(row, net)
      PROVE  /\ path \notin DOMAIN q.permissions
             /\ q.fsp_permissions[path].message_types # {}
             /\ q.fsp_permissions[path].message_types \subseteq MESSAGE_TYPES
  <2>1. path \notin DOMAIN q.permissions
    BY <1>1, <1>2, ConventionKinds
  <2>2. q.fsp_permissions[path].message_types = {row.message_type}
    BY <1>2, FspBlockIs
  <2> QED
    BY <2>1, <2>2, SignRowsApart
<1>3. CASE path \in DOMAIN p.fsp_permissions /\ q.fsp_permissions[path] = p.fsp_permissions[path]
  <2>1. path \notin DOMAIN p.permissions
    BY <1>3 DEF FspBlocksSound
  <2>2. ASSUME path \in DOMAIN q.permissions PROVE FALSE
    <3>1. path \in DOMAIN q.permissions /\ path \notin DOMAIN p.permissions
      BY <2>1, <2>2
    <3>2. PICK row \in AllSubmit : \E net : path = Name(row.path, net)
      BY <3>1, PermissionAfter
    <3> QED
      BY <1>3, <3>2, ConventionKinds
  <2> QED
    BY <1>3, <2>2 DEF FspBlocksSound
<1> QED
  BY <1>2, <1>3, FspAfter

\* A wallet that a row allows is one of the convention, and its name tells
\* the stem that the row lists.
LEMMA RowWallet ==
    ASSUME NEW args \in DOMAIN Generated, NEW row \in SubmitRows(args.capabilities), NEW net,
           NEW w \in PermissionBlock(args, row, net).wallet_allowlist
    PROVE  /\ w[1] \in row.wallets
           /\ ConventionWallet(w)
           /\ w = WalletName(args, w[1], net)
<1>1. InitArgsValid(args)
  BY GeneratedIs
<1>2. PICK stem \in row.wallets : w = WalletName(args, stem, net)
  BY PermissionBlockIs
<1>3. w[1] = stem
  BY <1>2, WalletNameIs
<1>4. PICK c \in args.capabilities : row \in CapabilityRules[c].submit
  BY <1>1, RowsOfCapability
<1>5. c \in DOMAIN CapabilityRules /\ stem \in CapabilityRules[c].wallets
  BY <1>1, <1>2, <1>4, RowsOfCapability, CapabilitiesClosed DEF CapabilityClosed, Capabilities
<1> QED
  BY <1>2, <1>3, <1>5 DEF ConventionWallet

\* Of the wallets of the convention only signing wallets are opted in.
LEMMA OptedIn ==
    ASSUME EditsKeepDomains, NEW p, FromPieces(p), NEW w \in p.fsp_self_submit, ConventionWallet(w)
    PROVE  w[1] = "fsp-signing"
<1>1. PICK s \in Pieces : w \in s.fsp_self_submit
  BY DEF FromPieces
<1>2. CASE s \in Edits
  BY <1>1, <1>2 DEF EditsKeepDomains
<1>3. ASSUME NEW args \in DOMAIN Generated, s = Generated[args]
      PROVE  w[1] = "fsp-signing"
  <2>1. PICK net : w = Name("fsp-signing", net)
    BY <1>1, <1>3, GeneratedIs, GeneratedSelfSubmit
  <2> QED
    BY <2>1 DEF Name
<1> QED
  BY <1>2, <1>3, PieceIs

\* Every transaction that the block allows has one of the bounded shapes.
Shaped(block) ==
    \A to \in DOMAIN block.contracts :
        /\ block.contracts[to].abi \in DOMAIN FSP_SELF_SUBMIT_SHAPES
        /\ \A m \in DOMAIN block.contracts[to].methods :
              /\ m \in FSP_SELF_SUBMIT_SHAPES[block.contracts[to].abi]
              /\ block.contracts[to].methods[m].max_value_wei = 0

\* The blocks of the rows that use a signing wallet have them.
LEMMA RowShaped ==
    ASSUME NEW args, NEW row \in AllSubmit, NEW net, "fsp-signing" \in row.wallets
    PROVE  Shaped(PermissionBlock(args, row, net))
<1>1. PICK b : b = PermissionBlock(args, row, net)
  OBVIOUS
<1>2. Shaped(b)
  BY <1>1, PermissionBlockIs, SigningShapes DEF Shaped
<1> QED
  BY <1>1, <1>2

\* A wallet that a merge opts in signs messages and sends transactions.
LEMMA MergeOptsIn ==
    ASSUME NEW p, NEW args \in DOMAIN Generated, NEW q, MergedFrom(q, p, Generated[args]),
           NEW w \in Generated[args].fsp_self_submit
    PROVE  /\ w \in DOMAIN q.wallets
           /\ w \in Allowlisted(q.fsp_permissions)
           /\ w \in Allowlisted(q.permissions)
<1>1. Generated[args] = generate_policy(args) /\ InitArgsValid(args)
  BY GeneratedIs
<1>2. PICK net \in args.networks : w = Name("fsp-signing", net)
  BY <1>1, GeneratedSelfSubmit
<1>3. PICK sign \in SignRows(args.capabilities) : TRUE
  BY <1>1, GeneratedSelfSubmit
<1>4. PICK submit \in SubmitRows(args.capabilities) : "fsp-signing" \in submit.wallets
  BY <1>1, GeneratedSelfSubmit
<1>5. w \in DOMAIN q.wallets
  <2>1. w \in DOMAIN Generated[args].wallets
    BY <1>1, <1>2, <1>3, GeneratedWallets
  <2> QED
    BY <2>1 DEF MergedFrom, Over
<1>6. w \in Allowlisted(q.fsp_permissions)
  <2>1. PICK path : path = Name(sign.path, net)
    OBVIOUS
  <2>2. path \in DOMAIN Generated[args].fsp_permissions
    BY <1>1, <2>1, GeneratedFsp
  <2>3. PICK r \in SignRows(args.capabilities), m \in args.networks :
           path = Name(r.path, m) /\ Generated[args].fsp_permissions[path] = FspBlock(r, m)
    BY <1>1, <2>2, GeneratedFsp
  <2>4. m = net
    BY <2>1, <2>3 DEF Name
  <2>5. w \in Generated[args].fsp_permissions[path].wallet_allowlist
    BY <1>2, <2>3, <2>4, FspBlockIs
  <2>6. path \in DOMAIN q.fsp_permissions /\ w \in q.fsp_permissions[path].wallet_allowlist
    BY <2>2, <2>5 DEF MergedFrom, Over
  <2> QED
    BY <2>6 DEF Allowlisted
<1>7. w \in Allowlisted(q.permissions)
  <2>1. PICK path : path = Name(submit.path, net)
    OBVIOUS
  <2>2. path \in DOMAIN Generated[args].permissions
    BY <1>1, <2>1, GeneratedPermissions
  <2>3. PICK r \in SubmitRows(args.capabilities), m \in args.networks :
           path = Name(r.path, m) /\ Generated[args].permissions[path] = PermissionBlock(args, r, m)
    BY <1>1, <2>2, GeneratedPermissions
  <2>4. m = net /\ r.path = submit.path
    BY <2>1, <2>3 DEF Name
  <2>5. "fsp-signing" \in r.wallets
    BY <1>1, <1>4, <2>4, RowsOfCapability, SubmitRowsApart
  <2>6. w = WalletName(args, "fsp-signing", net)
    BY <1>2, WalletNameIs
  <2>7. w \in Generated[args].permissions[path].wallet_allowlist
    BY <2>3, <2>4, <2>5, <2>6, PermissionBlockIs
  <2>8. path \in DOMAIN q.permissions /\ w \in q.permissions[path].wallet_allowlist
    BY <2>2, <2>7 DEF MergedFrom, Over
  <2> QED
    BY <2>8 DEF Allowlisted
<1> QED
  BY <1>5, <1>6, <1>7

\* A wallet that was opted in is still used in both ways.
LEMMA StaysUsed ==
    ASSUME EditsElsewhere, EditsKeepDomains, NEW p, FromPieces(p),
           NEW args \in DOMAIN Generated, NEW q, MergedFrom(q, p, Generated[args]),
           NEW w \in p.fsp_self_submit
    PROVE  /\ w \in Allowlisted(p.fsp_permissions) => w \in Allowlisted(q.fsp_permissions)
           /\ w \in Allowlisted(p.permissions) => w \in Allowlisted(q.permissions)
<1>1. ASSUME w \in Allowlisted(p.fsp_permissions)
      PROVE  w \in Allowlisted(q.fsp_permissions)
  <2>1. PICK path \in DOMAIN p.fsp_permissions : w \in p.fsp_permissions[path].wallet_allowlist
    BY <1>1 DEF Allowlisted
  <2>2. path \in DOMAIN q.fsp_permissions
    BY DEF MergedFrom, Over
  <2>3. CASE q.fsp_permissions[path] = p.fsp_permissions[path]
    BY <2>1, <2>2, <2>3 DEF Allowlisted
  <2>4. ASSUME NEW row \in AllSign, NEW net, path = Name(row.path, net),
               q.fsp_permissions[path] = FspBlock(row, net)
        PROVE  w \in Allowlisted(q.fsp_permissions)
    <3>1. ConventionPath(path)
      BY <2>4, RowNames
    <3>2. PICK r, m :
             /\ r \in AllSign
             /\ path = Name(r.path, m) /\ p.fsp_permissions[path] = FspBlock(r, m)
      BY <3>1, ConventionFsp
    <3>3. m = net
      BY <2>4, <3>2 DEF Name
    <3>4. w \in q.fsp_permissions[path].wallet_allowlist
      BY <2>1, <2>4, <3>2, <3>3, FspBlockIs
    <3> QED
      BY <2>2, <3>4 DEF Allowlisted
  <2> QED
    BY <2>2, <2>3, <2>4, FspAfter
<1>2. ASSUME w \in Allowlisted(p.permissions)
      PROVE  w \in Allowlisted(q.permissions)
  <2>1. PICK path \in DOMAIN p.permissions : w \in p.permissions[path].wallet_allowlist
    BY <1>2 DEF Allowlisted
  <2>2. path \in DOMAIN q.permissions
    BY DEF MergedFrom, Over
  <2>3. CASE q.permissions[path] = p.permissions[path]
    BY <2>1, <2>2, <2>3 DEF Allowlisted
  <2>4. ASSUME NEW row \in AllSubmit, NEW net, path = Name(row.path, net),
               q.permissions[path] = PermissionBlock(args, row, net)
        PROVE  w \in Allowlisted(q.permissions)
    <3>1. ConventionPath(path)
      BY <2>4, RowNames
    <3>2. PICK a, r, m :
             /\ a \in DOMAIN Generated /\ r \in AllSubmit
             /\ r \in SubmitRows(a.capabilities)
             /\ path = Name(r.path, m) /\ p.permissions[path] = PermissionBlock(a, r, m)
      BY <3>1, ConventionPermission
    <3>3. m = net /\ r.path = row.path
      BY <2>4, <3>2 DEF Name
    <3>4. w[1] \in r.wallets /\ ConventionWallet(w) /\ w = WalletName(a, w[1], net)
      BY <2>1, <3>2, <3>3, RowWallet
    <3>5. w[1] = "fsp-signing"
      BY <3>4, OptedIn
    <3>6. w = WalletName(args, w[1], net)
      BY <3>4, <3>5, WalletNameIs
    <3>7. w[1] \in row.wallets
      BY <3>2, <3>3, <3>4, SubmitRowsApart
    <3>8. w \in q.permissions[path].wallet_allowlist
      BY <2>4, <3>6, <3>7, PermissionBlockIs
    <3> QED
      BY <2>2, <3>8 DEF Allowlisted
  <2> QED
    BY <2>2, <2>3, <2>4, PermissionAfter
<1> QED
  BY <1>1, <1>2

\* The wallets that are opted in send only transactions of the bounded shapes.
LEMMA MergeShapes ==
    ASSUME EditsElsewhere, EditsKeepDomains, NEW p, FromPieces(p),
           NEW args \in DOMAIN Generated, NEW q, MergedFrom(q, p, Generated[args]),
           NEW ws, SelfSubmitSound(p, ws), NEW w \in q.fsp_self_submit,
           NEW path \in DOMAIN q.permissions, w \in q.permissions[path].wallet_allowlist
    PROVE  Shaped(q.permissions[path])
<1>1. FromPieces(q)
  BY GeneratedIs, MergeFromPieces
<1>2. ASSUME NEW row \in SubmitRows(args.capabilities), NEW net, row \in AllSubmit,
             q.permissions[path] = PermissionBlock(args, row, net)
      PROVE  Shaped(q.permissions[path])
  <2>1. w[1] \in row.wallets /\ ConventionWallet(w)
    BY <1>2, RowWallet
  <2>2. w[1] = "fsp-signing"
    BY <1>1, <2>1, OptedIn
  <2> QED
    BY <1>2, <2>1, <2>2, RowShaped
<1>3. ASSUME path \in DOMAIN p.permissions, q.permissions[path] = p.permissions[path],
             w \in p.fsp_self_submit
      PROVE  Shaped(q.permissions[path])
  BY <1>3 DEF SelfSubmitSound, Shaped
<1>4. ASSUME path \in DOMAIN p.permissions, q.permissions[path] = p.permissions[path],
             w \in Generated[args].fsp_self_submit
      PROVE  Shaped(q.permissions[path])
  <2>1. w[1] = "fsp-signing"
    <3>1. PICK net : w = Name("fsp-signing", net)
      BY <1>4, GeneratedIs, GeneratedSelfSubmit
    <3> QED
      BY <3>1 DEF Name
  <2>2. ASSUME NEW a \in DOMAIN Generated, NEW row \in SubmitRows(a.capabilities), NEW net,
               row \in AllSubmit, p.permissions[path] = PermissionBlock(a, row, net)
        PROVE  Shaped(q.permissions[path])
    <3>1. "fsp-signing" \in row.wallets
      BY <1>4, <2>1, <2>2, RowWallet
    <3> QED
      BY <1>4, <2>2, <3>1, RowShaped
  <2>3. ASSUME NEW e \in Edits, path \in DOMAIN e.permissions,
               p.permissions[path] = e.permissions[path]
        PROVE  FALSE
    <3>1. w \in Allowlisted(e.permissions)
      BY <1>4, <2>3 DEF Allowlisted
    <3> QED
      BY <2>1, <3>1 DEF EditsKeepDomains
  <2> QED
    BY <1>4, <2>2, <2>3, PermissionFrom
<1>5. w \in p.fsp_self_submit \/ w \in Generated[args].fsp_self_submit
  BY DEF MergedFrom
<1> QED
  BY <1>2, <1>3, <1>4, <1>5, PermissionAfter

\* The check of fsp_self_submit.
LEMMA MergeSelfSubmit ==
    ASSUME EditsElsewhere, EditsKeepDomains, NEW p, FromPieces(p),
           NEW args \in DOMAIN Generated, NEW q, MergedFrom(q, p, Generated[args]),
           NEW ws, SelfSubmitSound(p, ws)
    PROVE  SelfSubmitSound(q, ws)
<1>1. ASSUME NEW w \in q.fsp_self_submit
      PROVE  /\ w \in DOMAIN q.wallets \cup DOMAIN ws
             /\ w \in Allowlisted(q.fsp_permissions)
             /\ w \in Allowlisted(q.permissions)
  <2>1. CASE w \in p.fsp_self_submit
    <3>1. /\ w \in DOMAIN p.wallets \cup DOMAIN ws
          /\ w \in Allowlisted(p.fsp_permissions)
          /\ w \in Allowlisted(p.permissions)
      BY <2>1 DEF SelfSubmitSound
    <3> QED
      BY <2>1, <3>1, StaysUsed, MergeWallets
  <2>2. CASE w \in Generated[args].fsp_self_submit
    BY <2>2, MergeOptsIn
  <2> QED
    BY <2>1, <2>2 DEF MergedFrom
<1>2. ASSUME NEW w \in q.fsp_self_submit, NEW path \in DOMAIN q.permissions,
             w \in q.permissions[path].wallet_allowlist
      PROVE  Shaped(q.permissions[path])
  BY <1>2, MergeShapes
<1> QED
  BY <1>1, <1>2 DEF SelfSubmitSound, Shaped

\* A wallet that both kinds of blocks allow is opted in.
LEMMA MergeOptedIn ==
    ASSUME EditsElsewhere, EditsKeepDomains, NEW p, FromPieces(p),
           NEW args \in DOMAIN Generated, Complete(args), NEW q, MergedFrom(q, p, Generated[args]),
           NEW v \in Allowlisted(q.permissions), v \in Allowlisted(q.fsp_permissions)
    PROVE  \/ v \in q.fsp_self_submit
           \/ v \in Allowlisted(p.permissions) /\ v \in Allowlisted(p.fsp_permissions)
<1>1. Generated[args] = generate_policy(args) /\ InitArgsValid(args)
  BY GeneratedIs
<1>2. Generated[args].fsp_self_submit \subseteq q.fsp_self_submit
      /\ p.fsp_self_submit \subseteq q.fsp_self_submit
  BY DEF MergedFrom
<1>3. PICK x \in DOMAIN q.permissions : v \in q.permissions[x].wallet_allowlist
  BY DEF Allowlisted
<1>4. PICK y \in DOMAIN q.fsp_permissions : v \in q.fsp_permissions[y].wallet_allowlist
  BY DEF Allowlisted
<1>5. ASSUME NEW row \in SignRows(args.capabilities), NEW net \in args.networks,
             q.fsp_permissions[y] = FspBlock(row, net)
      PROVE  v \in q.fsp_self_submit
  <2>1. v = Name("fsp-signing", net)
    BY <1>4, <1>5, FspBlockIs
  <2> QED
    BY <1>1, <1>2, <2>1, GeneratedSelfSubmit
<1>6. ASSUME y \in DOMAIN p.fsp_permissions, q.fsp_permissions[y] = p.fsp_permissions[y]
      PROVE  \/ v \in q.fsp_self_submit
             \/ v \in Allowlisted(p.permissions) /\ v \in Allowlisted(p.fsp_permissions)
  <2>1. v \in Allowlisted(p.fsp_permissions)
    BY <1>4, <1>6 DEF Allowlisted
  <2>2. CASE x \in DOMAIN p.permissions /\ q.permissions[x] = p.permissions[x]
    BY <1>3, <2>1, <2>2 DEF Allowlisted
  <2>3. ASSUME NEW row \in SubmitRows(args.capabilities), NEW net \in args.networks,
               q.permissions[x] = PermissionBlock(args, row, net)
        PROVE  v \in q.fsp_self_submit
    <3>1. v[1] \in row.wallets /\ ConventionWallet(v) /\ v = WalletName(args, v[1], net)
      BY <1>3, <2>3, RowWallet
    <3>2. ASSUME NEW a \in DOMAIN Generated, Within(Generated[a], p),
                 NEW r \in SignRows(a.capabilities), NEW m \in a.networks,
                 p.fsp_permissions[y] = FspBlock(r, m)
          PROVE  v \in q.fsp_self_submit
      <4>1. v = Name("fsp-signing", m)
        BY <1>4, <1>6, <3>2, FspBlockIs
      <4>2. v \in Generated[a].fsp_self_submit
        BY <4>1, GeneratedIs, GeneratedSelfSubmit
      <4> QED
        BY <1>2, <3>2, <4>2 DEF Within
    <3>3. ASSUME NEW e \in Edits, y \in DOMAIN e.fsp_permissions,
                 p.fsp_permissions[y] = e.fsp_permissions[y]
          PROVE  v \in q.fsp_self_submit
      <4>1. v \in Allowlisted(e.fsp_permissions)
        BY <1>4, <1>6, <3>3 DEF Allowlisted
      <4>2. v[1] = "fsp-signing"
        BY <3>1, <4>1 DEF EditsKeepDomains
      <4>3. v = Name("fsp-signing", net)
        BY <3>1, <4>2, WalletNameIs
      <4>4. SignRows(args.capabilities) # {}
        BY <1>1, <3>1, <4>2, GeneratedComplete DEF Complete
      <4> QED
        BY <1>1, <1>2, <4>3, <4>4, GeneratedSelfSubmit
    <3> QED
      BY <1>6, <3>2, <3>3, FspFrom
  <2>4. \/ \E row \in SubmitRows(args.capabilities), net \in args.networks :
              q.permissions[x] = PermissionBlock(args, row, net)
        \/ x \in DOMAIN p.permissions /\ q.permissions[x] = p.permissions[x]
    BY PermissionAfter
  <2> QED
    BY <2>2, <2>3, <2>4
<1> QED
  BY <1>5, <1>6, FspAfter

\* No key is used in both ways, when no key has two names.
LEMMA MergeKeys ==
    ASSUME EditsElsewhere, EditsKeepDomains, NEW p, FromPieces(p),
           NEW args \in DOMAIN Generated, Complete(args), NEW q, MergedFrom(q, p, Generated[args]),
           KeysSegregated(p, wallets), DistinctKeys
    PROVE  KeysSegregated(q, wallets)
<1> SUFFICES ASSUME NEW v \in DOMAIN wallets, v \in Allowlisted(q.permissions),
                    NEW u \in DOMAIN wallets, u \in Allowlisted(q.fsp_permissions),
                    wallets[u] = wallets[v]
             PROVE  v \in q.fsp_self_submit
  BY DEF KeysSegregated, Addresses
<1>1. u = v
  BY DEF DistinctKeys
<1>2. CASE v \in q.fsp_self_submit
  BY <1>2
<1>3. CASE v \in Allowlisted(p.permissions) /\ v \in Allowlisted(p.fsp_permissions)
  <2>1. wallets[v] \in Addresses(p.permissions, wallets) \cap Addresses(p.fsp_permissions, wallets)
    BY <1>3 DEF Addresses
  <2>2. PICK t \in p.fsp_self_submit \cap DOMAIN wallets : wallets[v] = wallets[t]
    BY <2>1 DEF KeysSegregated
  <2>3. t = v
    BY <2>2 DEF DistinctKeys
  <2> QED
    BY <2>2, <2>3 DEF MergedFrom
<1> QED
  BY <1>1, <1>2, <1>3, MergeOptedIn

\* A merge keeps all the checks.
LEMMA MergeConsistent ==
    ASSUME EditsElsewhere, EditsKeepDomains, NEW p, FromPieces(p),
           NEW args \in DOMAIN Generated, Complete(args), NEW q, MergedFrom(q, p, Generated[args]),
           q.native_transfers = p.native_transfers, DistinctKeys,
           NEW cs, check_consistency(p, cs, wallets)
    PROVE  check_consistency(q, cs, wallets)
<1>1. CallersBound(q, cs) /\ CapabilityIdsUnique(q)
  BY MergeCallers DEF check_consistency
<1>2. MethodsKnown(q)
  BY MergeMethods DEF check_consistency
<1>3. AllowlistsKnown(q, wallets)
  BY MergeAllowlists DEF check_consistency
<1>4. ConstraintsExist(q)
  BY MergeConstraints DEF check_consistency
<1>5. FspBlocksSound(q)
  BY MergeFspBlocks DEF check_consistency
<1>6. SelfSubmitSound(q, wallets)
  BY MergeSelfSubmit DEF check_consistency
<1>7. KeysSegregated(q, wallets)
  BY MergeKeys DEF check_consistency
<1> QED
  BY <1>1, <1>2, <1>3, <1>4, <1>5, <1>6, <1>7 DEF check_consistency

\* A generated policy passes the checks by itself: it is a merge into a policy
\* without rules.
LEMMA FreshConsistent ==
    ASSUME EditsElsewhere, EditsKeepDomains, NEW args \in DOMAIN Generated, Complete(args),
           DistinctKeys
    PROVE  check_consistency(Generated[args], {}, wallets)
<1>1. PICK p : p = [callers |-> << >>, wallets |-> << >>, permissions |-> << >>,
                    wallet_constraints |-> {}, fsp_permissions |-> << >>,
                    native_transfers |-> << >>, fsp_self_submit |-> {}]
  OBVIOUS
<1>2. /\ DOMAIN p.callers = {} /\ DOMAIN p.wallets = {} /\ DOMAIN p.permissions = {}
      /\ DOMAIN p.fsp_permissions = {} /\ DOMAIN p.native_transfers = {}
      /\ p.wallet_constraints = {} /\ p.fsp_self_submit = {} /\ p.native_transfers = << >>
  BY <1>1
<1>3. FromPieces(p)
  BY <1>2 DEF FromPieces
<1>4. Allowlisted(p.permissions) = {} /\ Allowlisted(p.fsp_permissions) = {}
      /\ Allowlisted(p.native_transfers) = {}
  BY <1>2 DEF Allowlisted
<1>5. check_consistency(p, {}, wallets)
  BY <1>2, <1>4 DEF check_consistency, CallersBound, CapabilityIdsUnique, MethodsKnown,
     AllowlistsKnown, ConstraintsExist, FspBlocksSound, SelfSubmitSound, KeysSegregated, Addresses
<1>6. MergedFrom(Generated[args], p, Generated[args])
  BY <1>2 DEF MergedFrom, Over
<1>7. Generated[args].native_transfers = p.native_transfers
  BY <1>2, GeneratedIs, GeneratedRest
<1> QED
  BY <1>3, <1>5, <1>6, <1>7, MergeConsistent

\* When edits leave the convention alone and keep FSP and transaction wallets
\* apart, and no key has two names, the daemon can start on every generated
\* policy while no caller is active, and a file that it can start on is one
\* that it can start on after any merge.
THEOREM MergesKeepBootable ==
    ASSUME EditsElsewhere, EditsKeepDomains
    PROVE  Spec => []MergeKeepsBootable
<1>1. PolicyInv => MergeKeepsBootable
  <2> SUFFICES ASSUME PolicyInv, DistinctKeys, NEW args \in DOMAIN Generated, Complete(args)
               PROVE  /\ ActiveCallers = {} => Bootable(InitOutput(args, FALSE))
                      /\ policy_file # NoPolicy /\ Bootable(policy_file)
                            => Bootable(InitOutput(args, TRUE))
    BY DEF MergeKeepsBootable
  <2>1. InitOutput(args, FALSE) = Generated[args]
    BY DEF InitOutput
  <2>2. ActiveCallers = {} => Bootable(InitOutput(args, FALSE))
    BY <2>1, FreshConsistent DEF Bootable
  <2>3. ASSUME policy_file # NoPolicy, Bootable(policy_file)
        PROVE  Bootable(InitOutput(args, TRUE))
    <3>1. FromPieces(policy_file) /\ check_consistency(policy_file, ActiveCallers, wallets)
      BY <2>3 DEF PolicyInv, Bootable
    <3>2. InitOutput(args, TRUE) = merge_policies(policy_file, Generated[args])
      BY <2>3 DEF InitOutput
    <3>3. /\ MergedFrom(InitOutput(args, TRUE), policy_file, Generated[args])
          /\ InitOutput(args, TRUE).native_transfers = policy_file.native_transfers
      BY <3>2, GeneratedIs, MergeIs
    <3>4. check_consistency(InitOutput(args, TRUE), ActiveCallers, wallets)
      BY <3>1, <3>3, MergeConsistent
    <3> QED
      BY <3>4 DEF Bootable
  <2> QED
    BY <2>2, <2>3
<1> QED
  BY <1>1, PolicyInvariance, PTL

-----------------------------------------------------------------------------
(***************************************************************************)
(* One holder for every ask.                                               *)
(***************************************************************************)

\* No two callers are bound to one path.
LEMMA PathsApart ==
    ASSUME EditsDisjoint, NEW p, FromPieces(p), NEW m \in DOMAIN p.callers, NEW n \in DOMAIN p.callers,
           p.callers[m].policy_path = p.callers[n].policy_path
    PROVE  m = n
<1> DEFINE OfRow(k, row, net) ==
              k = Name(row.caller, net) /\ p.callers[k].policy_path = Name(row.path, net)
<1>1. ASSUME NEW q \in AllSubmit \cup AllSign, NEW a, OfRow(m, q, a),
             NEW r \in AllSubmit \cup AllSign, NEW b, OfRow(n, r, b)
      PROVE  m = n
  <2>1. q.path = r.path /\ a = b
    BY <1>1 DEF Name
  <2>2. q.caller = r.caller
    BY <2>1, RowsAgree, RowsConventional
  <2> QED
    BY <1>1, <2>1, <2>2
<1>2. ASSUME NEW e \in Edits, NEW k \in DOMAIN e.callers, p.callers[k] = e.callers[k],
             NEW r \in AllSubmit \cup AllSign, NEW b, p.callers[k].policy_path = Name(r.path, b)
      PROVE  FALSE
  BY <1>2, RowNames DEF EditsDisjoint
<1>3. ASSUME NEW e \in Edits, m \in DOMAIN e.callers, p.callers[m] = e.callers[m],
             NEW f \in Edits, n \in DOMAIN f.callers, p.callers[n] = f.callers[n]
      PROVE  m = n
  BY <1>3 DEF EditsDisjoint
<1>4. \/ \E row \in AllSubmit \cup AllSign : \E net : OfRow(m, row, net)
      \/ \E e \in Edits : m \in DOMAIN e.callers /\ p.callers[m] = e.callers[m]
  BY BindingFrom
<1>5. \/ \E row \in AllSubmit \cup AllSign : \E net : OfRow(n, row, net)
      \/ \E e \in Edits : n \in DOMAIN e.callers /\ p.callers[n] = e.callers[n]
  BY BindingFrom
<1> QED
  BY <1>1, <1>2, <1>3, <1>4, <1>5

\* One permissions block authorises a transaction.
LEMMA OneCall ==
    ASSUME EditsDisjoint, NEW p, FromPieces(p), NEW ask,
           NEW x \in DOMAIN p.permissions, evaluate_call(p, p.permissions[x], ask),
           NEW y \in DOMAIN p.permissions, evaluate_call(p, p.permissions[y], ask)
    PROVE  x = y
<1> DEFINE OfRow(k, args, row, net) ==
              /\ row \in SubmitRows(args.capabilities) /\ row \in AllSubmit
              /\ k = Name(row.path, net) /\ p.permissions[k] = PermissionBlock(args, row, net)
           OfEdit(k, e) == k \in DOMAIN e.permissions /\ p.permissions[k] = e.permissions[k]
<1>1. ASSUME NEW a \in DOMAIN Generated, NEW q, NEW i, OfRow(x, a, q, i),
             NEW b \in DOMAIN Generated, NEW r, NEW j, OfRow(y, b, r, j)
      PROVE  x = y
  <2>1. /\ ask.chain = i /\ ask.method \in q.methods
        /\ \E stem \in q.wallets : ask.wallet = WalletName(a, stem, i)
    BY <1>1, RowCall
  <2>2. /\ ask.chain = j /\ ask.method \in r.methods
        /\ \E stem \in r.wallets : ask.wallet = WalletName(b, stem, j)
    BY <1>1, RowCall
  <2>3. ask.wallet[1] \in q.wallets /\ ask.wallet[1] \in r.wallets
    <3>1. PICK v \in q.wallets : ask.wallet = WalletName(a, v, i)
      BY <2>1
    <3>2. PICK w \in r.wallets : ask.wallet = WalletName(b, w, j)
      BY <2>2
    <3>3. ask.wallet[1] = v
      BY <3>1, WalletNameIs
    <3>4. ask.wallet[1] = w
      BY <3>2, WalletNameIs
    <3> QED
      BY <3>3, <3>4
  <2>4. q.path = r.path
    BY <1>1, <2>1, <2>2, <2>3, SubmitRowsApart
  <2> QED
    BY <1>1, <2>1, <2>2, <2>4
<1>2. ASSUME NEW k \in DOMAIN p.permissions, evaluate_call(p, p.permissions[k], ask),
             NEW a \in DOMAIN Generated, NEW q, NEW i, OfRow(k, a, q, i)
      PROVE  ConventionWallet(ask.wallet)
  <2>1. ask.wallet \in PermissionBlock(a, q, i).wallet_allowlist
    BY <1>2 DEF evaluate_call
  <2> QED
    BY <1>2, <2>1, RowWallet
<1>3. ASSUME NEW k \in DOMAIN p.permissions, evaluate_call(p, p.permissions[k], ask),
             NEW e \in Edits, OfEdit(k, e)
      PROVE  ~ConventionWallet(ask.wallet) /\ ask.wallet \in e.permissions[k].wallet_allowlist
  BY <1>3 DEF evaluate_call, Allowlisted, EditsDisjoint
<1>4. ASSUME NEW e \in Edits, OfEdit(x, e), NEW f \in Edits, OfEdit(y, f)
      PROVE  x = y
  BY <1>3, <1>4 DEF EditsDisjoint, Apart
<1>5. (\E a \in DOMAIN Generated : \E q, i : OfRow(x, a, q, i)) \/ (\E e \in Edits : OfEdit(x, e))
  BY PermissionFrom
<1>6. (\E a \in DOMAIN Generated : \E q, i : OfRow(y, a, q, i)) \/ (\E e \in Edits : OfEdit(y, e))
  BY PermissionFrom
<1> HIDE DEF OfRow, OfEdit
<1> QED
  BY <1>1, <1>2, <1>3, <1>4, <1>5, <1>6

\* One native_transfers block authorises a transfer.
LEMMA OneTransfer ==
    ASSUME EditsDisjoint, NEW p, FromPieces(p), NEW ask,
           NEW x \in DOMAIN p.native_transfers,
           evaluate_native_transfer(p, p.native_transfers[x], ask),
           NEW y \in DOMAIN p.native_transfers,
           evaluate_native_transfer(p, p.native_transfers[y], ask)
    PROVE  x = y
<1>1. PICK e \in Edits : /\ x \in DOMAIN e.native_transfers
                         /\ p.native_transfers[x] = e.native_transfers[x]
  BY NativeFrom
<1>2. PICK f \in Edits : /\ y \in DOMAIN f.native_transfers
                         /\ p.native_transfers[y] = f.native_transfers[y]
  BY NativeFrom
<1>3. /\ ask.wallet \in e.native_transfers[x].wallet_allowlist
      /\ ask.wallet \in f.native_transfers[y].wallet_allowlist
  BY <1>1, <1>2 DEF evaluate_native_transfer
<1> QED
  BY <1>1, <1>2, <1>3 DEF EditsDisjoint, Apart

\* One fsp_permissions block authorises a message.
LEMMA OneMessage ==
    ASSUME EditsDisjoint, NEW p, FromPieces(p), NEW ask,
           NEW c, evaluate_fsp(p, c, ask), NEW d, evaluate_fsp(p, d, ask)
    PROVE  c.policy_path = d.policy_path
<1> DEFINE OfRow(k, row, net) ==
              row \in AllSign /\ k = Name(row.path, net) /\ p.fsp_permissions[k] = FspBlock(row, net)
           OfEdit(k, e) == k \in DOMAIN e.fsp_permissions /\ p.fsp_permissions[k] = e.fsp_permissions[k]
<1>1. /\ c.policy_path \in DOMAIN p.fsp_permissions /\ d.policy_path \in DOMAIN p.fsp_permissions
      /\ ask.wallet \in p.fsp_permissions[c.policy_path].wallet_allowlist
      /\ ask.wallet \in p.fsp_permissions[d.policy_path].wallet_allowlist
  BY DEF evaluate_fsp
<1>2. ASSUME NEW q, NEW i, OfRow(c.policy_path, q, i), NEW r, NEW j, OfRow(d.policy_path, r, j)
      PROVE  c.policy_path = d.policy_path
  <2>1. i = j /\ q.message_type = r.message_type
    BY <1>2, RowMessage
  <2>2. q.path = r.path
    BY <1>2, <2>1, SignRowsApart
  <2> QED
    BY <1>2, <2>1, <2>2
<1>3. ASSUME NEW k \in {c.policy_path, d.policy_path}, NEW q, NEW i, OfRow(k, q, i)
      PROVE  ask.wallet[1] = "fsp-signing"
  <2>1. ask.wallet = Name("fsp-signing", i)
    BY <1>3, RowMessage
  <2> QED
    BY <2>1 DEF Name
<1>4. ASSUME NEW k \in {c.policy_path, d.policy_path}, NEW e \in Edits, OfEdit(k, e)
      PROVE  ask.wallet[1] # "fsp-signing"
  BY <1>1, <1>4 DEF Allowlisted, EditsDisjoint
<1>5. ASSUME NEW e \in Edits, OfEdit(c.policy_path, e), NEW f \in Edits, OfEdit(d.policy_path, f)
      PROVE  c.policy_path = d.policy_path
  BY <1>1, <1>5 DEF EditsDisjoint, Apart
<1>6. (\E q, i : OfRow(c.policy_path, q, i)) \/ (\E e \in Edits : OfEdit(c.policy_path, e))
  BY <1>1, FspFrom
<1>7. (\E q, i : OfRow(d.policy_path, q, i)) \/ (\E e \in Edits : OfEdit(d.policy_path, e))
  BY <1>1, FspFrom
<1> HIDE DEF OfRow, OfEdit
<1> QED
  BY <1>2, <1>3, <1>4, <1>5, <1>6, <1>7

\* No ask is authorised for two callers.
LEMMA Holders ==
    ASSUME EditsDisjoint, NEW p, FromPieces(p), NEW ask,
           NEW m \in DOMAIN p.callers, Authorised(p, m, ask),
           NEW n \in DOMAIN p.callers, Authorised(p, n, ask)
    PROVE  m = n
<1>1. PICK c : c = [name |-> m, policy_path |-> p.callers[m].policy_path]
  OBVIOUS
<1>2. PICK d : d = [name |-> n, policy_path |-> p.callers[n].policy_path]
  OBVIOUS
<1>3. c.policy_path = p.callers[m].policy_path /\ d.policy_path = p.callers[n].policy_path
  BY <1>1, <1>2
<1>4. evaluate(p, c, ask) /\ evaluate(p, d, ask)
  BY <1>1, <1>2 DEF Authorised
<1>5. c.policy_path = d.policy_path
  <2>1. CASE ask.kind = "fsp"
    <3>1. evaluate_fsp(p, c, ask) /\ evaluate_fsp(p, d, ask)
      BY <1>4, <2>1 DEF evaluate
    <3> QED
      BY <3>1, OneMessage
  <2>2. CASE ask.kind # "fsp"
    <3>1. evaluate_inner(p, c, ask) /\ evaluate_inner(p, d, ask)
      BY <1>4, <2>2 DEF evaluate
    <3>2. CASE ask.kind = "transfer"
      BY <3>1, <3>2, OneTransfer DEF evaluate_inner
    <3>3. CASE ask.kind # "transfer"
      BY <3>1, <3>3, OneCall DEF evaluate_inner
    <3> QED
      BY <3>2, <3>3
  <2> QED
    BY <2>1, <2>2
<1> QED
  BY <1>3, <1>5, PathsApart

\* When the callers that edits bind have blocks and wallets of their own, a
\* policy that is put in force authorises every ask for one caller at most:
\* no two roles of the convention overlap, on whatever networks.
THEOREM OneHolderInForce ==
    ASSUME EditsDisjoint
    PROVE  Spec => OneHolder
<1>1. PolicyInv /\ PolicyInv' /\ [Next]_vars =>
        [ policy' # policy /\ policy' # NoPolicy =>
             \A ask \in Asks :
                 \A m, n \in {c \in DOMAIN policy'.callers : Authorised(policy', c, ask)} : m = n ]_vars
  <2> SUFFICES ASSUME PolicyInv', policy' # NoPolicy, NEW ask \in Asks,
                      NEW m \in DOMAIN policy'.callers, Authorised(policy', m, ask),
                      NEW n \in DOMAIN policy'.callers, Authorised(policy', n, ask)
               PROVE  m = n
    OBVIOUS
  <2>1. FromPieces(policy')
    BY DEF PolicyInv
  <2> QED
    BY <2>1, Holders
<1> QED
  BY <1>1, PolicyInvariance, PTL DEF Spec, OneHolder
=============================================================================
