---------------------------- MODULE AccessProofs ----------------------------
(***************************************************************************)
(* Proofs about Access, for any policies, callers, wallets, grants and any *)
(* number of concurrent requests.                                          *)
(***************************************************************************)
EXTENDS Access, SequenceTheorems, TLAPS

\* Every row of the callers table holds a key that was minted.
Rows ==
    /\ daemon \in {"up", "down"}
    /\ issued \in Seq(DOMAIN callers)
    /\ \A n \in DOMAIN callers :
          /\ callers[n] = [policy_path |-> callers[n].policy_path, key |-> callers[n].key,
                           status |-> callers[n].status]
          /\ callers[n].key \in Tokens
          /\ callers[n].status \in {"active", "revoked"}

\* Every request was authenticated with a key that was minted.
InFlight ==
    /\ DOMAIN requests = Sessions
    /\ \A s \in Sessions : requests[s] # Idle =>
          /\ requests[s] = [name |-> requests[s].name, policy_path |-> requests[s].policy_path,
                            key |-> requests[s].key, signed |-> requests[s].signed]
          /\ requests[s].key \in Tokens

\* The roles that a sequence lists.
Listed(roles) == {roles[i] : i \in DOMAIN roles}

\* Tokens that belong to the callers of the roles they are filed under.
Filed(spec, tokens) ==
    \A r \in DOMAIN tokens :
        /\ tokens[r] \in Tokens
        /\ issued[tokens[r]] = CallerOf(spec, r)
        /\ \A q \in DOMAIN tokens : tokens[q] = tokens[r] => q = r

\* A grant under way: what is minted is filed, and as long as no capability
\* was skipped, what is minted and what is still to do are the whole spec.
GrantSound ==
    grant # NoGrant =>
        /\ grant = [spec |-> grant.spec, todo |-> grant.todo, minted |-> grant.minted,
                    failures |-> grant.failures]
        /\ grant.todo \in Seq(STRING) /\ grant.failures \in Nat
        /\ Filed(grant.spec, grant.minted)
        /\ grant.failures = 0 =>
              DOMAIN grant.minted \cup Listed(grant.todo) = Listed(grant.spec.roles)

\* A bundle holds the tokens of all the roles of its spec.
BundleFiled ==
    bundle # NoBundle =>
        /\ Filed(bundle.spec, bundle.tokens)
        /\ DOMAIN bundle.tokens = Listed(bundle.spec.roles)

AccessInv ==
    /\ Rows
    /\ InFlight
    /\ GrantSound
    /\ BundleFiled

-----------------------------------------------------------------------------
(***************************************************************************)
(* Sequences and tables.                                                   *)
(***************************************************************************)

\* A sequence over a set is one over a larger set.
LEMMA SeqGrows ==
    ASSUME NEW S, NEW T, S \subseteq T, NEW q \in Seq(S)
    PROVE  q \in Seq(T)
<1>1. /\ q \in [1..Len(q) -> S] /\ Len(q) \in Nat
  OBVIOUS
<1>2. q \in [1..Len(q) -> T]
  BY <1>1
<1> QED
  BY <1>1, <1>2

\* The first role of a list and the rest of it make the list.
LEMMA ListedHeadTail ==
    ASSUME NEW q \in Seq(STRING), q # << >>
    PROVE  /\ Tail(q) \in Seq(STRING)
           /\ Listed(q) = {Head(q)} \cup Listed(Tail(q))
<1>1. /\ Tail(q) \in Seq(STRING)
      /\ Len(q) \in Nat \ {0}
      /\ DOMAIN q = 1..Len(q)
      /\ DOMAIN Tail(q) = 1..(Len(q) - 1)
      /\ \A i \in 1..(Len(q) - 1) : Tail(q)[i] = q[i + 1]
      /\ Head(q) = q[1]
  OBVIOUS
<1>2. ASSUME NEW i \in 1..Len(q) PROVE q[i] \in {Head(q)} \cup Listed(Tail(q))
  <2>1. CASE i = 1
    BY <1>1, <2>1
  <2>2. CASE i # 1
    <3>1. i - 1 \in 1..(Len(q) - 1) /\ (i - 1) + 1 = i
      BY <1>1, <2>2
    <3>2. q[i] = Tail(q)[i - 1]
      BY <1>1, <3>1
    <3> QED
      BY <1>1, <3>1, <3>2 DEF Listed
  <2> QED
    BY <2>1, <2>2
<1>3. \A r \in {Head(q)} \cup Listed(Tail(q)) : r \in Listed(q)
  <2>1. Head(q) \in Listed(q)
    BY <1>1 DEF Listed
  <2>2. ASSUME NEW j \in 1..(Len(q) - 1) PROVE Tail(q)[j] \in Listed(q)
    <3>1. j + 1 \in 1..Len(q)
      BY <1>1
    <3> QED
      BY <1>1, <3>1 DEF Listed
  <2> QED
    BY <1>1, <2>1, <2>2 DEF Listed
<1>4. Listed(q) \subseteq {Head(q)} \cup Listed(Tail(q))
  <2> HIDE DEF Listed
  <2>1. Listed(q) = {q[i] : i \in 1..Len(q)}
    BY <1>1 DEF Listed
  <2> QED
    BY <1>2, <2>1
<1> QED
  BY <1>1, <1>3, <1>4

-----------------------------------------------------------------------------
(***************************************************************************)
(* Mints.                                                                  *)
(***************************************************************************)

\* A mint adds one token, for the caller it is asked for.
LEMMA MintIssues ==
    ASSUME AccessInv, NEW name, NEW path, create_caller(name, path)
    PROVE  /\ issued' \in Seq(DOMAIN callers')
           /\ Len(issued) \in Nat
           /\ Len(issued') = Len(issued) + 1
           /\ Tokens \subseteq Tokens' /\ Len(issued) + 1 \in Tokens'
           /\ Len(issued) + 1 \notin Tokens
           /\ \A k \in Tokens : issued'[k] = issued[k]
           /\ issued'[Len(issued) + 1] = name
           /\ DOMAIN callers' = DOMAIN callers \cup {name}
           /\ callers'[name] = [policy_path |-> path, key |-> Len(issued) + 1, status |-> "active"]
           /\ \A n \in DOMAIN callers \ {name} : callers'[n] = callers[n]
<1>1. /\ DOMAIN callers' = DOMAIN callers \cup {name}
      /\ callers'[name] = [policy_path |-> path, key |-> Len(issued) + 1, status |-> "active"]
      /\ \A n \in DOMAIN callers \ {name} : callers'[n] = callers[n]
  <2> DEFINE row == [policy_path |-> path, key |-> Len(issued) + 1, status |-> "active"]
  <2>1. callers' = Put(callers, name, row)
    BY DEF create_caller, repo_create
  <2> HIDE DEF row
  <2>2. /\ DOMAIN callers' = DOMAIN callers \cup {name}
        /\ callers'[name] = row
        /\ \A n \in DOMAIN callers \ {name} : callers'[n] = callers[n]
    BY <2>1 DEF Put
  <2> QED
    BY <2>2 DEF row
<1>2. issued \in Seq(DOMAIN callers') /\ name \in DOMAIN callers'
  BY <1>1, SeqGrows DEF AccessInv, Rows
<1>3. issued' = Append(issued, name)
  BY DEF create_caller
<1> QED
  BY <1>1, <1>2, <1>3 DEF Tokens

\* A mint leaves sound rows, and the requests keep their tokens.
LEMMA MintRows ==
    ASSUME AccessInv, NEW name, NEW path, create_caller(name, path),
           UNCHANGED <<daemon, requests>>
    PROVE  Rows' /\ InFlight'
<1>1. Rows'
  <2>1. daemon' \in {"up", "down"} /\ issued' \in Seq(DOMAIN callers')
    BY MintIssues DEF AccessInv, Rows
  <2>2. ASSUME NEW n \in DOMAIN callers'
        PROVE  /\ callers'[n] = [policy_path |-> callers'[n].policy_path,
                                 key |-> callers'[n].key, status |-> callers'[n].status]
               /\ callers'[n].key \in Tokens'
               /\ callers'[n].status \in {"active", "revoked"}
    <3>1. CASE n = name
      <4>1. Len(issued) + 1 \in Tokens'
        BY MintIssues
      <4>2. callers'[name] = [policy_path |-> path, key |-> Len(issued) + 1,
                              status |-> "active"]
        BY MintIssues
      <4> QED
        BY <3>1, <4>1, <4>2
    <3>2. CASE n # name
      <4>1. Tokens \subseteq Tokens'
        BY MintIssues
      <4>2. DOMAIN callers' = DOMAIN callers \cup {name}
        BY MintIssues
      <4>3. \A m \in DOMAIN callers \ {name} : callers'[m] = callers[m]
        BY MintIssues
      <4>4. n \in DOMAIN callers /\ callers'[n] = callers[n]
        BY <2>2, <3>2, <4>2, <4>3
      <4> QED
        BY <4>1, <4>4 DEF AccessInv, Rows
    <3> QED
      BY <3>1, <3>2
  <2> QED
    BY <2>1, <2>2 DEF Rows
<1>2. InFlight'
  BY MintIssues DEF AccessInv, InFlight
<1> QED
  BY <1>1, <1>2

\* A mint keeps the bundle.
LEMMA MintBundle ==
    ASSUME AccessInv, NEW name, NEW path, create_caller(name, path), UNCHANGED bundle
    PROVE  BundleFiled'
<1>1. /\ Tokens \subseteq Tokens'
      /\ \A k \in Tokens : issued'[k] = issued[k]
  BY MintIssues
<1> QED
  BY <1>1 DEF AccessInv, BundleFiled, Filed

\* A mint by hand keeps a grant that is under way.
LEMMA MintGrant ==
    ASSUME AccessInv, NEW name, NEW path, create_caller(name, path), UNCHANGED grant
    PROVE  GrantSound'
<1>1. /\ Tokens \subseteq Tokens'
      /\ \A k \in Tokens : issued'[k] = issued[k]
  BY MintIssues
<1> QED
  BY <1>1 DEF AccessInv, GrantSound, Filed

-----------------------------------------------------------------------------
(***************************************************************************)
(* Init and the actions.                                                   *)
(***************************************************************************)

\* What holds initially.
LEMMA InitInv == Init => AccessInv
BY DEF Init, AccessInv, Rows, InFlight, GrantSound, BundleFiled, Tokens

\* A step that mints nothing and leaves grant and bundle alone keeps both.
LEMMA SameGrants ==
    ASSUME AccessInv, UNCHANGED <<issued, grant, bundle>>
    PROVE  GrantSound' /\ BundleFiled'
BY DEF AccessInv, GrantSound, BundleFiled, Filed, Tokens

\* Changes of the file, the wallets and the daemon touch no token.
LEMMA DaemonInv ==
    ASSUME AccessInv, daemon' \in {"up", "down"},
           UNCHANGED <<callers, requests, grant, bundle, issued>>
    PROVE  AccessInv'
<1>1. Rows' /\ InFlight'
  BY DEF AccessInv, Rows, InFlight, Tokens
<1> QED
  BY <1>1, SameGrants DEF AccessInv

\* A stop drops the requests.
LEMMA StopInv ==
    ASSUME AccessInv, Stop
    PROVE  AccessInv'
<1>1. Rows' /\ InFlight'
  BY DEF Stop, AccessInv, Rows, InFlight, Tokens
<1> QED
  BY <1>1, SameGrants DEF AccessInv, Stop

\* A request starts with the key of a row, is decided, and ends.
LEMMA RequestInv ==
    ASSUME AccessInv, NEW s \in Sessions,
           \/ \E key \in Tokens : Authenticate(s, key)
           \/ \E ask \in Asks : SignAsk(s, ask)
           \/ Answer(s)
    PROVE  AccessInv'
<1>1. UNCHANGED <<daemon, callers, grant, bundle, issued>>
  BY DEF Authenticate, SignAsk, Answer
<1>2. Rows'
  BY <1>1 DEF AccessInv, Rows, Tokens
<1>3. InFlight'
  <2>1. ASSUME NEW key \in Tokens, Authenticate(s, key) PROVE InFlight'
    BY <1>1, <2>1 DEF Authenticate, AccessInv, InFlight, Tokens
  <2>2. ASSUME NEW ask \in Asks, SignAsk(s, ask) PROVE InFlight'
    BY <1>1, <2>2 DEF SignAsk, AccessInv, InFlight, Tokens
  <2>3. ASSUME Answer(s) PROVE InFlight'
    BY <1>1, <2>3 DEF Answer, AccessInv, InFlight, Tokens
  <2> QED
    BY <2>1, <2>2, <2>3
<1> QED
  BY <1>1, <1>2, <1>3, SameGrants DEF AccessInv

\* A revocation keeps the key of the row.
LEMMA DeleteInv ==
    ASSUME AccessInv, NEW name \in DOMAIN callers, DeleteCaller(name)
    PROVE  AccessInv'
<1>1. Rows'
  BY DEF DeleteCaller, revoke, AccessInv, Rows, Tokens
<1>2. InFlight'
  BY DEF DeleteCaller, AccessInv, InFlight, Tokens
<1> QED
  BY <1>1, <1>2, SameGrants DEF AccessInv, DeleteCaller

\* A mint by hand.
LEMMA PostInv ==
    ASSUME AccessInv, NEW mint, NEW replace, PostCallers(mint, replace)
    PROVE  AccessInv'
<1>1. /\ create_caller(mint.name, mint.policy_path)
      /\ UNCHANGED <<daemon, requests, grant, bundle>>
  BY DEF PostCallers
<1> QED
  BY <1>1, MintRows, MintBundle, MintGrant DEF AccessInv

\* A grant starts with nothing minted and everything to do.
LEMMA StartInv ==
    ASSUME AccessInv, NEW spec \in GrantSpecs, GrantStart(spec)
    PROVE  AccessInv'
<1>1. /\ grant' = [spec |-> spec, todo |-> spec.roles, minted |-> << >>, failures |-> 0]
      /\ UNCHANGED <<daemon, callers, requests, bundle, issued>>
  BY DEF GrantStart
<1>2. Rows' /\ InFlight' /\ BundleFiled'
  BY <1>1 DEF AccessInv, Rows, InFlight, BundleFiled, Filed, Tokens
<1>3. GrantSound'
  <2>1. grant'.todo \in Seq(STRING)
    BY <1>1, AccessAssumption
  <2>2. DOMAIN grant'.minted = {}
    BY <1>1
  <2>3. Listed(grant'.todo) = Listed(grant'.spec.roles)
    BY <1>1
  <2> QED
    BY <1>1, <2>1, <2>2, <2>3 DEF GrantSound, Filed
<1> QED
  BY <1>2, <1>3 DEF AccessInv

\* The answer 201 files a new token under the role that was next.
LEMMA GrantMintInv ==
    ASSUME AccessInv, GrantMint
    PROVE  AccessInv'
<1> DEFINE role == Head(grant.todo)
<1>1. PICK name, path : name = CallerOf(grant.spec, role) /\ path = PathOf(grant.spec, role)
  OBVIOUS
<1>2. create_caller(name, path)
  BY <1>1 DEF GrantMint, GrantCreates
<1>3. UNCHANGED <<daemon, requests, bundle>>
  BY DEF GrantMint
<1>4. /\ grant # NoGrant /\ grant.todo # << >>
      /\ grant = [spec |-> grant.spec, todo |-> grant.todo, minted |-> grant.minted,
                  failures |-> grant.failures]
      /\ grant.todo \in Seq(STRING) /\ grant.failures \in Nat
  BY DEF GrantMint, InGrant, AccessInv, GrantSound
<1>5. PICK spec, todo, minted, failures :
        /\ spec = grant.spec /\ todo = grant.todo /\ minted = grant.minted
        /\ failures = grant.failures
  OBVIOUS
<1>6. PICK r : r = Head(todo)
  OBVIOUS
<1>7. grant' = [spec |-> spec, todo |-> Tail(todo),
                minted |-> Put(minted, r, Len(issued) + 1), failures |-> failures]
  <2>1. grant' = [grant EXCEPT !.todo = Tail(todo), !.minted = Put(minted, r, Len(issued) + 1)]
    BY <1>5, <1>6 DEF GrantMint
  <2> QED
    BY <1>4, <1>5, <2>1
<1>8. /\ Filed(spec, minted)
      /\ failures = 0 => DOMAIN minted \cup Listed(todo) = Listed(spec.roles)
  BY <1>4, <1>5 DEF AccessInv, GrantSound
<1>9. /\ Tail(todo) \in Seq(STRING)
      /\ Listed(todo) = {r} \cup Listed(Tail(todo))
  BY <1>4, <1>5, <1>6, ListedHeadTail
<1>10. PICK new : new = Put(minted, r, Len(issued) + 1)
  OBVIOUS
<1>11. /\ DOMAIN new = DOMAIN minted \cup {r}
       /\ new[r] = Len(issued) + 1
       /\ \A y \in DOMAIN minted \ {r} : new[y] = minted[y]
  BY <1>10 DEF Put
<1>12. /\ Tokens \subseteq Tokens' /\ Len(issued) + 1 \in Tokens'
       /\ Len(issued) + 1 \notin Tokens
       /\ \A k \in Tokens : issued'[k] = issued[k]
       /\ issued'[Len(issued) + 1] = CallerOf(spec, r)
  BY <1>1, <1>2, <1>5, <1>6, MintIssues
<1>13. Filed(spec, new)'
  BY <1>8, <1>11, <1>12 DEF Filed
<1>14. GrantSound'
  BY <1>4, <1>5, <1>7, <1>8, <1>9, <1>10, <1>11, <1>13 DEF GrantSound
<1> QED
  BY <1>2, <1>3, <1>14, MintRows, MintBundle DEF AccessInv

\* A role that is skipped marks the grant.
LEMMA GrantSkipInv ==
    ASSUME AccessInv, GrantSkip
    PROVE  AccessInv'
<1>1. UNCHANGED <<daemon, callers, requests, bundle, issued>>
  BY DEF GrantSkip
<1>2. Rows' /\ InFlight' /\ BundleFiled'
  BY <1>1 DEF AccessInv, Rows, InFlight, BundleFiled, Filed, Tokens
<1>3. /\ grant # NoGrant /\ grant.todo # << >>
      /\ grant = [spec |-> grant.spec, todo |-> grant.todo, minted |-> grant.minted,
                  failures |-> grant.failures]
      /\ grant.todo \in Seq(STRING) /\ grant.failures \in Nat
      /\ Filed(grant.spec, grant.minted)
  BY DEF GrantSkip, InGrant, AccessInv, GrantSound
<1>4. grant' = [spec |-> grant.spec, todo |-> Tail(grant.todo), minted |-> grant.minted,
                failures |-> grant.failures + 1]
  BY <1>3 DEF GrantSkip
<1>5. Tail(grant.todo) \in Seq(STRING)
  BY <1>3, ListedHeadTail
<1>6. GrantSound'
  BY <1>1, <1>3, <1>4, <1>5 DEF GrantSound, Filed, Tokens
<1> QED
  BY <1>2, <1>6 DEF AccessInv

\* A grant that is cut off leaves what it minted, and perhaps one token more.
LEMMA GrantUnreachableInv ==
    ASSUME AccessInv, GrantUnreachable
    PROVE  AccessInv'
<1>1. grant' = NoGrant /\ UNCHANGED <<daemon, requests, bundle>>
  BY DEF GrantUnreachable
<1>2. GrantSound'
  BY <1>1 DEF GrantSound
<1>3. CASE UNCHANGED <<callers, issued>>
  BY <1>1, <1>2, <1>3 DEF AccessInv, Rows, InFlight, BundleFiled, Filed, Tokens
<1>4. CASE GrantCreates
  <2>1. PICK name, path : create_caller(name, path)
    BY <1>4 DEF GrantCreates
  <2> QED
    BY <1>1, <1>2, <2>1, MintRows, MintBundle DEF AccessInv
<1> QED
  BY <1>3, <1>4 DEF GrantUnreachable

\* The bundle of a grant that minted everything is complete.
LEMMA GrantEndInv ==
    ASSUME AccessInv, GrantEnd
    PROVE  AccessInv'
<1>1. /\ grant # NoGrant /\ grant.todo = << >> /\ grant' = NoGrant
      /\ UNCHANGED <<daemon, callers, requests, issued>>
  BY DEF GrantEnd
<1>2. Rows' /\ InFlight' /\ GrantSound'
  BY <1>1 DEF AccessInv, Rows, InFlight, GrantSound, Tokens
<1>3. CASE UNCHANGED bundle
  BY <1>1, <1>2, <1>3 DEF AccessInv, BundleFiled, Filed, Tokens
<1>4. CASE grant.failures = 0 /\ bundle' = [spec |-> grant.spec, tokens |-> grant.minted]
  <2>1. Listed(grant.todo) = {}
    BY <1>1 DEF Listed
  <2>2. /\ Filed(grant.spec, grant.minted)
        /\ DOMAIN grant.minted = Listed(grant.spec.roles)
    BY <1>1, <1>4, <2>1 DEF AccessInv, GrantSound
  <2>3. BundleFiled'
    BY <1>1, <1>4, <2>2 DEF BundleFiled, Filed, Tokens
  <2> QED
    BY <1>2, <2>3 DEF AccessInv
<1> QED
  BY <1>3, <1>4 DEF GrantEnd, compose_bundle

\* Every step keeps the invariant.
LEMMA NextInv ==
    ASSUME AccessInv, [Next]_vars
    PROVE  AccessInv'
<1>1. CASE \/ \E args \in DOMAIN Generated, merge \in BOOLEAN : InitPolicy(args, merge)
           \/ \E edit \in Edits : EditPolicy(edit)
           \/ \E w \in NewWallets : AddWallet(w)
           \/ Start \/ StartWithoutPolicy \/ UNCHANGED vars
  <2>1. daemon \in {"up", "down"}
    BY DEF AccessInv, Rows
  <2>2. daemon' \in {"up", "down"} /\ UNCHANGED <<callers, requests, grant, bundle, issued>>
    BY <1>1, <2>1 DEF InitPolicy, EditPolicy, AddWallet, Start, StartWithoutPolicy, vars
  <2> QED
    BY <2>2, DaemonInv
<1>2. CASE Stop
  BY <1>2, StopInv
<1>3. CASE \E mint \in Mints, replace \in BOOLEAN : PostCallers(mint, replace)
  BY <1>3, PostInv
<1>4. CASE \E name \in DOMAIN callers : DeleteCaller(name)
  BY <1>4, DeleteInv
<1>5. CASE \/ \E s \in Sessions, key \in Tokens : Authenticate(s, key)
           \/ \E s \in Sessions, ask \in Asks : SignAsk(s, ask)
           \/ \E s \in Sessions : Answer(s)
  BY <1>5, RequestInv
<1>6. CASE \E spec \in GrantSpecs : GrantStart(spec)
  BY <1>6, StartInv
<1>7. CASE GrantMint
  BY <1>7, GrantMintInv
<1>8. CASE GrantSkip
  BY <1>8, GrantSkipInv
<1>9. CASE GrantUnreachable
  BY <1>9, GrantUnreachableInv
<1>10. CASE GrantEnd
  BY <1>10, GrantEndInv
<1> QED
  BY <1>1, <1>2, <1>3, <1>4, <1>5, <1>6, <1>7, <1>8, <1>9, <1>10 DEF Next

-----------------------------------------------------------------------------
(***************************************************************************)
(* The theorems.                                                           *)
(***************************************************************************)

\* The invariant holds of every behaviour.
LEMMA Invariance == Spec => []AccessInv
<1>1. Init => AccessInv
  BY InitInv
<1>2. AccessInv /\ [Next]_vars => AccessInv'
  BY NextInv
<1> QED
  BY <1>1, <1>2, PTL DEF Spec

\* Rows, requests, grants and bundles refer to tokens that were minted,
\* however many requests, mints, restarts and grants there are.
THEOREM TypeCorrect == Spec => []TypeOK
<1>1. AccessInv => TypeOK
  BY DEF AccessInv, Rows, InFlight, GrantSound, BundleFiled, Filed, TypeOK
<1> QED
  BY <1>1, Invariance, PTL

\* Every bundle that is written holds one token for each capability of its
\* spec, minted for the caller of that capability, and no token twice,
\* although mints are refused, lost, or overtaken by other mints.
THEOREM Bundles == Spec => []BundleComplete
<1>1. AccessInv => BundleComplete
  BY DEF AccessInv, BundleFiled, Filed, Listed, BundleComplete
<1> QED
  BY <1>1, Invariance, PTL

\* A mint revives no token: its key is new, and the other rows stay.
LEMMA MintKeepsDead ==
    ASSUME AccessInv, NEW name, NEW path, create_caller(name, path)
    PROVE  Dead \subseteq Dead'
<1>1. Tokens \subseteq Tokens' /\ Len(issued) + 1 \notin Tokens
  BY MintIssues
<1>2. callers'[name].key = Len(issued) + 1
  <2>1. callers'[name] = [policy_path |-> path, key |-> Len(issued) + 1, status |-> "active"]
    BY MintIssues
  <2> QED
    BY <2>1
<1>3. DOMAIN callers' = DOMAIN callers \cup {name}
  BY MintIssues
<1>4. \A n \in DOMAIN callers \ {name} : callers'[n] = callers[n]
  BY MintIssues
<1> SUFFICES ASSUME NEW k \in Dead, NEW n \in DOMAIN callers', Active(n)'
             PROVE  callers'[n].key # k
  BY <1>1 DEF Dead
<1>5. CASE n = name
  BY <1>1, <1>2, <1>5 DEF Dead
<1>6. CASE n # name
  BY <1>3, <1>4, <1>6 DEF Dead, Active
<1> QED
  BY <1>5, <1>6

\* A request that starts holds a token that is not dead.
LEMMA StartsAlive ==
    ASSUME AccessInv, NEW s \in Sessions, NEW key \in Tokens, Authenticate(s, key),
           NEW t \in Sessions, requests'[t] # Idle, requests[t] = Idle
    PROVE  requests'[t].key \notin Dead
<1>1. PICK n \in resolve_caller(key) :
         requests' = [requests EXCEPT ![s] =
              [name |-> n, policy_path |-> callers[n].policy_path, key |-> key, signed |-> NoAsk]]
  BY DEF Authenticate
<1>2. t = s
  BY <1>1 DEF AccessInv, InFlight
<1>3. requests'[t].key = key
  BY <1>1, <1>2 DEF AccessInv, InFlight
<1> QED
  BY <1>1, <1>3 DEF resolve_caller, Dead

\* What RevokedStaysOut says of a step.
LEMMA RevocationStep ==
    ASSUME AccessInv, [Next]_vars
    PROVE  /\ Dead \subseteq Dead'
           /\ \A s \in Sessions :
                 requests'[s] # Idle /\ requests[s] = Idle => requests'[s].key \notin Dead'
<1>1. CASE UNCHANGED <<callers, requests, issued>>
  BY <1>1 DEF Dead, Active, Tokens
<1>2. CASE Stop
  BY <1>2 DEF Stop, Dead, Active, Tokens
<1>3. ASSUME NEW name, NEW path, create_caller(name, path), UNCHANGED requests
      PROVE  /\ Dead \subseteq Dead'
             /\ \A s \in Sessions :
                   requests'[s] # Idle /\ requests[s] = Idle => requests'[s].key \notin Dead'
  BY <1>3, MintKeepsDead
<1>4. CASE \E name \in DOMAIN callers : DeleteCaller(name)
  <2>1. PICK name \in DOMAIN callers : DeleteCaller(name)
    BY <1>4
  <2>2. UNCHANGED <<requests, issued>> /\ DOMAIN callers' = DOMAIN callers
    BY <2>1 DEF DeleteCaller, revoke
  <2>3. \A n \in DOMAIN callers :
           callers'[n].key = callers[n].key /\ (callers'[n].status = "active" => callers[n].status = "active")
    BY <2>1 DEF DeleteCaller, revoke, AccessInv, Rows
  <2> QED
    BY <2>2, <2>3 DEF Dead, Active, Tokens
<1>5. CASE \E s \in Sessions, key \in Tokens : Authenticate(s, key)
  <2>1. PICK s \in Sessions, key \in Tokens : Authenticate(s, key)
    BY <1>5
  <2>2. Dead' = Dead
    BY <2>1 DEF Authenticate, Dead, Active, Tokens
  <2> QED
    BY <2>1, <2>2, StartsAlive
<1>6. CASE \/ \E s \in Sessions, ask \in Asks : SignAsk(s, ask)
           \/ \E s \in Sessions : Answer(s)
  <2>1. UNCHANGED <<callers, issued>>
    BY <1>6 DEF SignAsk, Answer
  <2>2. \A s \in Sessions : requests[s] = Idle => requests'[s] = Idle
    BY <1>6 DEF SignAsk, Answer, AccessInv, InFlight
  <2> QED
    BY <2>1, <2>2 DEF Dead, Active, Tokens
<1>7. CASE \E mint \in Mints, replace \in BOOLEAN : PostCallers(mint, replace)
  BY <1>3, <1>7 DEF PostCallers
<1>8. CASE GrantMint \/ GrantUnreachable
  BY <1>1, <1>3, <1>8 DEF GrantMint, GrantUnreachable, GrantCreates
<1>9. CASE \/ \E args \in DOMAIN Generated, merge \in BOOLEAN : InitPolicy(args, merge)
           \/ \E edit \in Edits : EditPolicy(edit)
           \/ \E w \in NewWallets : AddWallet(w)
           \/ Start \/ StartWithoutPolicy \/ UNCHANGED vars
           \/ \E spec \in GrantSpecs : GrantStart(spec)
           \/ GrantSkip \/ GrantEnd
  BY <1>1, <1>9 DEF InitPolicy, EditPolicy, AddWallet, Start, StartWithoutPolicy, vars,
                    GrantStart, GrantSkip, GrantEnd
<1> QED
  BY <1>2, <1>4, <1>5, <1>6, <1>7, <1>8, <1>9 DEF Next

\* A revoked token stays dead through every mint, rotation and restart, and
\* no request ever starts with it.
THEOREM RevocationFinal == Spec => RevokedStaysOut
<1>1. AccessInv /\ [Next]_vars =>
        [ /\ Dead \subseteq Dead'
          /\ \A s \in Sessions :
                requests'[s] # Idle /\ requests[s] = Idle => requests'[s].key \notin Dead' ]_vars
  BY RevocationStep
<1> QED
  BY <1>1, Invariance, PTL DEF Spec, RevokedStaysOut
=============================================================================
