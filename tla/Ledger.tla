------------------------------- MODULE Ledger -------------------------------
(***************************************************************************)
(* What the nonce and transaction tables promise together, without leases, *)
(* attempts, statuses, idempotency keys or a next_nonce counter: a book of *)
(* entries, each with an account and a nonce, open until it is settled.    *)
(* The nonce of a new entry is nobody else's and above what the chain is   *)
(* known to have confirmed.  Signing implements this book.                 *)
(***************************************************************************)
EXTENDS Integers

CONSTANTS
    Accounts,
    Ids,        \* the numbers of entries
    Nonces      \* the nonces of the chain

VARIABLES
    book,       \* the entries by number: [acct, nonce, state]
    confirmed,  \* the nonce known to be confirmed last, -1 before the first
    suspended   \* accounts that an operator re-seeded over open entries

vars == <<book, confirmed, suspended>>

Entry(a, n) == [acct |-> a, nonce |-> n, state |-> "open"]

HasOpen(a) == \E i \in DOMAIN book : book[i].acct = a /\ book[i].state = "open"

Holds(a, n) == \E i \in DOMAIN book : book[i].acct = a /\ book[i].state = "open" /\ book[i].nonce = n

Init ==
    /\ book = << >>
    /\ confirmed = [a \in Accounts |-> -1]
    /\ suspended = {}

\* An entry is added with a nonce that is free to use.
Open(i, a, n) ==
    /\ a \notin suspended => ~Holds(a, n) /\ n > confirmed[a]
    /\ book' = [j \in DOMAIN book \cup {i} |-> IF j = i THEN Entry(a, n) ELSE book[j]]
    /\ UNCHANGED <<confirmed, suspended>>

\* An open entry is settled, for good.
Closes(i) ==
    /\ book[i].state = "open"
    /\ book' = [book EXCEPT ![i].state = "settled"]

\* The transaction never reached the chain.
Reject(i) ==
    /\ Closes(i)
    /\ UNCHANGED <<confirmed, suspended>>

\* The chain has the transaction: its nonce, and all below it, are confirmed.
Confirm(i) ==
    /\ Closes(i)
    /\ LET a == book[i].acct
       IN  confirmed' = [confirmed EXCEPT ![a] = IF @ < book[i].nonce THEN book[i].nonce ELSE @]
    /\ UNCHANGED suspended

\* The chain is ahead of the book: nothing open is at or above its nonce.
Sync(a, n) ==
    /\ confirmed' = [confirmed EXCEPT ![a] = n]
    /\ a \notin suspended =>
          /\ n > confirmed[a]
          /\ \A i \in DOMAIN book : book[i].acct = a /\ book[i].state = "open" => book[i].nonce < n
    /\ UNCHANGED <<book, suspended>>

\* An operator starts the account afresh: over open entries the promise is
\* suspended, without any it is renewed.
Reseed(a) ==
    /\ confirmed' = [confirmed EXCEPT ![a] = -1]
    /\ \/ HasOpen(a) /\ suspended' = suspended \cup {a}
       \/ ~HasOpen(a) /\ suspended' = suspended \ {a}
    /\ UNCHANGED book

Next ==
    \/ \E i \in Ids \ DOMAIN book, a \in Accounts, n \in Nonces : Open(i, a, n)
    \/ \E i \in DOMAIN book : Reject(i) \/ Confirm(i)
    \/ \E a \in Accounts, n \in Nonces : Sync(a, n)
    \/ \E a \in Accounts : Reseed(a)

Spec == Init /\ [][Next]_vars
=============================================================================
