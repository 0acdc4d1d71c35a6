----------------------------- MODULE StockLedger -----------------------------
(***************************************************************************)
(* What a warehouse promises about the stock of an account (a SKU): an     *)
(* event-sourced balance.  Stock and the total of the posted deltas move   *)
(* together under a new revision; a miscount moves the stock alone and a   *)
(* redaction the postings alone, both under the old revision, so the gap   *)
(* between the two is never closed by an ordinary posting.                 *)
(***************************************************************************)
EXTENDS Integers

CONSTANTS Accounts, Unlisted, Openings

VARIABLE book  \* account -> [stock, posted, revision], or Unlisted

vars == book

StaysListed(a) == book[a] # Unlisted /\ book'[a] # Unlisted

OthersUnchanged(a) == \A b \in Accounts \ {a} : book'[b] = book[b]

Init == book \in Openings

Post(a) ==
  /\ StaysListed(a)
  /\ book'[a].revision > book[a].revision
  /\ book'[a].stock - book[a].stock = book'[a].posted - book[a].posted
  /\ OthersUnchanged(a)

Miscount(a) ==
  /\ StaysListed(a)
  /\ book'[a].stock >= 0
  /\ book'[a] = [book[a] EXCEPT !.stock = book'[a].stock]
  /\ OthersUnchanged(a)

Redact(a) ==
  /\ StaysListed(a)
  /\ book'[a] = [book[a] EXCEPT !.posted = book'[a].posted]
  /\ OthersUnchanged(a)

Reopen == book' \in Openings

Next ==
  \/ \E a \in Accounts : Post(a) \/ Miscount(a) \/ Redact(a)
  \/ Reopen

Spec == Init /\ [][Next]_vars
=============================================================================
